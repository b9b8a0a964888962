\* The window of the Sun at a station where it is up across 0 UT, or all day.
SPECIFICATION Spec
CONSTANTS
  Day = 2
  Sources = {"cas_a"}
  NotATime = notatime
  N = 2
  Templates <- MCTemplates
  Stations <- MCStations
  Split = FALSE
  MaxDays = 1
  MaxScheds = 2
  MaxRequests = 1
  MaxReboots = 1
  MaxFaults = 1
INVARIANT SunTracked

CHECK_DEADLOCK FALSE
