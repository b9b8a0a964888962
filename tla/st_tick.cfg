\* Two instruments, one process, two samples a day.
SPECIFICATION FairSpec
CONSTANTS
  Day = 2
  Sources = {"cas_a"}
  NotATime = notatime
  N = 2
  Templates <- MCTemplates
  Stations <- MCStations
  Split = FALSE
  MaxDays = 1
  MaxScheds = 2
  MaxRequests = 1
  MaxReboots = 1
  MaxFaults = 1
INVARIANTS SkyFollowed StopKept OverviewOnce
PROPERTIES Served WindowCloses
CHECK_DEADLOCK FALSE
