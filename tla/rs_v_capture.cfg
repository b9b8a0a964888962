\* The default deployment: one process, one registry.
SPECIFICATION Spec
CONSTANTS
  WebProc = station
  LoopProc = station
  Sched = sched
  Clients = {c1}
  Runs = {r1, r2}
  Ops = {"capture"}
  Windowed = FALSE
  Overviews = FALSE
  MaxDbFaults = 0
  MaxCrashes = 0
  None = none
INVARIANT CapturesSpared
