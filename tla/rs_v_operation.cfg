\* diagnose and the scheduled overview take no flock.
SPECIFICATION Spec
CONSTANTS
  WebProc = web
  LoopProc = acquire
  Sched = sched
  Clients = {c1}
  Runs = {r1, r2}
  Ops = {"diagnose"}
  Windowed = TRUE
  Overviews = TRUE
  MaxDbFaults = 0
  MaxCrashes = 0
  None = none
INVARIANT OneOperation
