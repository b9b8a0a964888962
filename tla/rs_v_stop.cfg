\* Two processes, one failing row write.
SPECIFICATION FairSpec
CONSTANTS
  WebProc = web
  LoopProc = acquire
  Sched = sched
  Clients = {c1}
  Runs = {r1, r2}
  Ops = {"record", "stop"}
  Windowed = FALSE
  Overviews = FALSE
  MaxDbFaults = 1
  MaxCrashes = 0
  None = none
PROPERTY StopAlways
