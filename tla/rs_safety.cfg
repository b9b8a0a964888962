\* Two processes, every request, one crash of either process.
SPECIFICATION Spec
CONSTANTS
  WebProc = web
  LoopProc = acquire
  Sched = sched
  Clients = {c1}
  Runs = {r1, r2}
  Ops = {"record", "capture", "stop", "status", "bench", "diagnose", "disable", "enable"}
  Windowed = TRUE
  Overviews = TRUE
  MaxDbFaults = 0
  MaxCrashes = 1
  None = none
INVARIANTS TypeOK PortExclusive Stoppable
PROPERTY PortMutexSpec
SYMMETRY RunSymmetry
