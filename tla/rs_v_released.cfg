\* A Stop that reaches a recording which is ending.
SPECIFICATION Spec
CONSTANTS
  WebProc = web
  LoopProc = acquire
  Sched = sched
  Clients = {c1}
  Runs = {r1, r2}
  Ops = {"record", "stop"}
  Windowed = FALSE
  Overviews = FALSE
  MaxDbFaults = 0
  MaxCrashes = 0
  None = none
INVARIANT PortReleased
