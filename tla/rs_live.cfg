\* Two processes, free-run, bench sessions, a failing database write and a crash.
SPECIFICATION FairSpec
CONSTANTS
  WebProc = web
  LoopProc = acquire
  Sched = sched
  Clients = {c1}
  Runs = {r1, r2}
  Ops = {"record", "stop", "bench"}
  Windowed = FALSE
  Overviews = FALSE
  MaxDbFaults = 1
  MaxCrashes = 1
  None = none
PROPERTIES ReArm StopRespected RowSettles
