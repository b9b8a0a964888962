\* Pruning, a manual run next to the loop, a failing transfer, a crash.
SPECIFICATION Spec
CONSTANTS
  Targets = {t1, t2}
  Enabled = {t1, t2}
  Immediate = {t1}
  Scheduled = {t2}
  Untimed = {t2}
  Loop = loop
  Manual = {m1}
  Retention = "prune"
  OnePerSecond = TRUE
  MaxClock = 2
  MaxSuffix = 0
  MaxRecs = 2
  MaxNetFaults = 1
  MaxCrashes = 1
  MaxRequeues = 1
  None = none
INVARIANTS TypeOK DoneIsRemote RemovedIsUploaded
