\* Two recordings that begin within one second.
SPECIFICATION Spec
CONSTANTS
  Targets = {t1, t2}
  Enabled = {t1, t2}
  Immediate = {t1, t2}
  Scheduled = {}
  Untimed = {}
  Loop = loop
  Manual = {}
  Retention = "prune"
  OnePerSecond = FALSE
  MaxClock = 1
  MaxSuffix = 1
  MaxRecs = 2
  MaxNetFaults = 0
  MaxCrashes = 0
  MaxRequeues = 0
  None = none
INVARIANT RemovedIsUploaded
