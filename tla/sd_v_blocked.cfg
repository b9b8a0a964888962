\* The server of one target stops answering in a transfer.
SPECIFICATION DbFairSpec
CONSTANTS
  Targets = {t1, t2}
  Enabled = {t1, t2}
  Immediate = {t1, t2}
  Scheduled = {}
  Untimed = {t1}
  Loop = loop
  Manual = {}
  Retention = "keep"
  OnePerSecond = TRUE
  MaxClock = 2
  MaxSuffix = 0
  MaxRecs = 2
  MaxNetFaults = 0
  MaxCrashes = 0
  MaxRequeues = 0
  None = none
PROPERTY Rearms
