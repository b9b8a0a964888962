\* The recorder next to the loop and manual runs, with a dated archive; the
\* target is an SFTP server, whose transfers may hang.
SPECIFICATION DbFairSpec
CONSTANTS
  Targets = {t1}
  Enabled = {t1}
  Immediate = {t1}
  Scheduled = {}
  Untimed = {t1}
  Loop = loop
  Manual = {m1}
  Retention = "archive"
  OnePerSecond = TRUE
  MaxClock = 2
  MaxSuffix = 0
  MaxRecs = 2
  MaxNetFaults = 1
  MaxCrashes = 1
  MaxRequeues = 1
  None = none
PROPERTIES Delivered LockReleased
