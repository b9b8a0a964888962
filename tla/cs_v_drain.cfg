\* Timeouts in the proportions of the code: a budget of three resets within a
\* window that is longer than three stalls.  The consumer may outlast a stall.
SPECIFICATION FairSpec
CONSTANTS
  Timeout = 2
  Window = 12
  Budget = 3
  FramesPerFile = 2
  Period = 1
  MaxSlow = 3
  Kinds = {"babble"}
  MaxFaults = 3
  MaxChunk = 2
  MaxSweeps = 3
  None = none
PROPERTY HealEnds
CHECK_DEADLOCK FALSE
