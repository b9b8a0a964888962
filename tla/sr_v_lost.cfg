\* A recording from a device that goes away.
SPECIFICATION FairSpec
CONSTANTS
  Kinds = {"fpga", "rx888"}
  N = 2
  Powers <- MCPowers
  MaxSweeps = 2
PROPERTY LossNoticed
