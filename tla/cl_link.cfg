\* Samples of two digits of base 4, sweeps of two samples.
SPECIFICATION LinkSpec
CONSTANTS
  Base = 4
  Width = 2
  Eight = 4
  Ten = 8
  EndMarker = 11
  NChannels = 2
  Samples <- MCSamples
  Channels = 1
  Patience = 2
  MaxEmpty = 2
  MaxSent = 3
  MaxLate = 1
  MaxLost = 1
  MaxHeals = 1
  MaxSessions = 2
INVARIANTS ParserCorrect SweepsTrue FirmwareRight
CHECK_DEADLOCK FALSE
