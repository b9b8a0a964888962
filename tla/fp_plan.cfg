\* Bands of a few grid steps, every position of the excluded band.
SPECIFICATION Spec
CONSTANTS
  Starts <- MCStarts
  Stops <- MCStops
  Edges <- MCEdges
  Sweeps <- MCSweeps
  MaxChannels = 5
INVARIANTS PlanSound TunedAlike
\* A run ends when the program was imported or refused.
CHECK_DEADLOCK FALSE
