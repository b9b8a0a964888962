\* Two viewers, one of them slow; an instrument recorded in each process.
SPECIFICATION FairSpec
CONSTANTS
  Instr = {near, far}
  Remote = {far}
  Conns = {c1, c2}
  Slow = {c2}
  QueueMax = 1
  Grace = 1
  BufferMax = 1
  MaxFrames = 2
  MaxStray = 1
  MaxCrashes = 1
INVARIANT FeedFaithful
PROPERTY StallShown
\* Nothing happens when no viewer is left and no instrument records.
CHECK_DEADLOCK FALSE
