\* A device that may be mute before its first frame.
SPECIFICATION FairSpec
CONSTANTS
  Bound = 3
  Budget = 2
  Window = 6
  Faulty = TRUE
  MaxCrashes = 0
  Never = never
PROPERTY MuteNoticed
