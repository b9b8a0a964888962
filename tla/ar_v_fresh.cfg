\* A device that never fails.
SPECIFICATION Spec
CONSTANTS
  Bound = 3
  Budget = 2
  Window = 6
  Faulty = FALSE
  MaxCrashes = 0
  Never = never
INVARIANT FreshStartSpared
