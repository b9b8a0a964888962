\* One restart of the daemon; a window in which the budget is used up.
SPECIFICATION FairSpec
CONSTANTS
  Bound = 3
  Budget = 2
  Window = 6
  Faulty = TRUE
  MaxCrashes = 1
  Never = never
INVARIANTS TypeOK BudgetHeld
PROPERTIES Escalates Calms
