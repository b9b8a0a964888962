\* A station whose instrument table is older than instrument.program_id.
SPECIFICATION Spec
CONSTANTS
  UserNames = {"ann", "bob"}
  ProgramNames = {"quiet", "even"}
  Tokens = {t1, t2}
  Posts = {p1, p2}
  NoId = noid
  Added = {"instrument.program"}
  Scenarios <- MCScenarios
  MaxId = 2
  MaxRequests = 5
  MaxFaults = 0
INVARIANT NoDangling
CHECK_DEADLOCK FALSE
