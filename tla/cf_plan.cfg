\* One station, new or in use, and five requests.
SPECIFICATION Spec
CONSTANTS
  UserNames = {"ann", "bob"}
  ProgramNames = {"quiet", "even"}
  Tokens = {t1, t2}
  Posts = {p1, p2}
  NoId = noid
  Added = {}
  Scenarios <- MCScenarios
  MaxId = 2
  MaxRequests = 5
  MaxFaults = 1
INVARIANT NoDangling
PROPERTIES PlanKept SessionKept
SYMMETRY Symmetry
CHECK_DEADLOCK FALSE
