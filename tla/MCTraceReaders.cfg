CONSTANTS
  RunIds = {"r1", "r2"}
  Queries = {"", "deny", "action.executed"}
  MaxActions = 2
  MaxArgs = 2
SPECIFICATION Spec
CHECK_DEADLOCK FALSE
INVARIANTS
  SuccessMeansClean
  FailureHasCause
  SearchFaithful
