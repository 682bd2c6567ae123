CONSTANTS
  RunIds = {"r1"}
  Queries = {"deny"}
  MaxActions = 2
  MaxArgs = 1
SPECIFICATION Spec
CHECK_DEADLOCK FALSE
INVARIANTS
  BypassIsFlagged
