SPECIFICATION FairOutboxSpec
CONSTANTS
  Rows = {1, 2}
  Procs = {p1, p2}
  Limit = 2
  Batch = 2
  MaxCrashes = 2
  None = None
INVARIANTS
  DispatchedOncePerAttempt
  VoidIsEarned
PROPERTIES EveryRowSettles
CHECK_DEADLOCK FALSE
