CONSTANTS
  Callers = {c1, c2}
  Worker = w
  Conns = {1, 2, 3, 4}
  NoConn = none
  MaxCalls = 2
  MaxCrashes = 2
  Suspends = FALSE
  MaxBacklog = 1
  Slow = TRUE
  Deadline = TRUE
SPECIFICATION Spec
SYMMETRY Symmetry
INVARIANTS
  ActiveCounted
  PoolBounded
  IdleClean
  OwnAnswer
  SentAtMostOnce
  NeverRefused
CHECK_DEADLOCK FALSE
