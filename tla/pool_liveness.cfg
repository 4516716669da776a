CONSTANTS
  Callers = {c1}
  Worker = w
  Conns = {1, 2, 3}
  NoConn = none
  MaxCalls = 2
  MaxCrashes = 2
  Suspends = TRUE
  MaxBacklog = 1
  Slow = FALSE
  Deadline = TRUE
SPECIFICATION FairSpec
PROPERTIES
  CallsEnd
  CallsReachHost
CHECK_DEADLOCK FALSE
