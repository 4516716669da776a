CONSTANTS
  MaxCmds = 2
  MaxAborts = 2
  Escapes = {"setsid", "detach"}
SPECIFICATION HostSpec
INVARIANTS
  NoStraySignal
  NoSilentKill
  NoRequestSwallowed
  InterruptedNeverRuns
PROPERTIES
  EveryRequestAnswered
  TimeoutEndsGroup
  AbortEndsGroup
CHECK_DEADLOCK FALSE
