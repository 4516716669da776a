CONSTANTS
  MaxCmds = 1
  MaxAborts = 0
  Escapes = {"detach"}
SPECIFICATION HostSpec
PROPERTIES
  TimeoutEnds
CHECK_DEADLOCK FALSE
