CONSTANTS
  MaxSeq = 2
  MaxChunks = 0
  Silent = FALSE
  Handlers = {h1, h2}
  Stallers = {}
  Attachers = {}
  Ansi = {}
SPECIFICATION Spec
INVARIANTS
  EveryRunJournaled
CHECK_DEADLOCK FALSE
