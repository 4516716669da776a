CONSTANTS
  MaxSeq = 2
  MaxChunks = 0
  Silent = TRUE
  Handlers = {h1, h2}
  Stallers = {}
  Attachers = {a1}
  Ansi = {}
SPECIFICATION Spec
INVARIANTS
  EverySeqAccounted
  TurnsAccounted
  EntriesFinal
PROPERTIES
  UsesPrintQueue
  UsesTranscriptQueue
CHECK_DEADLOCK FALSE
