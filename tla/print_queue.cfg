CONSTANTS
  MaxSeq = 3
  MaxChunks = 2
  Silent = FALSE
SPECIFICATION MCFairSpec
INVARIANTS
  OneVoice
  ConsoleOrdered
  ConsoleComplete
PROPERTIES EveryTurnComes
