CONSTANTS
  MaxSeq = 2
  MaxChunks = 0
  Silent = FALSE
  Handlers = {h1, h2}
  Stallers = {h2}
  Attachers = {}
  Ansi = {}
SPECIFICATION HandlerSpec
PROPERTIES
  Answered
CHECK_DEADLOCK FALSE
