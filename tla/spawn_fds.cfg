CONSTANTS
  Cmds = {c1, c2}
  Fed = {c1, c2}
  Host = host
SPECIFICATION FairSpec
INVARIANTS
  DescriptorsStayHome
PROPERTIES
  EndedIsAnswered
  StdinEnds
CHECK_DEADLOCK FALSE
