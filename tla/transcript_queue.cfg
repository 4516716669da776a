CONSTANTS
  MaxSeq = 4
  Attachers = {a1, a2}
  Ansi = {a2}
SPECIFICATION FairSpec
INVARIANTS
  JournalInOrder
  AttachGapless
PROPERTIES AttachmentsEnd
  RefinesOrderedLog
CHECK_DEADLOCK FALSE
