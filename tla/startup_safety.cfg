CONSTANTS
  Processes = {p1, p2, p3, p4}
  NoFile = none
  MaxCrashes = 2
  MaxSeconds = 3
SPECIFICATION Spec
INVARIANTS
  SoleOwnerUnlessRaced
  LoneStartSucceeds
  NoPathLeft
CHECK_DEADLOCK FALSE
