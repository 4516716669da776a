CONSTANTS
  MaxBytes = 6
  MaxEntries = 4
  MaxFailures = 2
  Wide = {1, 2}
SPECIFICATION PathSpec
INVARIANTS
  FilterExact
  RenderedOnce
  OnlyDroppedLost
  ListedWithinFailures
PROPERTIES
  FollowerCatchesUp
CHECK_DEADLOCK FALSE
