CONSTANTS
  MaxItems = 6
  Modes <- AllModes
  SourceMayFail = TRUE
  MayInterrupt = TRUE
SPECIFICATION FairSpec
INVARIANTS
  CountIsTotalWhenComplete
  QueueBounded
PROPERTIES
  ImplementsPlainIterator
  CallerIsServed
  NextReplenishes
CHECK_DEADLOCK FALSE
