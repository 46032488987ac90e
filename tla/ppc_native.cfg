CONSTANTS
  j1 = j1
  j2 = j2
  Threads <- MCThreads
  Methods <- MCMethods
  Callees <- MCCallees
  MaxCalls = 1
  MaxEpoch = 1
  None = None
SPECIFICATION FairSpec
INVARIANTS
  SafepointExcludesJava
  ReferencesCurrent
  MonitorProtects
PROPERTIES
  SafepointReached
CHECK_DEADLOCK FALSE
