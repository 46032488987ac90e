CONSTANTS
  Workers = {w1, w2}
  Actions = {a1, a2}
  MaxDelay = 2
  None = None
SPECIFICATION FairSpec
INVARIANTS
  OneCallbackPerAlarm
  CancelledLeavesQueue
PROPERTY SlowActionIsInterrupted
CHECK_DEADLOCK FALSE
