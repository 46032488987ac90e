CONSTANTS
  Clients = {c1, c2}
  Tests = {t1}
  MaxRuns = 1
  MaxFiles = 2
  Crashes = TRUE
  None = None
SPECIFICATION FairSpec
PROPERTIES
  EveryClientGetsReady
  QueueIsWritten
CHECK_DEADLOCK FALSE
