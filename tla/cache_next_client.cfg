CONSTANTS
  Clients = {c1, c2}
  Tests = {t1}
  MaxRuns = 1
  MaxFiles = 1
  Crashes = FALSE
  None = None
SPECIFICATION Spec
SYMMETRY Symm
INVARIANT LeftToNextClient
CHECK_DEADLOCK FALSE
