CONSTANTS
  Clients = {c1, c2}
  Tests = {t1, t2}
  MaxRuns = 1
  MaxFiles = 1
  Crashes = FALSE
  None = None
SPECIFICATION Spec
SYMMETRY Symm
INVARIANT CompressKeepsTests
CHECK_DEADLOCK FALSE
