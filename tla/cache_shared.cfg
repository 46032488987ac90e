CONSTANTS
  Clients = {c1, c2}
  Tests = {t1, t2}
  MaxRuns = 1
  MaxFiles = 2
  Crashes = TRUE
  None = None
SPECIFICATION Spec
SYMMETRY Symm
INVARIANTS
  MutualExclusion
  NoTestForgotten
CHECK_DEADLOCK FALSE
