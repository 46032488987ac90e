CONSTANTS
  Runs = {r1, r2}
  Slots = {s1}
  Tests = {t1}
  NoRun = NoRun
  NoTest = NoTest
SPECIFICATION Spec
SYMMETRY Symm
INVARIANT OneRunAtATime
CHECK_DEADLOCK FALSE
