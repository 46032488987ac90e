CONSTANTS
  Runs = {r1}
  Slots = {s1, s2}
  Tests = {t1, t2}
  NoRun = NoRun
  NoTest = NoTest
SPECIFICATION FairSpec
INVARIANTS
  TypeOK
  HasNextIsStable
  AllReportedWhenFinished
  TrueVerdictSound
  StopIsPrompt
PROPERTIES
  ReportsStayInRun
  EveryRunEnds
  StopEndsRun
CHECK_DEADLOCK FALSE
