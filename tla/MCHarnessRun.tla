---------------------------- MODULE MCHarnessRun ----------------------------
(* Model values and symmetry for checking HarnessRun with TLC.              *)
EXTENDS HarnessRun, TLC

(* Runs, slots and tests are interchangeable: no definition orders them.    *)
Symm == Permutations(Runs) \cup Permutations(Slots) \cup Permutations(Tests)
=============================================================================
