---------------------------- MODULE MCAlarmTimer ----------------------------
(* Model values and symmetry for checking AlarmTimer with TLC.              *)
EXTENDS AlarmTimer, TLC

(* Threads and actions are interchangeable: the queue is ordered by time.   *)
Symm == Permutations(Workers) \cup Permutations(Actions)
=============================================================================
