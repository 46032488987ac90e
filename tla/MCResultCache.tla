--------------------------- MODULE MCResultCache ---------------------------
(* Symmetry for checking ResultCache with TLC.                             *)
EXTENDS ResultCache, TLC

(* Clients are interchangeable; tests are not: SetToSeq orders them.       *)
Symm == Permutations(Clients)
=============================================================================
