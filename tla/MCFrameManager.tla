--------------------------- MODULE MCFrameManager ---------------------------
(* Methods for checking FrameManager with TLC.                             *)
EXTENDS FrameManager, TLC

Meth(kind, params, words) == [kind |-> kind, params |-> params, words |-> words]

(* One of each kind; results of no, one and two words.                     *)
MCMethods == {Meth("normal", 1, 1), Meth("native", 0, 2),
              Meth("accessor", 1, 1), Meth("empty", 1, 0)}

(* Values are only passed on.                                              *)
Symm == Permutations(Values)
=============================================================================
