---------------------------- MODULE MCNativeCall ----------------------------
(* Threads and methods for checking NativeCall with TLC.                  *)
EXTENDS NativeCall, TLC

Meth(sync, static, oop) == [sync |-> sync, static |-> static, oop |-> oop]

CONSTANTS j1, j2
MCThreads == {j1, j2}

(* A static synchronized method and a plain one, both returning an object: *)
(* the first thread calls the first, the second thread either of them.     *)
Locking == Meth(TRUE, TRUE, TRUE)
Plain == Meth(FALSE, FALSE, TRUE)
MCMethods == {Locking, Plain}
MCCallees == (j1 :> {Locking}) @@ (j2 :> {Locking, Plain})
=============================================================================
