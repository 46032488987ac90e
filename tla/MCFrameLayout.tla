---------------------------- MODULE MCFrameLayout ----------------------------
(* A static synchronized native method called from the VM.                   *)
EXTENDS FrameLayout

MCJavaMethods == {[params |-> 0, locals |-> 0, max |-> 0, words |-> 1, sync |-> TRUE, native |-> TRUE]}
=============================================================================
