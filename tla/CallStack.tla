------------------------------ MODULE CallStack ------------------------------
(***************************************************************************)
(* What the frame manager of the C++ interpreter promises about method     *)
(* calls: activations are nested, a callee's arguments come from its       *)
(* caller's operands and are replaced by its result when it returns; when  *)
(* it throws they are dropped and the caller continues with the exception. *)
(***************************************************************************)
EXTENDS Integers, Sequences

CONSTANTS Methods,  \* [kind : STRING, params : Nat, words : 0..2]
          Values    \* what an operand can be

VARIABLES acts,     \* the activations
          exc,      \* an exception is pending
          result    \* what the last call from C++ code returned

vars == <<acts, exc, result>>

\* C++ code; a call stub with the arguments of its callee, or, done, with the
\* result; a method.
Act(kind, m) == [kind |-> kind, words |-> m.words, args |-> m.params, operands |-> <<>>]
Cpp == [kind |-> "C", words |-> 0, args |-> 0, operands |-> <<>>]
Copies(n, v) == [i \in 1..n |-> v]

Depth == Len(acts)
Top == acts[Depth]
Pop == SubSeq(acts, 1, Depth - 1)
Running == Top.kind \in {"C", "method"}

\* An activation after a callee with n arguments left it this result.
Replace(a, n, res) ==
  [a EXCEPT !.operands = SubSeq(@, 1, Len(@) - n) \o res,
            !.kind = IF @ = "stub" THEN "done" ELSE @]

Init == acts = <<Cpp>> /\ exc = FALSE /\ result = <<>>

\* A program computes.
Compute ==
  /\ Running
  /\ \E ops \in {SubSeq(Top.operands, 1, Len(Top.operands) - 1)}
                \cup {Append(Top.operands, v) : v \in Values} :
       acts' = [acts EXCEPT ![Depth].operands = ops]
  /\ UNCHANGED <<exc, result>>

\* C++ code calls a method through the call stub.
CallFromVM ==
  /\ Running /\ ~exc
  /\ \E m \in Methods, v \in Values :
       acts' = Append(acts, [Cpp EXCEPT !.kind = "stub", !.operands = Copies(m.params, v)])
  /\ UNCHANGED <<exc, result>>

Callable(m) == ~exc /\ Top.kind \in {"stub", "method"} /\ m.params <= Len(Top.operands)

Call ==
  /\ \E m \in Methods : Callable(m) /\ acts' = Append(acts, Act("method", m))
  /\ UNCHANGED <<exc, result>>

\* A method that needs no activation.
LeafCall ==
  /\ \E m \in Methods, v \in Values :
       Callable(m) /\ acts' = [acts EXCEPT ![Depth] = Replace(@, m.params, Copies(m.words, v))]
  /\ UNCHANGED <<exc, result>>

Return ==
  /\ Top.kind = "method" /\ ~exc
  /\ \E v \in Values :
       acts' = [Pop EXCEPT ![Depth - 1] = Replace(@, Top.args, Copies(Top.words, v))]
  /\ UNCHANGED <<exc, result>>

\* The activation of a method ends with its exception.
Throw ==
  /\ Top.kind = "method" /\ exc
  /\ acts' = [Pop EXCEPT ![Depth - 1] = Replace(@, Top.args, <<>>)]
  /\ UNCHANGED <<exc, result>>

\* The call stub hands the result to its C++ caller; with an exception, none.
ReturnToVM ==
  /\ Top.kind = "done"
  /\ result' = Top.operands /\ acts' = Pop /\ UNCHANGED exc

\* An activation raises an exception, or catches the one it was thrown.
Raise == Running /\ exc' = TRUE /\ UNCHANGED <<acts, result>>
Catch == /\ Running /\ exc /\ exc' = FALSE
         /\ acts' = [acts EXCEPT ![Depth].operands = <<>>] /\ UNCHANGED result

Next == Compute \/ CallFromVM \/ Call \/ LeafCall \/ Return \/ Throw \/ ReturnToVM \/ Raise \/ Catch

Spec == Init /\ [][Next]_vars
=============================================================================
