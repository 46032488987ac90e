--------------------------- MODULE PlainIterator ----------------------------
(***************************************************************************)
(* What DefaultTestRunner.nextTest expects of the iterator it is given:    *)
(* hasNext tells whether an item is left, next returns the items of the    *)
(* source in their order, each one once. Once the source has thrown an     *)
(* Error items may be missing, but order and uniqueness stay.              *)
(***************************************************************************)
EXTENDS Naturals, Sequences

VARIABLES
  total,     \* number of items of the source: the items are 1 .. total
  delivered, \* the items that next() has returned
  answer,    \* the last answer of hasNext, until next() has returned
  failed     \* the source has thrown an Error

vars == <<total, delivered, answer, failed>>

Init ==
  /\ total \in Nat
  /\ delivered = <<>>
  /\ answer = "none"
  /\ failed = FALSE

HasNext ==
  /\ answer # "yes"
  /\ answer' \in {"yes", "no"}
  /\ failed \/ (answer' = "yes" <=> Len(delivered) < total)
  /\ UNCHANGED <<total, delivered, failed>>

NextItem ==
  /\ answer = "yes"
  /\ \E item \in 1 .. total :
       /\ IF failed THEN \A k \in 1 .. Len(delivered) : delivered[k] < item
                    ELSE item = Len(delivered) + 1
       /\ delivered' = Append(delivered, item)
  /\ answer' = "none"
  /\ UNCHANGED <<total, failed>>

SourceFails ==
  /\ failed' = TRUE
  /\ UNCHANGED <<total, delivered, answer>>

Next == HasNext \/ NextItem \/ SourceFails

Spec == Init /\ [][Next]_vars
=============================================================================
