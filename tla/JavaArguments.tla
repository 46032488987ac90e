--------------------------- MODULE JavaArguments ----------------------------
(***************************************************************************)
(* The arguments of a Java method on their way into its local variables:   *)
(* put into an array by JNITypes and copied, reversed, by the call stub;   *)
(* or pushed on the expression stack by an interpreted caller; then read   *)
(* with the LOCALS_ macros.  Memory is in units of four bytes.             *)
(***************************************************************************)
EXTENDS Integers, FiniteSets, SequencesExt

CONSTANT MaxJavaArgs  \* bound on the arguments

ASSUME JavaArgsAssumption == MaxJavaArgs \in Nat

VARIABLES slotBytes, \* wordSize
          caller,    \* "vm", "java", or the callee "entered" from the former
          types,     \* types of the arguments so far
          array,     \* the array of JavaCallArguments, by unit, upwards
          pos,       \* its next slot
          locals     \* the units at and below the address of local variable 0

javaArgVars == <<slotBytes, caller, types, array, pos, locals>>

Units == slotBytes \div 4
Slots(t) == IF t \in {"long", "double"} THEN 2 ELSE 1

\* What the units of an argument hold: numbers, floats and PPC32 pointers have
\* one, the others two, the high one at the lower address.
Value(i, t) ==
  IF t \in {"int", "float"} \/ (t = "object" /\ Units = 1) THEN <<<<i, "word">>>>
  ELSE <<<<i, "high">>, <<i, "low">>>>

JavaArgumentsInit ==
  /\ slotBytes \in {4, 8} /\ caller \in {"vm", "java"}
  /\ types = <<>> /\ pos = 0
  /\ array = [u \in {} |-> 0] /\ locals = [u \in {} |-> 0]

\* f with the units of v from u on.
WithUnits(f, u, v) ==
  [x \in DOMAIN f \cup u..u + Len(v) - 1 |-> IF x \in u..u + Len(v) - 1 THEN v[x - u + 1] ELSE f[x]]

MutReversed(v) == v
\* put_int2r
Reversed(v) == Reverse(v)

\* put_int, put_obj, put_float; put_long, put_double.
Put(t) ==
  LET v == Value(Len(types) + 1, t)
  IN  /\ caller = "vm" /\ Len(types) < MaxJavaArgs
      /\ array' = IF Slots(t) = 1 THEN WithUnits(array, pos * Units, v)
                  ELSE IF Units = 1 THEN WithUnits(array, pos, Reversed(v))
                  ELSE WithUnits(array, (pos + 1) * Units, v)
      /\ pos' = pos + Slots(t)
      /\ types' = Append(types, t)
      /\ UNCHANGED <<slotBytes, caller, locals>>

\* The loop of the call stub: slot by slot, src upwards and dst downwards.  What
\* a slot holds beside its value is not defined.
StubCopies ==
  /\ caller = "vm"
  /\ locals' = [u \in {(-s) * Units + j : s \in 0..pos - 1, j \in 0..Units - 1} |->
                  LET s == -(u \div Units)
                      from == s * Units + (u % Units)
                  IN  IF from \in DOMAIN array THEN array[from] ELSE <<0, "undefined">>]
  /\ caller' = "entered"
  /\ UNCHANGED <<slotBytes, types, array, pos>>

\* SET_STACK_INT and the like at offset 0, SET_STACK_LONG and _DOUBLE at offset
\* 1; the slots of the arguments become the callee's first local variables.
PushArgument(t) ==
  /\ caller = "java" /\ Len(types) < MaxJavaArgs
  /\ locals' = WithUnits(locals, -(pos + Slots(t) - 1) * Units, Value(Len(types) + 1, t))
  /\ pos' = pos + Slots(t)
  /\ types' = Append(types, t)
  /\ UNCHANGED <<slotBytes, caller, array>>

JavaArgumentsNext == StubCopies \/ \E t \in {"int", "float", "object", "long", "double"} : Put(t) \/ PushArgument(t)

JavaArgumentsSpec == JavaArgumentsInit /\ [][JavaArgumentsNext]_javaArgVars

\* LOCALS_INT, LOCALS_FLOAT, LOCALS_OBJECT, LOCALS_LONG, LOCALS_DOUBLE
ReadLocal(offset, t) ==
  LET u == -(offset + Slots(t) - 1) * Units
  IN  [j \in 1..Len(Value(1, t)) |-> locals[u + j - 1]]

\* A slot for each argument before it, and one more for each long and double.
SlotOf(i) == i - 1 + Cardinality({j \in 1..i - 1 : Slots(types[j]) = 2})

\* The callee reads in each local variable the argument it was given, from a
\* call of the virtual machine, whose array is copied in reverse, as from
\* interpreted code (jniTypes_CPU.hpp:30-105, stubGenerator_CPU.cpp:244-264,
\* bytecodeInterpreter_CPU.hpp:57-101).
ArgumentsAreRead ==
  caller # "vm" => \A i \in DOMAIN types : ReadLocal(SlotOf(i), types[i]) = Value(i, types[i])
=============================================================================
