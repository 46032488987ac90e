------------------------------- MODULE MCPort -------------------------------
(* The sequential parts of the port side by side: a behaviour explores one   *)
(* of them, the variables of the others stay as they are.                    *)
EXTENDS FrameLayout, StackFrame, Arguments, JavaArguments, ConjointCopy, Bytes, Disassembler

VARIABLE part

JM(p, l, x, w, s, n) == [params |-> p, locals |-> l, max |-> x, words |-> w, sync |-> s, native |-> n]
MCJavaMethods == {JM(0, 0, 2, 2, FALSE, FALSE), JM(1, 4, 1, 1, TRUE, FALSE), JM(2, 3, 3, 0, FALSE, FALSE),
                  JM(1, 1, 0, 1, TRUE, TRUE)}
MCSigned16 == {-32768, -4, 0, 1, 32764}
MCShortBranches == {-8192, -1, 0, 8191}
MCLongBranches == {-8388608, -1, 0, 8388607}

codeVars == <<call, word, code, labels, constant, loaded, passed, text>>

Parts == {"frames", "prolog", "arguments", "locals", "copy", "bytes",
          "instructions", "labels", "constants", "calls"}

Init ==
  /\ part \in Parts
  /\ LayoutInit /\ (part # "frames" => wordSize = 4)
  /\ StackFrameInit /\ (part # "prolog" => ws = 4)
  /\ ArgumentsInit /\ (part # "arguments" => wsize = 4 /\ static)
  /\ JavaArgumentsInit /\ (part # "locals" => slotBytes = 4 /\ caller = "vm")
  /\ CopyInit /\ BytesInit
  /\ DisassemblerInit

CodeNext ==
  \/ part = "instructions" /\ DisassemblerNext
  \/ part = "labels" /\ LabelNext /\ UNCHANGED text
  \/ part = "constants" /\ Load /\ UNCHANGED text
  \/ part = "calls" /\ PassArgs /\ UNCHANGED text

\* Bound: the fourteenth argument and the next are floats or doubles.
FewTypesAtTheEnd == sig'.args >= 14 => last'.type \in {"float", "double"}

frameVars == <<layoutVars, sfVars>>
dataVars == <<argVars, javaArgVars, copyVars, bytesVars>>

Next ==
  /\ UNCHANGED part
  /\ \/ part = "frames" /\ LayoutNext /\ UNCHANGED <<sfVars, dataVars, codeVars>>
     \/ part = "prolog" /\ StackFrameNext /\ UNCHANGED <<layoutVars, dataVars, codeVars>>
     \/ part = "arguments" /\ ArgumentsNext /\ FewTypesAtTheEnd
        /\ UNCHANGED <<frameVars, javaArgVars, copyVars, bytesVars, codeVars>>
     \/ part = "locals" /\ JavaArgumentsNext /\ UNCHANGED <<frameVars, argVars, copyVars, bytesVars, codeVars>>
     \/ part = "copy" /\ CopyNext /\ UNCHANGED <<frameVars, argVars, javaArgVars, bytesVars, codeVars>>
     \/ part = "bytes" /\ BytesNext /\ UNCHANGED <<frameVars, argVars, javaArgVars, copyVars, codeVars>>
     \/ CodeNext /\ UNCHANGED <<frameVars, dataVars>>

Spec == Init /\ [][Next]_<<part, frameVars, dataVars, codeVars>>
=============================================================================
