---------------------------- MODULE FrameManager ----------------------------
(***************************************************************************)
(* The frame manager of the PowerPC interpreter: generate_normal_entry of  *)
(* cppInterpreter_CPU.cpp with the entries it dispatches to, the call stub *)
(* of stubGenerator_CPU.cpp and the stack walking of frame_CPU.cpp.        *)
(*                                                                         *)
(* The generated code works on one thread's stack with registers and saved *)
(* words; nothing in it is a procedure call with a structure of its own.   *)
(* A frame is the sequence number of its place in the stack, so the back   *)
(* chain of frame i is i - 1; 0 is NULL.  A code address is the name of    *)
(* the place it points to:                                                 *)
(*   "stub"      behind the call in the call stub                          *)
(*   "manager"   behind the bctrl of the frame manager                     *)
(*   "recursive" RecursiveInterpreterActivation, which is never executed   *)
(*   "native"    in the native entry       "C"  anything else              *)
(* The bytecode interpreter, the native functions and the virtual machine  *)
(* are C++ code: whatever messages they may send.                          *)
(***************************************************************************)
EXTENDS Integers, Sequences

CONSTANTS Methods,    \* [kind : Kinds, params : Nat, words : 0..2]
          Values,     \* what an operand can be
          MaxDepth,   \* bound on the frames
          MaxStack,   \* operands of an activation
          NoValue     \* what a register holds when it has no result

Kinds == {"normal", "native", "accessor", "empty"}
ASSUME MethodsAssumption == Methods \subseteq [kind : Kinds, params : Nat, words : 0..2]
ASSUME BoundAssumption == MaxDepth \in Nat /\ MaxStack \in Nat

VARIABLES stack,   \* the frames
          pc,      \* what executes: C++ code of the top frame, or generated code
          rmethod, \* Rmethod
          rlocals, \* Rlocals: operands of the caller below the parameters
          rstate,  \* Rstate: the frame whose interpreter state it points to
          lr,      \* LR
          tosca,   \* the result in r3 (r4) or f1
          exc,     \* the thread has a pending exception
          result,  \* what the last call stub stored for its caller
          anchor   \* last_Java_sp and last_Java_pc: [sp, pc]

regs == <<rmethod, rlocals, rstate, lr, tosca>>
vars == <<stack, pc, regs, exc, result, anchor>>

NoAnchor == [sp |-> 0, pc |-> "C"]
NoMethod == [kind |-> "none", params |-> 0, words |-> 0]

Frame(kind) == [kind |-> kind,       \* what created it
                method |-> NoMethod, \* _method
                lrSave |-> "C",      \* the LR save word, written by the callee
                prev |-> 0,          \* _prev_link
                locals |-> 0,        \* _locals
                top |-> 0,           \* _stack
                vals |-> <<>>,       \* contents of the expression stack
                wrapped |-> NoAnchor, \* stub: the anchor in the call wrapper
                saved |-> <<NoMethod, 0, 0>>]    \* stub: saved registers

Depth == Len(stack)
TopFrame == stack[Depth]

\* n consecutive slots above height h receive the words of a result.
Put(f, h, v, n) == [f EXCEPT !.vals = SubSeq(@, 1, h) \o [i \in 1..n |-> v]]

\* One more operand.
Push(f, v) == [Put(f, f.top, v, 1) EXCEPT !.top = f.top + 1]

\* Store _stack: what is above it is dead.
SetTop(f, n) == [f EXCEPT !.top = n, !.vals = SubSeq(@, 1, n)]

Init ==
  /\ stack = <<Frame("C")>>
  /\ pc = "code"
  /\ rmethod = NoMethod /\ rlocals = 0 /\ rstate = 0 /\ lr = "C" /\ tosca = NoValue
  /\ exc = FALSE /\ result = <<>>
  /\ anchor = NoAnchor

-----------------------------------------------------------------------------
(* The call stub. *)

\* C++ code calls a method: the stub saves the registers, copies the parameters
\* and jumps to the entry point of the method.  (Frames of C++ functions are
\* left out: the first of them has saved LR in the top frame.)
CallStub ==
  /\ pc = "code" /\ ~exc /\ Depth + 1 < MaxDepth
  /\ \E m \in Methods, v \in Values :
       /\ stack' = Append([stack EXCEPT ![Depth].lrSave = anchor.pc],
                          [Put(Frame("stub"), 0, v, m.params) EXCEPT
                             !.top = m.params, !.wrapped = anchor,
                             !.saved = <<rmethod, rlocals, rstate>>])
       /\ rmethod' = m
  /\ rlocals' = 0 /\ lr' = "stub" /\ pc' = "entry"
  /\ anchor' = NoAnchor
  /\ UNCHANGED <<rstate, tosca, exc, result>>

\* Behind the call: the result goes to the C++ caller unless there is an
\* exception, the saved registers come back, the wrapper restores the anchor.
StubReturns ==
  /\ pc = "blr" /\ lr = "stub"
  /\ stack' = SubSeq(stack, 1, Depth - 1)
  /\ rmethod' = TopFrame.saved[1] /\ rlocals' = TopFrame.saved[2] /\ rstate' = TopFrame.saved[3]
  /\ anchor' = TopFrame.wrapped
  /\ result' = IF exc THEN <<>> ELSE [i \in 1..rmethod.words |-> tosca]
  /\ pc' = "code" /\ lr' = "C" /\ tosca' = NoValue
  /\ UNCHANGED exc

-----------------------------------------------------------------------------
(* Entry points. *)

\* start of the normal entry, where the fast entries also go to: no previous
\* interpreter state.
SlowPath(kinds) ==
  /\ pc = "entry" /\ rmethod.kind \in kinds
  /\ rstate' = 0 /\ pc' = "re_dispatch"
  /\ UNCHANGED <<stack, rmethod, rlocals, lr, tosca, exc, anchor, result>>

EnterNormal == SlowPath({"normal"})

\* No safepoint, and for an accessor a receiver and a resolved field: the
\* result is in r3 and no frame was made.  Otherwise the slow path.
EnterFast ==
  \/ SlowPath({"accessor", "empty"})
  \/ /\ pc = "entry" /\ rmethod.kind \in {"accessor", "empty"}
     /\ tosca' \in IF rmethod.words = 0 THEN {NoValue} ELSE Values
     /\ pc' = "blr"
     /\ UNCHANGED <<stack, rmethod, rlocals, rstate, lr, exc, anchor, result>>

\* generate_compute_interpreter_state: LR is saved in the caller's frame, the
\* new state is linked to the one in Rstate.
NewState(kind, prev) ==
  /\ stack' = Append([stack EXCEPT ![Depth].lrSave = lr],
                     [Frame(kind) EXCEPT !.method = rmethod, !.prev = prev, !.locals = rlocals])
  /\ rstate' = Depth + 1

EnterNative ==
  /\ pc = "entry" /\ rmethod.kind = "native"
  /\ NewState("native", 0)
  /\ anchor' = [sp |-> Depth + 1, pc |-> "native"]
  /\ pc' = "code"
  /\ UNCHANGED <<rmethod, rlocals, lr, tosca, exc, result>>

\* The top activation is removed: the previous state, the caller's frame, the
\* LR saved in it.
Unwind(frames) ==
  /\ stack' = frames
  /\ rstate' = TopFrame.prev
  /\ lr' = stack[Depth - 1].lrSave

\* generate_native_entry after the call; NativeCall has the details.
NativeReturns ==
  /\ pc = "code" /\ TopFrame.kind = "native"
  /\ \/ exc /\ tosca' = NoValue
     \/ ~exc /\ tosca' \in IF rmethod.words = 0 THEN {NoValue} ELSE Values
  /\ Unwind(SubSeq(stack, 1, Depth - 1))
  /\ anchor' = [anchor EXCEPT !.sp = 0]
  /\ pc' = "blr"
  /\ UNCHANGED <<rmethod, rlocals, exc, result>>

-----------------------------------------------------------------------------
(* The frame manager. *)

RunInterpreter == anchor' = [sp |-> Len(stack'), pc |-> "manager"] /\ pc' = "code"

\* re_dispatch: adjust the caller's frame, make a new one, run the interpreter.
ReDispatch ==
  /\ pc = "re_dispatch"
  /\ NewState("interpreter", rstate)
  /\ RunInterpreter
  /\ UNCHANGED <<rmethod, rlocals, lr, tosca, exc, result>>

Interpreting == pc = "code" /\ TopFrame.kind = "interpreter"

\* External: BytecodeInterpreter::run between two messages.
Compute ==
  /\ Interpreting /\ ~exc
  /\ \/ /\ TopFrame.top < MaxStack
        /\ \E v \in Values : stack' = [stack EXCEPT ![Depth] = Push(@, v)]
     \/ TopFrame.top > 0 /\ stack' = [stack EXCEPT ![Depth] = SetTop(@, @.top - 1)]
  /\ UNCHANGED <<pc, regs, exc, anchor, result>>

\* External: an exception is raised by C++ code, or caught by the interpreter.
Raise ==
  /\ pc = "code" /\ ~exc /\ Depth > 1 /\ exc' = TRUE
  /\ UNCHANGED <<stack, pc, regs, anchor, result>>

Catch ==
  /\ \/ Interpreting /\ stack' = [stack EXCEPT ![Depth] = SetTop(@, 0)]
     \/ pc = "code" /\ ~Interpreting /\ UNCHANGED stack
  /\ exc /\ exc' = FALSE
  /\ UNCHANGED <<pc, regs, anchor, result>>

MutNoCode == "C"

\* The LR of a re-dispatch: an address that only serves to recognise the frame.
RecursiveActivation == "recursive"

\* call_method: an interpreted callee is dispatched without a call.  Verified
\* code has room for the result.
CallMethod ==
  /\ Interpreting /\ ~exc /\ Depth < MaxDepth
  /\ \E m \in Methods :
       /\ m.params <= TopFrame.top /\ TopFrame.top - m.params + m.words <= MaxStack
       /\ rmethod' = m /\ rlocals' = TopFrame.top - m.params
       /\ IF m.kind = "normal" THEN lr' = RecursiveActivation /\ pc' = "re_dispatch"
                               ELSE lr' = "manager" /\ pc' = "entry"
  /\ anchor' = [anchor EXCEPT !.sp = 0]
  /\ UNCHANGED <<stack, rstate, tosca, exc, result>>

\* The result is converted before the exception is looked at.
MutConvertsFirst ==
  /\ pc = "blr" /\ lr = "manager"
  /\ rstate' = Depth
  /\ stack' = [stack EXCEPT ![Depth] = Put(@, rlocals, tosca, rmethod.words)]
  /\ rlocals' = rlocals + rmethod.words
  /\ pc' = "resume"
  /\ UNCHANGED <<rmethod, lr, tosca, exc, anchor, result>>

\* Behind the bctrl: Rstate is found through the back chain.
ManagerResumes ==
  /\ pc = "blr" /\ lr = "manager"
  /\ rstate' = Depth
  /\ IF exc THEN UNCHANGED <<stack, rlocals>>
     ELSE /\ stack' = [stack EXCEPT ![Depth] = Put(@, rlocals, tosca, rmethod.words)]
          /\ rlocals' = rlocals + rmethod.words
  /\ pc' = "resume"
  /\ UNCHANGED <<rmethod, lr, tosca, exc, anchor, result>>

MutAlwaysBlr == TRUE

\* _prev_link decides whether there is a frame manager to return to.
ToInitialCaller == TopFrame.prev = 0

\* The converters take the result from the top of the callee's stack.
ReturnFromMethod ==
  /\ Interpreting /\ ~exc /\ TopFrame.top >= TopFrame.method.words
  /\ LET words == rmethod.words
         v == IF words = 0 THEN NoValue ELSE TopFrame.vals[TopFrame.top]
         below == SubSeq(stack, 1, Depth - 1)
     IN  \/ /\ ToInitialCaller
            /\ tosca' = v /\ Unwind(below) /\ pc' = "blr"
            /\ UNCHANGED rlocals
         \/ /\ ~ToInitialCaller
            /\ Unwind([below EXCEPT ![Depth - 1] = Put(@, rlocals, v, words)]) /\ pc' = "resume"
            /\ rlocals' = rlocals + words /\ UNCHANGED tosca
  /\ anchor' = [anchor EXCEPT !.sp = 0]
  /\ UNCHANGED <<rmethod, exc, result>>

\* more_monitors: the expression stack moves down (FrameLayout), nothing that
\* is modelled here changes.
MoreMonitors ==
  /\ Interpreting /\ ~exc
  /\ UNCHANGED stack /\ RunInterpreter
  /\ UNCHANGED <<regs, exc, result>>

ThrowingException ==
  /\ Interpreting /\ exc
  /\ Unwind(SubSeq(stack, 1, Depth - 1))
  /\ pc' = IF TopFrame.prev # 0 THEN "resume" ELSE "blr"
  /\ anchor' = [anchor EXCEPT !.sp = 0]
  /\ UNCHANGED <<rmethod, rlocals, tosca, exc, result>>

\* resume_interpreter: the top of the caller's expression stack is stored, the
\* registers are loaded from its state.
Resume ==
  /\ pc = "resume"
  /\ stack' = [stack EXCEPT ![rstate] = SetTop(@, rlocals)]
  /\ rlocals' = stack[rstate].locals
  /\ rmethod' = stack[rstate].method
  /\ RunInterpreter
  /\ UNCHANGED <<rstate, lr, tosca, exc, result>>

Next == \/ CallStub \/ StubReturns \/ EnterNormal \/ EnterFast \/ EnterNative \/ NativeReturns
        \/ ReDispatch \/ Compute \/ Raise \/ Catch \/ CallMethod \/ ManagerResumes
        \/ ReturnFromMethod \/ MoreMonitors \/ ThrowingException \/ Resume

Spec == Init /\ [][Next]_vars

-----------------------------------------------------------------------------
(* Stack walking, as frame_CPU.cpp does it from the frame anchor. *)

InInterpreter(p) == p \in {"manager", "recursive", "native"}

\* is_entry_frame and is_interpreted_frame.
Entry(f) == f.pc = "stub"
Interpreted(f) == InInterpreter(f.pc)

\* frame::sender: an entry frame leads to the anchor in its call wrapper, an
\* interpreted frame up the back chain, with the LR save word as its pc.
Sender(f) ==
  IF Entry(f) THEN stack[f.sp].wrapped
  ELSE [sp |-> f.sp - 1, pc |-> stack[f.sp - 1].lrSave]

\* pd_last_frame and the senders of it; NULL ends the walk.
Walk[n \in 0..MaxDepth] ==
  IF n = 0 THEN anchor
  ELSE LET f == Walk[n - 1] IN IF f.sp = 0 THEN f ELSE Sender(f)

-----------------------------------------------------------------------------
(* Properties. *)

PCs == {"code", "entry", "re_dispatch", "blr", "resume"}
MethodFrames == {"interpreter", "native"}

TypeOK ==
  /\ pc \in PCs
  /\ Depth \in 1..MaxDepth
  /\ \A i \in 1..Depth :
       /\ stack[i].kind \in MethodFrames \cup {"C", "stub"}
       /\ stack[i].top \in 0..MaxStack /\ stack[i].locals \in 0..MaxStack
       /\ stack[i].prev \in 0..MaxDepth
       /\ stack[i].vals \in Seq(Values)
  /\ rlocals \in 0..MaxStack /\ rstate \in 0..MaxDepth
  /\ tosca \in Values \cup {NoValue} /\ exc \in BOOLEAN

\* A return instruction goes to the code that made the frame which is then the
\* top frame, and finds the registers that code relies on: never to
\* RecursiveInterpreterActivation, an address that is no code
\* (cppInterpreter_CPU.cpp:853-855), and in the call stub Rlocals is the address
\* it has computed for its locals (stubGenerator_CPU.cpp:290-304).
ReturnsLand ==
  pc = "blr" =>
    \/ lr = "stub" /\ TopFrame.kind = "stub" /\ rlocals = 0
    \/ lr = "manager" /\ TopFrame.kind = "interpreter"

\* Whenever C++ code runs, the walk from the frame anchor finds exactly the
\* activations of methods, from the newest to the oldest, across call stubs, and
\* never a frame it cannot name (frame_CPU.cpp:40-88).
WalkFindsActivations ==
  pc = "code" =>
    LET found == {n \in 0..MaxDepth : Walk[n].sp # 0}
    IN  /\ \A n \in found : Entry(Walk[n]) \/ Interpreted(Walk[n])
        /\ \A n \in found : n > 0 => Walk[n].sp < Walk[n - 1].sp
        /\ {Walk[n].sp : n \in {k \in found : Interpreted(Walk[k])}}
             = {i \in 1..Depth : stack[i].kind \in MethodFrames}

\* The activations as the callers see them: what is on the way in registers has
\* arrived.
Operands(i) ==
  LET f == stack[i]
      res == IF exc THEN <<>> ELSE [k \in 1..rmethod.words |-> tosca]
      below(n) == SubSeq(f.vals, 1, n)
  IN  IF i < Depth \/ pc \notin {"blr", "resume"} THEN below(f.top)
      ELSE IF pc = "resume" THEN below(rlocals)
      ELSE below(rlocals) \o res

AbstractActs ==
  [i \in 1..Depth |->
     LET f == stack[i]
         kind == CASE f.kind = "C" -> "C"
                   [] f.kind = "stub" -> IF i = Depth /\ pc = "blr" THEN "done" ELSE "stub"
                   [] OTHER -> "method"
     IN  [kind |-> kind, words |-> f.method.words, args |-> f.method.params,
          operands |-> Operands(i)]]

CS == INSTANCE CallStack WITH acts <- AbstractActs

\* The frame manager implements nested calls: a result reaches the operands of
\* the caller it belongs to, in the place of the arguments, and an exception
\* reaches it without one, however interpreted, native and fast methods and
\* calls from the virtual machine are mixed.
ImplementsCallStack == CS!Spec
=============================================================================
