----------------------------- MODULE FrameLayout -----------------------------
(***************************************************************************)
(* Where the frame manager and the call stub put things on the stack:      *)
(* calc_padding_for_alignment and maybe_extend_frame of the macro          *)
(* assembler, generate_adjust_callers_stack, generate_compute_interpreter_ *)
(* state and generate_more_monitors of cppInterpreter_CPU.cpp, the frame   *)
(* of the call stub.  FrameManager has the control of the same code.       *)
(*                                                                         *)
(* Addresses and sizes are words.  A memory cell holds a tag that says     *)
(* what was stored there, so that a cell that is overwritten shows.        *)
(***************************************************************************)
EXTENDS Integers, Sequences

CONSTANTS JavaMethods,  \* [params, locals, max, words : Nat, sync, native : BOOLEAN]
          StateWords,   \* size of the interpreter state object
          MonitorWords, \* size of a BasicObjectLock
          SavedWords,   \* non-volatile registers the call stub saves
          StackTop,     \* address of the first frame; the stack ends at word 0
          MaxFrames,    \* bound on the frames
          MaxMonitors,  \* bound on the monitors of a frame
          MaxStackArgs  \* bound on a native method's arguments on the stack

ASSUME MethodAssumption ==
  JavaMethods \subseteq [params : Nat, locals : Nat, max : Nat, words : 0..2,
                         sync : BOOLEAN, native : BOOLEAN]
ASSUME SizeAssumption ==
  /\ StateWords \in Nat \ {0} /\ MonitorWords \in Nat \ {0} /\ SavedWords \in Nat
  /\ StackTop \in Nat /\ MaxFrames \in Nat /\ MaxMonitors \in Nat
  /\ MaxStackArgs \in Nat

VARIABLES wordSize,  \* PPC32 or PPC64
          mem,       \* the memory of the stack
          r1,        \* stack pointer
          frames     \* the frames, with the pointers their owners keep

layoutVars == <<wordSize, mem, r1, frames>>

\* globalDefinitions_CPU.hpp: 16 bytes.
Align == IF wordSize = 4 THEN 4 ELSE 2
\* The link area: back chain, (CR save,) LR save, (reserved, TOC save).
LinkWords == IF wordSize = 4 THEN 2 ELSE 6
CrSave == 1
LrSave == IF wordSize = 4 THEN 1 ELSE 2
MinParams == IF wordSize = 4 THEN 0 ELSE 8
\* unaligned_size() and start_of_locals() of a frame with nothing in it.
Header == LinkWords + MinParams
Slop == 2

\* andi_, subfic, andi_.
Padding(n) == (Align - (n % Align)) % Align
RoundUp(n) == n + Padding(n)

Top == frames[Len(frames)]
Store(m, cells) == [a \in DOMAIN m |-> IF a \in DOMAIN cells THEN cells[a] ELSE m[a]]

\* What is dead when a frame's stack pointer is p and its lowest operand is
\* above top.
Freed(m, p, top) ==
  [a \in DOMAIN m |-> IF a <= top /\ a \notin {p, p + CrSave} THEN <<"none">> ELSE m[a]]

\* store_update_indexed: a new frame of n words below p.
Push(m, p, n) == Store(m, [a \in {p - n} |-> <<"chain", p>>])

\* maybe_extend_frame: the back chain and, on PPC64, the CR save word move.
Extended(p, required, available) ==
  IF required <= available THEN p ELSE p - RoundUp(required - available)

Extend(m, p, q) ==
  IF p = q THEN m
  ELSE Store(m, [a \in {q} \cup (IF wordSize = 8 THEN {q + CrSave} ELSE {}) |-> m[p + a - q]])

LayoutInit ==
  /\ wordSize \in {4, 8}
  /\ r1 = StackTop
  /\ mem = [a \in 0..StackTop + 5 |-> <<"none">>]
  /\ frames = <<>>

-----------------------------------------------------------------------------
(* The call stub: link area, padding, parameters, call wrapper, result,     *)
(* result type, saved registers (on PPC32 CR among them).                   *)

StubSaves == 3 + SavedWords + (IF wordSize = 4 THEN 1 ELSE 0)
StubBaseSize == Header + StubSaves

StubFrame(m) ==
  LET size == RoundUp(StubBaseSize + m.params)
      sp == r1 - size
      locals == sp + Header - 1 + Padding(StubBaseSize + m.params) + m.params
      f == Len(frames) + 1
      cells == [a \in {sp + CrSave} |-> IF wordSize = 8 THEN <<"cr", f>> ELSE <<"none">>]
      data == [a \in locals - m.params + 1..locals + StubSaves |->
                 IF a <= locals THEN <<"operand", f, locals - a + 1>> ELSE <<"saved", f, a - locals>>]
  IN  /\ r1' = sp
      /\ mem' = Store(Store(Push(Store(mem, [a \in {r1 + LrSave} |-> <<"lr", f - 1>>]), r1, size),
                            cells), data)
      /\ frames' = Append(frames, [kind |-> "stub", bottom |-> r1, method |-> m, rlocals |-> locals,
                                   limit |-> 0, stack |-> locals - m.params, base |-> locals + 1,
                                   state |-> 0, monitors |-> 0, args |-> 0])

CallFromVM ==
  /\ frames = <<>>
  /\ \E m \in JavaMethods : StubFrame(m)
  /\ UNCHANGED wordSize

-----------------------------------------------------------------------------
(* Entering a method: generate_adjust_callers_stack and                     *)
(* generate_compute_interpreter_state.                                      *)

MutAdjustIgnoresSlop(m, rlocals) == Extended(r1, m.locals, rlocals - r1 - LinkWords)

\* The stack pointer after the caller's frame has room for the locals.
AdjustedR1(m, rlocals) ==
  IF m.params = m.locals \/ m.native THEN r1
  ELSE Extended(r1, m.locals, rlocals - r1 - (Header + Slop))

FrameWords(m) ==
  Header + StateWords + Slop + (IF m.native THEN 0 ELSE m.max) + (IF m.sync THEN MonitorWords ELSE 0)

Enter(m, rlocals) ==
  LET f == Len(frames) + 1
      p == AdjustedR1(m, rlocals)
      extra == [a \in IF m.native THEN {} ELSE rlocals - m.locals + 1..rlocals - m.params |->
                  <<"local", f, rlocals - a + 1>>]
      adjusted == Store(Extend(mem, r1, p), extra)
      saved == Store(adjusted, [a \in {p + LrSave} |-> <<"lr", f - 1>>])
      size == RoundUp(FrameWords(m))
      sp == p - size
      limit == sp + Header + Slop - 1 + Padding(FrameWords(m))
      stack == limit + (IF m.native THEN 0 ELSE m.max)
      state == stack + 1 + (IF m.sync THEN MonitorWords ELSE 0)
      data == [a \in stack + 1..state + StateWords - 1 |->
                 IF a < state THEN <<"monitor", f, state - a>> ELSE <<"state", f, a - state>>]
  IN  /\ r1' = sp
      /\ mem' = Store(Push(saved, p, size), data)
      /\ frames' = Append(frames, [kind |-> "method", bottom |-> p, method |-> m, rlocals |-> rlocals,
                                   limit |-> limit, stack |-> stack, base |-> stack + 1,
                                   state |-> state, monitors |-> IF m.sync THEN 1 ELSE 0,
                                   args |-> 0])

\* The call stub's method.
EnterFromStub ==
  /\ Len(frames) = 1 /\ Top.kind = "stub" /\ Enter(Top.method, Top.rlocals)
  /\ UNCHANGED wordSize

OperandCount(fr) == fr.base - 1 - fr.stack

\* A callee's parameters are its caller's topmost operands.  Verified code has
\* room for the result.
CallMethod ==
  /\ Len(frames) \in 2..MaxFrames - 1 /\ ~Top.method.native
  /\ \E m \in JavaMethods :
       /\ m.params <= OperandCount(Top)
       /\ OperandCount(Top) - m.params + m.words <= Top.method.max
       /\ Enter(m, Top.stack + m.params)
  /\ UNCHANGED wordSize

-----------------------------------------------------------------------------
(* The running method. *)

PushOperand ==
  /\ Len(frames) > 1 /\ Top.stack > Top.limit
  /\ mem' = [mem EXCEPT ![Top.stack] = <<"operand", Len(frames), OperandCount(Top) + 1>>]
  /\ frames' = [frames EXCEPT ![Len(frames)].stack = @ - 1]
  /\ UNCHANGED <<wordSize, r1>>

\* The words of the expression stack are moved down, lowest address first.
Moved(fr) == [a \in fr.stack + 1 - MonitorWords..fr.base - 1 - MonitorWords |-> mem[a + MonitorWords]]

\* The frame is extended when the expression stack has no room to move.
MoreMonitors ==
  /\ Len(frames) > 1 /\ ~Top.method.native /\ Top.monitors < MaxMonitors
  /\ LET f == Len(frames)
         p == Extended(r1, Header + Slop + MonitorWords, Top.limit + 1 - r1)
         base == Top.base - MonitorWords
         monitor == [a \in base..Top.base - 1 |-> <<"monitor", f, Top.state - a>>]
     IN  /\ r1' = p
         /\ mem' = Store(Store(Extend(mem, r1, p), Moved(Top)), monitor)
         /\ frames' = [frames EXCEPT ![f].base = base, ![f].stack = @ - MonitorWords,
                                     ![f].limit = @ - MonitorWords, ![f].monitors = @ + 1]
  /\ UNCHANGED wordSize

MutRoomWithLink(fr) == fr.limit + 1 - r1

\* SignatureHandlerGenerator::generate, generate_slow_signature_handler: the
\* expression stack of a native method has no words.
RoomForArguments(fr) == fr.limit + 1 - LinkWords - r1

\* The parameter list space is extended below, then filled.
PassOnStack ==
  /\ Len(frames) > 1 /\ Top.method.native /\ Top.args = 0
  /\ \E n \in MinParams + 1..MinParams + MaxStackArgs :
       LET f == Len(frames)
           p == Extended(r1, n, RoomForArguments(Top))
       IN  /\ r1' = p
           /\ mem' = Store(Extend(mem, r1, p),
                           [a \in p + LinkWords..p + LinkWords + n - 1 |-> <<"arg", f, a - p>>])
           /\ frames' = [frames EXCEPT ![f].args = n]
  /\ UNCHANGED wordSize

\* The last argument is a float, on PPC64: StackArgument::pass stores it behind
\* its own word (interpreterRT_CPU.cpp:201-204).  It is the fourteenth at least,
\* behind JNIEnv and the receiver or mirror.
PassFloatOnStack ==
  /\ Len(frames) > 1 /\ Top.method.native /\ Top.args = 0 /\ wordSize = 8
  /\ \E n \in 16..MinParams + MaxStackArgs :
       LET f == Len(frames)
           p == Extended(r1, n, RoomForArguments(Top))
           words == {a \in p + LinkWords..p + LinkWords + n : a # p + LinkWords + n - 1}
       IN  /\ r1' = p
           /\ mem' = Store(Extend(mem, r1, p), [a \in words |-> <<"arg", f, a - p>>])
           /\ frames' = [frames EXCEPT ![f].args = n]
  /\ UNCHANGED wordSize

\* The result is stored from Rlocals down; the frame goes by the back chain.
ReturnToCaller ==
  /\ Len(frames) > 2
  /\ r1' = mem[r1][2]
  /\ LET f == Len(frames) - 1
         words == Top.method.words
         res == [a \in Top.rlocals - words + 1..Top.rlocals |-> <<"operand", f, frames[f].base - a>>]
     IN  /\ mem' = Freed(Store(mem, res), r1', Top.rlocals - words)
         /\ frames' = [SubSeq(frames, 1, f) EXCEPT ![f].stack = Top.rlocals - words]
  /\ UNCHANGED wordSize

ReturnToStub ==
  /\ Len(frames) = 2
  /\ r1' = mem[r1][2]
  /\ frames' = [SubSeq(frames, 1, 1) EXCEPT ![1].stack = Top.rlocals, ![1].kind = "returned"]
  /\ mem' = Freed(mem, r1', Top.rlocals)
  /\ UNCHANGED wordSize

\* The stub finds its words from the back chain, not from its stack pointer.
StubReturns ==
  /\ Len(frames) = 1 /\ Top.kind = "returned"
  /\ r1' = mem[r1][2] /\ frames' = <<>>
  /\ mem' = Freed(mem, r1', r1')
  /\ UNCHANGED wordSize

\* StackTop bounds the stack.
LayoutNext ==
  /\ \/ CallFromVM \/ EnterFromStub \/ CallMethod \/ PushOperand \/ MoreMonitors
     \/ PassOnStack \/ ReturnToCaller \/ ReturnToStub \/ StubReturns
  /\ r1' >= 0

LayoutSpec == LayoutInit /\ [][LayoutNext]_layoutVars

\* With native methods whose last argument is such a float.
FloatLayoutSpec ==
  LayoutInit /\ [][LayoutNext \/ (PassFloatOnStack /\ r1' >= 0)]_layoutVars

-----------------------------------------------------------------------------
(* Properties. *)

\* The stack pointer of frame i.
Sp(i) == IF i = Len(frames) THEN r1 ELSE frames[i + 1].bottom

\* What the code keeps in frame i, and where it will look for it.
Kept(i) ==
  LET fr == frames[i]
      operands == [a \in fr.stack + 1..fr.base - 1 |-> <<"operand", i, fr.base - a>>]
      link == [a \in {Sp(i)} |-> <<"chain", fr.bottom>>]
      lr == [a \in IF i < Len(frames) THEN {Sp(i) + LrSave} ELSE {} |-> <<"lr", i>>]
      cr == [a \in IF fr.kind # "method" /\ wordSize = 8 THEN {Sp(i) + CrSave} ELSE {} |-> <<"cr", i>>]
      stub == [a \in IF fr.kind # "method" THEN fr.bottom - StubSaves..fr.bottom - 1 ELSE {} |->
                 <<"saved", i, a - (fr.bottom - StubSaves - 1)>>]
      method == [a \in IF fr.kind = "method" THEN fr.base..fr.bottom - 1 ELSE {} |->
                   IF a < fr.state THEN <<"monitor", i, fr.state - a>> ELSE <<"state", i, a - fr.state>>]
      locals == [a \in IF fr.kind = "method" /\ ~fr.method.native
                         THEN fr.rlocals - fr.method.locals + 1..fr.rlocals - fr.method.params
                         ELSE {} |-> <<"local", i, fr.rlocals - a + 1>>]
      args == [a \in Sp(i) + LinkWords..Sp(i) + LinkWords + fr.args - 1 |-> <<"arg", i, a - Sp(i)>>]
  IN  {operands, link, lr, cr, stub, method, locals, args}

\* Nothing a frame needs is overwritten or lost, whatever is called, entered,
\* extended or moved, and it is where the code looks for it: the saved registers
\* of the call stub and the interpreter state below the back chain, the operands
\* after they made room for monitors, the extra locals in the caller's frame.
\* The arguments of a native method are in words of their own; for the one kind
\* that is not see ArgumentsInTheirArea
\* (cppInterpreter_CPU.cpp:995-1269, assembler_CPU.cpp:1341-1373).
FramesIntact ==
  \A i \in 1..Len(frames) : \A cells \in Kept(i) : \A a \in DOMAIN cells : mem[a] = cells[a]

\* VIOLATED, under FloatLayoutSpec.  interpreterRT_CPU.cpp:238-240: "The area we
\* have to play with is the area between the link area and the expression stack
\* (which has zero size, this being a native method)".  The monitors and the
\* interpreter state of the native method lie above that area.
ArgumentsInTheirArea ==
  \A i \in 1..Len(frames) :
    LET fr == frames[i]
    IN  fr.kind = "method" /\ fr.method.native =>
          \A a \in fr.base..fr.bottom - 1 : mem[a][1] = (IF a < fr.state THEN "monitor" ELSE "state")

\* The stack pointer is aligned, and below the lowest operand or local of every
\* frame there is room for the link area, the parameter list and the slop.
FramesSeparate ==
  /\ \A i \in 1..Len(frames) : (StackTop - Sp(i)) % Align = 0
  /\ \A i \in 1..Len(frames) :
       LET fr == frames[i]
       IN  fr.kind = "method" =>
             /\ Sp(i) + (IF fr.args > 0 THEN LinkWords + fr.args ELSE Header + Slop) <= fr.limit + 1
             /\ fr.limit <= fr.stack /\ fr.state + StateWords = fr.bottom
             /\ ~fr.method.native /\ fr.method.params # fr.method.locals
                  => fr.bottom + Header + Slop <= fr.rlocals - fr.method.locals + 1
=============================================================================
