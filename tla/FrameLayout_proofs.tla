------------------------- MODULE FrameLayout_proofs -------------------------
(***************************************************************************)
(* Theorems about FrameLayout, for any methods, any depth of the stack and *)
(* either word size: no frame loses a word that it keeps on the stack, and *)
(* every frame has the room that the code below it relies on.  At the end, *)
(* about StackFrame: an epilog undoes its prolog.                          *)
(***************************************************************************)
EXTENDS FrameLayout, StackFrame, SequenceTheorems, TLAPS

FrameRecord ==
  [kind : {"stub", "returned", "method"}, bottom : Int, method : JavaMethods, rlocals : Int,
   limit : Int, stack : Int, base : Int, state : Int, monitors : Int, args : Int]

LayoutTypes ==
  /\ wordSize \in {4, 8}
  /\ r1 \in Nat
  /\ DOMAIN mem = 0..StackTop + 5
  /\ frames \in Seq(FrameRecord)

(* The call stub's frame is the first, the frames of methods follow, each   *)
(* begins where its caller's stack pointer is.                              *)
Stacked ==
  /\ \A i \in 1..Len(frames) : frames[i].kind = "method" <=> i > 1
  /\ IF frames = <<>> THEN r1 = StackTop ELSE frames[1].bottom = StackTop
  /\ \A i, j \in 1..Len(frames) : i <= j => frames[j].bottom <= frames[i].bottom
  /\ (StackTop - r1) % Align = 0
  /\ \A i \in 1..Len(frames) : (StackTop - frames[i].bottom) % Align = 0

(* The sections of the call stub's frame.                                   *)
StubShape(fr, sp) ==
  /\ fr.base = fr.bottom - StubSaves /\ fr.rlocals = fr.base - 1
  /\ sp + Header <= fr.rlocals - fr.method.params + 1
  /\ fr.stack = IF fr.kind = "stub" THEN fr.rlocals - fr.method.params ELSE fr.rlocals
  /\ fr.args = 0

(* The sections of a method's frame.                                        *)
MethodShape(fr, sp) ==
  /\ fr.state + StateWords = fr.bottom /\ fr.base <= fr.state
  /\ fr.limit <= fr.stack /\ fr.stack < fr.base
  /\ fr.base - 1 - fr.limit = IF fr.method.native THEN 0 ELSE fr.method.max
  /\ fr.args > 0 => fr.method.native
  /\ fr.args >= 0
  /\ sp + (IF fr.args > 0 THEN LinkWords + fr.args ELSE Header + Slop) <= fr.limit + 1

Shape(fr, i, sp) ==
  /\ i = 1 => StubShape(fr, sp)
  /\ i # 1 => MethodShape(fr, sp)

Shaped == \A i \in 1..Len(frames) : Shape(frames[i], i, Sp(i))

(* A method's parameters are its caller's topmost operands, its result fits *)
(* in their place, and its other locals have room above the caller's link   *)
(* area.                                                                    *)
CalledFrom(fr, g) ==
  /\ fr.rlocals - fr.method.params = g.stack
  /\ IF g.kind = "method"
       THEN fr.rlocals < g.base /\ ~g.method.native /\ g.limit <= fr.rlocals - fr.method.words
       ELSE g.kind = "stub" /\ fr.rlocals = g.rlocals /\ fr.method = g.method
  /\ ~fr.method.native /\ fr.method.params # fr.method.locals
       => fr.bottom + Header + Slop <= fr.rlocals - fr.method.locals + 1

Called == \A i \in 2..Len(frames) : CalledFrom(frames[i], frames[i - 1])

(* What FramesIntact says of frame i above its link area, and of the link   *)
(* area and the parameters above it.                                        *)
DataKept(m, fr, i) ==
  /\ \A a \in fr.stack + 1..fr.base - 1 : m[a] = <<"operand", i, fr.base - a>>
  /\ fr.kind # "method" => \A a \in fr.base..fr.bottom - 1 : m[a] = <<"saved", i, a - (fr.base - 1)>>
  /\ fr.kind = "method" => \A a \in fr.base..fr.bottom - 1 :
       m[a] = IF a < fr.state THEN <<"monitor", i, fr.state - a>> ELSE <<"state", i, a - fr.state>>
  /\ fr.kind = "method" /\ ~fr.method.native =>
       \A a \in fr.rlocals - fr.method.locals + 1..fr.rlocals - fr.method.params :
         m[a] = <<"local", i, fr.rlocals - a + 1>>

LinkKept(m, fr, i, sp, top) ==
  /\ m[sp] = <<"chain", fr.bottom>>
  /\ ~top => m[sp + LrSave] = <<"lr", i>>
  /\ fr.kind # "method" /\ wordSize = 8 => m[sp + CrSave] = <<"cr", i>>
  /\ \A a \in sp + LinkWords..sp + LinkWords + fr.args - 1 : m[a] = <<"arg", i, a - sp>>

AllKept ==
  \A i \in 1..Len(frames) :
    DataKept(mem, frames[i], i) /\ LinkKept(mem, frames[i], i, Sp(i), i = Len(frames))

LayoutInv == LayoutTypes /\ Stacked /\ Shaped /\ Called /\ AllKept

-----------------------------------------------------------------------------
(* Sizes and addresses. *)

LEMMA Sizes ==
  ASSUME wordSize \in {4, 8}
  PROVE  /\ Align \in {2, 4}
         /\ LinkWords \in {2, 6} /\ MinParams \in {0, 8} /\ Header = LinkWords + MinParams
         /\ LrSave \in {1, 2} /\ LrSave < LinkWords /\ CrSave = 1 /\ Slop = 2
         /\ wordSize = 8 => LrSave = 2
         /\ StubSaves \in Nat /\ StubSaves >= 3
BY SizeAssumption DEF Align, LinkWords, MinParams, Header, LrSave, CrSave, Slop, StubSaves

LEMMA Paddings ==
  ASSUME wordSize \in {4, 8}, NEW n \in Int
  PROVE  /\ Padding(n) \in Nat
         /\ RoundUp(n) = n + Padding(n)
         /\ RoundUp(n) % Align = 0
<1>1. CASE wordSize = 4
  <2>1. Align = 4
    BY <1>1 DEF Align
  <2> QED
    BY <2>1 DEF Padding, RoundUp
<1>2. CASE wordSize = 8
  <2>1. Align = 2
    BY <1>2 DEF Align
  <2> QED
    BY <2>1 DEF Padding, RoundUp
<1> QED
  BY <1>1, <1>2

(* A stack pointer stays aligned when a rounded size is subtracted.         *)
LEMMA StaysAligned ==
  ASSUME wordSize \in {4, 8}, NEW p \in Int, NEW n \in Int,
         (StackTop - p) % Align = 0, n % Align = 0
  PROVE  (StackTop - (p - n)) % Align = 0
<1>1. Align \in {2, 4} /\ StackTop \in Int
  BY Sizes, SizeAssumption
<1> QED
  BY <1>1

LEMMA Extensions ==
  ASSUME wordSize \in {4, 8}, NEW p \in Int, NEW required \in Int, NEW available \in Int,
         (StackTop - p) % Align = 0
  PROVE  LET q == Extended(p, required, available)
         IN  /\ q \in Int
             /\ q <= p /\ q <= p - (required - available)
             /\ q # p => q <= p - 2
             /\ (StackTop - q) % Align = 0
<1> DEFINE n == required - available
<1>1. /\ Padding(n) \in Nat /\ RoundUp(n) = n + Padding(n) /\ RoundUp(n) % Align = 0
      /\ n \in Int
  BY Paddings
<1>2. Align \in {2, 4} /\ StackTop \in Int
  BY Sizes, SizeAssumption
<1>3. (StackTop - (p - RoundUp(n))) % Align = 0
  <2> HIDE DEF n
  <2>1. RoundUp(n) \in Int
    BY <1>1
  <2> QED
    BY <1>1, <2>1, StaysAligned
<1>4. CASE required <= available
  BY <1>4 DEF Extended
<1>5. CASE ~(required <= available)
  <2>1. Extended(p, required, available) = p - RoundUp(n)
    BY <1>5 DEF Extended
  <2>2. n >= 1 /\ RoundUp(n) >= n
    BY <1>1, <1>5
  <2>3. RoundUp(n) >= 2
    <3> HIDE DEF n
    <3>1. RoundUp(n) \in Int
      BY <1>1
    <3> QED
      BY <1>1, <1>2, <2>2, <3>1
  <2> HIDE DEF n
  <2>4. RoundUp(n) \in Int /\ n = required - available
    BY <1>1 DEF n
  <2> QED
    BY <1>3, <2>1, <2>2, <2>3, <2>4
<1> QED
  BY <1>4, <1>5

LEMMA Stores ==
  ASSUME NEW m, NEW cells
  PROVE  /\ DOMAIN Store(m, cells) = DOMAIN m
         /\ \A a \in DOMAIN m : Store(m, cells)[a] = IF a \in DOMAIN cells THEN cells[a] ELSE m[a]
BY DEF Store

-----------------------------------------------------------------------------
(* What the invariant says of every frame. *)

LEMMA FrameTypes ==
  ASSUME NEW fr \in FrameRecord
  PROVE  /\ fr.kind \in {"stub", "returned", "method"} /\ fr.method \in JavaMethods
         /\ fr.bottom \in Int /\ fr.rlocals \in Int /\ fr.limit \in Int /\ fr.stack \in Int
         /\ fr.base \in Int /\ fr.state \in Int /\ fr.monitors \in Int /\ fr.args \in Int
         /\ fr.method.params \in Nat /\ fr.method.locals \in Nat /\ fr.method.max \in Nat
         /\ fr.method.words \in 0..2 /\ fr.method.sync \in BOOLEAN /\ fr.method.native \in BOOLEAN
<1>1. /\ fr.kind \in {"stub", "returned", "method"} /\ fr.method \in JavaMethods
      /\ fr.bottom \in Int /\ fr.rlocals \in Int /\ fr.limit \in Int /\ fr.stack \in Int
      /\ fr.base \in Int /\ fr.state \in Int /\ fr.monitors \in Int /\ fr.args \in Int
  BY DEF FrameRecord
<1>2. fr.method \in [params : Nat, locals : Nat, max : Nat, words : 0..2,
                     sync : BOOLEAN, native : BOOLEAN]
  BY <1>1, MethodAssumption
<1> QED
  BY <1>1, <1>2

(* A frame's link area is below its stack, its stack below its bottom.      *)
LEMMA ShapeBounds ==
  ASSUME wordSize \in {4, 8}, NEW fr \in FrameRecord, NEW i, NEW sp \in Int, Shape(fr, i, sp)
  PROVE  /\ sp + LrSave <= fr.stack /\ sp + CrSave <= fr.stack /\ sp < fr.stack
         /\ fr.stack < fr.base /\ fr.base <= fr.bottom
         /\ fr.args >= 0 /\ sp + LinkWords + fr.args <= fr.stack + 1
<1>1. /\ LinkWords \in {2, 6} /\ MinParams \in {0, 8} /\ Header = LinkWords + MinParams
      /\ LrSave \in {1, 2} /\ LrSave < LinkWords /\ CrSave = 1 /\ Slop = 2
      /\ StubSaves \in Nat
  BY Sizes
<1>2. /\ fr.kind \in {"stub", "returned", "method"}
      /\ fr.bottom \in Int /\ fr.rlocals \in Int /\ fr.limit \in Int /\ fr.stack \in Int
      /\ fr.base \in Int /\ fr.state \in Int /\ fr.args \in Int
      /\ fr.method.params \in Nat
  BY FrameTypes
<1>3. StateWords \in Nat
  BY SizeAssumption
<1>4. CASE i = 1
  <2>1. StubShape(fr, sp)
    BY <1>4 DEF Shape
  <2> QED
    BY <1>1, <1>2, <2>1 DEF StubShape
<1>5. CASE i # 1
  <2>1. MethodShape(fr, sp)
    BY <1>5 DEF Shape
  <2> QED
    BY <1>1, <1>2, <1>3, <2>1 DEF MethodShape
<1> QED
  BY <1>4, <1>5

LEMMA InvBounds ==
  ASSUME LayoutInv
  PROVE  /\ Len(frames) \in Nat
         /\ \A i \in 1..Len(frames) :
              /\ frames[i] \in FrameRecord
              /\ Sp(i) \in Nat /\ r1 <= Sp(i)
              /\ Sp(i) + LrSave <= frames[i].stack /\ Sp(i) + CrSave <= frames[i].stack
              /\ Sp(i) < frames[i].stack
              /\ frames[i].stack < frames[i].base /\ frames[i].base <= frames[i].bottom
              /\ frames[i].args >= 0 /\ Sp(i) + LinkWords + frames[i].args <= frames[i].stack + 1
              /\ frames[i].bottom <= StackTop
              /\ i < Len(frames) => /\ Sp(i) = frames[i + 1].bottom
                                    /\ frames[Len(frames)].bottom <= Sp(i)
<1> USE DEF LayoutInv
<1>1. /\ Len(frames) \in Nat
      /\ \A i \in 1..Len(frames) : frames[i] \in FrameRecord
  BY DEF LayoutTypes
<1>2. \A i \in 1..Len(frames) : frames[i].bottom \in Int
  BY <1>1, FrameTypes
<1>3. r1 \in Nat /\ wordSize \in {4, 8} /\ StackTop \in Nat
  BY SizeAssumption DEF LayoutTypes
<1>4. \A i, j \in 1..Len(frames) : i <= j => frames[j].bottom <= frames[i].bottom
  BY DEF Stacked
<1>5. \A i \in 1..Len(frames) : Sp(i) \in Int
  <2> TAKE i \in 1..Len(frames)
  <2>1. CASE i = Len(frames)
    BY <2>1, <1>3 DEF Sp
  <2>2. CASE i # Len(frames)
    BY <2>2, <1>1, <1>2 DEF Sp
  <2> QED
    BY <2>1, <2>2
<1>6. \A i \in 1..Len(frames) : Shape(frames[i], i, Sp(i))
  BY DEF Shaped
<1>7. \A i \in 1..Len(frames) : Sp(i) < frames[i].stack /\ frames[i].stack < frames[i].base
                                  /\ frames[i].base <= frames[i].bottom
  BY <1>1, <1>3, <1>5, <1>6, ShapeBounds
<1>8. \A i \in 1..Len(frames) : frames[i].stack \in Int /\ frames[i].base \in Int
  BY <1>1, FrameTypes
<1>9. \A i \in 1..Len(frames) :
        i < Len(frames) => Sp(i) = frames[i + 1].bottom /\ frames[Len(frames)].bottom <= Sp(i)
  BY <1>1, <1>4 DEF Sp
<1>10. \A i \in 1..Len(frames) : r1 <= Sp(i)
  <2> TAKE i \in 1..Len(frames)
  <2>1. Sp(Len(frames)) = r1
    BY DEF Sp
  <2>2. r1 < frames[Len(frames)].bottom
    BY <1>1, <1>2, <1>3, <1>7, <1>8, <2>1
  <2> QED
    BY <1>1, <1>2, <1>3, <1>5, <1>9, <2>1, <2>2
<1>11. \A i \in 1..Len(frames) : frames[i].bottom <= StackTop
  <2> TAKE i \in 1..Len(frames)
  <2>1. frames # <<>> /\ 1 \in 1..Len(frames)
    BY <1>1
  <2>2. frames[1].bottom = StackTop
    BY <2>1 DEF Stacked
  <2> QED
    BY <1>4, <2>1, <2>2
<1> SUFFICES ASSUME NEW i \in 1..Len(frames)
             PROVE  /\ Sp(i) \in Nat
                    /\ Sp(i) + LrSave <= frames[i].stack /\ Sp(i) + CrSave <= frames[i].stack
                    /\ frames[i].args >= 0 /\ Sp(i) + LinkWords + frames[i].args <= frames[i].stack + 1
  BY <1>1, <1>7, <1>9, <1>10, <1>11
<1>12. Sp(i) \in Nat
  BY <1>3, <1>5, <1>10
<1> QED
  BY <1>1, <1>3, <1>5, <1>6, <1>12, ShapeBounds

(* A frame's other locals are above its bottom.                             *)
LEMMA LocalsAbove ==
  ASSUME wordSize \in {4, 8}, NEW fr \in FrameRecord, NEW g, CalledFrom(fr, g), ~fr.method.native
  PROVE  /\ fr.rlocals - fr.method.params = g.stack
         /\ \A a \in fr.rlocals - fr.method.locals + 1..fr.rlocals - fr.method.params :
              fr.bottom + Header + Slop <= a
<1>1. /\ LinkWords \in {2, 6} /\ MinParams \in {0, 8} /\ Header = LinkWords + MinParams /\ Slop = 2
  BY Sizes
<1>2. /\ fr.bottom \in Int /\ fr.rlocals \in Int
      /\ fr.method.params \in Nat /\ fr.method.locals \in Nat
  BY FrameTypes
<1>3. /\ fr.rlocals - fr.method.params = g.stack
      /\ fr.method.params # fr.method.locals => fr.bottom + Header + Slop <= fr.rlocals - fr.method.locals + 1
  BY DEF CalledFrom
<1>4. ASSUME NEW a \in fr.rlocals - fr.method.locals + 1..fr.rlocals - fr.method.params
      PROVE  fr.bottom + Header + Slop <= a
  <2>1. fr.method.params # fr.method.locals
    BY <1>2
  <2> QED
    BY <1>1, <1>2, <1>3, <2>1
<1> QED
  BY <1>3, <1>4

-----------------------------------------------------------------------------
(* What a frame keeps when the memory changes elsewhere. *)

(* A frame's data lies above its stack, its other locals in its caller's.   *)
LEMMA DataStays ==
  ASSUME wordSize \in {4, 8}, NEW fr \in FrameRecord, NEW i, NEW m, NEW m2,
         fr.stack < fr.base, fr.base <= fr.bottom, fr.bottom <= StackTop,
         fr.kind = "method" =>
           \E g : CalledFrom(fr, g) /\ g.stack \in Int /\ g.stack <= StackTop,
         NEW low \in Int, low <= fr.stack + 1,
         \A a \in low..StackTop + 5 : m2[a] = m[a],
         DataKept(m, fr, i)
  PROVE  DataKept(m2, fr, i)
<1>1. /\ fr.kind \in {"stub", "returned", "method"} /\ fr.method \in JavaMethods
      /\ fr.bottom \in Int /\ fr.rlocals \in Int /\ fr.stack \in Int
      /\ fr.base \in Int /\ fr.state \in Int
      /\ fr.method.params \in Nat /\ fr.method.locals \in Nat
  BY FrameTypes
<1>2. StackTop \in Nat /\ Header \in Nat /\ Slop = 2
  BY SizeAssumption, Sizes
<1>3. \A a \in fr.stack + 1..fr.bottom - 1 : m2[a] = m[a]
  BY <1>1, <1>2
<1>4. \A a \in fr.stack + 1..fr.base - 1 : m2[a] = <<"operand", i, fr.base - a>>
  <2> TAKE a \in fr.stack + 1..fr.base - 1
  <2>1. a \in fr.stack + 1..fr.bottom - 1
    BY <1>1
  <2>2. m[a] = <<"operand", i, fr.base - a>>
    BY DEF DataKept
  <2> QED
    BY <1>3, <2>1, <2>2
<1>5. \A a \in fr.base..fr.bottom - 1 : m2[a] = m[a]
  BY <1>1, <1>3
<1>6. fr.kind # "method" => \A a \in fr.base..fr.bottom - 1 : m2[a] = <<"saved", i, a - (fr.base - 1)>>
  BY <1>5 DEF DataKept
<1>7. fr.kind = "method" => \A a \in fr.base..fr.bottom - 1 :
        m2[a] = IF a < fr.state THEN <<"monitor", i, fr.state - a>> ELSE <<"state", i, a - fr.state>>
  <2> SUFFICES ASSUME fr.kind = "method", NEW a \in fr.base..fr.bottom - 1
               PROVE  m2[a] = IF a < fr.state THEN <<"monitor", i, fr.state - a>>
                                              ELSE <<"state", i, a - fr.state>>
    OBVIOUS
  <2>1. m[a] = IF a < fr.state THEN <<"monitor", i, fr.state - a>> ELSE <<"state", i, a - fr.state>>
    BY DEF DataKept
  <2> QED
    BY <1>5, <2>1
<1>8. ASSUME fr.kind = "method", ~fr.method.native,
             NEW a \in fr.rlocals - fr.method.locals + 1..fr.rlocals - fr.method.params
      PROVE  m2[a] = <<"local", i, fr.rlocals - a + 1>>
  <2>1. PICK g : CalledFrom(fr, g) /\ g.stack \in Int /\ g.stack <= StackTop
    BY <1>8
  <2>2. fr.rlocals - fr.method.params = g.stack /\ fr.bottom + Header + Slop <= a
    BY <1>8, <2>1, LocalsAbove
  <2>3. a \in low..StackTop + 5
    BY <1>1, <1>2, <2>1, <2>2
  <2>4. m[a] = <<"local", i, fr.rlocals - a + 1>>
    BY <1>8 DEF DataKept
  <2> QED
    BY <2>3, <2>4
<1> QED
  BY <1>4, <1>6, <1>7, <1>8 DEF DataKept

LEMMA LinkStays ==
  ASSUME wordSize \in {4, 8}, NEW fr \in FrameRecord, NEW i, NEW m, NEW m2, NEW sp \in Int, NEW top,
         fr.stack <= StackTop, sp + LrSave <= fr.stack,
         fr.args >= 0, sp + LinkWords + fr.args <= fr.stack + 1,
         \A a \in sp..StackTop + 5 : m2[a] = m[a],
         LinkKept(m, fr, i, sp, top)
  PROVE  LinkKept(m2, fr, i, sp, top)
<1>1. /\ LinkWords \in {2, 6} /\ LrSave \in {1, 2} /\ CrSave = 1
  BY Sizes
<1>2. StackTop \in Nat /\ fr.stack \in Int /\ fr.args \in Int
  BY SizeAssumption, FrameTypes
<1>3. /\ m2[sp] = m[sp] /\ m2[sp + LrSave] = m[sp + LrSave] /\ m2[sp + CrSave] = m[sp + CrSave]
  BY <1>1, <1>2
<1>4. \A a \in sp + LinkWords..sp + LinkWords + fr.args - 1 : m2[a] = m[a]
  BY <1>1, <1>2
<1>5. \A a \in sp + LinkWords..sp + LinkWords + fr.args - 1 : m2[a] = <<"arg", i, a - sp>>
  BY <1>4 DEF LinkKept
<1> QED
  BY <1>3, <1>5 DEF LinkKept

-----------------------------------------------------------------------------
(* Steps by the frames they touch. *)

LEMMA SeqExcept ==
  ASSUME NEW S, NEW s \in Seq(S), NEW k \in 1..Len(s), NEW x \in S
  PROVE  LET t == [s EXCEPT ![k] = x]
         IN  /\ t \in Seq(S) /\ Len(t) = Len(s)
             /\ \A i \in 1..Len(s) : t[i] = IF i = k THEN x ELSE s[i]
OBVIOUS

LEMMA SameWordSize ==
  ASSUME wordSize' = wordSize
  PROVE  /\ Align' = Align
         /\ \A fr, i, sp : Shape(fr, i, sp)' <=> Shape(fr, i, sp)
         /\ \A fr, g : CalledFrom(fr, g)' <=> CalledFrom(fr, g)
         /\ \A m, fr, i, sp, top : LinkKept(m, fr, i, sp, top)' <=> LinkKept(m, fr, i, sp, top)
<1>1. /\ Align' = Align /\ LinkWords' = LinkWords /\ Header' = Header /\ LrSave' = LrSave
      /\ StubSaves' = StubSaves
  BY DEF Align, LinkWords, Header, MinParams, LrSave, StubSaves
<1>2. \A fr, i, sp : Shape(fr, i, sp)' <=> Shape(fr, i, sp)
  BY <1>1 DEF Shape, StubShape, MethodShape
<1>3. \A fr, g : CalledFrom(fr, g)' <=> CalledFrom(fr, g)
  BY <1>1 DEF CalledFrom
<1>4. \A m, fr, i, sp, top : LinkKept(m, fr, i, sp, top)' <=> LinkKept(m, fr, i, sp, top)
  BY <1>1 DEF LinkKept, CrSave
<1> QED
  BY <1>1, <1>2, <1>3, <1>4

LEMMA HasCaller ==
  ASSUME LayoutInv, NEW i \in 1..Len(frames), frames[i].kind = "method"
  PROVE  \E g : CalledFrom(frames[i], g) /\ g.stack \in Int /\ g.stack <= StackTop
<1>1. i > 1 /\ Len(frames) \in Nat /\ StackTop \in Nat
  BY InvBounds, SizeAssumption DEF LayoutInv, Stacked
<1>2. CalledFrom(frames[i], frames[i - 1]) /\ i - 1 \in 1..Len(frames)
  BY <1>1 DEF LayoutInv, Called
<1>3. /\ frames[i - 1] \in FrameRecord /\ frames[i - 1].stack < frames[i - 1].base
      /\ frames[i - 1].base <= frames[i - 1].bottom /\ frames[i - 1].bottom <= StackTop
  BY <1>2, InvBounds
<1>4. frames[i - 1].stack \in Int /\ frames[i - 1].base \in Int /\ frames[i - 1].bottom \in Int
  BY <1>3, FrameTypes
<1> QED
  BY <1>1, <1>2, <1>3, <1>4

(* The frames below frame k keep what they have when nothing above the     *)
(* bottom of frame k changes.                                              *)
LEMMA LowerKept ==
  ASSUME LayoutInv, NEW k \in 1..Len(frames), NEW i \in 1..k - 1, NEW m2,
         \A a \in frames[k].bottom..StackTop + 5 : m2[a] = mem[a]
  PROVE  DataKept(m2, frames[i], i) /\ LinkKept(m2, frames[i], i, Sp(i), FALSE)
<1>1. /\ Len(frames) \in Nat /\ i \in 1..Len(frames) /\ i < Len(frames) /\ k \in Nat
      /\ frames[i] \in FrameRecord /\ frames[k] \in FrameRecord
      /\ wordSize \in {4, 8} /\ StackTop \in Nat
  BY InvBounds, SizeAssumption DEF LayoutInv, LayoutTypes
<1>2. /\ Sp(i) \in Nat /\ Sp(i) + LrSave <= frames[i].stack /\ Sp(i) < frames[i].stack
      /\ frames[i].stack < frames[i].base /\ frames[i].base <= frames[i].bottom
      /\ frames[i].args >= 0 /\ Sp(i) + LinkWords + frames[i].args <= frames[i].stack + 1
      /\ frames[i].bottom <= StackTop /\ Sp(i) = frames[i + 1].bottom
  BY <1>1, InvBounds
<1>3. /\ frames[i].stack \in Int /\ frames[i].base \in Int /\ frames[i].bottom \in Int
      /\ frames[k].bottom \in Int
  BY <1>1, FrameTypes
<1>4. frames[k].bottom <= Sp(i)
  <2>1. i + 1 \in 1..Len(frames) /\ i + 1 <= k
    BY <1>1
  <2> QED
    BY <1>2, <2>1 DEF LayoutInv, Stacked
<1>5. \A a \in Sp(i)..StackTop + 5 : m2[a] = mem[a]
  BY SMTT(30), <1>1, <1>2, <1>3, <1>4
<1>6. DataKept(mem, frames[i], i) /\ LinkKept(mem, frames[i], i, Sp(i), FALSE)
  <2>1. (i = Len(frames)) = FALSE
    BY <1>1
  <2>2. DataKept(mem, frames[i], i) /\ LinkKept(mem, frames[i], i, Sp(i), i = Len(frames))
    BY <1>1 DEF LayoutInv, AllKept
  <2> QED
    BY <2>1, <2>2
<1>7. DataKept(m2, frames[i], i)
  <2>1. Sp(i) <= frames[i].stack + 1 /\ Sp(i) \in Int
    BY <1>2, <1>3
  <2>2. frames[i].kind = "method" =>
          \E g : CalledFrom(frames[i], g) /\ g.stack \in Int /\ g.stack <= StackTop
    BY <1>1, HasCaller
  <2> QED
    BY <1>1, <1>2, <1>5, <1>6, <2>1, <2>2, DataStays
<1>8. LinkKept(m2, frames[i], i, Sp(i), FALSE)
  <2>1. frames[i].stack <= StackTop /\ Sp(i) \in Int
    BY <1>1, <1>2, <1>3
  <2> QED
    BY <1>1, <1>2, <1>5, <1>6, <2>1, LinkStays
<1> QED
  BY <1>7, <1>8

(* The top frame changes, its bottom, method and locals do not.            *)
LEMMA ChangeTop ==
  ASSUME LayoutInv, frames # <<>>, wordSize' = wordSize,
         NEW fr \in FrameRecord, frames' = [frames EXCEPT ![Len(frames)] = fr],
         fr.kind = frames[Len(frames)].kind, fr.bottom = frames[Len(frames)].bottom,
         fr.method = frames[Len(frames)].method, fr.rlocals = frames[Len(frames)].rlocals,
         r1' \in Nat, (StackTop - r1') % Align = 0,
         Shape(fr, Len(frames), r1'),
         DOMAIN mem' = 0..StackTop + 5,
         \A a \in fr.bottom..StackTop + 5 : mem'[a] = mem[a],
         DataKept(mem', fr, Len(frames)),
         LinkKept(mem', fr, Len(frames), r1', TRUE)
  PROVE  LayoutInv'
<1> DEFINE n == Len(frames)
<1>1. /\ n \in Nat /\ n \in 1..n /\ frames \in Seq(FrameRecord) /\ wordSize \in {4, 8}
  BY DEF LayoutInv, LayoutTypes
<1>2. /\ frames' \in Seq(FrameRecord) /\ Len(frames') = n /\ frames'[n] = fr
      /\ \A i \in 1..n : i # n => frames'[i] = frames[i]
  BY <1>1
<1> HIDE DEF n
<1>3. \A i \in 1..n : /\ frames'[i].bottom = frames[i].bottom /\ frames'[i].kind = frames[i].kind
                      /\ frames'[i].method = frames[i].method /\ frames'[i].rlocals = frames[i].rlocals
  BY <1>1, <1>2 DEF n
<1>4. \A i \in 1..n : (Sp(i))' = IF i = n THEN r1' ELSE Sp(i)
  <2> TAKE i \in 1..n
  <2>1. CASE i = n
    BY <1>2, <2>1 DEF Sp
  <2>2. CASE i # n
    <3>1. (Sp(i))' = frames'[i + 1].bottom
      BY <1>2, <2>2 DEF Sp
    <3>2. Sp(i) = frames[i + 1].bottom
      BY <2>2 DEF Sp, n
    <3>3. i + 1 \in 1..n
      BY <1>1, <2>2
    <3> QED
      BY <1>3, <2>2, <3>1, <3>2, <3>3
  <2> QED
    BY <2>1, <2>2
<1>5. LayoutTypes'
  BY <1>1, <1>2 DEF LayoutTypes
<1>6. Stacked'
  <2>1. \A i \in 1..Len(frames') : frames'[i].kind = "method" <=> i > 1
    BY <1>2, <1>3 DEF LayoutInv, Stacked, n
  <2>2. frames' # <<>> /\ frames'[1].bottom = StackTop
    <3>1. 1 \in 1..n /\ frames' # <<>>
      BY <1>1, <1>2
    <3> QED
      BY <1>3, <3>1 DEF LayoutInv, Stacked
  <2>3. \A i, j \in 1..Len(frames') : i <= j => frames'[j].bottom <= frames'[i].bottom
    <3>1. \A i, j \in 1..n : i <= j => frames[j].bottom <= frames[i].bottom
      BY DEF LayoutInv, Stacked, n
    <3> QED
      BY <1>2, <1>3, <3>1
  <2>4. \A i \in 1..Len(frames') : (StackTop - frames'[i].bottom) % Align = 0
    BY <1>2, <1>3 DEF LayoutInv, Stacked, n
  <2>5. Align' = Align
    BY SameWordSize
  <2> QED
    BY <2>1, <2>2, <2>3, <2>4, <2>5 DEF Stacked
<1>7. Shaped'
  <2> SUFFICES ASSUME NEW i \in 1..n
               PROVE  Shape(frames[i], i, Sp(i))'
    BY <1>2 DEF Shaped
  <2>1. Shape(frames'[i], i, (Sp(i))')
    BY <1>1, <1>2, <1>4 DEF LayoutInv, Shaped, n
  <2> QED
    BY <2>1, SameWordSize
<1>8. Called'
  <2> SUFFICES ASSUME NEW i \in 2..n
               PROVE  CalledFrom(frames[i], frames[i - 1])'
    BY <1>2 DEF Called
  <2>1. CalledFrom(frames[i], frames[i - 1]) /\ i \in 1..n /\ i - 1 \in 1..n /\ i - 1 # n
    BY <1>1 DEF LayoutInv, Called, n
  <2>2. CalledFrom(frames'[i], frames'[i - 1])
    BY <1>2, <1>3, <2>1 DEF CalledFrom
  <2> QED
    BY <2>2, SameWordSize
<1>9. AllKept'
  <2> SUFFICES ASSUME NEW i \in 1..n
               PROVE  /\ DataKept(mem', frames'[i], i)
                      /\ LinkKept(mem, frames[i], i, Sp(i), i = Len(frames))'
    BY <1>2 DEF AllKept
  <2>1. DataKept(mem', frames'[i], i) /\ LinkKept(mem', frames'[i], i, (Sp(i))', i = n)
    <3>1. CASE i = n
      BY <1>1, <1>2, <1>4, <3>1 DEF n
    <3>2. CASE i # n
      <4>1. Len(frames) \in 1..Len(frames) /\ i \in 1..Len(frames) - 1
        BY <1>1, <3>2 DEF n
      <4>2. DataKept(mem', frames[i], i) /\ LinkKept(mem', frames[i], i, Sp(i), FALSE)
        BY <1>3, <4>1, LowerKept DEF n
      <4> QED
        BY <1>1, <1>2, <1>4, <3>2, <4>2 DEF n
    <3> QED
      BY <3>1, <3>2
  <2> QED
    BY <1>2, <2>1, SameWordSize
<1> QED
  BY <1>5, <1>6, <1>7, <1>8, <1>9 DEF LayoutInv

(* A frame has its sections all the more when its stack pointer is lower.  *)
LEMMA ShapeExtended ==
  ASSUME wordSize \in {4, 8}, NEW fr \in FrameRecord, NEW i, NEW sp \in Int, NEW p \in Int,
         Shape(fr, i, sp), p <= sp
  PROVE  Shape(fr, i, p)
<1>1. LinkWords \in Int /\ Header \in Int /\ Slop = 2
  BY Sizes
<1>2. fr.args \in Int /\ fr.limit \in Int /\ fr.rlocals \in Int /\ fr.method.params \in Nat
  BY FrameTypes
<1>3. StubShape(fr, sp) => StubShape(fr, p)
  BY <1>1, <1>2 DEF StubShape
<1>4. MethodShape(fr, sp) => MethodShape(fr, p)
  BY <1>1, <1>2 DEF MethodShape
<1> QED
  BY <1>3, <1>4 DEF Shape

(* A frame is made below the top one, which may have been extended.        *)
LEMMA PushFrame ==
  ASSUME LayoutInv, wordSize' = wordSize,
         NEW fr \in FrameRecord, frames' = Append(frames, fr),
         fr.kind = "method" <=> frames # <<>>,
         frames = <<>> => fr.bottom = r1,
         fr.bottom <= r1, (StackTop - fr.bottom) % Align = 0,
         r1' \in Nat, (StackTop - r1') % Align = 0,
         Shape(fr, Len(frames) + 1, r1'),
         DOMAIN mem' = 0..StackTop + 5,
         DataKept(mem', fr, Len(frames) + 1),
         LinkKept(mem', fr, Len(frames) + 1, r1', TRUE),
         frames # <<>> =>
           /\ CalledFrom(fr, frames[Len(frames)])
           /\ \A a \in frames[Len(frames)].stack + 1..StackTop + 5 : mem'[a] = mem[a]
           /\ LinkKept(mem', frames[Len(frames)], Len(frames), fr.bottom, FALSE)
  PROVE  LayoutInv'
<1> DEFINE n == Len(frames)
<1>1. /\ n \in Nat /\ frames \in Seq(FrameRecord) /\ wordSize \in {4, 8} /\ r1 \in Nat
      /\ frames # <<>> <=> n > 0
      /\ fr.bottom \in Int
  BY FrameTypes DEF LayoutInv, LayoutTypes
<1>2. /\ frames' \in Seq(FrameRecord) /\ Len(frames') = n + 1 /\ frames'[n + 1] = fr
      /\ \A i \in 1..n : frames'[i] = frames[i]
  BY <1>1
<1> HIDE DEF n
<1>3. \A i \in 1..n : frames[i] \in FrameRecord /\ frames[i].bottom \in Int
  BY <1>1, FrameTypes DEF n
<1>4. \A i \in 1..n : (Sp(i))' = IF i = n THEN fr.bottom ELSE Sp(i)
  <2> TAKE i \in 1..n
  <2>1. (Sp(i))' = frames'[i + 1].bottom
    BY <1>1, <1>2 DEF Sp
  <2>2. CASE i = n
    BY <1>2, <2>1, <2>2
  <2>3. CASE i # n
    <3>1. i + 1 \in 1..n
      BY <1>1, <2>3
    <3>2. Sp(i) = frames[i + 1].bottom
      BY <2>3 DEF Sp, n
    <3> QED
      BY <1>2, <2>1, <2>3, <3>1, <3>2
  <2> QED
    BY <2>2, <2>3
<1>5. \A i : i = n + 1 => (Sp(i))' = r1'
  BY <1>1, <1>2 DEF Sp, n
<1>6. \A i \in 1..n + 1 : i \in 1..n \/ i = n + 1
  BY <1>1
<1>7. LayoutTypes'
  BY <1>1, <1>2 DEF LayoutTypes
<1>8. Stacked'
  <2>1. \A i \in 1..Len(frames') : frames'[i].kind = "method" <=> i > 1
    <3> SUFFICES ASSUME NEW i \in 1..n + 1
                 PROVE  frames'[i].kind = "method" <=> i > 1
      BY <1>2
    <3>1. CASE i \in 1..n
      BY <1>2, <3>1 DEF LayoutInv, Stacked, n
    <3>2. CASE i = n + 1
      BY <1>1, <1>2, <3>2
    <3> QED
      BY <1>6, <3>1, <3>2
  <2>2. frames' # <<>> /\ frames'[1].bottom = StackTop
    <3>1. frames' # <<>>
      BY <1>1, <1>2
    <3>2. CASE n = 0
      <4>1. frames = <<>>
        BY <1>1, <3>2
      <4> QED
        BY <1>2, <3>1, <3>2, <4>1 DEF LayoutInv, Stacked
    <3>3. CASE n > 0
      BY <1>1, <1>2, <3>1, <3>3 DEF LayoutInv, Stacked
    <3> QED
      BY <1>1, <3>2, <3>3
  <2>3. ASSUME NEW i \in 1..n + 1, NEW j \in 1..n + 1, i <= j
        PROVE  frames'[j].bottom <= frames'[i].bottom
    <3>1. CASE j \in 1..n
      <4>1. i \in 1..n
        BY <2>3, <3>1, <1>1
      <4> QED
        BY <1>2, <2>3, <3>1, <4>1 DEF LayoutInv, Stacked, n
    <3>2. CASE j = n + 1 /\ i \in 1..n
      <4>1. /\ r1 <= Sp(i) /\ Sp(i) < frames[i].stack /\ Sp(i) \in Nat
            /\ frames[i].stack < frames[i].base /\ frames[i].base <= frames[i].bottom
        BY <3>2, InvBounds DEF n
      <4>2. frames[i].stack \in Int /\ frames[i].base \in Int /\ frames[i].bottom \in Int
        BY <1>3, <3>2, FrameTypes
      <4>3. fr.bottom <= frames[i].bottom
        BY <1>1, <4>1, <4>2
      <4> QED
        BY <1>2, <3>2, <4>3
    <3>3. CASE j = n + 1 /\ i = n + 1
      BY <1>1, <1>2, <3>3
    <3> QED
      BY <1>6, <3>1, <3>2, <3>3
  <2>4. \A i \in 1..Len(frames') : (StackTop - frames'[i].bottom) % Align = 0
    <3> SUFFICES ASSUME NEW i \in 1..n + 1
                 PROVE  (StackTop - frames'[i].bottom) % Align = 0
      BY <1>2
    <3>1. CASE i \in 1..n
      BY <1>2, <3>1 DEF LayoutInv, Stacked, n
    <3>2. CASE i = n + 1
      BY <1>2, <3>2
    <3> QED
      BY <1>6, <3>1, <3>2
  <2>5. Align' = Align
    BY SameWordSize
  <2> QED
    BY <1>2, <2>1, <2>2, <2>3, <2>4, <2>5 DEF Stacked
<1>9. Shaped'
  <2> SUFFICES ASSUME NEW i \in 1..n + 1
               PROVE  Shape(frames[i], i, Sp(i))'
    BY <1>2 DEF Shaped
  <2>1. Shape(frames'[i], i, (Sp(i))')
    <3>1. CASE i = n + 1
      BY <1>2, <1>5, <3>1 DEF n
    <3>2. CASE i \in 1..n
      <4>1. Shape(frames[i], i, Sp(i)) /\ Sp(i) \in Int
        BY <3>2, InvBounds DEF LayoutInv, Shaped, n
      <4>2. CASE i # n
        BY <1>2, <1>4, <3>2, <4>1, <4>2
      <4>3. CASE i = n
        <5>1. Sp(i) = r1
          BY <4>3 DEF Sp, n
        <5>2. Shape(frames[i], i, fr.bottom)
          BY <1>1, <1>3, <3>2, <4>1, <5>1, ShapeExtended
        <5> QED
          BY <1>2, <1>4, <3>2, <4>3, <5>2
      <4> QED
        BY <4>2, <4>3
    <3> QED
      BY <1>6, <3>1, <3>2
  <2> QED
    BY <2>1, SameWordSize
<1>10. Called'
  <2> SUFFICES ASSUME NEW i \in 2..n + 1
               PROVE  CalledFrom(frames[i], frames[i - 1])'
    BY <1>2 DEF Called
  <2>1. CalledFrom(frames'[i], frames'[i - 1])
    <3>1. CASE i = n + 1
      <4>1. n > 0 /\ i - 1 = n /\ n \in 1..n
        BY <1>1, <3>1
      <4> QED
        BY <1>1, <1>2, <3>1, <4>1 DEF n
    <3>2. CASE i # n + 1
      <4>1. i \in 2..n /\ i \in 1..n /\ i - 1 \in 1..n
        BY <1>1, <3>2
      <4> QED
        BY <1>2, <4>1 DEF LayoutInv, Called, n
    <3> QED
      BY <3>1, <3>2
  <2> QED
    BY <2>1, SameWordSize
<1>11. AllKept'
  <2> SUFFICES ASSUME NEW i \in 1..n + 1
               PROVE  /\ DataKept(mem', frames'[i], i)
                      /\ LinkKept(mem, frames[i], i, Sp(i), i = Len(frames))'
    BY <1>2 DEF AllKept
  <2>1. DataKept(mem', frames'[i], i) /\ LinkKept(mem', frames'[i], i, (Sp(i))', i = n + 1)
    <3>1. CASE i = n + 1
      BY <1>2, <1>5, <3>1 DEF n
    <3>2. CASE i \in 1..n
      <4>1. (i = n + 1) = FALSE /\ n \in 1..n /\ n > 0
        BY <1>1, <3>2
      <4>2. /\ frames[n].stack < frames[n].base /\ frames[n].base <= frames[n].bottom
            /\ frames[n].bottom <= StackTop
        BY <4>1, InvBounds DEF n
      <4>3. /\ frames[n] \in FrameRecord /\ frames[n].stack \in Int /\ frames[n].base \in Int
            /\ frames[n].bottom \in Int
        BY <1>3, <4>1, FrameTypes
      <4>4. \A a \in frames[n].stack + 1..StackTop + 5 : mem'[a] = mem[a]
        BY <1>1, <4>1 DEF n
      <4>5. CASE i = n
        <5>1. DataKept(mem, frames[n], n)
          BY <4>1 DEF LayoutInv, AllKept, n
        <5>2. frames[n].kind = "method" =>
                \E g : CalledFrom(frames[n], g) /\ g.stack \in Int /\ g.stack <= StackTop
          BY <4>1, HasCaller DEF n
        <5>3. frames[n].stack + 1 \in Int /\ frames[n].stack + 1 <= frames[n].stack + 1
          BY <4>3
        <5>4. DataKept(mem', frames[n], n)
          BY <1>1, <4>2, <4>3, <4>4, <5>1, <5>2, <5>3, DataStays, ZenonT(30)
        <5>5. LinkKept(mem', frames[n], n, fr.bottom, FALSE)
          BY <1>1, <4>1 DEF n
        <5> QED
          BY <1>2, <1>4, <3>2, <4>1, <4>5, <5>4, <5>5
      <4>6. CASE i # n
        <5>1. n \in 1..Len(frames) /\ i \in 1..n - 1
          BY <1>1, <3>2, <4>1, <4>6 DEF n
        <5>2. \A a \in frames[n].bottom..StackTop + 5 : mem'[a] = mem[a]
          BY <4>2, <4>3, <4>4
        <5>3. DataKept(mem', frames[i], i) /\ LinkKept(mem', frames[i], i, Sp(i), FALSE)
          BY <5>1, <5>2, LowerKept
        <5> QED
          BY <1>2, <1>4, <3>2, <4>1, <4>6, <5>3
      <4> QED
        BY <4>5, <4>6
    <3> QED
      BY <1>6, <3>1, <3>2
  <2> QED
    BY <1>2, <2>1, SameWordSize
<1> QED
  BY <1>7, <1>8, <1>9, <1>10, <1>11 DEF LayoutInv

(* The top frame goes, and its caller, which is the top frame then, gets    *)
(* another stack or kind.                                                  *)
LEMMA PopFrame ==
  ASSUME LayoutInv, wordSize' = wordSize, Len(frames) > 1,
         NEW k \in Nat, k = Len(frames) - 1,
         NEW fr \in FrameRecord, frames' = [SubSeq(frames, 1, k) EXCEPT ![k] = fr],
         fr.kind = "method" <=> frames[k].kind = "method", fr.bottom = frames[k].bottom,
         fr.method = frames[k].method, fr.rlocals = frames[k].rlocals,
         r1' = frames[Len(frames)].bottom, r1' \in Nat,
         Shape(fr, k, r1'),
         DOMAIN mem' = 0..StackTop + 5,
         \A a \in fr.bottom..StackTop + 5 : mem'[a] = mem[a],
         DataKept(mem', fr, k),
         LinkKept(mem', fr, k, r1', TRUE)
  PROVE  LayoutInv'
<1> DEFINE n == Len(frames)
<1>1. /\ n \in Nat /\ n = k + 1 /\ k \in 1..n /\ k > 0 /\ n \in 1..n
      /\ frames \in Seq(FrameRecord) /\ wordSize \in {4, 8}
  BY DEF LayoutInv, LayoutTypes
<1>2. /\ frames' \in Seq(FrameRecord) /\ Len(frames') = k /\ frames'[k] = fr
      /\ \A i \in 1..k : i # k => frames'[i] = frames[i]
  <2> DEFINE lower == SubSeq(frames, 1, k)
  <2>1. /\ lower \in Seq(FrameRecord) /\ Len(lower) = k /\ \A i \in 1..k : lower[i] = frames[i]
    BY <1>1
  <2> HIDE DEF lower
  <2>2. frames' = [lower EXCEPT ![k] = fr]
    BY DEF lower
  <2>3. k \in 1..Len(lower)
    BY <1>1, <2>1
  <2>4. /\ frames' \in Seq(FrameRecord) /\ Len(frames') = Len(lower)
        /\ \A i \in 1..Len(lower) : frames'[i] = IF i = k THEN fr ELSE lower[i]
    <3>1. lower \in Seq(FrameRecord) /\ fr \in FrameRecord
      BY <2>1
    <3> DEFINE t == [lower EXCEPT ![k] = fr]
    <3>2. /\ t \in Seq(FrameRecord) /\ Len(t) = Len(lower)
          /\ \A i \in 1..Len(lower) : t[i] = IF i = k THEN fr ELSE lower[i]
      BY <2>3, <3>1, SeqExcept
    <3>3. frames' = t
      BY <2>2
    <3> HIDE DEF t
    <3> QED
      BY <3>2, <3>3
  <2>5. k \in 1..k
    BY <1>1
  <2> QED
    BY <2>1, <2>4, <2>5
<1> HIDE DEF n
<1>3. \A i \in 1..k :
        /\ i \in 1..n /\ i + 1 \in 1..n
        /\ frames'[i].bottom = frames[i].bottom
        /\ frames'[i].kind = "method" <=> frames[i].kind = "method"
        /\ frames'[i].method = frames[i].method /\ frames'[i].rlocals = frames[i].rlocals
  BY <1>1, <1>2
<1>4. \A i \in 1..k : (Sp(i))' = IF i = k THEN r1' ELSE Sp(i)
  <2> TAKE i \in 1..k
  <2>1. CASE i = k
    BY <1>2, <2>1 DEF Sp
  <2>2. CASE i # k
    <3>1. (Sp(i))' = frames'[i + 1].bottom
      BY <1>2, <2>2 DEF Sp
    <3>2. Sp(i) = frames[i + 1].bottom
      BY <1>1 DEF Sp, n
    <3>3. i + 1 \in 1..k
      BY <1>1, <2>2
    <3> QED
      BY <1>3, <2>2, <3>1, <3>2, <3>3
  <2> QED
    BY <2>1, <2>2
<1>5. LayoutTypes'
  BY <1>1, <1>2 DEF LayoutTypes
<1>6. Stacked'
  <2>1. \A i \in 1..Len(frames') : frames'[i].kind = "method" <=> i > 1
    BY <1>2, <1>3 DEF LayoutInv, Stacked, n
  <2>2. frames' # <<>> /\ frames'[1].bottom = StackTop
    <3>1. 1 \in 1..k /\ frames' # <<>> /\ frames # <<>>
      BY SMTT(30), <1>1, <1>2 DEF n
    <3> QED
      BY <1>3, <3>1 DEF LayoutInv, Stacked
  <2>3. \A i, j \in 1..Len(frames') : i <= j => frames'[j].bottom <= frames'[i].bottom
    <3>1. \A i, j \in 1..n : i <= j => frames[j].bottom <= frames[i].bottom
      BY DEF LayoutInv, Stacked, n
    <3> QED
      BY <1>2, <1>3, <3>1
  <2>4. \A i \in 1..n : (StackTop - frames[i].bottom) % Align = 0
    BY DEF LayoutInv, Stacked, n
  <2>5. \A i \in 1..Len(frames') : (StackTop - frames'[i].bottom) % Align = 0
    BY <1>2, <1>3, <2>4
  <2>6. (StackTop - r1') % Align = 0
    BY <1>1, <2>4 DEF n
  <2>7. Align' = Align
    BY SameWordSize
  <2> QED
    BY <2>1, <2>2, <2>3, <2>5, <2>6, <2>7 DEF Stacked
<1>7. Shaped'
  <2> SUFFICES ASSUME NEW i \in 1..k
               PROVE  Shape(frames[i], i, Sp(i))'
    BY <1>2 DEF Shaped
  <2>1. Shape(frames'[i], i, (Sp(i))')
    BY <1>1, <1>2, <1>3, <1>4 DEF LayoutInv, Shaped, n
  <2> QED
    BY <2>1, SameWordSize
<1>8. Called'
  <2> SUFFICES ASSUME NEW i \in 2..k
               PROVE  CalledFrom(frames[i], frames[i - 1])'
    BY <1>2 DEF Called
  <2>1. i \in 2..Len(frames) /\ i \in 1..k /\ i - 1 \in 1..k /\ i - 1 # k
    BY <1>1
  <2>2. CalledFrom(frames[i], frames[i - 1])
    BY <2>1 DEF LayoutInv, Called
  <2>3. CalledFrom(frames'[i], frames'[i - 1])
    BY <1>2, <1>3, <2>1, <2>2 DEF CalledFrom
  <2> QED
    BY <2>3, SameWordSize
<1>9. AllKept'
  <2> SUFFICES ASSUME NEW i \in 1..k
               PROVE  /\ DataKept(mem', frames'[i], i)
                      /\ LinkKept(mem, frames[i], i, Sp(i), i = Len(frames))'
    BY <1>2 DEF AllKept
  <2>1. DataKept(mem', frames'[i], i) /\ LinkKept(mem', frames'[i], i, (Sp(i))', i = k)
    <3>1. CASE i = k
      BY <1>2, <1>4, <3>1
    <3>2. CASE i # k
      <4>1. k \in 1..Len(frames) /\ i \in 1..k - 1
        BY <1>1, <3>2 DEF n
      <4>2. DataKept(mem', frames[i], i) /\ LinkKept(mem', frames[i], i, Sp(i), FALSE)
        BY <1>3, <4>1, LowerKept DEF n
      <4> QED
        BY <1>2, <1>4, <3>2, <4>2
    <3> QED
      BY <3>1, <3>2
  <2> QED
    BY <1>2, <2>1, SameWordSize
<1> QED
  BY <1>5, <1>6, <1>7, <1>8, <1>9 DEF LayoutInv

-----------------------------------------------------------------------------
(* The running method's steps. *)

LEMMA TopFacts ==
  ASSUME LayoutInv, frames # <<>>
  PROVE  /\ Len(frames) \in Nat /\ Len(frames) \in 1..Len(frames) /\ Top = frames[Len(frames)]
         /\ Top \in FrameRecord /\ Shape(Top, Len(frames), r1)
         /\ DataKept(mem, Top, Len(frames)) /\ LinkKept(mem, Top, Len(frames), r1, TRUE)
         /\ wordSize \in {4, 8} /\ r1 \in Nat /\ DOMAIN mem = 0..StackTop + 5 /\ StackTop \in Nat
         /\ (StackTop - r1) % Align = 0
         /\ r1 + LrSave <= Top.stack /\ r1 + CrSave <= Top.stack /\ r1 < Top.stack
         /\ Top.stack < Top.base /\ Top.base <= Top.bottom /\ Top.bottom <= StackTop
         /\ Top.args >= 0 /\ r1 + LinkWords + Top.args <= Top.stack + 1
         /\ Top.kind = "method" <=> Len(frames) > 1
         /\ Len(frames) > 1 => MethodShape(Top, r1)
         /\ Top.kind = "method" => \E g : CalledFrom(Top, g) /\ g.stack \in Int /\ g.stack <= StackTop
<1> DEFINE n == Len(frames)
<1>1. n \in Nat /\ n \in 1..n
  BY DEF LayoutInv, LayoutTypes
<1>2. Top = frames[n] /\ Sp(n) = r1 /\ (n = Len(frames)) = TRUE
  BY DEF Top, Sp
<1>3. /\ wordSize \in {4, 8} /\ r1 \in Nat /\ DOMAIN mem = 0..StackTop + 5 /\ StackTop \in Nat
      /\ (StackTop - r1) % Align = 0
  BY SizeAssumption DEF LayoutInv, LayoutTypes, Stacked
<1>4. DataKept(mem, frames[n], n) /\ LinkKept(mem, frames[n], n, Sp(n), n = Len(frames))
  BY <1>1 DEF LayoutInv, AllKept
<1>5. Shape(Top, n, r1)
  BY <1>1, <1>2 DEF LayoutInv, Shaped
<1>6. Top.kind = "method" <=> n > 1
  BY <1>1, <1>2 DEF LayoutInv, Stacked
<1>7. n > 1 => MethodShape(Top, r1)
  <2> HIDE DEF n
  <2>1. n > 1 => n # 1
    BY <1>1
  <2> QED
    BY <1>5, <2>1 DEF Shape
<1>8. Top.kind = "method" => \E g : CalledFrom(Top, g) /\ g.stack \in Int /\ g.stack <= StackTop
  BY <1>1, <1>2, HasCaller
<1>9. /\ Top \in FrameRecord
      /\ r1 + LrSave <= Top.stack /\ r1 + CrSave <= Top.stack /\ r1 < Top.stack
      /\ Top.stack < Top.base /\ Top.base <= Top.bottom /\ Top.bottom <= StackTop
      /\ Top.args >= 0 /\ r1 + LinkWords + Top.args <= Top.stack + 1
  BY <1>1, <1>2, InvBounds
<1> QED
  BY <1>1, <1>2, <1>3, <1>4, <1>5, <1>6, <1>7, <1>8, <1>9

(* The link area moves, nothing at or above the old stack pointer changes.  *)
LEMMA Extends ==
  ASSUME wordSize \in {4, 8}, NEW m, NEW p \in Nat, NEW q \in Nat, q = p \/ q <= p - 2,
         DOMAIN m = 0..StackTop + 5, p <= StackTop
  PROVE  /\ DOMAIN Extend(m, p, q) = 0..StackTop + 5
         /\ Extend(m, p, q)[q] = m[p]
         /\ wordSize = 8 => Extend(m, p, q)[q + CrSave] = m[p + CrSave]
         /\ \A a \in 0..StackTop + 5 : a \notin {q, q + CrSave} => Extend(m, p, q)[a] = m[a]
<1>1. StackTop \in Nat /\ CrSave = 1
  BY SizeAssumption DEF CrSave
<1>2. CASE p = q
  BY <1>2 DEF Extend
<1>3. CASE p # q
  <2> DEFINE cells == [a \in {q} \cup (IF wordSize = 8 THEN {q + CrSave} ELSE {}) |-> m[p + a - q]]
  <2>1. Extend(m, p, q) = Store(m, cells)
    BY <1>3 DEF Extend
  <2>2. /\ DOMAIN cells = {q} \cup (IF wordSize = 8 THEN {q + CrSave} ELSE {})
        /\ cells[q] = m[p + q - q]
        /\ wordSize = 8 => cells[q + CrSave] = m[p + (q + CrSave) - q]
    OBVIOUS
  <2>3. p + q - q = p /\ p + (q + CrSave) - q = p + CrSave
    BY <1>1
  <2>4. q \in DOMAIN m /\ q + CrSave \in DOMAIN m
    BY <1>1
  <2> HIDE DEF cells
  <2>5. /\ DOMAIN Store(m, cells) = DOMAIN m
        /\ \A a \in DOMAIN m : Store(m, cells)[a] = IF a \in DOMAIN cells THEN cells[a] ELSE m[a]
    BY Stores
  <2> QED
    BY <2>1, <2>2, <2>3, <2>4, <2>5
<1> QED
  BY <1>2, <1>3

(* A frame with other pointers is a frame.                                  *)
LEMMA FrameUpdates ==
  ASSUME NEW fr \in FrameRecord, NEW x \in Int
  PROVE  /\ [fr EXCEPT !.stack = x] \in FrameRecord
         /\ [fr EXCEPT !.args = x] \in FrameRecord
         /\ [fr EXCEPT !.limit = x] \in FrameRecord
         /\ [fr EXCEPT !.base = x] \in FrameRecord
         /\ [fr EXCEPT !.monitors = x] \in FrameRecord
         /\ [fr EXCEPT !.kind = "returned"] \in FrameRecord
BY DEF FrameRecord

LEMMA TopExtends ==
  ASSUME LayoutInv, frames # <<>>, NEW q \in Nat, q = r1 \/ q <= r1 - 2
  PROVE  /\ DOMAIN Extend(mem, r1, q) = 0..StackTop + 5
         /\ Extend(mem, r1, q)[q] = mem[r1]
         /\ wordSize = 8 => Extend(mem, r1, q)[q + CrSave] = mem[r1 + CrSave]
         /\ \A a \in 0..StackTop + 5 : a \notin {q, q + CrSave} => Extend(mem, r1, q)[a] = mem[a]
<1>1. wordSize \in {4, 8} /\ r1 \in Nat /\ DOMAIN mem = 0..StackTop + 5
  BY TopFacts
<1>2. r1 <= StackTop
  <2>1. /\ Top.stack \in Int /\ Top.base \in Int /\ Top.bottom \in Int /\ StackTop \in Nat
        /\ r1 < Top.stack /\ Top.stack < Top.base /\ Top.base <= Top.bottom /\ Top.bottom <= StackTop
    BY TopFacts, FrameTypes
  <2> QED
    BY <1>1, <2>1
<1> QED
  BY <1>1, <1>2, Extends, ZenonT(30)

LEMMA PushOperandStep ==
  ASSUME LayoutInv, PushOperand
  PROVE  LayoutInv'
<1> DEFINE n == Len(frames)
           fr == [Top EXCEPT !.stack = @ - 1]
<1>1. /\ n > 1 /\ Top.stack > Top.limit
      /\ mem' = [mem EXCEPT ![Top.stack] = <<"operand", n, OperandCount(Top) + 1>>]
      /\ frames' = [frames EXCEPT ![n].stack = @ - 1]
      /\ wordSize' = wordSize /\ r1' = r1
  BY DEF PushOperand
<1>2. frames # <<>>
  BY <1>1
<1>3. /\ n \in Nat /\ n \in 1..n /\ Top = frames[n] /\ Top \in FrameRecord
      /\ DataKept(mem, Top, n) /\ LinkKept(mem, Top, n, r1, TRUE)
      /\ wordSize \in {4, 8} /\ r1 \in Nat /\ DOMAIN mem = 0..StackTop + 5 /\ StackTop \in Nat
      /\ (StackTop - r1) % Align = 0 /\ r1 < Top.stack
      /\ Top.stack < Top.base /\ Top.base <= Top.bottom /\ Top.bottom <= StackTop
      /\ Top.kind = "method" /\ MethodShape(Top, r1)
      /\ Top.kind = "method" => \E g : CalledFrom(Top, g) /\ g.stack \in Int /\ g.stack <= StackTop
  BY <1>1, <1>2, TopFacts
<1>4. /\ Top.bottom \in Int /\ Top.limit \in Int /\ Top.stack \in Int /\ Top.base \in Int
      /\ Top.args \in Int
      /\ r1 \in Nat /\ StackTop \in Nat /\ r1 < Top.stack
      /\ Top.stack < Top.base /\ Top.base <= Top.bottom /\ Top.bottom <= StackTop
  BY <1>3, FrameTypes
<1>5. /\ fr \in FrameRecord /\ fr.stack = Top.stack - 1
      /\ fr.kind = Top.kind /\ fr.bottom = Top.bottom /\ fr.method = Top.method
      /\ fr.rlocals = Top.rlocals /\ fr.limit = Top.limit /\ fr.base = Top.base
      /\ fr.state = Top.state /\ fr.args = Top.args
  <2>1. Top.stack - 1 \in Int
    BY <1>4
  <2>2. fr \in FrameRecord
    BY <1>3, <2>1, FrameUpdates
  <2> QED
    BY <1>3, <2>2 DEF FrameRecord
<1>6. frames' = [frames EXCEPT ![n] = fr]
  BY <1>1, <1>3 DEF Top
<1> HIDE DEF fr
<1>7. Shape(fr, n, r1')
  <2>1. MethodShape(fr, r1)
    BY SMTT(30), <1>1, <1>3, <1>4, <1>5 DEF MethodShape
  <2> QED
    BY <1>1, <2>1 DEF Shape
<1>8. /\ r1 + LrSave <= fr.stack /\ fr.args >= 0 /\ r1 + LinkWords + fr.args <= fr.stack + 1
  BY <1>1, <1>3, <1>5, <1>7, ShapeBounds
<1>9. /\ DOMAIN mem' = 0..StackTop + 5
      /\ mem'[Top.stack] = <<"operand", n, OperandCount(Top) + 1>>
      /\ \A a \in 0..StackTop + 5 : a # Top.stack => mem'[a] = mem[a]
  BY SMTT(30), <1>1, <1>3, <1>4
<1>10. \A a \in fr.bottom..StackTop + 5 : mem'[a] = mem[a]
  BY SMTT(30), <1>3, <1>4, <1>5, <1>9
<1>11. DataKept(mem', fr, n)
  <2>1. \A a \in Top.stack + 1..StackTop + 5 : mem'[a] = mem[a]
    BY <1>3, <1>4, <1>9
  <2>2. DataKept(mem', Top, n)
    <3>1. Top.stack + 1 \in Int /\ Top.stack + 1 <= Top.stack + 1
      BY <1>4
    <3> QED
      BY <1>3, <2>1, <3>1, DataStays
  <2>3. \A a \in fr.stack + 1..fr.base - 1 : mem'[a] = <<"operand", n, fr.base - a>>
    <3> TAKE a \in fr.stack + 1..fr.base - 1
    <3>1. CASE a = Top.stack
      <4>1. OperandCount(Top) + 1 = fr.base - a
        BY <1>4, <1>5, <3>1 DEF OperandCount
      <4> QED
        BY <1>9, <3>1, <4>1
    <3>2. CASE a # Top.stack
      <4>1. a \in Top.stack + 1..Top.base - 1
        BY <1>4, <1>5, <3>2
      <4> QED
        BY <1>5, <2>2, <4>1 DEF DataKept
    <3> QED
      BY <3>1, <3>2
  <2> QED
    BY <1>5, <2>2, <2>3 DEF DataKept
<1>12. LinkKept(mem', fr, n, r1', TRUE)
  <2>1. LinkKept(mem, fr, n, r1, TRUE)
    BY <1>3, <1>5 DEF LinkKept
  <2>2. /\ LinkWords \in {2, 6} /\ LrSave \in {1, 2} /\ CrSave = 1
    BY <1>3, Sizes
  <2>3. mem'[r1] = mem[r1]
    BY <1>3, <1>4, <1>9
  <2>4. \A a \in r1 + LinkWords..r1 + LinkWords + fr.args - 1 : mem'[a] = mem[a]
    <3> TAKE a \in r1 + LinkWords..r1 + LinkWords + fr.args - 1
    <3>1. fr.args \in Int /\ fr.stack = Top.stack - 1 /\ r1 + LinkWords + fr.args <= fr.stack + 1
      BY <1>4, <1>5, <1>8
    <3>2. a \in 0..StackTop + 5 /\ a # Top.stack
      BY <1>4, <2>2, <3>1
    <3> QED
      BY <1>9, <3>2
  <2>5. \A a \in r1 + LinkWords..r1 + LinkWords + fr.args - 1 : mem'[a] = <<"arg", n, a - r1>>
    BY <2>1, <2>4 DEF LinkKept
  <2> QED
    BY <1>1, <1>3, <1>5, <2>1, <2>3, <2>5 DEF LinkKept
<1>13. r1' \in Nat /\ (StackTop - r1') % Align = 0
  BY <1>1, <1>3
<1> QED
  BY <1>1, <1>2, <1>3, <1>5, <1>6, <1>7, <1>9, <1>10, <1>11, <1>12, <1>13, ChangeTop

LEMMA PassOnStackStep ==
  ASSUME LayoutInv, PassOnStack, r1' >= 0
  PROVE  LayoutInv'
<1> DEFINE n == Len(frames)
<1>1. PICK w \in MinParams + 1..MinParams + MaxStackArgs :
        LET p == Extended(r1, w, RoomForArguments(Top))
        IN  /\ r1' = p
            /\ mem' = Store(Extend(mem, r1, p),
                            [a \in p + LinkWords..p + LinkWords + w - 1 |-> <<"arg", n, a - p>>])
            /\ frames' = [frames EXCEPT ![n].args = w]
  BY DEF PassOnStack
<1>2. n > 1 /\ Top.method.native /\ Top.args = 0 /\ wordSize' = wordSize /\ frames # <<>>
  BY DEF PassOnStack
<1>3. /\ n \in Nat /\ n \in 1..n /\ Top = frames[n] /\ Top \in FrameRecord
      /\ DataKept(mem, Top, n) /\ LinkKept(mem, Top, n, r1, TRUE)
      /\ wordSize \in {4, 8} /\ r1 \in Nat /\ DOMAIN mem = 0..StackTop + 5 /\ StackTop \in Nat
      /\ (StackTop - r1) % Align = 0 /\ r1 < Top.stack
      /\ Top.stack < Top.base /\ Top.base <= Top.bottom /\ Top.bottom <= StackTop
      /\ Top.kind = "method" /\ MethodShape(Top, r1)
      /\ Top.kind = "method" => \E g : CalledFrom(Top, g) /\ g.stack \in Int /\ g.stack <= StackTop
  BY <1>2, TopFacts
<1>4. /\ Top.bottom \in Int /\ Top.limit \in Int /\ Top.stack \in Int /\ Top.base \in Int
      /\ Top.args \in Int
      /\ r1 \in Nat /\ StackTop \in Nat /\ r1 < Top.stack
      /\ Top.stack < Top.base /\ Top.base <= Top.bottom /\ Top.bottom <= StackTop
  BY <1>3, FrameTypes
<1>5. /\ LinkWords \in {2, 6} /\ LrSave \in {1, 2} /\ CrSave = 1 /\ MinParams \in {0, 8}
      /\ w \in Nat /\ w > 0
  BY <1>3, Sizes, SizeAssumption
<1> DEFINE p == Extended(r1, w, RoomForArguments(Top))
           args == [a \in p + LinkWords..p + LinkWords + w - 1 |-> <<"arg", n, a - p>>]
           fr == [Top EXCEPT !.args = w]
<1>6. /\ p \in Int /\ p <= r1 /\ p <= r1 - (w - RoomForArguments(Top)) 
      /\ p # r1 => p <= r1 - 2
      /\ (StackTop - p) % Align = 0
  <2>1. RoomForArguments(Top) \in Int
    BY <1>4, <1>5 DEF RoomForArguments
  <2>2. w \in Int /\ r1 \in Int
    BY <1>4, <1>5
  <2> QED
    BY <1>3, <2>1, <2>2, Extensions
<1>7. r1' = p /\ mem' = Store(Extend(mem, r1, p), args)
  BY <1>1
<1>8. /\ fr \in FrameRecord /\ fr.stack = Top.stack
      /\ fr.kind = Top.kind /\ fr.bottom = Top.bottom /\ fr.method = Top.method
      /\ fr.rlocals = Top.rlocals /\ fr.limit = Top.limit /\ fr.base = Top.base
      /\ fr.state = Top.state /\ fr.args = w
  <2>1. w \in Int
    BY <1>5
  <2>2. fr \in FrameRecord
    BY <1>3, <2>1, FrameUpdates
  <2> QED
    BY <1>3, <2>2 DEF FrameRecord
<1>9. frames' = [frames EXCEPT ![n] = fr]
  BY <1>1, <1>3 DEF Top
<1>10. /\ DOMAIN args = p + LinkWords..p + LinkWords + w - 1
       /\ \A a \in DOMAIN args : args[a] = <<"arg", n, a - p>>
  OBVIOUS
<1> HIDE DEF fr, args, p
<1>11. p + LinkWords + w <= Top.limit + 1 /\ p \in Nat
  <2>1. RoomForArguments(Top) = Top.limit + 1 - LinkWords - r1
    BY DEF RoomForArguments
  <2> QED
    BY <1>4, <1>5, <1>6, <1>7, <2>1
<1>12. Shape(fr, n, p)
  <2>1. MethodShape(fr, p)
    BY <1>2, <1>3, <1>4, <1>5, <1>8, <1>11 DEF MethodShape
  <2> QED
    BY <1>2, <1>3, <2>1 DEF Shape
<1>13. Top.limit <= Top.stack
  BY <1>3 DEF MethodShape
<1>14. /\ DOMAIN Extend(mem, r1, p) = 0..StackTop + 5
       /\ Extend(mem, r1, p)[p] = mem[r1]
       /\ \A a \in 0..StackTop + 5 : a \notin {p, p + CrSave} => Extend(mem, r1, p)[a] = mem[a]
  <2>1. p = r1 \/ p <= r1 - 2
    BY <1>6
  <2>2. r1 <= StackTop
    BY <1>4
  <2> QED
    BY <1>3, <1>11, <2>1, <2>2, Extends
<1>15. /\ DOMAIN mem' = 0..StackTop + 5
       /\ \A a \in 0..StackTop + 5 :
            mem'[a] = IF a \in DOMAIN args THEN args[a] ELSE Extend(mem, r1, p)[a]
  <2> DEFINE m == Extend(mem, r1, p)
  <2>1. DOMAIN m = 0..StackTop + 5 /\ mem' = Store(m, args)
    BY <1>7, <1>14
  <2> HIDE DEF m
  <2>2. /\ DOMAIN mem' = 0..StackTop + 5
        /\ \A a \in 0..StackTop + 5 : mem'[a] = IF a \in DOMAIN args THEN args[a] ELSE m[a]
    BY <2>1, Stores
  <2> QED
    BY <2>2 DEF m
<1>16. \A a \in Top.stack + 1..StackTop + 5 : mem'[a] = mem[a]
  <2> TAKE a \in Top.stack + 1..StackTop + 5
  <2>1. a \in 0..StackTop + 5 /\ a \notin {p, p + CrSave} /\ a \notin DOMAIN args
    BY SMTT(30), <1>4, <1>5, <1>6, <1>10, <1>11, <1>13
  <2> QED
    BY <1>14, <1>15, <2>1
<1>17. \A a \in fr.bottom..StackTop + 5 : mem'[a] = mem[a]
  BY <1>3, <1>4, <1>8, <1>16
<1>18. DataKept(mem', fr, n)
  <2>1. Top.stack + 1 \in Int /\ Top.stack + 1 <= Top.stack + 1
    BY <1>4
  <2>2. DataKept(mem', Top, n)
    BY <1>3, <1>16, <2>1, DataStays
  <2> QED
    BY <1>8, <2>2 DEF DataKept
<1>19. LinkKept(mem', fr, n, p, TRUE)
  <2>1. mem'[p] = <<"chain", fr.bottom>>
    <3>1. p \in 0..StackTop + 5 /\ p \notin DOMAIN args
      <4>1. p < p + LinkWords /\ p <= StackTop
        BY <1>4, <1>5, <1>6, <1>11
      <4> QED
        BY <1>4, <1>5, <1>10, <1>11, <4>1
    <3>2. mem[r1] = <<"chain", Top.bottom>>
      BY <1>3 DEF LinkKept
    <3> QED
      BY <1>8, <1>14, <1>15, <3>1, <3>2
  <2>2. \A a \in p + LinkWords..p + LinkWords + fr.args - 1 : mem'[a] = <<"arg", n, a - p>>
    <3> TAKE a \in p + LinkWords..p + LinkWords + fr.args - 1
    <3>1. a \in DOMAIN args /\ a \in 0..StackTop + 5
      BY SMTT(30), <1>3, <1>4, <1>5, <1>8, <1>10, <1>11, <1>13
    <3> QED
      BY <1>10, <1>15, <3>1
  <2> QED
    BY <1>3, <1>8, <2>1, <2>2 DEF LinkKept
<1>20. r1' \in Nat /\ (StackTop - r1') % Align = 0 /\ Shape(fr, n, r1') /\ LinkKept(mem', fr, n, r1', TRUE)
  BY <1>6, <1>7, <1>11, <1>12, <1>19
<1> QED
  BY <1>2, <1>3, <1>8, <1>9, <1>15, <1>17, <1>18, <1>20, ChangeTop

LEMMA MoreMonitorsStep ==
  ASSUME LayoutInv, MoreMonitors, r1' >= 0
  PROVE  LayoutInv'
<1> DEFINE n == Len(frames)
           W == MonitorWords
           required == Header + Slop + W
           available == Top.limit + 1 - r1
           p == Extended(r1, required, available)
           base == Top.base - W
           monitor == [a \in base..Top.base - 1 |-> <<"monitor", n, Top.state - a>>]
           moved == Moved(Top)
           fr == [[[[Top EXCEPT !.base = base] EXCEPT !.stack = Top.stack - W]
                    EXCEPT !.limit = Top.limit - W] EXCEPT !.monitors = Top.monitors + 1]
<1>1. /\ n > 1 /\ ~Top.method.native /\ frames # <<>> /\ wordSize' = wordSize
      /\ r1' = p
      /\ mem' = Store(Store(Extend(mem, r1, p), moved), monitor)
      /\ frames' = [frames EXCEPT ![n].base = base, ![n].stack = @ - W,
                                  ![n].limit = @ - W, ![n].monitors = @ + 1]
  BY DEF MoreMonitors
<1>3. /\ n \in Nat /\ n \in 1..n /\ Top = frames[n] /\ Top \in FrameRecord
      /\ DataKept(mem, Top, n) /\ LinkKept(mem, Top, n, r1, TRUE)
      /\ wordSize \in {4, 8} /\ DOMAIN mem = 0..StackTop + 5
      /\ (StackTop - r1) % Align = 0
      /\ Top.kind = "method" /\ MethodShape(Top, r1)
      /\ Top.kind = "method" => \E g : CalledFrom(Top, g) /\ g.stack \in Int /\ g.stack <= StackTop
  BY <1>1, TopFacts
<1>4. /\ Top.bottom \in Int /\ Top.limit \in Int /\ Top.stack \in Int /\ Top.base \in Int
      /\ Top.args \in Int /\ Top.state \in Int /\ Top.monitors \in Int /\ Top.method.max \in Nat
  BY <1>3, FrameTypes
<1>5. /\ r1 \in Nat /\ StackTop \in Nat /\ r1 < Top.stack
      /\ Top.stack < Top.base /\ Top.base <= Top.bottom /\ Top.bottom <= StackTop
  BY <1>1, TopFacts
<1>6. /\ LinkWords \in {2, 6} /\ CrSave = 1 /\ MinParams \in {0, 8} /\ Slop = 2
      /\ Header = LinkWords + MinParams
      /\ W \in Nat /\ W > 0
  BY <1>3, Sizes, SizeAssumption
<1>7. /\ Top.limit <= Top.stack /\ Top.base <= Top.state /\ Top.state + StateWords = Top.bottom
      /\ Top.base - 1 - Top.limit = Top.method.max
      /\ Top.args = 0 /\ r1 + Header + Slop <= Top.limit + 1
  <2>1. /\ Top.limit <= Top.stack /\ Top.base <= Top.state /\ Top.state + StateWords = Top.bottom
        /\ Top.base - 1 - Top.limit = Top.method.max
        /\ Top.args > 0 => Top.method.native
        /\ Top.args >= 0
        /\ r1 + (IF Top.args > 0 THEN LinkWords + Top.args ELSE Header + Slop) <= Top.limit + 1
    BY <1>1, <1>3 DEF MethodShape
  <2>2. Top.args = 0
    BY SMTT(30), <1>1, <1>4, <2>1
  <2>3. r1 + (Header + Slop) <= Top.limit + 1
    BY <2>1, <2>2
  <2> QED
    BY <1>4, <1>5, <1>6, <2>1, <2>2, <2>3
<1>8. /\ p \in Int /\ p <= r1 /\ p <= r1 - (required - available)
      /\ p # r1 => p <= r1 - 2
      /\ (StackTop - p) % Align = 0
  <2>1. required \in Int /\ available \in Int /\ r1 \in Int
    BY <1>4, <1>5, <1>6
  <2> HIDE DEF required, available
  <2> QED
    BY <1>3, <2>1, Extensions
<1>9. /\ DOMAIN monitor = base..Top.base - 1
      /\ \A a \in base..Top.base - 1 : monitor[a] = <<"monitor", n, Top.state - a>>
  OBVIOUS
<1>10. /\ DOMAIN moved = Top.stack + 1 - W..Top.base - 1 - W
       /\ \A a \in Top.stack + 1 - W..Top.base - 1 - W : moved[a] = mem[a + W]
  BY DEF Moved
<1>11. frames' = [frames EXCEPT ![n] = fr]
  <2>1. /\ frames \in Seq(FrameRecord) /\ frames[n] = Top /\ n \in DOMAIN frames
    BY <1>3 DEF LayoutInv, LayoutTypes
  <2> QED
    BY <1>1, <2>1
<1>12. /\ fr \in FrameRecord
       /\ fr.stack = Top.stack - W /\ fr.base = Top.base - W /\ fr.limit = Top.limit - W
       /\ fr.kind = Top.kind /\ fr.bottom = Top.bottom /\ fr.method = Top.method
       /\ fr.rlocals = Top.rlocals /\ fr.state = Top.state /\ fr.args = Top.args
  <2>1. /\ base \in Int /\ Top.stack - W \in Int /\ Top.limit - W \in Int /\ Top.monitors + 1 \in Int
    BY <1>4, <1>6
  <2> HIDE DEF base
  <2>2. fr \in FrameRecord
    BY <1>3, <2>1, FrameUpdates
  <2> QED
    BY <1>3, <2>2 DEF FrameRecord, base
<1>13. p \in Nat /\ p + Header + Slop <= fr.limit + 1
  <2>1. p \in Nat
    BY <1>1, <1>8
  <2> HIDE DEF p
  <2>2. p <= r1 - (Header + Slop + W - (Top.limit + 1 - r1))
    BY <1>4, <1>5, <1>6, <1>8
  <2> QED
    BY <1>4, <1>5, <1>6, <1>8, <1>12, <2>1, <2>2
<1>14. base = Top.base - W
  OBVIOUS
<1> HIDE DEF fr, monitor, moved, p, required, available, base
<1>15. Shape(fr, n, p)
  <2>1. MethodShape(fr, p)
    <3>1. /\ fr.limit <= fr.stack /\ fr.stack < fr.base /\ fr.base <= fr.state
          /\ fr.base - 1 - fr.limit = Top.method.max
          /\ fr.state + StateWords = fr.bottom
      BY <1>4, <1>5, <1>6, <1>7, <1>12
    <3>2. fr.args = 0 /\ p + (Header + Slop) <= fr.limit + 1
      BY <1>4, <1>6, <1>7, <1>12, <1>13
    <3> QED
      BY <1>1, <1>12, <3>1, <3>2 DEF MethodShape
  <2> QED
    BY <1>1, <1>3, <2>1 DEF Shape
<1>16. /\ DOMAIN Extend(mem, r1, p) = 0..StackTop + 5
       /\ Extend(mem, r1, p)[p] = mem[r1]
       /\ \A a \in 0..StackTop + 5 : a \notin {p, p + CrSave} => Extend(mem, r1, p)[a] = mem[a]
  <2>1. (p = r1 \/ p <= r1 - 2) /\ r1 <= StackTop
    BY <1>4, <1>5, <1>8
  <2> QED
    BY <1>3, <1>5, <1>13, <2>1, Extends
<1>17. /\ DOMAIN mem' = 0..StackTop + 5
       /\ \A a \in 0..StackTop + 5 :
            mem'[a] = IF a \in DOMAIN monitor THEN monitor[a]
                      ELSE IF a \in DOMAIN moved THEN moved[a] ELSE Extend(mem, r1, p)[a]
  <2> DEFINE m == Extend(mem, r1, p)
             m1 == Store(m, moved)
  <2>1. DOMAIN m = 0..StackTop + 5 /\ mem' = Store(m1, monitor)
    BY <1>1, <1>16
  <2> HIDE DEF m
  <2>2. /\ DOMAIN m1 = 0..StackTop + 5
        /\ \A a \in 0..StackTop + 5 : m1[a] = IF a \in DOMAIN moved THEN moved[a] ELSE m[a]
    BY <2>1, Stores
  <2> HIDE DEF m1
  <2>3. /\ DOMAIN mem' = 0..StackTop + 5
        /\ \A a \in 0..StackTop + 5 : mem'[a] = IF a \in DOMAIN monitor THEN monitor[a] ELSE m1[a]
    <3>1. /\ DOMAIN Store(m1, monitor) = DOMAIN m1
          /\ \A a \in DOMAIN m1 :
               Store(m1, monitor)[a] = IF a \in DOMAIN monitor THEN monitor[a] ELSE m1[a]
      BY Stores
    <3> QED
      BY <2>1, <2>2, <3>1
  <2> QED
    BY <2>2, <2>3 DEF m
<1>18. \A a \in Top.base..StackTop + 5 : mem'[a] = mem[a]
  <2> TAKE a \in Top.base..StackTop + 5
  <2>1. a \in 0..StackTop + 5 /\ a \notin {p, p + CrSave}
    BY <1>4, <1>5, <1>6, <1>8
  <2>2. a \notin DOMAIN monitor /\ a \notin DOMAIN moved
    BY SMTT(30), <1>4, <1>5, <1>6, <1>9, <1>10, <1>14
  <2> QED
    BY <1>16, <1>17, <2>1, <2>2
<1>19. \A a \in fr.bottom..StackTop + 5 : mem'[a] = mem[a]
  BY <1>4, <1>5, <1>12, <1>18
<1>20. DataKept(mem', fr, n)
  <2>1. \A a \in fr.stack + 1..fr.base - 1 : mem'[a] = <<"operand", n, fr.base - a>>
    <3> TAKE a \in fr.stack + 1..fr.base - 1
    <3>1. /\ a \in 0..StackTop + 5 /\ a \notin DOMAIN monitor /\ a \in DOMAIN moved
          /\ a + W \in Top.stack + 1..Top.base - 1
          /\ Top.base - (a + W) = fr.base - a
      <4>1. a \in Int /\ Top.stack + 1 - W <= a /\ a <= Top.base - 1 - W
        BY <1>4, <1>6, <1>12
      <4>2. 0 <= a /\ a <= StackTop + 5
        BY <1>4, <1>5, <1>6, <1>7, <1>12, <1>13, <4>1
      <4>3. a \notin DOMAIN monitor
        BY <1>4, <1>6, <1>9, <1>14, <4>1
      <4>4. a \in DOMAIN moved
        BY <1>4, <1>6, <1>10, <4>1
      <4> QED
        BY <1>4, <1>5, <1>6, <1>12, <4>1, <4>2, <4>3, <4>4
    <3>2. mem'[a] = mem[a + W]
      BY <1>10, <1>17, <3>1
    <3>3. mem[a + W] = <<"operand", n, Top.base - (a + W)>>
      BY <1>3, <3>1 DEF DataKept
    <3> QED
      BY <3>1, <3>2, <3>3
  <2>2. ASSUME NEW a \in fr.base..fr.bottom - 1
        PROVE  mem'[a] = IF a < fr.state THEN <<"monitor", n, fr.state - a>>
                                         ELSE <<"state", n, a - fr.state>>
    <3>1. CASE a < Top.base
      <4>1. a \in DOMAIN monitor /\ a \in 0..StackTop + 5 /\ a < fr.state
        <5>1. a \in Int /\ Top.base - W <= a
          BY <1>4, <1>6, <1>12
        <5>2. 0 <= a
          BY <1>4, <1>5, <1>6, <1>7, <1>12, <1>13, <5>1
        <5> QED
          <6>1. a \in Top.base - W..Top.base - 1 /\ a < fr.state /\ a <= StackTop + 5
            BY <1>4, <1>5, <1>6, <1>7, <1>12, <3>1, <5>1
          <6> QED
            BY <1>5, <1>9, <1>14, <5>1, <5>2, <6>1
      <4> QED
        BY <1>9, <1>12, <1>17, <4>1
    <3>2. CASE ~(a < Top.base)
      <4>1. a \in Top.base..Top.bottom - 1 /\ a \in Top.base..StackTop + 5
        BY <1>4, <1>5, <1>6, <1>12, <3>2
      <4>2. mem[a] = IF a < Top.state THEN <<"monitor", n, Top.state - a>>
                                      ELSE <<"state", n, a - Top.state>>
        BY <1>3, <4>1 DEF DataKept
      <4> QED
        BY <1>12, <1>18, <4>1, <4>2
    <3> QED
      BY <3>1, <3>2
  <2>3. fr.kind = "method" /\ ~fr.method.native =>
          \A a \in fr.rlocals - fr.method.locals + 1..fr.rlocals - fr.method.params :
            mem'[a] = <<"local", n, fr.rlocals - a + 1>>
    <3>1. PICK g : CalledFrom(Top, g) /\ g.stack \in Int /\ g.stack <= StackTop
      BY <1>3
    <3>2. /\ Top.rlocals - Top.method.params = g.stack
          /\ \A a \in Top.rlocals - Top.method.locals + 1..Top.rlocals - Top.method.params :
               Top.bottom + Header + Slop <= a
      BY <1>1, <1>3, <3>1, LocalsAbove
    <3>3. /\ Top.rlocals \in Int /\ Top.method.params \in Nat /\ Top.method.locals \in Nat
      BY <1>3, FrameTypes
    <3>4. ASSUME NEW a \in Top.rlocals - Top.method.locals + 1..Top.rlocals - Top.method.params
          PROVE  mem'[a] = <<"local", n, Top.rlocals - a + 1>>
      <4>1. Top.bottom + Header + Slop <= a /\ a \in Int /\ a <= g.stack
        BY <3>2, <3>3
      <4>2. a \in Top.base..StackTop + 5
        BY <1>4, <1>5, <1>6, <3>1, <4>1
      <4>3. mem[a] = <<"local", n, Top.rlocals - a + 1>>
        BY <1>1, <1>3 DEF DataKept
      <4> QED
        BY <1>18, <4>2, <4>3
    <3> QED
      BY <1>12, <3>4
  <2> QED
    BY <1>3, <1>12, <2>1, <2>2, <2>3 DEF DataKept
<1>21. LinkKept(mem', fr, n, p, TRUE)
  <2>1. mem'[p] = <<"chain", fr.bottom>>
    <3>1. p < fr.stack + 1 /\ p <= StackTop
      BY <1>4, <1>5, <1>6, <1>7, <1>8, <1>12, <1>13
    <3>2. p \in 0..StackTop + 5 /\ p \notin DOMAIN monitor /\ p \notin DOMAIN moved
      <4>1. p < Top.stack + 1 - W /\ p < base /\ p \in Nat
        BY <1>4, <1>5, <1>6, <1>12, <1>13, <1>14, <3>1
      <4> QED
        BY SMTT(30), <1>4, <1>5, <1>6, <1>9, <1>10, <1>14, <3>1, <4>1
    <3>3. mem[r1] = <<"chain", Top.bottom>>
      BY <1>3 DEF LinkKept
    <3> QED
      BY <1>12, <1>16, <1>17, <3>2, <3>3
  <2>2. \A a \in p + LinkWords..p + LinkWords + fr.args - 1 : mem'[a] = <<"arg", n, a - p>>
    BY <1>6, <1>7, <1>12, <1>13
  <2> QED
    BY <1>3, <1>12, <2>1, <2>2 DEF LinkKept
<1>22. r1' \in Nat /\ (StackTop - r1') % Align = 0 /\ Shape(fr, n, r1') /\ LinkKept(mem', fr, n, r1', TRUE)
  BY <1>1, <1>8, <1>13, <1>15, <1>21
<1> QED
  BY <1>1, <1>3, <1>11, <1>12, <1>17, <1>19, <1>20, <1>22, ChangeTop

-----------------------------------------------------------------------------
(* Returns. *)

LEMMA Frees ==
  ASSUME NEW m, NEW p, NEW top
  PROVE  /\ DOMAIN Freed(m, p, top) = DOMAIN m
         /\ \A a \in DOMAIN m : ~(a <= top) \/ a \in {p, p + CrSave} => Freed(m, p, top)[a] = m[a]
BY DEF Freed

(* The caller of the top frame, and what it keeps.                          *)
LEMMA CallerFacts ==
  ASSUME LayoutInv, Len(frames) > 1, NEW k \in Nat, k = Len(frames) - 1
  PROVE  /\ k \in 1..Len(frames) /\ k > 0 /\ frames[k] \in FrameRecord
         /\ CalledFrom(Top, frames[k])
         /\ Shape(frames[k], k, Top.bottom)
         /\ DataKept(mem, frames[k], k) /\ LinkKept(mem, frames[k], k, Top.bottom, FALSE)
         /\ mem[r1][2] = Top.bottom /\ Top.bottom = frames[Len(frames)].bottom
         /\ Top.bottom \in Nat
         /\ Top.bottom + LrSave <= frames[k].stack /\ Top.bottom + CrSave <= frames[k].stack
         /\ frames[k].stack < frames[k].base /\ frames[k].base <= frames[k].bottom
         /\ frames[k].bottom <= StackTop
         /\ frames[k].kind = "method" <=> k > 1
         /\ frames[k].kind = "method" =>
              \E g : CalledFrom(frames[k], g) /\ g.stack \in Int /\ g.stack <= StackTop
<1> DEFINE n == Len(frames)
<1>1. n \in Nat /\ n = k + 1 /\ k \in 1..n /\ k < n /\ n \in 2..n /\ (k = n) = FALSE /\ frames # <<>>
  BY DEF LayoutInv, LayoutTypes
<1>2. Top = frames[n] /\ frames[n - 1] = frames[k] /\ frames[k + 1] = frames[n]
  BY <1>1 DEF Top
<1>3. /\ frames[k] \in FrameRecord /\ Sp(k) \in Nat
      /\ Sp(k) + LrSave <= frames[k].stack /\ Sp(k) + CrSave <= frames[k].stack
      /\ frames[k].stack < frames[k].base /\ frames[k].base <= frames[k].bottom
      /\ frames[k].bottom <= StackTop
      /\ Sp(k) = Top.bottom
  BY <1>1, <1>2, InvBounds
<1>4. CalledFrom(Top, frames[k])
  BY <1>1, <1>2 DEF LayoutInv, Called
<1>5. Shape(frames[k], k, Top.bottom)
  BY <1>1, <1>3 DEF LayoutInv, Shaped
<1>6. DataKept(mem, frames[k], k) /\ LinkKept(mem, frames[k], k, Top.bottom, FALSE)
  BY <1>1, <1>3 DEF LayoutInv, AllKept
<1>7. mem[r1][2] = Top.bottom
  <2>1. mem[r1] = <<"chain", Top.bottom>>
    BY <1>1, TopFacts DEF LinkKept
  <2> QED
    BY <2>1
<1>8. frames[k].kind = "method" <=> k > 1
  BY <1>1 DEF LayoutInv, Stacked
<1>9. frames[k].kind = "method" =>
        \E g : CalledFrom(frames[k], g) /\ g.stack \in Int /\ g.stack <= StackTop
  BY <1>1, HasCaller
<1>10. Top.bottom = frames[Len(frames)].bottom /\ k \in 1..Len(frames) /\ k > 0
  BY <1>1, <1>2
<1>11. /\ Top.bottom \in Nat
       /\ Top.bottom + LrSave <= frames[k].stack /\ Top.bottom + CrSave <= frames[k].stack
  BY <1>3
<1> HIDE DEF n
<1> QED
  BY <1>3, <1>4, <1>5, <1>6, <1>7, <1>8, <1>9, <1>10, <1>11

LEMMA ReturnToCallerStep ==
  ASSUME LayoutInv, ReturnToCaller
  PROVE  LayoutInv'
<1> DEFINE n == Len(frames)
<1>1. n > 2 /\ n \in Nat /\ wordSize' = wordSize
  BY DEF ReturnToCaller, LayoutInv, LayoutTypes
<1>2. PICK k \in Nat : k = n - 1
  BY <1>1
<1> DEFINE words == Top.method.words
           res == [a \in Top.rlocals - words + 1..Top.rlocals |-> <<"operand", k, frames[k].base - a>>]
           g == frames[k]
           fr == [g EXCEPT !.stack = Top.rlocals - words]
<1>3. /\ r1' = mem[r1][2]
      /\ mem' = Freed(Store(mem, res), r1', Top.rlocals - words)
      /\ frames' = [SubSeq(frames, 1, k) EXCEPT ![k].stack = Top.rlocals - words]
  BY <1>2 DEF ReturnToCaller
<1>4. /\ k \in 1..n /\ k > 0 /\ g \in FrameRecord
      /\ CalledFrom(Top, g) /\ Shape(g, k, Top.bottom)
      /\ DataKept(mem, g, k) /\ LinkKept(mem, g, k, Top.bottom, FALSE)
      /\ mem[r1][2] = Top.bottom /\ Top.bottom = frames[n].bottom
      /\ g.kind = "method" <=> k > 1
      /\ g.kind = "method" => \E h : CalledFrom(g, h) /\ h.stack \in Int /\ h.stack <= StackTop
  <2>1. Len(frames) > 1 /\ k = Len(frames) - 1
    BY <1>1, <1>2
  <2> QED
    BY <2>1, CallerFacts
<1>5. /\ Top.bottom \in Nat
      /\ Top.bottom + LrSave <= g.stack /\ Top.bottom + CrSave <= g.stack
      /\ g.stack < g.base /\ g.base <= g.bottom /\ g.bottom <= StackTop
  <2>1. Len(frames) > 1 /\ k = Len(frames) - 1
    BY <1>1, <1>2
  <2> QED
    BY <2>1, CallerFacts
<1>6. Top \in FrameRecord /\ wordSize \in {4, 8} /\ DOMAIN mem = 0..StackTop + 5
  <2>1. frames # <<>>
    BY <1>1
  <2> QED
    BY <2>1, TopFacts
<1>7. /\ Top.rlocals \in Int /\ words \in 0..2 /\ Top.method.params \in Nat
      /\ g.bottom \in Int /\ g.limit \in Int /\ g.stack \in Int /\ g.base \in Int
      /\ g.args \in Int /\ StackTop \in Nat
  BY <1>4, <1>6, FrameTypes, SizeAssumption
<1>8. /\ LinkWords \in {2, 6} /\ MinParams \in {0, 8} /\ Header = LinkWords + MinParams
      /\ LrSave \in {1, 2} /\ CrSave = 1 /\ Slop = 2
  BY <1>6, Sizes
<1>9. /\ g.kind = "method" /\ k > 1 /\ MethodShape(g, Top.bottom)
  <2>1. k > 1 /\ k # 1
    BY <1>1, <1>2
  <2> QED
    BY <1>4, <2>1 DEF Shape
<1>10. /\ Top.rlocals - Top.method.params = g.stack /\ Top.rlocals < g.base /\ ~g.method.native
       /\ g.limit <= Top.rlocals - words
  BY <1>4, <1>9 DEF CalledFrom
<1>11. /\ g.args = 0 /\ Top.bottom + (Header + Slop) <= g.limit + 1
       /\ g.limit <= g.stack
  <2>1. /\ g.args > 0 => g.method.native
        /\ g.args >= 0 /\ g.limit <= g.stack
        /\ Top.bottom + (IF g.args > 0 THEN LinkWords + g.args ELSE Header + Slop) <= g.limit + 1
    BY <1>9 DEF MethodShape
  <2>2. g.args = 0
    BY <1>7, <1>10, <2>1
  <2> QED
    BY <2>1, <2>2
<1>12. /\ fr \in FrameRecord /\ fr.stack = Top.rlocals - words
       /\ fr.kind = g.kind /\ fr.bottom = g.bottom /\ fr.method = g.method
       /\ fr.rlocals = g.rlocals /\ fr.limit = g.limit /\ fr.base = g.base
       /\ fr.state = g.state /\ fr.args = g.args
  <2>1. Top.rlocals - words \in Int
    BY <1>7
  <2> HIDE DEF words
  <2>2. fr \in FrameRecord
    BY <1>4, <2>1, FrameUpdates
  <2> QED
    BY <1>4, <2>2 DEF FrameRecord
<1>13. frames' = [SubSeq(frames, 1, k) EXCEPT ![k] = fr]
  <2>1. SubSeq(frames, 1, k)[k] = g
    BY <1>1, <1>2, <1>4 DEF LayoutInv, LayoutTypes
  <2> QED
    BY <1>3, <2>1
<1>14. /\ DOMAIN res = Top.rlocals - words + 1..Top.rlocals
       /\ \A a \in Top.rlocals - words + 1..Top.rlocals : res[a] = <<"operand", k, g.base - a>>
  OBVIOUS
<1> HIDE DEF fr, words, res, g
<1>15. r1' = Top.bottom /\ r1' \in Nat /\ r1' = frames[Len(frames)].bottom
  BY <1>3, <1>4, <1>5
<1>16. Shape(fr, k, r1')
  <2>1. MethodShape(fr, Top.bottom)
    <3>1. fr.limit <= fr.stack /\ fr.stack < fr.base
      BY <1>7, <1>10, <1>12
    <3> QED
      BY <1>9, <1>12, <3>1 DEF MethodShape
  <2> QED
    BY <1>9, <1>15, <2>1 DEF Shape
<1>17. /\ DOMAIN mem' = 0..StackTop + 5
       /\ \A a \in 0..StackTop + 5 :
            a > Top.rlocals - words \/ a \in {r1', r1' + CrSave} =>
              mem'[a] = IF a \in DOMAIN res THEN res[a] ELSE mem[a]
  <2> DEFINE m == Store(mem, res)
  <2>1. /\ DOMAIN m = 0..StackTop + 5
        /\ \A a \in 0..StackTop + 5 : m[a] = IF a \in DOMAIN res THEN res[a] ELSE mem[a]
    <3>1. /\ DOMAIN Store(mem, res) = DOMAIN mem
          /\ \A a \in DOMAIN mem : Store(mem, res)[a] = IF a \in DOMAIN res THEN res[a] ELSE mem[a]
      BY Stores
    <3> QED
      BY <1>6, <3>1
  <2> HIDE DEF m
  <2>2. mem' = Freed(m, r1', Top.rlocals - words)
    BY <1>3 DEF m
  <2> DEFINE top == Top.rlocals - words
             p == r1'
  <2>3. /\ DOMAIN Freed(m, p, top) = DOMAIN m
        /\ \A a \in DOMAIN m : ~(a <= top) \/ a \in {p, p + CrSave} => Freed(m, p, top)[a] = m[a]
    <3> HIDE DEF top, p
    <3> QED
      BY Frees
  <2>4. top \in Int
    BY <1>7
  <2>5. \A a \in 0..StackTop + 5 : a > top => ~(a <= top)
    <3> HIDE DEF top
    <3> QED
      BY <1>7, <2>4
  <2> HIDE DEF top, p
  <2>6. /\ DOMAIN mem' = 0..StackTop + 5
        /\ \A a \in 0..StackTop + 5 :
             a > top \/ a \in {p, p + CrSave} => mem'[a] = IF a \in DOMAIN res THEN res[a] ELSE mem[a]
    BY <2>1, <2>2, <2>3, <2>5 DEF top, p
  <2> QED
    BY <2>6 DEF top, p
<1>18. \A a \in g.base..StackTop + 5 : mem'[a] = mem[a]
  <2> TAKE a \in g.base..StackTop + 5
  <2>1. a \in 0..StackTop + 5 /\ a > Top.rlocals - words /\ a \notin DOMAIN res
    BY SMTT(30), <1>5, <1>7, <1>8, <1>10, <1>14
  <2> QED
    BY <1>17, <2>1
<1>19. \A a \in fr.bottom..StackTop + 5 : mem'[a] = mem[a]
  BY <1>5, <1>7, <1>12, <1>18
<1>20. DataKept(mem', fr, k)
  <2>2. \A a \in fr.stack + 1..fr.base - 1 : mem'[a] = <<"operand", k, fr.base - a>>
    <3> TAKE a \in fr.stack + 1..fr.base - 1
    <3>1. a \in 0..StackTop + 5 /\ a > Top.rlocals - words /\ a \in Int /\ a <= g.base - 1
      BY <1>5, <1>7, <1>8, <1>10, <1>11, <1>12
    <3>2. CASE a <= Top.rlocals
      <4>1. a \in DOMAIN res
        BY <1>7, <1>14, <3>1, <3>2
      <4> QED
        BY <1>12, <1>14, <1>17, <3>1, <4>1
    <3>3. CASE ~(a <= Top.rlocals)
      <4>1. a \notin DOMAIN res /\ a \in g.stack + 1..g.base - 1
        BY <1>7, <1>10, <1>14, <3>1, <3>3
      <4>2. mem[a] = <<"operand", k, g.base - a>>
        BY <1>4, <4>1 DEF DataKept
      <4> QED
        BY <1>12, <1>17, <3>1, <4>1, <4>2
    <3> QED
      BY <3>2, <3>3
  <2>3. ASSUME NEW a \in g.base..g.bottom - 1
        PROVE  mem'[a] = IF a < g.state THEN <<"monitor", k, g.state - a>> ELSE <<"state", k, a - g.state>>
    <3>1. a \in g.base..StackTop + 5
      BY <1>5, <1>7
    <3>2. mem[a] = IF a < g.state THEN <<"monitor", k, g.state - a>> ELSE <<"state", k, a - g.state>>
      BY <1>4, <1>9 DEF DataKept
    <3> QED
      BY <1>18, <3>1, <3>2
  <2>4. g.kind = "method" /\ ~g.method.native =>
          \A a \in g.rlocals - g.method.locals + 1..g.rlocals - g.method.params :
            mem'[a] = <<"local", k, g.rlocals - a + 1>>
    <3>1. PICK h : CalledFrom(g, h) /\ h.stack \in Int /\ h.stack <= StackTop
      BY <1>4, <1>9
    <3>2. /\ g.rlocals - g.method.params = h.stack
          /\ \A a \in g.rlocals - g.method.locals + 1..g.rlocals - g.method.params :
               g.bottom + Header + Slop <= a
      BY <1>4, <1>6, <1>10, <3>1, LocalsAbove
    <3>3. /\ g.rlocals \in Int /\ g.method.params \in Nat /\ g.method.locals \in Nat
      BY <1>4, FrameTypes
    <3>4. ASSUME NEW a \in g.rlocals - g.method.locals + 1..g.rlocals - g.method.params
          PROVE  mem'[a] = <<"local", k, g.rlocals - a + 1>>
      <4>1. g.bottom + Header + Slop <= a /\ a \in Int /\ a <= h.stack
        BY <3>2, <3>3
      <4>2. a \in g.base..StackTop + 5
        BY <1>5, <1>7, <1>8, <3>1, <4>1
      <4>3. mem[a] = <<"local", k, g.rlocals - a + 1>>
        BY <1>4, <1>9, <1>10 DEF DataKept
      <4> QED
        BY <1>18, <4>2, <4>3
    <3> QED
      BY <3>4
  <2> QED
    BY <1>9, <1>12, <2>2, <2>3, <2>4 DEF DataKept
<1>21. LinkKept(mem', fr, k, r1', TRUE)
  <2>1. mem'[r1'] = <<"chain", fr.bottom>>
    <3>1. r1' \in 0..StackTop + 5 /\ r1' \notin DOMAIN res
      <4>1. r1' < g.limit + 1 /\ r1' <= StackTop /\ r1' \in Nat
        <5>1. Top.bottom < g.limit + 1
          BY <1>5, <1>7, <1>8, <1>11
        <5>2. Top.bottom <= StackTop
          BY <1>5, <1>7, <1>8
        <5> QED
          BY <1>15, <5>1, <5>2
      <4> QED
        BY <1>7, <1>10, <1>14, <4>1
    <3>2. mem[r1'] = <<"chain", g.bottom>>
      BY <1>4, <1>15 DEF LinkKept
    <3> QED
      BY <1>12, <1>17, <3>1, <3>2
  <2>2. \A a \in r1' + LinkWords..r1' + LinkWords + fr.args - 1 : mem'[a] = <<"arg", k, a - r1'>>
    BY <1>8, <1>11, <1>12, <1>15
  <2> QED
    BY <1>9, <1>12, <2>1, <2>2 DEF LinkKept
<1>22. /\ Len(frames) > 1 /\ k = Len(frames) - 1
       /\ fr.kind = frames[k].kind /\ fr.bottom = frames[k].bottom
       /\ fr.method = frames[k].method /\ fr.rlocals = frames[k].rlocals
  BY <1>1, <1>2, <1>12 DEF g
<1> HIDE DEF n
<1> QED
  BY <1>1, <1>12, <1>13, <1>15, <1>16, <1>17, <1>19, <1>20, <1>21, <1>22, PopFrame

LEMMA ReturnToStubStep ==
  ASSUME LayoutInv, ReturnToStub
  PROVE  LayoutInv'
<1> DEFINE n == Len(frames)
           k == 1
           g == frames[k]
           fr == [[g EXCEPT !.stack = Top.rlocals] EXCEPT !.kind = "returned"]
<1>1. /\ n = 2 /\ wordSize' = wordSize /\ r1' = mem[r1][2]
      /\ frames' = [SubSeq(frames, 1, k) EXCEPT ![k].stack = Top.rlocals, ![k].kind = "returned"]
      /\ mem' = Freed(mem, r1', Top.rlocals)
  BY DEF ReturnToStub
<1>2. k \in Nat /\ k = Len(frames) - 1 /\ Len(frames) > 1
  BY <1>1
<1> HIDE DEF k
<1>3. /\ k \in 1..Len(frames) /\ g \in FrameRecord
      /\ CalledFrom(Top, g) /\ Shape(g, k, Top.bottom)
      /\ DataKept(mem, g, k) /\ LinkKept(mem, g, k, Top.bottom, FALSE)
      /\ mem[r1][2] = Top.bottom /\ Top.bottom = frames[Len(frames)].bottom
      /\ g.kind = "method" <=> k > 1
  BY <1>2, CallerFacts
<1>4. /\ Top.bottom \in Nat
      /\ Top.bottom + LrSave <= g.stack /\ Top.bottom + CrSave <= g.stack
      /\ g.stack < g.base /\ g.base <= g.bottom /\ g.bottom <= StackTop
  BY <1>2, CallerFacts
<1>5. Top \in FrameRecord /\ wordSize \in {4, 8} /\ DOMAIN mem = 0..StackTop + 5
  <2>1. frames # <<>>
    BY <1>2
  <2> QED
    BY <2>1, TopFacts
<1>6. /\ Top.rlocals \in Int /\ g.method.params \in Nat
      /\ g.bottom \in Int /\ g.stack \in Int /\ g.base \in Int /\ StackTop \in Nat
  BY <1>3, <1>5, FrameTypes, SizeAssumption
<1>7. LinkWords \in {2, 6} /\ LrSave \in {1, 2} /\ CrSave = 1
  BY <1>5, Sizes
<1>8. g.kind # "method" /\ StubShape(g, Top.bottom) /\ k = 1
  <2>1. k = 1
    BY DEF k
  <2> QED
    BY <1>3, <2>1 DEF Shape
<1>9. Top.rlocals = g.rlocals /\ g.rlocals = g.base - 1 /\ g.args = 0
  BY <1>3, <1>8 DEF CalledFrom, StubShape
<1>10. /\ fr \in FrameRecord /\ fr.stack = g.base - 1 /\ fr.kind = "returned"
       /\ fr.bottom = g.bottom /\ fr.method = g.method
       /\ fr.rlocals = g.rlocals /\ fr.base = g.base /\ fr.args = g.args
  <2>1. [g EXCEPT !.stack = Top.rlocals] \in FrameRecord
    BY <1>3, <1>6, FrameUpdates
  <2>2. fr \in FrameRecord
    <3> DEFINE h == [g EXCEPT !.stack = Top.rlocals]
    <3> HIDE DEF h
    <3>1. h \in FrameRecord
      BY <2>1 DEF h
    <3>2. [h EXCEPT !.kind = "returned"] \in FrameRecord
      BY <1>6, <3>1, FrameUpdates
    <3> QED
      BY <3>2 DEF h
  <2> QED
    BY <1>3, <1>9, <2>2 DEF FrameRecord
<1>11. frames' = [SubSeq(frames, 1, k) EXCEPT ![k] = fr]
  <2>1. SubSeq(frames, 1, k)[k] = g /\ k \in DOMAIN SubSeq(frames, 1, k)
    BY <1>2, <1>3 DEF LayoutInv, LayoutTypes
  <2> QED
    BY <1>1, <2>1
<1> HIDE DEF fr, g
<1>12. r1' = Top.bottom /\ r1' \in Nat /\ r1' = frames[Len(frames)].bottom
  BY <1>1, <1>3, <1>4
<1>13. Shape(fr, k, r1')
  <2>1. StubShape(fr, Top.bottom)
    BY <1>8, <1>9, <1>10 DEF StubShape
  <2> QED
    BY <1>8, <1>12, <2>1 DEF Shape
<1>14. DOMAIN mem' = 0..StackTop + 5
  BY <1>1, <1>5, Frees
<1>15. \A a \in 0..StackTop + 5 : a >= g.base \/ a \in {r1', r1' + CrSave} => mem'[a] = mem[a]
  <2> TAKE a \in 0..StackTop + 5
  <2>1. a >= g.base => ~(a <= Top.rlocals)
    BY <1>6, <1>9
  <2> DEFINE p == r1'
             top == Top.rlocals
  <2> HIDE DEF p, top
  <2>2. ~(a <= top) \/ a \in {p, p + CrSave} => Freed(mem, p, top)[a] = mem[a]
    <3>1. \A b \in DOMAIN mem : ~(b <= top) \/ b \in {p, p + CrSave} => Freed(mem, p, top)[b] = mem[b]
      BY Frees
    <3>2. a \in DOMAIN mem
      BY <1>5
    <3> QED
      BY <3>1, <3>2
  <2> QED
    BY <1>1, <2>1, <2>2 DEF p, top
<1>16. \A a \in g.base..StackTop + 5 : mem'[a] = mem[a]
  BY <1>4, <1>6, <1>7, <1>15
<1>17. \A a \in fr.bottom..StackTop + 5 : mem'[a] = mem[a]
  BY <1>4, <1>6, <1>10, <1>16
<1>18. DataKept(mem', fr, k)
  <2>1. \A a \in fr.stack + 1..fr.base - 1 : mem'[a] = <<"operand", k, fr.base - a>>
    BY <1>6, <1>10
  <2>2. ASSUME NEW a \in g.base..g.bottom - 1
        PROVE  mem'[a] = <<"saved", k, a - (g.base - 1)>>
    <3>1. a \in g.base..StackTop + 5
      BY <1>4, <1>6
    <3>2. mem[a] = <<"saved", k, a - (g.base - 1)>>
      BY <1>3, <1>8 DEF DataKept
    <3> QED
      BY <1>16, <3>1, <3>2
  <2> QED
    BY <1>10, <2>1, <2>2 DEF DataKept
<1>19. LinkKept(mem', fr, k, r1', TRUE)
  <2>1. r1' \in 0..StackTop + 5 /\ r1' + CrSave \in 0..StackTop + 5
    BY SMTT(30), <1>4, <1>6, <1>7, <1>12
  <2>2. mem'[r1'] = mem[r1'] /\ mem'[r1' + CrSave] = mem[r1' + CrSave]
    BY <1>15, <2>1
  <2>3. mem[r1'] = <<"chain", g.bottom>> /\ (wordSize = 8 => mem[r1' + CrSave] = <<"cr", k>>)
    BY <1>3, <1>8, <1>12 DEF LinkKept
  <2>4. \A a \in r1' + LinkWords..r1' + LinkWords + fr.args - 1 : mem'[a] = <<"arg", k, a - r1'>>
    BY <1>7, <1>9, <1>10, <1>12
  <2> QED
    BY <1>10, <2>2, <2>3, <2>4 DEF LinkKept
<1>20. /\ fr.kind = "method" <=> frames[k].kind = "method"
       /\ fr.bottom = frames[k].bottom /\ fr.method = frames[k].method /\ fr.rlocals = frames[k].rlocals
  BY <1>8, <1>10 DEF g
<1> HIDE DEF n
<1> QED
  BY <1>1, <1>2, <1>10, <1>11, <1>12, <1>13, <1>14, <1>17, <1>18, <1>19, <1>20, PopFrame

LEMMA NoFrames ==
  ASSUME frames' = <<>>, wordSize' \in {4, 8}, r1' = StackTop, DOMAIN mem' = 0..StackTop + 5
  PROVE  LayoutInv'
<1>1. Len(frames') = 0 /\ frames' \in Seq(FrameRecord) /\ StackTop \in Nat
  BY SizeAssumption
<1>2. (StackTop - r1') % Align' = 0
  <2>1. Align' \in {2, 4} /\ StackTop - r1' = 0
    BY <1>1 DEF Align
  <2> QED
    BY <2>1
<1>3. LayoutTypes'
  BY <1>1 DEF LayoutTypes
<1>4. Stacked'
  BY <1>1, <1>2 DEF Stacked
<1>5. Shaped' /\ Called' /\ AllKept'
  BY <1>1 DEF Shaped, Called, AllKept
<1> QED
  BY <1>3, <1>4, <1>5 DEF LayoutInv

LEMMA StubReturnsStep ==
  ASSUME LayoutInv, StubReturns
  PROVE  LayoutInv'
<1>1. /\ Len(frames) = 1 /\ r1' = mem[r1][2] /\ frames' = <<>> /\ mem' = Freed(mem, r1', r1')
      /\ wordSize' = wordSize
  BY DEF StubReturns
<1>2. frames # <<>>
  BY <1>1
<1>3. /\ mem[r1] = <<"chain", Top.bottom>> /\ wordSize \in {4, 8} /\ DOMAIN mem = 0..StackTop + 5
  BY <1>2, TopFacts DEF LinkKept
<1>4. Top.bottom = StackTop
  BY <1>1, <1>2 DEF LayoutInv, Stacked, Top
<1>5. DOMAIN mem' = 0..StackTop + 5
  BY <1>1, <1>3, Frees
<1> QED
  BY <1>1, <1>3, <1>4, <1>5, NoFrames

-----------------------------------------------------------------------------
(* New frames. *)

LEMMA CallFromVMStep ==
  ASSUME LayoutInv, CallFromVM, r1' >= 0
  PROVE  LayoutInv'
<1>1. PICK m \in JavaMethods : StubFrame(m)
  BY DEF CallFromVM
<1>2. frames = <<>> /\ wordSize' = wordSize /\ Len(frames) = 0
  BY DEF CallFromVM
<1> DEFINE base0 == StubBaseSize + m.params
           total == RoundUp(base0)
           sp == r1 - total
           locals == sp + Header - 1 + Padding(base0) + m.params
           lr == [a \in {r1 + LrSave} |-> <<"lr", 0>>]
           chain == [a \in {sp} |-> <<"chain", r1>>]
           cells == [a \in {sp + CrSave} |-> IF wordSize = 8 THEN <<"cr", 1>> ELSE <<"none">>]
           data == [a \in locals - m.params + 1..locals + StubSaves |->
                      IF a <= locals THEN <<"operand", 1, locals - a + 1>> ELSE <<"saved", 1, a - locals>>]
           fr == [kind |-> "stub", bottom |-> r1, method |-> m, rlocals |-> locals,
                  limit |-> 0, stack |-> locals - m.params, base |-> locals + 1,
                  state |-> 0, monitors |-> 0, args |-> 0]
<1>3. /\ r1' = sp
      /\ mem' = Store(Store(Store(Store(mem, lr), chain), cells), data)
      /\ frames' = Append(frames, fr)
  BY <1>1, <1>2 DEF StubFrame, Push
<1>4. /\ r1 \in Nat /\ StackTop \in Nat /\ r1 = StackTop /\ (StackTop - r1) % Align = 0
      /\ wordSize \in {4, 8} /\ DOMAIN mem = 0..StackTop + 5 /\ m.params \in Nat
  BY <1>1, <1>2, SizeAssumption, MethodAssumption DEF LayoutInv, LayoutTypes, Stacked
<1>5. /\ LinkWords \in {2, 6} /\ MinParams \in {0, 8} /\ Header = LinkWords + MinParams
      /\ LrSave \in {1, 2} /\ CrSave = 1 /\ StubSaves \in Nat
      /\ StubBaseSize = Header + StubSaves
  BY <1>4, Sizes DEF StubBaseSize
<1>6. /\ base0 \in Nat /\ base0 = Header + StubSaves + m.params
  BY <1>4, <1>5
<1>7. /\ Padding(base0) \in Nat /\ RoundUp(base0) = base0 + Padding(base0) /\ RoundUp(base0) % Align = 0
  <2> HIDE DEF base0
  <2>1. base0 \in Int
    BY <1>6
  <2> QED
    BY <1>4, <2>1, Paddings
<1> HIDE DEF base0
<1>8. /\ locals \in Int /\ sp \in Int /\ locals = r1 - StubSaves - 1
      /\ sp + Header <= locals - m.params + 1
  <2>1. total = base0 + Padding(base0) /\ total \in Nat
    BY <1>6, <1>7
  <2> HIDE DEF total
  <2>2. sp = r1 - total /\ sp \in Int
    BY <1>4, <2>1
  <2> DEFINE padding == Padding(base0)
  <2>3. locals = sp + Header - 1 + padding + m.params
    OBVIOUS
  <2>4. padding \in Nat /\ total = Header + StubSaves + m.params + padding
    BY <1>6, <1>7, <2>1
  <2> HIDE DEF sp, padding, locals
  <2>5. m.params \in Nat /\ r1 \in Nat /\ StubSaves \in Nat /\ Header \in Nat
    BY <1>4, <1>5
  <2>6. locals \in Int /\ locals = r1 - StubSaves - 1
    BY <2>2, <2>3, <2>4, <2>5
  <2>7. sp + Header <= locals - m.params + 1
    BY <2>2, <2>3, <2>4, <2>5
  <2> QED
    BY <2>2, <2>6, <2>7
<1>9. sp \in Nat /\ sp <= r1 /\ sp + 2 <= locals - m.params + 1
  <2>1. total \in Nat /\ sp = r1 - total
    BY <1>6, <1>7
  <2>2. r1' = sp /\ r1' >= 0
    BY <1>3
  <2> HIDE DEF total, sp, locals
  <2> QED
    BY <1>4, <1>5, <1>8, <2>1, <2>2
<1>10. (StackTop - sp) % Align = 0
  <2>1. RoundUp(base0) \in Int
    BY <1>6, <1>7
  <2> QED
    BY <1>4, <1>7, <2>1, StaysAligned
<1>11. /\ DOMAIN lr = {r1 + LrSave}
       /\ DOMAIN chain = {sp} /\ chain[sp] = <<"chain", r1>>
       /\ DOMAIN cells = {sp + CrSave} /\ (wordSize = 8 => cells[sp + CrSave] = <<"cr", 1>>)
       /\ DOMAIN data = locals - m.params + 1..locals + StubSaves
       /\ \A a \in DOMAIN data :
            data[a] = IF a <= locals THEN <<"operand", 1, locals - a + 1>> ELSE <<"saved", 1, a - locals>>
  OBVIOUS
<1> HIDE DEF lr, chain, cells, data, sp, locals
<1>12. /\ fr \in FrameRecord
       /\ fr.kind = "stub" /\ fr.bottom = r1 /\ fr.method = m /\ fr.rlocals = locals
       /\ fr.stack = locals - m.params /\ fr.base = locals + 1 /\ fr.args = 0
  <2>1. locals - m.params \in Int /\ locals + 1 \in Int /\ r1 \in Int
    BY <1>4, <1>8
  <2> QED
    BY <1>8, <2>1 DEF FrameRecord
<1> HIDE DEF fr
<1>13. /\ DOMAIN mem' = 0..StackTop + 5
       /\ \A a \in 0..StackTop + 5 :
            mem'[a] = IF a \in DOMAIN data THEN data[a] ELSE IF a \in DOMAIN cells THEN cells[a]
                      ELSE IF a \in DOMAIN chain THEN chain[a] ELSE Store(mem, lr)[a]
  <2> DEFINE m0 == Store(mem, lr)
             m1 == Store(m0, chain)
             m2 == Store(m1, cells)
  <2>1. DOMAIN m0 = 0..StackTop + 5
    BY <1>4, Stores
  <2> HIDE DEF m0
  <2>2. /\ DOMAIN m1 = DOMAIN m0
        /\ \A a \in DOMAIN m0 : m1[a] = IF a \in DOMAIN chain THEN chain[a] ELSE m0[a]
    BY Stores
  <2> HIDE DEF m1
  <2>3. /\ DOMAIN m2 = DOMAIN m1
        /\ \A a \in DOMAIN m1 : m2[a] = IF a \in DOMAIN cells THEN cells[a] ELSE m1[a]
    BY Stores
  <2> HIDE DEF m2
  <2>4. mem' = Store(m2, data)
    BY <1>3 DEF m0, m1, m2
  <2>5. /\ DOMAIN mem' = DOMAIN m2
        /\ \A a \in DOMAIN m2 : mem'[a] = IF a \in DOMAIN data THEN data[a] ELSE m2[a]
    BY <2>4, Stores
  <2> QED
    BY <2>1, <2>2, <2>3, <2>5 DEF m0
<1>14. Shape(fr, 1, r1')
  <2>1. StubShape(fr, sp)
    <3>1. /\ fr.base = fr.bottom - StubSaves /\ fr.rlocals = fr.base - 1
      BY <1>4, <1>5, <1>8, <1>12
    <3> QED
      BY <1>8, <1>12, <3>1 DEF StubShape
  <2> QED
    BY <1>3, <2>1 DEF Shape
<1>15. DataKept(mem', fr, 1)
  <2>1. \A a \in locals - m.params + 1..locals + StubSaves : mem'[a] = data[a]
    <3> TAKE a \in locals - m.params + 1..locals + StubSaves
    <3>1. a \in 0..StackTop + 5
      BY <1>4, <1>5, <1>8, <1>9
    <3> QED
      BY <1>11, <1>13, <3>1
  <2>2. \A a \in fr.stack + 1..fr.base - 1 : mem'[a] = <<"operand", 1, fr.base - a>>
    <3> TAKE a \in fr.stack + 1..fr.base - 1
    <3>1. /\ a \in locals - m.params + 1..locals + StubSaves /\ a <= locals
          /\ fr.base - a = locals - a + 1
      BY <1>4, <1>5, <1>8, <1>12
    <3> QED
      BY <1>11, <2>1, <3>1
  <2>3. \A a \in fr.base..fr.bottom - 1 : mem'[a] = <<"saved", 1, a - (fr.base - 1)>>
    <3> TAKE a \in fr.base..fr.bottom - 1
    <3>1. /\ a \in locals - m.params + 1..locals + StubSaves /\ ~(a <= locals)
          /\ a - (fr.base - 1) = a - locals
      BY <1>4, <1>5, <1>8, <1>12
    <3> QED
      BY <1>11, <2>1, <3>1
  <2> QED
    BY <1>12, <2>2, <2>3 DEF DataKept
<1>16. LinkKept(mem', fr, 1, r1', TRUE)
  <2>1. sp \in 0..StackTop + 5 /\ sp + CrSave \in 0..StackTop + 5
    BY <1>4, <1>5, <1>9
  <2>2. sp \notin DOMAIN data /\ sp \notin DOMAIN cells /\ sp + CrSave \notin DOMAIN data
    BY <1>4, <1>5, <1>8, <1>9, <1>11
  <2>3. mem'[sp] = <<"chain", r1>>
    BY <1>11, <1>13, <2>1, <2>2
  <2>4. wordSize = 8 => mem'[sp + CrSave] = <<"cr", 1>>
    BY <1>11, <1>13, <2>1, <2>2
  <2>5. \A a \in sp + LinkWords..sp + LinkWords + fr.args - 1 : mem'[a] = <<"arg", 1, a - sp>>
    BY <1>5, <1>9, <1>12
  <2> QED
    BY <1>3, <1>12, <2>3, <2>4, <2>5 DEF LinkKept
<1>17. /\ fr.kind = "method" <=> frames # <<>>
       /\ fr.bottom = r1 /\ fr.bottom <= r1 /\ (StackTop - fr.bottom) % Align = 0
       /\ r1' \in Nat /\ (StackTop - r1') % Align = 0
  BY <1>2, <1>3, <1>4, <1>9, <1>10, <1>12
<1>18. Shape(fr, Len(frames) + 1, r1') /\ DataKept(mem', fr, Len(frames) + 1)
         /\ LinkKept(mem', fr, Len(frames) + 1, r1', TRUE)
  <2>1. Len(frames) + 1 = 1
    BY <1>2
  <2> QED
    BY <1>14, <1>15, <1>16, <2>1
<1> QED
  BY <1>2, <1>3, <1>12, <1>13, <1>17, <1>18, PushFrame

(* The stack pointer of the caller, with room for the locals above it.      *)
LEMMA Adjustments ==
  ASSUME wordSize \in {4, 8}, NEW m \in JavaMethods, NEW rlocals \in Int,
         r1 \in Nat, (StackTop - r1) % Align = 0
  PROVE  LET p == AdjustedR1(m, rlocals)
         IN  /\ p \in Int /\ p <= r1
             /\ p # r1 => p <= r1 - 2
             /\ (StackTop - p) % Align = 0
             /\ ~m.native /\ m.params # m.locals => p + Header + Slop <= rlocals - m.locals
<1> DEFINE available == rlocals - r1 - (Header + Slop)
           q == Extended(r1, m.locals, available)
<1>1. m.locals \in Nat /\ m.params \in Nat
  BY MethodAssumption
<1>2. LinkWords \in {2, 6} /\ MinParams \in {0, 8} /\ Header = LinkWords + MinParams /\ Slop = 2
  BY Sizes
<1>3. /\ q \in Int /\ q <= r1 /\ q <= r1 - (m.locals - available)
      /\ q # r1 => q <= r1 - 2
      /\ (StackTop - q) % Align = 0
  <2>1. available \in Int /\ m.locals \in Int /\ r1 \in Int
    BY <1>1, <1>2
  <2> HIDE DEF available
  <2> QED
    BY <2>1, Extensions
<1>4. q + Header + Slop <= rlocals - m.locals
  <2>1. q \in Int /\ q <= r1 - (m.locals - (rlocals - r1 - (Header + Slop)))
    BY <1>3
  <2> HIDE DEF q
  <2> QED
    BY <1>1, <1>2, <2>1
<1>5. CASE m.params = m.locals \/ m.native
  BY <1>5 DEF AdjustedR1
<1>6. CASE ~(m.params = m.locals \/ m.native)
  <2>1. AdjustedR1(m, rlocals) = q
    BY <1>6 DEF AdjustedR1
  <2> HIDE DEF q
  <2> QED
    BY <1>3, <1>4, <2>1
<1> QED
  BY <1>5, <1>6

(* The sections of a new frame fill it.                                     *)
LEMMA NewSections ==
  ASSUME wordSize \in {4, 8}, NEW m \in JavaMethods, NEW p \in Int
  PROVE  LET sp == p - RoundUp(FrameWords(m))
             limit == sp + Header + Slop - 1 + Padding(FrameWords(m))
             stack == limit + (IF m.native THEN 0 ELSE m.max)
             state == stack + 1 + (IF m.sync THEN MonitorWords ELSE 0)
         IN  /\ sp \in Int /\ limit \in Int /\ stack \in Int /\ state \in Int
             /\ sp + (Header + Slop) <= limit + 1 /\ limit <= stack /\ stack + 1 <= state
             /\ stack - limit = IF m.native THEN 0 ELSE m.max
             /\ state + StateWords = p
             /\ RoundUp(FrameWords(m)) % Align = 0 /\ RoundUp(FrameWords(m)) \in Int
<1> DEFINE max == IF m.native THEN 0 ELSE m.max
           mon == IF m.sync THEN MonitorWords ELSE 0
           words == FrameWords(m)
           padding == Padding(words)
           sp == p - RoundUp(words)
           limit == sp + Header + Slop - 1 + padding
           stack == limit + max
           state == stack + 1 + mon
<1>1. /\ LinkWords \in {2, 6} /\ MinParams \in {0, 8} /\ Header = LinkWords + MinParams /\ Slop = 2
      /\ StateWords \in Nat /\ MonitorWords \in Nat /\ m.max \in Nat
  BY Sizes, SizeAssumption, MethodAssumption
<1>2. max \in Nat /\ mon \in Nat /\ Header \in Nat
  BY <1>1
<1>3. words = Header + StateWords + Slop + max + mon
  BY DEF FrameWords
<1> HIDE DEF max, mon
<1>4. words \in Int
  <2> HIDE DEF words
  <2> QED
    BY <1>1, <1>2, <1>3
<1> HIDE DEF words
<1>5. padding \in Nat /\ RoundUp(words) = words + padding /\ RoundUp(words) % Align = 0
  BY <1>4, Paddings
<1> HIDE DEF padding
<1>6. sp \in Int /\ sp = p - (Header + StateWords + Slop + max + mon + padding)
  BY <1>1, <1>2, <1>3, <1>4, <1>5
<1> HIDE DEF sp
<1>7. limit \in Int /\ sp + (Header + Slop) <= limit + 1
  BY <1>1, <1>2, <1>5, <1>6
<1>8. state + StateWords = p
  BY <1>1, <1>2, <1>5, <1>6
<1> HIDE DEF limit
<1>9. stack \in Int /\ state \in Int /\ limit <= stack /\ stack + 1 <= state /\ stack - limit = max
  BY <1>2, <1>7
<1>10. RoundUp(words) % Align = 0 /\ RoundUp(words) \in Int
  BY <1>4, <1>5
<1> QED
  BY <1>6, <1>7, <1>8, <1>9, <1>10 DEF sp, limit, max, mon, padding, words

LEMMA EnterStep ==
  ASSUME LayoutInv, frames # <<>>, NEW m \in JavaMethods, NEW rlocals \in Int,
         Enter(m, rlocals), wordSize' = wordSize, r1' >= 0,
         rlocals - m.params = Top.stack, Top.args = 0,
         IF Top.kind = "method"
           THEN rlocals < Top.base /\ ~Top.method.native /\ Top.limit <= rlocals - m.words
           ELSE Top.kind = "stub" /\ rlocals = Top.rlocals /\ m = Top.method
  PROVE  LayoutInv'
<1> DEFINE n == Len(frames)
           f == Len(frames) + 1
           p == AdjustedR1(m, rlocals)
           extra == [a \in IF m.native THEN {} ELSE rlocals - m.locals + 1..rlocals - m.params |->
                       <<"local", f, rlocals - a + 1>>]
           lr == [a \in {p + LrSave} |-> <<"lr", f - 1>>]
           total == RoundUp(FrameWords(m))
           sp == p - total
           limit == sp + Header + Slop - 1 + Padding(FrameWords(m))
           stack == limit + (IF m.native THEN 0 ELSE m.max)
           state == stack + 1 + (IF m.sync THEN MonitorWords ELSE 0)
           chain == [a \in {sp} |-> <<"chain", p>>]
           data == [a \in stack + 1..state + StateWords - 1 |->
                      IF a < state THEN <<"monitor", f, state - a>> ELSE <<"state", f, a - state>>]
           fr == [kind |-> "method", bottom |-> p, method |-> m, rlocals |-> rlocals,
                  limit |-> limit, stack |-> stack, base |-> stack + 1,
                  state |-> state, monitors |-> IF m.sync THEN 1 ELSE 0, args |-> 0]
           m0 == Extend(mem, r1, p)
<1>1. /\ r1' = sp
      /\ mem' = Store(Store(Store(Store(m0, extra), lr), chain), data)
      /\ frames' = Append(frames, fr)
  BY DEF Enter, Push
<1>2. /\ n \in Nat /\ n \in 1..n /\ Top = frames[n] /\ Top \in FrameRecord
      /\ LinkKept(mem, Top, n, r1, TRUE)
      /\ wordSize \in {4, 8} /\ DOMAIN mem = 0..StackTop + 5
      /\ (StackTop - r1) % Align = 0
  BY TopFacts
<1>3. /\ r1 \in Nat /\ StackTop \in Nat /\ r1 < Top.stack
      /\ r1 + LrSave <= Top.stack /\ r1 + CrSave <= Top.stack
      /\ Top.stack < Top.base /\ Top.base <= Top.bottom /\ Top.bottom <= StackTop
      /\ Top.stack \in Int /\ Top.base \in Int /\ Top.bottom \in Int
  BY <1>2, TopFacts, FrameTypes
<1>4. /\ LinkWords \in {2, 6} /\ MinParams \in {0, 8} /\ Header = LinkWords + MinParams
      /\ LrSave \in {1, 2} /\ CrSave = 1 /\ Slop = 2 /\ (wordSize = 8 => LrSave = 2)
      /\ LrSave < LinkWords
      /\ m.params \in Nat /\ m.locals \in Nat /\ m.max \in Nat
      /\ m.native \in BOOLEAN /\ StateWords \in Nat \ {0}
  BY <1>2, Sizes, SizeAssumption, MethodAssumption
<1>5. /\ p \in Int /\ p <= r1
      /\ p # r1 => p <= r1 - 2
      /\ (StackTop - p) % Align = 0
      /\ ~m.native /\ m.params # m.locals => p + Header + Slop <= rlocals - m.locals
  BY <1>2, <1>3, Adjustments
<1> HIDE DEF p, n, m0
<1>6. /\ sp \in Int /\ limit \in Int /\ stack \in Int /\ state \in Int
      /\ sp + (Header + Slop) <= limit + 1 /\ limit <= stack /\ stack + 1 <= state
      /\ stack - limit = IF m.native THEN 0 ELSE m.max
      /\ state + StateWords = p
      /\ total % Align = 0 /\ total \in Int
  BY <1>2, <1>5, NewSections
<1>7. (StackTop - sp) % Align = 0
  <2> HIDE DEF total
  <2> QED
    BY <1>2, <1>5, <1>6, StaysAligned
<1>8. /\ DOMAIN lr = {p + LrSave} /\ lr[p + LrSave] = <<"lr", f - 1>>
      /\ DOMAIN chain = {sp} /\ chain[sp] = <<"chain", p>>
      /\ DOMAIN data = stack + 1..state + StateWords - 1
      /\ \A a \in DOMAIN data :
           data[a] = IF a < state THEN <<"monitor", f, state - a>> ELSE <<"state", f, a - state>>
  OBVIOUS
<1>9. /\ DOMAIN extra = IF m.native THEN {} ELSE rlocals - m.locals + 1..rlocals - m.params
      /\ \A a \in DOMAIN extra : extra[a] = <<"local", f, rlocals - a + 1>>
  OBVIOUS
<1> HIDE DEF lr, chain, data, extra, sp, total, limit, stack, state
<1>10. /\ sp \in Nat /\ sp + 2 <= stack /\ stack < p /\ p \in Nat
  <2>1. /\ sp \in Int /\ limit \in Int /\ stack \in Int /\ state \in Int /\ p \in Int
        /\ sp + (Header + Slop) <= limit + 1 /\ limit <= stack /\ stack + 1 <= state
        /\ state + StateWords = p
    BY <1>5, <1>6
  <2>2. sp >= 0
    BY <1>1
  <2> QED
    BY <1>4, <2>1, <2>2
<1>11. /\ fr \in FrameRecord
       /\ fr.kind = "method" /\ fr.bottom = p /\ fr.method = m /\ fr.rlocals = rlocals
       /\ fr.limit = limit /\ fr.stack = stack /\ fr.base = stack + 1 /\ fr.state = state
       /\ fr.args = 0
  <2>1. stack + 1 \in Int
    BY <1>6
  <2> QED
    BY <1>5, <1>6, <2>1 DEF FrameRecord
<1> HIDE DEF fr, f
<1>12. /\ DOMAIN m0 = 0..StackTop + 5
       /\ m0[p] = mem[r1]
       /\ wordSize = 8 => m0[p + CrSave] = mem[r1 + CrSave]
       /\ \A a \in 0..StackTop + 5 : a \notin {p, p + CrSave} => m0[a] = mem[a]
  <2>1. (p = r1 \/ p <= r1 - 2) /\ r1 <= StackTop
    BY <1>3, <1>5
  <2> QED
    <3>1. r1 \in Nat /\ p \in Nat /\ wordSize \in {4, 8} /\ DOMAIN mem = 0..StackTop + 5
      BY <1>2, <1>3, <1>10
    <3>2. /\ DOMAIN Extend(mem, r1, p) = 0..StackTop + 5
          /\ Extend(mem, r1, p)[p] = mem[r1]
          /\ wordSize = 8 => Extend(mem, r1, p)[p + CrSave] = mem[r1 + CrSave]
          /\ \A a \in 0..StackTop + 5 : a \notin {p, p + CrSave} => Extend(mem, r1, p)[a] = mem[a]
      BY <2>1, <3>1, TopExtends
    <3> QED
      BY <3>2 DEF m0
<1>13. /\ DOMAIN mem' = 0..StackTop + 5
       /\ \A a \in 0..StackTop + 5 :
            mem'[a] = IF a \in DOMAIN data THEN data[a] ELSE IF a \in DOMAIN chain THEN chain[a]
                      ELSE IF a \in DOMAIN lr THEN lr[a]
                      ELSE IF a \in DOMAIN extra THEN extra[a] ELSE m0[a]
  <2> DEFINE m1 == Store(m0, extra)
             m2 == Store(m1, lr)
             m3 == Store(m2, chain)
  <2>1. /\ DOMAIN m1 = DOMAIN m0
        /\ \A a \in DOMAIN m0 : m1[a] = IF a \in DOMAIN extra THEN extra[a] ELSE m0[a]
    BY Stores
  <2> HIDE DEF m1
  <2>2. /\ DOMAIN m2 = DOMAIN m1
        /\ \A a \in DOMAIN m1 : m2[a] = IF a \in DOMAIN lr THEN lr[a] ELSE m1[a]
    BY Stores
  <2> HIDE DEF m2
  <2>3. /\ DOMAIN m3 = DOMAIN m2
        /\ \A a \in DOMAIN m2 : m3[a] = IF a \in DOMAIN chain THEN chain[a] ELSE m2[a]
    BY Stores
  <2> HIDE DEF m3
  <2>4. mem' = Store(m3, data)
    BY <1>1 DEF m1, m2, m3
  <2>5. /\ DOMAIN mem' = DOMAIN m3
        /\ \A a \in DOMAIN m3 : mem'[a] = IF a \in DOMAIN data THEN data[a] ELSE m3[a]
    BY <2>4, Stores
  <2> QED
    BY <1>12, <2>1, <2>2, <2>3, <2>5
<1>14. \A a \in DOMAIN extra : p + Header + Slop < a /\ a <= Top.stack /\ a \in Int
  <2> TAKE a \in DOMAIN extra
  <2>1. ~m.native /\ a \in rlocals - m.locals + 1..rlocals - m.params
    BY <1>9
  <2>2. m.params # m.locals
    BY <1>4, <2>1
  <2> QED
    BY <1>4, <1>5, <2>1, <2>2
<1>15. CalledFrom(fr, frames[Len(frames)])
  <2>1. ~m.native /\ m.params # m.locals => p + Header + Slop <= rlocals - m.locals + 1
    BY <1>4, <1>5
  <2>2. CalledFrom(fr, Top)
    BY <1>11, <2>1 DEF CalledFrom
  <2> QED
    BY <1>2, <2>2 DEF n
<1>16. Shape(fr, f, sp)
  <2>1. MethodShape(fr, sp)
    <3>1. /\ fr.state + StateWords = fr.bottom /\ fr.base <= fr.state
          /\ fr.limit <= fr.stack /\ fr.stack < fr.base
          /\ sp + (Header + Slop) <= fr.limit + 1
      BY <1>6, <1>11
    <3>2. fr.base - 1 - fr.limit = IF fr.method.native THEN 0 ELSE fr.method.max
      BY <1>4, <1>6, <1>11
    <3> QED
      BY <1>11, <3>1, <3>2 DEF MethodShape
  <2>2. f # 1
    BY <1>2 DEF f, n
  <2> QED
    BY <2>1, <2>2 DEF Shape
<1>17. /\ p + LrSave < p + Header + Slop /\ p + CrSave < p + Header + Slop
       /\ p <= StackTop /\ p + LrSave <= Top.stack /\ p + CrSave <= Top.stack
       /\ p + LrSave <= StackTop /\ p + CrSave <= StackTop
  BY SMTT(30), <1>3, <1>4, <1>5
<1>18. \A a \in Top.stack + 1..StackTop + 5 : mem'[a] = mem[a]
  <2> TAKE a \in Top.stack + 1..StackTop + 5
  <2>1. a \in 0..StackTop + 5 /\ a \notin {p, p + CrSave} /\ a \notin DOMAIN lr
    BY <1>3, <1>5, <1>8, <1>10, <1>17
  <2>2. a \notin DOMAIN extra
    BY <1>3, <1>14
  <2>3. a \notin DOMAIN data /\ a \notin DOMAIN chain
    <3>1. a > p /\ state + StateWords = p /\ sp < p /\ p \in Nat /\ state \in Int /\ sp \in Int
      <4>1. a > p
        BY SMTT(30), <1>3, <1>4, <1>10, <1>17
      <4>2. sp < p
        BY <1>6, <1>10
      <4> QED
        BY <1>6, <1>10, <4>1, <4>2
    <3> QED
      BY <1>4, <1>8, <3>1
  <2> QED
    BY <1>12, <1>13, <2>1, <2>2, <2>3
<1>19. \A a \in 0..StackTop + 5 :
         a >= p /\ a # p + LrSave /\ a \notin DOMAIN extra => mem'[a] = m0[a]
  <2> TAKE a \in 0..StackTop + 5
  <2>1. a >= p => a \notin DOMAIN data /\ a \notin DOMAIN chain
    BY <1>4, <1>6, <1>8, <1>10
  <2> QED
    BY <1>8, <1>13, <2>1
<1>20. LinkKept(mem', frames[n], n, fr.bottom, FALSE)
  <2>1. p \notin DOMAIN extra /\ p + CrSave \notin DOMAIN extra
    BY SMTT(30), <1>4, <1>10, <1>14, <1>17
  <2>2. p \in 0..StackTop + 5 /\ p + CrSave \in 0..StackTop + 5 /\ p + LrSave \in 0..StackTop + 5
    BY <1>3, <1>4, <1>10, <1>17
  <2>3. mem'[p] = <<"chain", Top.bottom>>
    <3>1. p # p + LrSave /\ p >= p
      BY <1>4, <1>10
    <3>2. mem[r1] = <<"chain", Top.bottom>>
      BY <1>2 DEF LinkKept
    <3> QED
      BY <1>12, <1>19, <2>1, <2>2, <3>1, <3>2
  <2>4. mem'[p + LrSave] = <<"lr", n>>
    <3>1. p + LrSave \notin DOMAIN data /\ p + LrSave \notin DOMAIN chain
      BY <1>4, <1>6, <1>8, <1>10
    <3>2. f - 1 = n
      BY <1>2 DEF f, n
    <3> QED
      BY <1>8, <1>13, <2>2, <3>1, <3>2
  <2>5. Top.kind # "method" /\ wordSize = 8 => mem'[p + CrSave] = <<"cr", n>>
    <3>1. wordSize = 8 => p + CrSave # p + LrSave /\ p + CrSave >= p
      BY <1>4, <1>10
    <3>2. Top.kind # "method" /\ wordSize = 8 => mem[r1 + CrSave] = <<"cr", n>>
      BY <1>2 DEF LinkKept
    <3> QED
      BY <1>12, <1>19, <2>1, <2>2, <3>1, <3>2
  <2>6. \A a \in p + LinkWords..p + LinkWords + Top.args - 1 : mem'[a] = <<"arg", n, a - p>>
    BY <1>4, <1>10
  <2> QED
    BY <1>2, <1>11, <2>3, <2>4, <2>5, <2>6 DEF LinkKept
<1>21. DataKept(mem', fr, f)
  <2>1. \A a \in fr.stack + 1..fr.base - 1 : mem'[a] = <<"operand", f, fr.base - a>>
    BY <1>6, <1>11
  <2>2. ASSUME NEW a \in fr.base..fr.bottom - 1
        PROVE  mem'[a] = IF a < fr.state THEN <<"monitor", f, fr.state - a>>
                                         ELSE <<"state", f, a - fr.state>>
    <3>1. a \in DOMAIN data /\ a \in 0..StackTop + 5
      BY <1>3, <1>4, <1>6, <1>8, <1>10, <1>11, <1>17
    <3> QED
      BY <1>8, <1>11, <1>13, <3>1
  <2>3. ~fr.method.native =>
          \A a \in fr.rlocals - fr.method.locals + 1..fr.rlocals - fr.method.params :
            mem'[a] = <<"local", f, fr.rlocals - a + 1>>
    <3> SUFFICES ASSUME ~m.native, NEW a \in rlocals - m.locals + 1..rlocals - m.params
                 PROVE  mem'[a] = <<"local", f, rlocals - a + 1>>
      BY <1>11
    <3>1. a \in DOMAIN extra
      BY <1>9
    <3>2. p + Header + Slop < a /\ a <= Top.stack /\ a \in Int
      BY <1>14, <3>1
    <3>3. a \in 0..StackTop + 5 /\ a > p /\ a # p + LrSave
      <4>1. /\ p + LrSave < p + Header + Slop /\ p < p + Header + Slop /\ p + Header + Slop \in Int
            /\ Top.stack <= StackTop /\ p + LrSave \in Int
        <5>1. p \in Nat /\ Header \in Nat /\ Header >= 2
          BY <1>4, <1>10
        <5>2. Top.stack <= StackTop
          BY <1>3
        <5>3. p < p + Header + Slop /\ p + Header + Slop \in Int /\ p + LrSave \in Int
          BY <1>4, <5>1
        <5> QED
          BY <1>17, <5>2, <5>3
      <4> QED
        BY <1>3, <1>10, <3>2, <4>1
    <3>4. a \notin DOMAIN data /\ a \notin DOMAIN chain /\ a \notin DOMAIN lr
      BY <1>4, <1>6, <1>8, <1>10, <3>3
    <3> QED
      BY <1>9, <1>13, <3>1, <3>3, <3>4
  <2> QED
    BY <1>11, <2>1, <2>2, <2>3 DEF DataKept
<1>22. LinkKept(mem', fr, f, sp, TRUE)
  <2>1. mem'[sp] = <<"chain", p>>
    <3>1. sp \in 0..StackTop + 5 /\ sp \notin DOMAIN data /\ sp \in DOMAIN chain
      BY <1>3, <1>6, <1>8, <1>10, <1>17
    <3> QED
      BY <1>8, <1>13, <3>1
  <2>2. \A a \in sp + LinkWords..sp + LinkWords + fr.args - 1 : mem'[a] = <<"arg", f, a - sp>>
    BY <1>4, <1>10, <1>11
  <2> QED
    BY <1>11, <2>1, <2>2 DEF LinkKept
<1>23. /\ fr.kind = "method" <=> frames # <<>>
       /\ fr.bottom <= r1 /\ (StackTop - fr.bottom) % Align = 0
       /\ r1' \in Nat /\ (StackTop - r1') % Align = 0
  BY <1>1, <1>5, <1>7, <1>10, <1>11
<1>24. /\ Shape(fr, Len(frames) + 1, r1') /\ DataKept(mem', fr, Len(frames) + 1)
       /\ LinkKept(mem', fr, Len(frames) + 1, r1', TRUE)
  BY <1>1, <1>16, <1>21, <1>22 DEF f
<1>25. /\ \A a \in frames[Len(frames)].stack + 1..StackTop + 5 : mem'[a] = mem[a]
       /\ LinkKept(mem', frames[Len(frames)], Len(frames), fr.bottom, FALSE)
  BY <1>2, <1>18, <1>20 DEF n
<1> QED
  BY <1>1, <1>11, <1>13, <1>15, <1>23, <1>24, <1>25, PushFrame

LEMMA EnterFromStubStep ==
  ASSUME LayoutInv, EnterFromStub, r1' >= 0
  PROVE  LayoutInv'
<1>1. /\ Len(frames) = 1 /\ Top.kind = "stub" /\ Enter(Top.method, Top.rlocals)
      /\ wordSize' = wordSize
  BY DEF EnterFromStub
<1>2. frames # <<>>
  BY <1>1
<1>3. Top \in FrameRecord /\ Shape(Top, Len(frames), r1)
  BY <1>2, TopFacts
<1>4. Top.method \in JavaMethods /\ Top.rlocals \in Int /\ Top.kind # "method"
  BY <1>1, <1>3, FrameTypes
<1>5. Top.rlocals - Top.method.params = Top.stack /\ Top.args = 0
  BY <1>1, <1>3 DEF Shape, StubShape
<1> QED
  BY <1>1, <1>2, <1>4, <1>5, EnterStep

LEMMA CallMethodStep ==
  ASSUME LayoutInv, CallMethod, r1' >= 0
  PROVE  LayoutInv'
<1>1. Len(frames) > 1 /\ frames # <<>> /\ ~Top.method.native /\ wordSize' = wordSize
  BY DEF CallMethod
<1>2. PICK m \in JavaMethods :
        /\ m.params <= OperandCount(Top)
        /\ OperandCount(Top) - m.params + m.words <= Top.method.max
        /\ Enter(m, Top.stack + m.params)
  BY DEF CallMethod
<1>3. Top \in FrameRecord /\ MethodShape(Top, r1) /\ Top.kind = "method"
  BY <1>1, TopFacts
<1>4. /\ Top.stack \in Int /\ Top.base \in Int /\ Top.limit \in Int /\ Top.args \in Int
      /\ Top.method.max \in Nat /\ Top.method.native \in BOOLEAN
  BY <1>3, FrameTypes
<1>5. m.params \in Nat /\ m.words \in 0..2
  BY MethodAssumption
<1>6. /\ Top.base - 1 - Top.limit = Top.method.max
      /\ Top.args = 0
  BY <1>1, <1>3, <1>4 DEF MethodShape
<1> DEFINE rlocals == Top.stack + m.params
<1>7. /\ rlocals \in Int /\ rlocals - m.params = Top.stack
      /\ rlocals < Top.base /\ Top.limit <= rlocals - m.words
  BY <1>2, <1>4, <1>5, <1>6 DEF OperandCount
<1>8. Enter(m, rlocals)
  BY <1>2
<1> HIDE DEF rlocals
<1> QED
  BY <1>1, <1>3, <1>6, <1>7, <1>8, EnterStep

-----------------------------------------------------------------------------
(* The inductive invariant, and the properties that follow from it. *)

LEMMA LayoutStarts ==
  ASSUME LayoutInit
  PROVE  LayoutInv
<1>1. /\ wordSize \in {4, 8} /\ r1 = StackTop /\ DOMAIN mem = 0..StackTop + 5 /\ frames = <<>>
      /\ Len(frames) = 0 /\ frames \in Seq(FrameRecord) /\ StackTop \in Nat
  BY SizeAssumption DEF LayoutInit
<1>2. (StackTop - r1) % Align = 0
  <2>1. Align \in {2, 4} /\ StackTop - r1 = 0
    BY <1>1 DEF Align
  <2> QED
    BY <2>1
<1>3. LayoutTypes
  BY <1>1 DEF LayoutTypes
<1>4. Stacked
  BY <1>1, <1>2 DEF Stacked
<1>5. Shaped /\ Called /\ AllKept
  BY <1>1 DEF Shaped, Called, AllKept
<1> QED
  BY <1>3, <1>4, <1>5 DEF LayoutInv

LEMMA LayoutStutters ==
  ASSUME LayoutInv, UNCHANGED layoutVars
  PROVE  LayoutInv'
<1>1. wordSize' = wordSize /\ mem' = mem /\ r1' = r1 /\ frames' = frames
  BY DEF layoutVars
<1>2. LayoutTypes'
  BY <1>1 DEF LayoutInv, LayoutTypes
<1>3. Stacked'
  BY <1>1 DEF LayoutInv, Stacked, Align
<1>4. Shaped'
  BY <1>1 DEF LayoutInv, Shaped, Shape, StubShape, MethodShape, Sp, Header, LinkWords, MinParams,
       Slop, StubSaves
<1>5. Called'
  BY <1>1 DEF LayoutInv, Called, CalledFrom, Header, LinkWords, MinParams, Slop
<1>6. AllKept'
  <2> SUFFICES ASSUME NEW i \in 1..Len(frames)
               PROVE  /\ DataKept(mem', frames'[i], i)
                      /\ LinkKept(mem, frames[i], i, Sp(i), i = Len(frames))'
    BY <1>1 DEF AllKept
  <2>1. DataKept(mem, frames[i], i) /\ LinkKept(mem, frames[i], i, Sp(i), i = Len(frames))
    BY DEF LayoutInv, AllKept
  <2>2. Sp(i)' = Sp(i)
    BY <1>1 DEF Sp
  <2>3. LinkWords' = LinkWords /\ LrSave' = LrSave /\ CrSave' = CrSave
    BY <1>1 DEF LinkWords, LrSave, CrSave
  <2>4. DataKept(mem', frames'[i], i)
    BY <1>1, <2>1
  <2>5. LinkKept(mem, frames[i], i, Sp(i), i = Len(frames))'
    BY <1>1, <2>1, <2>2, <2>3 DEF LinkKept
  <2> QED
    BY <2>4, <2>5
<1> QED
  BY <1>2, <1>3, <1>4, <1>5, <1>6 DEF LayoutInv

\* Every step of the frame manager's code keeps the layout of the frames on the
\* stack: their sections, their order and the words they keep.
THEOREM LayoutInvariant == LayoutSpec => []LayoutInv
<1>1. LayoutInit => LayoutInv
  BY LayoutStarts
<1>2. LayoutInv /\ [LayoutNext]_layoutVars => LayoutInv'
  <2> SUFFICES ASSUME LayoutInv, [LayoutNext]_layoutVars
               PROVE  LayoutInv'
    OBVIOUS
  <2>1. CASE UNCHANGED layoutVars
    BY <2>1, LayoutStutters
  <2>2. CASE LayoutNext
    <3>1. r1' >= 0
      BY <2>2 DEF LayoutNext
    <3>2. CASE CallFromVM
      BY <3>1, <3>2, CallFromVMStep
    <3>3. CASE EnterFromStub
      BY <3>1, <3>3, EnterFromStubStep
    <3>4. CASE CallMethod
      BY <3>1, <3>4, CallMethodStep
    <3>5. CASE PushOperand
      BY <3>5, PushOperandStep
    <3>6. CASE MoreMonitors
      BY <3>1, <3>6, MoreMonitorsStep
    <3>7. CASE PassOnStack
      BY <3>1, <3>7, PassOnStackStep
    <3>8. CASE ReturnToCaller
      BY <3>8, ReturnToCallerStep
    <3>9. CASE ReturnToStub
      BY <3>9, ReturnToStubStep
    <3>10. CASE StubReturns
      BY <3>10, StubReturnsStep
    <3> QED
      BY <2>2, <3>2, <3>3, <3>4, <3>5, <3>6, <3>7, <3>8, <3>9, <3>10 DEF LayoutNext
  <2> QED
    BY <2>1, <2>2
<1> QED
  BY <1>1, <1>2, PTL DEF LayoutSpec

LEMMA KeptIsIntact ==
  ASSUME LayoutInv
  PROVE  FramesIntact
<1> SUFFICES ASSUME NEW i \in 1..Len(frames)
             PROVE  \A cells \in Kept(i) : \A a \in DOMAIN cells : mem[a] = cells[a]
  BY DEF FramesIntact
<1> DEFINE fr == frames[i]
           sp == Sp(i)
<1>1. DataKept(mem, fr, i) /\ LinkKept(mem, fr, i, sp, i = Len(frames))
  BY DEF LayoutInv, AllKept
<1>2. fr \in FrameRecord
  BY DEF LayoutInv, LayoutTypes
<1>3. fr.base \in Int /\ fr.bottom \in Int /\ fr.state \in Int
  BY <1>2, FrameTypes
<1>4. fr.kind # "method" => fr.base = fr.bottom - StubSaves
  <2>1. fr.kind # "method" => i = 1
    BY DEF LayoutInv, Stacked
  <2>2. Shape(fr, i, sp)
    BY DEF LayoutInv, Shaped
  <2> QED
    BY <2>1, <2>2 DEF Shape, StubShape
<1>5. StubSaves \in Nat
  BY Sizes DEF LayoutInv, LayoutTypes
<1>6. i \in Int /\ Len(frames) \in Nat
  BY DEF LayoutInv, LayoutTypes
<1> DEFINE
     operands == [a \in fr.stack + 1..fr.base - 1 |-> <<"operand", i, fr.base - a>>]
     link == [a \in {sp} |-> <<"chain", fr.bottom>>]
     lr == [a \in IF i < Len(frames) THEN {sp + LrSave} ELSE {} |-> <<"lr", i>>]
     cr == [a \in IF fr.kind # "method" /\ wordSize = 8 THEN {sp + CrSave} ELSE {} |-> <<"cr", i>>]
     stub == [a \in IF fr.kind # "method" THEN fr.bottom - StubSaves..fr.bottom - 1 ELSE {} |->
                <<"saved", i, a - (fr.bottom - StubSaves - 1)>>]
     method == [a \in IF fr.kind = "method" THEN fr.base..fr.bottom - 1 ELSE {} |->
                  IF a < fr.state THEN <<"monitor", i, fr.state - a>> ELSE <<"state", i, a - fr.state>>]
     locals == [a \in IF fr.kind = "method" /\ ~fr.method.native
                        THEN fr.rlocals - fr.method.locals + 1..fr.rlocals - fr.method.params
                        ELSE {} |-> <<"local", i, fr.rlocals - a + 1>>]
     args == [a \in sp + LinkWords..sp + LinkWords + fr.args - 1 |-> <<"arg", i, a - sp>>]
<1>10. Kept(i) = {operands, link, lr, cr, stub, method, locals, args}
  BY DEF Kept
<1> HIDE DEF fr, sp
<1>11. \A a \in DOMAIN operands : mem[a] = operands[a]
  BY <1>1 DEF DataKept
<1>12. \A a \in DOMAIN link : mem[a] = link[a]
  BY <1>1 DEF LinkKept
<1>13. \A a \in DOMAIN lr : mem[a] = lr[a]
  <2>1. i < Len(frames) => ~(i = Len(frames))
    BY <1>6
  <2> QED
    BY <1>1, <2>1 DEF LinkKept
<1>14. \A a \in DOMAIN cr : mem[a] = cr[a]
  BY <1>1 DEF LinkKept
<1>15. \A a \in DOMAIN stub : mem[a] = stub[a]
  <2> SUFFICES ASSUME NEW a \in DOMAIN stub
               PROVE  mem[a] = stub[a]
    OBVIOUS
  <2>1. fr.kind # "method" /\ a \in fr.bottom - StubSaves..fr.bottom - 1
    OBVIOUS
  <2>2. a \in fr.base..fr.bottom - 1 /\ a - (fr.bottom - StubSaves - 1) = a - (fr.base - 1)
    BY <1>3, <1>4, <1>5, <2>1
  <2>3. mem[a] = <<"saved", i, a - (fr.base - 1)>>
    BY <1>1, <2>1, <2>2 DEF DataKept
  <2> QED
    BY <2>2, <2>3
<1>16. \A a \in DOMAIN method : mem[a] = method[a]
  BY <1>1 DEF DataKept
<1>17. \A a \in DOMAIN locals : mem[a] = locals[a]
  BY <1>1 DEF DataKept
<1>18. \A a \in DOMAIN args : mem[a] = args[a]
  BY <1>1 DEF LinkKept
<1> HIDE DEF operands, link, lr, cr, stub, method, locals, args
<1> QED
  BY <1>10, <1>11, <1>12, <1>13, <1>14, <1>15, <1>16, <1>17, <1>18

LEMMA ShapedIsSeparate ==
  ASSUME LayoutInv
  PROVE  FramesSeparate
<1> SUFFICES ASSUME NEW i \in 1..Len(frames)
             PROVE  /\ (StackTop - Sp(i)) % Align = 0
                    /\ frames[i].kind = "method" =>
                         /\ MethodShape(frames[i], Sp(i))
                         /\ CalledFrom(frames[i], frames[i - 1])
  BY DEF FramesSeparate, MethodShape, CalledFrom
<1>1. Len(frames) \in Nat
  BY DEF LayoutInv, LayoutTypes
<1>2. (StackTop - Sp(i)) % Align = 0
  BY <1>1 DEF LayoutInv, Stacked, Sp
<1>3. ASSUME frames[i].kind = "method"
      PROVE  i \in 2..Len(frames) /\ i # 1
  BY <1>1, <1>3 DEF LayoutInv, Stacked
<1>4. frames[i].kind = "method" => MethodShape(frames[i], Sp(i))
  BY <1>3 DEF LayoutInv, Shaped, Shape
<1>5. frames[i].kind = "method" => CalledFrom(frames[i], frames[i - 1])
  BY <1>3 DEF LayoutInv, Called
<1> QED
  BY <1>2, <1>4, <1>5

\* Nothing a frame needs is overwritten or lost, whatever is called, entered,
\* extended or moved, and it is where the code looks for it
\* (cppInterpreter_CPU.cpp:995-1269, assembler_CPU.cpp:1341-1373).
THEOREM FramesStayIntact == LayoutSpec => []FramesIntact
<1>1. LayoutInv => FramesIntact
  BY KeptIsIntact
<1> QED
  BY <1>1, LayoutInvariant, PTL

\* The stack pointer stays aligned, and below the lowest operand or local of
\* every frame there is room for the link area, the parameter list and the slop
\* (calc_padding_for_alignment and maybe_extend_frame, assembler_CPU.cpp:1341-1373).
THEOREM FramesStaySeparate == LayoutSpec => []FramesSeparate
<1>1. LayoutInv => FramesSeparate
  BY ShapedIsSeparate
<1> QED
  BY <1>1, LayoutInvariant, PTL

-----------------------------------------------------------------------------
(* StackFrame: the prolog and the epilog of a frame. *)

Entry(x) == <<"entry", x>>

Requests ==
  [params : Nat, locals : Nat, crfs : Nat, gprs : 0..MaxSaved, fprs : 0..MaxSaved,
   volatiles : BOOLEAN]

\* The code saves no other register in a frame that does not save the volatile
\* ones.
SavesR0(fs) == fs.crfs > 0 \/ fs.gprs > 0 \/ fs.fprs > 0 => fs.volatiles

PrologTypes ==
  /\ ws \in {4, 8} /\ fields \in Requests /\ SavesR0(fields)
  /\ phase \in {"done_nothing", "done_prolog", "body", "done_epilog"}
  /\ DOMAIN regs = Registers /\ DOMAIN stk = Words

\* What the code was given lies between the link area and the saved registers.
GivenBelow == \A o \in given : o \in LinkAreaWords..R0Save(fields) - 1

Asked ==
  phase = "done_nothing" =>
    /\ fields.params <= MaxParams + MinParamWords /\ fields.locals <= MaxLocals
    /\ regs[G(1)] = 0 /\ \A x \in Registers \ {G(1)} : regs[x] = Entry(x)
    /\ stk[BackChain] = "chain"

\* Until the epilog, every register is in its word, or was not changed.
InItsWord ==
  phase \in {"done_prolog", "body"} =>
    /\ size = UnalignedSize(fields) /\ size \in 0..-Lowest /\ regs[G(1)] = -size
    /\ stk[BackChain] = "chain" /\ stk[LrSaveOffset] = Entry(Lr)
    /\ fields.volatiles => stk[R0Save(fields) - size] = Entry(G(0))
    /\ ws = 8 /\ fields.crfs > 0 => stk[CrSaveOffset - size] = Entry(Cr)
    /\ \A x \in Saved(fields) : stk[SaveOffset(fields, x) - size] = Entry(x)
    /\ \A x \in Registers \ {G(0), G(1)} : x \in Changed \/ regs[x] = Entry(x)

PrologInv == PrologTypes /\ GivenBelow /\ Asked /\ InItsWord /\ EpilogUndoesProlog

LEMMA AreaSizes ==
  ASSUME ws \in {4, 8}
  PROVE  /\ ws = 4 => /\ LinkAreaWords = 2 /\ MinParamWords = 0 /\ LrSaveOffset = 1
                      /\ WordsPerFpr = 2
         /\ ws = 8 => /\ LinkAreaWords = 6 /\ MinParamWords = 8 /\ LrSaveOffset = 2
                      /\ WordsPerFpr = 1
         /\ CrSaveOffset = 1 /\ BackChain = 0
<1>1. 8 \div 4 = 2 /\ 8 \div 8 = 1
  OBVIOUS
<1> QED
  BY <1>1 DEF LinkAreaWords, MinParamWords, LrSaveOffset, WordsPerFpr, CrSaveOffset, BackChain

LEMMA RequestTypes ==
  ASSUME NEW fs \in Requests
  PROVE  /\ fs.params \in Nat /\ fs.locals \in Nat /\ fs.crfs \in Nat /\ fs.gprs \in 0..18
         /\ fs.fprs \in 0..18 /\ fs.gprs \in 0..MaxSaved /\ fs.fprs \in 0..MaxSaved
         /\ fs.volatiles \in BOOLEAN /\ MaxSaved \in 0..18
         /\ CrWords(fs) \in {0, 1} /\ (CrWords(fs) = 1 <=> ws = 4 /\ fs.crfs > 0)
BY FrameAssumption DEF Requests, CrWords

LEMMA Names ==
  /\ \A i, j : G(i) # F(j) /\ G(i) # Cr /\ G(i) # Ctr /\ G(i) # Lr
  /\ \A i : F(i) # Cr /\ F(i) # Ctr /\ F(i) # Lr
  /\ Cr # Ctr /\ Cr # Lr /\ Ctr # Lr
  /\ \A i, j : (G(i) = G(j) => i = j) /\ (F(i) = F(j) => i = j)
  /\ \A i : G(i)[2] = i /\ F(i)[2] = i /\ Width(G(i)) = 1 /\ Width(F(i)) = WordsPerFpr
  /\ Width(Cr) = 1 /\ Width(Ctr) = 1
BY DEF G, F, Cr, Ctr, Lr, Width

\* The sizes of a frame's areas.
LEMMA FrameSizes ==
  ASSUME ws \in {4, 8}, NEW fs \in Requests
  PROVE  /\ StartOfLocals(fs) \in Nat /\ StartOfLocals(fs) >= LinkAreaWords
         /\ StartOfLocals(fs) <= LinkAreaWords + fs.params + MinParamWords
         /\ StartOfLocals(fs) >= LinkAreaWords + fs.params
         /\ R0Save(fs) \in Nat /\ R0Save(fs) = StartOfLocals(fs) + fs.locals
         /\ UnalignedSize(fs) \in Nat
         /\ UnalignedSize(fs) = R0Save(fs) + (IF fs.volatiles THEN 12 + 14 * WordsPerFpr ELSE 0)
                                  + CrWords(fs) + fs.gprs + fs.fprs * WordsPerFpr
<1>1. /\ LinkAreaWords \in {2, 6} /\ MinParamWords \in {0, 8} /\ WordsPerFpr \in {1, 2}
  BY AreaSizes
<1>2. /\ fs.params \in Nat /\ fs.locals \in Nat /\ fs.gprs \in Nat /\ fs.fprs \in Nat
      /\ CrWords(fs) \in {0, 1}
  BY RequestTypes
<1>3. Max0(fs.params, MinParamWords) \in {fs.params, MinParamWords}
      /\ Max0(fs.params, MinParamWords) >= fs.params /\ Max0(fs.params, MinParamWords) >= 0
  BY <1>1, <1>2 DEF Max0
<1>4. StartOfLocals(fs) = LinkAreaWords + Max0(fs.params, MinParamWords)
  BY DEF StartOfLocals
<1>5. R0Save(fs) = StartOfLocals(fs) + fs.locals
  BY DEF R0Save
<1>6. /\ StartOfLocals(fs) \in Nat /\ StartOfLocals(fs) >= LinkAreaWords
      /\ StartOfLocals(fs) <= LinkAreaWords + fs.params + MinParamWords
      /\ StartOfLocals(fs) >= LinkAreaWords + fs.params
  BY <1>1, <1>2, <1>3, <1>4
<1> DEFINE doubles == fs.fprs * WordsPerFpr
           volatiles == IF fs.volatiles THEN 12 + 14 * WordsPerFpr ELSE 0
<1>7. doubles \in Nat
  BY <1>1, <1>2
<1>8. volatiles \in Nat /\ (IF fs.volatiles THEN 11 + 1 + 14 * WordsPerFpr ELSE 0) = volatiles
  BY <1>1
<1> HIDE DEF volatiles, doubles
<1>9. UnalignedSize(fs) = StartOfLocals(fs) + fs.locals + volatiles + CrWords(fs) + fs.gprs + doubles
  BY <1>8 DEF UnalignedSize, doubles
<1>10. R0Save(fs) \in Nat
  BY <1>2, <1>5, <1>6
<1>11. /\ UnalignedSize(fs) = R0Save(fs) + volatiles + CrWords(fs) + fs.gprs + doubles
       /\ UnalignedSize(fs) \in Nat
  <2>1. fs.gprs \in Nat /\ fs.locals \in Nat /\ CrWords(fs) \in Nat /\ StartOfLocals(fs) \in Nat
    BY <1>2, <1>6
  <2> QED
    BY <1>5, <1>7, <1>8, <1>9, <1>10, <2>1
<1> QED
  BY <1>5, <1>6, <1>10, <1>11 DEF volatiles, doubles

\* generate_prolog adds at most three words of padding.
LEMMA AlignedIs ==
  ASSUME ws \in {4, 8}, NEW fs \in Requests
  PROVE  /\ Aligned(fs) \in Requests
         /\ Aligned(fs).locals \in fs.locals..fs.locals + 3
         /\ Aligned(fs).params = fs.params /\ Aligned(fs).crfs = fs.crfs
         /\ Aligned(fs).gprs = fs.gprs /\ Aligned(fs).fprs = fs.fprs
         /\ Aligned(fs).volatiles = fs.volatiles
<1> DEFINE u == -UnalignedSize(fs)
           pad == u % (16 \div ws)
<1>1. pad \in 0..3
  <2>1. u \in Int
    BY FrameSizes
  <2>2. 16 \div 4 = 4 /\ 16 \div 8 = 2
    OBVIOUS
  <2> HIDE DEF u
  <2> QED
    BY <2>1, <2>2
<1>2. Aligned(fs) = [fs EXCEPT !.locals = fs.locals + pad]
  BY DEF Aligned
<1> HIDE DEF pad
<1>3. fs.locals \in Nat
  BY RequestTypes
<1> QED
  BY <1>1, <1>2, <1>3 DEF Requests

\* The saved registers from low to high addresses.
InArea(fs, x, o) ==
  LET volatiles == R0Save(fs) + 1
      crfs == volatiles + (IF fs.volatiles THEN 11 + 14 * WordsPerFpr ELSE 0)
      gprs == crfs + CrWords(fs)
      fprs == gprs + fs.gprs
  IN  \/ fs.volatiles /\ \E i \in 3..12 : x = G(i) /\ o = volatiles + (i - 3)
      \/ fs.volatiles /\ x = Ctr /\ o = volatiles + 10
      \/ fs.volatiles /\ \E i \in 0..13 : x = F(i) /\ o = volatiles + 11 + i * WordsPerFpr
      \/ CrWords(fs) = 1 /\ x = Cr /\ o = crfs
      \/ \E i \in 32 - fs.gprs..31 : x = G(i) /\ o = gprs + (i - (32 - fs.gprs))
      \/ \E i \in 32 - fs.fprs..31 : x = F(i) /\ o = fprs + (i - (32 - fs.fprs)) * WordsPerFpr

LEMMA Areas ==
  ASSUME ws \in {4, 8}, NEW fs \in Requests, NEW x \in Saved(fs)
  PROVE  InArea(fs, x, SaveOffset(fs, x))
<1> DEFINE volatiles == R0Save(fs) + 1
           crfs == volatiles + (IF fs.volatiles THEN 10 + 1 + 14 * WordsPerFpr ELSE 0)
           gprs == crfs + CrWords(fs)
           fprs == gprs + fs.gprs
<1>1. fs.gprs \in 0..18 /\ fs.fprs \in 0..18 /\ fs.volatiles \in BOOLEAN
  BY RequestTypes
<1>2. crfs = volatiles + (IF fs.volatiles THEN 11 + 14 * WordsPerFpr ELSE 0)
  <2>1. WordsPerFpr \in {1, 2}
    BY AreaSizes
  <2> QED
    BY <2>1
<1>3. SaveOffset(fs, x) =
        CASE x \in VolatileGprs -> volatiles + (x[2] - 3)
          [] x = Ctr -> volatiles + 10
          [] x \in VolatileFprs -> volatiles + 11 + x[2] * WordsPerFpr
          [] x = Cr -> crfs
          [] x \in Gprs(fs.gprs) -> gprs + (x[2] - (32 - fs.gprs))
          [] x \in Fprs(fs.fprs) -> fprs + (x[2] - (32 - fs.fprs)) * WordsPerFpr
  BY DEF SaveOffset
<1>4. InArea(fs, x, SaveOffset(fs, x)) <=>
        \/ fs.volatiles /\ \E i \in 3..12 : x = G(i) /\ SaveOffset(fs, x) = volatiles + (i - 3)
        \/ fs.volatiles /\ x = Ctr /\ SaveOffset(fs, x) = volatiles + 10
        \/ fs.volatiles /\ \E i \in 0..13 : x = F(i) /\ SaveOffset(fs, x) = volatiles + 11 + i * WordsPerFpr
        \/ CrWords(fs) = 1 /\ x = Cr /\ SaveOffset(fs, x) = crfs
        \/ \E i \in 32 - fs.gprs..31 : x = G(i) /\ SaveOffset(fs, x) = gprs + (i - (32 - fs.gprs))
        \/ \E i \in 32 - fs.fprs..31 :
             x = F(i) /\ SaveOffset(fs, x) = fprs + (i - (32 - fs.fprs)) * WordsPerFpr
  BY <1>2 DEF InArea
<1> HIDE DEF volatiles, crfs, gprs, fprs
<1>5. ASSUME NEW i \in 3..12, x = G(i) PROVE SaveOffset(fs, x) = volatiles + (i - 3)
  <2>1. x \in VolatileGprs
    BY <1>5 DEF VolatileGprs
  <2>2. x # Ctr /\ x \notin VolatileFprs /\ x # Cr /\ x \notin Gprs(fs.gprs) /\ x \notin Fprs(fs.fprs)
    BY <1>1, <1>5, Names DEF VolatileFprs, Gprs, Fprs
  <2> QED
    BY <1>3, <1>5, <2>1, <2>2, Names
<1>6. ASSUME x = Ctr PROVE SaveOffset(fs, x) = volatiles + 10
  <2>1. x \notin VolatileGprs /\ x \notin VolatileFprs /\ x # Cr
        /\ x \notin Gprs(fs.gprs) /\ x \notin Fprs(fs.fprs)
    BY <1>6, Names DEF VolatileGprs, VolatileFprs, Gprs, Fprs
  <2> QED
    BY <1>3, <1>6, <2>1
<1>7. ASSUME NEW i \in 0..13, x = F(i) PROVE SaveOffset(fs, x) = volatiles + 11 + i * WordsPerFpr
  <2>1. x \in VolatileFprs
    BY <1>7 DEF VolatileFprs
  <2>2. x \notin VolatileGprs /\ x # Ctr /\ x # Cr /\ x \notin Gprs(fs.gprs) /\ x \notin Fprs(fs.fprs)
    BY <1>1, <1>7, Names DEF VolatileGprs, Gprs, Fprs
  <2> QED
    BY <1>3, <1>7, <2>1, <2>2, Names
<1>8. ASSUME x = Cr PROVE SaveOffset(fs, x) = crfs
  <2>1. x \notin VolatileGprs /\ x \notin VolatileFprs /\ x # Ctr
        /\ x \notin Gprs(fs.gprs) /\ x \notin Fprs(fs.fprs)
    BY <1>8, Names DEF VolatileGprs, VolatileFprs, Gprs, Fprs
  <2> QED
    BY <1>3, <1>8, <2>1
<1>9. ASSUME NEW i \in 32 - fs.gprs..31, x = G(i)
      PROVE  SaveOffset(fs, x) = gprs + (i - (32 - fs.gprs))
  <2>1. x \in Gprs(fs.gprs)
    BY <1>9 DEF Gprs
  <2>2. x \notin VolatileGprs /\ x # Ctr /\ x \notin VolatileFprs /\ x # Cr /\ x \notin Fprs(fs.fprs)
    BY <1>1, <1>9, Names DEF VolatileGprs, VolatileFprs, Fprs
  <2> QED
    BY <1>3, <1>9, <2>1, <2>2, Names
<1>10. ASSUME NEW i \in 32 - fs.fprs..31, x = F(i)
       PROVE  SaveOffset(fs, x) = fprs + (i - (32 - fs.fprs)) * WordsPerFpr
  <2>1. x \in Fprs(fs.fprs)
    BY <1>10 DEF Fprs
  <2>2. x \notin VolatileGprs /\ x # Ctr /\ x \notin VolatileFprs /\ x # Cr /\ x \notin Gprs(fs.gprs)
    BY <1>1, <1>10, Names DEF VolatileGprs, VolatileFprs, Gprs
  <2> QED
    BY <1>3, <1>10, <2>1, <2>2, Names
<1>11. \/ fs.volatiles /\ (x \in VolatileGprs \/ x = Ctr \/ x \in VolatileFprs)
       \/ CrWords(fs) = 1 /\ x = Cr
       \/ x \in Gprs(fs.gprs) \/ x \in Fprs(fs.fprs)
  BY DEF Saved
<1>12. CASE fs.volatiles /\ x \in VolatileGprs
  <2>1. PICK i \in 3..12 : x = G(i)
    BY <1>12 DEF VolatileGprs
  <2> QED
    BY <1>4, <1>5, <1>12, <2>1
<1>13. CASE fs.volatiles /\ x = Ctr
  BY <1>4, <1>6, <1>13
<1>14. CASE fs.volatiles /\ x \in VolatileFprs
  <2>1. PICK i \in 0..13 : x = F(i)
    BY <1>14 DEF VolatileFprs
  <2> QED
    BY <1>4, <1>7, <1>14, <2>1
<1>15. CASE CrWords(fs) = 1 /\ x = Cr
  BY <1>4, <1>8, <1>15
<1>16. CASE x \in Gprs(fs.gprs)
  <2>1. PICK i \in 32 - fs.gprs..31 : x = G(i)
    BY <1>16 DEF Gprs
  <2> QED
    BY <1>4, <1>9, <2>1
<1>17. CASE x \in Fprs(fs.fprs)
  <2>1. PICK i \in 32 - fs.fprs..31 : x = F(i)
    BY <1>17 DEF Fprs
  <2> QED
    BY <1>4, <1>10, <2>1
<1> QED
  BY <1>11, <1>12, <1>13, <1>14, <1>15, <1>16, <1>17

\* The words of a saved register.  A double has two of them on PPC32.
HasWord(fs, x, w) ==
  LET volatiles == R0Save(fs) + 1
      crfs == volatiles + (IF fs.volatiles THEN 11 + 14 * WordsPerFpr ELSE 0)
      gprs == crfs + CrWords(fs)
      fprs == gprs + fs.gprs
  IN  \/ fs.volatiles /\ \E i \in 3..12 : x = G(i) /\ w = volatiles + (i - 3)
      \/ fs.volatiles /\ x = Ctr /\ w = volatiles + 10
      \/ fs.volatiles /\ \E i \in 0..13 : x = F(i) /\ w - (volatiles + 11 + i * WordsPerFpr) \in 0..WordsPerFpr - 1
      \/ CrWords(fs) = 1 /\ x = Cr /\ w = crfs
      \/ \E i \in 32 - fs.gprs..31 : x = G(i) /\ w = gprs + (i - (32 - fs.gprs))
      \/ \E i \in 32 - fs.fprs..31 :
           x = F(i) /\ w - (fprs + (i - (32 - fs.fprs)) * WordsPerFpr) \in 0..WordsPerFpr - 1

LEMMA WordsOfAreas ==
  ASSUME ws \in {4, 8}, NEW fs \in Requests, NEW x \in Saved(fs)
  PROVE  /\ SaveOffset(fs, x) \in SaveWords(fs, x)
         /\ \A w \in SaveWords(fs, x) : w \in Int /\ HasWord(fs, x, w)
<1> DEFINE o == SaveOffset(fs, x)
           volatiles == R0Save(fs) + 1
           crfs == volatiles + (IF fs.volatiles THEN 11 + 14 * WordsPerFpr ELSE 0)
           gprs == crfs + CrWords(fs)
           fprs == gprs + fs.gprs
<1>1. /\ R0Save(fs) \in Nat /\ WordsPerFpr \in {1, 2} /\ CrWords(fs) \in {0, 1}
      /\ fs.gprs \in 0..18 /\ fs.fprs \in 0..18 /\ fs.volatiles \in BOOLEAN
  BY AreaSizes, FrameSizes, RequestTypes
<1>2. volatiles \in Int /\ crfs \in Int /\ gprs \in Int /\ fprs \in Int
  BY <1>1
<1>3. SaveWords(fs, x) = o..o + Width(x) - 1
  BY DEF SaveWords
<1>4. /\ \/ fs.volatiles /\ \E i \in 3..12 : x = G(i) /\ o = volatiles + (i - 3)
         \/ fs.volatiles /\ x = Ctr /\ o = volatiles + 10
         \/ fs.volatiles /\ \E i \in 0..13 : x = F(i) /\ o = volatiles + 11 + i * WordsPerFpr
         \/ CrWords(fs) = 1 /\ x = Cr /\ o = crfs
         \/ \E i \in 32 - fs.gprs..31 : x = G(i) /\ o = gprs + (i - (32 - fs.gprs))
         \/ \E i \in 32 - fs.fprs..31 : x = F(i) /\ o = fprs + (i - (32 - fs.fprs)) * WordsPerFpr
  BY Areas DEF InArea
<1>5. \A w : HasWord(fs, x, w) <=>
        \/ fs.volatiles /\ \E i \in 3..12 : x = G(i) /\ w = volatiles + (i - 3)
        \/ fs.volatiles /\ x = Ctr /\ w = volatiles + 10
        \/ fs.volatiles /\ \E i \in 0..13 : x = F(i) /\ w - (volatiles + 11 + i * WordsPerFpr) \in 0..WordsPerFpr - 1
        \/ CrWords(fs) = 1 /\ x = Cr /\ w = crfs
        \/ \E i \in 32 - fs.gprs..31 : x = G(i) /\ w = gprs + (i - (32 - fs.gprs))
        \/ \E i \in 32 - fs.fprs..31 :
             x = F(i) /\ w - (fprs + (i - (32 - fs.fprs)) * WordsPerFpr) \in 0..WordsPerFpr - 1
  BY DEF HasWord
<1> HIDE DEF o, volatiles, crfs, gprs, fprs
<1> SUFFICES /\ o \in Int /\ Width(x) >= 1 /\ Width(x) \in Int
             /\ \A w \in o..o + Width(x) - 1 : HasWord(fs, x, w)
  BY <1>3 DEF o
<1>6. ASSUME o \in Int, Width(x) = 1
      PROVE  \A w \in o..o + Width(x) - 1 : w = o
  BY <1>6
<1>7. CASE fs.volatiles /\ \E i \in 3..12 : x = G(i) /\ o = volatiles + (i - 3)
  BY <1>2, <1>5, <1>6, <1>7, Names
<1>8. CASE fs.volatiles /\ x = Ctr /\ o = volatiles + 10
  BY <1>2, <1>5, <1>6, <1>8, Names
<1>9. CASE fs.volatiles /\ \E i \in 0..13 : x = F(i) /\ o = volatiles + 11 + i * WordsPerFpr
  <2>1. PICK i \in 0..13 : x = F(i) /\ o = volatiles + 11 + i * WordsPerFpr
    BY <1>9
  <2>2. i * WordsPerFpr \in Int /\ Width(x) = WordsPerFpr
    BY <1>1, <2>1, Names
  <2>3. o \in Int
    BY <1>2, <2>1, <2>2
  <2>4. \A w \in o..o + Width(x) - 1 : w - (volatiles + 11 + i * WordsPerFpr) \in 0..WordsPerFpr - 1
    BY <1>1, <2>1, <2>2, <2>3
  <2>5. \A w \in o..o + Width(x) - 1 : HasWord(fs, x, w)
    BY <1>5, <1>9, <2>1, <2>4
  <2> QED
    BY <1>1, <2>2, <2>3, <2>5
<1>10. CASE CrWords(fs) = 1 /\ x = Cr /\ o = crfs
  BY <1>2, <1>5, <1>6, <1>10, Names
<1>11. CASE \E i \in 32 - fs.gprs..31 : x = G(i) /\ o = gprs + (i - (32 - fs.gprs))
  BY <1>1, <1>2, <1>5, <1>6, <1>11, Names
<1>12. CASE \E i \in 32 - fs.fprs..31 : x = F(i) /\ o = fprs + (i - (32 - fs.fprs)) * WordsPerFpr
  <2>1. PICK i \in 32 - fs.fprs..31 : x = F(i) /\ o = fprs + (i - (32 - fs.fprs)) * WordsPerFpr
    BY <1>12
  <2>2. (i - (32 - fs.fprs)) * WordsPerFpr \in Int /\ Width(x) = WordsPerFpr
    BY <1>1, <2>1, Names
  <2>3. o \in Int
    BY <1>2, <2>1, <2>2
  <2>4. \A w \in o..o + Width(x) - 1 :
          w - (fprs + (i - (32 - fs.fprs)) * WordsPerFpr) \in 0..WordsPerFpr - 1
    BY <1>1, <2>1, <2>2, <2>3
  <2> QED
    BY <1>1, <1>5, <2>1, <2>2, <2>3, <2>4
<1> QED
  BY <1>4, <1>7, <1>8, <1>9, <1>10, <1>11, <1>12

\* No two registers have a word in common.
LEMMA WordsApart ==
  ASSUME ws \in {4, 8}, NEW fs \in Requests, NEW x, NEW y, NEW w \in Int,
         HasWord(fs, x, w), HasWord(fs, y, w)
  PROVE  x = y
<1> DEFINE volatiles == R0Save(fs) + 1
           crfs == volatiles + (IF fs.volatiles THEN 11 + 14 * WordsPerFpr ELSE 0)
           gprs == crfs + CrWords(fs)
           fprs == gprs + fs.gprs
           Has(z) ==
             \/ fs.volatiles /\ \E i \in 3..12 : z = G(i) /\ w = volatiles + (i - 3)
             \/ fs.volatiles /\ z = Ctr /\ w = volatiles + 10
             \/ fs.volatiles /\ \E i \in 0..13 : z = F(i) /\ w - (volatiles + 11 + i * WordsPerFpr) \in 0..WordsPerFpr - 1
             \/ CrWords(fs) = 1 /\ z = Cr /\ w = crfs
             \/ \E i \in 32 - fs.gprs..31 : z = G(i) /\ w = gprs + (i - (32 - fs.gprs))
             \/ \E i \in 32 - fs.fprs..31 :
                  z = F(i) /\ w - (fprs + (i - (32 - fs.fprs)) * WordsPerFpr) \in 0..WordsPerFpr - 1
<1>1. /\ R0Save(fs) \in Nat /\ WordsPerFpr \in {1, 2} /\ CrWords(fs) \in {0, 1}
      /\ fs.gprs \in 0..18 /\ fs.fprs \in 0..18 /\ fs.volatiles \in BOOLEAN
  BY AreaSizes, FrameSizes, RequestTypes
<1>2. volatiles \in Int /\ crfs \in Int /\ gprs \in Int /\ fprs \in Int
  BY <1>1
<1>3. /\ crfs = volatiles + (IF fs.volatiles THEN 11 + 14 * WordsPerFpr ELSE 0)
      /\ gprs = crfs + CrWords(fs) /\ fprs = gprs + fs.gprs
  OBVIOUS
<1>4. Has(x) /\ Has(y)
  BY DEF HasWord
<1> HIDE DEF volatiles, crfs, gprs, fprs
<1>5. ASSUME NEW z, Has(z)
      PROVE  \/ fs.volatiles /\ w <= volatiles + 9 /\ z = G(w - volatiles + 3)
             \/ fs.volatiles /\ z = Ctr /\ w = volatiles + 10
             \/ /\ fs.volatiles /\ w > volatiles + 10 /\ w < crfs
                /\ \E i \in 0..13 : z = F(i) /\ w - (volatiles + 11 + i * WordsPerFpr) \in 0..WordsPerFpr - 1
             \/ z = Cr /\ w = crfs /\ w < gprs
             \/ w >= gprs /\ w < fprs /\ z = G(w - gprs + 32 - fs.gprs)
             \/ /\ w >= fprs
                /\ \E i \in 32 - fs.fprs..31 :
                     z = F(i) /\ w - (fprs + (i - (32 - fs.fprs)) * WordsPerFpr) \in 0..WordsPerFpr - 1
  <2>1. CASE fs.volatiles /\ \E i \in 3..12 : z = G(i) /\ w = volatiles + (i - 3)
    <3>1. PICK i \in 3..12 : z = G(i) /\ w = volatiles + (i - 3)
      BY <2>1
    <3>2. i = w - volatiles + 3 /\ w <= volatiles + 9
      BY <1>2, <3>1
    <3> QED
      BY <2>1, <3>1, <3>2
  <2>2. CASE fs.volatiles /\ z = Ctr /\ w = volatiles + 10
    BY <2>2
  <2>3. CASE fs.volatiles /\ \E i \in 0..13 : z = F(i) /\ w - (volatiles + 11 + i * WordsPerFpr) \in 0..WordsPerFpr - 1
    <3>1. PICK i \in 0..13 : z = F(i) /\ w - (volatiles + 11 + i * WordsPerFpr) \in 0..WordsPerFpr - 1
      BY <2>3
    <3>2. CASE WordsPerFpr = 1
      <4>1. w - (volatiles + 11 + i) = 0
        BY <3>1, <3>2
      <4>2. w > volatiles + 10 /\ w < crfs
        BY <1>2, <1>3, <2>3, <3>2, <4>1
      <4> QED
        BY <2>3, <4>2
    <3>3. CASE WordsPerFpr = 2
      <4>1. w - (volatiles + 11 + i * 2) \in 0..1
        BY <3>1, <3>3
      <4>2. w > volatiles + 10 /\ w < crfs
        BY <1>2, <1>3, <2>3, <3>3, <4>1
      <4> QED
        BY <2>3, <4>2
    <3> QED
      BY <1>1, <3>2, <3>3
  <2>4. CASE CrWords(fs) = 1 /\ z = Cr /\ w = crfs
    BY <1>2, <1>3, <2>4
  <2>5. CASE \E i \in 32 - fs.gprs..31 : z = G(i) /\ w = gprs + (i - (32 - fs.gprs))
    <3>1. PICK i \in 32 - fs.gprs..31 : z = G(i) /\ w = gprs + (i - (32 - fs.gprs))
      BY <2>5
    <3>2. i = w - gprs + 32 - fs.gprs /\ w >= gprs /\ w < fprs
      BY <1>1, <1>2, <1>3, <3>1
    <3> QED
      BY <3>1, <3>2
  <2>6. CASE \E i \in 32 - fs.fprs..31 :
               z = F(i) /\ w - (fprs + (i - (32 - fs.fprs)) * WordsPerFpr) \in 0..WordsPerFpr - 1
    <3>1. PICK i \in 32 - fs.fprs..31 :
                 z = F(i) /\ w - (fprs + (i - (32 - fs.fprs)) * WordsPerFpr) \in 0..WordsPerFpr - 1
      BY <2>6
    <3> DEFINE k == (i - (32 - fs.fprs)) * WordsPerFpr
    <3>2. k \in Nat
      BY <1>1, <3>1
    <3>3. w - (fprs + k) \in 0..WordsPerFpr - 1
      BY <3>1
    <3> HIDE DEF k
    <3>4. w >= fprs
      BY <1>1, <1>2, <3>2, <3>3
    <3> QED
      BY <2>6, <3>4
  <2> QED
    BY <1>5, <2>1, <2>2, <2>3, <2>4, <2>5, <2>6
<1>6. ASSUME NEW a \in Int, NEW i \in Int, NEW j \in Int,
             w - (a + i * WordsPerFpr) \in 0..WordsPerFpr - 1,
             w - (a + j * WordsPerFpr) \in 0..WordsPerFpr - 1
      PROVE  i = j
  <2>1. CASE WordsPerFpr = 1
    <3>1. w - (a + i) = 0 /\ w - (a + j) = 0
      BY <1>6, <2>1
    <3> QED
      BY <3>1
  <2>2. CASE WordsPerFpr = 2
    <3>1. w - (a + i * 2) \in 0..1 /\ w - (a + j * 2) \in 0..1
      BY <1>6, <2>2
    <3> QED
      BY <3>1
  <2> QED
    BY <1>1, <2>1, <2>2
<1>7. /\ volatiles + 10 < crfs \/ ~fs.volatiles
      /\ crfs >= volatiles /\ gprs >= crfs /\ fprs >= gprs
  BY <1>1, <1>2, <1>3
<1> HIDE DEF Has
<1>8. CASE fs.volatiles /\ w <= volatiles + 9 /\ x = G(w - volatiles + 3)
  BY <1>2, <1>4, <1>5, <1>7, <1>8
<1>9. CASE fs.volatiles /\ x = Ctr /\ w = volatiles + 10
  BY <1>2, <1>4, <1>5, <1>7, <1>9
<1>10. CASE /\ fs.volatiles /\ w > volatiles + 10 /\ w < crfs
            /\ \E i \in 0..13 : x = F(i) /\ w - (volatiles + 11 + i * WordsPerFpr) \in 0..WordsPerFpr - 1
  <2>1. \E i \in 0..13 : y = F(i) /\ w - (volatiles + 11 + i * WordsPerFpr) \in 0..WordsPerFpr - 1
    BY <1>2, <1>4, <1>5, <1>7, <1>10
  <2> DEFINE a == volatiles + 11
  <2>2. PICK i \in 0..13 : x = F(i) /\ w - (a + i * WordsPerFpr) \in 0..WordsPerFpr - 1
    BY <1>10
  <2>3. PICK j \in 0..13 : y = F(j) /\ w - (a + j * WordsPerFpr) \in 0..WordsPerFpr - 1
    BY <2>1
  <2>4. a \in Int /\ i \in Int /\ j \in Int
    BY <1>2
  <2> HIDE DEF a
  <2>5. i = j
    BY <1>6, <2>2, <2>3, <2>4
  <2> QED
    BY <2>2, <2>3, <2>5
<1>11. CASE x = Cr /\ w = crfs /\ w < gprs
  BY <1>2, <1>4, <1>5, <1>7, <1>11
<1>12. CASE w >= gprs /\ w < fprs /\ x = G(w - gprs + 32 - fs.gprs)
  BY <1>2, <1>4, <1>5, <1>7, <1>12
<1>13. CASE /\ w >= fprs
            /\ \E i \in 32 - fs.fprs..31 :
                 x = F(i) /\ w - (fprs + (i - (32 - fs.fprs)) * WordsPerFpr) \in 0..WordsPerFpr - 1
  <2>1. \E i \in 32 - fs.fprs..31 :
          y = F(i) /\ w - (fprs + (i - (32 - fs.fprs)) * WordsPerFpr) \in 0..WordsPerFpr - 1
    BY <1>2, <1>4, <1>5, <1>7, <1>13
  <2> DEFINE index(i) == i - (32 - fs.fprs)
  <2>2. PICK i \in 32 - fs.fprs..31 : x = F(i) /\ w - (fprs + index(i) * WordsPerFpr) \in 0..WordsPerFpr - 1
    BY <1>13
  <2>3. PICK j \in 32 - fs.fprs..31 : y = F(j) /\ w - (fprs + index(j) * WordsPerFpr) \in 0..WordsPerFpr - 1
    BY <2>1
  <2>4. index(i) \in Int /\ index(j) \in Int /\ (index(i) = index(j) => i = j)
    BY <1>1
  <2> HIDE DEF index
  <2>5. i = j
    BY <1>2, <1>6, <2>2, <2>3, <2>4
  <2> QED
    BY <2>2, <2>3, <2>5
<1> QED
  BY <1>4, <1>5, <1>8, <1>9, <1>10, <1>11, <1>12, <1>13

\* They are above r0's word and within the frame.
LEMMA SaveBounds ==
  ASSUME ws \in {4, 8}, NEW fs \in Requests, SavesR0(fs), NEW x \in Saved(fs),
         NEW w \in SaveWords(fs, x)
  PROVE  w \in Int /\ R0Save(fs) < w /\ w < UnalignedSize(fs)
<1> DEFINE volatiles == R0Save(fs) + 1
           crfs == volatiles + (IF fs.volatiles THEN 11 + 14 * WordsPerFpr ELSE 0)
           gprs == crfs + CrWords(fs)
           fprs == gprs + fs.gprs
           index(i) == i - (32 - fs.fprs)
           doubles == fs.fprs * WordsPerFpr
<1>1. /\ R0Save(fs) \in Nat /\ WordsPerFpr \in {1, 2} /\ CrWords(fs) \in {0, 1}
      /\ fs.gprs \in 0..18 /\ fs.fprs \in 0..18 /\ fs.volatiles \in BOOLEAN
  BY AreaSizes, FrameSizes, RequestTypes
<1>2. /\ w \in Int
      /\ \/ fs.volatiles /\ \E i \in 3..12 : w = volatiles + (i - 3)
         \/ fs.volatiles /\ w = volatiles + 10
         \/ fs.volatiles /\ \E i \in 0..13 : w - (volatiles + 11 + i * WordsPerFpr) \in 0..WordsPerFpr - 1
         \/ CrWords(fs) = 1 /\ w = crfs
         \/ \E i \in 32 - fs.gprs..31 : w = gprs + (i - (32 - fs.gprs))
         \/ \E i \in 32 - fs.fprs..31 : w - (fprs + index(i) * WordsPerFpr) \in 0..WordsPerFpr - 1
  BY WordsOfAreas DEF HasWord
<1>3. fs.volatiles
  <2>1. CASE CrWords(fs) = 1
    BY <1>1, <2>1, RequestTypes DEF SavesR0
  <2>2. CASE \E i \in 32 - fs.gprs..31 : w = gprs + (i - (32 - fs.gprs))
    BY <1>1, <2>2 DEF SavesR0
  <2>3. CASE \E i \in 32 - fs.fprs..31 : w - (fprs + index(i) * WordsPerFpr) \in 0..WordsPerFpr - 1
    BY <1>1, <2>3 DEF SavesR0
  <2> HIDE DEF volatiles, crfs, gprs, fprs, index
  <2> QED
    BY <1>2, <2>1, <2>2, <2>3
<1>4. doubles \in Nat
  BY <1>1
<1>5. UnalignedSize(fs) = R0Save(fs) + (12 + 14 * WordsPerFpr) + CrWords(fs) + fs.gprs + doubles
  BY <1>3, FrameSizes
<1>6. crfs = volatiles + (11 + 14 * WordsPerFpr) /\ gprs = crfs + CrWords(fs) /\ fprs = gprs + fs.gprs
  BY <1>3
<1>7. UnalignedSize(fs) = fprs + doubles /\ volatiles \in Int /\ R0Save(fs) = volatiles - 1
  <2> HIDE DEF doubles
  <2> QED
    BY <1>1, <1>4, <1>5, <1>6
<1> HIDE DEF volatiles, crfs, gprs, fprs
<1>8. CASE \E i \in 32 - fs.fprs..31 : w - (fprs + index(i) * WordsPerFpr) \in 0..WordsPerFpr - 1
  <2>1. PICK i \in 32 - fs.fprs..31 : w - (fprs + index(i) * WordsPerFpr) \in 0..WordsPerFpr - 1
    BY <1>8
  <2>2. index(i) \in 0..fs.fprs - 1
    BY <1>1, <2>1
  <2> HIDE DEF index
  <2>3. CASE WordsPerFpr = 1
    <3>1. w = fprs + index(i) /\ doubles = fs.fprs
      BY <1>1, <1>2, <1>6, <1>7, <2>1, <2>2, <2>3
    <3> QED
      BY <1>1, <1>6, <1>7, <2>2, <2>3, <3>1
  <2>4. CASE WordsPerFpr = 2
    <3>1. w - (fprs + index(i) * 2) \in 0..1 /\ doubles = fs.fprs * 2
      BY <2>1, <2>4
    <3> HIDE DEF doubles
    <3> QED
      BY <1>1, <1>2, <1>6, <1>7, <2>2, <2>4, <3>1
  <2> QED
    BY <1>1, <2>3, <2>4
<1> HIDE DEF doubles, index
<1>9. CASE \E i \in 0..13 : w - (volatiles + 11 + i * WordsPerFpr) \in 0..WordsPerFpr - 1
  <2>1. PICK i \in 0..13 : w - (volatiles + 11 + i * WordsPerFpr) \in 0..WordsPerFpr - 1
    BY <1>9
  <2>2. CASE WordsPerFpr = 1
    <3>1. w - (volatiles + 11 + i) = 0
      BY <2>1, <2>2
    <3> QED
      BY <1>1, <1>2, <1>4, <1>6, <1>7, <2>2, <3>1
  <2>3. CASE WordsPerFpr = 2
    <3>1. w - (volatiles + 11 + i * 2) \in 0..1
      BY <2>1, <2>3
    <3> QED
      BY <1>1, <1>2, <1>4, <1>6, <1>7, <2>3, <3>1
  <2> QED
    BY <1>1, <2>2, <2>3
<1> QED
  BY <1>1, <1>2, <1>4, <1>6, <1>7, <1>8, <1>9

\* No word is two registers'.
LEMMA OneRegister ==
  ASSUME ws \in {4, 8}, NEW fs \in Requests, NEW x \in Saved(fs), NEW y \in Saved(fs),
         NEW w, w \in SaveWords(fs, x), w \in SaveWords(fs, y)
  PROVE  x = y
<1>1. w \in Int /\ HasWord(fs, x, w) /\ HasWord(fs, y, w)
  BY WordsOfAreas
<1> QED
  BY <1>1, WordsApart

LEMMA SavedRegisters ==
  ASSUME NEW fs \in Requests
  PROVE  Saved(fs) \subseteq Registers
<1>1. fs.gprs \in 0..MaxSaved /\ fs.fprs \in 0..MaxSaved /\ MaxSaved \in 0..18
  BY RequestTypes
<1>2. Gprs(fs.gprs) \subseteq Gprs(MaxSaved)
  BY <1>1 DEF Gprs
<1>3. Fprs(fs.fprs) \subseteq Fprs(MaxSaved)
  BY <1>1 DEF Fprs
<1> QED
  BY <1>2, <1>3 DEF Saved, Registers

LEMMA WriteIs ==
  ASSUME NEW m, NEW cells
  PROVE  /\ DOMAIN Write(m, cells) = DOMAIN m
         /\ \A w \in DOMAIN m : Write(m, cells)[w] = IF w \in DOMAIN cells THEN cells[w] ELSE m[w]
BY DEF Write

LEMMA WriteAt ==
  ASSUME NEW m, NEW a, NEW v
  PROVE  /\ DOMAIN Write(m, At(a, v)) = DOMAIN m
         /\ \A w \in DOMAIN m : Write(m, At(a, v))[w] = IF w = a THEN v ELSE m[w]
BY DEF Write, At

\* What depends on the word size and on nothing else that changes.
LEMMA Primes ==
  ASSUME ws' = ws
  PROVE  /\ LinkAreaWords' = LinkAreaWords /\ MinParamWords' = MinParamWords
         /\ LrSaveOffset' = LrSaveOffset /\ Words' = Words /\ Registers' = Registers
         /\ R0Save(fields)' = R0Save(fields') /\ UnalignedSize(fields)' = UnalignedSize(fields')
         /\ Saved(fields)' = Saved(fields')
         /\ \A x : SaveOffset(fields, x)' = SaveOffset(fields', x)
<1>1. /\ LinkAreaWords' = LinkAreaWords /\ MinParamWords' = MinParamWords
      /\ LrSaveOffset' = LrSaveOffset /\ WordsPerFpr' = WordsPerFpr
      /\ Registers' = Registers
  BY DEF LinkAreaWords, MinParamWords, LrSaveOffset, WordsPerFpr, Registers, VolatileGprs,
         VolatileFprs, Gprs, Fprs, G, F, Cr, Ctr, Lr
<1>2. Words' = Words
  BY <1>1 DEF Words, Lowest
<1>3. CrWords(fields)' = CrWords(fields') /\ StartOfLocals(fields)' = StartOfLocals(fields')
  BY <1>1 DEF CrWords, StartOfLocals, Max0
<1>4. R0Save(fields)' = R0Save(fields') /\ UnalignedSize(fields)' = UnalignedSize(fields')
  BY <1>1, <1>3 DEF R0Save, UnalignedSize
<1>5. Saved(fields)' = Saved(fields')
  BY <1>3 DEF Saved, VolatileGprs, VolatileFprs, Gprs, Fprs, G, F, Cr, Ctr
<1>6. \A x : SaveOffset(fields, x)' = SaveOffset(fields', x)
  BY <1>1, <1>3, <1>4 DEF SaveOffset, VolatileGprs, VolatileFprs, Gprs, Fprs, G, F, Cr, Ctr
<1> QED
  BY <1>1, <1>2, <1>4, <1>5, <1>6

LEMMA PrologStarts == StackFrameInit => PrologInv
<1> SUFFICES ASSUME StackFrameInit PROVE PrologInv
  OBVIOUS
<1> USE DEF StackFrameInit
<1>1. ws \in {4, 8} /\ DOMAIN regs = Registers /\ DOMAIN stk = Words
  OBVIOUS
<1>2. fields \in Requests /\ SavesR0(fields)
  <2>1. 0 \in 0..MaxSaved
    BY FrameAssumption
  <2> QED
    BY <2>1 DEF Requests, SavesR0
<1>3. PrologTypes
  BY <1>1, <1>2 DEF PrologTypes
<1>4. GivenBelow
  BY DEF GivenBelow
<1>5. 0 \in Words
  BY <1>1, FrameAssumption, AreaSizes DEF Words, Lowest
<1>6. G(1) \in Registers
  BY DEF Registers
<1>7. /\ regs[G(1)] = 0
      /\ \A x \in Registers \ {G(1)} : regs[x] = Entry(x)
      /\ stk[BackChain] = "chain"
  BY <1>5, <1>6 DEF Entry, BackChain
<1>8. fields.params <= MaxParams + MinParamWords /\ fields.locals <= MaxLocals
  BY <1>1, FrameAssumption, AreaSizes
<1>9. Asked
  BY <1>7, <1>8 DEF Asked
<1>10. InItsWord /\ EpilogUndoesProlog
  BY DEF InItsWord, EpilogUndoesProlog
<1> QED
  BY <1>3, <1>4, <1>9, <1>10 DEF PrologInv

\* A call that only asks for something.
LEMMA RequestKeeps ==
  ASSUME PrologInv, Asking, UNCHANGED <<ws, phase, size, regs, stk>>,
         fields' \in Requests, SavesR0(fields'),
         fields'.params <= MaxParams + MinParamWords, fields'.locals <= MaxLocals,
         \A o \in given' : o \in LinkAreaWords..R0Save(fields') - 1
  PROVE  PrologInv'
<1>1. /\ ws' = ws /\ LinkAreaWords' = LinkAreaWords /\ MinParamWords' = MinParamWords
      /\ Words' = Words /\ Registers' = Registers /\ R0Save(fields)' = R0Save(fields')
  BY Primes
<1>2. SavesR0(fields)'
  BY DEF SavesR0
<1>3. PrologTypes'
  BY <1>1, <1>2 DEF PrologInv, PrologTypes, Requests
<1>4. GivenBelow'
  BY <1>1 DEF GivenBelow
<1>5. Asked'
  BY <1>1 DEF PrologInv, Asked, Asking, Entry, BackChain, G
<1>6. InItsWord' /\ EpilogUndoesProlog'
  BY DEF InItsWord, EpilogUndoesProlog, Asking
<1> QED
  BY <1>3, <1>4, <1>5, <1>6 DEF PrologInv

LEMMA GetParameterKeeps == PrologInv /\ GetParameter => PrologInv'
<1> SUFFICES ASSUME PrologInv, GetParameter PROVE PrologInv'
  OBVIOUS
<1> DEFINE fs == [fields EXCEPT !.params = fields.params + 1]
<1>1. /\ Asking /\ UNCHANGED <<ws, phase, size, regs, stk>> /\ fields.params < MaxParams
      /\ given' = given \cup {LinkAreaWords + fields.params} /\ fields.locals = 0
      /\ fields' = fs
  BY DEF GetParameter
<1>2. ws \in {4, 8} /\ fields \in Requests /\ SavesR0(fields)
  BY DEF PrologInv, PrologTypes
<1>3. fields.params \in Nat /\ fields.locals \in Nat
  BY <1>2, RequestTypes
<1>4. /\ fs \in Requests /\ fs.params = fields.params + 1 /\ fs.locals = fields.locals
      /\ SavesR0(fs)
  BY <1>2, <1>3 DEF Requests, SavesR0
<1>5. MinParamWords \in Nat /\ LinkAreaWords \in Nat /\ MaxParams \in Nat /\ MaxLocals \in Nat
  BY <1>2, AreaSizes, FrameAssumption
<1>6. /\ R0Save(fs) \in Nat /\ R0Save(fs) >= LinkAreaWords + fs.params
      /\ R0Save(fields) \in Nat
  <2> HIDE DEF fs
  <2>1. fs.params \in Nat /\ fs.locals \in Nat
    BY <1>4, RequestTypes
  <2> QED
    BY <1>2, <1>4, <1>5, <2>1, FrameSizes
<1>7. R0Save(fs) >= R0Save(fields)
  <2>1. Max0(fields.params + 1, MinParamWords) >= Max0(fields.params, MinParamWords)
        /\ Max0(fields.params + 1, MinParamWords) \in Int /\ Max0(fields.params, MinParamWords) \in Int
    BY <1>3, <1>5 DEF Max0
  <2>2. /\ R0Save(fs) = LinkAreaWords + Max0(fields.params + 1, MinParamWords) + fields.locals
        /\ R0Save(fields) = LinkAreaWords + Max0(fields.params, MinParamWords) + fields.locals
    BY <1>4 DEF R0Save, StartOfLocals
  <2> QED
    BY <1>3, <1>5, <2>1, <2>2
<1> HIDE DEF fs
<1>8. \A o \in given : o \in LinkAreaWords..R0Save(fields) - 1
  BY DEF PrologInv, GivenBelow
<1>9. \A o \in given' : o \in LinkAreaWords..R0Save(fs) - 1
  BY <1>1, <1>3, <1>4, <1>5, <1>6, <1>7, <1>8
<1>10. fs.params <= MaxParams + MinParamWords /\ fs.locals <= MaxLocals
  BY <1>1, <1>3, <1>4, <1>5
<1> QED
  BY <1>1, <1>4, <1>9, <1>10, RequestKeeps

LEMMA GetLocalVariableKeeps == PrologInv /\ GetLocalVariable => PrologInv'
<1> SUFFICES ASSUME PrologInv, GetLocalVariable PROVE PrologInv'
  OBVIOUS
<1> DEFINE params == Max0(fields.params, MinParamWords)
           fs == [fields EXCEPT !.params = params, !.locals = fields.locals + 1]
<1>1. /\ Asking /\ UNCHANGED <<ws, phase, size, regs, stk>> /\ fields.locals < MaxLocals
      /\ given' = given \cup {LinkAreaWords + params + fields.locals}
      /\ fields' = fs
  BY DEF GetLocalVariable
<1>2. ws \in {4, 8} /\ fields \in Requests /\ SavesR0(fields) /\ Asked
  BY DEF PrologInv, PrologTypes
<1>3. fields.params \in Nat /\ fields.locals \in Nat
  BY <1>2, RequestTypes
<1>4. MinParamWords \in Nat /\ LinkAreaWords \in Nat /\ MaxParams \in Nat /\ MaxLocals \in Nat
  BY <1>2, AreaSizes, FrameAssumption
<1>5. /\ params \in Nat /\ params <= MaxParams + MinParamWords
      /\ Max0(params, MinParamWords) = params
  BY <1>1, <1>2, <1>3, <1>4 DEF Max0, Asked, Asking
<1>6. R0Save(fields) = LinkAreaWords + params + fields.locals
  BY DEF R0Save, StartOfLocals
<1> HIDE DEF params
<1>7. /\ fs \in Requests /\ fs.params = params /\ fs.locals = fields.locals + 1
      /\ SavesR0(fs)
  <2>1. fields.locals + 1 \in Nat
    BY <1>3
  <2>2. /\ fs \in Requests /\ fs.params = params /\ fs.locals = fields.locals + 1
        /\ fs.crfs = fields.crfs /\ fs.gprs = fields.gprs /\ fs.fprs = fields.fprs
        /\ fs.volatiles = fields.volatiles
    BY <1>2, <1>5, <2>1 DEF Requests
  <2> QED
    BY <1>2, <2>2 DEF SavesR0
<1>8. R0Save(fs) = LinkAreaWords + params + (fields.locals + 1)
  BY <1>5, <1>7 DEF R0Save, StartOfLocals
<1> HIDE DEF fs
<1>9. \A o \in given : o \in LinkAreaWords..R0Save(fields) - 1
  BY DEF PrologInv, GivenBelow
<1>10. \A o \in given' : o \in LinkAreaWords..R0Save(fs) - 1
  BY <1>1, <1>3, <1>4, <1>5, <1>6, <1>8, <1>9
<1>11. fs.params <= MaxParams + MinParamWords /\ fs.locals <= MaxLocals
  BY <1>1, <1>3, <1>4, <1>5, <1>7
<1> QED
  BY <1>1, <1>7, <1>10, <1>11, RequestKeeps

\* The registers come after what was given.
LEMMA SaveRequestsKeep ==
  ASSUME ~SavesUnusedR0, PrologInv,
         GetCrField \/ GetRegister \/ GetFloatRegister \/ SetSaveVolatiles
  PROVE  PrologInv'
<1>1. /\ Asking /\ UNCHANGED <<ws, phase, size, regs, stk>> /\ given' = given
      /\ \/ fields.volatiles /\ fields' = [fields EXCEPT !.crfs = fields.crfs + 1]
         \/ /\ fields.volatiles /\ fields.gprs < MaxSaved
            /\ fields' = [fields EXCEPT !.gprs = fields.gprs + 1]
         \/ /\ fields.volatiles /\ fields.fprs < MaxSaved
            /\ fields' = [fields EXCEPT !.fprs = fields.fprs + 1]
         \/ fields' = [fields EXCEPT !.volatiles = TRUE]
  BY DEF GetCrField, GetRegister, GetFloatRegister, SetSaveVolatiles
<1>2. ws \in {4, 8} /\ fields \in Requests /\ SavesR0(fields) /\ Asked
  BY DEF PrologInv, PrologTypes
<1>3. /\ fields.crfs \in Nat /\ fields.gprs \in 0..MaxSaved /\ fields.fprs \in 0..MaxSaved
      /\ MaxSaved \in 0..18
  BY <1>2, RequestTypes
<1>4. fields' \in Requests /\ SavesR0(fields')
      /\ fields'.params = fields.params /\ fields'.locals = fields.locals
  <2>1. CASE fields.volatiles /\ fields' = [fields EXCEPT !.crfs = fields.crfs + 1]
    BY <1>2, <1>3, <2>1 DEF Requests, SavesR0
  <2>2. CASE /\ fields.volatiles /\ fields.gprs < MaxSaved
             /\ fields' = [fields EXCEPT !.gprs = fields.gprs + 1]
    BY <1>2, <1>3, <2>2 DEF Requests, SavesR0
  <2>3. CASE /\ fields.volatiles /\ fields.fprs < MaxSaved
             /\ fields' = [fields EXCEPT !.fprs = fields.fprs + 1]
    BY <1>2, <1>3, <2>3 DEF Requests, SavesR0
  <2>4. CASE fields' = [fields EXCEPT !.volatiles = TRUE]
    BY <1>2, <1>3, <2>4 DEF Requests, SavesR0
  <2> QED
    BY <1>1, <2>1, <2>2, <2>3, <2>4
<1>5. R0Save(fields') = R0Save(fields)
  BY <1>4 DEF R0Save, StartOfLocals
<1>6. \A o \in given' : o \in LinkAreaWords..R0Save(fields') - 1
  BY <1>1, <1>5 DEF PrologInv, GivenBelow
<1>7. fields'.params <= MaxParams + MinParamWords /\ fields'.locals <= MaxLocals
  BY <1>1, <1>2, <1>4 DEF Asked, Asking
<1> QED
  BY <1>1, <1>4, <1>6, <1>7, RequestKeeps

\* The frame is no larger than the stack below the caller's.
LEMMA FrameFits ==
  ASSUME ws \in {4, 8}, NEW fs \in Requests, SavesR0(fs),
         fs.params <= MaxParams + MinParamWords, fs.locals <= MaxLocals + 3
  PROVE  /\ R0Save(fs) \in Nat /\ UnalignedSize(fs) \in 0..-Lowest /\ Lowest \in Int
         /\ LrSaveOffset < R0Save(fs) /\ LrSaveOffset \in Nat \ {0}
         /\ ws = 8 => LrSaveOffset = 2
         /\ LrSaveOffset < LinkAreaWords
         /\ LinkAreaWords <= R0Save(fs) /\ R0Save(fs) <= UnalignedSize(fs)
         /\ fs.volatiles => R0Save(fs) < UnalignedSize(fs)
<1> DEFINE doubles == fs.fprs * WordsPerFpr
           volatiles == IF fs.volatiles THEN 12 + 14 * WordsPerFpr ELSE 0
<1>1. /\ fs.params \in Nat /\ fs.locals \in Nat /\ fs.gprs \in 0..MaxSaved /\ fs.fprs \in 0..MaxSaved
      /\ CrWords(fs) \in {0, 1} /\ MaxSaved \in 0..18 /\ MaxParams \in Nat /\ MaxLocals \in Nat
      /\ CrWords(fs) = 1 => ws = 4
  BY RequestTypes, FrameAssumption
<1>2. /\ WordsPerFpr \in {1, 2} /\ LinkAreaWords \in Nat /\ LrSaveOffset \in Nat \ {0}
      /\ LrSaveOffset < LinkAreaWords /\ MinParamWords \in Nat
  BY AreaSizes
<1>3. /\ ws = 4 => /\ LinkAreaWords = 2 /\ MinParamWords = 0 /\ volatiles <= 40
                   /\ doubles = fs.fprs * 2
      /\ ws = 8 => /\ LinkAreaWords = 6 /\ MinParamWords = 8 /\ volatiles <= 26
                   /\ doubles = fs.fprs
  <2>1. WordsPerFpr = 2 => doubles = fs.fprs * 2 /\ volatiles <= 40
    OBVIOUS
  <2>2. WordsPerFpr = 1 => doubles = fs.fprs /\ volatiles <= 26
    BY <1>1
  <2> HIDE DEF doubles, volatiles
  <2> QED
    BY <2>1, <2>2, AreaSizes
<1>4. volatiles \in Nat /\ doubles \in Nat /\ (fs.volatiles => volatiles > 0)
  BY <1>1, <1>2
<1>5. /\ StartOfLocals(fs) \in Nat /\ StartOfLocals(fs) >= LinkAreaWords
      /\ StartOfLocals(fs) <= LinkAreaWords + fs.params + MinParamWords
      /\ R0Save(fs) \in Nat /\ R0Save(fs) = StartOfLocals(fs) + fs.locals
      /\ UnalignedSize(fs) = R0Save(fs) + volatiles + CrWords(fs) + fs.gprs + doubles
  BY FrameSizes
<1> HIDE DEF doubles, volatiles
<1>6. Lowest \in Int /\ -Lowest = 58 + MaxParams + MaxLocals + 3 * MaxSaved
  BY <1>1 DEF Lowest
<1>7. UnalignedSize(fs) <= 58 + MaxParams + MaxLocals + 3 * MaxSaved
  <2>1. CASE ws = 4
    BY <1>1, <1>3, <1>4, <1>5, <2>1
  <2>2. CASE ws = 8
    BY <1>1, <1>3, <1>4, <1>5, <2>2
  <2> QED
    BY <2>1, <2>2
<1>8. /\ LinkAreaWords <= R0Save(fs) /\ R0Save(fs) <= UnalignedSize(fs)
      /\ fs.volatiles => R0Save(fs) < UnalignedSize(fs)
      /\ UnalignedSize(fs) \in Nat
  BY <1>1, <1>2, <1>4, <1>5
<1>9. LrSaveOffset < R0Save(fs) /\ (ws = 8 => LrSaveOffset = 2)
  BY <1>2, <1>5, <1>8, AreaSizes
<1> QED
  BY <1>2, <1>5, <1>6, <1>7, <1>8, <1>9

\* StoreAll writes a register to its words and leaves the others alone.
LEMMA StoreAllIs ==
  ASSUME ws \in {4, 8}, NEW fs \in Requests, SavesR0(fs), NEW m, NEW sp \in Int
  PROVE  /\ DOMAIN StoreAll(m, sp, fs) = DOMAIN m
         /\ \A w \in DOMAIN m :
              (\A o \in Int : R0Save(fs) < o /\ o < UnalignedSize(fs) => w # sp + o)
              => StoreAll(m, sp, fs)[w] = m[w]
         /\ \A x \in Saved(fs) :
              sp + SaveOffset(fs, x) \in DOMAIN m
              => StoreAll(m, sp, fs)[sp + SaveOffset(fs, x)] = regs[x]
<1> DEFINE Stored(w) == CHOOSE x \in Saved(fs) : w - sp \in SaveWords(fs, x)
           words == UNION {SaveWords(fs, x) : x \in Saved(fs)}
           cells == [w \in {sp + o : o \in words} |-> regs[Stored(w)]]
<1>1. StoreAll(m, sp, fs) = Write(m, cells)
  BY DEF StoreAll
<1>2. DOMAIN cells = {sp + o : o \in words}
  OBVIOUS
<1>3. \A o \in words : o \in Int /\ R0Save(fs) < o /\ o < UnalignedSize(fs)
  BY SaveBounds
<1>4. ASSUME NEW x \in Saved(fs)
      PROVE  sp + SaveOffset(fs, x) \in DOMAIN cells /\ cells[sp + SaveOffset(fs, x)] = regs[x]
  <2> DEFINE o == SaveOffset(fs, x)
  <2>1. o \in SaveWords(fs, x) /\ o \in words /\ o \in Int
    BY WordsOfAreas
  <2>2. sp + o \in DOMAIN cells /\ cells[sp + o] = regs[Stored(sp + o)]
    BY <2>1
  <2>3. (sp + o) - sp = o
    BY <2>1
  <2>4. \A y \in Saved(fs) : (sp + o) - sp \in SaveWords(fs, y) => y = x
    <3> HIDE DEF o
    <3> QED
      BY <2>1, <2>3, OneRegister
  <2>5. Stored(sp + o) = x
    <3> HIDE DEF o
    <3> QED
      BY <2>1, <2>3, <2>4
  <2> QED
    BY <2>2, <2>5
<1> HIDE DEF cells
<1>5. DOMAIN Write(m, cells) = DOMAIN m
      /\ \A w \in DOMAIN m : Write(m, cells)[w] = IF w \in DOMAIN cells THEN cells[w] ELSE m[w]
  BY WriteIs
<1>6. ASSUME NEW w \in DOMAIN m,
             \A o \in Int : R0Save(fs) < o /\ o < UnalignedSize(fs) => w # sp + o
      PROVE  Write(m, cells)[w] = m[w]
  <2>1. w \notin DOMAIN cells
    <3> HIDE DEF words
    <3> QED
      BY <1>2, <1>3, <1>6
  <2> QED
    BY <1>5, <2>1
<1>7. ASSUME NEW x \in Saved(fs), sp + SaveOffset(fs, x) \in DOMAIN m
      PROVE  Write(m, cells)[sp + SaveOffset(fs, x)] = regs[x]
  BY <1>4, <1>5, <1>7
<1> QED
  BY <1>1, <1>5, <1>6, <1>7

LEMMA PrologKeeps == PrologInv /\ Prolog => PrologInv'
<1> SUFFICES ASSUME PrologInv, Prolog PROVE PrologInv'
  OBVIOUS
<1> DEFINE fs == Aligned(fields)
           n == UnalignedSize(fs)
           sp == regs[G(1)] - n
           link == Write(Write(stk, At(sp, regs[G(1)])), At(regs[G(1)] + LrSaveOffset, regs[Lr]))
           r0 == IF fs.volatiles THEN Write(link, At(sp + R0Save(fs), regs[G(0)])) ELSE link
           saved == StoreAll(r0, sp, fs)
<1>1. /\ Asking /\ fields' = fs /\ size' = n /\ phase' = "done_prolog" /\ ws' = ws /\ given' = given
      /\ stk' = IF ws = 8 /\ fs.crfs > 0 THEN Write(saved, At(sp + CrSaveOffset, regs[Cr])) ELSE saved
      /\ regs' = [regs EXCEPT ![G(1)] = sp,
                              ![G(0)] = IF fs.volatiles THEN stk'[sp + R0Save(fs)]
                                        ELSE IF fs.crfs > 0 THEN regs[Cr] ELSE regs[Lr]]
  BY DEF Prolog
<1>2. /\ ws \in {4, 8} /\ fields \in Requests /\ SavesR0(fields) /\ DOMAIN regs = Registers
      /\ DOMAIN stk = Words
  BY DEF PrologInv, PrologTypes
<1>3. /\ fields.params <= MaxParams + MinParamWords /\ fields.locals <= MaxLocals
      /\ regs[G(1)] = 0 /\ \A x \in Registers \ {G(1)} : regs[x] = Entry(x)
      /\ stk[BackChain] = "chain"
  BY <1>1 DEF PrologInv, Asked, Asking
<1>4. /\ fs \in Requests /\ SavesR0(fs) /\ fs.params <= MaxParams + MinParamWords
      /\ fs.locals <= MaxLocals + 3 /\ fields.locals <= fs.locals
      /\ fs.params = fields.params /\ fields.locals \in Nat
  <2>1. fs \in Requests /\ fs.locals \in fields.locals..fields.locals + 3
        /\ fs.params = fields.params
    BY <1>2, AlignedIs
  <2>2. SavesR0(fs)
    BY <1>2, AlignedIs DEF SavesR0
  <2>3. fields.locals \in Nat /\ MaxLocals \in Nat
    BY <1>2, RequestTypes, FrameAssumption
  <2> HIDE DEF fs
  <2> QED
    BY <1>3, <2>1, <2>2, <2>3
<1> HIDE DEF fs
<1>5. /\ R0Save(fs) \in Nat /\ n \in 0..-Lowest /\ Lowest \in Int
      /\ LrSaveOffset < R0Save(fs) /\ LrSaveOffset \in Nat \ {0}
      /\ ws = 8 => LrSaveOffset = 2
      /\ LrSaveOffset < LinkAreaWords /\ LinkAreaWords <= R0Save(fs)
      /\ R0Save(fs) <= n
      /\ fs.volatiles => R0Save(fs) < n
  BY <1>2, <1>4, FrameFits
<1>6. R0Save(fields) <= R0Save(fs) /\ R0Save(fields) \in Nat /\ LinkAreaWords \in Nat
  <2>1. /\ R0Save(fs) = StartOfLocals(fs) + fs.locals
        /\ R0Save(fields) = StartOfLocals(fields) + fields.locals
        /\ StartOfLocals(fields) \in Nat /\ fs.locals \in Nat
    BY <1>2, <1>4, FrameSizes, RequestTypes
  <2>2. StartOfLocals(fs) = StartOfLocals(fields)
    BY <1>4 DEF StartOfLocals
  <2> QED
    BY <1>2, <1>4, <2>1, <2>2, AreaSizes
<1>7. G(0) # G(1) /\ G(0) \in Registers /\ G(1) \in Registers /\ Lr \in Registers /\ Cr \in Registers
      /\ Lr # G(1) /\ Cr # G(1)
  BY Names DEF Registers
<1> HIDE DEF n, r0, saved, link, sp
<1>8. sp = -n /\ sp \in Int
  BY <1>3, <1>5 DEF sp
<1>9. /\ DOMAIN link = Words
      /\ \A w \in Words : link[w] = IF w = LrSaveOffset THEN Entry(Lr)
                                    ELSE IF w = -n THEN 0 ELSE stk[w]
  <2> DEFINE chained == Write(stk, At(sp, regs[G(1)]))
  <2>1. DOMAIN chained = Words /\ \A w \in Words : chained[w] = IF w = sp THEN 0 ELSE stk[w]
    BY <1>2, <1>3, WriteAt
  <2>2. link = Write(chained, At(LrSaveOffset, Entry(Lr)))
    BY <1>3, <1>5, <1>7 DEF link
  <2> HIDE DEF chained
  <2>3. DOMAIN link = Words
        /\ \A w \in Words : link[w] = IF w = LrSaveOffset THEN Entry(Lr) ELSE chained[w]
    BY <2>1, <2>2, WriteAt
  <2> QED
    BY <1>8, <2>1, <2>3
<1>10. /\ DOMAIN r0 = Words
       /\ \A w \in Words : r0[w] = IF fs.volatiles /\ w = R0Save(fs) - n THEN Entry(G(0)) ELSE link[w]
  <2>1. CASE fs.volatiles
    <3>1. r0 = Write(link, At(R0Save(fs) - n, Entry(G(0))))
      <4>1. sp + R0Save(fs) = R0Save(fs) - n
        BY <1>5, <1>8
      <4> QED
        BY <1>3, <1>7, <2>1, <4>1 DEF r0
    <3> QED
      BY <1>9, <2>1, <3>1, WriteAt
  <2>2. CASE ~fs.volatiles
    BY <1>9, <2>2 DEF r0
  <2> QED
    BY <2>1, <2>2
<1>11. /\ DOMAIN saved = Words
       /\ \A w \in Words : w >= 0 \/ w <= R0Save(fs) - n => saved[w] = r0[w]
       /\ \A x \in Saved(fs) : SaveOffset(fs, x) - n \in Words
            => saved[SaveOffset(fs, x) - n] = regs[x]
  <2>1. /\ DOMAIN saved = DOMAIN r0
        /\ \A w \in DOMAIN r0 :
              (\A o \in Int : R0Save(fs) < o /\ o < UnalignedSize(fs) => w # sp + o)
              => saved[w] = r0[w]
        /\ \A x \in Saved(fs) :
              sp + SaveOffset(fs, x) \in DOMAIN r0 => saved[sp + SaveOffset(fs, x)] = regs[x]
    BY <1>2, <1>4, <1>8, StoreAllIs DEF saved
  <2>2. ASSUME NEW w \in Words, w >= 0 \/ w <= R0Save(fs) - n
        PROVE  saved[w] = r0[w]
    <3>1. w \in Int
      BY DEF Words
    <3>2. \A o \in Int : R0Save(fs) < o /\ o < UnalignedSize(fs) => w # sp + o
      BY <1>5, <1>8, <2>2, <3>1 DEF n
    <3> QED
      BY <1>10, <2>1, <3>2
  <2>3. \A x \in Saved(fs) : sp + SaveOffset(fs, x) = SaveOffset(fs, x) - n
    <3>1. \A x \in Saved(fs) : SaveOffset(fs, x) \in Int
      BY <1>2, <1>4, WordsOfAreas
    <3> QED
      BY <1>5, <1>8, <3>1
  <2> QED
    BY <1>10, <2>1, <2>2, <2>3
<1>12. /\ DOMAIN stk' = Words
       /\ \A w \in Words : stk'[w] = IF ws = 8 /\ fs.crfs > 0 /\ w = CrSaveOffset - n THEN Entry(Cr)
                                     ELSE saved[w]
  <2>1. CASE ws = 8 /\ fs.crfs > 0
    <3>1. stk' = Write(saved, At(CrSaveOffset - n, Entry(Cr)))
      <4>1. sp + CrSaveOffset = CrSaveOffset - n
        BY <1>5, <1>8 DEF CrSaveOffset
      <4> QED
        BY <1>1, <1>3, <1>7, <2>1, <4>1
    <3> QED
      BY <1>11, <2>1, <3>1, WriteAt
  <2>2. CASE ~(ws = 8 /\ fs.crfs > 0)
    BY <1>1, <1>11, <2>2
  <2> QED
    BY <2>1, <2>2
<1>13. /\ DOMAIN regs' = Registers /\ regs'[G(1)] = -n
       /\ \A x \in Registers \ {G(0), G(1)} : regs'[x] = Entry(x)
  BY <1>1, <1>2, <1>3, <1>7, <1>8
<1>14. \A o \in Int : 0 <= o /\ o < n => o - n \in Words
  BY <1>5 DEF Words
<1>15. 0 \in Words /\ LrSaveOffset \in Words
  BY <1>5 DEF Words
<1>16. CrSaveOffset = 1 /\ BackChain = 0 /\ (ws = 8 => CrSaveOffset < LrSaveOffset)
  BY <1>5 DEF CrSaveOffset, BackChain
<1>17. stk'[0] = "chain"
  <2>1. ws = 8 => 0 # CrSaveOffset - n
    BY <1>5, <1>16
  <2>2. 0 # LrSaveOffset /\ 0 # -n
    BY <1>5
  <2>3. link[0] = "chain"
    BY <1>3, <1>9, <1>15, <1>16, <2>2
  <2>4. fs.volatiles => 0 # R0Save(fs) - n
    BY <1>5
  <2>5. saved[0] = r0[0] /\ r0[0] = link[0]
    BY <1>10, <1>11, <1>15, <2>4
  <2> QED
    BY <1>12, <1>15, <2>1, <2>3, <2>5
<1>18. stk'[LrSaveOffset] = Entry(Lr)
  <2>1. r0[LrSaveOffset] = Entry(Lr)
    <3>1. fs.volatiles => LrSaveOffset # R0Save(fs) - n
      BY <1>5
    <3> QED
      BY <1>9, <1>10, <1>15, <3>1
  <2>2. saved[LrSaveOffset] = r0[LrSaveOffset]
    BY <1>5, <1>11, <1>15
  <2>3. CrSaveOffset - n # LrSaveOffset \/ ~(ws = 8 /\ fs.crfs > 0)
    BY <1>5, <1>16
  <2> QED
    BY <1>12, <1>15, <2>1, <2>2, <2>3
<1>19. fs.volatiles => stk'[R0Save(fs) - n] = Entry(G(0))
  <2> SUFFICES ASSUME fs.volatiles PROVE stk'[R0Save(fs) - n] = Entry(G(0))
    OBVIOUS
  <2>1. R0Save(fs) - n \in Words
    BY <1>5 DEF Words
  <2>2. saved[R0Save(fs) - n] = Entry(G(0))
    BY <1>5, <1>10, <1>11, <2>1
  <2>3. ws = 8 => CrSaveOffset - n # R0Save(fs) - n
    BY <1>5, <1>16
  <2> QED
    BY <1>12, <2>1, <2>2, <2>3
<1>20. ws = 8 /\ fs.crfs > 0 => stk'[CrSaveOffset - n] = Entry(Cr)
  <2>1. ws = 8 => CrSaveOffset - n \in Words
    BY <1>5, <1>16 DEF Words
  <2> QED
    BY <1>12, <2>1
<1>21. ASSUME NEW x \in Saved(fs)
       PROVE  stk'[SaveOffset(fs, x) - n] = Entry(x)
  <2>1. SaveOffset(fs, x) \in SaveWords(fs, x)
    BY <1>2, <1>4, WordsOfAreas
  <2>2. SaveOffset(fs, x) \in Int /\ R0Save(fs) < SaveOffset(fs, x) /\ SaveOffset(fs, x) < n
    BY <1>2, <1>4, <2>1, SaveBounds DEF n
  <2>3. SaveOffset(fs, x) - n \in Words
    BY <1>5, <1>14, <2>2
  <2>4. x \in Registers /\ x # G(1)
    <3>1. x # G(1)
      BY <1>4, RequestTypes, Names DEF Saved, VolatileGprs, VolatileFprs, Gprs, Fprs
    <3> QED
      BY <1>4, <3>1, SavedRegisters
  <2>5. saved[SaveOffset(fs, x) - n] = Entry(x)
    BY <1>3, <1>11, <2>3, <2>4
  <2>6. ws = 8 => CrSaveOffset - n # SaveOffset(fs, x) - n
    BY <1>5, <1>16, <2>2
  <2> QED
    BY <1>12, <2>3, <2>5, <2>6
<1>22. /\ LinkAreaWords' = LinkAreaWords /\ LrSaveOffset' = LrSaveOffset /\ Words' = Words
       /\ Registers' = Registers /\ R0Save(fields)' = R0Save(fs)
       /\ UnalignedSize(fields)' = n /\ Saved(fields)' = Saved(fs)
       /\ \A x : SaveOffset(fields, x)' = SaveOffset(fs, x)
  BY <1>1, Primes DEF n
<1>23. PrologTypes'
  <2>1. SavesR0(fields)'
    BY <1>1, <1>4 DEF SavesR0
  <2> QED
    BY <1>1, <1>2, <1>4, <1>12, <1>13, <1>22, <2>1 DEF PrologTypes, Requests
<1>24. GivenBelow'
  <2>1. \A o \in given : o \in LinkAreaWords..R0Save(fields) - 1
    BY DEF PrologInv, GivenBelow
  <2>2. \A o \in given : o \in LinkAreaWords..R0Save(fs) - 1
    BY <1>5, <1>6, <2>1
  <2> QED
    BY <1>1, <1>22, <2>2 DEF GivenBelow
<1>25. Asked' /\ EpilogUndoesProlog'
  BY <1>1 DEF Asked, EpilogUndoesProlog
<1>26. InItsWord'
  <2>1. /\ size' = UnalignedSize(fields)' /\ size' \in 0..-Lowest' /\ regs'[G(1)] = -size'
    BY <1>1, <1>5, <1>13, <1>22 DEF Lowest
  <2>2. /\ stk'[BackChain] = "chain" /\ stk'[LrSaveOffset'] = Entry(Lr)
        /\ fields'.volatiles => stk'[R0Save(fields)' - size'] = Entry(G(0))
        /\ ws' = 8 /\ fields'.crfs > 0 => stk'[CrSaveOffset - size'] = Entry(Cr)
    BY <1>1, <1>16, <1>17, <1>18, <1>19, <1>20, <1>22
  <2>3. \A x \in Saved(fields)' : stk'[SaveOffset(fields, x)' - size'] = Entry(x)
    BY <1>1, <1>21, <1>22
  <2>4. \A x \in Registers' \ {G(0), G(1)} : regs'[x] = Entry(x)
    BY <1>13, <1>22
  <2> QED
    BY <2>1, <2>2, <2>3, <2>4 DEF InItsWord, Entry, G, Lr, Cr, BackChain, CrSaveOffset
<1> QED
  BY <1>23, <1>24, <1>25, <1>26 DEF PrologInv

\* The code between writes below the saved registers, and the registers that
\* have their word.
LEMMA BodyKeeps == PrologInv /\ Body => PrologInv'
<1> SUFFICES ASSUME PrologInv, Body PROVE PrologInv'
  OBVIOUS
<1> DEFINE cells == [w \in {regs[G(1)] + o : o \in given \cup {LrSaveOffset}} |-> "body"]
<1>1. /\ phase = "done_prolog" /\ phase' = "body" /\ UNCHANGED <<ws, fields, given, size>>
      /\ regs' = [x \in Registers |-> IF x \in Changed THEN <<"body", x>> ELSE regs[x]]
      /\ stk' = Write(stk, cells)
  BY DEF Body
<1>2. /\ ws \in {4, 8} /\ fields \in Requests /\ SavesR0(fields) /\ DOMAIN regs = Registers
      /\ DOMAIN stk = Words
  BY DEF PrologInv, PrologTypes
<1>3. /\ size = UnalignedSize(fields) /\ size \in 0..-Lowest /\ regs[G(1)] = -size
      /\ stk[BackChain] = "chain" /\ stk[LrSaveOffset] = Entry(Lr)
      /\ fields.volatiles => stk[R0Save(fields) - size] = Entry(G(0))
      /\ ws = 8 /\ fields.crfs > 0 => stk[CrSaveOffset - size] = Entry(Cr)
      /\ \A x \in Saved(fields) : stk[SaveOffset(fields, x) - size] = Entry(x)
      /\ \A x \in Registers \ {G(0), G(1)} : x \in Changed \/ regs[x] = Entry(x)
  BY <1>1 DEF PrologInv, InItsWord
<1>4. /\ LinkAreaWords' = LinkAreaWords /\ LrSaveOffset' = LrSaveOffset /\ Words' = Words
      /\ Registers' = Registers /\ R0Save(fields)' = R0Save(fields)
      /\ UnalignedSize(fields)' = UnalignedSize(fields) /\ Saved(fields)' = Saved(fields)
      /\ \A x : SaveOffset(fields, x)' = SaveOffset(fields, x)
  BY <1>1, Primes
<1>5. Changed' = Changed
  BY <1>1 DEF Changed, VolatileGprs, VolatileFprs, Gprs, Fprs, G, F, Cr, Ctr, Lr
<1>6. G(1) \notin Changed /\ G(1) \in Registers
  <2>1. fields.gprs \in 0..18
    BY <1>2, RequestTypes
  <2> QED
    BY <2>1, Names DEF Changed, VolatileGprs, VolatileFprs, Gprs, Fprs, Registers
<1>7. /\ R0Save(fields) \in Nat /\ UnalignedSize(fields) \in Nat
      /\ LinkAreaWords \in Nat /\ LrSaveOffset \in Nat \ {0} /\ LrSaveOffset < LinkAreaWords
      /\ LinkAreaWords <= R0Save(fields) /\ R0Save(fields) <= size
      /\ (fields.volatiles => R0Save(fields) < size)
      /\ (ws = 8 => LrSaveOffset = 2) /\ CrSaveOffset = 1 /\ BackChain = 0
  <2> DEFINE doubles == fields.fprs * WordsPerFpr
             volatiles == IF fields.volatiles THEN 12 + 14 * WordsPerFpr ELSE 0
  <2>1. /\ R0Save(fields) \in Nat /\ UnalignedSize(fields) \in Nat
        /\ UnalignedSize(fields) = R0Save(fields) + volatiles + CrWords(fields) + fields.gprs + doubles
        /\ R0Save(fields) = StartOfLocals(fields) + fields.locals /\ StartOfLocals(fields) \in Nat
        /\ StartOfLocals(fields) >= LinkAreaWords
    BY <1>2, FrameSizes
  <2>2. WordsPerFpr \in {1, 2} /\ fields.gprs \in Nat /\ fields.fprs \in Nat /\ CrWords(fields) \in Nat
        /\ fields.locals \in Nat
    BY <1>2, AreaSizes, RequestTypes
  <2>3. volatiles \in Nat /\ doubles \in Nat /\ (fields.volatiles => volatiles > 0)
    BY <2>2
  <2> HIDE DEF volatiles, doubles
  <2> QED
    BY <1>2, <1>3, <2>1, <2>2, <2>3, AreaSizes
<1>8. DOMAIN cells = {o - size : o \in given \cup {LrSaveOffset}}
  <2>1. \A o \in given \cup {LrSaveOffset} : o \in Int
    BY <1>7 DEF PrologInv, GivenBelow
  <2>2. \A o \in given \cup {LrSaveOffset} : regs[G(1)] + o = o - size
    BY <1>3, <2>1
  <2> QED
    BY <2>2
<1> HIDE DEF cells
<1>9. \A o \in given \cup {LrSaveOffset} : o \in LrSaveOffset..R0Save(fields) - 1
  BY <1>7 DEF PrologInv, GivenBelow
<1>10. ASSUME NEW w \in Int, w \in Words,
              w >= 0 \/ w >= R0Save(fields) - size \/ (w = 1 - size /\ ws = 8)
       PROVE  stk'[w] = stk[w]
  <2>1. w \notin DOMAIN cells
    <3> SUFFICES ASSUME NEW o \in given \cup {LrSaveOffset}, w = o - size PROVE FALSE
      BY <1>8
    <3>1. o \in LrSaveOffset..R0Save(fields) - 1
      BY <1>9
    <3> QED
      BY <1>3, <1>7, <1>10, <3>1
  <2> QED
    BY <1>1, <1>2, <1>10, <2>1, WriteIs
<1>11. 0 \in Words /\ LrSaveOffset \in Words
  BY <1>3, <1>7, FrameAssumption DEF Words, Lowest
<1>12. PrologTypes'
  <2>1. SavesR0(fields)'
    BY <1>1, <1>2 DEF SavesR0
  <2>2. DOMAIN stk' = Words /\ DOMAIN regs' = Registers
    BY <1>1, <1>2, WriteIs
  <2> QED
    BY <1>1, <1>2, <1>4, <2>1, <2>2 DEF PrologTypes, Requests
<1>13. GivenBelow'
  BY <1>1, <1>4 DEF PrologInv, GivenBelow
<1>14. Asked' /\ EpilogUndoesProlog'
  BY <1>1 DEF Asked, EpilogUndoesProlog
<1>15. regs'[G(1)] = -size
  BY <1>1, <1>3, <1>6
<1>16. \A x \in Registers \ {G(0), G(1)} : x \in Changed \/ regs'[x] = Entry(x)
  BY <1>1, <1>3
<1>17. stk'[BackChain] = "chain" /\ stk'[LrSaveOffset] = Entry(Lr)
  <2>1. stk'[0] = stk[0]
    BY <1>3, <1>7, <1>10, <1>11
  <2>2. LrSaveOffset >= 0 /\ LrSaveOffset \in Int
    BY <1>7
  <2>3. stk'[LrSaveOffset] = stk[LrSaveOffset]
    BY <1>3, <1>7, <1>10, <1>11, <2>2
  <2> QED
    BY <1>3, <1>7, <2>1, <2>3
<1>18. fields.volatiles => stk'[R0Save(fields) - size] = Entry(G(0))
  <2> DEFINE w == R0Save(fields) - size
  <2>1. w \in Int /\ w >= R0Save(fields) - size /\ (fields.volatiles => w \in Words)
    BY <1>3, <1>7, FrameAssumption DEF Words, Lowest
  <2>2. fields.volatiles => stk'[w] = stk[w]
    <3> HIDE DEF w
    <3> QED
      BY <1>3, <1>7, <1>10, <2>1
  <2> QED
    BY <1>3, <2>2
<1>19. ws = 8 /\ fields.crfs > 0 => stk'[CrSaveOffset - size] = Entry(Cr)
  <2>1. ws = 8 => 1 - size \in Words
    BY <1>3, <1>7, FrameAssumption DEF Words, Lowest
  <2> QED
    BY <1>3, <1>7, <1>10, <2>1
<1>20. ASSUME NEW x \in Saved(fields)
       PROVE  stk'[SaveOffset(fields, x) - size] = Entry(x)
  <2> DEFINE w == SaveOffset(fields, x) - size
  <2>1. SaveOffset(fields, x) \in SaveWords(fields, x)
    BY <1>2, WordsOfAreas
  <2>2. /\ SaveOffset(fields, x) \in Int /\ R0Save(fields) < SaveOffset(fields, x)
        /\ SaveOffset(fields, x) < size
    BY <1>2, <1>3, <2>1, SaveBounds
  <2>3. w \in Int /\ w \in Words /\ w >= R0Save(fields) - size
    BY <1>3, <1>7, <2>2, FrameAssumption DEF Words, Lowest
  <2>4. stk'[w] = stk[w]
    <3> HIDE DEF w
    <3> QED
      BY <1>3, <1>7, <1>10, <2>3
  <2> QED
    BY <1>3, <2>4
<1>21. InItsWord'
  <2>1. /\ size' = UnalignedSize(fields)' /\ size' \in 0..-Lowest' /\ regs'[G(1)] = -size'
    BY <1>1, <1>3, <1>4, <1>15 DEF Lowest
  <2>2. /\ stk'[BackChain] = "chain" /\ stk'[LrSaveOffset'] = Entry(Lr)
        /\ fields'.volatiles => stk'[R0Save(fields)' - size'] = Entry(G(0))
        /\ ws' = 8 /\ fields'.crfs > 0 => stk'[CrSaveOffset - size'] = Entry(Cr)
    BY <1>1, <1>4, <1>17, <1>18, <1>19
  <2>3. \A x \in Saved(fields)' : stk'[SaveOffset(fields, x)' - size'] = Entry(x)
    BY <1>1, <1>4, <1>20
  <2>4. \A x \in Registers' \ {G(0), G(1)} : x \in Changed' \/ regs'[x] = Entry(x)
    BY <1>4, <1>5, <1>16
  <2> QED
    BY <2>1, <2>2, <2>3, <2>4 DEF InItsWord, Entry, G, Lr, Cr, BackChain, CrSaveOffset
<1> QED
  BY <1>12, <1>13, <1>14, <1>21 DEF PrologInv

\* What the code between changes is saved, or no caller relies on it.
LEMMA ChangedIsSaved ==
  ASSUME ws \in {4, 8}, fields \in Requests, NEW x \in Preserved \ {G(0), G(1), Lr},
         x \notin Saved(fields), ~(x = Cr /\ ws = 8 /\ fields.crfs > 0)
  PROVE  x \notin Changed
<1>1. /\ fields.gprs \in 0..18 /\ fields.fprs \in 0..18 /\ fields.crfs \in Nat
      /\ fields.volatiles \in BOOLEAN /\ MaxSaved \in 0..18
      /\ (CrWords(fields) = 1 <=> ws = 4 /\ fields.crfs > 0)
  BY RequestTypes
<1>2. CASE x = Cr
  <2>1. ~(fields.crfs > 0)
    BY <1>1, <1>2 DEF Saved
  <2> QED
    BY <1>2, <2>1, Names DEF Changed, VolatileGprs, VolatileFprs, Gprs, Fprs
<1>3. CASE x \in Gprs(MaxSaved)
  <2>1. PICK i \in 32 - MaxSaved..31 : x = G(i)
    BY <1>3 DEF Gprs
  <2>2. x \notin Gprs(fields.gprs)
    BY DEF Saved
  <2>3. i > 13
    BY <1>1, <2>1
  <2> QED
    BY <2>1, <2>2, <2>3, Names DEF Changed, VolatileGprs, VolatileFprs, Fprs
<1>4. CASE x \in Fprs(MaxSaved)
  <2>1. PICK i \in 32 - MaxSaved..31 : x = F(i)
    BY <1>4 DEF Fprs
  <2>2. x \notin Fprs(fields.fprs)
    BY DEF Saved
  <2>3. i > 13
    BY <1>1, <2>1
  <2> QED
    BY <2>1, <2>2, <2>3, Names DEF Changed, VolatileGprs, VolatileFprs, Gprs
<1>5. CASE fields.volatiles /\ x \in {Ctr} \cup VolatileGprs \cup VolatileFprs
  BY <1>5 DEF Saved
<1> QED
  BY <1>2, <1>3, <1>4, <1>5 DEF Preserved

LEMMA EpilogKeeps == PrologInv /\ Epilog => PrologInv'
<1> SUFFICES ASSUME PrologInv, Epilog PROVE PrologInv'
  OBVIOUS
<1> DEFINE sp == regs[G(1)]
           loaded == [x \in Saved(fields) |-> stk[RestoredFrom(x)]]
           cr == IF ws = 8 /\ fields.crfs > 0 THEN At(Cr, stk[sp + CrSaveOffset]) ELSE <<>>
           lr == stk[sp + size + LrSaveOffset]
           last == [x \in {G(0), G(1), Lr} |->
                          IF x = G(1) THEN sp + size
                          ELSE IF x = G(0) /\ fields.volatiles THEN stk[sp + R0Save(fields)] ELSE lr]
<1>1. /\ phase = "body" /\ phase' = "done_epilog" /\ UNCHANGED <<ws, fields, given, size, stk>>
      /\ regs' = Write(Write(Write(regs, loaded), cr), last)
  BY DEF Epilog
<1>2. /\ ws \in {4, 8} /\ fields \in Requests /\ SavesR0(fields) /\ DOMAIN regs = Registers
      /\ DOMAIN stk = Words
  BY DEF PrologInv, PrologTypes
<1>3. /\ size = UnalignedSize(fields) /\ size \in 0..-Lowest /\ regs[G(1)] = -size
      /\ stk[BackChain] = "chain" /\ stk[LrSaveOffset] = Entry(Lr)
      /\ fields.volatiles => stk[R0Save(fields) - size] = Entry(G(0))
      /\ ws = 8 /\ fields.crfs > 0 => stk[CrSaveOffset - size] = Entry(Cr)
      /\ \A x \in Saved(fields) : stk[SaveOffset(fields, x) - size] = Entry(x)
      /\ \A x \in Registers \ {G(0), G(1)} : x \in Changed \/ regs[x] = Entry(x)
  BY <1>1 DEF PrologInv, InItsWord
<1>4. /\ LinkAreaWords' = LinkAreaWords /\ Words' = Words /\ Registers' = Registers
      /\ R0Save(fields)' = R0Save(fields)
  BY <1>1, Primes
<1>5. /\ size \in Nat /\ LrSaveOffset \in Nat /\ R0Save(fields) \in Nat /\ CrSaveOffset = 1
      /\ BackChain = 0
  BY <1>2, <1>3, AreaSizes, FrameSizes
<1>6. ASSUME NEW x \in Saved(fields) PROVE loaded[x] = Entry(x)
  <2>1. SaveOffset(fields, x) \in Int
    BY <1>2, WordsOfAreas
  <2>2. RestoredFrom(x) = SaveOffset(fields, x) - size
    BY <1>3, <1>5, <2>1 DEF RestoredFrom
  <2>3. loaded[x] = stk[RestoredFrom(x)]
    OBVIOUS
  <2> QED
    BY <1>3, <2>2, <2>3
<1>7. DOMAIN loaded = Saved(fields)
  OBVIOUS
<1>8. /\ DOMAIN cr = IF ws = 8 /\ fields.crfs > 0 THEN {Cr} ELSE {}
      /\ ws = 8 /\ fields.crfs > 0 => cr[Cr] = Entry(Cr)
  <2>1. CASE ws = 8 /\ fields.crfs > 0
    <3>1. sp + CrSaveOffset = CrSaveOffset - size
      BY <1>3, <1>5
    <3> QED
      BY <1>3, <2>1, <3>1 DEF At
  <2>2. CASE ~(ws = 8 /\ fields.crfs > 0)
    <3>1. DOMAIN <<>> = {}
      OBVIOUS
    <3> QED
      BY <2>2, <3>1
  <2> QED
    BY <2>1, <2>2
<1>9. /\ DOMAIN last = {G(0), G(1), Lr} /\ last[G(1)] = 0 /\ last[Lr] = Entry(Lr)
      /\ fields.volatiles => last[G(0)] = Entry(G(0))
  <2>1. G(0) # G(1) /\ Lr # G(1) /\ Lr # G(0)
    BY Names
  <2>2. sp + size = 0 /\ sp + size + LrSaveOffset = LrSaveOffset
        /\ sp + R0Save(fields) = R0Save(fields) - size
    BY <1>3, <1>5
  <2>3. lr = Entry(Lr)
    BY <1>3, <2>2
  <2>4. DOMAIN last = {G(0), G(1), Lr} /\ last[G(1)] = sp + size /\ last[Lr] = lr
        /\ (fields.volatiles => last[G(0)] = stk[sp + R0Save(fields)])
    <3> HIDE DEF sp, lr
    <3> QED
      BY <2>1
  <2> HIDE DEF sp, lr, last
  <2> QED
    BY <1>3, <2>2, <2>3, <2>4
<1> HIDE DEF sp, loaded, cr, lr, last
<1>10. /\ DOMAIN regs' = Registers
       /\ \A x \in Registers :
            regs'[x] = IF x \in {G(0), G(1), Lr} THEN last[x]
                       ELSE IF x \in DOMAIN cr THEN cr[x]
                       ELSE IF x \in Saved(fields) THEN loaded[x] ELSE regs[x]
  <2> DEFINE first == Write(regs, loaded)
             second == Write(first, cr)
  <2>1. /\ DOMAIN first = Registers
        /\ \A x \in Registers : first[x] = IF x \in Saved(fields) THEN loaded[x] ELSE regs[x]
    BY <1>2, <1>7, WriteIs
  <2> HIDE DEF first
  <2>2. /\ DOMAIN second = Registers
        /\ \A x \in Registers : second[x] = IF x \in DOMAIN cr THEN cr[x] ELSE first[x]
    BY <2>1, WriteIs
  <2>3. regs' = Write(second, last)
    BY <1>1 DEF first
  <2> HIDE DEF second
  <2>4. /\ DOMAIN regs' = Registers
        /\ \A x \in Registers : regs'[x] = IF x \in {G(0), G(1), Lr} THEN last[x] ELSE second[x]
    BY <1>9, <2>2, <2>3, WriteIs
  <2> QED
    BY <2>1, <2>2, <2>4
<1>11. Preserved \subseteq Registers
  BY DEF Preserved, Registers
<1>12. ASSUME NEW x \in Preserved
       PROVE  regs'[x] = IF x = G(1) THEN 0 ELSE Entry(x)
  <2>1. CASE x = G(0)
    <3>1. fields.volatiles
      <4>1. MaxSaved \in 0..18
        BY FrameAssumption
      <4> QED
        BY <2>1, <4>1, Names DEF Preserved, Gprs, Fprs
    <3> QED
      BY <1>9, <1>10, <1>11, <2>1, <3>1, Names
  <2>2. CASE x \in {G(1), Lr}
    BY <1>9, <1>10, <1>11, <2>2, Names
  <2>3. CASE x \notin {G(0), G(1), Lr}
    <3>1. regs'[x] = IF x \in DOMAIN cr THEN cr[x]
                     ELSE IF x \in Saved(fields) THEN loaded[x] ELSE regs[x]
      BY <1>10, <1>11, <2>3
    <3>2. CASE x \in DOMAIN cr
      BY <1>8, <2>3, <3>1, <3>2
    <3>3. CASE x \notin DOMAIN cr /\ x \in Saved(fields)
      BY <1>6, <2>3, <3>1, <3>3
    <3>4. CASE x \notin DOMAIN cr /\ x \notin Saved(fields)
      <4>1. x \notin Changed
        BY <1>2, <1>8, <2>3, <3>4, ChangedIsSaved
      <4> QED
        BY <1>3, <1>11, <2>3, <3>1, <3>4, <4>1
    <3> QED
      BY <3>2, <3>3, <3>4
  <2> QED
    BY <2>1, <2>2, <2>3
<1>13. PrologTypes'
  <2>1. SavesR0(fields)'
    BY <1>1, <1>2 DEF SavesR0
  <2> QED
    BY <1>1, <1>2, <1>4, <1>10, <2>1 DEF PrologTypes, Requests
<1>14. GivenBelow'
  BY <1>1, <1>4 DEF PrologInv, GivenBelow
<1>15. Asked' /\ InItsWord'
  BY <1>1 DEF Asked, InItsWord
<1>16. EpilogUndoesProlog'
  <2>1. Preserved' = Preserved
    BY <1>1 DEF Preserved, VolatileGprs, VolatileFprs, Gprs, Fprs, G, F, Cr, Ctr, Lr
  <2>2. stk'[BackChain] = "chain"
    BY <1>1, <1>3
  <2>3. \A x \in Preserved' : regs'[x] = IF x = G(1) THEN 0 ELSE <<"entry", x>>
    BY <1>12, <2>1 DEF Entry
  <2> QED
    BY <2>2, <2>3 DEF EpilogUndoesProlog, BackChain, G
<1> QED
  BY <1>13, <1>14, <1>15, <1>16 DEF PrologInv

LEMMA PrologStutters == PrologInv /\ UNCHANGED sfVars => PrologInv'
<1> SUFFICES ASSUME PrologInv, UNCHANGED sfVars PROVE PrologInv'
  OBVIOUS
<1>1. UNCHANGED <<ws, fields, given, phase, size, regs, stk>>
  BY DEF sfVars
<1>2. /\ LinkAreaWords' = LinkAreaWords /\ LrSaveOffset' = LrSaveOffset /\ Words' = Words
      /\ Registers' = Registers /\ MinParamWords' = MinParamWords
      /\ R0Save(fields)' = R0Save(fields)
      /\ UnalignedSize(fields)' = UnalignedSize(fields) /\ Saved(fields)' = Saved(fields)
      /\ \A x : SaveOffset(fields, x)' = SaveOffset(fields, x)
  BY <1>1, Primes
<1>3. Changed' = Changed /\ Preserved' = Preserved
  BY <1>1 DEF Changed, Preserved, VolatileGprs, VolatileFprs, Gprs, Fprs, G, F, Cr, Ctr, Lr
<1>4. PrologTypes'
  <2>1. SavesR0(fields)'
    BY <1>1 DEF SavesR0, PrologInv, PrologTypes
  <2> QED
    BY <1>1, <1>2, <2>1 DEF PrologInv, PrologTypes, Requests
<1>5. GivenBelow' /\ Asked'
  BY <1>1, <1>2 DEF PrologInv, GivenBelow, Asked, Entry, BackChain, G
<1>6. InItsWord'
  BY <1>1, <1>2, <1>3 DEF PrologInv, InItsWord, Entry, G, Lr, Cr, BackChain, CrSaveOffset, Lowest
<1>7. EpilogUndoesProlog'
  BY <1>1, <1>3 DEF PrologInv, EpilogUndoesProlog, BackChain, G
<1> QED
  BY <1>4, <1>5, <1>6, <1>7 DEF PrologInv

\* A frame the code may ask for is undone by its epilog, for every number of
\* parameters, local variables and saved registers: the words that
\* generate_prolog stores the registers in are apart from each other, from the
\* words the code between writes and from the caller's, and generate_epilog
\* reads the same words (assembler_CPU.cpp:786-904).  A frame that saves
\* registers saves the volatile ones too, as all this code's frames do.
THEOREM EpilogRestores == ~SavesUnusedR0 => (StackFrameSpec => []EpilogUndoesProlog)
<1> SUFFICES ASSUME ~SavesUnusedR0 PROVE StackFrameSpec => []EpilogUndoesProlog
  OBVIOUS
<1>1. StackFrameInit => PrologInv
  BY PrologStarts
<1>2. PrologInv /\ [StackFrameNext]_sfVars => PrologInv'
  <2> SUFFICES ASSUME PrologInv, [StackFrameNext]_sfVars PROVE PrologInv'
    OBVIOUS
  <2>1. CASE GetParameter
    BY <2>1, GetParameterKeeps
  <2>2. CASE GetLocalVariable
    BY <2>2, GetLocalVariableKeeps
  <2>3. CASE GetCrField \/ GetRegister \/ GetFloatRegister \/ SetSaveVolatiles
    BY <2>3, SaveRequestsKeep
  <2>4. CASE Prolog
    BY <2>4, PrologKeeps
  <2>5. CASE Body
    BY <2>5, BodyKeeps
  <2>6. CASE Epilog
    BY <2>6, EpilogKeeps
  <2>7. CASE UNCHANGED sfVars
    BY <2>7, PrologStutters
  <2> QED
    BY <2>1, <2>2, <2>3, <2>4, <2>5, <2>6, <2>7 DEF StackFrameNext
<1>3. PrologInv => EpilogUndoesProlog
  BY DEF PrologInv
<1> QED
  BY <1>1, <1>2, <1>3, PTL DEF StackFrameSpec
=============================================================================
