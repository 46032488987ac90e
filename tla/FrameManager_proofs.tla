------------------------ MODULE FrameManager_proofs ------------------------
(***************************************************************************)
(* Theorems about FrameManager, for any methods, any depth of the stack    *)
(* and any number of operands: a return instruction of the generated code  *)
(* always finds the code and the registers it relies on, the walk from the *)
(* frame anchor finds the activations, and the calls nest as CallStack     *)
(* says.                                                                   *)
(***************************************************************************)
EXTENDS FrameManager, SequenceTheorems, WellFoundedInduction, TLAPS

(* What every frame has: only an activation has a method, only the bytecode *)
(* interpreter and the call stub have operands on their expression stack.   *)
IsFrame(f) ==
  /\ DOMAIN f = {"kind", "method", "lrSave", "prev", "locals", "top", "vals", "wrapped", "saved"}
  /\ f.kind \in {"C", "stub"} \cup MethodFrames
  /\ IF f.kind \in MethodFrames THEN f.method \in Methods ELSE f.method = NoMethod
  /\ f.kind \in {"C", "native"} => f.top = 0
  /\ f.vals \in Seq(Values) /\ f.top \in Nat /\ f.locals \in Nat

(* Code at address l, called with Rlocals = r, finds a frame of this kind.  *)
Lands(l, kind, r) == \/ l = "stub" /\ kind = "stub" /\ r = 0
                     \/ l = "manager" /\ kind = "interpreter"

(* The anchor a that code running above the i-th frame, of this kind, finds. *)
AnchorFor(kind, i, a) ==
  \/ kind = "C" /\ a.sp = 0
  \/ kind = "interpreter" /\ a = [sp |-> i, pc |-> "manager"]
  \/ kind = "native" /\ a = [sp |-> i, pc |-> "native"]

(* The callee's locals begin with its arguments, the caller's last operands. *)
Overlaps(locals, m, g) == locals + m.params = g.top

(* What a frame f keeps about the frame g below it, the n-th, with LR saved *)
(* as l: a call stub the registers and the anchor of its caller, a method   *)
(* either the state to resume (then nobody returns to l) or where its       *)
(* result goes.                                                             *)
LinkedTo(f, g, l, n) ==
  /\ g.top <= Len(g.vals)
  /\ \/ /\ f.kind = "stub" /\ g.kind \in {"C"} \cup MethodFrames
        /\ AnchorFor(g.kind, n, f.wrapped)
        /\ g.kind # "C" => f.saved[1] = g.method /\ f.saved[2] = g.locals
        /\ g.kind = "interpreter" => f.saved[3] = n
     \/ /\ f.kind \in MethodFrames /\ f.prev = 0
        /\ Lands(l, g.kind, f.locals) /\ Overlaps(f.locals, f.method, g)
     \/ /\ f.kind = "interpreter" /\ g.kind = "interpreter"
        /\ f.prev = n /\ n # 0 /\ l = "recursive" /\ Overlaps(f.locals, f.method, g)

FramesOf(s) == {s[i] : i \in DOMAIN s}
Chain(s) ==
  /\ s \in Seq(FramesOf(s)) /\ Len(s) # 0
  /\ s[1].kind = "C"
  /\ \A i \in 1..Len(s) : IsFrame(s[i])
  /\ \A i \in 1..Len(s) - 1 : LinkedTo(s[i + 1], s[i], s[i].lrSave, i)

(* What the registers hold at each place of the generated code.             *)
AtCode ==
  /\ TopFrame.kind \in {"C"} \cup MethodFrames
  /\ TopFrame.kind # "C" => rlocals = TopFrame.locals /\ rmethod = TopFrame.method
  /\ TopFrame.kind = "interpreter" => rstate = Depth
  /\ AnchorFor(TopFrame.kind, Depth, anchor)
  /\ TopFrame.top <= Len(TopFrame.vals)

Called ==
  /\ ~exc /\ Depth < MaxDepth
  /\ rmethod \in Methods /\ rlocals \in Nat
  /\ Overlaps(rlocals, rmethod, TopFrame) /\ TopFrame.top <= Len(TopFrame.vals)

AtReDispatch ==
  /\ Called
  /\ \/ rstate = 0 /\ Lands(lr, TopFrame.kind, rlocals)
     \/ rstate = Depth /\ TopFrame.kind = "interpreter" /\ lr = "recursive"

AtReturn ==
  /\ Lands(lr, TopFrame.kind, rlocals)
  /\ rmethod \in Methods /\ rlocals \in 0..Len(TopFrame.vals)
  /\ ~exc /\ rmethod.words # 0 => tosca \in Values

AtResume ==
  /\ rstate = Depth /\ TopFrame.kind = "interpreter"
  /\ rlocals \in 0..Len(TopFrame.vals)

Registers ==
  /\ pc = "code" => AtCode
  /\ pc = "entry" => Called /\ Lands(lr, TopFrame.kind, rlocals)
  /\ pc = "re_dispatch" => AtReDispatch
  /\ pc = "blr" => AtReturn
  /\ pc = "resume" => AtResume

(* A method was only called with a value to pass.                           *)
Bounded == Depth = 1 \/ (Depth <= MaxDepth /\ Values # {})

StackInv == pc \in PCs /\ Chain(stack) /\ Registers /\ Bounded

-----------------------------------------------------------------------------
(* The three ways the stack changes.                                        *)

LEMMA ElementsOf ==
  ASSUME NEW S, NEW s \in Seq(S)
  PROVE  s \in Seq(FramesOf(s)) /\ DOMAIN s = 1..Len(s) /\ Len(s) \in Nat
<1>1. DOMAIN s = 1..Len(s) /\ Len(s) \in Nat
  BY LenProperties
<1>2. \A i \in 1..Len(s) : s[i] \in FramesOf(s)
  BY <1>1 DEF FramesOf
<1>3. s = [i \in 1..Len(s) |-> s[i]]
  BY LenProperties
<1> HIDE DEF FramesOf
<1> QED BY <1>1, <1>2, <1>3

LEMMA ChainLength ==
  ASSUME NEW s, Chain(s)
  PROVE  Len(s) \in Nat \ {0} /\ DOMAIN s = 1..Len(s) /\ IsFrame(s[Len(s)])
<1>1. s \in Seq(FramesOf(s)) /\ Len(s) # 0 /\ \A i \in 1..Len(s) : IsFrame(s[i])
  BY DEF Chain
<1>2. Len(s) \in Nat /\ DOMAIN s = 1..Len(s)
  BY <1>1, ElementsOf
<1> QED BY <1>1, <1>2

(* The top frame changes, but for what the frames around it know of it.     *)
LEMMA SameLinks ==
  ASSUME NEW s, Chain(s), NEW U, NEW t \in Seq(U), Len(t) = Len(s),
         \A i \in 1..Len(s) - 1 : t[i] = s[i],
         IsFrame(t[Len(s)]),
         t[Len(s)].kind = s[Len(s)].kind, t[Len(s)].prev = s[Len(s)].prev,
         t[Len(s)].locals = s[Len(s)].locals, t[Len(s)].saved = s[Len(s)].saved,
         t[Len(s)].method = s[Len(s)].method, t[Len(s)].wrapped = s[Len(s)].wrapped
  PROVE  Chain(t)
<1>1. Len(s) \in Nat \ {0}
  BY ChainLength
<1>2. t \in Seq(FramesOf(t)) /\ Len(t) # 0
  BY <1>1, ElementsOf
<1>3. t[1].kind = "C" /\ \A i \in 1..Len(t) : IsFrame(t[i])
  BY <1>1 DEF Chain
<1>4. ASSUME NEW i \in 1..Len(t) - 1 PROVE LinkedTo(t[i + 1], t[i], t[i].lrSave, i)
  <2>1. LinkedTo(s[i + 1], s[i], s[i].lrSave, i) /\ t[i] = s[i]
    BY DEF Chain
  <2>2. CASE i + 1 = Len(s)
    BY <2>1, <2>2 DEF LinkedTo
  <2>3. CASE i + 1 # Len(s)
    <3>1. i + 1 \in 1..Len(s) - 1
      BY <1>1, <2>3
    <3> QED BY <2>1, <3>1
  <2> QED BY <2>2, <2>3
<1> QED BY <1>2, <1>3, <1>4 DEF Chain

LEMMA ReplaceTop ==
  ASSUME NEW s, Chain(s), NEW g
  PROVE  LET t == [s EXCEPT ![Len(s)] = g]
         IN  /\ t \in Seq(FramesOf(s) \cup {g}) /\ Len(t) = Len(s) /\ t[Len(s)] = g
             /\ \A i \in 1..Len(s) - 1 : t[i] = s[i]
<1>1. Len(s) \in 1..Len(s) /\ Len(s) \in Nat
  BY ChainLength
<1>2. s \in Seq(FramesOf(s) \cup {g}) /\ g \in FramesOf(s) \cup {g}
  BY SeqMonotonic, FramesOf(s) \subseteq FramesOf(s) \cup {g} DEF Chain
<1> HIDE DEF FramesOf
<1> QED BY <1>1, <1>2, ExceptSeq

LEMMA ChangeChain ==
  ASSUME NEW s, Chain(s), NEW g, IsFrame(g),
         g.kind = s[Len(s)].kind, g.prev = s[Len(s)].prev,
         g.locals = s[Len(s)].locals, g.saved = s[Len(s)].saved,
         g.method = s[Len(s)].method, g.wrapped = s[Len(s)].wrapped
  PROVE  LET t == [s EXCEPT ![Len(s)] = g]
         IN  Chain(t) /\ Len(t) = Len(s) /\ t[Len(s)] = g
<1> DEFINE t == [s EXCEPT ![Len(s)] = g]
<1>1. /\ t \in Seq(FramesOf(s) \cup {g}) /\ Len(t) = Len(s) /\ t[Len(s)] = g
      /\ \A i \in 1..Len(s) - 1 : t[i] = s[i]
  BY ReplaceTop
<1> HIDE DEF t
<1>2. Chain(t)
  BY <1>1, SameLinks
<1> QED BY <1>1, <1>2, Zenon DEF t

(* A frame is made: LR is saved in the one below.                           *)
LEMMA PushLinks ==
  ASSUME NEW s, Chain(s), NEW f, IsFrame(f),
         LinkedTo(f, s[Len(s)], s[Len(s)].lrSave, Len(s))
  PROVE  LET t == Append(s, f)
         IN  Chain(t) /\ Len(t) = Len(s) + 1 /\ t[Len(s) + 1] = f
<1> DEFINE t == Append(s, f)
<1>1. Len(s) \in Nat \ {0} /\ s \in Seq(FramesOf(s))
  BY ChainLength DEF Chain
<1>2. s \in Seq(FramesOf(s) \cup {f})
  BY <1>1, SeqMonotonic, FramesOf(s) \subseteq FramesOf(s) \cup {f}
<1>3. /\ t \in Seq(FramesOf(s) \cup {f}) /\ Len(t) = Len(s) + 1 /\ t[Len(s) + 1] = f
      /\ \A i \in 1..Len(s) : t[i] = s[i]
  BY <1>1, <1>2
<1> HIDE DEF t
<1>4. t \in Seq(FramesOf(t)) /\ Len(t) # 0
  BY <1>1, <1>3, ElementsOf
<1>5. t[1].kind = "C" /\ \A i \in 1..Len(t) : IsFrame(t[i])
  BY <1>1, <1>3 DEF Chain
<1>6. ASSUME NEW i \in 1..Len(s) PROVE LinkedTo(t[i + 1], t[i], t[i].lrSave, i)
  <2>1. CASE i = Len(s)
    BY <1>3, <2>1
  <2>2. CASE i # Len(s)
    <3>1. i \in 1..Len(s) - 1 /\ i + 1 \in 1..Len(s)
      BY <1>1, <2>2
    <3> QED BY <1>3, <3>1 DEF Chain
  <2> QED BY <2>1, <2>2
<1>7. Len(t) - 1 = Len(s)
  BY <1>1, <1>3
<1>8. Chain(t)
  BY <1>4, <1>5, <1>6, <1>7 DEF Chain
<1> QED BY <1>3, <1>8 DEF t

LEMMA PushChain ==
  ASSUME NEW s, Chain(s), NEW l, NEW f, IsFrame(f), LinkedTo(f, s[Len(s)], l, Len(s))
  PROVE  LET t == Append([s EXCEPT ![Len(s)].lrSave = l], f)
         IN  Chain(t) /\ Len(t) = Len(s) + 1 /\ t[Len(s) + 1] = f
<1> DEFINE g == [s[Len(s)] EXCEPT !.lrSave = l]
           u == [s EXCEPT ![Len(s)] = g]
<1>1. Len(s) \in Nat \ {0} /\ DOMAIN s = 1..Len(s) /\ IsFrame(s[Len(s)])
  BY ChainLength
<1>2. IsFrame(g) /\ g.kind = s[Len(s)].kind /\ g.prev = s[Len(s)].prev
        /\ g.locals = s[Len(s)].locals /\ g.saved = s[Len(s)].saved /\ g.lrSave = l
        /\ g.method = s[Len(s)].method /\ g.wrapped = s[Len(s)].wrapped
        /\ g.top = s[Len(s)].top /\ g.vals = s[Len(s)].vals
  BY <1>1 DEF IsFrame
<1>3. u = [s EXCEPT ![Len(s)].lrSave = l]
  OBVIOUS
<1> HIDE DEF g
<1>4. Chain(u) /\ Len(u) = Len(s) /\ u[Len(s)] = g
  BY <1>2, ChangeChain
<1> HIDE DEF u
<1>5. LinkedTo(f, g, l, Len(s))
  BY <1>2 DEF LinkedTo, Overlaps
<1>6. Chain(Append(u, f)) /\ Len(Append(u, f)) = Len(s) + 1 /\ Append(u, f)[Len(s) + 1] = f
  BY <1>2, <1>4, <1>5, PushLinks
<1> QED BY <1>3, <1>6

(* The top frame is removed.                                                *)
LEMMA PopChain ==
  ASSUME NEW s, Chain(s), s[Len(s)].kind # "C"
  PROVE  LET t == SubSeq(s, 1, Len(s) - 1)
         IN  /\ Chain(t) /\ Len(t) = Len(s) - 1 /\ t[Len(s) - 1] = s[Len(s) - 1]
             /\ Len(s) - 1 \in Nat \ {0}
             /\ LinkedTo(s[Len(s)], s[Len(s) - 1], s[Len(s) - 1].lrSave, Len(s) - 1)
<1> DEFINE t == SubSeq(s, 1, Len(s) - 1)
<1>1. Len(s) \in Nat \ {0, 1}
  BY ChainLength DEF Chain
<1>2. s \in Seq(FramesOf(s))
  BY DEF Chain
<1>3. \A i \in 1..Len(s) - 1 : s[i] \in FramesOf(s)
  BY <1>1, <1>2, ElementOfSeq
<1>4. t \in Seq(FramesOf(s)) /\ Len(t) = Len(s) - 1 /\ \A i \in 1..Len(s) - 1 : t[i] = s[i]
  <2> DEFINE n == Len(s) - 1
  <2>1. n \in Nat \ {0} /\ n - 1 + 1 = n /\ \A i \in 1..n : 1 + i - 1 = i
    BY <1>1
  <2>2. \A i \in 1..n : s[i] \in FramesOf(s)
    BY <1>3
  <2> HIDE DEF n, FramesOf
  <2>3. SubSeq(s, 1, n) \in Seq(FramesOf(s)) /\ Len(SubSeq(s, 1, n)) = n
          /\ \A i \in 1..n : SubSeq(s, 1, n)[i] = s[i]
    BY <2>1, <2>2, SubSeqProperties
  <2> QED BY <2>3 DEF n
<1> HIDE DEF t
<1>5. t \in Seq(FramesOf(t))
  BY <1>4, ElementsOf
<1>6. Chain(t)
  BY <1>1, <1>4, <1>5 DEF Chain
<1>7. LinkedTo(s[Len(s)], s[Len(s) - 1], s[Len(s) - 1].lrSave, Len(s) - 1)
  <2>1. \A n \in Nat \ {0, 1} : n - 1 \in 1..n - 1 /\ (n - 1) + 1 = n
    OBVIOUS
  <2>2. \A i \in 1..Len(s) - 1 : LinkedTo(s[i + 1], s[i], s[i].lrSave, i)
    BY DEF Chain
  <2>3. Len(s) - 1 \in 1..Len(s) - 1 /\ (Len(s) - 1) + 1 = Len(s)
    BY <1>1, <2>1, Zenon
  <2> QED BY <2>2, <2>3, Zenon
<1>8. t[Len(s) - 1] = s[Len(s) - 1] /\ Len(s) - 1 \in Nat \ {0}
  BY <1>1, <1>4
<1> QED BY <1>4, <1>6, <1>7, <1>8 DEF t

-----------------------------------------------------------------------------
(* The actions' ways to change the stack.                                   *)

(* g is f but for what its neighbours do not look at.                       *)
Kept(g, f) ==
  /\ IsFrame(g) /\ g.kind = f.kind /\ g.prev = f.prev /\ g.locals = f.locals
  /\ g.saved = f.saved /\ g.method = f.method /\ g.wrapped = f.wrapped

Copy(n, v) == [i \in 1..n |-> v]
OnTop(q, h, n, v) == SubSeq(q, 1, h) \o Copy(n, v)

LEMMA Copied ==
  ASSUME NEW S, NEW n \in Nat, NEW v, n # 0 => v \in S
  PROVE  [i \in 1..n |-> v] \in Seq(S) /\ Len([i \in 1..n |-> v]) = n
<1>1. CASE n = 0
  <2>1. [i \in 1..n |-> v] = <<>>
    BY <1>1
  <2> QED BY <1>1, <2>1
<1>2. CASE n # 0
  BY <1>2
<1> QED BY <1>1, <1>2

LEMMA Front ==
  ASSUME NEW S, NEW q \in Seq(S), NEW h \in 0..Len(q)
  PROVE  /\ SubSeq(q, 1, h) \in Seq(S) /\ Len(SubSeq(q, 1, h)) = h
         /\ \A i \in 1..h : SubSeq(q, 1, h)[i] = q[i]
         /\ h = Len(q) => SubSeq(q, 1, h) = q
<1>1. Len(q) \in Nat /\ \A i \in 1..h : q[i] \in S
  BY ElementOfSeq
<1>2. SubSeq(q, 1, h) \in Seq(S) /\ Len(SubSeq(q, 1, h)) = h
        /\ \A i \in 1..h : SubSeq(q, 1, h)[i] = q[i]
  BY <1>1, SubSeqProperties
<1>3. ASSUME h = Len(q) PROVE SubSeq(q, 1, h) = q
  BY <1>2, <1>3, SeqEqual
<1> QED BY <1>2, <1>3

(* A result of n words above height h.                                      *)
LEMMA Results ==
  ASSUME NEW S, NEW q \in Seq(S), NEW h \in 0..Len(q), NEW n \in Nat, NEW v, n # 0 => v \in S
  PROVE  OnTop(q, h, n, v) \in Seq(S) /\ Len(OnTop(q, h, n, v)) = h + n
<1>1. SubSeq(q, 1, h) \in Seq(S) /\ Len(SubSeq(q, 1, h)) = h
  BY Front
<1>2. Copy(n, v) \in Seq(S) /\ Len(Copy(n, v)) = n
  BY Copied DEF Copy
<1> QED BY <1>1, <1>2, ConcatProperties DEF OnTop

LEMMA KeepsTop ==
  ASSUME NEW f, IsFrame(f), f.kind \notin {"C", "native"}, NEW n \in 0..Len(f.vals)
  PROVE  /\ Kept(SetTop(f, n), f)
         /\ SetTop(f, n).top = n /\ SetTop(f, n).vals = SubSeq(f.vals, 1, n)
         /\ Len(SetTop(f, n).vals) = n
<1> DEFINE q == SubSeq(f.vals, 1, n)
           g == [f EXCEPT !.top = n, !.vals = q]
<1>1. q \in Seq(Values) /\ Len(q) = n /\ n \in Nat
  BY Front DEF IsFrame
<1>2. SetTop(f, n) = g
  BY DEF SetTop, IsFrame
<1> HIDE DEF q
<1>3. Kept(g, f) /\ g.top = n /\ g.vals = q
  BY <1>1 DEF Kept, IsFrame
<1> QED BY <1>1, <1>2, <1>3 DEF q

LEMMA KeepsResult ==
  ASSUME NEW f, IsFrame(f), NEW h \in 0..Len(f.vals), NEW n \in Nat, NEW v, n # 0 => v \in Values
  PROVE  /\ Kept(Put(f, h, v, n), f)
         /\ Put(f, h, v, n).vals = OnTop(f.vals, h, n, v)
         /\ Len(Put(f, h, v, n).vals) = h + n
<1> DEFINE r == OnTop(f.vals, h, n, v)
           g == [f EXCEPT !.vals = r]
<1>1. r \in Seq(Values) /\ Len(r) = h + n
  <2>1. f.vals \in Seq(Values) /\ h \in 0..Len(f.vals) /\ n \in Nat /\ (n # 0 => v \in Values)
    BY DEF IsFrame
  <2> HIDE DEF r
  <2>2. OnTop(f.vals, h, n, v) \in Seq(Values)
    BY <2>1, Results
  <2>3. Len(OnTop(f.vals, h, n, v)) = h + n
    BY <2>1, Results
  <2> QED BY <2>2, <2>3, Zenon DEF r
<1>2. Put(f, h, v, n) = g
  BY DEF Put, IsFrame, Copy, OnTop
<1> HIDE DEF r
<1>3. Kept(g, f) /\ g.vals = r
  BY <1>1 DEF Kept, IsFrame
<1> QED BY <1>1, <1>2, <1>3 DEF r

LEMMA KeepsItself ==
  ASSUME NEW f, IsFrame(f)
  PROVE  Kept(f, f)
BY DEF Kept, IsFrame

LEMMA KeptTwice == \A f, g, h : Kept(g, f) /\ Kept(h, g) => Kept(h, f)
BY DEF Kept

StubFrame(v, n, a, saved) ==
  [Put(Frame("stub"), 0, v, n) EXCEPT !.top = n, !.wrapped = a, !.saved = saved]
Activation(kind, m, prev, locals) ==
  [Frame(kind) EXCEPT !.method = m, !.prev = prev, !.locals = locals]

LEMMA NewStub ==
  ASSUME NEW v \in Values, NEW n \in Nat, NEW a, NEW saved, NEW f, f = StubFrame(v, n, a, saved)
  PROVE  /\ IsFrame(f) /\ f.kind = "stub" /\ f.saved = saved /\ f.wrapped = a
         /\ f.top = n /\ f.vals = Copy(n, v) /\ Len(f.vals) = n
<1> DEFINE q == [i \in 1..n |-> v]
<1>1. q \in Seq(Values) /\ Len(q) = n
  BY Copied
<1>2. SubSeq(<<>>, 1, 0) = <<>>
  BY SubSeqEmpty
<1>3. SubSeq(<<>>, 1, 0) \o q = q
  BY <1>1, <1>2, ConcatEmptySeq
<1> HIDE DEF q
<1>4. Put(Frame("stub"), 0, v, n) = [Frame("stub") EXCEPT !.vals = q]
  BY <1>3 DEF Put, Frame, q
<1>5. f = [Frame("stub") EXCEPT !.vals = q, !.top = n, !.wrapped = a, !.saved = saved]
  BY <1>4, Zenon DEF StubFrame
<1>6. /\ IsFrame(f) /\ f.kind = "stub" /\ f.saved = saved /\ f.wrapped = a
      /\ f.top = n /\ f.vals = q
  BY <1>1, <1>5 DEF Frame, IsFrame, MethodFrames
<1> QED BY <1>1, <1>6, Zenon DEF q, Copy

LEMMA NewActivation ==
  ASSUME NEW kind \in MethodFrames, NEW m \in Methods, NEW prev, NEW locals \in Nat
  PROVE  LET f == Activation(kind, m, prev, locals)
         IN  /\ IsFrame(f) /\ f.kind = kind /\ f.prev = prev /\ f.locals = locals
             /\ f.method = m /\ f.top = 0 /\ f.vals = <<>>
BY DEF Activation, Frame, IsFrame, MethodFrames

LEMMA Changes ==
  ASSUME Chain(stack), NEW g, Kept(g, TopFrame), stack' = [stack EXCEPT ![Depth] = g]
  PROVE  Chain(stack') /\ Depth' = Depth /\ TopFrame' = g
<1>1. LET t == [stack EXCEPT ![Depth] = g]
      IN  Chain(t) /\ Len(t) = Depth /\ t[Depth] = g
  BY ChangeChain DEF Kept, TopFrame, Depth
<1>2. Chain(stack') /\ Len(stack') = Depth /\ stack'[Depth] = g
  BY <1>1, Zenon
<1> QED BY <1>2, Zenon DEF TopFrame, Depth

LEMMA Pushes ==
  ASSUME Chain(stack), NEW l, NEW f, IsFrame(f), LinkedTo(f, TopFrame, l, Depth),
         stack' = Append([stack EXCEPT ![Depth].lrSave = l], f)
  PROVE  Chain(stack') /\ Depth' = Depth + 1 /\ TopFrame' = f
<1>1. LET t == Append([stack EXCEPT ![Depth].lrSave = l], f)
      IN  Chain(t) /\ Len(t) = Depth + 1 /\ t[Depth + 1] = f
  BY PushChain DEF TopFrame, Depth
<1>2. Chain(stack') /\ Len(stack') = Depth + 1 /\ stack'[Depth + 1] = f
  BY <1>1, Zenon
<1> QED BY <1>2, Zenon DEF TopFrame, Depth

LEMMA Pops ==
  ASSUME Chain(stack), TopFrame.kind # "C", stack' = SubSeq(stack, 1, Depth - 1)
  PROVE  /\ Chain(stack') /\ Depth' = Depth - 1 /\ TopFrame' = stack[Depth - 1]
         /\ LinkedTo(TopFrame, TopFrame', stack[Depth - 1].lrSave, Depth')
         /\ Depth - 1 \in Nat \ {0}
<1>1. LET t == SubSeq(stack, 1, Depth - 1)
      IN  /\ Chain(t) /\ Len(t) = Depth - 1 /\ t[Depth - 1] = stack[Depth - 1]
          /\ LinkedTo(TopFrame, stack[Depth - 1], stack[Depth - 1].lrSave, Depth - 1)
          /\ Depth - 1 \in Nat \ {0}
  BY PopChain DEF TopFrame, Depth
<1>2. /\ Chain(stack') /\ Len(stack') = Depth - 1 /\ stack'[Depth - 1] = stack[Depth - 1]
      /\ LinkedTo(TopFrame, stack[Depth - 1], stack[Depth - 1].lrSave, Depth - 1)
      /\ Depth - 1 \in Nat \ {0}
  BY <1>1, Zenon
<1> QED BY <1>2, Zenon DEF TopFrame, Depth

LEMMA PushTop ==
  ASSUME Chain(stack), NEW l, NEW f, stack' = Append([stack EXCEPT ![Depth].lrSave = l], f)
  PROVE  Depth' = Depth + 1 /\ TopFrame' = f
<1> DEFINE g == [stack[Len(stack)] EXCEPT !.lrSave = l]
           u == [stack EXCEPT ![Len(stack)] = g]
<1>1. u \in Seq(FramesOf(stack) \cup {g}) /\ Len(u) = Len(stack)
  BY ReplaceTop
<1>2. stack' = Append(u, f)
  BY DEF Depth
<1>3. Len(stack) \in Nat
  BY ChainLength
<1> HIDE DEF u, g
<1>4. Len(stack') = Len(stack) + 1 /\ stack'[Len(stack) + 1] = f
  BY <1>1, <1>2, <1>3
<1> QED BY <1>4, Zenon DEF Depth, TopFrame

LEMMA PopPut ==
  ASSUME Chain(stack), TopFrame.kind # "C", NEW g,
         stack' = [SubSeq(stack, 1, Depth - 1) EXCEPT ![Depth - 1] = g]
  PROVE  Depth' = Depth - 1 /\ TopFrame' = g
<1> DEFINE below == SubSeq(stack, 1, Depth - 1)
<1>1. Chain(below) /\ Len(below) = Depth - 1
  BY PopChain DEF TopFrame, Depth
<1> HIDE DEF below
<1>2. LET t == [below EXCEPT ![Len(below)] = g] IN Len(t) = Len(below) /\ t[Len(below)] = g
  BY <1>1, ReplaceTop
<1>3. stack' = [below EXCEPT ![Depth - 1] = g]
  BY DEF below
<1>4. Len(stack') = Depth - 1 /\ stack'[Depth - 1] = g
  BY <1>1, <1>2, <1>3, Zenon
<1> QED BY <1>4, Zenon DEF Depth, TopFrame

LEMMA TopIsFrame == Chain(stack) => IsFrame(TopFrame) /\ Depth \in Nat \ {0}
BY ChainLength DEF TopFrame, Depth

LEMMA MethodIs == \A m \in Methods : m.params \in Nat /\ m.words \in 0..2 /\ m.kind \in Kinds
BY MethodsAssumption

(* C++ code runs on with the same frames, whatever they hold.               *)
LEMMA Inert ==
  ASSUME StackInv, pc' = "code", pc = "code", rlocals' = rlocals, rmethod' = rmethod,
         rstate' = rstate, anchor' = anchor, Chain(stack'), Depth' = Depth,
         Kept(TopFrame', TopFrame), TopFrame'.top <= Len(TopFrame'.vals)
  PROVE  StackInv'
<1>1. /\ TopFrame'.kind = TopFrame.kind /\ TopFrame'.locals = TopFrame.locals
      /\ TopFrame'.method = TopFrame.method
  BY DEF Kept
<1>2. AtCode'
  BY <1>1 DEF AtCode, Registers, StackInv, AnchorFor
<1> QED BY <1>2 DEF StackInv, PCs, Registers, Bounded

-----------------------------------------------------------------------------
LEMMA StackStub == ASSUME StackInv, CallStub \/ StubReturns PROVE StackInv'
<1> USE DEF StackInv
<1>1. CASE CallStub
  <2>1. PICK m \in Methods, v \in Values :
          /\ stack' = Append([stack EXCEPT ![Depth].lrSave = anchor.pc],
                             StubFrame(v, m.params, anchor, <<rmethod, rlocals, rstate>>))
          /\ rmethod' = m
    BY <1>1, Zenon DEF CallStub, StubFrame
  <2> DEFINE f == StubFrame(v, m.params, anchor, <<rmethod, rlocals, rstate>>)
  <2>b. m.params \in Nat /\ f = StubFrame(v, m.params, anchor, <<rmethod, rlocals, rstate>>)
    BY MethodIs
  <2> HIDE DEF f
  <2>a. /\ IsFrame(f) /\ f.kind = "stub" /\ f.saved = <<rmethod, rlocals, rstate>>
        /\ f.wrapped = anchor /\ f.top = m.params /\ Len(f.vals) = m.params
    BY <2>b, NewStub
  <2>2. stack' = Append([stack EXCEPT ![Depth].lrSave = anchor.pc], f)
    BY <2>1, Zenon DEF f
  <2>3. pc = "code" /\ ~exc /\ exc' = exc /\ Depth + 1 < MaxDepth
    BY <1>1, Zenon DEF CallStub
  <2>4. LinkedTo(f, TopFrame, anchor.pc, Depth)
    <3>2. f.saved[1] = rmethod /\ f.saved[2] = rlocals /\ f.saved[3] = rstate
      BY <2>a
    <3> QED BY <2>a, <2>3, <3>2 DEF LinkedTo, Registers, AtCode
  <2>5. Chain(stack') /\ TopFrame' = f /\ Depth' = Depth + 1
    BY <2>a, <2>2, <2>4, Pushes
  <2>6. pc' = "entry" /\ lr' = "stub" /\ rlocals' = 0
    BY <1>1, Zenon DEF CallStub
  <2>7. Depth \in Nat /\ m.params \in Nat /\ MaxDepth \in Nat
    BY TopIsFrame, MethodIs, BoundAssumption
  <2>8. Overlaps(0, m, f)
    BY <2>a, <2>7 DEF Overlaps
  <2>9. Called'
    BY <2>a, <2>1, <2>3, <2>5, <2>6, <2>7, <2>8 DEF Called
  <2>10. Registers' /\ Bounded'
    BY <2>a, <2>3, <2>5, <2>6, <2>7, <2>9 DEF Registers, Lands, Bounded
  <2> QED BY <2>5, <2>6, <2>10 DEF PCs
<1>2. CASE StubReturns
  <2>1. TopFrame.kind = "stub"
    BY <1>2 DEF StubReturns, Registers, AtReturn, Lands
  <2>2. /\ Chain(stack') /\ LinkedTo(TopFrame, TopFrame', stack[Depth - 1].lrSave, Depth')
        /\ Depth' = Depth - 1 /\ Depth - 1 \in Nat \ {0}
    BY <1>2, <2>1, Pops DEF StubReturns
  <2>3. /\ pc' = "code" /\ rmethod' = TopFrame.saved[1] /\ rlocals' = TopFrame.saved[2]
        /\ rstate' = TopFrame.saved[3] /\ anchor' = TopFrame.wrapped
    BY <1>2 DEF StubReturns
  <2>4. AtCode'
    BY <2>1, <2>2, <2>3 DEF AtCode, LinkedTo, AnchorFor, MethodFrames
  <2>5. Bounded'
    BY <2>2, TopIsFrame, BoundAssumption DEF Bounded
  <2> QED BY <2>2, <2>3, <2>4, <2>5 DEF PCs, Registers
<1> QED BY <1>1, <1>2

LEMMA StackEntry ==
  ASSUME StackInv, EnterNormal \/ EnterFast \/ EnterNative \/ ReDispatch PROVE StackInv'
<1> USE DEF StackInv
<1>1. CASE EnterNormal \/ EnterFast
  <2>1. /\ stack' = stack /\ lr' = lr /\ rlocals' = rlocals /\ pc = "entry"
        /\ exc' = exc /\ rmethod' = rmethod
    BY <1>1 DEF EnterNormal, EnterFast, SlowPath
  <2>2. \/ pc' = "re_dispatch" /\ rstate' = 0
        \/ pc' = "blr" /\ tosca' \in IF rmethod.words = 0 THEN {NoValue} ELSE Values
    BY <1>1 DEF EnterNormal, EnterFast, SlowPath
  <2>3. Depth' = Depth /\ TopFrame' = TopFrame
    BY <2>1 DEF Depth, TopFrame
  <2>4. Called /\ Lands(lr, TopFrame.kind, rlocals)
    BY <2>1 DEF Registers
  <2>5. Called'
    BY <2>1, <2>3, <2>4 DEF Called, Overlaps
  <2>6. CASE pc' = "re_dispatch"
    BY <2>1, <2>2, <2>3, <2>4, <2>5, <2>6 DEF Registers, AtReDispatch, Bounded, PCs
  <2>7. CASE pc' = "blr"
    <3>1. rlocals \in 0..Len(TopFrame.vals)
      BY <2>4, TopIsFrame, MethodIs DEF Called, Overlaps, IsFrame
    <3>2. AtReturn'
      BY <2>1, <2>2, <2>3, <2>4, <2>7, <3>1 DEF AtReturn, Called
    <3> QED BY <2>1, <2>3, <2>7, <3>2 DEF Registers, Bounded, PCs
  <2> QED BY <2>2, <2>6, <2>7
<1>2. ASSUME NEW kind \in MethodFrames, NEW prev, NewState(kind, prev), Called,
             pc' = "code", rlocals' = rlocals, rmethod' = rmethod,
             AnchorFor(kind, Depth + 1, anchor') \/ AnchorFor(kind, Depth', anchor'),
             \/ prev = 0 /\ Lands(lr, TopFrame.kind, rlocals)
             \/ prev = Depth /\ kind = "interpreter" /\ TopFrame.kind = "interpreter"
                             /\ lr = "recursive"
      PROVE  StackInv'
  <2>1. /\ stack' = Append([stack EXCEPT ![Depth].lrSave = lr], Activation(kind, rmethod, prev, rlocals))
        /\ rstate' = Depth + 1
    BY <1>2, Zenon DEF NewState, Activation
  <2> DEFINE f == Activation(kind, rmethod, prev, rlocals)
  <2>a. /\ IsFrame(f) /\ f.kind = kind /\ f.prev = prev /\ f.locals = rlocals
        /\ f.method = rmethod /\ f.top = 0 /\ f.vals = <<>>
    BY <1>2, NewActivation DEF Called
  <2> HIDE DEF f
  <2>2. stack' = Append([stack EXCEPT ![Depth].lrSave = lr], f)
    BY <2>1, Zenon DEF f
  <2>3. LinkedTo(f, TopFrame, lr, Depth)
    BY <1>2, <2>a, TopIsFrame DEF LinkedTo, Called
  <2>4. Chain(stack') /\ Depth' = Depth + 1 /\ TopFrame' = f
    BY <2>a, <2>2, <2>3, Pushes
  <2>5. AtCode'
    BY <1>2, <2>a, <2>1, <2>4 DEF AtCode, AnchorFor, MethodFrames
  <2>6. Bounded'
    <3>1. Values # {}
      <4>1. Depth # 1
        BY <1>2, TopIsFrame DEF Lands, Chain, TopFrame, Depth
      <4> QED BY <4>1 DEF Bounded
    <3> QED BY <1>2, <2>4, <3>1, TopIsFrame, BoundAssumption DEF Bounded, Called
  <2> QED BY <1>2, <2>4, <2>5, <2>6 DEF PCs, Registers
<1>3. CASE EnterNative
  <2>1. /\ NewState("native", 0) /\ pc' = "code" /\ rlocals' = rlocals /\ pc = "entry"
        /\ rmethod' = rmethod /\ anchor' = [sp |-> Depth + 1, pc |-> "native"]
    BY <1>3 DEF EnterNative
  <2> QED BY <1>2, <2>1 DEF Registers, AnchorFor, MethodFrames
<1>4. CASE ReDispatch
  <2>1. /\ NewState("interpreter", rstate) /\ pc' = "code" /\ rlocals' = rlocals
        /\ pc = "re_dispatch" /\ rmethod' = rmethod
        /\ anchor' = [sp |-> Len(stack'), pc |-> "manager"]
    BY <1>4 DEF ReDispatch, RunInterpreter
  <2> QED BY <1>2, <2>1 DEF Registers, AtReDispatch, AnchorFor, MethodFrames, Depth
<1> QED BY <1>1, <1>3, <1>4

(* A step of the bytecode interpreter changes only its operands.            *)
LEMMA Computes ==
  ASSUME StackInv, Compute
  PROVE  /\ TopFrame.kind = "interpreter"
         /\ \/ \E v \in Values :
                  stack' = [stack EXCEPT ![Depth] = Push(TopFrame, v)]
            \/ TopFrame.top > 0 /\ stack' = [stack EXCEPT ![Depth] = SetTop(TopFrame, TopFrame.top - 1)]
<1>1. Interpreting /\ TopFrame.kind = "interpreter"
  BY DEF Compute, Interpreting
<1>2. CASE \E v \in Values : stack' = [stack EXCEPT ![Depth] = Push(@, v)]
  BY <1>1, <1>2 DEF TopFrame
<1>3. CASE TopFrame.top > 0 /\ stack' = [stack EXCEPT ![Depth] = SetTop(@, @.top - 1)]
  BY <1>1, <1>3 DEF TopFrame
<1> QED BY <1>2, <1>3 DEF Compute

LEMMA KeepsPushed ==
  ASSUME NEW f, IsFrame(f), f.kind = "interpreter", f.top <= Len(f.vals), NEW v \in Values
  PROVE  /\ Kept(Push(f, v), f) /\ Push(f, v).top = f.top + 1
         /\ Len(Push(f, v).vals) = f.top + 1
         /\ Push(f, v).vals = OnTop(f.vals, f.top, 1, v)
<1> DEFINE p == Put(f, f.top, v, 1)
           g == [p EXCEPT !.top = f.top + 1]
<1>1. f.top \in 0..Len(f.vals) /\ f.top \in Nat /\ 1 \in Nat
  BY DEF IsFrame
<1>2. Kept(p, f) /\ p.vals = OnTop(f.vals, f.top, 1, v) /\ Len(p.vals) = f.top + 1
  <2> DEFINE n == 1
  <2>1. n \in Nat
    OBVIOUS
  <2> HIDE DEF n
  <2>2. /\ Kept(Put(f, f.top, v, n), f)
        /\ Put(f, f.top, v, n).vals = OnTop(f.vals, f.top, n, v)
        /\ Len(Put(f, f.top, v, n).vals) = f.top + n
    BY <1>1, <2>1, KeepsResult
  <2> QED BY <2>2, Zenon DEF n
<1>3. IsFrame(p) /\ p.kind = "interpreter"
  BY <1>2 DEF Kept
<1>4. Push(f, v) = g
  BY DEF Push
<1> HIDE DEF p
<1>5. Kept(g, p)
  BY <1>1, <1>3 DEF Kept, IsFrame
<1>6. g.top = f.top + 1 /\ g.vals = p.vals
  BY <1>3 DEF IsFrame
<1> HIDE DEF g
<1> QED BY <1>2, <1>4, <1>5, <1>6, KeptTwice

LEMMA StackInert ==
  ASSUME StackInv, Compute \/ Raise \/ Catch \/ MoreMonitors PROVE StackInv'
<1> USE DEF StackInv
<1>1. pc = "code" /\ pc' = "code" /\ rlocals' = rlocals /\ rstate' = rstate /\ rmethod' = rmethod
  BY DEF Compute, Raise, Catch, MoreMonitors, Interpreting, RunInterpreter, regs
<1>2. IsFrame(TopFrame) /\ Kept(TopFrame, TopFrame) /\ AtCode
  BY <1>1, TopIsFrame, KeepsItself DEF Registers
<1>3. TopFrame.top \in 0..Len(TopFrame.vals) /\ TopFrame.top \in Nat /\ Len(TopFrame.vals) \in Nat
  BY <1>2 DEF IsFrame, AtCode
<1>4. CASE stack' = stack
  <2>1. Depth' = Depth /\ TopFrame' = TopFrame
    BY <1>4 DEF Depth, TopFrame
  <2>2. anchor' = anchor
    <3>1. CASE MoreMonitors
      BY <1>2, <1>4, <3>1 DEF MoreMonitors, Interpreting, RunInterpreter, AtCode, AnchorFor, Depth
    <3>2. CASE Compute \/ Raise \/ Catch
      BY <3>2 DEF Compute, Raise, Catch
    <3> QED BY <3>1, <3>2
  <2> QED BY <1>1, <1>2, <1>3, <1>4, <2>1, <2>2, Inert
<1>5. ASSUME NEW g, Kept(g, TopFrame), g.top <= Len(g.vals), stack' = [stack EXCEPT ![Depth] = g],
             anchor' = anchor
      PROVE  StackInv'
  BY <1>1, <1>5, Changes, Inert
<1>6. CASE Compute
  <2>1. TopFrame.kind = "interpreter" /\ anchor' = anchor
    BY <1>6, Computes DEF Compute
  <2>2. CASE TopFrame.top > 0 /\ stack' = [stack EXCEPT ![Depth] = SetTop(TopFrame, TopFrame.top - 1)]
    <3>1. TopFrame.top - 1 \in 0..Len(TopFrame.vals)
      BY <1>3, <2>2
    <3>2. /\ Kept(SetTop(TopFrame, TopFrame.top - 1), TopFrame)
          /\ SetTop(TopFrame, TopFrame.top - 1).top <= Len(SetTop(TopFrame, TopFrame.top - 1).vals)
      BY <1>2, <2>1, <3>1, KeepsTop
    <3> QED BY <1>5, <2>1, <2>2, <3>2
  <2>3. ASSUME NEW v \in Values,
               stack' = [stack EXCEPT ![Depth] = Push(TopFrame, v)]
        PROVE  StackInv'
    <3>1. /\ Kept(Push(TopFrame, v), TopFrame)
          /\ Push(TopFrame, v).top <= Len(Push(TopFrame, v).vals)
      BY <1>2, <1>3, <2>1, KeepsPushed
    <3> QED BY <1>5, <2>1, <2>3, <3>1
  <2> QED BY <1>6, <2>2, <2>3, Computes
<1>7. CASE Catch
  <2>1. CASE stack' = stack
    BY <1>4, <2>1
  <2>2. CASE TopFrame.kind = "interpreter" /\ stack' = [stack EXCEPT ![Depth] = SetTop(TopFrame, 0)]
    <3>1. anchor' = anchor /\ 0 \in 0..Len(TopFrame.vals)
      BY <1>3, <1>7 DEF Catch
    <3>2. /\ Kept(SetTop(TopFrame, 0), TopFrame)
          /\ SetTop(TopFrame, 0).top <= Len(SetTop(TopFrame, 0).vals)
      BY <1>2, <2>2, <3>1, KeepsTop
    <3> QED BY <1>5, <2>2, <3>1, <3>2
  <2> QED BY <1>7, <2>1, <2>2 DEF Catch, Interpreting, TopFrame
<1> QED BY <1>4, <1>6, <1>7 DEF Raise, MoreMonitors

LEMMA StackCall ==
  ASSUME StackInv, CallMethod \/ ManagerResumes \/ Resume PROVE StackInv'
<1> USE DEF StackInv
<1>1. CASE CallMethod
  <2>1. PICK m \in Methods :
          /\ m.params <= TopFrame.top /\ rmethod' = m /\ rlocals' = TopFrame.top - m.params
          /\ \/ pc' = "re_dispatch" /\ lr' = "recursive"
             \/ pc' = "entry" /\ lr' = "manager"
    BY <1>1, Zenon DEF CallMethod, RecursiveActivation
  <2>2. /\ stack' = stack /\ rstate' = rstate /\ pc = "code" /\ TopFrame.kind = "interpreter"
        /\ ~exc /\ exc' = exc /\ Depth < MaxDepth
    BY <1>1, Zenon DEF CallMethod, Interpreting
  <2>3. Depth' = Depth /\ TopFrame' = TopFrame
    BY <2>2 DEF Depth, TopFrame
  <2>4. AtCode /\ TopFrame.top \in Nat /\ m.params \in Nat
    BY <2>2, TopIsFrame, MethodIs DEF Registers, IsFrame
  <2>5. Called'
    BY <2>1, <2>2, <2>3, <2>4 DEF Called, AtCode, Overlaps
  <2>6. Registers' /\ Bounded'
    BY <2>1, <2>2, <2>3, <2>4, <2>5 DEF Registers, AtCode, AtReDispatch, Lands, Bounded
  <2> QED BY <2>1, <2>2, <2>6 DEF PCs
<1>2. IsFrame(TopFrame) /\ Kept(TopFrame, TopFrame)
  BY TopIsFrame, KeepsItself
<1>3. CASE ManagerResumes
  <2>1. /\ TopFrame.kind = "interpreter" /\ rstate' = Depth /\ pc' = "resume" /\ AtReturn
    BY <1>3 DEF ManagerResumes, Registers, AtReturn, Lands
  <2>2. CASE exc
    <3>1. stack' = stack /\ Depth' = Depth /\ TopFrame' = TopFrame /\ rlocals' = rlocals
      BY <1>3, <2>2 DEF ManagerResumes, Depth, TopFrame
    <3>2. AtResume'
      BY <2>1, <3>1 DEF AtResume, AtReturn
    <3> QED BY <2>1, <3>1, <3>2 DEF PCs, Registers, Bounded
  <2>3. CASE ~exc
    <3> DEFINE g == Put(TopFrame, rlocals, tosca, rmethod.words)
    <3>1. stack' = [stack EXCEPT ![Depth] = g] /\ rlocals' = rlocals + rmethod.words
      BY <1>3, <2>3 DEF ManagerResumes, TopFrame
    <3>2. rmethod.words \in Nat /\ rlocals \in Nat
      BY <2>1, MethodIs DEF AtReturn
    <3>3. Kept(g, TopFrame) /\ Len(g.vals) = rlocals + rmethod.words
      BY <1>2, <2>1, <2>3, <3>2, KeepsResult DEF AtReturn
    <3> HIDE DEF g
    <3>4. Chain(stack') /\ Depth' = Depth /\ TopFrame' = g
      BY <3>1, <3>3, Changes
    <3>5. AtResume'
      BY <2>1, <3>1, <3>2, <3>3, <3>4 DEF AtResume, Kept
    <3> QED BY <2>1, <3>4, <3>5 DEF PCs, Registers, Bounded
  <2> QED BY <2>2, <2>3
<1>4. CASE Resume
  <2>1. AtResume
    BY <1>4 DEF Resume, Registers
  <2>2. /\ stack' = [stack EXCEPT ![Depth] = SetTop(TopFrame, rlocals)]
        /\ rlocals' = TopFrame.locals /\ rmethod' = TopFrame.method /\ rstate' = Depth
        /\ pc' = "code" /\ anchor' = [sp |-> Depth', pc |-> "manager"]
    BY <1>4, <2>1 DEF Resume, RunInterpreter, TopFrame, AtResume, Depth
  <2> DEFINE g == SetTop(TopFrame, rlocals)
  <2>3. Kept(g, TopFrame) /\ g.top = rlocals /\ Len(g.vals) = rlocals /\ rlocals \in Nat
    BY <1>2, <2>1, KeepsTop DEF AtResume
  <2>4. stack' = [stack EXCEPT ![Depth] = g]
    BY <2>2
  <2> HIDE DEF g
  <2>5. Chain(stack') /\ Depth' = Depth /\ TopFrame' = g
    BY <2>3, <2>4, Changes
  <2>6. AtCode'
    BY <2>1, <2>2, <2>3, <2>5 DEF AtCode, AtResume, AnchorFor, Kept, MethodFrames
  <2> QED BY <2>2, <2>5, <2>6 DEF PCs, Registers, Bounded
<1> QED BY <1>1, <1>3, <1>4

(* The end of an activation: LR and Rstate come from below, and a result    *)
(* may have been stored there.                                              *)
LEMMA Unwinds ==
  ASSUME StackInv, NativeReturns \/ ReturnFromMethod \/ ThrowingException
  PROVE  LET g == stack[Depth - 1]
         IN  /\ pc = "code" /\ AtCode /\ TopFrame.kind \in MethodFrames
             /\ IsFrame(TopFrame) /\ IsFrame(g) /\ g.kind \notin {"C", "native"}
             /\ Depth \in Nat /\ Depth - 1 \in Nat \ {0}
             /\ rmethod = TopFrame.method /\ rlocals = TopFrame.locals /\ rmethod \in Methods
             /\ rlocals \in 0..Len(g.vals) /\ g.top <= Len(g.vals) /\ Overlaps(rlocals, rmethod, g)
             /\ \/ TopFrame.prev = 0 /\ Lands(g.lrSave, g.kind, rlocals)
                \/ /\ TopFrame.kind = "interpreter" /\ g.kind = "interpreter"
                   /\ TopFrame.prev = Depth - 1
<1> USE DEF StackInv
<1> DEFINE g == stack[Depth - 1]
<1>1. pc = "code" /\ AtCode /\ TopFrame.kind \in MethodFrames
  BY DEF NativeReturns, ReturnFromMethod, ThrowingException, Interpreting, Registers, MethodFrames
<1>2. /\ rlocals = TopFrame.locals /\ rmethod = TopFrame.method
      /\ IsFrame(TopFrame) /\ rmethod \in Methods
  BY <1>1, TopIsFrame DEF AtCode, IsFrame, MethodFrames
<1>3. /\ LinkedTo(TopFrame, g, g.lrSave, Depth - 1)
      /\ Depth - 1 \in Nat \ {0}
  BY <1>1, PopChain DEF TopFrame, Depth, MethodFrames
<1>4. Depth \in Nat /\ IsFrame(g)
  <2>1. Depth \in Nat /\ Depth - 1 \in 1..Depth
    BY <1>3, TopIsFrame
  <2> QED BY <2>1 DEF Chain, Depth
<1>5. \/ TopFrame.prev = 0 /\ Lands(g.lrSave, g.kind, rlocals)
      \/ /\ TopFrame.kind = "interpreter" /\ g.kind = "interpreter"
         /\ TopFrame.prev = Depth - 1
  BY <1>1, <1>2, <1>3 DEF LinkedTo, MethodFrames
<1>6. g.top <= Len(g.vals) /\ Overlaps(rlocals, rmethod, g)
  BY <1>1, <1>2, <1>3 DEF LinkedTo, MethodFrames
<1>7. rlocals \in 0..Len(g.vals)
  <2>1. rmethod.params \in Nat /\ rlocals \in Nat /\ g.top \in Nat /\ Len(g.vals) \in Nat
    BY <1>2, <1>4, MethodIs DEF IsFrame
  <2> QED BY <1>6, <2>1 DEF Overlaps
<1>8. g.kind \notin {"C", "native"}
  BY <1>5 DEF Lands
<1> QED BY <1>1, <1>2, <1>3, <1>4, <1>5, <1>6, <1>7, <1>8

(* What a return leaves in the frame below: nothing, or the result.         *)
LEMMA ReturnedResult ==
  ASSUME StackInv, ReturnFromMethod
  PROVE  \E v : /\ rmethod.words # 0 => v \in Values
                /\ \/ /\ TopFrame.prev = 0 /\ pc' = "blr" /\ tosca' = v /\ rlocals' = rlocals
                      /\ stack' = SubSeq(stack, 1, Depth - 1)
                   \/ /\ TopFrame.prev # 0 /\ pc' = "resume" /\ rlocals' = rlocals + rmethod.words
                      /\ stack' = [SubSeq(stack, 1, Depth - 1) EXCEPT ![Depth - 1] =
                                      Put(stack[Depth - 1], rlocals, v, rmethod.words)]
<1> DEFINE v == IF rmethod.words = 0 THEN NoValue ELSE TopFrame.vals[TopFrame.top]
           below == SubSeq(stack, 1, Depth - 1)
<1>1. AtCode /\ IsFrame(TopFrame) /\ rmethod = TopFrame.method /\ rmethod \in Methods
  BY Unwinds
<1>2. ASSUME rmethod.words # 0 PROVE v \in Values
  <2>1. rmethod.words \in 1..2 /\ TopFrame.top >= rmethod.words /\ TopFrame.top \in Nat
    BY <1>1, <1>2, MethodIs DEF ReturnFromMethod, IsFrame
  <2>2. TopFrame.top \in 1..Len(TopFrame.vals) /\ TopFrame.vals \in Seq(Values)
    BY <1>1, <2>1 DEF AtCode, IsFrame
  <2> QED BY <1>2, <2>2, ElementOfSeq
<1>3. below[Depth - 1] = stack[Depth - 1]
  <2>1. TopFrame.kind # "C" /\ Chain(stack)
    BY Unwinds DEF StackInv, MethodFrames
  <2> QED BY <2>1, PopChain DEF TopFrame, Depth
<1>4. \/ /\ TopFrame.prev = 0 /\ pc' = "blr" /\ tosca' = v /\ rlocals' = rlocals
         /\ stack' = below
      \/ /\ TopFrame.prev # 0 /\ pc' = "resume" /\ rlocals' = rlocals + rmethod.words
         /\ stack' = [below EXCEPT ![Depth - 1] = Put(below[Depth - 1], rlocals, v, rmethod.words)]
  BY DEF ReturnFromMethod, Unwind, ToInitialCaller
<1> QED BY <1>2, <1>3, <1>4

LEMMA StackUnwind ==
  ASSUME StackInv, NativeReturns \/ ReturnFromMethod \/ ThrowingException PROVE StackInv'
<1> USE DEF StackInv
<1> DEFINE below == SubSeq(stack, 1, Depth - 1)
           g == stack[Depth - 1]
<1>1. /\ TopFrame.kind # "C" /\ IsFrame(TopFrame) /\ IsFrame(g) /\ Depth - 1 \in Nat \ {0}
      /\ Depth \in Nat
      /\ rmethod \in Methods /\ rlocals \in 0..Len(g.vals)
      /\ \/ TopFrame.prev = 0 /\ Lands(g.lrSave, g.kind, rlocals)
         \/ /\ TopFrame.kind = "interpreter" /\ g.kind = "interpreter"
            /\ TopFrame.prev = Depth - 1
  BY Unwinds DEF MethodFrames
<1>2. Chain(below) /\ Len(below) = Depth - 1 /\ below[Depth - 1] = g
  BY <1>1, PopChain DEF TopFrame, Depth
<1>3. rmethod' = rmethod /\ exc' = exc /\ rstate' = TopFrame.prev /\ lr' = g.lrSave
  BY DEF NativeReturns, ReturnFromMethod, ThrowingException, Unwind
<1>4. ASSUME Depth' = Depth - 1 PROVE Bounded'
  BY <1>1, <1>4, BoundAssumption DEF Bounded
<1> HIDE DEF below
<1>5. ASSUME stack' = below, rlocals' = rlocals,
             \/ /\ pc' = "blr" /\ TopFrame.prev = 0
                /\ ~exc /\ rmethod.words # 0 => tosca' \in Values
             \/ pc' = "resume" /\ TopFrame.prev # 0
      PROVE  StackInv'
  <2>1. Chain(stack') /\ Depth' = Depth - 1 /\ TopFrame' = g
    BY <1>2, <1>5, Zenon DEF Depth, TopFrame
  <2>2. CASE pc' = "blr"
    <3>1. AtReturn'
      BY <1>1, <1>3, <1>5, <2>1, <2>2 DEF AtReturn, Lands
    <3> QED BY <1>4, <2>1, <2>2, <3>1 DEF PCs, Registers
  <2>3. CASE pc' = "resume"
    <3>1. AtResume'
      BY <1>1, <1>3, <1>5, <2>1, <2>3 DEF AtResume
    <3> QED BY <1>4, <2>1, <2>3, <3>1 DEF PCs, Registers
  <2> QED BY <1>5, <2>2, <2>3
<1>6. CASE NativeReturns
  <2>1. TopFrame.prev = 0
    BY <1>1, <1>6 DEF NativeReturns
  <2>2. stack' = below /\ rlocals' = rlocals /\ pc' = "blr"
    BY <1>6 DEF NativeReturns, Unwind, below
  <2>3. ~exc /\ rmethod.words # 0 => tosca' \in Values
    BY <1>6 DEF NativeReturns
  <2> QED BY <1>5, <2>1, <2>2, <2>3
<1>7. CASE ThrowingException
  BY <1>5, <1>7 DEF ThrowingException, Unwind, below
<1>8. CASE ReturnFromMethod
  <2>1. PICK v :
          /\ rmethod.words # 0 => v \in Values
          /\ \/ /\ TopFrame.prev = 0 /\ pc' = "blr" /\ tosca' = v /\ rlocals' = rlocals
                /\ stack' = below
             \/ /\ TopFrame.prev # 0 /\ pc' = "resume" /\ rlocals' = rlocals + rmethod.words
                /\ stack' = [below EXCEPT ![Depth - 1] = Put(g, rlocals, v, rmethod.words)]
    BY <1>8, ReturnedResult, Zenon DEF below
  <2>2. CASE TopFrame.prev = 0
    BY <1>5, <2>1, <2>2
  <2>3. CASE TopFrame.prev # 0
    <3> DEFINE h == Put(g, rlocals, v, rmethod.words)
    <3>1. rmethod.words \in Nat /\ rlocals \in Nat
      BY <1>1, MethodIs
    <3>2. Kept(h, g) /\ Len(h.vals) = rlocals + rmethod.words
      BY SMTT(30), <1>1, <2>1, <3>1, KeepsResult
    <3>3. stack' = [below EXCEPT ![Len(below)] = h]
      BY <1>2, <2>1, <2>3
    <3> HIDE DEF h
    <3>4. LET t == [below EXCEPT ![Len(below)] = h]
          IN  Chain(t) /\ Len(t) = Len(below) /\ t[Len(below)] = h
      <4>1. Kept(h, below[Len(below)])
        BY <1>2, <3>2
      <4> QED BY <1>2, <4>1, ChangeChain DEF Kept
    <3>5. Chain(stack') /\ Len(stack') = Depth - 1 /\ stack'[Depth - 1] = h
      BY <1>2, <3>3, <3>4, Zenon
    <3>6. Depth' = Depth - 1 /\ TopFrame' = h
      BY <3>5, Zenon DEF Depth, TopFrame
    <3>7. h.kind = "interpreter" /\ TopFrame.prev = Depth - 1
      BY <1>1, <2>3, <3>2 DEF Kept
    <3>8. AtResume'
      BY <1>3, <2>1, <2>3, <3>1, <3>2, <3>6, <3>7 DEF AtResume
    <3> QED BY <1>4, <2>1, <2>3, <3>5, <3>6, <3>8 DEF PCs, Registers
  <2> QED BY <2>2, <2>3
<1> QED BY <1>6, <1>7, <1>8

LEMMA StackStep == ASSUME StackInv, [Next]_vars PROVE StackInv'
<1>1. CASE UNCHANGED vars
  BY <1>1 DEF vars, regs, StackInv, Registers, TopFrame, Depth, Bounded,
              AtCode, Called, AtReDispatch, AtReturn, AtResume
<1>2. CASE Next
  BY <1>2, StackStub, StackEntry, StackInert, StackCall, StackUnwind DEF Next
<1> QED BY <1>1, <1>2

(* Each frame is linked to the one below it: its saved LR leads to the code *)
(* that made that frame, the operands they share are the callee's           *)
(* arguments, the anchor saved in a call stub names the frame below it, and *)
(* the registers are those of the top frame.                                *)
THEOREM StackInvariant == Spec => []StackInv
<1>1. Init => StackInv
  <2> SUFFICES ASSUME Init PROVE StackInv
    OBVIOUS
  <2>1. stack = <<Frame("C")>> /\ pc = "code" /\ anchor = NoAnchor
    BY DEF Init
  <2> DEFINE f == Frame("C")
  <2>2. IsFrame(f) /\ f.kind = "C" /\ f.top = 0 /\ Len(f.vals) = 0
    BY DEF IsFrame, Frame, MethodFrames
  <2> HIDE DEF f
  <2>3. stack \in Seq({f}) /\ Len(stack) = 1 /\ stack[1] = f
    BY <2>1 DEF f
  <2>4. stack \in Seq(FramesOf(stack))
    BY <2>3, ElementsOf
  <2>5. Chain(stack)
    BY <2>2, <2>3, <2>4 DEF Chain
  <2>6. TopFrame = f /\ Depth = 1
    BY <2>3 DEF TopFrame, Depth
  <2>7. AtCode
    BY <2>1, <2>2, <2>6 DEF AtCode, AnchorFor, NoAnchor
  <2> QED BY <2>1, <2>5, <2>6, <2>7 DEF StackInv, Registers, PCs, Bounded
<1>2. StackInv /\ [Next]_vars => StackInv'
  BY StackStep
<1> QED BY <1>1, <1>2, PTL DEF Spec

(* A return goes to the call stub or the frame manager that made the top    *)
(* frame, never to RecursiveInterpreterActivation, and finds the registers  *)
(* it relies on (cppInterpreter_CPU.cpp:853-855).                           *)
THEOREM ReturnsAlwaysLand == Spec => []ReturnsLand
<1>1. StackInv => ReturnsLand
  BY DEF StackInv, Registers, AtReturn, Lands, ReturnsLand
<1> QED BY <1>1, StackInvariant, PTL

-----------------------------------------------------------------------------
(* Stack walking.                                                           *)

LEMMA LeastNat ==
  ASSUME NEW Q \in SUBSET Nat, Q # {}
  PROVE  \E n \in Q : \A m \in Q : ~(m < n)
<1>1. PICK n \in Q : \A m \in Q : ~(<<m, n>> \in OpToRel(<, Nat))
  BY NatLessThanWellFounded, WFMin
<1> QED BY <1>1 DEF OpToRel

(* What a walk finds of the i-th frame: the anchor, the anchor in the call  *)
(* wrapper of the stub above it, or its back chain and LR save word.        *)
Found(i) == IF i = Depth THEN anchor
            ELSE IF stack[i + 1].kind = "stub" THEN stack[i + 1].wrapped
            ELSE [sp |-> i, pc |-> stack[i].lrSave]

Names(f, i) ==
  IF i = 1 THEN f.sp = 0
  ELSE /\ f.sp = i
       /\ Entry(f) <=> stack[i].kind = "stub"
       /\ Interpreted(f) <=> stack[i].kind \in MethodFrames

LEMMA CppAtBottom ==
  ASSUME Chain(stack), NEW i \in 1..Depth
  PROVE  /\ stack[i].kind = "C" <=> i = 1
         /\ i # 1 => stack[i].kind \in {"stub"} \cup MethodFrames
<1>1. CASE i = 1
  BY <1>1 DEF Chain
<1>2. CASE i # 1
  <2>1. i - 1 \in 1..Len(stack) - 1 /\ (i - 1) + 1 = i
    BY <1>2, TopIsFrame DEF Depth
  <2>2. LinkedTo(stack[(i - 1) + 1], stack[i - 1], stack[i - 1].lrSave, i - 1)
    BY <2>1 DEF Chain
  <2>3. LinkedTo(stack[i], stack[i - 1], stack[i - 1].lrSave, i - 1)
    BY <2>1, <2>2
  <2> QED BY <1>2, <2>3 DEF LinkedTo, MethodFrames
<1> QED BY <1>1, <1>2

LEMMA AnchorNames ==
  ASSUME Chain(stack), NEW i \in 1..Depth, NEW a, AnchorFor(stack[i].kind, i, a)
  PROVE  Names(a, i)
BY CppAtBottom DEF AnchorFor, Names, Entry, Interpreted, InInterpreter, MethodFrames

LEMMA FoundNames ==
  ASSUME StackInv, pc = "code", NEW i \in 1..Depth
  PROVE  Names(Found(i), i)
<1>1. Chain(stack) /\ AtCode
  BY DEF StackInv, Registers
<1>2. CASE i = Depth
  BY <1>1, <1>2, AnchorNames DEF Found, AtCode, TopFrame
<1>3. CASE i # Depth
  <2>1. i \in 1..Len(stack) - 1 /\ i + 1 \in 1..Depth /\ i + 1 # 1
    BY <1>1, <1>3, TopIsFrame DEF Depth
  <2>2. LinkedTo(stack[i + 1], stack[i], stack[i].lrSave, i)
    BY <1>1, <2>1 DEF Chain
  <2>3. CASE stack[i + 1].kind = "stub"
    <3>1. AnchorFor(stack[i].kind, i, stack[i + 1].wrapped)
      BY <2>2, <2>3 DEF LinkedTo, MethodFrames
    <3> QED BY <1>1, <1>3, <2>3, <3>1, AnchorNames DEF Found
  <2>4. CASE stack[i + 1].kind # "stub"
    <3>1. /\ \/ stack[i].lrSave = "stub" /\ stack[i].kind = "stub"
             \/ stack[i].lrSave \in {"manager", "recursive"} /\ stack[i].kind = "interpreter"
          /\ i # 1
      BY <1>1, <2>2, <2>4, CppAtBottom DEF LinkedTo, Lands
    <3>2. Found(i) = [sp |-> i, pc |-> stack[i].lrSave]
      BY <1>3, <2>4 DEF Found
    <3> QED BY <3>1, <3>2 DEF Names, Entry, Interpreted, InInterpreter, MethodFrames
  <2> QED BY <2>3, <2>4
<1> QED BY <1>2, <1>3

LEMMA FoundSender ==
  ASSUME StackInv, pc = "code", NEW i \in 2..Depth
  PROVE  Found(i - 1) = Sender(Found(i))
<1>1. Depth \in Nat /\ i \in 1..Depth /\ i # 1 /\ i - 1 # Depth /\ (i - 1) + 1 = i
  BY TopIsFrame DEF StackInv
<1>2. Names(Found(i), i)
  BY <1>1, FoundNames
<1>3. Found(i).sp = i /\ (Entry(Found(i)) <=> stack[i].kind = "stub")
  BY <1>1, <1>2 DEF Names
<1> QED BY <1>1, <1>3 DEF Found, Sender

(* The n-th frame of the walk.                                              *)
Place(n) == IF n < Depth THEN Depth - n ELSE 1

Walks(w) ==
  w = [n \in 0..MaxDepth |->
         IF n = 0 THEN anchor
         ELSE LET f == w[n - 1] IN IF f.sp = 0 THEN f ELSE Sender(f)]

LEMMA WalkExists ==
  ASSUME StackInv, pc = "code"
  PROVE  Walks([n \in 0..MaxDepth |-> Found(Place(n))])
<1> DEFINE w == [n \in 0..MaxDepth |-> Found(Place(n))]
<1>0. Depth \in Nat \ {0} /\ MaxDepth \in Nat
  BY TopIsFrame, BoundAssumption DEF StackInv
<1>1. ASSUME NEW n \in 0..MaxDepth
      PROVE  w[n] = IF n = 0 THEN anchor
                    ELSE LET f == w[n - 1] IN IF f.sp = 0 THEN f ELSE Sender(f)
  <2>1. CASE n = 0
    BY <1>0, <2>1 DEF Place, Found
  <2>2. CASE n # 0 /\ n < Depth
    <3>1. /\ n - 1 \in 0..MaxDepth /\ Place(n - 1) = Depth - n + 1 /\ Place(n) = (Depth - n + 1) - 1
          /\ Depth - n + 1 \in 2..Depth /\ Depth - n + 1 \in 1..Depth
      BY <1>0, <2>2 DEF Place
    <3>2. Names(Found(Depth - n + 1), Depth - n + 1)
      BY <3>1, FoundNames
    <3>3. Found(Depth - n + 1).sp # 0
      BY <3>1, <3>2 DEF Names
    <3>4. Found((Depth - n + 1) - 1) = Sender(Found(Depth - n + 1))
      BY <3>1, FoundSender
    <3>5. w[n] = Found((Depth - n + 1) - 1) /\ w[n - 1] = Found(Depth - n + 1)
      BY <3>1
    <3> QED BY <2>2, <3>3, <3>4, <3>5
  <2>3. CASE ~(n < Depth)
    <3>1. n # 0 /\ n - 1 \in 0..MaxDepth /\ Place(n - 1) = 1 /\ Place(n) = 1 /\ 1 \in 1..Depth
      BY <1>0, <2>3 DEF Place
    <3>2. Found(1).sp = 0
      BY <3>1, FoundNames DEF Names
    <3>3. w[n] = Found(1) /\ w[n - 1] = Found(1)
      BY <3>1
    <3> QED BY <3>1, <3>2, <3>3
  <2> QED BY <2>1, <2>2, <2>3
<1> HIDE DEF w
<1>2. w = [n \in 0..MaxDepth |-> w[n]]
  BY DEF w
<1>3. Walks(w)
  BY <1>1, <1>2, Zenon DEF Walks
<1> QED BY <1>3 DEF w

LEMMA WalkUnique ==
  ASSUME NEW w, NEW x, Walks(w), Walks(x), NEW n \in 0..MaxDepth
  PROVE  w[n] = x[n]
<1> DEFINE Q == {k \in 0..MaxDepth : w[k] # x[k]}
<1>1. SUFFICES ASSUME Q # {} PROVE FALSE
  OBVIOUS
<1>2. Q \in SUBSET Nat
  BY BoundAssumption
<1>3. PICK k \in Q : \A m \in Q : ~(m < k)
  <2> HIDE DEF Q
  <2> QED BY <1>1, <1>2, LeastNat
<1>4. k \in 0..MaxDepth /\ w[k] # x[k] /\ MaxDepth \in Nat
  BY BoundAssumption
<1>5. ASSUME NEW y, Walks(y)
      PROVE  y[k] = IF k = 0 THEN anchor
                    ELSE LET f == y[k - 1] IN IF f.sp = 0 THEN f ELSE Sender(f)
  BY <1>4, <1>5 DEF Walks
<1>6. k # 0
  BY <1>4, <1>5
<1>7. w[k - 1] = x[k - 1]
  BY <1>3, <1>4, <1>6
<1> QED BY <1>4, <1>5, <1>7

LEMMA WalkIs ==
  ASSUME StackInv, pc = "code", NEW n \in 0..MaxDepth
  PROVE  Walk[n] = Found(Place(n))
<1> DEFINE w == [k \in 0..MaxDepth |-> Found(Place(k))]
<1>1. Walks(w)
  BY WalkExists
<1> HIDE DEF w
<1>2. Walk = CHOOSE x : Walks(x)
  BY DEF Walk, Walks
<1>3. Walks(Walk)
  BY <1>1, <1>2
<1>4. Walk[n] = w[n]
  BY <1>1, <1>3, WalkUnique
<1> QED BY <1>4 DEF w

(* Whenever C++ code runs, a walk from the frame anchor meets every method  *)
(* activation, from the newest to the oldest, and no frame it cannot name   *)
(* (frame_CPU.cpp:40-88), for any nesting of interpreted and native methods *)
(* and calls from the virtual machine.                                      *)
THEOREM WalksFindActivations == Spec => []WalkFindsActivations
<1>1. ASSUME StackInv, pc = "code" PROVE WalkFindsActivations
  <2> DEFINE found == {n \in 0..MaxDepth : Walk[n].sp # 0}
  <2>1. Depth \in Nat \ {0} /\ MaxDepth \in Nat /\ (Depth = 1 \/ Depth <= MaxDepth)
    BY <1>1, TopIsFrame, BoundAssumption DEF StackInv, Bounded
  <2>2. ASSUME NEW n \in 0..MaxDepth
        PROVE  /\ Place(n) \in 1..Depth /\ Names(Walk[n], Place(n))
               /\ Walk[n].sp # 0 <=> n < Depth - 1
               /\ Walk[n].sp # 0 => Walk[n].sp = Place(n) /\ Place(n) = Depth - n /\ Place(n) # 1
    <3>1. Place(n) \in 1..Depth /\ (Place(n) = 1 <=> ~(n < Depth - 1))
          /\ (Place(n) # 1 => Place(n) = Depth - n)
      BY <2>1 DEF Place
    <3>2. Names(Walk[n], Place(n))
      BY <1>1, <3>1, WalkIs, FoundNames
    <3> QED BY <3>1, <3>2 DEF Names
  <2>3. ASSUME NEW n \in found PROVE Entry(Walk[n]) \/ Interpreted(Walk[n])
    <3>1. Place(n) \in 1..Depth /\ Place(n) # 1 /\ Names(Walk[n], Place(n))
      BY <2>2
    <3> QED BY <1>1, <3>1, CppAtBottom DEF Names, StackInv
  <2>4. ASSUME NEW n \in found, n > 0 PROVE Walk[n].sp < Walk[n - 1].sp
    <3>1. n - 1 \in 0..MaxDepth /\ n < Depth - 1 /\ n - 1 < Depth - 1 /\ n \in 0..MaxDepth
      BY <2>1, <2>2, <2>4
    <3>2. Walk[n].sp = Depth - n /\ Walk[n - 1].sp = Depth - (n - 1)
      BY <2>2, <3>1
    <3> QED BY <2>1, <3>1, <3>2
  <2>5. ASSUME NEW n \in found, Interpreted(Walk[n])
        PROVE  Walk[n].sp \in 1..Depth /\ stack[Walk[n].sp].kind \in MethodFrames
    <3>1. Place(n) \in 1..Depth /\ Place(n) # 1 /\ Names(Walk[n], Place(n)) /\ Walk[n].sp = Place(n)
      BY <2>2
    <3> QED BY <2>5, <3>1 DEF Names
  <2>6. ASSUME NEW i \in 1..Depth, stack[i].kind \in MethodFrames
        PROVE  \E n \in found : Interpreted(Walk[n]) /\ Walk[n].sp = i
    <3>1. i # 1
      BY <1>1, <2>6, CppAtBottom DEF StackInv, MethodFrames
    <3> DEFINE n == Depth - i
    <3>2. n \in 0..MaxDepth /\ n < Depth - 1 /\ Depth - n = i
      BY <2>1, <3>1
    <3> HIDE DEF n
    <3>3. n \in found /\ Walk[n].sp = i /\ Names(Walk[n], i)
      BY <2>2, <3>2
    <3> QED BY <2>6, <3>1, <3>3 DEF Names
  <2>7. {Walk[n].sp : n \in {k \in found : Interpreted(Walk[k])}}
          = {i \in 1..Depth : stack[i].kind \in MethodFrames}
    <3> HIDE DEF found
    <3> QED BY <2>5, <2>6
  <2> QED BY <2>3, <2>4, <2>7 DEF WalkFindsActivations
<1>2. StackInv => WalkFindsActivations
  BY <1>1 DEF WalkFindsActivations
<1> QED BY <1>2, StackInvariant, PTL

-----------------------------------------------------------------------------
(* The frame manager implements nested calls.                               *)

KindOf(f) == IF f.kind \in {"C", "stub"} THEN f.kind ELSE "method"
ActOf(f, kind, ops) ==
  [kind |-> kind, words |-> f.method.words, args |-> f.method.params, operands |-> ops]

(* An activation nothing is on the way to.                                  *)
Static(f) == ActOf(f, KindOf(f), SubSeq(f.vals, 1, f.top))
TopAct == ActOf(TopFrame, IF TopFrame.kind = "stub" /\ pc = "blr" THEN "done" ELSE KindOf(TopFrame),
                Operands(Depth))
Acts(s, top) == [i \in 1..Len(s) |-> IF i < Len(s) THEN Static(s[i]) ELSE top]

LEMMA ActsIs == ASSUME NEW s, Chain(s), NEW a
  PROVE  /\ Acts(s, a) \in Seq(FramesOf(Acts(s, a))) /\ Len(Acts(s, a)) = Len(s)
         /\ \A i \in 1..Len(s) - 1 : Acts(s, a)[i] = Static(s[i])
         /\ Acts(s, a)[Len(s)] = a
         /\ Len(s) \in Nat \ {0}
<1>1. Len(s) \in Nat \ {0}
  BY ChainLength
<1>2. \A i \in 1..Len(s) : Acts(s, a)[i] \in FramesOf(Acts(s, a))
  BY <1>1 DEF Acts, FramesOf
<1> DEFINE S == FramesOf(Acts(s, a))
<1>3. Acts(s, a) = [i \in 1..Len(s) |-> Acts(s, a)[i]]
  BY DEF Acts
<1> HIDE DEF S
<1>4. Acts(s, a) \in Seq(S) /\ Len(Acts(s, a)) = Len(s)
  BY <1>1, <1>2, <1>3 DEF S
<1>5. /\ \A i \in 1..Len(s) - 1 : Acts(s, a)[i] = Static(s[i])
      /\ Acts(s, a)[Len(s)] = a
  BY <1>1 DEF Acts
<1> QED BY <1>1, <1>4, <1>5 DEF S

LEMMA ActsSame ==
  ASSUME NEW s, Chain(s), NEW t, Chain(t), Len(t) = Len(s), \A i \in 1..Len(s) - 1 : t[i] = s[i],
         NEW a, NEW b
  PROVE  Acts(t, b) = [Acts(s, a) EXCEPT ![Len(s)] = b]
<1>1. Len(s) \in Nat \ {0}
  BY ChainLength
<1> DEFINE A == Acts(s, a)
<1>2. A = [i \in 1..Len(s) |-> A[i]] /\ \A i \in 1..Len(s) - 1 : A[i] = Static(s[i])
  BY <1>1 DEF Acts
<1>3. Acts(t, b) = [i \in 1..Len(s) |-> IF i < Len(s) THEN Static(t[i]) ELSE b]
  BY DEF Acts
<1> HIDE DEF A
<1>4. [A EXCEPT ![Len(s)] = b] = [i \in 1..Len(s) |-> IF i = Len(s) THEN b ELSE A[i]]
  BY <1>2
<1>5. \A i \in 1..Len(s) : (IF i < Len(s) THEN Static(t[i]) ELSE b) = IF i = Len(s) THEN b ELSE A[i]
  <2> SUFFICES ASSUME NEW i \in 1..Len(s)
               PROVE  (IF i < Len(s) THEN Static(t[i]) ELSE b) = IF i = Len(s) THEN b ELSE A[i]
    OBVIOUS
  <2>1. CASE i = Len(s)
    BY <1>1, <2>1
  <2>2. CASE i # Len(s)
    <3>1. i \in 1..Len(s) - 1 /\ i < Len(s)
      BY <1>1, <2>2
    <3>2. t[i] = s[i] /\ A[i] = Static(s[i])
      BY <1>2, <3>1
    <3> QED BY <2>2, <3>1, <3>2, Zenon
  <2> QED BY <2>1, <2>2
<1>6. Acts(t, b) = [A EXCEPT ![Len(s)] = b]
  BY <1>3, <1>4, <1>5
<1> QED BY <1>6 DEF A

LEMMA ActsPush ==
  ASSUME NEW s, Chain(s), NEW t, Chain(t), Len(t) = Len(s) + 1,
         \A i \in 1..Len(s) : Static(t[i]) = Static(s[i]), NEW b
  PROVE  Acts(t, b) = Append(Acts(s, Static(s[Len(s)])), b)
<1> DEFINE A == Acts(s, Static(s[Len(s)]))
<1>1. A \in Seq(FramesOf(A)) /\ Len(A) = Len(s) /\ Len(s) \in Nat \ {0}
  BY ActsIs
<1>2. \A i \in 1..Len(s) : A[i] = Static(s[i])
  BY <1>1 DEF Acts
<1> HIDE DEF A
<1>3. /\ Len(Append(A, b)) = Len(s) + 1 /\ Append(A, b)[Len(s) + 1] = b
      /\ \A i \in 1..Len(s) : Append(A, b)[i] = Static(s[i])
      /\ DOMAIN Append(A, b) = 1..Len(s) + 1
  BY <1>1, <1>2
<1>4. Append(A, b) = [i \in 1..Len(s) + 1 |-> Append(A, b)[i]]
  <2> DEFINE S == FramesOf(A) \cup {b}
             B == Append(A, b)
  <2>1. A \in Seq(S)
    BY <1>1, SeqMonotonic, FramesOf(A) \subseteq S
  <2> HIDE DEF S
  <2>2. B \in Seq(S) /\ Len(B) = Len(s) + 1
    BY <1>3, <2>1, b \in S DEF S
  <2> HIDE DEF B
  <2>3. B = [i \in 1..Len(B) |-> B[i]]
    BY <2>2, LenProperties
  <2> QED BY <2>2, <2>3 DEF B
<1>5. Acts(t, b) = [i \in 1..Len(s) + 1 |-> IF i < Len(s) + 1 THEN Static(t[i]) ELSE b]
  BY DEF Acts
<1>6. \A i \in 1..Len(s) + 1 :
        Append(A, b)[i] = IF i < Len(s) + 1 THEN Static(t[i]) ELSE b
  BY <1>1, <1>3
<1>7. Acts(t, b) = Append(A, b)
  BY <1>4, <1>5, <1>6
<1> QED BY <1>7 DEF A

PopTo(acts, n, b) == [SubSeq(acts, 1, n) EXCEPT ![n] = b]

LEMMA ActsPop ==
  ASSUME NEW s, Chain(s), NEW t, Chain(t), Len(t) = Len(s) - 1,
         \A i \in 1..Len(s) - 2 : t[i] = s[i], NEW a, NEW b
  PROVE  Acts(t, b) = PopTo(Acts(s, a), Len(s) - 1, b)
<1> DEFINE A == Acts(s, a)
           B == SubSeq(A, 1, Len(s) - 1)
<1>1. /\ A \in Seq(FramesOf(A)) /\ Len(A) = Len(s) /\ Len(s) \in Nat \ {0}
      /\ \A i \in 1..Len(s) - 1 : A[i] = Static(s[i])
  BY ActsIs
<1>2. Len(s) - 1 \in Nat \ {0} /\ Len(s) - 1 \in 0..Len(A)
  BY <1>1, ChainLength
<1> HIDE DEF A
<1>3. /\ B \in Seq(FramesOf(A)) /\ Len(B) = Len(s) - 1
      /\ \A i \in 1..Len(s) - 1 : B[i] = Static(s[i])
  BY <1>1, <1>2, Front
<1> HIDE DEF B
<1>4. B = [i \in 1..Len(s) - 1 |-> Static(s[i])]
  BY <1>3
<1>5. Acts(t, b) = [i \in 1..Len(s) - 1 |-> IF i < Len(s) - 1 THEN Static(t[i]) ELSE b]
  BY DEF Acts
<1>6. \A i \in 1..Len(s) - 1 : i < Len(s) - 1 => t[i] = s[i]
  BY <1>1
<1> DEFINE n == Len(s) - 1
<1>7. [B EXCEPT ![n] = b] = [i \in 1..n |-> IF i = n THEN b ELSE Static(s[i])]
  BY <1>2, <1>4
<1>8. \A i \in 1..n :
        (IF i < n THEN Static(t[i]) ELSE b) = IF i = n THEN b ELSE Static(s[i])
  BY <1>2, <1>6
<1>9. Acts(t, b) = [B EXCEPT ![n] = b]
  <2> HIDE DEF n
  <2>1. Acts(t, b) = [i \in 1..n |-> IF i < n THEN Static(t[i]) ELSE b]
    BY <1>5 DEF n
  <2> QED BY <1>7, <1>8, <2>1
<1> QED BY <1>9, Zenon DEF A, B, PopTo

(* Where the operands of the top activation are.                            *)
LEMMA AbstractIs == StackInv => AbstractActs = Acts(stack, TopAct)
<1> SUFFICES ASSUME StackInv PROVE AbstractActs = Acts(stack, TopAct)
  OBVIOUS
<1>1. Chain(stack) /\ Depth \in Nat \ {0}
  BY TopIsFrame DEF StackInv
<1>2. ASSUME NEW i \in 1..Depth
      PROVE  AbstractActs[i] = IF i < Depth THEN Static(stack[i]) ELSE TopAct
  <2>1. IsFrame(stack[i])
    BY <1>1 DEF Chain, Depth
  <2>2. CASE i < Depth
    <3>1. Operands(i) = SubSeq(stack[i].vals, 1, stack[i].top)
      BY <2>2, Zenon DEF Operands
    <3>2. i # Depth
      BY <1>1, <2>2
    <3>3. KindOf(stack[i]) = CASE stack[i].kind = "C" -> "C"
                               [] stack[i].kind = "stub" -> IF i = Depth /\ pc = "blr" THEN "done" ELSE "stub"
                               [] OTHER -> "method"
      BY <3>2 DEF KindOf
    <3> QED BY <2>2, <3>1, <3>3 DEF AbstractActs, Static, ActOf
  <2>3. CASE i = Depth
    BY <1>1, <2>1, <2>3 DEF AbstractActs, TopAct, TopFrame, ActOf, KindOf, IsFrame, MethodFrames
  <2> QED BY <1>1, <2>2, <2>3
<1>3. AbstractActs = [i \in 1..Depth |-> AbstractActs[i]]
  BY DEF AbstractActs
<1>4. Acts(stack, TopAct) = [i \in 1..Depth |-> IF i < Depth THEN Static(stack[i]) ELSE TopAct]
  BY DEF Acts, Depth
<1> QED BY <1>2, <1>3, <1>4

OnTheWay == IF exc THEN <<>> ELSE Copy(rmethod.words, tosca)

LEMMA TopIs ==
  StackInv =>
    /\ pc \notin {"blr", "resume"} => TopAct = Static(TopFrame)
    /\ pc = "resume" => TopAct = ActOf(TopFrame, KindOf(TopFrame), SubSeq(TopFrame.vals, 1, rlocals))
    /\ pc = "blr" => TopAct = ActOf(TopFrame, IF TopFrame.kind = "stub" THEN "done" ELSE KindOf(TopFrame),
                                   SubSeq(TopFrame.vals, 1, rlocals) \o OnTheWay)
<1> SUFFICES ASSUME StackInv
             PROVE  /\ pc \notin {"blr", "resume"} => TopAct = Static(TopFrame)
                    /\ pc = "resume" => TopAct = ActOf(TopFrame, KindOf(TopFrame), SubSeq(TopFrame.vals, 1, rlocals))
                    /\ pc = "blr" => TopAct = ActOf(TopFrame, IF TopFrame.kind = "stub" THEN "done" ELSE KindOf(TopFrame),
                                                   SubSeq(TopFrame.vals, 1, rlocals) \o OnTheWay)
  OBVIOUS
<1>1. Depth \in Nat
  BY TopIsFrame DEF StackInv
<1>2. CASE pc \notin {"blr", "resume"}
  <2>1. Operands(Depth) = SubSeq(TopFrame.vals, 1, TopFrame.top)
    BY <1>2 DEF Operands, TopFrame
  <2> QED BY <1>2, <2>1, Zenon DEF TopAct, Static
<1>3. CASE pc = "resume"
  <2>1. Operands(Depth) = SubSeq(TopFrame.vals, 1, rlocals)
    <3>1. ~(Depth < Depth \/ pc \notin {"blr", "resume"})
      BY <1>1, <1>3
    <3> QED BY <1>3, <3>1, Zenon DEF Operands, TopFrame
  <2>2. pc # "blr"
    BY <1>3
  <2> QED BY <1>3, <2>1, <2>2, Zenon DEF TopAct
<1>4. CASE pc = "blr"
  <2>1. Operands(Depth) = SubSeq(TopFrame.vals, 1, rlocals) \o OnTheWay
    <3>1. ~(Depth < Depth \/ pc \notin {"blr", "resume"}) /\ pc # "resume"
      BY <1>1, <1>4
    <3> QED BY <3>1, Zenon DEF Operands, TopFrame, OnTheWay, Copy
  <2>2. pc # "resume"
    BY <1>4
  <2> QED BY <1>4, <2>1, <2>2, Zenon DEF TopAct
<1> QED BY <1>2, <1>3, <1>4

LEMMA AbstractNext == StackInv' => AbstractActs' = Acts(stack', TopAct')
<1>1. (StackInv => AbstractActs = Acts(stack, TopAct))'
  BY AbstractIs, PTL
<1> QED BY <1>1

LEMMA TopNext ==
  ASSUME StackInv'
  PROVE  /\ pc' \notin {"blr", "resume"} => TopAct' = Static(TopFrame')
         /\ pc' = "resume" =>
              TopAct' = ActOf(TopFrame', KindOf(TopFrame'), SubSeq(TopFrame'.vals, 1, rlocals'))
         /\ pc' = "blr" =>
              TopAct' = ActOf(TopFrame', IF TopFrame'.kind = "stub" THEN "done" ELSE KindOf(TopFrame'),
                              SubSeq(TopFrame'.vals, 1, rlocals') \o OnTheWay')
<1>1. (StackInv =>
        /\ pc \notin {"blr", "resume"} => TopAct = Static(TopFrame)
        /\ pc = "resume" => TopAct = ActOf(TopFrame, KindOf(TopFrame), SubSeq(TopFrame.vals, 1, rlocals))
        /\ pc = "blr" => TopAct = ActOf(TopFrame, IF TopFrame.kind = "stub" THEN "done" ELSE KindOf(TopFrame),
                                       SubSeq(TopFrame.vals, 1, rlocals) \o OnTheWay))'
  BY TopIs, PTL
<1> QED BY <1>1

LEMMA TopKept ==
  ASSUME StackInv, StackInv', stack' = stack \/ \E g : stack' = [stack EXCEPT ![Depth] = g],
         Depth' = Depth
  PROVE  AbstractActs' = [AbstractActs EXCEPT ![Depth] = TopAct']
<1>1. Chain(stack) /\ Chain(stack') /\ Len(stack') = Len(stack)
  BY DEF StackInv, Depth
<1>2. AbstractActs = Acts(stack, TopAct) /\ AbstractActs' = Acts(stack', TopAct')
  BY AbstractIs, AbstractNext
<1>3. \A i \in 1..Len(stack) - 1 : stack'[i] = stack[i]
  <2>1. CASE stack' = stack
    BY <2>1
  <2>2. CASE \E g : stack' = [stack EXCEPT ![Depth] = g]
    <3>1. PICK g : stack' = [stack EXCEPT ![Depth] = g]
      BY <2>2
    <3>2. LET t == [stack EXCEPT ![Len(stack)] = g]
          IN  \A i \in 1..Len(stack) - 1 : t[i] = stack[i]
      BY <1>1, ReplaceTop
    <3> QED BY <3>1, <3>2, Zenon DEF Depth
  <2> QED BY <2>1, <2>2
<1>4. Acts(stack', TopAct') = [Acts(stack, TopAct) EXCEPT ![Len(stack)] = TopAct']
  BY <1>1, <1>3, ActsSame
<1> QED BY <1>2, <1>4, Zenon DEF Depth

LEMMA Pushed ==
  ASSUME StackInv, StackInv', NEW l, NEW f, TopAct = Static(TopFrame),
         stack' = Append([stack EXCEPT ![Depth].lrSave = l], f), Depth' = Depth + 1
  PROVE  AbstractActs' = Append(AbstractActs, TopAct')
<1>1. Chain(stack) /\ Chain(stack') /\ Len(stack') = Len(stack) + 1
  BY DEF StackInv, Depth
<1>2. AbstractActs = Acts(stack, TopAct) /\ AbstractActs' = Acts(stack', TopAct')
  BY AbstractIs, AbstractNext
<1>3. \A i \in 1..Len(stack) : Static(stack'[i]) = Static(stack[i])
  <2> DEFINE g == [stack[Len(stack)] EXCEPT !.lrSave = l]
             u == [stack EXCEPT ![Len(stack)] = g]
  <2>1. u = [stack EXCEPT ![Depth].lrSave = l]
    BY DEF Depth
  <2>2. Len(stack) \in Nat \ {0} /\ IsFrame(stack[Len(stack)])
    BY <1>1, ChainLength
  <2>3. Static(g) = Static(stack[Len(stack)])
    BY <2>2 DEF Static, ActOf, KindOf, IsFrame
  <2> HIDE DEF g
  <2>4. /\ u \in Seq(FramesOf(stack) \cup {g}) /\ Len(u) = Len(stack) /\ u[Len(stack)] = g
        /\ \A i \in 1..Len(stack) - 1 : u[i] = stack[i]
    BY <1>1, ReplaceTop
  <2> HIDE DEF u
  <2>5. stack' = Append(u, f)
    BY <2>1
  <2>6. \A i \in 1..Len(stack) : stack'[i] = u[i]
    BY <2>2, <2>4, <2>5
  <2>7. \A i \in 1..Len(stack) : i = Len(stack) \/ i \in 1..Len(stack) - 1
    BY <2>2
  <2> QED BY <2>3, <2>4, <2>6, <2>7
<1>4. Acts(stack', TopAct') = Append(Acts(stack, Static(stack[Len(stack)])), TopAct')
  BY <1>1, <1>3, ActsPush
<1> QED BY <1>2, <1>4, Zenon DEF Depth, TopFrame

LEMMA Popped ==
  ASSUME StackInv, StackInv', TopFrame.kind # "C", Depth' = Depth - 1,
         \/ stack' = SubSeq(stack, 1, Depth - 1)
         \/ \E g : stack' = [SubSeq(stack, 1, Depth - 1) EXCEPT ![Depth - 1] = g]
  PROVE  /\ AbstractActs' = PopTo(AbstractActs, Depth - 1, TopAct')
         /\ SubSeq(AbstractActs, 1, Depth - 1)[Depth - 1] = Static(stack[Depth - 1])
         /\ PopTo(AbstractActs, Depth - 1, Static(stack[Depth - 1])) = SubSeq(AbstractActs, 1, Depth - 1)
<1> DEFINE below == SubSeq(stack, 1, Depth - 1)
<1>1. Chain(stack) /\ Chain(stack') /\ Len(stack') = Len(stack) - 1
  BY DEF StackInv, Depth
<1>2. AbstractActs = Acts(stack, TopAct) /\ AbstractActs' = Acts(stack', TopAct')
  BY AbstractIs, AbstractNext
<1>3. Chain(below) /\ Len(below) = Depth - 1 /\ Depth - 1 \in Nat \ {0}
  BY <1>1, PopChain DEF TopFrame, Depth
<1>4. stack \in Seq(FramesOf(stack)) /\ Depth \in Nat /\ Depth - 1 \in 0..Len(stack)
  BY <1>1, <1>3, TopIsFrame DEF Chain, Depth
<1>5. \A i \in 1..Depth - 1 : below[i] = stack[i]
  BY <1>4, Front
<1>6. \A i \in 1..Len(stack) - 2 : stack'[i] = stack[i]
  <2>1. \A i \in 1..Len(stack) - 2 : i \in 1..Depth - 1 /\ i \in 1..Len(below) - 1 /\ i # Depth - 1
    BY <1>3, <1>4 DEF Depth
  <2>2. CASE stack' = below
    BY <1>5, <2>1, <2>2
  <2>3. CASE \E g : stack' = [below EXCEPT ![Depth - 1] = g]
    <3>1. PICK g : stack' = [below EXCEPT ![Depth - 1] = g]
      BY <2>3
    <3> HIDE DEF below
    <3>2. LET t == [below EXCEPT ![Len(below)] = g]
          IN  \A i \in 1..Len(below) - 1 : t[i] = below[i]
      BY <1>3, ReplaceTop
    <3>3. \A i \in 1..Len(below) - 1 : stack'[i] = below[i]
      BY <1>3, <3>1, <3>2, Zenon
    <3> QED BY <1>5, <2>1, <3>3
  <2> QED BY <2>2, <2>3
<1> HIDE DEF below
<1>7. Acts(stack', TopAct') = PopTo(Acts(stack, TopAct), Len(stack) - 1, TopAct')
  BY <1>1, <1>6, ActsPop
<1>8. /\ Acts(stack, TopAct) \in Seq(FramesOf(Acts(stack, TopAct)))
      /\ Len(Acts(stack, TopAct)) = Depth
      /\ \A i \in 1..Depth - 1 : Acts(stack, TopAct)[i] = Static(stack[i])
  BY <1>1, ActsIs DEF Depth
<1> DEFINE A == Acts(stack, TopAct)
           P == SubSeq(A, 1, Depth - 1)
<1> HIDE DEF A
<1>9. /\ P \in Seq(FramesOf(A)) /\ Len(P) = Depth - 1 /\ \A i \in 1..Depth - 1 : P[i] = A[i]
      /\ A[Depth - 1] = Static(stack[Depth - 1])
  BY <1>3, <1>4, <1>8, Front DEF A, Depth
<1> HIDE DEF P
<1>10. P[Depth - 1] = Static(stack[Depth - 1]) /\ [P EXCEPT ![Depth - 1] = P[Depth - 1]] = P
  <2> DEFINE n == Depth - 1
  <2>1. n \in 1..n
    BY <1>3, <1>4
  <2>2. P \in Seq(FramesOf(A)) /\ Len(P) = n /\ \A i \in 1..n : P[i] = A[i]
    BY <1>9
  <2>3. P[n] = A[n]
    BY <2>1, <2>2, Zenon
  <2> HIDE DEF n
  <2>4. [P EXCEPT ![n] = P[n]] = P
    BY <2>1, <2>2
  <2> QED BY <1>9, <2>3, <2>4, Zenon DEF n
<1> QED BY <1>2, <1>7, <1>10, Zenon DEF Depth, P, A, PopTo

LEMMA AbstractNow ==
  ASSUME StackInv
  PROVE  /\ CS!Depth = Depth /\ CS!Top = TopAct /\ CS!Pop = SubSeq(AbstractActs, 1, Depth - 1)
         /\ [AbstractActs EXCEPT ![Depth] = TopAct] = AbstractActs
<1>1. AbstractActs = Acts(stack, TopAct) /\ Chain(stack)
  BY AbstractIs DEF StackInv
<1> DEFINE A == Acts(stack, TopAct)
<1>2. /\ Len(A) = Depth /\ A[Depth] = TopAct /\ Depth \in Nat \ {0}
      /\ A \in Seq(FramesOf(A))
  BY <1>1, ActsIs DEF Depth
<1> HIDE DEF A
<1>3. CS!Depth = Depth /\ CS!Top = TopAct /\ CS!Pop = SubSeq(A, 1, Depth - 1)
  BY <1>1, <1>2, Zenon DEF A, CS!Depth, CS!Top, CS!Pop
<1>4. [A EXCEPT ![Depth] = TopAct] = A
  BY <1>2
<1> QED BY <1>1, <1>3, <1>4, Zenon DEF A

LEMMA FrontOfFront ==
  ASSUME NEW S, NEW q \in Seq(S), NEW n \in 0..Len(q), NEW h \in 0..n
  PROVE  SubSeq(SubSeq(q, 1, n), 1, h) = SubSeq(q, 1, h)
<1> DEFINE a == SubSeq(q, 1, n)
           b == SubSeq(a, 1, h)
           c == SubSeq(q, 1, h)
<1>1. a \in Seq(S) /\ Len(a) = n /\ \A i \in 1..n : a[i] = q[i]
  BY Front
<1>2. h \in 0..Len(q) /\ h \in Nat /\ \A i \in 1..h : i \in 1..n
  OBVIOUS
<1>3. c \in Seq(S) /\ Len(c) = h /\ \A i \in 1..h : c[i] = q[i]
  BY <1>2, Front
<1> HIDE DEF a, c
<1>4. b \in Seq(S) /\ Len(b) = h /\ \A i \in 1..h : b[i] = a[i]
  BY <1>1, Front
<1> HIDE DEF b
<1>5. b = c
  BY <1>1, <1>2, <1>3, <1>4, SeqEqual
<1> QED BY <1>5 DEF a, b, c

(* A caller's operands: the callee's arguments lie above its locals.        *)
LEMMA Arguments ==
  ASSUME NEW g, IsFrame(g), g.top <= Len(g.vals), NEW m \in Methods, NEW r \in Nat, Overlaps(r, m, g)
  PROVE  /\ Len(Static(g).operands) = g.top /\ m.params <= g.top /\ r \in 0..Len(g.vals)
         /\ SubSeq(Static(g).operands, 1, Len(Static(g).operands) - m.params) = SubSeq(g.vals, 1, r)
<1>1. g.vals \in Seq(Values) /\ g.top \in Nat /\ m.params \in Nat /\ Len(g.vals) \in Nat
  BY MethodIs DEF IsFrame
<1>2. g.top - m.params = r /\ r \in 0..g.top /\ g.top \in 0..Len(g.vals) /\ m.params <= g.top
  BY <1>1 DEF Overlaps
<1>3. Static(g).operands = SubSeq(g.vals, 1, g.top)
  BY DEF Static, ActOf
<1>4. Len(Static(g).operands) = g.top
  BY <1>1, <1>2, <1>3, Front
<1>5. SubSeq(SubSeq(g.vals, 1, g.top), 1, r) = SubSeq(g.vals, 1, r)
  BY <1>1, <1>2, FrontOfFront
<1> QED BY <1>1, <1>2, <1>3, <1>4, <1>5

Abstract(k, w, n, o) == [kind |-> k, words |-> w, args |-> n, operands |-> o]

OpsThenKind(a, k, o) == [a EXCEPT !.operands = o, !.kind = k]
KindThenOps(a, k, o) == [a EXCEPT !.kind = k, !.operands = o]

LEMMA ActChanges ==
  ASSUME NEW k, NEW w, NEW n, NEW o, NEW k2, NEW o2
  PROVE  /\ OpsThenKind(Abstract(k, w, n, o), k2, o2) = Abstract(k2, w, n, o2)
         /\ KindThenOps(Abstract(k, w, n, o), k2, o2) = Abstract(k2, w, n, o2)
<1>1. [Abstract(k, w, n, o) EXCEPT !.operands = o2] = Abstract(k, w, n, o2)
  BY DEF Abstract
<1>2. [Abstract(k, w, n, o2) EXCEPT !.kind = k2] = Abstract(k2, w, n, o2)
  BY DEF Abstract
<1>3. [Abstract(k, w, n, o) EXCEPT !.kind = k2] = Abstract(k2, w, n, o)
  BY DEF Abstract
<1>4. [Abstract(k2, w, n, o) EXCEPT !.operands = o2] = Abstract(k2, w, n, o2)
  BY DEF Abstract
<1> QED BY <1>1, <1>2, <1>3, <1>4, Zenon DEF OpsThenKind, KindThenOps

LEMMA Replaced ==
  ASSUME NEW g, IsFrame(g), g.kind \notin {"C", "native"}, g.top <= Len(g.vals),
         NEW m \in Methods, NEW r \in Nat, Overlaps(r, m, g), NEW res
  PROVE  CS!Replace(Static(g), m.params, res)
           = ActOf(g, IF g.kind = "stub" THEN "done" ELSE KindOf(g), SubSeq(g.vals, 1, r) \o res)
<1> DEFINE a == Static(g)
           ops == SubSeq(a.operands, 1, Len(a.operands) - m.params) \o res
           kind == IF a.kind = "stub" THEN "done" ELSE a.kind
<1>1. ops = SubSeq(g.vals, 1, r) \o res
  BY Arguments, Zenon
<1>2. a.kind = KindOf(g) /\ kind = IF g.kind = "stub" THEN "done" ELSE KindOf(g)
  BY DEF Static, ActOf, KindOf
<1>3. CS!Replace(a, m.params, res) = [a EXCEPT !.operands = ops, !.kind = kind]
  BY DEF CS!Replace
<1> HIDE DEF ops, kind
<1>4. [a EXCEPT !.operands = ops, !.kind = kind] = ActOf(g, kind, ops)
  <2>1. PICK k, o : a = Abstract(k, g.method.words, g.method.params, o)
    BY DEF Static, ActOf, Abstract
  <2>2. ActOf(g, kind, ops) = Abstract(kind, g.method.words, g.method.params, ops)
    BY DEF ActOf, Abstract
  <2> HIDE DEF a
  <2>3. OpsThenKind(a, kind, ops) = ActOf(g, kind, ops)
    BY <2>1, <2>2, ActChanges
  <2> QED BY <2>3, Zenon DEF OpsThenKind
<1> QED BY <1>1, <1>2, <1>3, <1>4

LEMMA RunningNow == ASSUME StackInv, pc = "code"
  PROVE  TopAct = Static(TopFrame) /\ CS!Running /\ IsFrame(TopFrame) /\ AtCode
<1>1. TopAct = Static(TopFrame) /\ IsFrame(TopFrame) /\ AtCode
  BY TopIs, TopIsFrame DEF StackInv, Registers
<1>2. CS!Top = Static(TopFrame)
  BY <1>1, AbstractNow
<1>3. Static(TopFrame).kind \in {"C", "method"}
  BY <1>1 DEF AtCode, Static, ActOf, KindOf, MethodFrames
<1> QED BY <1>1, <1>2, <1>3 DEF CS!Running

-----------------------------------------------------------------------------
LEMMA MapsCallStub == ASSUME StackInv, StackInv', CallStub PROVE CS!CallFromVM
<1>1. PICK m \in Methods, v \in Values :
        stack' = Append([stack EXCEPT ![Depth].lrSave = anchor.pc],
                        StubFrame(v, m.params, anchor, <<rmethod, rlocals, rstate>>))
  BY Zenon DEF CallStub, StubFrame
<1> DEFINE f == StubFrame(v, m.params, anchor, <<rmethod, rlocals, rstate>>)
<1>2. m.params \in Nat /\ f = StubFrame(v, m.params, anchor, <<rmethod, rlocals, rstate>>)
  BY MethodIs
<1>3. pc = "code" /\ ~exc /\ exc' = exc /\ result' = result /\ pc' = "entry"
  BY Zenon DEF CallStub
<1> HIDE DEF f
<1>4. stack' = Append([stack EXCEPT ![Depth].lrSave = anchor.pc], f)
  BY <1>1, Zenon DEF f
<1>5. /\ IsFrame(f) /\ f.kind = "stub" /\ f.top = m.params /\ f.vals = Copy(m.params, v)
      /\ Len(f.vals) = m.params
  BY <1>2, NewStub
<1>6. TopFrame' = f /\ Depth' = Depth + 1
  BY <1>4, PushTop DEF StackInv
<1>7. TopAct = Static(TopFrame) /\ CS!Running
  BY <1>3, RunningNow
<1>8. AbstractActs' = Append(AbstractActs, TopAct')
  BY <1>4, <1>6, <1>7, Pushed
<1>9. TopAct' = [CS!Cpp EXCEPT !.kind = "stub", !.operands = CS!Copies(m.params, v)]
  <2>1. f.vals \in Seq(Values) /\ f.method = NoMethod /\ m.params \in 0..Len(f.vals)
    BY <1>2, <1>5 DEF IsFrame, MethodFrames
  <2>2. SubSeq(f.vals, 1, m.params) = f.vals
    BY <1>5, <2>1, Front
  <2>3. TopAct' = Static(f)
    BY <1>3, <1>6, TopNext
  <2>4. Static(f) = [kind |-> "stub", words |-> 0, args |-> 0, operands |-> f.vals]
    BY <1>5, <2>1, <2>2 DEF Static, ActOf, KindOf, NoMethod
  <2>5. CS!Copies(m.params, v) = f.vals
    BY <1>5 DEF CS!Copies, Copy
  <2>6. [CS!Cpp EXCEPT !.kind = "stub", !.operands = CS!Copies(m.params, v)]
          = Abstract("stub", 0, 0, CS!Copies(m.params, v))
    <3>1. CS!Cpp = Abstract("C", 0, 0, <<>>)
      BY DEF CS!Cpp, Abstract
    <3>2. KindThenOps(CS!Cpp, "stub", CS!Copies(m.params, v))
            = Abstract("stub", 0, 0, CS!Copies(m.params, v))
      BY <3>1, ActChanges
    <3> QED BY <3>2, Zenon DEF KindThenOps
  <2> QED BY <2>3, <2>4, <2>5, <2>6, Zenon DEF Abstract
<1> QED BY <1>1, <1>3, <1>7, <1>8, <1>9, Zenon DEF CS!CallFromVM

LEMMA MapsStubReturns == ASSUME StackInv, StackInv', StubReturns PROVE CS!ReturnToVM
<1>1. /\ pc = "blr" /\ stack' = SubSeq(stack, 1, Depth - 1) /\ pc' = "code" /\ exc' = exc
      /\ result' = IF exc THEN <<>> ELSE [i \in 1..rmethod.words |-> tosca]
      /\ lr = "stub"
  BY DEF StubReturns
<1>2. AtReturn /\ TopFrame.kind = "stub" /\ rlocals = 0 /\ Chain(stack) /\ rmethod \in Methods
  BY <1>1 DEF StackInv, Registers, AtReturn, Lands
<1>3. Depth' = Depth - 1 /\ TopFrame' = stack[Depth - 1]
  BY <1>1, <1>2, Pops
<1>4. TopAct' = Static(stack[Depth - 1])
  BY <1>1, <1>3, TopNext
<1>5. /\ AbstractActs' = PopTo(AbstractActs, Depth - 1, TopAct')
      /\ PopTo(AbstractActs, Depth - 1, Static(stack[Depth - 1])) = SubSeq(AbstractActs, 1, Depth - 1)
  BY <1>1, <1>2, <1>3, Popped
<1>6. AbstractActs' = CS!Pop
  BY <1>4, <1>5, AbstractNow
<1>7. OnTheWay = result' /\ OnTheWay \in Seq({tosca})
  <2>1. rmethod.words \in Nat
    BY <1>2, MethodIs
  <2> QED BY <1>1, <2>1, Copied DEF OnTheWay, Copy
<1>8. TopAct.kind = "done" /\ TopAct.operands = result'
  <2>1. TopAct = ActOf(TopFrame, "done", SubSeq(TopFrame.vals, 1, rlocals) \o OnTheWay)
    BY <1>1, <1>2, TopIs
  <2>2. SubSeq(TopFrame.vals, 1, rlocals) = <<>>
    BY <1>2, SubSeqEmpty
  <2>3. SubSeq(TopFrame.vals, 1, rlocals) \o OnTheWay = result'
    BY <1>7, <2>2, ConcatEmptySeq
  <2> QED BY <2>1, <2>3 DEF ActOf
<1> QED BY <1>1, <1>6, <1>8, AbstractNow DEF CS!ReturnToVM

(* A method is entered: its caller can call it.                             *)
LEMMA CallableNow == ASSUME StackInv, pc \in {"entry", "re_dispatch"}
  PROVE  /\ Called /\ Chain(stack) /\ IsFrame(TopFrame) /\ TopFrame.kind \in {"stub", "interpreter"}
         /\ TopAct = Static(TopFrame) /\ CS!Callable(rmethod) /\ Values # {}
<1>1. Called /\ IsFrame(TopFrame) /\ Chain(stack) /\ Depth \in Nat \ {0}
  BY TopIsFrame DEF StackInv, Registers, AtReDispatch
<1>2. TopFrame.kind \in {"stub", "interpreter"}
  BY DEF StackInv, Registers, AtReDispatch, Lands
<1>3. TopAct = Static(TopFrame)
  BY TopIs
<1>4. Len(Static(TopFrame).operands) = TopFrame.top /\ rmethod.params <= TopFrame.top
  BY <1>1, Arguments DEF Called
<1>5. Static(TopFrame).kind \in {"stub", "method"}
  BY <1>2 DEF Static, ActOf, KindOf
<1>6. CS!Callable(rmethod)
  BY <1>1, <1>3, <1>4, <1>5, AbstractNow DEF CS!Callable, Called
<1>7. Depth # 1
  BY <1>1, <1>2 DEF Chain, TopFrame, Depth
<1> QED BY <1>1, <1>2, <1>3, <1>6, <1>7 DEF StackInv, Bounded

LEMMA NoWords == \A v, w : Copy(0, v) = Copy(0, w)
BY DEF Copy

LEMMA MapsEnterFast == ASSUME StackInv, StackInv', EnterFast
                       PROVE  CS!LeafCall \/ UNCHANGED CS!vars
<1>0. /\ pc = "entry" /\ stack' = stack /\ exc' = exc /\ result' = result /\ rmethod' = rmethod
      /\ rlocals' = rlocals
  BY DEF EnterFast, SlowPath
<1>1. Depth' = Depth /\ TopFrame' = TopFrame
  BY <1>0 DEF Depth, TopFrame
<1>2. AbstractActs' = [AbstractActs EXCEPT ![Depth] = TopAct']
  BY <1>0, <1>1, TopKept
<1>3. TopAct = Static(TopFrame)
  BY <1>0, CallableNow
<1>4. CASE pc' = "re_dispatch"
  <2>1. TopAct' = TopAct
    BY <1>1, <1>3, <1>4, TopNext
  <2> QED BY <1>0, <1>2, <2>1, AbstractNow DEF CS!vars
<1>5. CASE pc' = "blr" /\ tosca' \in IF rmethod.words = 0 THEN {NoValue} ELSE Values
  <2>1. PICK v \in Values : rmethod.words = 0 \/ tosca' = v
    <3>1. Values # {}
      BY <1>0, CallableNow
    <3> QED BY <1>5, <3>1
  <2>2. OnTheWay' = CS!Copies(rmethod.words, v)
    <3>1. OnTheWay' = Copy(rmethod.words, tosca')
      BY <1>0, CallableNow DEF OnTheWay, Called
    <3>2. Copy(rmethod.words, tosca') = Copy(rmethod.words, v)
      BY <2>1, NoWords
    <3> QED BY <3>1, <3>2 DEF CS!Copies, Copy
  <2>3. TopAct' = CS!Replace(Static(TopFrame), rmethod.params, OnTheWay')
    <3>1. /\ IsFrame(TopFrame) /\ TopFrame.kind \notin {"C", "native"} /\ TopFrame.top <= Len(TopFrame.vals)
          /\ rmethod \in Methods /\ rlocals \in Nat /\ Overlaps(rlocals, rmethod, TopFrame)
      BY <1>0, CallableNow DEF Called
    <3> DEFINE res == OnTheWay'
    <3> HIDE DEF res
    <3>2. CS!Replace(Static(TopFrame), rmethod.params, res)
            = ActOf(TopFrame, IF TopFrame.kind = "stub" THEN "done" ELSE KindOf(TopFrame),
                    SubSeq(TopFrame.vals, 1, rlocals) \o res)
      BY <3>1, Replaced
    <3>3. TopAct' = ActOf(TopFrame, IF TopFrame.kind = "stub" THEN "done" ELSE KindOf(TopFrame),
                          SubSeq(TopFrame.vals, 1, rlocals) \o res)
      BY <1>0, <1>1, <1>5, TopNext DEF res
    <3> QED BY <3>2, <3>3 DEF res
  <2>4. AbstractActs' = [AbstractActs EXCEPT ![CS!Depth] =
                           CS!Replace(CS!Top, rmethod.params, CS!Copies(rmethod.words, v))]
    BY <1>2, <1>3, <2>2, <2>3, AbstractNow, Zenon
  <2>5. CS!Callable(rmethod) /\ rmethod \in Methods
    BY <1>0, CallableNow DEF Called
  <2> QED BY <1>0, <2>4, <2>5, Zenon DEF CS!LeafCall, CS!Top
<1> QED BY <1>4, <1>5 DEF EnterFast, SlowPath

LEMMA MapsCall ==
  ASSUME StackInv, StackInv', NEW kind \in MethodFrames, NEW prev, NewState(kind, prev),
         pc \in {"entry", "re_dispatch"}, pc' = "code", exc' = exc, result' = result
  PROVE  CS!Call
<1> DEFINE f == Activation(kind, rmethod, prev, rlocals)
<1>1. stack' = Append([stack EXCEPT ![Depth].lrSave = lr], f)
  BY Zenon DEF NewState, Activation
<1>2. /\ IsFrame(f) /\ f.kind = kind /\ f.method = rmethod /\ f.top = 0 /\ f.vals = <<>>
      /\ rmethod \in Methods
  BY CallableNow, NewActivation DEF Called
<1> HIDE DEF f
<1>3. TopFrame' = f /\ Depth' = Depth + 1
  BY <1>1, PushTop DEF StackInv
<1>4. AbstractActs' = Append(AbstractActs, TopAct')
  BY <1>1, <1>3, CallableNow, Pushed
<1>5. TopAct' = CS!Act("method", rmethod)
  <2>1. TopAct' = Static(f)
    BY <1>3, TopNext
  <2>2. SubSeq(f.vals, 1, f.top) = <<>>
    BY <1>2, SubSeqEmpty
  <2> QED BY <1>2, <2>1, <2>2 DEF Static, ActOf, KindOf, CS!Act, MethodFrames
<1>6. CS!Callable(rmethod)
  BY CallableNow
<1> QED BY <1>2, <1>4, <1>5, <1>6 DEF CS!Call

(* The caller's activation once the result, or nothing, replaced the        *)
(* arguments: on the way, or stored by the frame manager.                   *)
LEMMA ReturnedTop ==
  ASSUME StackInv, StackInv', NativeReturns \/ ReturnFromMethod \/ ThrowingException
  PROVE  /\ Depth' = Depth - 1
         /\ AbstractActs' = PopTo(AbstractActs, Depth - 1, TopAct')
         /\ \E v : /\ ~exc /\ rmethod.words # 0 => v \in Values
                  /\ TopAct' = CS!Replace(Static(stack[Depth - 1]), rmethod.params,
                                         IF exc THEN <<>> ELSE Copy(rmethod.words, v))
<1> DEFINE below == SubSeq(stack, 1, Depth - 1)
           g == stack[Depth - 1]
           NewTop(res) == CS!Replace(Static(g), rmethod.params, res)
<1>1. /\ TopFrame.kind # "C" /\ IsFrame(g) /\ g.kind \notin {"C", "native"} /\ Chain(stack)
      /\ rmethod \in Methods /\ rlocals \in 0..Len(g.vals) /\ g.top <= Len(g.vals)
      /\ Overlaps(rlocals, rmethod, g)
      /\ TopFrame.prev # 0 => g.kind = "interpreter"
  BY Unwinds DEF MethodFrames, StackInv
<1>2. rlocals \in Nat /\ rmethod.words \in Nat /\ Len(g.vals) \in Nat /\ g.vals \in Seq(Values)
  BY <1>1, MethodIs DEF IsFrame
<1>3. ASSUME NEW res
      PROVE  NewTop(res) = ActOf(g, IF g.kind = "stub" THEN "done" ELSE KindOf(g),
                                 SubSeq(g.vals, 1, rlocals) \o res)
  BY <1>1, <1>2, Replaced
<1>4. exc' = exc /\ rmethod' = rmethod
  BY DEF NativeReturns, ReturnFromMethod, ThrowingException
<1> HIDE DEF below, NewTop
(* The three ways back.                                                     *)
<1>5. ASSUME stack' = below, rlocals' = rlocals, pc' = "blr"
      PROVE  /\ Depth' = Depth - 1
             /\ AbstractActs' = PopTo(AbstractActs, Depth - 1, TopAct')
             /\ TopAct' = NewTop(IF exc THEN <<>> ELSE Copy(rmethod.words, tosca'))
  <2>1. Depth' = Depth - 1 /\ TopFrame' = g
    BY <1>1, <1>5, Pops DEF below
  <2>2. AbstractActs' = PopTo(AbstractActs, Depth - 1, TopAct')
    BY <1>1, <1>5, <2>1, Popped DEF below
  <2> DEFINE res == OnTheWay'
  <2>3. res = IF exc THEN <<>> ELSE Copy(rmethod.words, tosca')
    BY <1>4 DEF OnTheWay
  <2>4. TopAct' = ActOf(g, IF g.kind = "stub" THEN "done" ELSE KindOf(g),
                        SubSeq(g.vals, 1, rlocals) \o res)
    BY <1>5, <2>1, TopNext
  <2> HIDE DEF res
  <2>5. TopAct' = NewTop(res)
    BY <1>3, <2>4
  <2> QED BY <2>1, <2>2, <2>3, <2>5
<1>6. ASSUME stack' = below, rlocals' = rlocals, pc' = "resume", exc, TopFrame.prev # 0
      PROVE  /\ Depth' = Depth - 1
             /\ AbstractActs' = PopTo(AbstractActs, Depth - 1, TopAct')
             /\ TopAct' = NewTop(<<>>)
  <2>1. Depth' = Depth - 1 /\ TopFrame' = g
    BY <1>1, <1>6, Pops DEF below
  <2>2. AbstractActs' = PopTo(AbstractActs, Depth - 1, TopAct')
    BY <1>1, <1>6, <2>1, Popped DEF below
  <2>3. TopAct' = ActOf(g, KindOf(g), SubSeq(g.vals, 1, rlocals))
    BY <1>6, <2>1, TopNext
  <2>4. SubSeq(g.vals, 1, rlocals) \o <<>> = SubSeq(g.vals, 1, rlocals)
    BY <1>1, <1>2, Front, ConcatEmptySeq
  <2>5. NewTop(<<>>) = ActOf(g, IF g.kind = "stub" THEN "done" ELSE KindOf(g),
                             SubSeq(g.vals, 1, rlocals) \o <<>>)
    BY <1>3
  <2> QED BY <1>1, <1>6, <2>1, <2>2, <2>3, <2>4, <2>5
<1>7. ASSUME NEW v, rmethod.words # 0 => v \in Values, ~exc, TopFrame.prev # 0, pc' = "resume",
             rlocals' = rlocals + rmethod.words,
             stack' = [below EXCEPT ![Depth - 1] = Put(g, rlocals, v, rmethod.words)]
      PROVE  /\ Depth' = Depth - 1
             /\ AbstractActs' = PopTo(AbstractActs, Depth - 1, TopAct')
             /\ TopAct' = NewTop(Copy(rmethod.words, v))
  <2> DEFINE h == Put(g, rlocals, v, rmethod.words)
  <2>1. Kept(h, g)
    BY <1>1, <1>2, <1>7, KeepsResult
  <2>a. h.vals = OnTop(g.vals, rlocals, rmethod.words, v)
    BY <1>1, <1>2, <1>7, KeepsResult
  <2>2. Len(h.vals) = rlocals + rmethod.words
    BY <1>1, <1>2, <1>7, KeepsResult
  <2>3. stack' = [below EXCEPT ![Depth - 1] = h]
    BY <1>7
  <2> HIDE DEF h
  <2>4. Depth' = Depth - 1 /\ TopFrame' = h
    BY <1>1, <2>3, PopPut DEF below
  <2>5. AbstractActs' = PopTo(AbstractActs, Depth - 1, TopAct')
    BY <1>1, <2>3, <2>4, Popped DEF below
  <2>6. TopAct' = ActOf(h, KindOf(h), SubSeq(h.vals, 1, Len(h.vals)))
    BY <1>7, <2>2, <2>4, TopNext
  <2>7. SubSeq(h.vals, 1, Len(h.vals)) = h.vals
    <3>1. h.vals \in Seq(Values) /\ Len(h.vals) \in 0..Len(h.vals)
      BY <1>2, <2>1, <2>2 DEF Kept, IsFrame
    <3> QED BY <3>1, Front
  <2>8. h.method = g.method /\ KindOf(h) = KindOf(g)
    BY <2>1 DEF Kept, KindOf
  <2>9. TopAct' = ActOf(g, KindOf(g), SubSeq(g.vals, 1, rlocals) \o Copy(rmethod.words, v))
    BY <2>a, <2>6, <2>7, <2>8 DEF ActOf, OnTop
  <2> DEFINE res == Copy(rmethod.words, v)
  <2> HIDE DEF res
  <2>10. NewTop(res) = ActOf(g, IF g.kind = "stub" THEN "done" ELSE KindOf(g),
                             SubSeq(g.vals, 1, rlocals) \o res)
    BY <1>3
  <2> QED BY <1>1, <1>7, <2>4, <2>5, <2>9, <2>10 DEF res
<1>8. CASE NativeReturns
  <2>1. /\ stack' = below /\ rlocals' = rlocals /\ pc' = "blr"
        /\ ~exc /\ rmethod.words # 0 => tosca' \in Values
    BY <1>8 DEF NativeReturns, Unwind, below
  <2> QED BY <1>5, <2>1 DEF NewTop
<1>9. CASE ThrowingException
  <2>1. /\ stack' = below /\ rlocals' = rlocals /\ exc
        /\ pc' = IF TopFrame.prev # 0 THEN "resume" ELSE "blr"
    BY <1>9 DEF ThrowingException, Unwind, below
  <2> QED BY <1>5, <1>6, <2>1 DEF NewTop
<1>10. CASE ReturnFromMethod
  <2>1. ~exc
    BY <1>10 DEF ReturnFromMethod
  <2>2. PICK v :
          /\ rmethod.words # 0 => v \in Values
          /\ \/ /\ TopFrame.prev = 0 /\ pc' = "blr" /\ tosca' = v /\ rlocals' = rlocals
                /\ stack' = below
             \/ /\ TopFrame.prev # 0 /\ pc' = "resume" /\ rlocals' = rlocals + rmethod.words
                /\ stack' = [below EXCEPT ![Depth - 1] = Put(g, rlocals, v, rmethod.words)]
    BY <1>10, ReturnedResult, Zenon DEF below
  <2>3. CASE TopFrame.prev = 0
    BY <1>5, <2>1, <2>2, <2>3 DEF NewTop
  <2>4. CASE TopFrame.prev # 0
    BY <1>7, <2>1, <2>2, <2>4 DEF NewTop
  <2> QED BY <2>3, <2>4
<1> QED BY <1>8, <1>9, <1>10

LEMMA MapsReturn ==
  ASSUME StackInv, StackInv', NativeReturns \/ ReturnFromMethod \/ ThrowingException
  PROVE  CS!Return \/ CS!Throw
<1> DEFINE g == stack[Depth - 1]
<1>1. /\ TopFrame.kind \in MethodFrames /\ pc = "code" /\ rmethod = TopFrame.method
      /\ rmethod \in Methods /\ Depth - 1 \in Nat \ {0} /\ Depth \in Nat
  BY Unwinds
<1>2. exc' = exc /\ result' = result
  BY DEF NativeReturns, ReturnFromMethod, ThrowingException
<1>3. PICK v : /\ ~exc /\ rmethod.words # 0 => v \in Values
               /\ TopAct' = CS!Replace(Static(g), rmethod.params,
                                      IF exc THEN <<>> ELSE Copy(rmethod.words, v))
               /\ AbstractActs' = PopTo(AbstractActs, Depth - 1, TopAct')
               /\ Depth' = Depth - 1
  BY ReturnedTop
<1>4. /\ CS!Top = Static(TopFrame) /\ CS!Depth = Depth
      /\ CS!Pop = SubSeq(AbstractActs, 1, Depth - 1)
  BY <1>1, RunningNow, AbstractNow
<1>5. /\ CS!Top.kind = "method" /\ CS!Top.args = rmethod.params /\ CS!Top.words = rmethod.words
  BY <1>1, <1>4 DEF Static, ActOf, KindOf, MethodFrames
<1>6. CS!Pop[CS!Depth - 1] = Static(g)
  <2>1. \/ stack' = SubSeq(stack, 1, Depth - 1)
        \/ \E h : stack' = [SubSeq(stack, 1, Depth - 1) EXCEPT ![Depth - 1] = h]
    BY ReturnedResult DEF NativeReturns, ThrowingException, Unwind
  <2>2. TopFrame.kind # "C"
    BY <1>1 DEF MethodFrames
  <2> QED BY <1>3, <1>4, <2>1, <2>2, Popped
<1>7. ASSUME NEW res, TopAct' = CS!Replace(Static(g), rmethod.params, res)
      PROVE  AbstractActs' = [CS!Pop EXCEPT ![CS!Depth - 1] =
                                CS!Replace(CS!Pop[CS!Depth - 1], CS!Top.args, res)]
  BY <1>3, <1>4, <1>5, <1>6, <1>7, Zenon DEF PopTo
<1>8. CASE exc
  <2>1. TopAct' = CS!Replace(Static(g), rmethod.params, <<>>)
    BY <1>3, <1>8
  <2>2. AbstractActs' = [CS!Pop EXCEPT ![CS!Depth - 1] =
                           CS!Replace(CS!Pop[CS!Depth - 1], CS!Top.args, <<>>)]
    BY <1>7, <2>1
  <2> QED BY <1>2, <1>5, <1>8, <2>2, Zenon DEF CS!Throw
<1>9. CASE ~exc
  <2>1. PICK w \in Values : Copy(rmethod.words, v) = CS!Copies(rmethod.words, w)
    <3>1. CASE rmethod.words # 0
      BY <1>3, <1>9, <3>1 DEF Copy, CS!Copies
    <3>2. CASE rmethod.words = 0
      <4>1. PICK w : w \in Values
        <5>1. Values # {}
          BY <1>1 DEF StackInv, Bounded
        <5> QED BY <5>1
      <4>2. Copy(0, v) = Copy(0, w)
        BY NoWords
      <4> QED BY <3>2, <4>1, <4>2 DEF Copy, CS!Copies
    <3> QED BY <3>1, <3>2
  <2>2. TopAct' = CS!Replace(Static(g), rmethod.params, CS!Copies(CS!Top.words, w))
    BY <1>3, <1>5, <1>9, <2>1
  <2>3. AbstractActs' = [CS!Pop EXCEPT ![CS!Depth - 1] =
                           CS!Replace(CS!Pop[CS!Depth - 1], CS!Top.args, CS!Copies(CS!Top.words, w))]
    BY <1>7, <2>2
  <2> QED BY <1>2, <1>5, <1>9, <2>3, Zenon DEF CS!Return
<1> QED BY <1>8, <1>9

(* Two frames that differ in their operands.                                *)
LEMMA OperandsOnly ==
  ASSUME NEW f, NEW h, Kept(h, f)
  PROVE  [Static(f) EXCEPT !.operands = Static(h).operands] = Static(h)
<1> DEFINE o == SubSeq(h.vals, 1, h.top)
<1>1. PICK k, w, n, p : Static(f) = Abstract(k, w, n, p) /\ Static(h) = Abstract(k, w, n, o)
  BY DEF Kept, Static, ActOf, KindOf, Abstract
<1> HIDE DEF o
<1>2. Abstract(k, w, n, o).operands = o
  BY DEF Abstract
<1>3. [Abstract(k, w, n, p) EXCEPT !.operands = o] = Abstract(k, w, n, o)
  BY DEF Abstract
<1> QED BY <1>1, <1>2, <1>3

(* The abstract operands change as those of the top frame do.               *)
LEMMA OperandsChange ==
  ASSUME StackInv, StackInv', pc = "code", pc' = "code", NEW h, Kept(h, TopFrame),
         stack' = [stack EXCEPT ![Depth] = h]
  PROVE  AbstractActs' = [AbstractActs EXCEPT ![CS!Depth].operands = Static(h).operands]
<1>1. Depth' = Depth /\ TopFrame' = h
  BY Changes DEF StackInv
<1>2. AbstractActs' = [AbstractActs EXCEPT ![Depth] = TopAct']
  BY <1>1, TopKept
<1>3. TopAct' = Static(h)
  BY <1>1, TopNext
<1>4. [Static(TopFrame) EXCEPT !.operands = Static(h).operands] = Static(h)
  BY OperandsOnly
<1>5. CS!Top = Static(TopFrame) /\ CS!Depth = Depth
  BY RunningNow, AbstractNow
<1>6. AbstractActs[CS!Depth] = Static(TopFrame)
  BY <1>5, Zenon DEF CS!Top
<1> QED BY <1>2, <1>3, <1>4, <1>5, <1>6

LEMMA MapsCompute == ASSUME StackInv, StackInv', Compute PROVE CS!Compute
<1>1. /\ pc = "code" /\ pc' = "code" /\ exc' = exc /\ result' = result
  BY DEF Compute, Interpreting
<1>2. /\ TopAct = Static(TopFrame) /\ CS!Running /\ IsFrame(TopFrame) /\ AtCode
      /\ TopFrame.kind = "interpreter"
  BY <1>1, RunningNow, Computes
<1> DEFINE ops == Static(TopFrame).operands
           top == TopFrame.top
           vals == TopFrame.vals
<1>3. /\ top \in 0..Len(vals) /\ top \in Nat /\ vals \in Seq(Values) /\ Len(vals) \in Nat
      /\ ops = SubSeq(vals, 1, top)
  BY <1>2 DEF IsFrame, AtCode, Static, ActOf
<1>4. CS!Top.operands = ops /\ ops \in Seq(Values) /\ Len(ops) = top
  <2>1. CS!Top = Static(TopFrame)
    BY <1>2, AbstractNow
  <2>2. SubSeq(vals, 1, top) \in Seq(Values) /\ Len(SubSeq(vals, 1, top)) = top
    BY <1>3, Front
  <2> QED BY <1>3, <2>1, <2>2
<1>5. ASSUME NEW v \in Values, stack' = [stack EXCEPT ![Depth] = Push(TopFrame, v)]
      PROVE  AbstractActs' = [AbstractActs EXCEPT ![CS!Depth].operands = Append(ops, v)]
  <2> DEFINE h == Push(TopFrame, v)
  <2>1. /\ Kept(h, TopFrame) /\ h.top = top + 1 /\ Len(h.vals) = top + 1
        /\ h.vals = OnTop(vals, top, 1, v)
    BY <1>2, KeepsPushed DEF AtCode
  <2> HIDE DEF h
  <2>2. SubSeq(h.vals, 1, h.top) = h.vals
    <3>1. h.vals \in Seq(Values) /\ h.top \in 0..Len(h.vals) /\ h.top = Len(h.vals)
      BY <1>3, <2>1 DEF Kept, IsFrame
    <3> QED BY <3>1, Front
  <2>3. OnTop(vals, top, 1, v) = Append(ops, v)
    <3>1. Copy(1, v) = <<v>>
      BY DEF Copy
    <3>2. ops \o <<v>> = Append(ops, v)
      <4> HIDE DEF ops
      <4> QED BY <1>4, AppendIsConcat
    <3> QED BY <1>3, <3>1, <3>2 DEF OnTop
  <2>4. Static(h).operands = Append(ops, v)
    BY <2>1, <2>2, <2>3 DEF Static, ActOf
  <2>5. AbstractActs' = [AbstractActs EXCEPT ![CS!Depth].operands = Static(h).operands]
    BY <1>1, <1>5, <2>1, OperandsChange DEF h
  <2> QED BY <2>4, <2>5, Zenon
<1>6. ASSUME top > 0, stack' = [stack EXCEPT ![Depth] = SetTop(TopFrame, top - 1)]
      PROVE  AbstractActs' = [AbstractActs EXCEPT ![CS!Depth].operands = SubSeq(ops, 1, Len(ops) - 1)]
  <2> DEFINE h == SetTop(TopFrame, top - 1)
  <2>0. top - 1 \in 0..Len(vals) /\ top - 1 \in 0..top
    BY <1>3, <1>6
  <2>1. /\ Kept(h, TopFrame) /\ h.top = top - 1 /\ Len(h.vals) = top - 1
        /\ h.vals = SubSeq(vals, 1, top - 1)
    BY <1>2, <2>0, KeepsTop
  <2> HIDE DEF h
  <2>2. SubSeq(h.vals, 1, h.top) = h.vals
    <3>1. h.vals \in Seq(Values) /\ h.top \in 0..Len(h.vals) /\ h.top = Len(h.vals)
      BY <2>0, <2>1 DEF Kept, IsFrame
    <3> QED BY <3>1, Front
  <2>3. SubSeq(SubSeq(vals, 1, top), 1, top - 1) = SubSeq(vals, 1, top - 1)
    <3> DEFINE n == top - 1
    <3>1. n \in 0..top
      BY <2>0
    <3> HIDE DEF n
    <3>2. SubSeq(SubSeq(vals, 1, top), 1, n) = SubSeq(vals, 1, n)
      BY <1>3, <3>1, FrontOfFront
    <3> QED BY <3>2 DEF n
  <2>4. Static(h).operands = SubSeq(ops, 1, Len(ops) - 1)
    <3>1. Static(h).operands = SubSeq(vals, 1, top - 1)
      BY <2>1, <2>2 DEF Static, ActOf
    <3> QED BY <1>3, <1>4, <2>3, <3>1
  <2>5. AbstractActs' = [AbstractActs EXCEPT ![CS!Depth].operands = Static(h).operands]
    BY <1>1, <1>6, <2>1, OperandsChange DEF h
  <2> QED BY <2>4, <2>5, Zenon
<1> HIDE DEF ops, top
<1>7. \E o \in {SubSeq(ops, 1, Len(ops) - 1)} \cup {Append(ops, v) : v \in Values} :
        AbstractActs' = [AbstractActs EXCEPT ![CS!Depth].operands = o]
  BY <1>5, <1>6, Computes DEF top
<1>8. \E o \in {SubSeq(CS!Top.operands, 1, Len(CS!Top.operands) - 1)}
                 \cup {Append(CS!Top.operands, v) : v \in Values} :
        AbstractActs' = [AbstractActs EXCEPT ![CS!Depth].operands = o]
  <2> DEFINE top2 == CS!Top.operands
  <2>1. top2 = ops
    BY <1>4
  <2> HIDE DEF top2
  <2>2. \E o \in {SubSeq(top2, 1, Len(top2) - 1)} \cup {Append(top2, v) : v \in Values} :
          AbstractActs' = [AbstractActs EXCEPT ![CS!Depth].operands = o]
    BY <1>7, <2>1
  <2> QED BY <2>2 DEF top2
<1> QED BY <1>1, <1>2, <1>8, Zenon DEF CS!Compute

LEMMA MapsCatch == ASSUME StackInv, StackInv', Catch PROVE CS!Catch
<1>1. pc = "code" /\ pc' = "code" /\ exc /\ exc' = FALSE /\ result' = result
  BY DEF Catch, Interpreting
<1>2. TopAct = Static(TopFrame) /\ CS!Running /\ IsFrame(TopFrame) /\ AtCode
  BY <1>1, RunningNow
<1>3. TopFrame.vals \in Seq(Values) /\ Len(TopFrame.vals) \in Nat /\ 0 \in 0..Len(TopFrame.vals)
  BY <1>2 DEF IsFrame
<1>4. CASE TopFrame.kind = "interpreter" /\ stack' = [stack EXCEPT ![Depth] = SetTop(TopFrame, 0)]
  <2> DEFINE h == SetTop(TopFrame, 0)
  <2>1. Kept(h, TopFrame) /\ h.top = 0
    BY <1>2, <1>3, <1>4, KeepsTop
  <2>2. stack' = [stack EXCEPT ![Depth] = h]
    BY <1>4
  <2> HIDE DEF h
  <2>3. Static(h).operands = <<>>
    BY <2>1, SubSeqEmpty DEF Static, ActOf
  <2>4. AbstractActs' = [AbstractActs EXCEPT ![CS!Depth].operands = Static(h).operands]
    BY <1>1, <2>1, <2>2, OperandsChange
  <2> QED BY <1>1, <1>2, <2>3, <2>4, Zenon DEF CS!Catch
<1>5. CASE TopFrame.kind # "interpreter" /\ stack' = stack
  <2>1. Depth' = Depth /\ TopFrame' = TopFrame
    BY <1>5 DEF Depth, TopFrame
  <2>2. TopFrame.top = 0
    BY <1>2, <1>5 DEF AtCode, IsFrame, MethodFrames
  <2>3. Static(TopFrame).operands = <<>>
    BY <2>2, SubSeqEmpty DEF Static, ActOf
  <2>4. TopAct' = Static(TopFrame)
    BY <1>1, <2>1, TopNext
  <2>5. AbstractActs' = [AbstractActs EXCEPT ![Depth] = Static(TopFrame)]
    BY <1>5, <2>1, <2>4, TopKept
  <2>6. [Static(TopFrame) EXCEPT !.operands = Static(TopFrame).operands] = Static(TopFrame)
    BY <1>2, KeepsItself, OperandsOnly
  <2>7. CS!Depth = Depth /\ AbstractActs[CS!Depth] = Static(TopFrame)
    BY <1>2, AbstractNow, Zenon DEF CS!Top
  <2>8. AbstractActs' = [AbstractActs EXCEPT ![CS!Depth].operands = <<>>]
    BY <2>3, <2>5, <2>6, <2>7
  <2> QED BY <1>1, <1>2, <2>8, Zenon DEF CS!Catch
<1> QED BY <1>4, <1>5 DEF Catch, Interpreting, TopFrame

(* Nothing happens to the activations.                                      *)
LEMMA Stutters ==
  ASSUME StackInv, StackInv', stack' = stack \/ \E g : stack' = [stack EXCEPT ![Depth] = g],
         Depth' = Depth, TopAct' = TopAct, exc' = exc, result' = result
  PROVE  UNCHANGED CS!vars
<1>1. AbstractActs' = AbstractActs
  BY TopKept, AbstractNow, Zenon
<1> QED BY <1>1, Zenon DEF CS!vars

LEMMA MapsInert == ASSUME StackInv, StackInv', EnterNormal \/ CallMethod \/ MoreMonitors
                   PROVE  UNCHANGED CS!vars
<1>1. /\ stack' = stack /\ exc' = exc /\ result' = result
      /\ pc \notin {"blr", "resume"} /\ pc' \notin {"blr", "resume"}
  BY DEF EnterNormal, SlowPath, CallMethod, MoreMonitors, Interpreting, RunInterpreter
<1>2. Depth' = Depth /\ TopFrame' = TopFrame
  BY <1>1 DEF Depth, TopFrame
<1>3. TopAct = Static(TopFrame) /\ TopAct' = Static(TopFrame)
  BY <1>1, <1>2, TopIs, TopNext
<1> QED BY <1>1, <1>2, <1>3, Stutters

(* The frame manager stores a result that was on the way.                   *)
LEMMA MapsManagerResumes == ASSUME StackInv, StackInv', ManagerResumes PROVE UNCHANGED CS!vars
<1>1. /\ pc = "blr" /\ pc' = "resume" /\ exc' = exc /\ result' = result /\ AtReturn
      /\ TopFrame.kind = "interpreter" /\ IsFrame(TopFrame)
  BY TopIsFrame DEF ManagerResumes, StackInv, Registers, AtReturn, Lands
<1>2. TopAct = ActOf(TopFrame, KindOf(TopFrame), SubSeq(TopFrame.vals, 1, rlocals) \o OnTheWay)
  BY <1>1, TopIs
<1>3. CASE exc
  <2>1. stack' = stack /\ Depth' = Depth /\ TopFrame' = TopFrame /\ rlocals' = rlocals
    BY <1>1, <1>3 DEF ManagerResumes, Depth, TopFrame
  <2>2. SubSeq(TopFrame.vals, 1, rlocals) \o OnTheWay = SubSeq(TopFrame.vals, 1, rlocals)
    <3>1. SubSeq(TopFrame.vals, 1, rlocals) \in Seq(Values)
      BY <1>1, Front DEF AtReturn, IsFrame
    <3>2. OnTheWay = <<>>
      BY <1>3 DEF OnTheWay
    <3> QED BY <3>1, <3>2, ConcatEmptySeq
  <2>3. TopAct' = ActOf(TopFrame, KindOf(TopFrame), SubSeq(TopFrame.vals, 1, rlocals))
    BY <1>1, <2>1, TopNext
  <2> QED BY <1>1, <1>2, <2>1, <2>2, <2>3, Stutters
<1>4. CASE ~exc
  <2> DEFINE h == Put(TopFrame, rlocals, tosca, rmethod.words)
  <2>1. stack' = [stack EXCEPT ![Depth] = h] /\ rlocals' = rlocals + rmethod.words
    BY <1>1, <1>4 DEF ManagerResumes, TopFrame
  <2>2. rmethod.words \in Nat /\ rlocals \in Nat
    BY <1>1, MethodIs DEF AtReturn
  <2>3. /\ Kept(h, TopFrame) /\ h.vals = OnTop(TopFrame.vals, rlocals, rmethod.words, tosca)
        /\ Len(h.vals) = rlocals + rmethod.words
    BY <1>1, <1>4, <2>2, KeepsResult DEF AtReturn
  <2> HIDE DEF h
  <2>4. Depth' = Depth /\ TopFrame' = h
    BY <2>1, <2>3, Changes DEF StackInv
  <2>5. SubSeq(h.vals, 1, rlocals') = h.vals
    <3>1. h.vals \in Seq(Values) /\ rlocals' \in 0..Len(h.vals) /\ rlocals' = Len(h.vals)
      BY <2>1, <2>2, <2>3 DEF Kept, IsFrame
    <3> QED BY <3>1, Front
  <2>6. h.vals = SubSeq(TopFrame.vals, 1, rlocals) \o OnTheWay
    BY <1>4, <2>3 DEF OnTop, OnTheWay
  <2>7. TopAct' = ActOf(h, KindOf(h), h.vals)
    BY <1>1, <2>4, <2>5, TopNext
  <2>8. ActOf(h, KindOf(h), h.vals) = ActOf(TopFrame, KindOf(TopFrame), h.vals)
    BY <2>3 DEF Kept, ActOf, KindOf
  <2>9. TopAct' = TopAct
    BY <1>2, <2>6, <2>7, <2>8
  <2> QED BY <1>1, <2>1, <2>4, <2>9, Stutters
<1> QED BY <1>3, <1>4

(* Its activation stores the height of its expression stack.                *)
LEMMA MapsResume == ASSUME StackInv, StackInv', Resume PROVE UNCHANGED CS!vars
<1>1. /\ pc = "resume" /\ pc' = "code" /\ exc' = exc /\ result' = result /\ AtResume
      /\ IsFrame(TopFrame)
  BY TopIsFrame DEF Resume, RunInterpreter, StackInv, Registers
<1> DEFINE h == SetTop(TopFrame, rlocals)
<1>2. stack' = [stack EXCEPT ![Depth] = h]
  BY <1>1 DEF Resume, TopFrame, AtResume
<1>3. /\ Kept(h, TopFrame) /\ h.top = rlocals /\ Len(h.vals) = rlocals
      /\ h.vals = SubSeq(TopFrame.vals, 1, rlocals)
  BY <1>1, KeepsTop DEF AtResume
<1> HIDE DEF h
<1>4. Depth' = Depth /\ TopFrame' = h
  BY <1>2, <1>3, Changes DEF StackInv
<1>5. SubSeq(h.vals, 1, h.top) = h.vals
  <2>1. h.vals \in Seq(Values) /\ h.top \in 0..Len(h.vals) /\ h.top = Len(h.vals)
    BY <1>1, <1>3 DEF Kept, IsFrame, AtResume
  <2> QED BY <2>1, Front
<1>6. TopAct' = ActOf(h, KindOf(h), h.vals)
  BY <1>1, <1>4, <1>5, TopNext DEF Static
<1>7. ActOf(h, KindOf(h), h.vals) = ActOf(TopFrame, KindOf(TopFrame), h.vals)
  BY <1>3 DEF Kept, ActOf, KindOf
<1>8. TopAct = ActOf(TopFrame, KindOf(TopFrame), SubSeq(TopFrame.vals, 1, rlocals))
  BY <1>1, TopIs
<1>9. TopAct' = TopAct
  BY <1>3, <1>6, <1>7, <1>8
<1> QED BY <1>1, <1>2, <1>4, <1>9, Stutters

LEMMA MapsRaise == ASSUME StackInv, StackInv', Raise PROVE CS!Raise
<1>1. pc = "code" /\ pc' = "code" /\ stack' = stack /\ exc' = TRUE /\ result' = result
  BY DEF Raise
<1>2. Depth' = Depth /\ TopFrame' = TopFrame
  BY <1>1 DEF Depth, TopFrame
<1>3. TopAct = Static(TopFrame) /\ CS!Running /\ TopAct' = Static(TopFrame)
  BY <1>1, <1>2, RunningNow, TopNext
<1>4. AbstractActs' = AbstractActs
  BY <1>1, <1>2, <1>3, TopKept, AbstractNow, Zenon
<1> QED BY <1>1, <1>3, <1>4 DEF CS!Raise

LEMMA MapsCalls == ASSUME StackInv, StackInv', EnterNative \/ ReDispatch PROVE CS!Call
<1>1. CASE EnterNative
  <2>1. /\ NewState("native", 0) /\ pc = "entry" /\ pc' = "code" /\ exc' = exc /\ result' = result
    BY <1>1 DEF EnterNative
  <2> QED BY <2>1, MapsCall DEF MethodFrames
<1>2. CASE ReDispatch
  <2>1. /\ NewState("interpreter", rstate) /\ pc = "re_dispatch" /\ pc' = "code"
        /\ exc' = exc /\ result' = result
    BY <1>2 DEF ReDispatch, RunInterpreter
  <2> QED BY <2>1, MapsCall DEF MethodFrames
<1> QED BY <1>1, <1>2

LEMMA MapsStep == ASSUME StackInv, [Next]_vars PROVE [CS!Next]_(CS!vars)
<1>1. StackInv'
  BY StackStep
<1>2. CASE UNCHANGED vars
  <2>1. stack' = stack /\ pc' = pc /\ rmethod' = rmethod /\ rlocals' = rlocals
        /\ tosca' = tosca /\ exc' = exc /\ result' = result
    BY <1>2 DEF vars, regs
  <2>2. AbstractActs' = AbstractActs
    BY <2>1 DEF AbstractActs, Operands, Depth
  <2> QED BY <2>1, <2>2 DEF CS!vars
<1>3. CASE CallStub \/ StubReturns \/ EnterNative \/ ReDispatch \/ Compute \/ Raise \/ Catch
  BY <1>1, <1>3, MapsCallStub, MapsStubReturns, MapsCalls, MapsCompute, MapsRaise, MapsCatch
     DEF CS!Next
<1>4. CASE NativeReturns \/ ReturnFromMethod \/ ThrowingException
  BY <1>1, <1>4, MapsReturn DEF CS!Next
<1>5. CASE EnterFast
  BY <1>1, <1>5, MapsEnterFast DEF CS!Next
<1>6. CASE EnterNormal \/ CallMethod \/ MoreMonitors \/ ManagerResumes \/ Resume
  BY <1>1, <1>6, MapsInert, MapsManagerResumes, MapsResume
<1> QED BY <1>2, <1>3, <1>4, <1>5, <1>6 DEF Next

(* Interpreted, native and fast methods and calls from the virtual machine, *)
(* mixed in any way, behave as nested calls: each step of the generated     *)
(* code is a call, a return, a throw, or nothing at all.                    *)
THEOREM CallsNest == Spec => ImplementsCallStack
<1>1. Init => CS!Init
  <2> SUFFICES ASSUME Init PROVE CS!Init
    OBVIOUS
  <2>1. stack = <<Frame("C")>> /\ pc = "code" /\ exc = FALSE /\ result = <<>>
    BY DEF Init
  <2>2. Depth = 1 /\ stack[1] = Frame("C")
    BY <2>1 DEF Depth
  <2>3. Operands(1) = <<>>
    <3>1. stack[1].top = 0
      BY <2>2 DEF Frame
    <3>2. Operands(1) = SubSeq(stack[1].vals, 1, stack[1].top)
      BY <2>1, Zenon DEF Operands
    <3> QED BY <3>1, <3>2, SubSeqEmpty
  <2>4. /\ stack[1].kind = "C" /\ stack[1].method.words = 0 /\ stack[1].method.params = 0
    BY <2>2 DEF Frame, NoMethod
  <2>5. AbstractActs = [i \in 1..1 |-> CS!Cpp]
    BY <2>2, <2>3, <2>4 DEF AbstractActs, CS!Cpp
  <2>6. [i \in 1..1 |-> CS!Cpp] = <<CS!Cpp>>
    BY SMT
  <2> QED BY <2>1, <2>5, <2>6 DEF CS!Init
<1>2. Spec => []StackInv
  BY StackInvariant
<1>3. StackInv /\ [Next]_vars => [CS!Next]_(CS!vars)
  BY MapsStep
<1> QED BY <1>1, <1>2, <1>3, PTL DEF Spec, ImplementsCallStack, CS!Spec

=============================================================================
