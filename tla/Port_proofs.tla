---------------------------- MODULE Port_proofs ----------------------------
(***************************************************************************)
(* Theorems about the sequential parts of the port, each for every value   *)
(* of its constants: where the arguments of a call go, how they reach the  *)
(* local variables of a Java method, what the assembler emits and the      *)
(* disassembler prints for it, and how memory is copied, read and written. *)
(***************************************************************************)
EXTENDS Arguments, Disassembler, JavaArguments, ConjointCopy, Bytes,
        FiniteSetTheorems, SequenceTheorems, TLAPS

-----------------------------------------------------------------------------
(* Arguments: the generated and the slow signature handler.                 *)

Types == {"int", "long", "object", "float", "double"}

(* The generated handler has used the registers below the next ones, and    *)
(* the words of the stack below _st_arg, but for a float of PPC64 that was   *)
(* the argument before: it lies at _st_arg.                                  *)
UsedBelow ==
  \A p \in fast.used : \/ p[1] = "gp" /\ p[2] \in 0..fast.gp - 1
                       \/ p[1] = "fp" /\ p[2] \in 0..fast.fp - 1
                       \/ p[1] = "st" /\ p[2] \in 0..fast.st - 1
                       \/ p \in Behind(last) /\ p = <<"st", fast.st>>

(* On PPC64 every argument in a register has a word in the parameter list.  *)
FastInv ==
  /\ fast = [gp |-> fast.gp, fp |-> fast.fp, st |-> fast.st, used |-> fast.used]
  /\ fast.gp \in (IF static THEN GpStart + 1 ELSE GpStart)..GpMax + 1
  /\ fast.fp \in 1..FpMax + 1 /\ fast.st \in Nat
  /\ UsedBelow
  /\ wsize = 8 => fast.st >= fast.gp - 3 /\ fast.st >= fast.fp

(* The slow handler uses the same registers and, on PPC64, the same words.  *)
(* On PPC32 an argument is on the stack only after the registers are used   *)
(* up, which takes at least four words of the parameters.                   *)
SlowInv ==
  slow.works =>
    /\ slow = [gp |-> slow.gp, st |-> slow.st, works |-> TRUE]
    /\ slow.gp = fast.gp /\ slow.st \in Nat /\ sig.words \in Nat
    /\ wsize = 8 => slow.st = fast.st /\ slow.st <= sig.words + 2
    /\ wsize = 4 => 2 * (slow.gp - 5) <= 3 * (sig.words - slow.st)

ArgumentsInv ==
  /\ wsize \in {4, 8} /\ static \in BOOLEAN
  /\ FastInv /\ SlowInv /\ HandlersAgree

LEMMA Singles ==
  ASSUME NEW r \in Int
  PROVE  /\ GpPlaces(r, 1) = {<<"gp", r>>} /\ FpPlace(r) = {<<"fp", r>>} /\ StPlaces(r, 1) = {<<"st", r>>}
         /\ GpPlaces(r, 2) = {<<"gp", r>>, <<"gp", r + 1>>}
         /\ StPlaces(r, 2) = {<<"st", r>>, <<"st", r + 1>>}
<1>1. r..r + 1 - 1 = {r} /\ r..r + 2 - 1 = {r, r + 1}
  OBVIOUS
<1> QED BY <1>1, Zenon DEF GpPlaces, FpPlace, StPlaces

(* What the generated handler does with an argument: one place, or a pair   *)
(* that begins at an odd register or an even word; unused so far; in the    *)
(* next registers of its kind, or on the stack when there are none.         *)
Passed(t, f, places, gp, fp, st) ==
  /\ f = [gp |-> gp, fp |-> fp, st |-> st, used |-> fast.used]
  /\ \/ gp > fast.gp /\ fp = fast.fp /\ fast.gp <= GpMax
        /\ gp <= GpMax + 1 /\ st = Mirrored(fast)
        /\ \/ gp = fast.gp + 1 /\ places = {<<"gp", fast.gp>>}
           \/ /\ wsize = 4 /\ gp - 2 >= fast.gp /\ gp <= fast.gp + 3 /\ gp % 2 = 1
              /\ places = {<<"gp", gp - 2>>, <<"gp", gp - 1>>}
     \/ /\ gp = fast.gp /\ fp = fast.fp + 1 /\ fp <= FpMax + 1 /\ st = Mirrored(fast)
        /\ places = {<<"fp", fast.fp>>}
     \/ /\ gp = fast.gp /\ fp = fast.fp
        /\ \/ /\ st = fast.st + 1 /\ places = {<<"st", StoredFrom(fast.st, t)>>}
              /\ wsize = 8 => gp = GpMax + 1 \/ fp = FpMax + 1
           \/ /\ wsize = 4 /\ st \in fast.st + 2..fast.st + 3 /\ st % 2 = 0
              /\ places = {<<"st", st - 2>>, <<"st", st - 1>>}

LEMMA FastPasses ==
  ASSUME ArgumentsInv, NEW t \in Types
  PROVE  \E gp, fp, st \in Nat : Passed(t, FastPass(fast, t).f, FastPass(fast, t).places, gp, fp, st)
<1> DEFINE f == FastPass(fast, t).f
           places == FastPass(fast, t).places
<1>1. /\ fast = [gp |-> fast.gp, fp |-> fast.fp, st |-> fast.st, used |-> fast.used]
      /\ fast.gp \in 4..11 /\ fast.fp \in 1..FpMax + 1 /\ fast.st \in Nat /\ wsize \in {4, 8}
      /\ FpMax \in Nat /\ GpMax = 10
  BY DEF ArgumentsInv, FastInv, GpStart, GpMax, FpMax
<1>2. Mirrored(fast) \in Nat
  BY <1>1 DEF Mirrored
<1> SUFFICES \E gp, fp, st \in Nat : Passed(t, f, places, gp, fp, st)
  OBVIOUS
<1> HIDE DEF f, places
<1>3. CASE /\ fast.gp <= GpMax
           /\ t \in IntTypes \/ (t = "long" /\ wsize = 8)
  <2>1. /\ f = [fast EXCEPT !.gp = @ + 1, !.st = Mirrored(fast)]
        /\ places = GpPlaces(fast.gp, 1)
    BY <1>3 DEF FastPass, FastInt, FastLong, IntTypes, f, places
  <2>2. f = [gp |-> fast.gp + 1, fp |-> fast.fp, st |-> Mirrored(fast), used |-> fast.used]
    BY <1>1, <2>1
  <2>3. places = {<<"gp", fast.gp>>}
    BY <1>1, <2>1, Singles
  <2>4. Passed(t, f, places, fast.gp + 1, fast.fp, Mirrored(fast))
    BY <1>1, <1>3, <2>2, <2>3 DEF Passed
  <2>5. fast.gp + 1 \in Nat /\ fast.fp \in Nat
    BY <1>1
  <2> QED BY <1>2, <2>4, <2>5, Zenon
<1>4. CASE t = "long" /\ wsize = 4 /\ fast.gp < GpMax
  <2> DEFINE r == PairFrom(fast.gp)
  <2>1. /\ f = [fast EXCEPT !.gp = r + 2]
        /\ places = GpPlaces(r, 2)
    BY <1>4 DEF FastPass, FastLong, IntTypes, f, places
  <2>2. r \in fast.gp..fast.gp + 1 /\ r % 2 = 1 /\ r <= 9
    BY <1>1, <1>4 DEF PairFrom
  <2> HIDE DEF r
  <2>3. f = [gp |-> r + 2, fp |-> fast.fp, st |-> fast.st, used |-> fast.used]
    BY <1>1, <2>1
  <2>4. places = {<<"gp", r>>, <<"gp", r + 1>>} /\ Mirrored(fast) = fast.st
    BY <1>1, <1>4, <2>1, <2>2, Singles DEF Mirrored
  <2>5. r + 2 - 2 = r /\ r + 2 - 1 = r + 1 /\ (r + 2) % 2 = 1 /\ r + 2 \in Nat
    BY <1>1, <2>2
  <2>6. Passed(t, f, places, r + 2, fast.fp, fast.st)
    BY <1>1, <1>4, <2>2, <2>3, <2>4, <2>5 DEF Passed
  <2>7. fast.fp \in Nat
    BY <1>1
  <2> QED BY <1>1, <2>5, <2>6, <2>7, Zenon
<1>5. CASE t \in {"float", "double"} /\ fast.fp <= FpMax
  <2>1. /\ f = [fast EXCEPT !.fp = @ + 1, !.st = Mirrored(fast)]
        /\ places = FpPlace(fast.fp)
    BY <1>5 DEF FastPass, FastFloat, IntTypes, f, places
  <2>2. f = [gp |-> fast.gp, fp |-> fast.fp + 1, st |-> Mirrored(fast), used |-> fast.used]
    BY <1>1, <2>1
  <2>3. places = {<<"fp", fast.fp>>}
    BY <1>1, <2>1, Singles
  <2>4. Passed(t, f, places, fast.gp, fast.fp + 1, Mirrored(fast))
    BY <1>1, <1>5, <2>2, <2>3 DEF Passed
  <2>5. fast.gp \in Nat /\ fast.fp + 1 \in Nat
    BY <1>1
  <2> QED BY <1>2, <2>4, <2>5, Zenon
<1>6. CASE /\ \/ t \in IntTypes /\ fast.gp > GpMax
              \/ t = "long" /\ wsize = 8 /\ fast.gp > GpMax
              \/ t = "long" /\ wsize = 4 /\ fast.gp >= GpMax
              \/ t \in {"float", "double"} /\ fast.fp > FpMax
  <2> DEFINE w == Aligned32(fast.st, t)
             n == StackWords(t)
  <2>1. /\ f = [fast EXCEPT !.st = w + n] /\ places = StPlaces(StoredFrom(w, t), n)
    <3>1. FastPass(fast, t) = OnStack(fast, t)
      BY <1>1, <1>6 DEF FastPass, FastInt, FastLong, FastFloat, IntTypes
    <3> QED BY <3>1 DEF OnStack, f, places
  <2>2. \/ w = fast.st /\ n = 1
        \/ n = 2 /\ wsize = 4 /\ w \in fast.st..fast.st + 1 /\ w % 2 = 0
    BY <1>1 DEF Aligned32, StackWords
  <2> HIDE DEF w, n
  <2>6. fast.gp \in Nat /\ fast.fp \in Nat
    BY <1>1
  <2>3. f = [gp |-> fast.gp, fp |-> fast.fp, st |-> w + n, used |-> fast.used]
    BY <1>1, <2>1
  <2>4. CASE w = fast.st /\ n = 1
    <3>1. places = {<<"st", StoredFrom(fast.st, t)>>}
      <4>1. StoredFrom(fast.st, t) \in Int
        BY <1>1 DEF StoredFrom
      <4> QED BY <2>1, <2>4, <4>1, Singles
    <3>2. wsize = 8 => fast.gp = GpMax + 1 \/ fast.fp = FpMax + 1
      BY <1>1, <1>6
    <3>3. Passed(t, f, places, fast.gp, fast.fp, w + n)
      BY <1>1, <2>3, <2>4, <3>1, <3>2 DEF Passed
    <3>4. w + n \in Nat
      BY <1>1, <2>4
    <3> QED BY <2>6, <3>3, <3>4, Zenon
  <2>5. CASE n = 2 /\ wsize = 4 /\ w \in fast.st..fast.st + 1 /\ w % 2 = 0
    <3>1. w \in Nat /\ w + n - 2 = w /\ w + n - 1 = w + 1 /\ (w + n) % 2 = 0
          /\ w + n \in fast.st + 2..fast.st + 3 /\ w + n \in Nat
      BY <1>1, <2>5
    <3>2. places = {<<"st", w>>, <<"st", w + 1>>}
      <4>1. StoredFrom(w, t) = w
        BY <2>5 DEF StoredFrom
      <4> QED BY <2>1, <2>5, <3>1, <4>1, Singles
    <3>3. Passed(t, f, places, fast.gp, fast.fp, w + n)
      BY <1>1, <2>3, <2>5, <3>1, <3>2 DEF Passed
    <3> QED BY <2>6, <3>1, <3>3, Zenon
  <2> QED BY <2>2, <2>4, <2>5
<1> QED BY <1>1, <1>3, <1>4, <1>5, <1>6 DEF Types, IntTypes

(* What the slow handler does with an argument it can pass, next to what    *)
(* the generated one does.                                                  *)
LEMMA SlowPasses ==
  ASSUME ArgumentsInv, NEW t \in Types, slow.works, t \notin {"float", "double"}
  PROVE  LET f == FastPass(fast, t)
             s == SlowPass(slow, t)
         IN  \E st \in Nat :
               /\ s.s = [gp |-> f.f.gp, st |-> st, works |-> TRUE]
               /\ wsize = 8 => st = f.f.st /\ st = slow.st + 1 /\ s.places = f.places
               /\ wsize = 4 => \/ /\ st = slow.st /\ s.places = f.places /\ f.f.gp \in Nat
                                  /\ 2 * (f.f.gp - slow.gp) <= 3 * WordsOf(t)
                                  /\ \A p \in s.places : p[1] = "gp"
                               \/ /\ f.f.gp = slow.gp /\ slow.gp >= GpMax /\ st = slow.st + WordsOf(t)
                                  /\ \E w \in Nat : <<"st", w>> \in f.places
                                  /\ <<"st", slow.st>> \in s.places
               /\ \A p \in s.places : p[1] = "st" => p[2] \in 0..st - 1
<1> DEFINE f == FastPass(fast, t)
           s == SlowPass(slow, t)
           Goal == \E st \in Nat :
               /\ s.s = [gp |-> f.f.gp, st |-> st, works |-> TRUE]
               /\ wsize = 8 => st = f.f.st /\ st = slow.st + 1 /\ s.places = f.places
               /\ wsize = 4 => \/ /\ st = slow.st /\ s.places = f.places /\ f.f.gp \in Nat
                                  /\ 2 * (f.f.gp - slow.gp) <= 3 * WordsOf(t)
                                  /\ \A p \in s.places : p[1] = "gp"
                               \/ /\ f.f.gp = slow.gp /\ slow.gp >= GpMax /\ st = slow.st + WordsOf(t)
                                  /\ \E w \in Nat : <<"st", w>> \in f.places
                                  /\ <<"st", slow.st>> \in s.places
               /\ \A p \in s.places : p[1] = "st" => p[2] \in 0..st - 1
<1>1. /\ fast = [gp |-> fast.gp, fp |-> fast.fp, st |-> fast.st, used |-> fast.used]
      /\ fast.gp \in 4..11 /\ fast.fp \in 1..FpMax + 1 /\ fast.st \in Nat /\ wsize \in {4, 8}
      /\ GpMax = 10 /\ slow = [gp |-> slow.gp, st |-> slow.st, works |-> TRUE]
      /\ slow.gp = fast.gp /\ slow.st \in Nat /\ (wsize = 8 => slow.st = fast.st)
  BY DEF ArgumentsInv, FastInv, SlowInv, GpStart, GpMax
<1> SUFFICES Goal
  OBVIOUS
<1> HIDE DEF f, s
<1>2. CASE fast.gp <= GpMax /\ (t \in IntTypes \/ wsize = 8)
  <2>1. f.f.gp = fast.gp + 1 /\ f.f.st = Mirrored(fast) /\ f.places = GpPlaces(fast.gp, 1)
    <3>1. /\ f.f = [fast EXCEPT !.gp = @ + 1, !.st = Mirrored(fast)]
          /\ f.places = GpPlaces(fast.gp, 1)
      BY <1>2 DEF FastPass, FastInt, FastLong, IntTypes, f, Types
    <3> QED BY <1>1, <3>1
  <2>2. /\ s.s = [slow EXCEPT !.gp = @ + 1, !.st = Mirrored(slow)]
        /\ s.places = GpPlaces(slow.gp, 1)
    BY <1>1, <1>2 DEF SlowPass, SlowInt, SlowLong, IntTypes, s, Types
  <2>3. s.s = [gp |-> fast.gp + 1, st |-> Mirrored(slow), works |-> TRUE]
    BY <1>1, <2>2, ZenonT(30)
  <2>4. f.places = {<<"gp", fast.gp>>} /\ s.places = f.places
    BY <1>1, <2>1, <2>2, Singles
  <2>5. /\ Mirrored(slow) \in Nat
        /\ wsize = 8 => Mirrored(slow) = slow.st + 1 /\ Mirrored(slow) = Mirrored(fast)
        /\ wsize = 4 => Mirrored(slow) = slow.st
    BY <1>1 DEF Mirrored
  <2>6. WordsOf(t) >= 1 /\ WordsOf(t) \in Nat
    BY DEF WordsOf
  <2>7. 2 * (f.f.gp - slow.gp) <= 3 * WordsOf(t) /\ f.f.gp \in Nat
    BY <1>1, <2>1, <2>6
  <2>8. \A p \in s.places : p[1] = "gp" /\ ~(p[1] = "st")
    BY <2>4
  <2>9. s.s = [gp |-> f.f.gp, st |-> Mirrored(slow), works |-> TRUE]
    BY <2>1, <2>3
  <2> QED BY <1>1, <2>1, <2>4, <2>5, <2>7, <2>8, <2>9, Zenon
<1>3. CASE wsize = 4 /\ t = "long" /\ fast.gp < GpMax
  <2> DEFINE r == PairFrom(fast.gp)
  <2>1. /\ f.f = [fast EXCEPT !.gp = r + 2] /\ f.places = GpPlaces(r, 2)
    BY <1>3 DEF FastPass, FastLong, IntTypes, f
  <2>2. /\ s.s = [slow EXCEPT !.gp = r + 2] /\ s.places = GpPlaces(r, 2)
    <3>1. (IF (GpMax - slow.gp) % 2 = 0 THEN slow.gp + 1 ELSE slow.gp) = r
      BY <1>1 DEF PairFrom
    <3> QED BY <1>1, <1>3, <3>1 DEF SlowPass, SlowLong, IntTypes, s
  <2>3. r \in fast.gp..fast.gp + 1
    BY <1>1 DEF PairFrom
  <2> HIDE DEF r
  <2>4. s.s = [gp |-> f.f.gp, st |-> slow.st, works |-> TRUE] /\ f.f.gp = r + 2
    <3>1. s.s = [gp |-> r + 2, st |-> slow.st, works |-> TRUE]
      BY <1>1, <2>2, ZenonT(30)
    <3>2. f.f.gp = r + 2
      BY <1>1, <2>1
    <3> QED BY <3>1, <3>2
  <2>5. 2 * (f.f.gp - slow.gp) <= 3 * WordsOf(t) /\ f.f.gp \in Nat
    BY <1>1, <1>3, <2>3, <2>4 DEF WordsOf
  <2>6. s.places = f.places /\ \A p \in s.places : p[1] = "gp" /\ ~(p[1] = "st")
    BY <1>1, <2>1, <2>2, <2>3, Singles
  <2>7. wsize # 8 /\ slow.st \in Nat
    BY <1>1, <1>3
  <2> QED BY <2>4, <2>5, <2>6, <2>7, Zenon
<1>4. CASE wsize = 8 /\ fast.gp > GpMax
  <2>1. f.f = [fast EXCEPT !.st = fast.st + 1] /\ f.places = StPlaces(fast.st, 1)
    <3>1. f = OnStack(fast, t)
      BY <1>1, <1>4 DEF FastPass, FastInt, FastLong, IntTypes, f, Types
    <3>2. Aligned32(fast.st, t) = fast.st /\ StackWords(t) = 1 /\ StoredFrom(fast.st, t) = fast.st
      BY <1>4 DEF Aligned32, StackWords, StoredFrom
    <3> QED BY <3>1, <3>2 DEF OnStack
  <2>2. s.s = [slow EXCEPT !.st = slow.st + 1] /\ s.places = StPlaces(slow.st, 1)
    BY <1>1, <1>4 DEF SlowPass, SlowInt, SlowLong, SlowStack, IntTypes, s, Types
  <2>3. /\ s.s = [gp |-> f.f.gp, st |-> slow.st + 1, works |-> TRUE] /\ f.f.st = slow.st + 1
        /\ s.places = f.places
    BY <1>1, <1>4, <2>1, <2>2, ZenonT(30)
  <2>4. \A p \in s.places : p[1] = "st" => p[2] \in 0..(slow.st + 1) - 1
    BY <1>1, <2>2, Singles
  <2>5. wsize # 4 /\ slow.st + 1 \in Nat
    BY <1>1, <1>4
  <2> QED BY <2>3, <2>4, <2>5, Zenon
<1>5. CASE /\ wsize = 4
           /\ \/ t \in IntTypes /\ fast.gp > GpMax
              \/ t = "long" /\ fast.gp >= GpMax
  <2> DEFINE w == Aligned32(fast.st, t)
             n == StackWords(t)
  <2>1. f.f = [fast EXCEPT !.st = w + n] /\ f.places = StPlaces(w, n)
    <3>1. f = OnStack(fast, t)
      BY <1>1, <1>5 DEF FastPass, FastInt, FastLong, IntTypes, f
    <3>2. StoredFrom(w, t) = w
      BY <1>5 DEF StoredFrom
    <3> QED BY <3>1, <3>2 DEF OnStack
  <2>2. s.s = [slow EXCEPT !.st = slow.st + n] /\ s.places = StPlaces(slow.st, n)
    BY <1>1, <1>5 DEF SlowPass, SlowInt, SlowLong, SlowStack, IntTypes, s, StackWords
  <2>3. w \in Nat /\ n = WordsOf(t) /\ n \in {1, 2}
    BY <1>1, <1>5 DEF Aligned32, StackWords, WordsOf, IntTypes
  <2> HIDE DEF w, n
  <2>4. s.s = [gp |-> f.f.gp, st |-> slow.st + n, works |-> TRUE] /\ f.f.gp = slow.gp
    BY <1>1, <2>1, <2>2
  <2>5. <<"st", w>> \in f.places
    BY <2>1, <2>3, Singles
  <2>6. <<"st", slow.st>> \in s.places /\ \A p \in s.places : p[1] = "st" => p[2] \in 0..(slow.st + n) - 1
    BY <1>1, <2>2, <2>3, Singles
  <2>7. slow.gp >= GpMax /\ slow.st + n \in Nat /\ wsize # 8
    BY <1>1, <1>5, <2>3
  <2> QED BY <2>3, <2>4, <2>5, <2>6, <2>7, Zenon
<1>6. \/ fast.gp <= GpMax /\ (t \in IntTypes \/ wsize = 8)
      \/ wsize = 4 /\ t = "long" /\ fast.gp < GpMax
      \/ wsize = 8 /\ fast.gp > GpMax
      \/ wsize = 4 /\ ((t \in IntTypes /\ fast.gp > GpMax) \/ (t = "long" /\ fast.gp >= GpMax))
  BY <1>1 DEF Types, IntTypes
<1> QED BY <1>2, <1>3, <1>4, <1>5, <1>6, Zenon

LEMMA ArgumentsStart == ArgumentsInit => ArgumentsInv
<1> SUFFICES ASSUME ArgumentsInit PROVE ArgumentsInv
  OBVIOUS
<1>1. /\ wsize \in {4, 8} /\ static \in BOOLEAN
      /\ fast = [gp |-> IF static THEN GpStart + 1 ELSE GpStart, fp |-> 1,
                 st |-> IF wsize = 4 THEN 0 ELSE IF static THEN 2 ELSE 1, used |-> {}]
      /\ slow = [gp |-> fast.gp, st |-> fast.st, works |-> TRUE]
      /\ sig.words = 0 /\ last.slow = {} /\ last.fast = {}
  BY DEF ArgumentsInit
<1>2. FastInv
  BY <1>1 DEF FastInv, GpStart, GpMax, FpMax, UsedBelow
<1>3. SlowInv
  BY <1>1 DEF SlowInv, GpStart
<1>4. HandlersAgree
  BY <1>1 DEF HandlersAgree, StWords
<1> QED BY <1>1, <1>2, <1>3, <1>4 DEF ArgumentsInv

LEMMA PassIs ==
  ASSUME NEW t, Pass(t)
  PROVE  /\ fast' = [FastPass(fast, t).f EXCEPT !.used = @ \cup FastPass(fast, t).places]
         /\ slow' = SlowPass(slow, t).s
         /\ last'.type = t /\ last'.fast = FastPass(fast, t).places /\ last'.slow = SlowPass(slow, t).places
         /\ sig'.words = sig.words + WordsOf(t)
         /\ wsize' = wsize /\ static' = static
BY DEF Pass

LEMMA FastKept == ASSUME ArgumentsInv, NEW t \in Types, Pass(t) PROVE FastInv'
<1> DEFINE f == FastPass(fast, t).f
           places == FastPass(fast, t).places
<1>1. PICK gp, fp, st \in Nat : Passed(t, f, places, gp, fp, st)
  BY FastPasses
<1>2. /\ fast' = [f EXCEPT !.used = @ \cup places] /\ wsize' = wsize /\ static' = static
      /\ last'.type = t /\ last'.fast = places
  BY PassIs
<1> HIDE DEF f, places
<1>3. fast' = [gp |-> gp, fp |-> fp, st |-> st, used |-> fast.used \cup places]
  BY <1>1, <1>2 DEF Passed
<1>4. /\ fast.gp \in (IF static THEN GpStart + 1 ELSE GpStart)..GpMax + 1
      /\ fast.fp \in 1..FpMax + 1 /\ fast.st \in Nat /\ wsize \in {4, 8}
      /\ wsize = 8 => fast.st >= fast.gp - 3 /\ fast.st >= fast.fp
      /\ UsedBelow /\ FpMax \in Nat /\ GpMax = 10
  BY DEF ArgumentsInv, FastInv, FpMax, GpMax
<1>5. GpStart' = GpStart /\ GpMax' = GpMax /\ FpMax' = FpMax
  BY <1>2 DEF GpStart, GpMax, FpMax
<1>6. gp >= fast.gp /\ fp >= fast.fp /\ st >= fast.st /\ gp <= GpMax + 1 /\ fp <= FpMax + 1
  BY <1>1, <1>4 DEF Passed, Mirrored, GpStart
<1>7. wsize = 8 => st >= gp - 3 /\ st >= fp
  BY <1>1, <1>4 DEF Passed, Mirrored
<1>8. ASSUME NEW p \in places
      PROVE  \/ p[1] = "gp" /\ p[2] \in 0..gp - 1
             \/ p[1] = "fp" /\ p[2] \in 0..fp - 1
             \/ p[1] = "st" /\ p[2] \in 0..st - 1
             \/ p \in Behind(last)' /\ p = <<"st", st>>
  <2>1. CASE gp = fast.gp /\ fp = fast.fp /\ st = fast.st + 1 /\ places = {<<"st", StoredFrom(fast.st, t)>>}
    <3>1. CASE wsize = 8 /\ t = "float"
      <4>1. p = <<"st", st>>
        BY <2>1, <3>1 DEF StoredFrom
      <4>2. st \in StWords(places)
        BY <4>1 DEF StWords
      <4>3. Behind(last)' = places
        BY <1>2, <3>1, <4>2 DEF Behind
      <4> QED BY <4>1, <4>3
    <3>2. CASE ~(wsize = 8 /\ t = "float")
      BY <1>4, <2>1, <3>2 DEF StoredFrom
    <3> QED BY <3>1, <3>2
  <2>2. CASE ~(gp = fast.gp /\ fp = fast.fp /\ st = fast.st + 1 /\ places = {<<"st", StoredFrom(fast.st, t)>>})
    BY <1>1, <1>4, <2>2 DEF Passed, GpStart
  <2> QED BY <2>1, <2>2
<1>9. UsedBelow'
  <2>1. ASSUME NEW p \in fast.used PROVE \/ p[1] = "gp" /\ p[2] \in 0..gp - 1
                                         \/ p[1] = "fp" /\ p[2] \in 0..fp - 1
                                         \/ p[1] = "st" /\ p[2] \in 0..st - 1
    <3>1. \/ p[1] = "gp" /\ p[2] \in 0..fast.gp - 1
          \/ p[1] = "fp" /\ p[2] \in 0..fast.fp - 1
          \/ p[1] = "st" /\ p[2] \in 0..fast.st - 1
          \/ p \in Behind(last) /\ p = <<"st", fast.st>>
      BY <1>4 DEF UsedBelow
    <3>2. fast.gp \in Int /\ fast.fp \in Int /\ fast.st \in Nat
      BY <1>4 DEF GpStart
    <3>3. CASE p \in Behind(last) /\ p = <<"st", fast.st>>
      <4>1. wsize = 8
        BY <3>3 DEF Behind
      <4>2. st = fast.st + 1
        BY <1>1, <1>4, <4>1 DEF Passed, Mirrored
      <4> QED BY <3>2, <3>3, <4>2
    <3> QED BY <1>6, <3>1, <3>2, <3>3
  <2> QED BY <1>3, <1>8, <2>1 DEF UsedBelow
<1>10. gp \in (IF static THEN GpStart + 1 ELSE GpStart)..GpMax + 1 /\ fp \in 1..FpMax + 1
  BY <1>4, <1>6 DEF GpStart
<1>11. fast'.gp = gp /\ fast'.fp = fp /\ fast'.st = st
  BY <1>3
<1> HIDE DEF GpStart
<1> QED BY <1>2, <1>3, <1>5, <1>7, <1>9, <1>10, <1>11 DEF FastInv

LEMMA SlowKept == ASSUME ArgumentsInv, NEW t \in Types, Pass(t) PROVE SlowInv' /\ HandlersAgree'
<1> DEFINE f == FastPass(fast, t)
           s == SlowPass(slow, t)
<1>1. /\ fast'.gp = f.f.gp /\ fast'.st = f.f.st /\ slow' = s.s
      /\ last'.fast = f.places /\ last'.slow = s.places
      /\ sig'.words = sig.words + WordsOf(t) /\ wsize' = wsize
  <2>1. PICK gp, fp, st \in Nat : Passed(t, f.f, f.places, gp, fp, st)
    BY FastPasses
  <2>2. fast' = [f.f EXCEPT !.used = @ \cup f.places]
    BY PassIs
  <2> HIDE DEF f
  <2>3. fast'.gp = f.f.gp /\ fast'.st = f.f.st
    BY <2>1, <2>2 DEF Passed
  <2> QED BY <2>3, PassIs DEF f
<1>2. CASE ~slow'.works
  BY <1>2 DEF SlowInv, HandlersAgree
<1>3. CASE slow'.works
  <2>1. slow.works /\ t \notin {"float", "double"}
    <3>1. slow = [gp |-> slow.gp, st |-> slow.st, works |-> TRUE] \/ ~slow.works
      BY DEF ArgumentsInv, SlowInv
    <3>2. ASSUME ~slow.works \/ t \in {"float", "double"} PROVE FALSE
      <4>1. s.s = [slow EXCEPT !.works = FALSE]
        BY <3>2 DEF SlowPass
      <4> QED BY <1>1, <1>3, <4>1
    <3> QED BY <3>2
  <2> HIDE DEF f, s
  <2>2. PICK st \in Nat :
               /\ s.s = [gp |-> f.f.gp, st |-> st, works |-> TRUE]
               /\ wsize = 8 => st = f.f.st /\ st = slow.st + 1 /\ s.places = f.places
               /\ wsize = 4 => \/ /\ st = slow.st /\ s.places = f.places /\ f.f.gp \in Nat
                                  /\ 2 * (f.f.gp - slow.gp) <= 3 * WordsOf(t)
                                  /\ \A p \in s.places : p[1] = "gp"
                               \/ /\ f.f.gp = slow.gp /\ slow.gp >= GpMax /\ st = slow.st + WordsOf(t)
                                  /\ \E w \in Nat : <<"st", w>> \in f.places
                                  /\ <<"st", slow.st>> \in s.places
               /\ \A p \in s.places : p[1] = "st" => p[2] \in 0..st - 1
    BY <2>1, SlowPasses DEF f, s
  <2>3. /\ slow.gp \in 4..11 /\ slow.st \in Nat /\ sig.words \in Nat /\ wsize \in {4, 8}
        /\ wsize = 8 => slow.st = fast.st /\ slow.st <= sig.words + 2
        /\ wsize = 4 => 2 * (slow.gp - 5) <= 3 * (sig.words - slow.st)
        /\ WordsOf(t) \in {1, 2} /\ GpMax = 10
    BY <2>1 DEF ArgumentsInv, FastInv, SlowInv, WordsOf, GpMax, GpStart
  <2>4. SlowInv'
    <3>1. /\ slow' = [gp |-> slow'.gp, st |-> slow'.st, works |-> TRUE]
          /\ slow'.gp = fast'.gp /\ slow'.st = st /\ sig'.words \in Nat
      BY <1>1, <2>2, <2>3
    <3>2. wsize = 8 => st = fast'.st /\ st <= sig'.words + 2
      BY <1>1, <2>2, <2>3
    <3>3. wsize = 4 => 2 * (fast'.gp - 5) <= 3 * (sig'.words - st)
      BY <1>1, <2>2, <2>3
    <3> QED BY <1>1, <2>2, <3>1, <3>2, <3>3 DEF SlowInv
  <2>5. \/ last'.slow = last'.fast
        \/ wsize' = 4 /\ StWords(last'.slow) # {} /\ StWords(last'.fast) # {}
    <3>1. CASE \E w \in Nat : <<"st", w>> \in f.places /\ <<"st", slow.st>> \in s.places
      BY <1>1, <2>2, <2>3, <3>1 DEF StWords
    <3> QED BY <1>1, <2>2, <2>3, <3>1
  <2>6. ASSUME sig'.words >= 3, NEW w \in StWords(last'.slow)
        PROVE  w < (IF wsize = 4 THEN (sig'.words - 3) * 3 ELSE sig'.words + 2)
    <3>1. PICK p \in s.places : p[1] = "st" /\ w = p[2]
      BY <1>1, <2>6 DEF StWords
    <3>2. w \in 0..st - 1
      BY <2>2, <3>1
    <3>3. CASE wsize = 8
      BY <1>1, <2>2, <2>3, <3>2, <3>3
    <3>4. CASE wsize = 4
      <4>1. slow.gp >= GpMax /\ st = slow.st + WordsOf(t)
        BY <2>2, <3>1, <3>4
      <4> QED BY <1>1, <2>3, <2>6, <3>2, <3>4, <4>1
    <3> QED BY <2>3, <3>3, <3>4
  <2> QED BY <1>1, <2>4, <2>5, <2>6 DEF HandlersAgree, RegisterImages
<1> QED BY <1>2, <1>3

LEMMA NoPair == \A x : Cardinality({x}) # 2
<1>1. \A x : Cardinality({x}) = 1
  BY FS_Singleton, Zenon
<1> QED BY <1>1

LEMMA FastIsSound ==
  ASSUME ArgumentsInv, NEW t \in Types, Pass(t)
  PROVE  /\ last'.fast \cap fast.used \subseteq Behind(last) /\ last'.fast # {}
         /\ \A p \in last'.fast : CASE p[1] = "gp" -> p[2] \in (IF static THEN 5 ELSE 4)..GpMax
                                    [] p[1] = "fp" -> p[2] \in 1..FpMax
                                    [] p[1] = "st" ->
                                         /\ p[2] \in 0..(IF p \in Behind(last') THEN fast'.st ELSE fast'.st - 1)
                                         /\ fast'.st > MinParamList
         /\ wsize = 4 /\ Cardinality(last'.fast) = 2
              => \E p \in last'.fast : /\ p[2] % 2 = (IF p[1] = "gp" THEN 1 ELSE 0)
                                       /\ <<p[1], p[2] + 1>> \in last'.fast
<1> DEFINE f == FastPass(fast, t).f
           places == FastPass(fast, t).places
<1>1. PICK gp, fp, st \in Nat : Passed(t, f, places, gp, fp, st)
  BY FastPasses
<1>2. fast' = [f EXCEPT !.used = @ \cup places] /\ last'.fast = places /\ last'.type = t
  BY PassIs
<1> HIDE DEF f, places
<1>3. fast'.st = st
  BY <1>1, <1>2 DEF Passed
<1>4. /\ fast.gp \in (IF static THEN 5 ELSE 4)..11 /\ fast.gp \in 4..11
      /\ fast.fp \in 1..FpMax + 1 /\ fast.st \in Nat /\ wsize \in {4, 8}
      /\ wsize = 8 => fast.st >= fast.gp - 3 /\ fast.st >= fast.fp
      /\ UsedBelow /\ FpMax \in Nat /\ GpMax = 10
      /\ wsize = 8 => MinParamList = 8 /\ FpMax = 13
      /\ wsize = 4 => MinParamList = 0
  BY DEF ArgumentsInv, FastInv, FpMax, GpMax, GpStart, MinParamList
<1>5. CASE gp > fast.gp
  <2>1. PICK r \in Nat : /\ r >= fast.gp /\ r <= GpMax
                         /\ \/ places = {<<"gp", r>>}
                            \/ /\ r % 2 = 1 /\ r + 1 <= GpMax
                               /\ places = {<<"gp", r>>, <<"gp", r + 1>>}
    <3>1. CASE gp = fast.gp + 1 /\ places = {<<"gp", fast.gp>>}
      BY <1>1, <1>4, <3>1 DEF Passed
    <3>2. CASE gp - 2 >= fast.gp /\ gp % 2 = 1 /\ places = {<<"gp", gp - 2>>, <<"gp", gp - 1>>}
      <4>1. gp - 2 \in Nat /\ gp - 2 <= GpMax /\ (gp - 2) + 1 = gp - 1 /\ (gp - 2) % 2 = 1
            /\ (gp - 2) + 1 <= GpMax
        BY <1>1, <1>4, <3>2 DEF Passed
      <4> QED BY <3>2, <4>1
    <3> QED BY <1>1, <1>4, <1>5, <3>1, <3>2 DEF Passed
  <2>2. \A p \in places : p[1] = "gp" /\ p[2] \in (IF static THEN 5 ELSE 4)..GpMax /\ p[2] >= fast.gp
    BY <1>4, <2>1
  <2>3. places \cap fast.used \subseteq Behind(last) /\ places # {}
    <3>1. ASSUME NEW p \in places, p \in fast.used, p \notin Behind(last) PROVE FALSE
      <4>1. p[1] = "gp" /\ p[2] >= fast.gp
        BY <2>2, <3>1
      <4>2. p[2] \in 0..fast.gp - 1
        BY <1>4, <3>1, <4>1 DEF UsedBelow
      <4> QED BY <1>4, <4>1, <4>2
    <3>2. places # {}
      BY <2>1
    <3> QED BY <3>1, <3>2
  <2>4. ASSUME Cardinality(places) = 2
        PROVE  \E p \in places : p[2] % 2 = (IF p[1] = "gp" THEN 1 ELSE 0) /\ <<p[1], p[2] + 1>> \in places
    <3>1. places # {<<"gp", r>>}
      BY <2>4, NoPair, Zenon
    <3>2. r % 2 = 1 /\ places = {<<"gp", r>>, <<"gp", r + 1>>}
      BY <2>1, <3>1
    <3> QED BY <3>2
  <2> QED BY <1>2, <2>2, <2>3, <2>4
<1>6. CASE gp = fast.gp /\ fp = fast.fp + 1
  <2>1. places = {<<"fp", fast.fp>>} /\ fast.fp <= FpMax
    BY <1>1, <1>4, <1>6 DEF Passed
  <2>2. \A p \in places : p[1] = "fp" /\ p[2] \in 1..FpMax /\ p[2] >= fast.fp
    BY <1>4, <2>1
  <2>3. places \cap fast.used \subseteq Behind(last) /\ places # {}
    BY <1>4, <2>1, <2>2 DEF UsedBelow
  <2>4. Cardinality(places) # 2
    BY <2>1, NoPair, Zenon
  <2> QED BY <1>2, <2>2, <2>3, <2>4
<1>7. CASE gp = fast.gp /\ fp = fast.fp
  <2>1. \/ st = fast.st + 1 /\ places = {<<"st", StoredFrom(fast.st, t)>>}
        \/ /\ wsize = 4 /\ st \in fast.st + 2..fast.st + 3 /\ st % 2 = 0
           /\ places = {<<"st", st - 2>>, <<"st", st - 1>>}
    BY <1>1, <1>4, <1>7 DEF Passed
  <2>2. st > MinParamList
    BY <1>1, <1>4, <1>7, <2>1 DEF Passed
  <2>3. ASSUME NEW p \in places
        PROVE  /\ p[1] = "st" /\ p[2] >= fast.st
               /\ p[2] \in 0..(IF p \in Behind(last') THEN st ELSE st - 1)
    <3>1. CASE st = fast.st + 1 /\ places = {<<"st", StoredFrom(fast.st, t)>>} /\ wsize = 8 /\ t = "float"
      <4>1. p = <<"st", st>>
        BY <3>1 DEF StoredFrom
      <4>2. st \in StWords(places)
        BY <4>1 DEF StWords
      <4>3. Behind(last') = places
        BY <1>2, <3>1, <4>2 DEF Behind
      <4> QED BY <1>4, <3>1, <4>1, <4>3
    <3>2. CASE st = fast.st + 1 /\ places = {<<"st", fast.st>>}
      BY <1>4, <3>2
    <3>3. CASE wsize = 4 /\ st \in fast.st + 2..fast.st + 3 /\ places = {<<"st", st - 2>>, <<"st", st - 1>>}
      BY <1>4, <3>3
    <3> QED BY <2>1, <3>1, <3>2, <3>3 DEF StoredFrom
  <2>4. places \cap fast.used \subseteq Behind(last) /\ places # {}
    <3>1. ASSUME NEW p \in places, p \in fast.used, p \notin Behind(last) PROVE FALSE
      <4>1. p[1] = "st" /\ p[2] >= fast.st
        BY <2>3, <3>1
      <4>2. p[2] \in 0..fast.st - 1
        BY <1>4, <3>1, <4>1 DEF UsedBelow
      <4> QED BY <1>4, <4>1, <4>2
    <3>2. places # {}
      BY <2>1
    <3> QED BY <3>1, <3>2
  <2>5. ASSUME Cardinality(places) = 2
        PROVE  \E p \in places : p[2] % 2 = (IF p[1] = "gp" THEN 1 ELSE 0) /\ <<p[1], p[2] + 1>> \in places
    <3>1. places # {<<"st", StoredFrom(fast.st, t)>>}
      BY <2>5, NoPair, Zenon
    <3>2. (st - 2) % 2 = 0 /\ (st - 2) + 1 = st - 1
      BY <1>4, <2>1, <3>1
    <3> QED BY <2>1, <3>1, <3>2
  <2> QED BY <1>2, <1>3, <2>2, <2>3, <2>4, <2>5
<1> QED BY <1>1, <1>5, <1>6, <1>7 DEF Passed

LEMMA ArgumentsStep == ASSUME ArgumentsInv, [ArgumentsNext]_argVars PROVE ArgumentsInv'
<1>1. CASE ArgumentsNext
  <2>1. PICK t \in Types : Pass(t)
    BY <1>1 DEF ArgumentsNext, Types
  <2>2. wsize' = wsize /\ static' = static
    BY <2>1, PassIs
  <2> QED BY <2>1, <2>2, FastKept, SlowKept DEF ArgumentsInv
<1>2. CASE UNCHANGED argVars
  BY <1>2 DEF argVars, ArgumentsInv, FastInv, SlowInv, HandlersAgree, FpMax, GpMax, GpStart,
              RegisterImages, UsedBelow, Behind
<1> QED BY <1>1, <1>2

(* The slow handler puts every argument where the generated one does, as    *)
(* long as it can pass it, and never writes over the images of registers.   *)
THEOREM SlowAgreesWithFast == ArgumentsSpec => []HandlersAgree
<1>1. ArgumentsInv => HandlersAgree
  BY DEF ArgumentsInv
<1> QED BY <1>1, ArgumentsStart, ArgumentsStep, PTL DEF ArgumentsSpec

(* No two arguments of a call have one place, none has the place of JNIEnv  *)
(* or the mirror, pairs are aligned and the stack words are inside the       *)
(* space, however long the signature; but a float on the stack of PPC64 is   *)
(* behind its own word.                                                      *)
THEOREM FastHandlerIsSound == ArgumentsSpec => FastPlacesSound
<1>1. ASSUME ArgumentsInv, [ArgumentsNext]_argVars
      PROVE [/\ last'.fast \cap fast.used \subseteq Behind(last) /\ last'.fast # {}
             /\ \A p \in last'.fast : CASE p[1] = "gp" -> p[2] \in (IF static THEN 5 ELSE 4)..GpMax
                                        [] p[1] = "fp" -> p[2] \in 1..FpMax
                                        [] p[1] = "st" ->
                                             /\ p[2] \in 0..(IF p \in Behind(last') THEN fast'.st ELSE fast'.st - 1)
                                             /\ fast'.st > MinParamList
             /\ wsize = 4 /\ Cardinality(last'.fast) = 2
                  => \E p \in last'.fast : /\ p[2] % 2 = (IF p[1] = "gp" THEN 1 ELSE 0)
                                           /\ <<p[1], p[2] + 1>> \in last'.fast]_argVars
  BY <1>1, FastIsSound DEF ArgumentsNext, Types
<1> QED BY <1>1, ArgumentsStart, ArgumentsStep, PTL DEF ArgumentsSpec, FastPlacesSound

-----------------------------------------------------------------------------
(* Assembler: the moves before a call, constants, branches.                 *)

assemblerVars == <<call, word, code, labels, constant, loaded, passed>>

LEMMA MoveIs ==
  ASSUME NEW R, NEW f \in [R -> R], NEW to \in R, NEW from \in R
  PROVE  /\ Move(f, to, from) \in [R -> R] /\ Move(f, to, from)[to] = f[from]
         /\ \A r \in R : r # to => Move(f, to, from)[r] = f[r]
  BY DEF Move

LEMMA ArgumentsPassed == PassArgs => ArgumentsArrive'
<1> SUFFICES ASSUME PassArgs PROVE ArgumentsArrive'
  OBVIOUS
<1> DEFINE all == [r \in ArgRegs \cup {31} |-> r]
<1>1. PICK n \in 1..3 : \E args \in [1..n -> ArgRegs] :
        /\ Allowed(args)
        /\ LET first == all
               r1 == Move(first, 4, args[1])
               r2 == IF n >= 2 THEN Move(r1, 5, args[2]) ELSE r1
               r3 == IF n = 3 THEN Move(r2, 6, args[3]) ELSE r2
           IN  passed' = [args |-> args, regs |-> Move(r3, 3, 31)]
  BY Zenon DEF PassArgs
<1>2. PICK args \in [1..n -> ArgRegs] :
        /\ Allowed(args)
        /\ LET first == all
               r1 == Move(first, 4, args[1])
               r2 == IF n >= 2 THEN Move(r1, 5, args[2]) ELSE r1
               r3 == IF n = 3 THEN Move(r2, 6, args[3]) ELSE r2
           IN  passed' = [args |-> args, regs |-> Move(r3, 3, 31)]
  BY <1>1, Zenon
<1> DEFINE r1 == Move(all, 4, args[1])
           r2 == IF n >= 2 THEN Move(r1, 5, args[2]) ELSE r1
           r3 == IF n = 3 THEN Move(r2, 6, args[3]) ELSE r2
           R == ArgRegs \cup {31}
<1>3. passed'.args = args /\ passed'.regs = Move(r3, 3, 31) /\ DOMAIN args = 1..n
  BY <1>2
<1>4. Len(args) = n /\ args[1] \in ArgRegs /\ (n >= 2 => args[2] \in ArgRegs) /\ (n = 3 => args[3] \in ArgRegs)
  <2>1. args \in Seq(ArgRegs)
    BY <1>2
  <2>2. Len(args) = n
    BY <1>3, <2>1
  <2> QED BY <1>2, <2>2
<1>5. 3 \in R /\ 4 \in R /\ 5 \in R /\ 6 \in R /\ 31 \in R /\ \A r \in ArgRegs : r \in R
  BY DEF ArgRegs
<1>6. all \in [R -> R] /\ \A r \in R : all[r] = r
  OBVIOUS
<1> HIDE DEF all, R
<1>7. /\ r1 \in [R -> R] /\ r1[4] = args[1] /\ \A r \in R : r # 4 => r1[r] = r
  <2>1. args[1] \in R
    BY <1>4, <1>5
  <2>2. /\ r1 \in [R -> R] /\ r1[4] = all[args[1]] /\ \A r \in R : r # 4 => r1[r] = all[r]
    BY <1>5, <1>6, <2>1, MoveIs
  <2> QED BY <1>6, <2>1, <2>2
<1> HIDE DEF r1
<1>8. /\ r2 \in [R -> R] /\ r2[4] = args[1]
      /\ n >= 2 => r2[5] = args[2]
      /\ \A r \in R : r # 4 /\ r # 5 => r2[r] = r
  <2>1. CASE n >= 2
    <3>1. /\ r2 \in [R -> R] /\ r2[5] = r1[args[2]] /\ \A r \in R : r # 5 => r2[r] = r1[r]
      <4>1. r2 = Move(r1, 5, args[2]) /\ args[2] \in R
        BY <1>4, <1>5, <2>1
      <4>2. r1 \in [R -> R] /\ 5 \in R /\ args[2] \in R
        BY <1>5, <1>7, <4>1
      <4>3. /\ Move(r1, 5, args[2]) \in [R -> R] /\ Move(r1, 5, args[2])[5] = r1[args[2]]
            /\ \A r \in R : r # 5 => Move(r1, 5, args[2])[r] = r1[r]
        BY <4>2, MoveIs
      <4> QED BY <4>1, <4>3, Zenon
    <3>2. args[2] = 4 => args[1] = 4
      BY <1>2, <1>4, <2>1 DEF Allowed
    <3>3. r1[args[2]] = args[2]
      BY <1>4, <1>5, <1>7, <2>1, <3>2
    <3> QED BY <1>5, <1>7, <3>1, <3>3
  <2>2. CASE ~(n >= 2)
    BY <1>7, <2>2
  <2> QED BY <2>1, <2>2
<1> HIDE DEF r2
<1>9. /\ r3 \in [R -> R] /\ r3[4] = args[1] /\ (n >= 2 => r3[5] = args[2])
      /\ n = 3 => r3[6] = args[3]
  <2>1. CASE n = 3
    <3>1. /\ r3 \in [R -> R] /\ r3[6] = r2[args[3]] /\ \A r \in R : r # 6 => r3[r] = r2[r]
      <4>1. r3 = Move(r2, 6, args[3]) /\ args[3] \in R
        BY <1>4, <1>5, <2>1
      <4>2. r2 \in [R -> R] /\ 6 \in R /\ args[3] \in R
        BY <1>5, <1>8, <4>1
      <4>3. /\ Move(r2, 6, args[3]) \in [R -> R] /\ Move(r2, 6, args[3])[6] = r2[args[3]]
            /\ \A r \in R : r # 6 => Move(r2, 6, args[3])[r] = r2[r]
        BY <4>2, MoveIs
      <4> QED BY <4>1, <4>3, Zenon
    <3>2. /\ args[3] = 4 => args[1] = 4
          /\ args[3] = 5 => args[2] = 5
      BY <1>2, <1>4, <2>1 DEF Allowed
    <3>3. r2[args[3]] = args[3]
      BY <1>4, <1>5, <1>8, <2>1, <3>2
    <3> QED BY <1>5, <1>8, <2>1, <3>1, <3>3
  <2>2. CASE n # 3
    BY <1>8, <2>2
  <2> QED BY <2>1, <2>2
<1> HIDE DEF r3
<1>10. \A i \in 1..n : Move(r3, 3, 31)[3 + i] = args[i]
  <2>1. \A r \in R : r # 3 => Move(r3, 3, 31)[r] = r3[r]
    <3>1. r3 \in [R -> R] /\ 3 \in R /\ 31 \in R
      BY <1>5, <1>9
    <3> QED BY <3>1, MoveIs
  <2>2. 3 + 1 = 4 /\ 3 + 2 = 5 /\ 3 + 3 = 6
    OBVIOUS
  <2>3. /\ Move(r3, 3, 31)[4] = args[1] /\ (n >= 2 => Move(r3, 3, 31)[5] = args[2])
        /\ n = 3 => Move(r3, 3, 31)[6] = args[3]
    BY <1>5, <1>9, <2>1
  <2>4. n = 1 \/ n = 2 \/ n = 3
    OBVIOUS
  <2> QED BY <2>2, <2>3, <2>4
<1> QED BY <1>3, <1>10 DEF ArgumentsArrive

(* Every argument of a call into the virtual machine arrives, for every     *)
(* assignment of registers that the asserts let pass.                       *)
THEOREM ArgumentsReachTheVM == AssemblerSpec => []ArgumentsArrive
<1>1. AssemblerInit => ArgumentsArrive
  BY DEF AssemblerInit, ArgumentsArrive
<1>2. ArgumentsArrive /\ [AssemblerNext]_assemblerVars => ArgumentsArrive'
  <2>1. ASSUME ArgumentsArrive, passed' = passed PROVE ArgumentsArrive'
    BY <2>1 DEF ArgumentsArrive
  <2>2. AssemblerNext => PassArgs \/ passed' = passed
    BY DEF AssemblerNext, Emit, LabelNext, Other, Branch, Bind, Load
  <2> QED BY <2>1, <2>2, ArgumentsPassed DEF assemblerVars
<1> QED BY <1>1, <1>2, PTL DEF AssemblerSpec, assemblerVars

(* What the sequences that load a constant leave in a register.  The        *)
(* halfwords have no type here, only what PlainHalfword says: the provers   *)
(* compare tuples of integers badly.                                        *)
LEMMA OriQuad ==
  ASSUME NEW a, NEW b, NEW c, NEW h, 0 + h = h
  PROVE  Ori(<<a, b, c, 0>>, h) = <<a, b, c, h>>
  BY DEF Ori

LEMMA OrisQuad ==
  ASSUME NEW a, NEW b, NEW h, 0 + h = h
  PROVE  Oris(<<a, b, 0, 0>>, h) = <<a, b, h, 0>>
  BY DEF Oris

LEMMA Load64Is ==
  ASSUME NEW a, NEW b, NEW c, NEW d, 0 + b = b, 0 + c = c, 0 + d = d
  PROVE  Load64(a, b, c, d) =
           IF a # 0 THEN <<a, b, c, d>>
           ELSE IF b # 0 THEN <<Sign(b), b, c, d>>
           ELSE IF c # 0 THEN <<Sign(c), Sign(c), c, d>>
           ELSE <<Sign(d), Sign(d), Sign(d), d>>
<1>1. /\ Li(4, d) = <<Sign(d), Sign(d), Sign(d), d>>
      /\ Li(4, b) = <<Sign(b), Sign(b), Sign(b), b>>
  BY DEF Li
<1>2. /\ Lis(4, a) = <<Sign(a), Sign(a), a, 0>> /\ Lis(4, c) = <<Sign(c), Sign(c), c, 0>>
  BY DEF Lis
<1>3. Ori(Lis(4, a), b) = <<Sign(a), Sign(a), a, b>> /\ Ori(Lis(4, c), d) = <<Sign(c), Sign(c), c, d>>
  BY OriQuad, <1>2, ZenonT(30)
<1>4. \A x, y, z : Sldi32(<<z, z, x, y>>) = <<x, y, 0, 0>>
  BY DEF Sldi32
<1>5. \A x, y : Oris(<<x, y, 0, 0>>, c) = <<x, y, c, 0>>
  BY OrisQuad, Zenon
<1>6. \A x, y, z : Ori(<<x, y, z, 0>>, d) = <<x, y, z, d>>
  BY OriQuad, Zenon
<1> DEFINE upper == IF a # 0 THEN IF b # 0 THEN Ori(Lis(4, a), b) ELSE Lis(4, a) ELSE Li(4, b)
           first == IF a = 0 THEN Sign(b) ELSE a
           middle == IF c = 0 THEN Sldi32(upper) ELSE Oris(Sldi32(upper), c)
           result == IF c # 0 THEN IF d # 0 THEN Ori(middle, d) ELSE middle
                     ELSE IF d = 0 THEN middle ELSE Ori(middle, d)
<1>7. CASE a # 0 \/ b # 0
  <2>1. Load64(a, b, c, d) = result
    BY <1>7, Zenon DEF Load64
  <2>2. Sldi32(upper) = <<first, b, 0, 0>>
    <3>1. CASE a # 0 /\ b # 0
      BY <1>3, <1>4, <3>1, Zenon
    <3>2. CASE a # 0 /\ b = 0
      BY <1>2, <1>4, <3>2, Zenon
    <3>3. CASE a = 0
      BY <1>1, <1>4, <3>3, Zenon
    <3> QED BY <3>1, <3>2, <3>3, Zenon
  <2>3. middle = <<first, b, c, 0>>
    <3>1. CASE c = 0
      BY <2>2, <3>1, Zenon
    <3>2. CASE c # 0
      BY <1>5, <2>2, <3>2, Zenon
    <3> QED BY <3>1, <3>2, Zenon
  <2>4. result = <<first, b, c, d>>
    <3>1. CASE d = 0
      BY <2>3, <3>1, Zenon
    <3>2. CASE d # 0
      BY <1>6, <2>3, <3>2, Zenon
    <3> QED BY <3>1, <3>2, Zenon
  <2> QED BY <1>7, <2>1, <2>4, Zenon
<1>8. CASE a = 0 /\ b = 0 /\ c # 0
  BY <1>2, <1>3, <1>8, Zenon DEF Load64
<1>9. CASE a = 0 /\ b = 0 /\ c = 0
  BY <1>1, <1>9, Zenon DEF Load64
<1> QED BY <1>7, <1>8, <1>9, Zenon

LEMMA Load32Is ==
  ASSUME NEW a, NEW b, 0 + b = b
  PROVE  Load32(a, b) = IF a # 0 THEN <<a, b>> ELSE <<Sign(b), b>>
<1>1. Li(2, b) = <<Sign(b), b>>
  BY DEF Li
<1>2. Lis(2, a) = <<a, 0>>
  BY DEF Lis
<1>3. Ori(<<a, 0>>, b) = <<a, b>>
  BY DEF Ori
<1>4. CASE a = 0
  BY <1>1, <1>4, Zenon DEF Load32
<1>5. CASE a # 0 /\ b = 0
  BY <1>2, <1>5, Zenon DEF Load32
<1>6. CASE a # 0 /\ b # 0
  BY <1>2, <1>3, <1>6, Zenon DEF Load32
<1> QED BY <1>4, <1>5, <1>6, Zenon

(* The register holds the constant when the sign of the halfword that is    *)
(* loaded first is zero.                                                    *)
LEMMA LeadingQuad ==
  ASSUME NEW v, DOMAIN v = 1..4
  PROVE  Leading(v) <=> \/ v[1] # 0
                        \/ v[2] # 0 /\ v[2] < 32768
                        \/ v[2] = 0 /\ v[3] # 0 /\ v[3] < 32768
                        \/ v[2] = 0 /\ v[3] = 0 /\ (v[4] = 0 \/ v[4] < 32768)
<1> DEFINE first == {i \in DOMAIN v : v[i] # 0 /\ \A j \in 1..i - 1 : v[j] = 0}
<1>1. Leading(v) <=> (first = {} \/ \E i \in first : i = 1 \/ v[i] < 32768)
  BY DEF Leading
<1>2. CASE v[1] # 0
  <2>1. first = {1}
    BY <1>2
  <2> QED BY <1>1, <1>2, <2>1
<1>3. CASE v[1] = 0 /\ v[2] # 0
  <2>1. first = {2}
    BY <1>3
  <2> QED BY <1>1, <1>3, <2>1
<1>4. CASE v[1] = 0 /\ v[2] = 0 /\ v[3] # 0
  <2>1. first = {3}
    BY <1>4
  <2> QED BY <1>1, <1>4, <2>1
<1>5. CASE v[1] = 0 /\ v[2] = 0 /\ v[3] = 0 /\ v[4] # 0
  <2>1. first = {4}
    BY <1>5
  <2> QED BY <1>1, <1>5, <2>1
<1>6. CASE v[1] = 0 /\ v[2] = 0 /\ v[3] = 0 /\ v[4] = 0
  <2>1. first = {}
    BY <1>6
  <2> QED BY <1>1, <1>6, <2>1
<1> QED BY <1>2, <1>3, <1>4, <1>5, <1>6

PlainHalfword(h) == 0 + h = h /\ (Sign(h) = 0 <=> h < 32768)

LEMMA HalfwordsArePlain == \A h \in Halfwords : PlainHalfword(h)
<1>1. Halfwords \subseteq Halfword
  BY FieldAssumption, Zenon
<1>2. \A h \in Halfword : h \in Int
  BY DEF Halfword
<1> HIDE DEF Halfword
<1>3. \A h \in Halfwords : h \in Int
  BY <1>1, <1>2
<1> QED BY <1>3 DEF PlainHalfword, Sign

LEMMA QuadIsExact ==
  ASSUME NEW a, NEW b, NEW c, NEW d, PlainHalfword(b), PlainHalfword(c), PlainHalfword(d)
  PROVE  Load64(a, b, c, d) = <<a, b, c, d>> <=> Leading(<<a, b, c, d>>)
<1> DEFINE v == <<a, b, c, d>>
<1> SUFFICES Load64(a, b, c, d) = v <=> Leading(v)
  OBVIOUS
<1>1. DOMAIN v = 1..4 /\ v[1] = a /\ v[2] = b /\ v[3] = c /\ v[4] = d
  OBVIOUS
<1>2. Leading(v) <=> \/ a # 0
                     \/ b # 0 /\ b < 32768
                     \/ b = 0 /\ c # 0 /\ c < 32768
                     \/ b = 0 /\ c = 0 /\ (d = 0 \/ d < 32768)
  <2>1. DOMAIN v = 1..4
    BY <1>1
  <2> HIDE DEF v
  <2>2. Leading(v) <=> \/ v[1] # 0
                       \/ v[2] # 0 /\ v[2] < 32768
                       \/ v[2] = 0 /\ v[3] # 0 /\ v[3] < 32768
                       \/ v[2] = 0 /\ v[3] = 0 /\ (v[4] = 0 \/ v[4] < 32768)
    BY <2>1, LeadingQuad
  <2>3. v[1] = a /\ v[2] = b /\ v[3] = c /\ v[4] = d
    BY <1>1
  <2> QED BY <2>2, <2>3
<1>3. \A x, y, z, u : <<x, y, z, u>> = v <=> x = a /\ y = b /\ z = c /\ u = d
  OBVIOUS
<1>4. /\ 0 + b = b /\ 0 + c = c /\ 0 + d = d
      /\ Sign(b) = 0 <=> b < 32768
      /\ Sign(c) = 0 <=> c < 32768
      /\ Sign(d) = 0 <=> d < 32768
  BY DEF PlainHalfword
<1>5. Load64(a, b, c, d) =
           IF a # 0 THEN v
           ELSE IF b # 0 THEN <<Sign(b), b, c, d>>
           ELSE IF c # 0 THEN <<Sign(c), Sign(c), c, d>>
           ELSE <<Sign(d), Sign(d), Sign(d), d>>
  BY <1>4, Load64Is
<1> HIDE DEF v
<1>6. CASE a # 0
  BY <1>2, <1>5, <1>6
<1>7. CASE a = 0 /\ b # 0
  <2>1. Load64(a, b, c, d) = v <=> Sign(b) = 0
    BY <1>3, <1>5, <1>7, Zenon
  <2> QED BY <1>2, <1>4, <1>7, <2>1
<1>8. CASE a = 0 /\ b = 0 /\ c # 0
  <2>1. Load64(a, b, c, d) = v <=> Sign(c) = 0
    BY <1>3, <1>5, <1>8, Zenon
  <2> QED BY <1>2, <1>4, <1>8, <2>1
<1>9. CASE a = 0 /\ b = 0 /\ c = 0
  <2>1. Load64(a, b, c, d) = v <=> Sign(d) = 0
    BY <1>3, <1>5, <1>9, Zenon
  <2>2. d = 0 => Sign(d) = 0
    BY DEF Sign
  <2> QED BY <1>2, <1>4, <1>9, <2>1, <2>2
<1> QED BY <1>6, <1>7, <1>8, <1>9

LEMMA PairIsExact ==
  ASSUME NEW a, NEW b, PlainHalfword(b)
  PROVE  Load32(a, b) = <<a, b>> <=> Leading(<<a, b>>)
<1> DEFINE v == <<a, b>>
           first == {i \in DOMAIN v : v[i] # 0 /\ \A j \in 1..i - 1 : v[j] = 0}
<1>1. DOMAIN v = 1..2 /\ v[1] = a /\ v[2] = b
  OBVIOUS
<1>2. \A x, y : <<x, y>> = v <=> x = a /\ y = b
  OBVIOUS
<1>3. 0 + b = b /\ (Sign(b) = 0 <=> b < 32768) /\ (b = 0 => Sign(b) = 0)
  <2>1. b = 0 => Sign(b) = 0
    BY DEF Sign
  <2> QED BY <2>1 DEF PlainHalfword
<1>4. Load32(a, b) = IF a # 0 THEN v ELSE <<Sign(b), b>>
  BY <1>3, Load32Is
<1>5. Leading(v) <=> (first = {} \/ \E i \in first : i = 1 \/ v[i] < 32768)
  BY DEF Leading
<1> HIDE DEF v
<1>6. CASE a # 0
  <2>1. first = {1}
    BY <1>1, <1>6
  <2>2. Leading(v)
    BY <1>5, <2>1
  <2> QED BY <1>4, <1>6, <2>2, Zenon DEF v
<1>7. CASE a = 0 /\ b # 0
  <2>1. first = {2}
    BY <1>1, <1>7
  <2>2. Leading(v) <=> b < 32768
    BY <1>1, <1>5, <2>1
  <2>3. Load32(a, b) = v <=> Sign(b) = 0
    BY <1>2, <1>4, <1>7, Zenon
  <2> QED BY <1>3, <2>2, <2>3 DEF v
<1>8. CASE a = 0 /\ b = 0
  <2>1. first = {}
    BY <1>1, <1>8
  <2>2. Leading(v)
    BY <1>5, <2>1
  <2>3. Load32(a, b) = v
    BY <1>2, <1>3, <1>4, <1>8
  <2> QED BY <2>2, <2>3, Zenon DEF v
<1> QED BY <1>6, <1>7, <1>8, Zenon

(* load(Register, long) loads its constant exactly when the first halfword  *)
(* that is not zero is the register's first or has its sign bit clear.      *)
THEOREM LoadsAreExact == AssemblerSpec => []LoadExact
<1>1. Leading(<<0, 0>>)
  <2>1. PlainHalfword(0) /\ Sign(0) = 0
    BY DEF PlainHalfword, Sign
  <2>2. 0 + 0 = 0
    OBVIOUS
  <2>3. Load32(0, 0) = <<Sign(0), 0>>
    BY <2>2, Load32Is, Zenon
  <2>4. Load32(0, 0) = <<0, 0>>
    BY <2>1, <2>3, Zenon
  <2> QED BY <2>1, <2>4, PairIsExact, Zenon
<1>2. AssemblerInit => LoadExact
  BY <1>1, Zenon DEF AssemblerInit, LoadExact
<1>3. LoadExact /\ [AssemblerNext]_assemblerVars => LoadExact'
  <2>1. ASSUME LoadExact, constant' = constant, loaded' = loaded PROVE LoadExact'
    BY <2>1, Zenon DEF LoadExact
  <2>2. ASSUME Load PROVE LoadExact'
    <3>1. CASE \E a \in Halfwords, b \in Halfwords : constant' = <<a, b>> /\ loaded' = Load32(a, b)
      <4>1. PICK a \in Halfwords, b \in Halfwords : constant' = <<a, b>> /\ loaded' = Load32(a, b)
        BY <3>1
      <4>2. loaded' = <<a, b>> <=> Leading(<<a, b>>)
        BY <4>1, HalfwordsArePlain, PairIsExact, Zenon
      <4> QED BY <4>1, <4>2, Zenon DEF LoadExact
    <3>2. CASE \E a \in Halfwords, b \in Halfwords, c \in Halfwords, d \in Halfwords :
                 constant' = <<a, b, c, d>> /\ loaded' = Load64(a, b, c, d)
      <4>1. PICK a \in Halfwords, b \in Halfwords, c \in Halfwords, d \in Halfwords :
              constant' = <<a, b, c, d>> /\ loaded' = Load64(a, b, c, d)
        BY <3>2
      <4>2. loaded' = <<a, b, c, d>> <=> Leading(<<a, b, c, d>>)
        BY <4>1, HalfwordsArePlain, QuadIsExact, Zenon
      <4> QED BY <4>1, <4>2, Zenon DEF LoadExact
    <3> QED BY <2>2, <3>1, <3>2, Zenon DEF Load
  <2>3. AssemblerNext => Load \/ (constant' = constant /\ loaded' = loaded)
    BY DEF AssemblerNext, Emit, LabelNext, Other, Branch, Bind, PassArgs
  <2> QED BY <2>1, <2>2, <2>3 DEF assemblerVars
<1> QED BY <1>2, <1>3, PTL DEF AssemblerSpec, assemblerVars

(* The displacement a processor takes from a field.                         *)
SignedField(f, b) == IF f >= 2^(b - 1) THEN f - 2^b ELSE f

CodeEntry == [bits : {0, ShortBits, LongBits}, field : Int, label : Labels \cup {"none"}]
LabelTable == [Labels -> [at : Nat, patches : SUBSET Nat]]

Branched(c, i, ls) ==
  c.bits # 0 => IF ls[c.label].at # 0 THEN i + SignedField(c.field, c.bits) = ls[c.label].at
                ELSE i \in ls[c.label].patches /\ c.field = 0

(* A patch of a label is a branch to it, and no bound label has one.        *)
BranchesIn(cs, ls) ==
  /\ cs \in Seq(CodeEntry) /\ ls \in LabelTable
  /\ \A l \in Labels : ls[l].at # 0 => ls[l].patches = {}
  /\ \A l \in Labels : \A i \in ls[l].patches : i \in DOMAIN cs /\ cs[i].label = l /\ cs[i].bits # 0
  /\ \A i \in DOMAIN cs : cs[i].bits # 0 => cs[i].label \in Labels
  /\ \A i \in DOMAIN cs : Branched(cs[i], i, ls)

BranchInv == BranchesIn(code, labels)

LEMMA Powers == \A b \in 1..24 : 2^(b - 1) \in Nat \ {0} /\ 2^b = 2 * 2^(b - 1)
<1> DEFINE P(b) == 2^b
<1>1. /\ P(0) = 1 /\ P(1) = 2 /\ P(2) = 4 /\ P(3) = 8 /\ P(4) = 16 /\ P(5) = 32 /\ P(6) = 64
      /\ P(7) = 128 /\ P(8) = 256 /\ P(9) = 512 /\ P(10) = 1024 /\ P(11) = 2048 /\ P(12) = 4096
      /\ P(13) = 8192 /\ P(14) = 16384 /\ P(15) = 32768 /\ P(16) = 65536 /\ P(17) = 131072
      /\ P(18) = 262144 /\ P(19) = 524288 /\ P(20) = 1048576 /\ P(21) = 2097152
      /\ P(22) = 4194304 /\ P(23) = 8388608 /\ P(24) = 16777216
  OBVIOUS
<1> HIDE DEF P
<1>2. \A b \in 1..24 : P(b - 1) \in Nat \ {0} /\ P(b) = 2 * P(b - 1)
  BY <1>1
<1> QED BY <1>2 DEF P

LEMMA SignedIsDisplacement ==
  ASSUME NEW b \in {ShortBits, LongBits}, NEW d \in Int, Fits(d, b)
  PROVE  d % 2^b \in Int /\ SignedField(d % 2^b, b) = d
<1> DEFINE p == 2^(b - 1)
           w == 2^b
<1>1. p \in Nat \ {0} /\ w = 2 * p
  <2>1. b \in 1..24
    BY FieldAssumption
  <2> QED BY <2>1, Powers
<1>2. -p <= d /\ d < p
  BY DEF Fits
<1>3. SignedField(d % w, b) = IF d % w >= p THEN (d % w) - w ELSE d % w
  BY Zenon DEF SignedField
<1> HIDE DEF p, w
<1>4. d % w = IF d < 0 THEN d + w ELSE d
  BY <1>1, <1>2
<1>5. d % w \in Int /\ SignedField(d % w, b) = d
  BY <1>1, <1>2, <1>3, <1>4
<1> QED BY <1>5 DEF w

LEMMA BranchStart == AssemblerInit => BranchInv
<1> SUFFICES ASSUME AssemblerInit PROVE BranchInv
  OBVIOUS
<1>1. code = <<>> /\ labels = [l \in Labels |-> [at |-> 0, patches |-> {}]]
  BY DEF AssemblerInit
<1>2. DOMAIN code = {} /\ code \in Seq(CodeEntry)
  BY <1>1
<1>3. labels \in LabelTable
  BY <1>1 DEF LabelTable
<1>4. \A l \in Labels : labels[l].patches = {}
  BY <1>1
<1> QED BY <1>2, <1>3, <1>4 DEF BranchInv, BranchesIn

LEMMA AppendedAre ==
  ASSUME NEW cs \in Seq(CodeEntry), NEW c \in CodeEntry, NEW n, n = Len(cs) + 1
  PROVE  /\ Append(cs, c) \in Seq(CodeEntry) /\ DOMAIN Append(cs, c) = DOMAIN cs \cup {n}
         /\ Append(cs, c)[n] = c /\ n \in Nat \ {0} /\ n \notin DOMAIN cs
         /\ \A i \in DOMAIN cs : Append(cs, c)[i] = cs[i] /\ i # n
  OBVIOUS

(* An instruction that is no branch, or a branch to a bound label.          *)
LEMMA AppendKeeps ==
  ASSUME NEW cs, NEW ls, BranchesIn(cs, ls), NEW c \in CodeEntry, NEW n, n = Len(cs) + 1,
         c.bits # 0 => c.label \in Labels, Branched(c, n, ls)
  PROVE  BranchesIn(Append(cs, c), ls)
<1>1. cs \in Seq(CodeEntry)
  BY DEF BranchesIn
<1> DEFINE new == Append(cs, c)
<1>2. /\ new \in Seq(CodeEntry) /\ DOMAIN new = DOMAIN cs \cup {n}
      /\ new[n] = c /\ n \in Nat \ {0} /\ n \notin DOMAIN cs
      /\ \A i \in DOMAIN cs : new[i] = cs[i] /\ i # n
  BY <1>1, AppendedAre
<1> SUFFICES BranchesIn(new, ls)
  OBVIOUS
<1> HIDE DEF new
<1>3. ASSUME NEW k \in Labels, NEW i \in ls[k].patches
      PROVE  i \in DOMAIN new /\ new[i].label = k /\ new[i].bits # 0
  BY <1>2 DEF BranchesIn
<1>4. ASSUME NEW i \in DOMAIN new
      PROVE  (new[i].bits # 0 => new[i].label \in Labels) /\ Branched(new[i], i, ls)
  <2>1. CASE i = n
    BY <1>2, <2>1
  <2>2. CASE i \in DOMAIN cs
    BY <1>2, <2>2, Zenon DEF BranchesIn
  <2> QED BY <1>2, <2>1, <2>2
<1>5. ls \in LabelTable /\ \A k \in Labels : ls[k].at # 0 => ls[k].patches = {}
  BY DEF BranchesIn
<1> QED BY <1>2, <1>3, <1>4, <1>5, Zenon DEF BranchesIn

(* A branch to a label that is not bound yet.                               *)
LEMMA ForwardKeeps ==
  ASSUME NEW cs, NEW ls, BranchesIn(cs, ls), NEW l \in Labels, NEW bits \in {ShortBits, LongBits},
         NEW n, n = Len(cs) + 1, ls[l].at = 0
  PROVE  BranchesIn(Append(cs, [bits |-> bits, field |-> 0, label |-> l]),
                    [ls EXCEPT ![l].patches = @ \cup {n}])
<1> DEFINE c == [bits |-> bits, field |-> 0, label |-> l]
           new == Append(cs, c)
           nls == [ls EXCEPT ![l].patches = @ \cup {n}]
<1>1. cs \in Seq(CodeEntry) /\ ls \in LabelTable
  BY DEF BranchesIn
<1>2. c \in CodeEntry /\ c.bits = bits /\ c.label = l /\ c.field = 0 /\ bits # 0
  BY FieldAssumption DEF CodeEntry
<1>3. /\ new \in Seq(CodeEntry) /\ DOMAIN new = DOMAIN cs \cup {n}
      /\ new[n] = c /\ n \in Nat \ {0} /\ n \notin DOMAIN cs
      /\ \A i \in DOMAIN cs : new[i] = cs[i] /\ i # n
  <2> HIDE DEF c
  <2> QED BY <1>1, <1>2, AppendedAre
<1>4. /\ nls \in LabelTable /\ nls[l].at = 0 /\ nls[l].patches = ls[l].patches \cup {n}
      /\ \A k \in Labels : nls[k].at = ls[k].at /\ (k # l => nls[k].patches = ls[k].patches)
  BY <1>1, <1>3 DEF LabelTable
<1> SUFFICES BranchesIn(new, nls)
  OBVIOUS
<1> HIDE DEF new, nls, c
<1>5. \A k \in Labels : nls[k].at # 0 => nls[k].patches = {}
  BY <1>4 DEF BranchesIn
<1>6. ASSUME NEW k \in Labels, NEW i \in nls[k].patches
      PROVE  i \in DOMAIN new /\ new[i].label = k /\ new[i].bits # 0
  <2>1. CASE k = l /\ i = n
    BY <1>2, <1>3, <2>1
  <2>2. CASE i \in ls[k].patches
    <3>1. i \in DOMAIN cs /\ cs[i].label = k /\ cs[i].bits # 0
      BY <2>2 DEF BranchesIn
    <3> QED BY <1>3, <3>1
  <2> QED BY <1>4, <2>1, <2>2
<1>7. \A i \in DOMAIN new : new[i].bits # 0 => new[i].label \in Labels
  BY <1>2, <1>3, Zenon DEF BranchesIn
<1>8. ASSUME NEW i \in DOMAIN new PROVE Branched(new[i], i, nls)
  <2>1. CASE i = n
    BY <1>2, <1>3, <1>4, <2>1, Zenon DEF Branched
  <2>2. CASE i \in DOMAIN cs
    <3>1. new[i] = cs[i] /\ Branched(cs[i], i, ls) /\ (cs[i].bits # 0 => cs[i].label \in Labels)
      BY <1>3, <2>2 DEF BranchesIn
    <3> QED BY <1>4, <3>1 DEF Branched
  <2> QED BY <1>3, <2>1, <2>2
<1> QED BY <1>3, <1>4, <1>5, <1>6, <1>7, <1>8, Zenon DEF BranchesIn

(* A label is bound, and the branches that waited for it are patched.       *)
LEMMA BindKeeps ==
  ASSUME NEW cs, NEW ls, BranchesIn(cs, ls), NEW l \in Labels, ls[l].at = 0,
         NEW n, n = Len(cs) + 1,
         \A i \in ls[l].patches : Fits(n - i, cs[i].bits)
  PROVE  BranchesIn([i \in DOMAIN cs |->
                       IF i \in ls[l].patches
                       THEN [cs[i] EXCEPT !.field = PatchInstruction(i, n, cs[i].bits)] ELSE cs[i]],
                    [ls EXCEPT ![l] = [at |-> n, patches |-> {}]])
<1> DEFINE patched(i) == [cs[i] EXCEPT !.field = PatchInstruction(i, n, cs[i].bits)]
           new == [i \in DOMAIN cs |-> IF i \in ls[l].patches THEN patched(i) ELSE cs[i]]
           nls == [ls EXCEPT ![l] = [at |-> n, patches |-> {}]]
<1>1. /\ cs \in Seq(CodeEntry) /\ ls \in LabelTable /\ n \in Nat \ {0}
      /\ DOMAIN cs = 1..n - 1 /\ \A i \in DOMAIN cs : i \in Int /\ cs[i] \in CodeEntry
  BY DEF BranchesIn
<1>2. ASSUME NEW i \in ls[l].patches
      PROVE  /\ i \in DOMAIN cs /\ patched(i) \in CodeEntry
             /\ patched(i).label = l /\ patched(i).bits = cs[i].bits
             /\ i + SignedField(patched(i).field, patched(i).bits) = n
  <2>1. i \in DOMAIN cs /\ cs[i].label = l /\ cs[i].bits # 0
    BY DEF BranchesIn
  <2>2. i \in Int /\ cs[i] \in CodeEntry /\ cs[i].bits \in {ShortBits, LongBits}
    BY <1>1, <2>1 DEF CodeEntry
  <2> DEFINE f == PatchInstruction(i, n, cs[i].bits)
  <2>3. f \in Int /\ SignedField(f, cs[i].bits) = n - i
    <3>1. n - i \in Int /\ Fits(n - i, cs[i].bits)
      BY <1>1, <2>2
    <3> QED BY <2>2, <3>1, SignedIsDisplacement, Zenon DEF PatchInstruction, BranchField
  <2> HIDE DEF f
  <2>4. /\ patched(i) = [cs[i] EXCEPT !.field = f] /\ patched(i) \in CodeEntry
        /\ patched(i).label = l /\ patched(i).bits = cs[i].bits /\ patched(i).field = f
    <3>1. [cs[i] EXCEPT !.field = f] \in CodeEntry
      BY <2>2, <2>3 DEF CodeEntry
    <3> QED BY <2>1, <2>2, <3>1 DEF CodeEntry, f
  <2> QED BY <1>1, <2>1, <2>2, <2>3, <2>4
<1> HIDE DEF patched
<1>3. /\ new \in Seq(CodeEntry) /\ DOMAIN new = DOMAIN cs
      /\ \A i \in DOMAIN cs : new[i] = IF i \in ls[l].patches THEN patched(i) ELSE cs[i]
  <2>1. \A i \in 1..n - 1 : new[i] \in CodeEntry
    BY <1>1, <1>2
  <2>2. new \in [1..n - 1 -> CodeEntry]
    BY <1>1, <2>1
  <2> QED BY <1>1, <2>2
<1>4. /\ nls \in LabelTable /\ nls[l].at = n /\ nls[l].patches = {}
      /\ \A k \in Labels : k # l => nls[k] = ls[k]
  BY <1>1 DEF LabelTable
<1> SUFFICES BranchesIn(new, nls)
  BY DEF patched
<1> HIDE DEF new, nls
<1>5. \A k \in Labels : nls[k].at # 0 => nls[k].patches = {}
  BY <1>4 DEF BranchesIn
<1>6. ASSUME NEW k \in Labels, NEW i \in nls[k].patches
      PROVE  i \in DOMAIN new /\ new[i].label = k /\ new[i].bits # 0
  <2>1. k # l /\ i \in ls[k].patches
    BY <1>4
  <2>2. i \in DOMAIN cs /\ cs[i].label = k /\ cs[i].bits # 0
    BY <2>1 DEF BranchesIn
  <2>3. i \notin ls[l].patches
    BY <2>1, <2>2 DEF BranchesIn
  <2> QED BY <1>3, <2>2, <2>3
<1>7. ASSUME NEW i \in DOMAIN new
      PROVE  (new[i].bits # 0 => new[i].label \in Labels) /\ Branched(new[i], i, nls)
  <2>1. CASE i \in ls[l].patches
    BY <1>1, <1>2, <1>3, <1>4, <2>1 DEF Branched
  <2>2. CASE i \notin ls[l].patches
    <3>1. new[i] = cs[i] /\ Branched(cs[i], i, ls) /\ (cs[i].bits # 0 => cs[i].label \in Labels)
      BY <1>3, <2>2 DEF BranchesIn
    <3>2. cs[i].bits # 0 => cs[i].label # l
      BY <2>2, <3>1 DEF Branched
    <3> QED BY <1>4, <3>1, <3>2 DEF Branched
  <2> QED BY <2>1, <2>2
<1> QED BY <1>3, <1>4, <1>5, <1>6, <1>7, Zenon DEF BranchesIn

LEMMA BranchStep == BranchInv /\ [AssemblerNext]_assemblerVars => BranchInv'
<1> SUFFICES ASSUME BranchInv, [AssemblerNext]_assemblerVars PROVE BranchInv'
  OBVIOUS
<1>1. BranchesIn(code, labels) /\ code \in Seq(CodeEntry) /\ labels \in LabelTable /\ Here = Len(code) + 1
  BY DEF BranchInv, BranchesIn, Here
<1>2. CASE code' = code /\ labels' = labels
  BY <1>2 DEF BranchInv
<1>3. CASE Other
  <2> DEFINE c == [bits |-> 0, field |-> 0, label |-> "none"]
  <2>1. c \in CodeEntry /\ c.bits = 0 /\ Branched(c, Here, labels)
    BY DEF CodeEntry, Branched
  <2>2. code' = Append(code, c) /\ labels' = labels
    BY <1>3 DEF Other
  <2> HIDE DEF c
  <2>3. BranchesIn(Append(code, c), labels)
    BY <1>1, <2>1, AppendKeeps
  <2> QED BY <2>2, <2>3 DEF BranchInv
<1>4. ASSUME NEW l \in Labels, NEW bits \in {ShortBits, LongBits}, Branch(l, bits) PROVE BranchInv'
  <2>1. CASE labels[l].at # 0 /\ Fits(labels[l].at - Here, bits)
    <3> DEFINE c == [bits |-> bits, field |-> BranchField(Here, labels[l].at, bits), label |-> l]
    <3>1. labels[l].at \in Int /\ Here \in Int /\ labels[l].at - Here \in Int
      BY <1>1 DEF LabelTable
    <3>2. /\ BranchField(Here, labels[l].at, bits) \in Int
          /\ SignedField(BranchField(Here, labels[l].at, bits), bits) = labels[l].at - Here
      BY <2>1, <3>1, SignedIsDisplacement, Zenon DEF BranchField
    <3>3. c \in CodeEntry /\ c.bits = bits /\ c.label = l
          /\ c.field = BranchField(Here, labels[l].at, bits)
      BY <3>2 DEF CodeEntry
    <3>4. code' = Append(code, c) /\ labels' = labels
      BY <1>4, <2>1 DEF Branch
    <3> HIDE DEF c
    <3>5. Branched(c, Here, labels)
      BY <2>1, <3>1, <3>2, <3>3 DEF Branched
    <3>6. BranchesIn(Append(code, c), labels)
      BY <1>1, <3>3, <3>5, AppendKeeps
    <3> QED BY <3>4, <3>6 DEF BranchInv
  <2>2. CASE labels[l].at = 0
    <3>1. /\ code' = Append(code, [bits |-> bits, field |-> 0, label |-> l])
          /\ labels' = [labels EXCEPT ![l].patches = @ \cup {Here}]
      BY <1>4, <2>2 DEF Branch
    <3>2. BranchesIn(Append(code, [bits |-> bits, field |-> 0, label |-> l]),
                     [labels EXCEPT ![l].patches = @ \cup {Here}])
      BY <1>1, <2>2, ForwardKeeps
    <3> QED BY <3>1, <3>2, Zenon DEF BranchInv
  <2> QED BY <1>4, <2>1, <2>2 DEF Branch
<1>5. ASSUME NEW l \in Labels, Bind(l) PROVE BranchInv'
  <2>1. /\ labels' = [labels EXCEPT ![l] = [at |-> Here, patches |-> {}]]
        /\ code' = [i \in DOMAIN code |->
                      IF i \in labels[l].patches
                      THEN [code[i] EXCEPT !.field = PatchInstruction(i, Here, code[i].bits)] ELSE code[i]]
        /\ labels[l].at = 0 /\ \A i \in labels[l].patches : Fits(Here - i, code[i].bits)
    BY <1>5, Zenon DEF Bind
  <2>2. BranchesIn([i \in DOMAIN code |->
                      IF i \in labels[l].patches
                      THEN [code[i] EXCEPT !.field = PatchInstruction(i, Here, code[i].bits)] ELSE code[i]],
                   [labels EXCEPT ![l] = [at |-> Here, patches |-> {}]])
    BY <1>1, <2>1, BindKeeps, ZenonT(30)
  <2> QED BY <2>1, <2>2, Zenon DEF BranchInv
<1>6. AssemblerNext => LabelNext \/ (code' = code /\ labels' = labels)
  BY DEF AssemblerNext, Emit, Load, PassArgs
<1> QED BY <1>2, <1>3, <1>4, <1>5, <1>6 DEF LabelNext, assemblerVars

(* Every branch to a bound label goes to it, and every other one waits to   *)
(* be patched, whatever the order of branches and binds.                    *)
THEOREM LabelsAreReached == AssemblerSpec => []BranchesReachLabels
<1>1. BranchInv => BranchesReachLabels
  BY DEF BranchInv, BranchesIn, Branched, SignedField, BranchesReachLabels
<1> QED BY <1>1, BranchStart, BranchStep, PTL DEF AssemblerSpec, assemblerVars

-----------------------------------------------------------------------------
(* ConjointCopy: a copy does what memmove does, for every heap, source,     *)
(* destination and count, as long as the heap lies on one side of the sign  *)
(* bit: then the signed comparison of the two addresses orders them, and    *)
(* the direction the routine chooses never overwrites a word it still has   *)
(* to read.                                                                 *)

(* The words first..past-1 of the block have been copied.                   *)
Partial(first, past) ==
  [a \in Addresses |-> IF a \in dst + first .. dst + past - 1
                       THEN before[a - dst + src] ELSE before[a]]
PartlyFilled(past) ==
  [a \in Addresses |-> IF a \in dst .. dst + past - 1 THEN Filler ELSE before[a]]

(* Going up, a word is read before anything was written at or above it;     *)
(* going down, before anything was written at or below it.                  *)
UpIsSafe == dst <= src \/ src + count <= dst
DownIsSafe == src <= dst \/ dst + count <= src

CopyTypes ==
  /\ heap \in [Addresses -> Int] /\ before \in [Addresses -> Int]
  /\ src \in Int /\ dst \in Int /\ count \in Nat /\ index \in Int /\ r0 \in Int
  /\ at \in {"idle", "leftToRight", "storeRight", "rightToLeft", "storeLeft",
             "filling", "done", "filled"}

Blocks == Block(src, count) \subseteq Addresses /\ Block(dst, count) \subseteq Addresses

CopyInv ==
  /\ CopyTypes
  /\ at # "idle" => Blocks
  /\ at \in {"leftToRight", "storeRight"} =>
       UpIsSafe /\ index \in 0..count /\ heap = Partial(0, index)
  /\ at = "storeRight" => index < count /\ r0 = before[src + index]
  /\ at \in {"rightToLeft", "storeLeft"} => DownIsSafe /\ index \in 0..count
  /\ at = "rightToLeft" => heap = Partial(index, count)
  /\ at = "storeLeft" =>
       index < count /\ r0 = before[src + index] /\ heap = Partial(index + 1, count)
  /\ at = "filling" => index \in 0..count /\ heap = PartlyFilled(index)
  /\ at = "done" => heap = Memmoved
  /\ at = "filled" => heap = Filled

-----------------------------------------------------------------------------
(* The signed comparison orders the addresses of a one-sided heap.          *)
LEMMA SignedOrder ==
  ASSUME OneSided, NEW a \in Addresses, NEW b \in Addresses
  PROVE  NotAbove(a, b) <=> a <= b
BY HeapAssumption DEF OneSided, NotAbove, Addresses

LEMMA AddressesAreInts == Addresses \subseteq Int
BY HeapAssumption DEF Addresses

(* When a routine is called nothing has been copied, in either direction.   *)
LEMMA NothingCopied ==
  ASSUME CopyTypes, NEW from \in Addresses, NEW to \in Addresses, NEW n \in 0..HeapSize,
         Called(from, to, n), heap' = heap
  PROVE  heap' = Partial(0, 0)' /\ heap' = Partial(count, count)' /\ heap' = PartlyFilled(0)'
<1>1. dst' = to /\ count' = n /\ src' = from /\ before' = heap
  BY DEF Called
<1>2. ASSUME NEW a \in Addresses
      PROVE  a \notin to + 0 .. to + 0 - 1 /\ a \notin to .. to + 0 - 1 /\ a \notin to + n .. to + n - 1
  BY AddressesAreInts, HeapAssumption
<1> QED BY <1>1, <1>2 DEF Partial, PartlyFilled, CopyTypes

(* The whole block has been copied, or filled.                              *)
LEMMA WholeBlock ==
  ASSUME CopyTypes
  PROVE  Partial(0, count) = Memmoved /\ PartlyFilled(count) = Filled
<1>1. dst + 0 .. dst + count - 1 = Block(dst, count)
  BY DEF CopyTypes, Block
<1>2. dst .. dst + count - 1 = Block(dst, count)
  BY DEF Block
<1> QED BY <1>1, <1>2 DEF Partial, PartlyFilled, Memmoved, Filled

(* One more word, at either end of what has been copied.                    *)
LEMMA OneMore ==
  ASSUME CopyTypes, Blocks, NEW i \in 0..count - 1
  PROVE  /\ r0 = before[src + i] /\ heap = Partial(0, i) => [heap EXCEPT ![dst + i] = r0] = Partial(0, i + 1)
         /\ r0 = before[src + i] /\ heap = Partial(i + 1, count) => [heap EXCEPT ![dst + i] = r0] = Partial(i, count)
         /\ heap = PartlyFilled(i) => [heap EXCEPT ![dst + i] = Filler] = PartlyFilled(i + 1)
<1> USE AddressesAreInts
<1>1. dst + i \in Addresses /\ dst + i - dst + src = src + i
  BY DEF CopyTypes, Blocks, Block
<1>2. ASSUME heap = Partial(0, i), r0 = before[src + i]
      PROVE  [heap EXCEPT ![dst + i] = r0] = Partial(0, i + 1)
  <2>1. ASSUME NEW a \in Addresses PROVE [heap EXCEPT ![dst + i] = r0][a] = Partial(0, i + 1)[a]
    <3>1. CASE a = dst + i
      BY <1>1, <1>2, <3>1 DEF Partial, CopyTypes
    <3>2. CASE a # dst + i
      BY <1>1, <1>2, <3>2 DEF Partial, CopyTypes
    <3> QED BY <3>1, <3>2
  <2>2. DOMAIN [heap EXCEPT ![dst + i] = r0] = Addresses
    BY DEF CopyTypes
  <2> QED BY <2>1, <2>2 DEF Partial
<1>3. ASSUME heap = Partial(i + 1, count), r0 = before[src + i]
      PROVE  [heap EXCEPT ![dst + i] = r0] = Partial(i, count)
  <2>1. ASSUME NEW a \in Addresses PROVE [heap EXCEPT ![dst + i] = r0][a] = Partial(i, count)[a]
    <3>1. CASE a = dst + i
      BY <1>1, <1>3, <3>1 DEF Partial, CopyTypes
    <3>2. CASE a # dst + i
      BY <1>1, <1>3, <3>2 DEF Partial, CopyTypes
    <3> QED BY <3>1, <3>2
  <2>2. DOMAIN [heap EXCEPT ![dst + i] = r0] = Addresses
    BY DEF CopyTypes
  <2> QED BY <2>1, <2>2 DEF Partial
<1>4. ASSUME heap = PartlyFilled(i)
      PROVE  [heap EXCEPT ![dst + i] = Filler] = PartlyFilled(i + 1)
  <2>1. ASSUME NEW a \in Addresses PROVE [heap EXCEPT ![dst + i] = Filler][a] = PartlyFilled(i + 1)[a]
    <3>1. CASE a = dst + i
      BY <1>1, <1>4, <3>1 DEF PartlyFilled, CopyTypes
    <3>2. CASE a # dst + i
      BY <1>1, <1>4, <3>2 DEF PartlyFilled, CopyTypes
    <3> QED BY <3>1, <3>2
  <2>2. DOMAIN [heap EXCEPT ![dst + i] = Filler] = Addresses
    BY DEF CopyTypes
  <2> QED BY <2>1, <2>2 DEF PartlyFilled
<1> QED BY <1>2, <1>3, <1>4

(* The word to be read still holds what it held when the routine was called. *)
LEMMA StillThere ==
  ASSUME CopyTypes, Blocks, NEW i \in 0..count - 1
  PROVE  /\ heap[src + i] \in Int
         /\ UpIsSafe /\ heap = Partial(0, i) => heap[src + i] = before[src + i]
         /\ DownIsSafe /\ heap = Partial(i + 1, count) => heap[src + i] = before[src + i]
<1> USE AddressesAreInts
<1>1. src + i \in Addresses
  BY DEF CopyTypes, Blocks, Block
<1>2. UpIsSafe => src + i \notin dst + 0 .. dst + i - 1
  BY DEF CopyTypes, UpIsSafe
<1>3. DownIsSafe => src + i \notin dst + (i + 1) .. dst + count - 1
  BY DEF CopyTypes, DownIsSafe
<1> QED BY <1>1, <1>2, <1>3 DEF Partial, CopyTypes

(* A call finds the heap as it is and picks a safe direction.               *)
LEMMA CallIsSafe ==
  ASSUME CopyTypes, NEW from \in Addresses, NEW to \in Addresses, NEW n \in 0..HeapSize,
         Called(from, to, n)
  PROVE  /\ Blocks'
         /\ from <= to => DownIsSafe'
         /\ ~(from <= to) => UpIsSafe'
         /\ ~Overlap(from, to, n) => UpIsSafe' /\ DownIsSafe'
<1> USE AddressesAreInts, HeapAssumption
<1>1. Blocks'
  BY DEF Called, Blocks, Block, Addresses
<1>2. (from <= to => DownIsSafe') /\ (~(from <= to) => UpIsSafe')
  BY DEF Called, UpIsSafe, DownIsSafe
<1>3. ASSUME ~Overlap(from, to, n) PROVE from + n <= to \/ to + n <= from
  <2> SUFFICES ASSUME to < from + n, from < to + n
               PROVE  \E x \in Int : x \in Block(from, n) \cap Block(to, n)
    BY <1>3 DEF Overlap
  <2>1. CASE from <= to
    BY <2>1 DEF Block
  <2>2. CASE to <= from
    BY <2>2 DEF Block
  <2> QED BY <2>1, <2>2
<1>4. ~Overlap(from, to, n) => UpIsSafe' /\ DownIsSafe'
  BY <1>3 DEF Called, UpIsSafe, DownIsSafe
<1> QED BY <1>1, <1>2, <1>4

-----------------------------------------------------------------------------
LEMMA CopyInvInit == CopyInit => CopyInv
<1> SUFFICES ASSUME CopyInit PROVE CopyInv
  OBVIOUS
<1>1. CopyTypes
  BY AddressesAreInts, HeapAssumption DEF CopyInit, CopyTypes
<1> QED BY <1>1 DEF CopyInit, CopyInv

LEMMA CopyInvStep ==
  ASSUME OneSided, CopyInv, [CopyNext]_copyVars PROVE CopyInv'
<1> USE DEF CopyInv
<1>1. CASE UNCHANGED copyVars
  BY <1>1 DEF copyVars, CopyTypes, Blocks, UpIsSafe, DownIsSafe, Partial, PartlyFilled, Memmoved, Filled
<1>2. ASSUME NEW from \in Addresses, NEW to \in Addresses, NEW n \in 0..HeapSize,
             CallConjoint(from, to, n)
      PROVE  CopyInv'
  <2>1. Called(from, to, n) /\ heap' = heap /\ r0' = r0
    BY <1>2 DEF CallConjoint
  <2>2. CopyTypes' /\ n \in Nat
    BY <1>2, HeapAssumption, AddressesAreInts DEF CallConjoint, Called, CopyTypes
  <2>3. Blocks' /\ (from <= to => DownIsSafe') /\ (~(from <= to) => UpIsSafe')
    BY <2>1, CallIsSafe
  <2>4. heap' = Partial(0, 0)' /\ heap' = Partial(count, count)'
    BY <2>1, NothingCopied
  <2>5. CASE NotAbove(from, to)
    <3>1. at' = "rightToLeft" /\ index' = count' /\ from <= to
      BY <1>2, <2>1, <2>5, SignedOrder DEF CallConjoint, Called
    <3> QED BY <2>2, <2>3, <2>4, <3>1 DEF CopyTypes
  <2>6. CASE ~NotAbove(from, to)
    <3>1. at' = "leftToRight" /\ index' = 0 /\ ~(from <= to)
      BY <1>2, <2>6, SignedOrder DEF CallConjoint
    <3> QED BY <2>2, <2>3, <2>4, <3>1 DEF CopyTypes
  <2> QED BY <2>5, <2>6
<1>3. ASSUME NEW from \in Addresses, NEW to \in Addresses, NEW n \in 0..HeapSize,
             CallDisjoint(from, to, n)
      PROVE  CopyInv'
  <2>1. Called(from, to, n) /\ ~Overlap(from, to, n) /\ heap' = heap /\ r0' = r0
    BY <1>3 DEF CallDisjoint
  <2>2. CopyTypes' /\ n \in Nat
    BY <1>3, HeapAssumption, AddressesAreInts DEF CallDisjoint, Called, CopyTypes
  <2>3. Blocks' /\ UpIsSafe' /\ DownIsSafe'
    BY <2>1, CallIsSafe
  <2>4. heap' = Partial(0, 0)' /\ heap' = Partial(count, count)'
    BY <2>1, NothingCopied
  <2>5. CASE n <= Unrolled
    <3>1. at' = "rightToLeft" /\ index' = count'
      BY <1>3, <2>1, <2>5 DEF CallDisjoint, Called
    <3> QED BY <2>2, <2>3, <2>4, <3>1 DEF CopyTypes
  <2>6. CASE ~(n <= Unrolled)
    <3>1. at' = "leftToRight" /\ index' = 0
      BY <1>3, <2>6 DEF CallDisjoint
    <3> QED BY <2>2, <2>3, <2>4, <3>1 DEF CopyTypes
  <2> QED BY <2>5, <2>6
<1>4. ASSUME NEW to \in Addresses, NEW n \in 0..HeapSize, CallFill(to, n) PROVE CopyInv'
  <2>1. Called(to, to, n) /\ heap' = heap /\ at' = "filling" /\ index' = 0
    BY <1>4 DEF CallFill
  <2>2. CopyTypes'
    BY <1>4, HeapAssumption, AddressesAreInts DEF CallFill, Called, CopyTypes
  <2>3. Blocks'
    BY <2>1, CallIsSafe
  <2>4. heap' = PartlyFilled(0)'
    BY <2>1, NothingCopied
  <2> QED BY <2>1, <2>2, <2>3, <2>4 DEF CopyTypes
<1>5. CASE LeftToRight
  <2>1. at = "leftToRight" /\ Blocks /\ UpIsSafe /\ index \in 0..count /\ heap = Partial(0, index)
    BY <1>5 DEF LeftToRight
  <2>2. UNCHANGED <<heap, src, dst, count, index, before>>
    BY <1>5 DEF LeftToRight
  <2>3. Blocks' /\ UpIsSafe' /\ heap' = Partial(0, index)'
    BY <2>1, <2>2 DEF Blocks, UpIsSafe, Partial
  <2>4. CASE index < count
    <3>1. r0' = heap[src + index] /\ at' = "storeRight"
      BY <1>5, <2>4 DEF LeftToRight, LoadElement
    <3>2. index \in 0..count - 1
      BY <2>1, <2>4 DEF CopyTypes
    <3>3. r0' \in Int /\ r0' = before[src + index]
      BY <2>1, <3>1, <3>2, StillThere
    <3>4. CopyTypes'
      BY <2>2, <3>1, <3>3 DEF CopyTypes
    <3> QED BY <2>1, <2>2, <2>3, <2>4, <3>1, <3>3, <3>4
  <2>5. CASE ~(index < count)
    <3>1. at' = "done" /\ r0' = r0 /\ index = count
      BY <1>5, <2>1, <2>5 DEF LeftToRight, CopyTypes
    <3>2. CopyTypes'
      BY <2>2, <3>1 DEF CopyTypes
    <3>3. heap = Memmoved
      BY <2>1, <3>1, WholeBlock
    <3>4. heap' = Memmoved'
      BY <2>2, <3>3 DEF Memmoved
    <3> QED BY <2>3, <3>1, <3>2, <3>4
  <2> QED BY <2>4, <2>5
<1>6. CASE StoreRight
  <2>1. /\ at = "storeRight" /\ Blocks /\ UpIsSafe /\ index \in 0..count - 1
        /\ heap = Partial(0, index) /\ r0 = before[src + index]
    BY <1>6 DEF StoreRight, CopyTypes
  <2>2. /\ heap' = [heap EXCEPT ![dst + index] = r0] /\ index' = index + 1
        /\ at' = "leftToRight" /\ UNCHANGED <<src, dst, count, r0, before>>
    BY <1>6 DEF StoreRight, StoreElement
  <2>3. heap' = Partial(0, index + 1)
    BY <2>1, <2>2, OneMore
  <2>4. heap' = Partial(0, index)'
    BY <2>2, <2>3 DEF Partial
  <2>5. index' \in 0..count' /\ index' \in Int
    BY <2>1, <2>2 DEF CopyTypes
  <2>6. CopyTypes' /\ Blocks' /\ UpIsSafe'
    BY <2>1, <2>2, <2>5 DEF CopyTypes, Blocks, UpIsSafe
  <2> QED BY <2>2, <2>4, <2>5, <2>6
<1>7. CASE RightToLeft
  <2>1. at = "rightToLeft" /\ Blocks /\ DownIsSafe /\ index \in 0..count /\ heap = Partial(index, count)
    BY <1>7 DEF RightToLeft
  <2>2. UNCHANGED <<heap, src, dst, count, before>>
    BY <1>7 DEF RightToLeft
  <2>3. Blocks' /\ DownIsSafe'
    BY <2>1, <2>2 DEF Blocks, DownIsSafe
  <2>4. CASE index > 0
    <3>1. index' = index - 1 /\ r0' = heap[src + (index - 1)] /\ at' = "storeLeft"
      BY <1>7, <2>4 DEF RightToLeft, LoadElement
    <3>2. index - 1 \in 0..count - 1 /\ (index - 1) + 1 = index
      BY <2>1, <2>4 DEF CopyTypes
    <3>3. r0' \in Int /\ r0' = before[src + (index - 1)]
      BY <2>1, <3>1, <3>2, StillThere
    <3>4. CopyTypes'
      BY <2>2, <3>1, <3>2, <3>3 DEF CopyTypes
    <3>5. index' \in 0..count' /\ index' < count' /\ index' + 1 = index
      BY <2>2, <3>1, <3>2 DEF CopyTypes
    <3>6. heap' = Partial(index + 1, count)'
      BY <2>1, <2>2, <3>5 DEF Partial
    <3> QED BY <2>2, <2>3, <3>1, <3>3, <3>4, <3>5, <3>6
  <2>5. CASE ~(index > 0)
    <3>1. at' = "done" /\ UNCHANGED <<r0, index>> /\ index = 0
      BY <1>7, <2>1, <2>5 DEF RightToLeft, CopyTypes
    <3>2. CopyTypes'
      BY <2>2, <3>1 DEF CopyTypes
    <3>3. heap = Memmoved
      BY <2>1, <3>1, WholeBlock
    <3>4. heap' = Memmoved'
      BY <2>2, <3>3 DEF Memmoved
    <3> QED BY <2>3, <3>1, <3>2, <3>4
  <2> QED BY <2>4, <2>5
<1>8. CASE StoreLeft
  <2>1. /\ at = "storeLeft" /\ Blocks /\ DownIsSafe /\ index \in 0..count - 1
        /\ heap = Partial(index + 1, count) /\ r0 = before[src + index]
    BY <1>8 DEF StoreLeft, CopyTypes
  <2>2. /\ heap' = [heap EXCEPT ![dst + index] = r0]
        /\ at' = "rightToLeft" /\ UNCHANGED <<src, dst, count, index, r0, before>>
    BY <1>8 DEF StoreLeft, StoreElement
  <2>3. heap' = Partial(index, count)
    BY <2>1, <2>2, OneMore
  <2>4. heap' = Partial(index, count)'
    BY <2>2, <2>3 DEF Partial
  <2>5. CopyTypes' /\ Blocks' /\ DownIsSafe' /\ index' \in 0..count'
    BY <2>1, <2>2 DEF CopyTypes, Blocks, DownIsSafe
  <2> QED BY <2>2, <2>4, <2>5
<1>9. CASE Fill
  <2>1. at = "filling" /\ Blocks /\ index \in 0..count /\ heap = PartlyFilled(index)
    BY <1>9 DEF Fill
  <2>2. UNCHANGED <<src, dst, count, r0, before>>
    BY <1>9 DEF Fill
  <2>3. CASE index < count
    <3>1. heap' = [heap EXCEPT ![dst + index] = Filler] /\ index' = index + 1 /\ at' = at
      BY <1>9, <2>3 DEF Fill, StoreElement
    <3>2. index \in 0..count - 1
      BY <2>1, <2>3 DEF CopyTypes
    <3>3. heap' = PartlyFilled(index + 1)
      BY <2>1, <3>1, <3>2, OneMore
    <3>4. heap' = PartlyFilled(index)'
      BY <2>2, <3>1, <3>3 DEF PartlyFilled
    <3>5. index' \in 0..count' /\ index' \in Int /\ Filler \in Int
      BY <2>2, <3>1, <3>2 DEF CopyTypes, Filler
    <3>6. CopyTypes' /\ Blocks'
      BY <2>1, <2>2, <3>1, <3>5 DEF CopyTypes, Blocks
    <3> QED BY <2>1, <3>1, <3>4, <3>5, <3>6
  <2>4. CASE ~(index < count)
    <3>1. at' = "filled" /\ UNCHANGED <<heap, index>> /\ index = count
      BY <1>9, <2>1, <2>4 DEF Fill, CopyTypes
    <3>2. CopyTypes' /\ Blocks'
      BY <2>1, <2>2, <3>1 DEF CopyTypes, Blocks
    <3>3. heap = Filled
      BY <2>1, <3>1, WholeBlock
    <3>4. heap' = Filled'
      BY <2>2, <3>1, <3>3 DEF Filled
    <3> QED BY <3>1, <3>2, <3>4
  <2> QED BY <2>3, <2>4
<1> QED
  BY <1>1, <1>2, <1>3, <1>4, <1>5, <1>6, <1>7, <1>8, <1>9 DEF CopyNext

(* linux_ppc.s:57-76, linux_ppc64.s:77-96, copy_CPU.hpp:49-68, 138-150: every *)
(* copy and fill does what memmove and memset do, whatever the overlap, and  *)
(* on the way every word holds its old or its new value.                     *)
THEOREM CopiesMove ==
  ASSUME OneSided PROVE CopySpec => []CopyMoves
<1>1. CopyInit => CopyInv
  BY CopyInvInit
<1>2. CopyInv /\ [CopyNext]_copyVars => CopyInv'
  BY CopyInvStep
<1>3. CopyInv => CopyMoves
  <2> SUFFICES ASSUME CopyInv PROVE CopyMoves
    OBVIOUS
  <2>1. ASSUME NEW lo \in Int, NEW hi \in Int, 0 <= lo, hi <= count, NEW a \in Addresses
        PROVE  Partial(lo, hi)[a] \in {before[a], Memmoved[a]}
    BY <2>1, AddressesAreInts DEF CopyInv, CopyTypes, Partial, Memmoved, Block
  <2>2. ASSUME at \in {"leftToRight", "storeRight", "rightToLeft", "storeLeft"}, NEW a \in Addresses
        PROVE  heap[a] \in {before[a], Memmoved[a]}
    <3>1. count \in Int /\ index \in 0..count
      BY <2>2 DEF CopyInv, CopyTypes
    <3>2. \E lo, hi \in Int : 0 <= lo /\ hi <= count /\ heap = Partial(lo, hi)
      BY <2>2, <3>1 DEF CopyInv
    <3> QED BY <2>1, <3>2
  <2>3. ASSUME at = "done", NEW a \in Addresses PROVE heap[a] \in {before[a], Memmoved[a]}
    BY <2>3 DEF CopyInv
  <2> QED BY <2>2, <2>3 DEF CopyMoves, CopyInv, CopyTypes
<1> QED BY <1>1, <1>2, <1>3, PTL DEF CopySpec

-----------------------------------------------------------------------------
(* Bytes: unaligned integers in pieces.                                     *)

Sizes == {2, 4, 8}
Widths == {1, 2, 4, 8}

(* A piece is naturally aligned, and the integer is so many pieces.         *)
LEMMA WidthDivides ==
  ASSUME NEW n \in Sizes, NEW p \in Nat
  PROVE  AccessWidth(n, p) \in Widths /\ p % AccessWidth(n, p) = 0 /\ n % AccessWidth(n, p) = 0
<1>1. CASE n = 2
  BY <1>1 DEF AccessWidth, Widths
<1>2. CASE n = 4
  BY <1>2 DEF AccessWidth, Widths
<1>3. CASE n = 8
  BY <1>3 DEF AccessWidth, Widths
<1> QED BY <1>1, <1>2, <1>3 DEF Sizes

(* Byte i * k + j of an integer is byte j of its piece i.                   *)
LEMMA ByteOfPiece ==
  ASSUME NEW k \in Widths, NEW i \in Nat, NEW j \in 0..k - 1
  PROVE  i * k \in Nat /\ (i * k + j) \div k = i /\ (i * k + j) % k = j
<1>1. CASE k = 1
  BY <1>1
<1>2. CASE k = 2
  BY <1>2
<1>3. CASE k = 4
  BY <1>3
<1>4. CASE k = 8
  BY <1>4
<1> QED BY <1>1, <1>2, <1>3, <1>4 DEF Widths

LEMMA PieceOfByte ==
  ASSUME NEW k \in Widths, NEW n \in Sizes, n % k = 0, NEW b \in 1..n
  PROVE  /\ (b - 1) \div k \in Nat /\ (b - 1) % k \in 0..k - 1
         /\ b - 1 = ((b - 1) \div k) * k + ((b - 1) % k)
         /\ ((b - 1) \div k) * k + k <= n
<1>1. CASE k = 1
  BY <1>1
<1>2. CASE k = 2
  BY <1>2 DEF Sizes
<1>3. CASE k = 4
  BY <1>3 DEF Sizes
<1>4. CASE k = 8
  BY <1>4 DEF Sizes
<1> QED BY <1>1, <1>2, <1>3, <1>4 DEF Widths

LEMMA OrderOf ==
  ASSUME NEW k \in Nat, NEW f, f = [j \in 1..k |-> f[j]]
  PROVE  /\ InOrder(f) = [j \in 1..k |-> InOrder(f)[j]]
         /\ \A j \in 1..k : InOrder(f)[j] = IF LittleEndian THEN f[(k - j) + 1] ELSE f[j]
<1>1. DOMAIN f = 1..k /\ Len(f) = k
  OBVIOUS
<1> QED BY <1>1 DEF InOrder, Reverse

LEMMA OrderTwice ==
  ASSUME NEW k \in Nat, NEW f, f = [j \in 1..k |-> f[j]]
  PROVE  InOrder(InOrder(f)) = f
<1> DEFINE g == InOrder(f)
           h == InOrder(g)
<1>1. g = [j \in 1..k |-> g[j]]
  BY OrderOf, Zenon
<1>2. \A j \in 1..k : g[j] = IF LittleEndian THEN f[(k - j) + 1] ELSE f[j]
  BY OrderOf, Zenon
<1>3. /\ h = [j \in 1..k |-> h[j]]
      /\ \A j \in 1..k : h[j] = IF LittleEndian THEN g[(k - j) + 1] ELSE g[j]
  <2> HIDE DEF g
  <2> QED BY <1>1, OrderOf, ZenonT(30)
<1> HIDE DEF g, h
<1>4. ASSUME NEW j \in 1..k PROVE h[j] = f[j]
  <2>1. (k - j) + 1 \in 1..k /\ (k - ((k - j) + 1)) + 1 = j
    OBVIOUS
  <2> QED BY <1>2, <1>3, <2>1
<1>5. h = f
  BY <1>3, <1>4, Zenon
<1> QED BY <1>5 DEF g, h

(* What a store writes for piece i of an integer x.                         *)
Piece(x, k, i) == InOrder(SubSeq(x, i * k + 1, i * k + k))

LEMMA PieceIs ==
  ASSUME NEW S, NEW x \in Seq(S), NEW k \in Widths, NEW i \in Nat, i * k + k <= Len(x)
  PROVE  /\ Piece(x, k, i) = [j \in 1..k |-> Piece(x, k, i)[j]]
         /\ InOrder(Piece(x, k, i)) = [j \in 1..k |-> x[i * k + j]]
<1> DEFINE f == SubSeq(x, i * k + 1, i * k + k)
           m == i * k
<1>1. m \in Nat /\ k \in Nat \ {0}
  <2>1. 0 \in 0..k - 1 /\ k \in Nat \ {0}
    BY DEF Widths
  <2> QED BY <2>1, ByteOfPiece
<1>2. f = [j \in 1..k |-> f[j]] /\ \A j \in 1..k : f[j] = x[m + j]
  <2> HIDE DEF m
  <2>1. SubSeq(x, m + 1, m + k) = [j \in 1..(m + k) - (m + 1) + 1 |-> x[j + (m + 1) - 1]]
    BY <1>1
  <2>2. (m + k) - (m + 1) + 1 = k /\ \A j \in 1..k : j + (m + 1) - 1 = m + j
    BY <1>1
  <2>3. SubSeq(x, m + 1, m + k) = [j \in 1..k |-> x[m + j]]
    BY <2>1, <2>2
  <2> QED BY <2>3 DEF m
<1> HIDE DEF f
<1>3. Piece(x, k, i) = InOrder(f)
  BY DEF Piece, f
<1> HIDE DEF m
<1>4. InOrder(f) = [j \in 1..k |-> InOrder(f)[j]]
  BY <1>1, <1>2, OrderOf, Zenon
<1>5. InOrder(InOrder(f)) = f
  BY <1>1, <1>2, OrderTwice, Zenon
<1>6. f = [j \in 1..k |-> x[m + j]]
  BY <1>2, Zenon
<1> QED BY <1>2, <1>3, <1>4, <1>5, <1>6, Zenon DEF m

(* Where a store puts its pieces, and from where a load takes them.         *)
LEMMA PutIs ==
  ASSUME NEW n \in Sizes, NEW p \in Nat, (p + n) - 1 <= LastByte, NEW x,
         NEW i \in Nat, NEW j \in 1..AccessWidth(n, p),
         i * AccessWidth(n, p) + AccessWidth(n, p) <= n
  PROVE  put_native(n, p, x)[(p + (i * AccessWidth(n, p) + j)) - 1] = Piece(x, AccessWidth(n, p), i)[j]
<1> DEFINE k == AccessWidth(n, p)
           a == (p + (i * k + j)) - 1
<1>1. k \in Widths
  BY WidthDivides
<1>2. k \in Nat /\ i * k \in Nat /\ (i * k + (j - 1)) \div k = i /\ (i * k + (j - 1)) % k = j - 1
  <2> HIDE DEF k
  <2>1. k \in Nat
    BY <1>1 DEF Widths
  <2>2. j - 1 \in 0..k - 1
    BY <2>1 DEF k
  <2> QED BY <1>1, <2>1, <2>2, ByteOfPiece
<1>3. put_native(n, p, x) =
        [b \in 0..LastByte |-> IF b \in p..p + n - 1 THEN Piece(x, k, (b - p) \div k)[((b - p) % k) + 1]
                              ELSE bytes[b]]
  BY Zenon DEF put_native, Piece
<1>4. j \in 1..k /\ i * k + k <= n
  OBVIOUS
<1>5. n \in Nat /\ LastByte \in Nat
  BY BytesAssumption DEF Sizes
<1> HIDE DEF k
<1>6. a - p = i * k + (j - 1) /\ a \in p..(p + n) - 1 /\ a \in 0..LastByte
  <2> DEFINE m == i * k
  <2>1. m \in Nat
    BY <1>2
  <2> HIDE DEF m
  <2>2. /\ ((p + (m + j)) - 1) - p = m + (j - 1)
        /\ (p + (m + j)) - 1 \in p..(p + n) - 1 /\ (p + (m + j)) - 1 \in 0..LastByte
    BY <1>2, <1>4, <1>5, <2>1 DEF m
  <2> QED BY <2>2 DEF m
<1>7. (a - p) \div k = i /\ ((a - p) % k) + 1 = j
  BY <1>2, <1>4, <1>6
<1>8. p + n - 1 = (p + n) - 1
  BY <1>5
<1> HIDE DEF a
<1>9. put_native(n, p, x)[a] = Piece(x, k, i)[j]
  BY <1>3, <1>6, <1>7, <1>8
<1> QED BY <1>9 DEF a, k

Loaded(p, k, i) == [j \in 1..k |-> bytes[p + i * k + j - 1]]

LEMMA GetIs ==
  ASSUME NEW n, NEW p
  PROVE  get_native(n, p) = [b \in 1..n |-> InOrder(Loaded(p, AccessWidth(n, p), (b - 1) \div AccessWidth(n, p)))
                                                [((b - 1) % AccessWidth(n, p)) + 1]]
  BY Zenon DEF get_native, Loaded

(* What was stored is loaded again, in either byte order.                   *)
LEMMA ReadBack ==
  ASSUME NEW n \in Sizes, NEW p \in Nat, (p + n) - 1 <= LastByte,
         NEW S, NEW x \in Seq(S), Len(x) = n, bytes' = put_native(n, p, x)
  PROVE  (get_native(n, p))' = x
<1> DEFINE k == AccessWidth(n, p)
<1>1. k \in Widths /\ n % k = 0 /\ k \in Nat /\ n \in Nat
  BY WidthDivides DEF Sizes, Widths
<1>2. (get_native(n, p))' = [b \in 1..n |-> InOrder((Loaded(p, k, (b - 1) \div k))')[((b - 1) % k) + 1]]
  BY Zenon DEF get_native, Loaded
<1>3. ASSUME NEW b \in 1..n
      PROVE  InOrder((Loaded(p, k, (b - 1) \div k))')[((b - 1) % k) + 1] = x[b]
  <2> DEFINE i == (b - 1) \div k
             c == ((b - 1) % k) + 1
  <2> HIDE DEF k
  <2>1. /\ i \in Nat /\ i * k + k <= n /\ c \in 1..k /\ i * k + c = b
    <3>1. /\ i \in Nat /\ (b - 1) % k \in 0..k - 1 /\ b - 1 = i * k + ((b - 1) % k) /\ i * k + k <= n
      BY <1>1, PieceOfByte
    <3>2. i * k \in Nat
      BY <1>1, <3>1, ByteOfPiece DEF Widths
    <3> QED BY <1>1, <3>1, <3>2
  <2> HIDE DEF i, c
  <2>2. (Loaded(p, k, i))' = Piece(x, k, i)
    <3>1. ASSUME NEW j \in 1..k PROVE bytes'[p + i * k + j - 1] = Piece(x, k, i)[j]
      <4>1. p + i * k + j - 1 = (p + (i * k + j)) - 1
        <5>1. i * k \in Nat
          BY <1>1, <2>1, ByteOfPiece DEF Widths
        <5> QED BY <1>1, <5>1
      <4>2. bytes'[(p + (i * k + j)) - 1] = Piece(x, k, i)[j]
        BY <2>1, PutIs DEF k
      <4> QED BY <4>1, <4>2
    <3>2. Piece(x, k, i) = [j \in 1..k |-> Piece(x, k, i)[j]]
      BY <1>1, <2>1, PieceIs
    <3> QED BY <3>1, <3>2, Zenon DEF Loaded
  <2>3. InOrder(Piece(x, k, i)) = [j \in 1..k |-> x[i * k + j]]
    BY <1>1, <2>1, PieceIs
  <2>4. InOrder(Piece(x, k, i))[c] = x[b]
    BY <2>1, <2>3
  <2> QED BY <2>2, <2>4 DEF i, c
<1> HIDE DEF k
<1>4. x = [b \in 1..n |-> x[b]]
  OBVIOUS
<1> QED BY <1>2, <1>3, <1>4, Zenon

(* On a big-endian processor the pieces are in order within and between.    *)
LEMMA GetBig ==
  ASSUME ~LittleEndian, NEW n \in Sizes, NEW p \in Nat
  PROVE  get_native(n, p) = [b \in 1..n |-> bytes[p + b - 1]]
<1> DEFINE k == AccessWidth(n, p)
<1>1. k \in Widths /\ n % k = 0 /\ k \in Nat /\ n \in Nat
  BY WidthDivides DEF Sizes, Widths
<1>2. get_native(n, p) = [b \in 1..n |-> InOrder(Loaded(p, k, (b - 1) \div k))[((b - 1) % k) + 1]]
  BY GetIs, Zenon
<1>3. ASSUME NEW b \in 1..n
      PROVE  InOrder(Loaded(p, k, (b - 1) \div k))[((b - 1) % k) + 1] = bytes[p + b - 1]
  <2> DEFINE i == (b - 1) \div k
             c == ((b - 1) % k) + 1
  <2> HIDE DEF k
  <2>1. i \in Nat /\ c \in 1..k /\ p + i * k + c - 1 = p + b - 1
    <3>1. /\ i \in Nat /\ (b - 1) % k \in 0..k - 1 /\ b - 1 = i * k + ((b - 1) % k)
      BY <1>1, PieceOfByte
    <3>2. i * k \in Nat
      BY <1>1, <3>1, ByteOfPiece DEF Widths
    <3> QED BY <1>1, <3>1, <3>2
  <2> HIDE DEF i, c
  <2>2. InOrder(Loaded(p, k, i)) = [j \in 1..k |-> bytes[p + i * k + j - 1]]
    BY Zenon DEF InOrder, Loaded
  <2>3. InOrder(Loaded(p, k, i))[c] = bytes[p + b - 1]
    BY <2>1, <2>2
  <2> QED BY <2>3 DEF i, c
<1> HIDE DEF k
<1> QED BY <1>2, <1>3, Zenon

LEMMA PutBig ==
  ASSUME ~LittleEndian, NEW n \in Sizes, NEW p \in Nat, (p + n) - 1 <= LastByte,
         NEW S, NEW x \in Seq(S), Len(x) = n
  PROVE  x = [b \in 1..n |-> put_native(n, p, x)[p + b - 1]]
<1> DEFINE k == AccessWidth(n, p)
<1>1. k \in Widths /\ n % k = 0 /\ k \in Nat /\ n \in Nat
  BY WidthDivides DEF Sizes, Widths
<1>2. ASSUME NEW b \in 1..n PROVE put_native(n, p, x)[p + b - 1] = x[b]
  <2> DEFINE i == (b - 1) \div k
             c == ((b - 1) % k) + 1
  <2> HIDE DEF k
  <2>1. /\ i \in Nat /\ c \in 1..k /\ (p + (i * k + c)) - 1 = p + b - 1 /\ i * k + c = b
        /\ i * k + k <= n
    <3>1. /\ i \in Nat /\ (b - 1) % k \in 0..k - 1 /\ b - 1 = i * k + ((b - 1) % k) /\ i * k + k <= n
      BY <1>1, PieceOfByte
    <3>2. i * k \in Nat
      BY <1>1, <3>1, ByteOfPiece DEF Widths
    <3> QED BY <1>1, <3>1, <3>2
  <2> HIDE DEF i, c
  <2>2. put_native(n, p, x)[(p + (i * k + c)) - 1] = Piece(x, k, i)[c]
    BY <2>1, PutIs DEF k
  <2>3. Piece(x, k, i)[c] = x[i * k + c]
    <3>1. i * k + k <= Len(x)
      BY <2>1
    <3>2. InOrder(Piece(x, k, i)) = [j \in 1..k |-> x[i * k + j]]
      BY SMTT(30), <1>1, <2>1, <3>1, PieceIs
    <3>3. InOrder(Piece(x, k, i)) = Piece(x, k, i)
      BY Zenon DEF InOrder
    <3> QED BY <2>1, <3>2, <3>3
  <2> QED BY <2>1, <2>2, <2>3
<1> HIDE DEF k
<1>3. x = [b \in 1..n |-> x[b]]
  OBVIOUS
<1> QED BY <1>2, <1>3, Zenon

(* The part of BytesSound that holds in both byte orders.                   *)
ReadsBack ==
  /\ access.p % access.width = 0 /\ access.n % access.width = 0
  /\ access.op = "putNative" => get_native(access.n, access.p) = access.x
  /\ access.op = "putJava" => swap(get_native(access.n, access.p)) = access.x

LEMMA OrderedIs ==
  ASSUME NEW S, NEW f \in Seq(S)
  PROVE  InOrder(f) \in Seq(S) /\ Len(InOrder(f)) = Len(f)
  BY DEF InOrder, Reverse

LEMMA FreshIs ==
  ASSUME NEW n \in Sizes
  PROVE  /\ Fresh(n) \in Seq({"new"} \X Nat) /\ Len(Fresh(n)) = n
         /\ swap(Fresh(n)) \in Seq({"new"} \X Nat) /\ Len(swap(Fresh(n))) = n
         /\ swap(swap(Fresh(n))) = Fresh(n)
<1>1. n \in Nat /\ Fresh(n) = [b \in 1..n |-> <<"new", b>>]
  BY DEF Fresh, Sizes
<1>2. Fresh(n) \in Seq({"new"} \X Nat) /\ Len(Fresh(n)) = n /\ Fresh(n) = [b \in 1..n |-> Fresh(n)[b]]
  BY <1>1
<1>3. swap(Fresh(n)) = InOrder(Fresh(n)) /\ swap(swap(Fresh(n))) = InOrder(InOrder(Fresh(n)))
  BY Zenon DEF swap, InOrder
<1>4. InOrder(InOrder(Fresh(n))) = Fresh(n)
  BY <1>1, <1>2, OrderTwice, Zenon
<1>5. InOrder(Fresh(n)) \in Seq({"new"} \X Nat) /\ Len(InOrder(Fresh(n))) = n
  BY <1>2, OrderedIs
<1> QED BY <1>2, <1>3, <1>4, <1>5

LEMMA ReadsBackStart == BytesInit => ReadsBack
  BY DEF BytesInit, ReadsBack

LEMMA AccessIs ==
  ASSUME NEW op, NEW n, NEW p, NEW x, Access(op, n, p, x)
  PROVE  access'.op = op /\ access'.n = n /\ access'.p = p /\ access'.x = x /\ access'.width = AccessWidth(n, p)
  BY DEF Access

LEMMA ReadsBackStep == ReadsBack /\ [BytesNext]_bytesVars => ReadsBack'
<1> SUFFICES ASSUME ReadsBack, [BytesNext]_bytesVars PROVE ReadsBack'
  OBVIOUS
<1>1. CASE UNCHANGED bytesVars
  BY <1>1 DEF bytesVars, ReadsBack, get_native
<1>2. ASSUME NEW n \in Sizes, NEW p \in 0..LastByte, p + n - 1 <= LastByte,
             GetNative(n, p) \/ GetJava(n, p) \/ PutNative(n, p) \/ PutJava(n, p)
      PROVE  ReadsBack'
  <2>1. p \in Nat /\ (p + n) - 1 <= LastByte
    BY <1>2, BytesAssumption DEF Sizes
  <2>2. p % AccessWidth(n, p) = 0 /\ n % AccessWidth(n, p) = 0
    BY <2>1, WidthDivides
  <2>3. CASE GetNative(n, p) \/ GetJava(n, p)
    BY <2>2, <2>3, AccessIs DEF GetNative, GetJava, ReadsBack
  <2>4. CASE PutNative(n, p)
    <3>1. /\ access'.op = "putNative" /\ access'.n = n /\ access'.p = p /\ access'.x = Fresh(n)
          /\ access'.width = AccessWidth(n, p)
      BY <2>4, AccessIs DEF PutNative
    <3>2. (get_native(n, p))' = Fresh(n)
      <4>1. bytes' = put_native(n, p, Fresh(n))
        BY <2>4 DEF PutNative
      <4> QED BY <2>1, <4>1, FreshIs, ReadBack
    <3>3. (get_native(access.n, access.p))' = (get_native(n, p))'
      BY <3>1
    <3> QED BY <2>2, <3>1, <3>2, <3>3 DEF ReadsBack
  <2>5. CASE PutJava(n, p)
    <3>1. /\ access'.op = "putJava" /\ access'.n = n /\ access'.p = p /\ access'.x = Fresh(n)
          /\ access'.width = AccessWidth(n, p)
      BY <2>5, AccessIs DEF PutJava
    <3>2. (get_native(n, p))' = swap(Fresh(n))
      <4>1. bytes' = put_native(n, p, swap(Fresh(n)))
        BY <2>5 DEF PutJava
      <4> QED BY <2>1, <4>1, FreshIs, ReadBack
    <3>3. swap(swap(Fresh(n))) = Fresh(n)
      BY FreshIs
    <3>4. (get_native(access.n, access.p))' = (get_native(n, p))'
      BY <3>1
    <3>5. (swap(get_native(access.n, access.p)))' = swap(swap(Fresh(n)))
      BY <3>2, <3>4 DEF swap
    <3> QED BY <2>2, <3>1, <3>3, <3>5 DEF ReadsBack
  <2> QED BY <1>2, <2>3, <2>4, <2>5
<1> QED BY <1>1, <1>2 DEF BytesNext, Sizes

LEMMA JavaOrderStep ==
  ASSUME ~LittleEndian, JavaOrder, [BytesNext]_bytesVars PROVE JavaOrder'
<1>1. CASE UNCHANGED bytesVars
  BY <1>1 DEF bytesVars, JavaOrder
<1>2. ASSUME NEW n \in Sizes, NEW p \in 0..LastByte, p + n - 1 <= LastByte,
             GetNative(n, p) \/ GetJava(n, p) \/ PutNative(n, p) \/ PutJava(n, p)
      PROVE  JavaOrder'
  <2>1. p \in Nat /\ (p + n) - 1 <= LastByte
    BY <1>2, BytesAssumption DEF Sizes
  <2>2. CASE GetNative(n, p) \/ PutNative(n, p)
    BY <2>2, AccessIs DEF GetNative, PutNative, JavaOrder
  <2>3. CASE GetJava(n, p)
    <3>1. access'.n = n /\ access'.p = p /\ access'.x = get_native(n, p) /\ bytes' = bytes
      BY <2>3, AccessIs DEF GetJava, swap
    <3> QED BY <2>1, <3>1, GetBig DEF JavaOrder
  <2>4. CASE PutJava(n, p)
    <3>1. /\ access'.n = n /\ access'.p = p /\ access'.x = Fresh(n)
          /\ bytes' = put_native(n, p, Fresh(n))
      BY <2>4, AccessIs DEF PutJava, swap
    <3>2. Fresh(n) = [b \in 1..n |-> put_native(n, p, Fresh(n))[p + b - 1]]
      BY <2>1, FreshIs, PutBig
    <3> QED BY <3>1, <3>2, Zenon DEF JavaOrder
  <2> QED BY <1>2, <2>2, <2>3, <2>4
<1> QED BY <1>1, <1>2 DEF BytesNext, Sizes

(* In either byte order no access is misaligned, and what was stored at an  *)
(* address is what a load of the same size finds there.                     *)
THEOREM WrittenIsRead == BytesSpec => []ReadsBack
  BY ReadsBackStart, ReadsBackStep, PTL DEF BytesSpec

(* On a big-endian processor an integer also has Java's order in memory.    *)
THEOREM BytesAreSound == ~LittleEndian => (BytesSpec => []BytesSound)
<1> SUFFICES ASSUME ~LittleEndian PROVE BytesSpec => []BytesSound
  OBVIOUS
<1>1. BytesInit => JavaOrder
  BY DEF BytesInit, JavaOrder
<1>2. JavaOrder /\ [BytesNext]_bytesVars => JavaOrder'
  BY JavaOrderStep
<1>3. ReadsBack /\ JavaOrder => BytesSound
  BY DEF ReadsBack, BytesSound
<1> QED BY <1>1, <1>2, <1>3, ReadsBackStart, ReadsBackStep, PTL DEF BytesSpec

-----------------------------------------------------------------------------
(* JavaArguments: from the caller to the local variables.                   *)

JavaTypes == {"int", "float", "object", "long", "double"}
Words(t) == Len(Value(1, t))

(* Unit j of an argument, in the array and among the local variables.       *)
ArrayUnit(s, t, j) ==
  IF Slots(t) = 1 THEN s * Units + j - 1
  ELSE IF Units = 1 THEN s + 2 - j
  ELSE (s + 1) * Units + j - 1

LocalUnit(s, t, j) == -(s + Slots(t) - 1) * Units + j - 1

(* The array is filled upwards, the expression stack downwards.             *)
InArray ==
  /\ \A u \in DOMAIN array : u \in Int /\ u < pos * Units
  /\ \A i \in DOMAIN types : \A j \in 1..Words(types[i]) :
       LET u == ArrayUnit(SlotOf(i), types[i], j)
       IN  u \in DOMAIN array /\ array[u] = Value(i, types[i])[j]

InLocals ==
  \A i \in DOMAIN types : \A j \in 1..Words(types[i]) :
    LET u == LocalUnit(SlotOf(i), types[i], j)
    IN  u \in DOMAIN locals /\ locals[u] = Value(i, types[i])[j]

JavaArgumentsInv ==
  /\ slotBytes \in {4, 8} /\ types \in Seq(JavaTypes)
  /\ pos \in Nat /\ pos = SlotOf(Len(types) + 1)
  /\ \A i \in DOMAIN types : SlotOf(i) \in Nat /\ SlotOf(i) + Slots(types[i]) <= pos
  /\ caller \in {"vm", "java", "entered"}
  /\ caller = "vm" => InArray
  /\ caller = "java" => \A u \in DOMAIN locals : u \in Int /\ u >= (1 - pos) * Units
  /\ caller # "vm" => InLocals

LEMMA ValueIs ==
  ASSUME slotBytes \in {4, 8}, NEW i, NEW t \in JavaTypes
  PROVE  /\ Units \in {1, 2} /\ Slots(t) \in {1, 2}
         /\ Words(t) \in {1, 2} /\ Len(Value(i, t)) = Words(t)
         /\ Value(i, t) = [j \in 1..Words(t) |-> Value(i, t)[j]]
         /\ Slots(t) = 1 => Words(t) <= Units
         /\ Slots(t) = 2 => Words(t) = 2
<1>1. Units \in {1, 2} /\ Slots(t) \in {1, 2}
  BY DEF Units, Slots
<1>2. CASE t \in {"int", "float"} \/ (t = "object" /\ Units = 1)
  <2>1. Value(i, t) = <<<<i, "word">>>> /\ Value(1, t) = <<<<1, "word">>>> /\ Slots(t) = 1
    BY <1>2 DEF Value, Slots
  <2>2. Words(t) = 1 /\ Len(Value(i, t)) = 1
    BY <2>1 DEF Words
  <2>3. Value(i, t) = [j \in 1..1 |-> Value(i, t)[j]]
    BY <2>1
  <2> QED BY <1>1, <2>1, <2>2, <2>3
<1>3. CASE t \in {"long", "double"} \/ (t = "object" /\ Units = 2)
  <2>1. /\ Value(i, t) = <<<<i, "high">>, <<i, "low">>>> /\ Value(1, t) = <<<<1, "high">>, <<1, "low">>>>
        /\ Slots(t) = 2 \/ Units = 2
    BY <1>3 DEF Value, Slots
  <2>2. Words(t) = 2 /\ Len(Value(i, t)) = 2
    BY <2>1 DEF Words
  <2>3. Value(i, t) = [j \in 1..2 |-> Value(i, t)[j]]
    BY <2>1
  <2> QED BY <1>1, <2>1, <2>2, <2>3
<1> QED BY <1>1, <1>2, <1>3 DEF JavaTypes

(* What is in u to u + Len(v) - 1 is replaced, the rest stays.              *)
LEMMA WithUnitsIs ==
  ASSUME NEW f, NEW u \in Int, NEW v, Len(v) \in Nat
  PROVE  /\ DOMAIN WithUnits(f, u, v) = DOMAIN f \cup u..u + Len(v) - 1
         /\ \A x \in DOMAIN f : x \notin u..u + Len(v) - 1 => WithUnits(f, u, v)[x] = f[x]
  BY DEF WithUnits

LEMMA WithUnitsHas ==
  ASSUME NEW f, NEW u \in Int, NEW v, Len(v) \in Nat, NEW j \in 1..Len(v)
  PROVE  WithUnits(f, u, v)[u + j - 1] = v[j]
<1>1. u + j - 1 \in u..u + Len(v) - 1 /\ (u + j - 1) - u + 1 = j
  OBVIOUS
<1> QED BY <1>1 DEF WithUnits

LEMMA ReversedIs ==
  ASSUME NEW v, Len(v) = 2, v = [j \in 1..2 |-> v[j]]
  PROVE  Len(Reversed(v)) = 2 /\ Reversed(v)[1] = v[2] /\ Reversed(v)[2] = v[1]
  BY DEF Reversed, Reverse

(* Arguments that are added do not move the ones before them.               *)
LEMMA SlotsAdded ==
  ASSUME types \in Seq(JavaTypes), NEW t \in JavaTypes, types' = Append(types, t),
         NEW n, n = Len(types)
  PROVE  /\ types' \in Seq(JavaTypes) /\ Len(types') = n + 1
         /\ DOMAIN types = 1..n /\ DOMAIN types' = 1..n + 1 /\ n \in Nat
         /\ \A i \in 1..n : types'[i] = types[i]
         /\ types'[n + 1] = t /\ \A i \in 1..n + 1 : SlotOf(i)' = SlotOf(i)
         /\ SlotOf(n + 2)' = SlotOf(n + 1) + Slots(t)
<1> DEFINE wide(s, i) == {j \in 1..i - 1 : Slots(s[j]) = 2}
<1>1. /\ types' \in Seq(JavaTypes) /\ Len(types') = n + 1 /\ DOMAIN types = 1..n /\ n \in Nat
      /\ DOMAIN types' = 1..n + 1 /\ types'[n + 1] = t /\ \A i \in 1..n : types'[i] = types[i]
  OBVIOUS
<1>2. ASSUME NEW i \in 1..n + 1 PROVE SlotOf(i)' = SlotOf(i)
  <2>1. wide(types', i) = wide(types, i)
    BY <1>1
  <2>2. SlotOf(i) = i - 1 + Cardinality(wide(types, i)) /\ SlotOf(i)' = i - 1 + Cardinality(wide(types', i))
    BY Zenon DEF SlotOf, Slots
  <2> QED BY <2>1, <2>2
<1>3. wide(types', n + 2) = IF Slots(t) = 2 THEN wide(types, n + 1) \cup {n + 1} ELSE wide(types, n + 1)
  BY <1>1
<1>4. IsFiniteSet(wide(types, n + 1)) /\ n + 1 \notin wide(types, n + 1)
  <2>1. IsFiniteSet(1..n + 1 - 1) /\ wide(types, n + 1) \subseteq 1..n + 1 - 1
    BY <1>1, FS_Interval
  <2> QED BY <1>1, <2>1, FS_Subset
<1>5. Cardinality(wide(types', n + 2)) = Cardinality(wide(types, n + 1)) + (IF Slots(t) = 2 THEN 1 ELSE 0)
  <2> DEFINE old == wide(types, n + 1)
             new == wide(types', n + 2)
  <2>1. IsFiniteSet(old) /\ n + 1 \notin old /\ new = (IF Slots(t) = 2 THEN old \cup {n + 1} ELSE old)
    BY <1>3, <1>4
  <2> HIDE DEF old, new, wide
  <2>2. Cardinality(old \cup {n + 1}) = Cardinality(old) + 1 /\ Cardinality(old) \in Nat
    BY <2>1, FS_AddElement, FS_CardinalityType
  <2>3. Cardinality(new) = Cardinality(old) + (IF Slots(t) = 2 THEN 1 ELSE 0)
    BY <2>1, <2>2
  <2> QED BY <2>3 DEF old, new
<1>6. /\ SlotOf(n + 1) = (n + 1) - 1 + Cardinality(wide(types, n + 1))
      /\ SlotOf(n + 2)' = (n + 2) - 1 + Cardinality(wide(types', n + 2))
  BY Zenon DEF SlotOf, Slots
<1>7. Cardinality(wide(types, n + 1)) \in Nat
  BY <1>4, FS_CardinalityType
<1> HIDE DEF wide
<1>8. Slots(t) = IF Slots(t) = 2 THEN 2 ELSE 1
  BY DEF Slots
<1>9. SlotOf(n + 2)' = SlotOf(n + 1) + Slots(t)
  BY <1>1, <1>5, <1>6, <1>7, <1>8
<1> QED BY <1>1, <1>2, <1>9

(* The units of an argument are within its slots.                           *)
LEMMA UnitsOfSlots ==
  ASSUME slotBytes \in {4, 8}, NEW t \in JavaTypes, NEW s \in Nat, NEW j \in 1..Words(t)
  PROVE  /\ ArrayUnit(s, t, j) \in s * Units..(s + Slots(t)) * Units - 1
         /\ LocalUnit(s, t, j) \in (1 - (s + Slots(t))) * Units..(1 - s) * Units - 1
<1>1. /\ Units \in {1, 2} /\ Slots(t) \in {1, 2} /\ Words(t) \in {1, 2}
      /\ Slots(t) = 1 => Words(t) <= Units
  BY ValueIs
<1>2. CASE Units = 1
  BY <1>1, <1>2 DEF ArrayUnit, LocalUnit
<1>3. CASE Units = 2
  BY <1>1, <1>3 DEF ArrayUnit, LocalUnit
<1> QED BY <1>1, <1>2, <1>3

(* An argument is put in the next slots of the array.                       *)
LEMMA ArgumentIsPut ==
  ASSUME JavaArgumentsInv, NEW t \in JavaTypes, Put(t), NEW n, n = Len(types)
  PROVE  /\ DOMAIN array' \subseteq DOMAIN array \cup pos * Units..(pos + Slots(t)) * Units - 1
         /\ \A u \in DOMAIN array : u \in DOMAIN array' /\ array'[u] = array[u]
         /\ \A j \in 1..Words(t) : LET u == ArrayUnit(pos, t, j)
                                   IN  u \in DOMAIN array' /\ array'[u] = Value(n + 1, t)[j]
<1> DEFINE v == Value(n + 1, t)
<1>1. /\ Units \in {1, 2} /\ Slots(t) \in {1, 2} /\ Words(t) \in {1, 2} /\ Len(v) = Words(t)
      /\ v = [j \in 1..Words(t) |-> v[j]] /\ (Slots(t) = 1 => Words(t) <= Units)
      /\ Slots(t) = 2 => Words(t) = 2
  BY ValueIs DEF JavaArgumentsInv
<1>2. /\ pos \in Nat /\ \A u \in DOMAIN array : u \in Int /\ u < pos * Units
  BY DEF JavaArgumentsInv, InArray, Put
<1>3. array' = IF Slots(t) = 1 THEN WithUnits(array, pos * Units, v)
               ELSE IF Units = 1 THEN WithUnits(array, pos, Reversed(v))
               ELSE WithUnits(array, (pos + 1) * Units, v)
  BY Zenon DEF Put
<1> HIDE DEF v
<1>4. CASE Slots(t) = 1
  <2> DEFINE m == pos * Units
  <2>1. m \in Int /\ (pos + 1) * Units = m + Units /\ Len(v) \in Nat
    <3>1. CASE Units = 1
      BY <1>1, <1>2, <3>1
    <3>2. CASE Units = 2
      BY <1>1, <1>2, <3>2
    <3> QED BY <1>1, <3>1, <3>2
  <2>2. \A j : ArrayUnit(pos, t, j) = m + j - 1
    BY <1>4, Zenon DEF ArrayUnit
  <2> HIDE DEF m
  <2>3. array' = WithUnits(array, m, v)
    BY <1>3, <1>4 DEF m
  <2>4. /\ DOMAIN array' = DOMAIN array \cup m..m + Len(v) - 1
        /\ \A j \in 1..Len(v) : array'[m + j - 1] = v[j]
        /\ \A x \in DOMAIN array : x \notin m..m + Len(v) - 1 => array'[x] = array[x]
    <3>1. m \in Int /\ Len(v) \in Nat
      BY <2>1
    <3>2. DOMAIN WithUnits(array, m, v) = DOMAIN array \cup m..m + Len(v) - 1
      BY <3>1, WithUnitsIs
    <3>3. \A j \in 1..Len(v) : WithUnits(array, m, v)[m + j - 1] = v[j]
      BY <3>1, WithUnitsHas
    <3>4. \A x \in DOMAIN array : x \notin m..m + Len(v) - 1 => WithUnits(array, m, v)[x] = array[x]
      BY <3>1, WithUnitsIs
    <3> QED BY <2>3, <3>2, <3>3, <3>4, Zenon
  <2>5. \A u \in DOMAIN array : u \notin m..m + Len(v) - 1
    BY <1>2, <2>1 DEF m
  <2> QED BY <1>1, <1>4, <2>1, <2>2, <2>4, <2>5 DEF m, v
<1>5. CASE Slots(t) = 2 /\ Units = 1
  <2> DEFINE w == Reversed(v)
  <2>1. Len(w) = 2 /\ w[1] = v[2] /\ w[2] = v[1]
    BY <1>1, <1>5, ReversedIs
  <2>2. ArrayUnit(pos, t, 1) = pos + 1 /\ ArrayUnit(pos, t, 2) = pos
    BY <1>2, <1>5 DEF ArrayUnit
  <2> HIDE DEF w
  <2>3. array' = WithUnits(array, pos, w)
    BY <1>3, <1>5 DEF w
  <2>4. /\ DOMAIN array' = DOMAIN array \cup pos..pos + Len(w) - 1
        /\ \A j \in 1..Len(w) : array'[pos + j - 1] = w[j]
        /\ \A x \in DOMAIN array : x \notin pos..pos + Len(w) - 1 => array'[x] = array[x]
    <3>1. pos \in Int /\ Len(w) \in Nat
      BY <1>2, <2>1
    <3>2. DOMAIN WithUnits(array, pos, w) = DOMAIN array \cup pos..pos + Len(w) - 1
      BY <3>1, WithUnitsIs
    <3>3. \A j \in 1..Len(w) : WithUnits(array, pos, w)[pos + j - 1] = w[j]
      BY <3>1, WithUnitsHas
    <3>4. \A x \in DOMAIN array : x \notin pos..pos + Len(w) - 1 => WithUnits(array, pos, w)[x] = array[x]
      BY <3>1, WithUnitsIs
    <3> QED BY <2>3, <3>2, <3>3, <3>4, Zenon
  <2>5. array'[pos] = v[2] /\ array'[pos + 1] = v[1] /\ DOMAIN array' = DOMAIN array \cup {pos, pos + 1}
    <3>1. pos + 1 - 1 = pos /\ pos + 2 - 1 = pos + 1 /\ pos..pos + 2 - 1 = {pos, pos + 1}
      BY <1>2
    <3> QED BY <2>1, <2>4, <3>1
  <2>6. \A u \in DOMAIN array : u \in DOMAIN array' /\ array'[u] = array[u]
    BY <1>2, <1>5, <2>1, <2>4
  <2>7. \A j \in 1..Words(t) : j = 1 \/ j = 2
    BY <1>1
  <2>8. {pos, pos + 1} \subseteq pos * Units..(pos + Slots(t)) * Units - 1
    BY <1>2, <1>5
  <2> QED BY <2>2, <2>5, <2>6, <2>7, <2>8 DEF v
<1>6. CASE Slots(t) = 2 /\ Units = 2
  <2> DEFINE m == (pos + 1) * Units
  <2>1. m \in Int /\ m = 2 * pos + 2 /\ Len(v) = 2
    BY <1>1, <1>2, <1>6
  <2>2. \A j : ArrayUnit(pos, t, j) = m + j - 1
    BY <1>6 DEF ArrayUnit
  <2> HIDE DEF m
  <2>3. array' = WithUnits(array, m, v)
    BY <1>3, <1>6 DEF m
  <2>4. /\ DOMAIN array' = DOMAIN array \cup m..m + Len(v) - 1
        /\ \A j \in 1..Len(v) : array'[m + j - 1] = v[j]
        /\ \A x \in DOMAIN array : x \notin m..m + Len(v) - 1 => array'[x] = array[x]
    <3>1. m \in Int /\ Len(v) \in Nat
      BY <2>1
    <3>2. DOMAIN WithUnits(array, m, v) = DOMAIN array \cup m..m + Len(v) - 1
      BY <3>1, WithUnitsIs
    <3>3. \A j \in 1..Len(v) : WithUnits(array, m, v)[m + j - 1] = v[j]
      BY <3>1, WithUnitsHas
    <3>4. \A x \in DOMAIN array : x \notin m..m + Len(v) - 1 => WithUnits(array, m, v)[x] = array[x]
      BY <3>1, WithUnitsIs
    <3> QED BY <2>3, <3>2, <3>3, <3>4, Zenon
  <2>5. \A u \in DOMAIN array : u \notin m..m + Len(v) - 1
    BY <1>2, <1>6, <2>1
  <2>6. m..m + Len(v) - 1 \subseteq pos * Units..(pos + Slots(t)) * Units - 1
    BY <1>2, <1>6, <2>1
  <2>7. \A j \in 1..2 : m + j - 1 \in m..m + Len(v) - 1
    BY <2>1
  <2>8. DOMAIN array' \subseteq DOMAIN array \cup pos * Units..(pos + Slots(t)) * Units - 1
    BY <2>4, <2>6, Zenon
  <2>9. \A u \in DOMAIN array : u \in DOMAIN array' /\ array'[u] = array[u]
    BY <2>4, <2>5, Zenon
  <2>10. \A j \in 1..2 : m + j - 1 \in DOMAIN array' /\ array'[m + j - 1] = v[j]
    BY <2>1, <2>4, <2>7
  <2>11. Words(t) = 2
    BY <1>1, <1>6
  <2> QED BY <2>2, <2>8, <2>9, <2>10, <2>11 DEF v
<1> QED BY <1>1, <1>4, <1>5, <1>6

LEMMA JavaArgumentsStart == JavaArgumentsInit => JavaArgumentsInv
<1> SUFFICES ASSUME JavaArgumentsInit PROVE JavaArgumentsInv
  OBVIOUS
<1>1. /\ slotBytes \in {4, 8} /\ caller \in {"vm", "java"} /\ types = <<>> /\ pos = 0
      /\ DOMAIN array = {} /\ DOMAIN locals = {}
  BY DEF JavaArgumentsInit
<1>2. Len(types) = 0 /\ DOMAIN types = {} /\ types \in Seq(JavaTypes)
  BY <1>1
<1>3. SlotOf(0 + 1) = 0
  <2>1. {j \in 1..(0 + 1) - 1 : Slots(types[j]) = 2} = {}
    OBVIOUS
  <2> QED BY <2>1, FS_EmptySet DEF SlotOf
<1> QED BY <1>1, <1>2, <1>3 DEF JavaArgumentsInv, InArray, InLocals

(* An argument that is added to the others.                                 *)
LEMMA ArgumentAdded ==
  ASSUME JavaArgumentsInv, NEW t \in JavaTypes, types' = Append(types, t),
         pos' = pos + Slots(t), slotBytes' = slotBytes, caller' = caller, NEW n, n = Len(types)
  PROVE  /\ slotBytes' \in {4, 8} /\ types' \in Seq(JavaTypes)
         /\ pos' \in Nat /\ pos' = SlotOf(Len(types) + 1)' /\ pos * Units <= pos' * Units
         /\ \A i \in DOMAIN types' : SlotOf(i)' \in Nat /\ SlotOf(i)' + Slots(types'[i]) <= pos'
         /\ DOMAIN types' = 1..n + 1 /\ DOMAIN types = 1..n /\ n \in Nat
         /\ \A i \in 1..n : types'[i] = types[i] /\ SlotOf(i)' = SlotOf(i)
         /\ types'[n + 1] = t /\ SlotOf(n + 1)' = pos
         /\ \A i, k, j : Value(i, k)' = Value(i, k)
<1>1. /\ slotBytes \in {4, 8} /\ types \in Seq(JavaTypes) /\ pos \in Nat /\ pos = SlotOf(n + 1)
      /\ \A i \in DOMAIN types : SlotOf(i) \in Nat /\ SlotOf(i) + Slots(types[i]) <= pos
  BY DEF JavaArgumentsInv
<1>2. Slots(t) \in {1, 2} /\ Units \in {1, 2}
  BY <1>1, ValueIs
<1>3. /\ types' \in Seq(JavaTypes) /\ Len(types') = n + 1
      /\ DOMAIN types = 1..n /\ DOMAIN types' = 1..n + 1 /\ n \in Nat
      /\ \A i \in 1..n : types'[i] = types[i]
      /\ types'[n + 1] = t /\ \A i \in 1..n + 1 : SlotOf(i)' = SlotOf(i)
      /\ SlotOf(n + 2)' = SlotOf(n + 1) + Slots(t)
  BY <1>1, SlotsAdded
<1>4. pos' \in Nat /\ pos' = SlotOf(Len(types) + 1)'
  <2>1. Len(types') + 1 = n + 2
    BY <1>3
  <2> QED BY <1>1, <1>2, <1>3, <2>1
<1>5. pos * Units <= pos' * Units
  <2>1. CASE Units = 1
    BY <1>1, <1>2, <2>1
  <2>2. CASE Units = 2
    BY <1>1, <1>2, <2>2
  <2> QED BY <1>2, <2>1, <2>2
<1>6. ASSUME NEW i \in DOMAIN types' PROVE SlotOf(i)' \in Nat /\ SlotOf(i)' + Slots(types'[i]) <= pos'
  <2>1. CASE i = n + 1
    BY <1>1, <1>2, <1>3, <2>1
  <2>2. CASE i \in 1..n
    <3>1. SlotOf(i) \in Nat /\ SlotOf(i) + Slots(types[i]) <= pos /\ Slots(types[i]) \in {1, 2}
      BY <1>1, <1>3, <2>2 DEF Slots
    <3>2. SlotOf(i)' = SlotOf(i) /\ types'[i] = types[i] /\ pos' = pos + Slots(t)
      BY <1>3, <2>2
    <3> QED BY <1>1, <1>2, <3>1, <3>2
  <2> QED BY <1>3, <2>1, <2>2
<1>7. \A i, k, j : Value(i, k)' = Value(i, k)
  BY DEF Value, Units
<1> QED BY <1>1, <1>3, <1>4, <1>5, <1>6, <1>7

LEMMA PutKeeps == ASSUME JavaArgumentsInv, NEW t \in JavaTypes, Put(t) PROVE JavaArgumentsInv'
<1> PICK n : n = Len(types)
  OBVIOUS
<1>1. /\ types' = Append(types, t) /\ pos' = pos + Slots(t) /\ slotBytes' = slotBytes
      /\ caller = "vm" /\ caller' = "vm" /\ slotBytes \in {4, 8}
  BY DEF Put, JavaArgumentsInv
<1>2. /\ slotBytes' \in {4, 8} /\ types' \in Seq(JavaTypes)
      /\ pos' \in Nat /\ pos' = SlotOf(Len(types) + 1)' /\ pos * Units <= pos' * Units
      /\ \A i \in DOMAIN types' : SlotOf(i)' \in Nat /\ SlotOf(i)' + Slots(types'[i]) <= pos'
      /\ DOMAIN types' = 1..n + 1 /\ DOMAIN types = 1..n /\ n \in Nat
      /\ \A i \in 1..n : types'[i] = types[i] /\ SlotOf(i)' = SlotOf(i)
      /\ types'[n + 1] = t /\ SlotOf(n + 1)' = pos
      /\ \A i, k, j : Value(i, k)' = Value(i, k)
  BY <1>1, ArgumentAdded
<1>3. /\ DOMAIN array' \subseteq DOMAIN array \cup pos * Units..(pos + Slots(t)) * Units - 1
      /\ \A u \in DOMAIN array : u \in DOMAIN array' /\ array'[u] = array[u]
      /\ \A j \in 1..Words(t) : LET u == ArrayUnit(pos, t, j)
                                IN  u \in DOMAIN array' /\ array'[u] = Value(n + 1, t)[j]
  BY ArgumentIsPut
<1>4. InArray
  BY <1>1 DEF JavaArgumentsInv
<1>5. /\ \A i, k : Value(i, k)' = Value(i, k)
      /\ \A k : Words(k)' = Words(k)
      /\ \A s, k, j : ArrayUnit(s, k, j)' = ArrayUnit(s, k, j)
  BY <1>1 DEF Value, Words, ArrayUnit, Units
<1>6. \A u \in DOMAIN array' : u \in Int /\ u < pos' * Units
  <2>1. \A u \in DOMAIN array : u \in Int /\ u < pos * Units
    BY <1>4 DEF InArray
  <2>2. pos' * Units \in Int /\ pos * Units \in Int /\ pos' * Units = (pos + Slots(t)) * Units
    <3>1. Units \in {1, 2}
      BY <1>1, ValueIs
    <3>2. CASE Units = 1
      BY <1>1, <1>2, <3>2 DEF JavaArgumentsInv
    <3>3. CASE Units = 2
      BY <1>1, <1>2, <3>3 DEF JavaArgumentsInv
    <3> QED BY <3>1, <3>2, <3>3
  <2> QED BY <1>2, <1>3, <2>1, <2>2
<1>7. ASSUME NEW i \in 1..n + 1, NEW j \in 1..Words(types'[i])
      PROVE  LET u == ArrayUnit(SlotOf(i)', types'[i], j)
             IN  u \in DOMAIN array' /\ array'[u] = Value(i, types'[i])[j]
  <2>1. CASE i = n + 1
    BY <1>2, <1>3, <2>1
  <2>2. CASE i \in 1..n
    <3>1. LET u == ArrayUnit(SlotOf(i), types[i], j)
          IN  u \in DOMAIN array /\ array[u] = Value(i, types[i])[j]
      BY <1>2, <1>4, <1>7, <2>2 DEF InArray
    <3> QED BY <1>2, <1>3, <2>2, <3>1
  <2> QED BY <1>2, <2>1, <2>2
<1>8. Units' = Units
  BY <1>1 DEF Units
<1>9. InArray'
  BY <1>2, <1>5, <1>6, <1>7, <1>8 DEF InArray
<1> QED BY <1>1, <1>2, <1>9 DEF JavaArgumentsInv

LEMMA PushKeeps == ASSUME JavaArgumentsInv, NEW t \in JavaTypes, PushArgument(t) PROVE JavaArgumentsInv'
<1> PICK n : n = Len(types)
  OBVIOUS
<1> DEFINE v == Value(n + 1, t)
           low == -(pos + Slots(t) - 1) * Units
<1>1. /\ types' = Append(types, t) /\ pos' = pos + Slots(t) /\ slotBytes' = slotBytes
      /\ caller = "java" /\ caller' = "java" /\ slotBytes \in {4, 8} /\ pos \in Nat
      /\ locals' = WithUnits(locals, low, v) /\ InLocals
      /\ \A u \in DOMAIN locals : u \in Int /\ u >= (1 - pos) * Units
  BY DEF PushArgument, JavaArgumentsInv
<1>2. /\ slotBytes' \in {4, 8} /\ types' \in Seq(JavaTypes)
      /\ pos' \in Nat /\ pos' = SlotOf(Len(types) + 1)'
      /\ \A i \in DOMAIN types' : SlotOf(i)' \in Nat /\ SlotOf(i)' + Slots(types'[i]) <= pos'
      /\ DOMAIN types' = 1..n + 1 /\ DOMAIN types = 1..n /\ n \in Nat
      /\ \A i \in 1..n : types'[i] = types[i] /\ SlotOf(i)' = SlotOf(i)
      /\ types'[n + 1] = t /\ SlotOf(n + 1)' = pos
  BY <1>1, ArgumentAdded
<1>3. /\ Units \in {1, 2} /\ Slots(t) \in {1, 2} /\ Words(t) \in {1, 2} /\ Len(v) = Words(t)
      /\ Slots(t) = 1 => Words(t) <= Units
  BY <1>1, ValueIs
<1>4. low \in Int /\ low = (1 - pos') * Units /\ low + Len(v) <= (1 - pos) * Units
  <2> HIDE DEF v
  <2>1. CASE Units = 1
    BY SMTT(30), <1>1, <1>3, <2>1
  <2>2. CASE Units = 2
    BY SMTT(30), <1>1, <1>3, <2>2
  <2> QED BY <1>3, <2>1, <2>2
<1>5. \A j : LocalUnit(pos, t, j) = low + j - 1
  BY Zenon DEF LocalUnit
<1> HIDE DEF v, low
<1>6. /\ DOMAIN locals' = DOMAIN locals \cup low..low + Len(v) - 1
      /\ \A x \in DOMAIN locals : x \notin low..low + Len(v) - 1 => locals'[x] = locals[x]
      /\ \A j \in 1..Len(v) : locals'[low + j - 1] = v[j]
  <2>1. low \in Int /\ Len(v) \in Nat
    BY <1>3, <1>4
  <2>2. DOMAIN WithUnits(locals, low, v) = DOMAIN locals \cup low..low + Len(v) - 1
    BY <2>1, WithUnitsIs
  <2>3. \A x \in DOMAIN locals : x \notin low..low + Len(v) - 1 => WithUnits(locals, low, v)[x] = locals[x]
    BY <2>1, WithUnitsIs
  <2>4. \A j \in 1..Len(v) : WithUnits(locals, low, v)[low + j - 1] = v[j]
    BY <2>1, WithUnitsHas
  <2> QED BY <1>1, <2>2, <2>3, <2>4, Zenon
<1>7. \A u \in DOMAIN locals : u \in DOMAIN locals' /\ locals'[u] = locals[u]
  <2> DEFINE m == (1 - pos) * Units
  <2>1. m \in Int /\ Len(v) \in Nat
    BY <1>1, <1>3
  <2>2. \A u \in DOMAIN locals : u \in Int /\ u >= m
    BY <1>1
  <2>3. low \in Int /\ low + Len(v) <= m
    BY <1>4
  <2> HIDE DEF m
  <2>4. \A u \in DOMAIN locals : u \notin low..low + Len(v) - 1
    BY <2>1, <2>2, <2>3, SMT
  <2> QED BY <1>6, <2>4
<1>8. \A u \in DOMAIN locals' : u \in Int /\ u >= (1 - pos') * Units
  <2> DEFINE m == (1 - pos) * Units
             l == (1 - pos') * Units
  <2>1. m \in Int /\ Len(v) \in Nat /\ \A u \in DOMAIN locals : u \in Int /\ u >= m
    BY <1>1, <1>3
  <2>2. low \in Int /\ low = l /\ low + Len(v) <= m
    BY <1>4
  <2> HIDE DEF m, l
  <2>3. \A u \in DOMAIN locals' : u \in Int /\ u >= l
    BY <1>6, <2>1, <2>2
  <2> QED BY <2>3 DEF l
<1>9. ASSUME NEW j \in 1..Words(t)
      PROVE  LocalUnit(pos, t, j) \in DOMAIN locals' /\ locals'[LocalUnit(pos, t, j)] = v[j]
  <2>1. low + j - 1 \in low..low + Len(v) - 1 /\ j \in 1..Len(v)
    BY <1>3, <1>4
  <2> QED BY <1>5, <1>6, <2>1
<1>10. /\ \A i, k : Value(i, k)' = Value(i, k)
       /\ \A k : Words(k)' = Words(k)
       /\ \A s, k, j : LocalUnit(s, k, j)' = LocalUnit(s, k, j)
       /\ Units' = Units
  BY <1>1 DEF Value, Words, LocalUnit, Units
<1>11. ASSUME NEW i \in 1..n + 1, NEW j \in 1..Words(types'[i])
       PROVE  LET u == LocalUnit(SlotOf(i)', types'[i], j)
              IN  u \in DOMAIN locals' /\ locals'[u] = Value(i, types'[i])[j]
  <2>1. CASE i = n + 1
    BY <1>2, <1>9, <1>11, <2>1 DEF v
  <2>2. CASE i \in 1..n
    <3>1. LET u == LocalUnit(SlotOf(i), types[i], j)
          IN  u \in DOMAIN locals /\ locals[u] = Value(i, types[i])[j]
      BY <1>1, <1>2, <1>11, <2>2 DEF InLocals
    <3> QED BY <1>2, <1>7, <2>2, <3>1
  <2> QED BY <1>2, <2>1, <2>2
<1>12. InLocals'
  BY <1>2, <1>10, <1>11 DEF InLocals
<1> QED BY <1>1, <1>2, <1>8, <1>10, <1>12 DEF JavaArgumentsInv

(* Slot by slot the array is copied, and every unit goes where a macro of   *)
(* its type looks for it.                                                   *)
LEMMA StubKeeps == ASSUME JavaArgumentsInv, StubCopies PROVE JavaArgumentsInv'
<1> DEFINE copied == {(-s) * Units + j : s \in 0..pos - 1, j \in 0..Units - 1}
           from(u) == (-(u \div Units)) * Units + (u % Units)
<1>1. /\ slotBytes \in {4, 8} /\ types \in Seq(JavaTypes) /\ pos \in Nat
      /\ \A i \in DOMAIN types : SlotOf(i) \in Nat /\ SlotOf(i) + Slots(types[i]) <= pos
      /\ InArray /\ UNCHANGED <<slotBytes, types, array, pos>> /\ caller' = "entered"
  BY DEF JavaArgumentsInv, StubCopies
<1>2. locals' = [u \in copied |-> IF from(u) \in DOMAIN array THEN array[from(u)] ELSE <<0, "undefined">>]
  BY DEF StubCopies
<1>3. ASSUME NEW i \in DOMAIN types, NEW j \in 1..Words(types[i])
      PROVE  LET a == ArrayUnit(SlotOf(i), types[i], j)
                 u == LocalUnit(SlotOf(i), types[i], j)
             IN  u \in copied /\ from(u) = a
  <2> DEFINE s == SlotOf(i)
             t == types[i]
  <2>1. /\ s \in Nat /\ s + Slots(t) <= pos /\ t \in JavaTypes /\ Units \in {1, 2} /\ Slots(t) \in {1, 2}
        /\ Slots(t) = 1 => Words(t) <= Units
        /\ Words(t) \in {1, 2}
    <3>1. s \in Nat /\ s + Slots(t) <= pos /\ t \in JavaTypes
      BY <1>1
    <3> HIDE DEF s, t
    <3> QED BY <1>1, <3>1, ValueIs
  <2> HIDE DEF s, t
  <2>2. j \in 1..Words(t)
    BY DEF t
  <2>3. PICK q \in 0..pos - 1, k \in 0..Units - 1 :
          /\ LocalUnit(s, t, j) = (-q) * Units + k /\ ArrayUnit(s, t, j) = q * Units + k
    <3>1. CASE Slots(t) = 1
      <4>1. s \in 0..pos - 1 /\ j - 1 \in 0..Units - 1
        BY <1>1, <2>1, <2>2, <3>1
      <4>2. ArrayUnit(s, t, j) = s * Units + (j - 1)
        BY <3>1 DEF ArrayUnit
      <4>3. LocalUnit(s, t, j) = (-s) * Units + (j - 1)
        BY <2>1, <3>1 DEF LocalUnit
      <4> QED BY <4>1, <4>2, <4>3
    <3>2. CASE Slots(t) = 2 /\ Units = 1
      <4>1. s + 2 - j \in 0..pos - 1 /\ 0 \in 0..Units - 1
        BY <1>1, <2>1, <2>2, <3>2
      <4>2. /\ LocalUnit(s, t, j) = (-(s + 2 - j)) * Units + 0
            /\ ArrayUnit(s, t, j) = (s + 2 - j) * Units + 0
        BY <1>1, <2>1, <2>2, <3>2 DEF LocalUnit, ArrayUnit
      <4> QED BY <4>1, <4>2
    <3>3. CASE Slots(t) = 2 /\ Units = 2
      <4>1. s + 1 \in 0..pos - 1 /\ j - 1 \in 0..Units - 1
        BY <1>1, <2>1, <2>2, <3>3
      <4>2. /\ LocalUnit(s, t, j) = (-(s + 1)) * Units + (j - 1)
            /\ ArrayUnit(s, t, j) = (s + 1) * Units + (j - 1)
        BY <1>1, <2>1, <2>2, <3>3 DEF LocalUnit, ArrayUnit
      <4> QED BY <4>1, <4>2
    <3> QED BY <2>1, <3>1, <3>2, <3>3
  <2>4. LocalUnit(s, t, j) \in copied
    BY <2>3
  <2>5. from((-q) * Units + k) = q * Units + k
    <3>1. CASE Units = 1
      BY <1>1, <2>1, <3>1
    <3>2. CASE Units = 2
      BY <1>1, <2>1, <3>2
    <3> QED BY <2>1, <3>1, <3>2
  <2> QED BY <2>3, <2>4, <2>5 DEF s, t
<1> HIDE DEF copied, from
<1>4. /\ \A i, k : Value(i, k)' = Value(i, k)
      /\ \A k : Words(k)' = Words(k)
      /\ \A s, k, j : LocalUnit(s, k, j)' = LocalUnit(s, k, j)
      /\ \A i : SlotOf(i)' = SlotOf(i)
      /\ types' = types
  BY <1>1 DEF Value, Words, LocalUnit, Units, SlotOf
<1>5. InLocals'
  <2>1. ASSUME NEW i \in DOMAIN types, NEW j \in 1..Words(types[i])
        PROVE  LET u == LocalUnit(SlotOf(i), types[i], j)
               IN  u \in DOMAIN locals' /\ locals'[u] = Value(i, types[i])[j]
    BY <1>1, <1>2, <1>3 DEF InArray
  <2> QED BY <1>4, <2>1 DEF InLocals
<1> QED BY <1>1, <1>4, <1>5 DEF JavaArgumentsInv

LEMMA JavaArgumentsStep == JavaArgumentsInv /\ [JavaArgumentsNext]_javaArgVars => JavaArgumentsInv'
<1> SUFFICES ASSUME JavaArgumentsInv, [JavaArgumentsNext]_javaArgVars PROVE JavaArgumentsInv'
  OBVIOUS
<1>1. CASE UNCHANGED javaArgVars
  <2>1. /\ \A i, k : Value(i, k)' = Value(i, k)
        /\ \A k : Words(k)' = Words(k)
        /\ \A s, k, j : LocalUnit(s, k, j)' = LocalUnit(s, k, j) /\ ArrayUnit(s, k, j)' = ArrayUnit(s, k, j)
        /\ \A i : SlotOf(i)' = SlotOf(i)
        /\ Units' = Units /\ UNCHANGED <<slotBytes, caller, types, array, pos, locals>>
    BY <1>1 DEF javaArgVars, Value, Words, LocalUnit, ArrayUnit, Units, SlotOf
  <2>2. InArray => InArray'
    BY <2>1 DEF InArray
  <2>3. InLocals => InLocals'
    BY <2>1 DEF InLocals
  <2> QED BY <2>1, <2>2, <2>3 DEF JavaArgumentsInv
<1> QED BY <1>1, PutKeeps, PushKeeps, StubKeeps DEF JavaArgumentsNext, JavaTypes

(* The callee reads in its local variables what its caller passed, for      *)
(* every number of arguments, from the virtual machine as from Java code.   *)
THEOREM ArgumentsBecomeLocals == JavaArgumentsSpec => []ArgumentsAreRead
<1>1. JavaArgumentsInv => ArgumentsAreRead
  <2> SUFFICES ASSUME JavaArgumentsInv, caller # "vm", NEW i \in DOMAIN types
               PROVE  ReadLocal(SlotOf(i), types[i]) = Value(i, types[i])
    BY DEF ArgumentsAreRead
  <2> DEFINE s == SlotOf(i)
             t == types[i]
  <2>1. t \in JavaTypes /\ slotBytes \in {4, 8}
    BY DEF JavaArgumentsInv
  <2>2. Value(i, t) = [j \in 1..Words(t) |-> Value(i, t)[j]]
    BY <2>1, ValueIs
  <2>3. \A j \in 1..Words(t) : locals[LocalUnit(s, t, j)] = Value(i, t)[j]
    BY DEF JavaArgumentsInv, InLocals
  <2>4. ReadLocal(s, t) = [j \in 1..Words(t) |-> locals[LocalUnit(s, t, j)]]
    BY Zenon DEF ReadLocal, Words, LocalUnit
  <2> HIDE DEF s, t
  <2>5. ReadLocal(s, t) = Value(i, t)
    BY <2>2, <2>3, <2>4, Zenon
  <2> QED BY <2>5 DEF s, t
<1> QED BY <1>1, JavaArgumentsStart, JavaArgumentsStep, PTL DEF JavaArgumentsSpec

-----------------------------------------------------------------------------
(* Disassembler: what is printed is the instruction.  The fields of a word   *)
(* are the digits the assembler put there; the tables are one-to-one and do  *)
(* not overlap; so every form of instruction is printed by its own printer   *)
(* with its own operands, and its line assembles to the word.                *)

(* The powers of two of the fields, kept closed: the provers are quick with *)
(* their values and slow with 2^b.                                          *)
P2(b) == 2^b

LEMMA PowersOfFields == 
  /\ P2(0) = 1 /\ P2(1) = 2 /\ P2(2) = 4 /\ P2(3) = 8 /\ P2(4) = 16 /\ P2(5) = 32 /\ P2(6) = 64 /\ P2(7) = 128 /\ P2(10) = 1024
  /\ P2(11) = 2048 /\ P2(12) = 4096 /\ P2(13) = 8192 /\ P2(14) = 16384 /\ P2(15) = 32768 /\ P2(16) = 65536
  /\ P2(23) = 8388608 /\ P2(24) = 16777216
BY SMT DEF P2

(* Every field the disassembler reads from the second halfword is the       *)
(* digits of that halfword at its place, and likewise for the first         *)
(* (InstructionParser, disassembler_CPU.hpp).                               *)
LEMMA LowFields ==
  ASSUME NEW w, w.lo \in Nat, w.lo < 65536
  PROVE  /\ ReadReg(w, 3) = (w.lo \div 2048) % 32 /\ Read(w, 21, 10) = (w.lo \div 2) % 1024
         /\ Read(w, 31, 1) = w.lo % 2 /\ Read(w, 16, 16) = w.lo
         /\ Read(w, 16, 14) = w.lo \div 4 /\ Read(w, 21, 5) = (w.lo \div 64) % 32
         /\ Read(w, 26, 5) = (w.lo \div 2) % 32 /\ Read(w, 26, 1) = (w.lo \div 32) % 2
         /\ Read(w, 30, 1) = (w.lo \div 2) % 2 /\ Read(w, 30, 2) = w.lo % 4
         /\ Read(w, 27, 3) = (w.lo \div 4) % 8 /\ Read(w, 16, 4) = (w.lo \div 4096) % 16
<1> DEFINE l == w.lo
<1>1. /\ l \div 1 = l /\ l % 65536 = l /\ (l \div 4) % 16384 = l \div 4
  BY SMT
<1>2. \A from \in 16..31, n \in 1..16 : Read(w, from, n) = (l \div P2(32 - from - n)) % P2(n)
  BY SMT DEF Read, P2
<1> HIDE DEF l
<1>3. ReadReg(w, 3) = Read(w, 16, 5)
  BY SMT DEF ReadReg
<1>5. /\ Read(w, 16, 5) = (l \div P2(11)) % P2(5) /\ Read(w, 21, 10) = (l \div P2(1)) % P2(10)
      /\ Read(w, 31, 1) = (l \div P2(0)) % P2(1) /\ Read(w, 16, 16) = (l \div P2(0)) % P2(16)
  BY <1>2, SMT
<1>6. /\ Read(w, 16, 14) = (l \div P2(2)) % P2(14) /\ Read(w, 21, 5) = (l \div P2(6)) % P2(5)
      /\ Read(w, 26, 5) = (l \div P2(1)) % P2(5) /\ Read(w, 26, 1) = (l \div P2(5)) % P2(1)
  BY <1>2, SMT
<1>7. /\ Read(w, 30, 1) = (l \div P2(1)) % P2(1) /\ Read(w, 30, 2) = (l \div P2(0)) % P2(2)
      /\ Read(w, 27, 3) = (l \div P2(2)) % P2(3) /\ Read(w, 16, 4) = (l \div P2(12)) % P2(4)
  BY <1>2, SMT
<1>8. l \in Nat /\ l < 65536
  BY DEF l
<1> QED
  BY <1>1, <1>3, <1>5, <1>6, <1>7, <1>8, PowersOfFields, SMT DEF l

LEMMA HighFields ==
  ASSUME NEW w, w.hi \in Nat, w.hi < 65536
  PROVE  /\ Opcode(w) = w.hi \div 1024 /\ ReadReg(w, 1) = (w.hi \div 32) % 32 /\ ReadReg(w, 2) = w.hi % 32
         /\ Read(w, 6, 3) = (w.hi \div 128) % 8 /\ Read(w, 10, 1) = (w.hi \div 32) % 2
         /\ Read(w, 12, 4) = w.hi % 16
<1> DEFINE h == w.hi
<1>1. h \div 1 = h
  BY SMT
<1>2. \A from \in 0..15, n \in 1..16 : Read(w, from, n) = (h \div P2(16 - from - n)) % P2(n)
  BY SMT DEF Read, P2
<1> HIDE DEF h
<1>3. ReadReg(w, 1) = Read(w, 6, 5) /\ ReadReg(w, 2) = Read(w, 11, 5) /\ Opcode(w) = h \div 1024
  BY SMT DEF ReadReg, Opcode, h
<1>4. /\ Read(w, 6, 5) = (h \div P2(5)) % P2(5) /\ Read(w, 11, 5) = (h \div P2(0)) % P2(5)
      /\ Read(w, 6, 3) = (h \div P2(7)) % P2(3)
  BY <1>2, SMT
<1>5. /\ Read(w, 10, 1) = (h \div P2(5)) % P2(1) /\ Read(w, 12, 4) = (h \div P2(0)) % P2(4)
  BY <1>2, SMT
<1>6. h \in Nat /\ h < 65536
  BY DEF h
<1> QED
  BY <1>1, <1>3, <1>4, <1>5, PowersOfFields, SMT DEF h

(* The opcode and the two registers that Word puts in the first halfword.   *)
LEMMA WordFields ==
  ASSUME NEW op \in Nat, op < 64, NEW a \in Nat, a < 32, NEW b \in Nat, b < 32, NEW low
  PROVE  /\ Opcode(Word(op, a, b, low)) = op
         /\ ReadReg(Word(op, a, b, low), 1) = a /\ ReadReg(Word(op, a, b, low), 2) = b
         /\ Read(Word(op, a, b, low), 6, 3) = a \div 4 /\ Read(Word(op, a, b, low), 10, 1) = a % 2
         /\ Read(Word(op, a, b, low), 12, 4) = b % 16
<1> DEFINE h == op * 1024 + a * 32 + b
           w == Word(op, a, b, low)
<1>1. w.hi = h /\ w.lo = low
  BY SMT DEF Word
<1>2. /\ h \in Nat /\ h < 65536 /\ h \div 1024 = op /\ (h \div 32) % 32 = a /\ h % 32 = b
      /\ (h \div 128) % 8 = a \div 4 /\ (h \div 32) % 2 = a % 2
      /\ h % 16 = b % 16
  BY SMT
<1> HIDE DEF h, w
<1>3. /\ Opcode(w) = op /\ ReadReg(w, 1) = a /\ ReadReg(w, 2) = b
      /\ Read(w, 6, 3) = a \div 4 /\ Read(w, 10, 1) = a % 2 /\ Read(w, 12, 4) = b % 16
  BY <1>1, <1>2, HighFields, SMT
<1> QED
  BY <1>3 DEF w

(* For each form of instruction: what the parser reads in a word of that    *)
(* form is what the assembler put there.  The fields the printers of the    *)
(* form use are listed, the pieces of a split field too.                    *)
HasX(w, op, a, b, c, xo, rc) ==
  /\ Opcode(w) = op /\ ReadReg(w, 1) = a /\ ReadReg(w, 2) = b /\ ReadReg(w, 3) = c
  /\ ReadXo(w) = xo /\ Rc(w) = rc
  /\ Read(w, 6, 3) = a \div 4 /\ Read(w, 10, 1) = a % 2
  /\ Read(w, 12, 4) = b % 16 /\ Read(w, 16, 4) = c \div 2

LEMMA XFields ==
  \A op, a, b, c, xo, rc :
    (op \in 0..63 /\ a \in 0..31 /\ b \in 0..31 /\ c \in 0..31 /\ xo \in Nat
      /\ rc \in 0..1 /\ xo < 1024)
    => HasX(XForm(op, a, b, c, xo, rc), op, a, b, c, xo, rc)
<1> TAKE op, a, b, c, xo, rc
<1> HAVE op \in 0..63 /\ a \in 0..31 /\ b \in 0..31 /\ c \in 0..31 /\ xo \in Nat
      /\ rc \in 0..1 /\ xo < 1024
<1> DEFINE l == c * 2048 + xo * 2 + rc
           w == Word(op, a, b, l)
<1>1. /\ l \in Nat /\ l < 65536 /\ (l \div 2048) % 32 = c /\ (l \div 2) % 1024 = xo /\ l % 2 = rc
      /\ (l \div 4096) % 16 = c \div 2
  BY SMT
<1>2. XForm(op, a, b, c, xo, rc) = w
  BY DEF XForm
<1>0. l \in Nat /\ l < 65536
  BY <1>1
<1> HIDE DEF l
<1>9. w.lo = l
  BY SMT DEF Word
<1>3. /\ Opcode(w) = op /\ ReadReg(w, 1) = a /\ ReadReg(w, 2) = b
      /\ Read(w, 6, 3) = a \div 4 /\ Read(w, 10, 1) = a % 2 /\ Read(w, 12, 4) = b % 16
  BY <1>0, WordFields, SMT
<1> HIDE DEF w
<1>4. /\ ReadReg(w, 3) = (l \div 2048) % 32 /\ Read(w, 21, 10) = (l \div 2) % 1024
      /\ Read(w, 31, 1) = l % 2 /\ Read(w, 16, 4) = (l \div 4096) % 16
  BY <1>1, <1>9, LowFields, SMT
<1> QED
  BY <1>1, <1>2, <1>3, <1>4, SMT DEF ReadXo, Rc, HasX

HasD(w, op, a, b, c) ==
  /\ Opcode(w) = op /\ ReadReg(w, 1) = a /\ ReadReg(w, 2) = b
  /\ Read(w, 6, 3) = a \div 4 /\ Read(w, 10, 1) = a % 2
  /\ c < 32768 => ReadSigned(w, 16, 16) = c
  /\ c >= 0 => Read(w, 16, 16) = c

LEMMA DFields ==
  \A op, a, b, c :
    (op \in 0..63 /\ a \in 0..31 /\ b \in 0..31 /\ c \in Int /\ c >= -32768
      /\ c < 65536)
    => HasD(DForm(op, a, b, c), op, a, b, c)
<1> TAKE op, a, b, c
<1> HAVE op \in 0..63 /\ a \in 0..31 /\ b \in 0..31 /\ c \in Int /\ c >= -32768
      /\ c < 65536
<1> DEFINE l == c % 65536
           w == Word(op, a, b, l)
<1>1. /\ l \in Nat /\ l < 65536 /\ (c >= 0 => l = c)
      /\ c < 32768 => (IF l >= 32768 THEN l - 65536 ELSE l) = c
  BY SMT
<1>2. DForm(op, a, b, c) = w
  BY DEF DForm
<1>0. l \in Nat /\ l < 65536
  BY <1>1
<1> HIDE DEF l
<1>9. w.lo = l
  BY SMT DEF Word
<1>3. /\ Opcode(w) = op /\ ReadReg(w, 1) = a /\ ReadReg(w, 2) = b
      /\ Read(w, 6, 3) = a \div 4 /\ Read(w, 10, 1) = a % 2
  BY <1>0, WordFields, SMT
<1> HIDE DEF w
<1>4. Read(w, 16, 16) = l
  BY <1>1, <1>9, LowFields, SMT
<1>5. ReadSigned(w, 16, 16) = IF l >= P2(15) THEN l - P2(16) ELSE l
  BY <1>4, SMT DEF ReadSigned, AsSigned, P2
<1> QED
  BY <1>1, <1>2, <1>3, <1>4, <1>5, PowersOfFields, SMT DEF HasD

(* A displacement that is a multiple of 4 survives the loss of its two low  *)
(* bits.                                                                    *)
HasDS(w, op, a, b, d, x) ==
  /\ Opcode(w) = op /\ ReadReg(w, 1) = a /\ ReadReg(w, 2) = b
  /\ Read(w, 30, 2) = x /\ 4 * ReadSigned(w, 16, 14) = d

LEMMA DSFields ==
  \A op, a, b, d, x :
    (op \in 0..63 /\ a \in 0..31 /\ b \in 0..31 /\ d \in Int /\ x \in 0..3 /\ -32768 <= d
      /\ d < 32768 /\ d % 4 = 0)
    => HasDS(DSForm(op, a, b, Displacement(d) \div 4, x), op, a, b, d, x)
<1> TAKE op, a, b, d, x
<1> HAVE op \in 0..63 /\ a \in 0..31 /\ b \in 0..31 /\ d \in Int /\ x \in 0..3 /\ -32768 <= d
      /\ d < 32768 /\ d % 4 = 0
<1> DEFINE c == (d % 65536) \div 4
           l == (c % 16384) * 4 + x
           w == Word(op, a, b, l)
<1>1. /\ c \in Nat /\ c < 16384
      /\ 4 * (IF c >= 8192 THEN c - 16384 ELSE c) = d
  BY SMT
<1> HIDE DEF c
<1>2. l \in Nat /\ l < 65536 /\ l % 4 = x /\ l \div 4 = c
  BY <1>1, SMT
<1>3. DSForm(op, a, b, Displacement(d) \div 4, x) = w
  BY SMT DEF DSForm, Displacement, c
<1> HIDE DEF l
<1>4. w.lo = l
  BY SMT DEF Word
<1>5. Opcode(w) = op /\ ReadReg(w, 1) = a /\ ReadReg(w, 2) = b
  BY WordFields, SMT
<1> HIDE DEF w
<1>6. Read(w, 30, 2) = l % 4 /\ Read(w, 16, 14) = l \div 4
  BY <1>2, <1>4, LowFields, SMT
<1>7. ReadSigned(w, 16, 14) = IF l \div 4 >= P2(13) THEN (l \div 4) - P2(14) ELSE l \div 4
  BY <1>6, SMT DEF ReadSigned, AsSigned, P2
<1> QED
  BY <1>1, <1>2, <1>3, <1>5, <1>6, <1>7, PowersOfFields, SMT DEF HasDS

HasM(w, a, b, c, d, e) ==
  /\ Opcode(w) = 21 /\ ReadReg(w, 1) = a /\ ReadReg(w, 2) = b /\ ReadReg(w, 3) = c
  /\ Read(w, 21, 5) = d /\ Read(w, 26, 5) = e /\ Rc(w) = 0

LEMMA MFields ==
  \A a, b, c, d, e :
    (a \in 0..31 /\ b \in 0..31 /\ c \in 0..31 /\ d \in 0..31 /\ e \in 0..31)
    => HasM(MForm(a, b, c, d, e), a, b, c, d, e)
<1> TAKE a, b, c, d, e
<1> HAVE a \in 0..31 /\ b \in 0..31 /\ c \in 0..31 /\ d \in 0..31 /\ e \in 0..31
<1> DEFINE l == c * 2048 + d * 64 + e * 2
           w == Word(21, a, b, l)
<1>1. /\ l \in Nat /\ l < 65536 /\ (l \div 2048) % 32 = c /\ (l \div 64) % 32 = d
      /\ (l \div 2) % 32 = e /\ l % 2 = 0
  <2>1. l \in Nat /\ l < 65536 /\ l \div 2048 = c /\ l \div 64 = c * 32 + d
    BY SMT
  <2>2. l \div 2 = (c * 32 + d) * 32 + e /\ l % 2 = 0
    BY SMT
  <2>3. (l \div 2048) % 32 = c /\ (l \div 64) % 32 = d
    BY <2>1, SMT
  <2>4. (l \div 2) % 32 = e
    BY <2>2, SMT
  <2> QED
    BY <2>1, <2>2, <2>3, <2>4
<1>2. MForm(a, b, c, d, e) = w
  BY DEF MForm
<1> HIDE DEF l
<1>3. w.lo = l
  BY SMT DEF Word
<1>4. Opcode(w) = 21 /\ ReadReg(w, 1) = a /\ ReadReg(w, 2) = b
  BY WordFields, SMT
<1> HIDE DEF w
<1>5. /\ ReadReg(w, 3) = (l \div 2048) % 32 /\ Read(w, 21, 5) = (l \div 64) % 32
      /\ Read(w, 26, 5) = (l \div 2) % 32 /\ Read(w, 31, 1) = l % 2
  BY <1>1, <1>3, LowFields, SMT
<1> QED
  BY <1>1, <1>2, <1>4, <1>5, SMT DEF Rc, HasM

(* The shift count and the mask end of the 64-bit rotates are split: the    *)
(* high bit of each is apart.                                               *)
HasMD(w, a, b, c, d, e) ==
  /\ Opcode(w) = 30 /\ ReadReg(w, 1) = a /\ ReadReg(w, 2) = b
  /\ Read(w, 30, 1) * 32 + ReadReg(w, 3) = c
  /\ Read(w, 26, 1) * 32 + Read(w, 21, 5) = d
  /\ Read(w, 27, 3) = e /\ Rc(w) = 0

LEMMA MDFields ==
  \A a, b, c, d, e :
    (a \in 0..31 /\ b \in 0..31 /\ c \in 0..63 /\ d \in 0..63 /\ e \in 0..1)
    => HasMD(MDForm(a, b, c, d, e), a, b, c, d, e)
<1> TAKE a, b, c, d, e
<1> HAVE a \in 0..31 /\ b \in 0..31 /\ c \in 0..63 /\ d \in 0..63 /\ e \in 0..1
<1> DEFINE l == (c % 32) * 2048 + (d % 32) * 64 + (((d \div 32) % 2) * 16 + e * 2 + ((c \div 32) % 2)) * 2
           w == Word(30, a, b, l)
<1>1. PICK c1 \in 0..1, c5 \in 0..31, d1 \in 0..1, d5 \in 0..31 : c = c1 * 32 + c5 /\ d = d1 * 32 + d5
  <2>1. /\ c \div 32 \in 0..1 /\ c % 32 \in 0..31 /\ c = (c \div 32) * 32 + (c % 32)
        /\ d \div 32 \in 0..1 /\ d % 32 \in 0..31 /\ d = (d \div 32) * 32 + (d % 32)
    BY SMT
  <2> QED
    BY <2>1
<1>2. l = c5 * 2048 + d5 * 64 + d1 * 32 + e * 4 + c1 * 2
  BY <1>1, SMT
<1>3. MDForm(a, b, c, d, e) = w
  BY DEF MDForm
<1> HIDE DEF l
<1>4. /\ l \in Nat /\ l < 65536 /\ (l \div 2048) % 32 = c5 /\ (l \div 64) % 32 = d5
      /\ (l \div 32) % 2 = d1 /\ (l \div 4) % 8 = e /\ (l \div 2) % 2 = c1 /\ l % 2 = 0
  <2>1. l \in Nat /\ l < 65536 /\ l \div 2048 = c5 /\ l \div 64 = c5 * 32 + d5
    BY <1>2, SMT
  <2>2. l \div 32 = (c5 * 32 + d5) * 2 + d1 /\ l \div 4 = (c5 * 512 + d5 * 16 + d1 * 8) + e
    BY <1>2, SMT
  <2>3. l \div 2 = (c5 * 1024 + d5 * 32 + d1 * 16 + e * 2) + c1 /\ l % 2 = 0
    BY <1>2, SMT
  <2>4. (l \div 2048) % 32 = c5 /\ (l \div 64) % 32 = d5 /\ (l \div 32) % 2 = d1
    BY <2>1, <2>2, SMT
  <2>5. (l \div 4) % 8 = e /\ (l \div 2) % 2 = c1
    BY <2>2, <2>3, SMT
  <2> QED
    BY <2>1, <2>3, <2>4, <2>5
<1>5. w.lo = l
  BY SMT DEF Word
<1>6. Opcode(w) = 30 /\ ReadReg(w, 1) = a /\ ReadReg(w, 2) = b
  BY WordFields, SMT
<1> HIDE DEF w
<1> QED
  BY <1>1, <1>3, <1>4, <1>5, <1>6, LowFields, SMT DEF Rc, HasMD

(* A signed displacement of 14 or 24 bits comes back, and BranchField puts  *)
(* it in the same bits again.                                               *)
HasB(w, a, b, d, lk) ==
  /\ Opcode(w) = 16 /\ ReadReg(w, 1) = a /\ ReadReg(w, 2) = b
  /\ ReadSigned(w, 16, 14) = d /\ Rc(w) = lk /\ d % 2^14 = BranchField(0, d, 14)

LEMMA BFields ==
  \A a, b, d, lk :
    (a \in 0..31 /\ b \in 0..31 /\ d \in Int /\ lk \in 0..1 /\ -8192 <= d /\ d < 8192)
    => HasB(BForm(a, b, BranchField(0, d, 14), lk), a, b, d, lk)
<1> TAKE a, b, d, lk
<1> HAVE a \in 0..31 /\ b \in 0..31 /\ d \in Int /\ lk \in 0..1 /\ -8192 <= d /\ d < 8192
<1> DEFINE c == BranchField(0, d, 14)
           l == c * 4 + lk
           w == Word(16, a, b, l)
<1>1. c = d % P2(14) /\ d % 2^14 = c
  BY SMT DEF BranchField, P2
<1>2. c \in Nat /\ c < 16384 /\ (IF c >= 8192 THEN c - 16384 ELSE c) = d
  BY <1>1, PowersOfFields, SMT
<1> HIDE DEF c
<1>3. l \in Nat /\ l < 65536 /\ l % 2 = lk /\ l \div 4 = c
  BY <1>2, SMT
<1>4. BForm(a, b, BranchField(0, d, 14), lk) = w
  BY DEF BForm, c
<1> HIDE DEF l
<1>5. w.lo = l
  BY SMT DEF Word
<1>6. Opcode(w) = 16 /\ ReadReg(w, 1) = a /\ ReadReg(w, 2) = b
  BY WordFields, SMT
<1> HIDE DEF w
<1>7. Read(w, 16, 14) = c /\ Rc(w) = lk
  BY <1>3, <1>5, LowFields, SMT DEF Rc
<1>8. ReadSigned(w, 16, 14) = IF c >= P2(13) THEN c - P2(14) ELSE c
  BY <1>7, SMT DEF ReadSigned, AsSigned, P2
<1> QED
  BY <1>1, <1>2, <1>4, <1>6, <1>7, <1>8, PowersOfFields, SMT DEF c, HasB

HasI(w, d, lk) ==
  /\ Opcode(w) = 18 /\ Rc(w) = lk
  /\ ReadLI(w) = d
  /\ d % 2^24 = BranchField(0, d, 24)

LEMMA IFields ==
  \A d, lk :
    (d \in Int /\ lk \in 0..1 /\ -8388608 <= d /\ d < 8388608)
    => HasI(IForm(BranchField(0, d, 24), lk), d, lk)
<1> TAKE d, lk
<1> HAVE d \in Int /\ lk \in 0..1 /\ -8388608 <= d /\ d < 8388608
<1> DEFINE c == BranchField(0, d, 24)
           h == 18 * 1024 + c \div 16384
           l == (c % 16384) * 4 + lk
           w == IForm(c, lk)
<1>1. c = d % P2(24) /\ d % 2^24 = c
  BY SMT DEF BranchField, P2
<1>2. c \in Nat /\ c < 16777216 /\ (IF c >= 8388608 THEN c - 16777216 ELSE c) = d
  BY <1>1, PowersOfFields, SMT
<1> HIDE DEF c
<1>3. /\ l \in Nat /\ l < 65536 /\ l % 2 = lk /\ l \div 4 = c % 16384
      /\ h \in Nat /\ h < 65536 /\ h \div 1024 = 18 /\ (h % 1024) * 16384 + l \div 4 = c
  BY <1>2, SMT
<1>4. w.hi = h /\ w.lo = l
  BY SMT DEF IForm
<1> HIDE DEF l, h, w
<1>5. Opcode(w) = 18 /\ Rc(w) = lk
  BY <1>3, <1>4, LowFields, HighFields, SMT DEF Rc
<1>6. AsSigned(c, 24) = IF c >= P2(23) THEN c - P2(24) ELSE c
  BY <1>2, SMT DEF AsSigned, P2
<1>7. (w.hi % 1024) * 16384 + w.lo \div 4 = c
  BY <1>3, <1>4
<1>8. ReadLI(w) = d
  BY <1>2, <1>6, <1>7, PowersOfFields, SMT DEF ReadLI
<1> QED
  BY <1>1, <1>5, <1>8 DEF c, w, HasI

(* SignedHalfword and Halfword in numbers.                                  *)
LEMMA Immediates ==
  /\ \A i \in SignedHalfword : i \in Int /\ -32768 <= i /\ i < 32768
  /\ \A i \in Halfword : i \in Nat /\ i < 65536
<1>1. SignedHalfword = -P2(15)..(P2(15) - 1) /\ Halfword = 0..(P2(16) - 1)
  BY DEF SignedHalfword, Halfword, P2
<1>2. P2(15) = 32768 /\ P2(16) = 65536
  BY PowersOfFields
<1> QED
  BY <1>1, <1>2, SMT

LEMMA Displacements ==
  /\ \A d \in BdRange : d \in Int /\ -8192 <= d /\ d < 8192
  /\ \A d \in LiRange : d \in Int /\ -8388608 <= d /\ d < 8388608
<1>1. BdRange = -P2(13)..(P2(13) - 1) /\ LiRange = -P2(23)..(P2(23) - 1)
  BY DEF BdRange, LiRange, P2
<1>2. P2(13) = 8192 /\ P2(23) = 8388608
  BY PowersOfFields
<1> QED
  BY <1>1, <1>2, SMT

(* The operands of the calls fit their fields.                              *)
LEMMA FieldsOfCalls ==
  /\ \A r \in Regs : r \in 0..31
  /\ \A s \in Shifts : s \in 1..31
  /\ \A s \in LongShifts : s \in 1..63
  /\ \A f \in CrFields : f \in 0..7
  /\ \A i \in Signed16 : i \in SignedHalfword
  /\ \A i \in Unsigned16 : i \in Halfword
BY FieldAssumption

(* The name a table gives for a code is the one with that code, when no two *)
(* names share a code.                                                      *)
LEMMA NameOf ==
  ASSUME NEW table, NEW m \in DOMAIN table, \A k \in DOMAIN table : table[k] = table[m] => k = m
  PROVE  table[m] \in Codes(table) /\ NameIn(table, table[m]) = m
<1>1. table[m] \in Codes(table)
  BY DEF Codes
<1>2. NameIn(table, table[m]) = m
  BY Zenon DEF NameIn
<1> QED
  BY <1>1, <1>2

Injective(table) == \A k, m \in DOMAIN table : table[k] = table[m] => k = m

LEMMA Names ==
  ASSUME NEW table, Injective(table)
  PROVE  \A m \in DOMAIN table : table[m] \in Codes(table) /\ NameIn(table, table[m]) = m
BY NameOf, Zenon DEF Injective

(* No two rows of a table of the disassembler have the same code.           *)
LEMMA TablesInjective ==
  /\ Injective(TableD) /\ Injective(TableU) /\ Injective(TableAddr) /\ Injective(TableDS) /\ Injective(TableX3)
  /\ Injective(TableCache) /\ Injective(TableExtend) /\ Injective(TableSpr) /\ Injective(Condition)
<1>1. Injective(TableD) /\ Injective(TableU)
  BY SMT DEF Injective, TableD, TableU
<1>2. Injective(TableAddr)
  BY SMT DEF Injective, TableAddr
<1>3. Injective(TableDS)
  BY SMT DEF Injective, TableDS
<1>4. Injective(TableX3)
  BY SMT DEF Injective, TableX3
<1>5. Injective(TableCache) /\ Injective(TableExtend) /\ Injective(TableSpr)
  BY SMT DEF Injective, TableCache, TableExtend, TableSpr
<1>6. Injective(Condition)
  BY SMT DEF Injective, Condition
<1> QED
  BY <1>1, <1>2, <1>3, <1>4, <1>5, <1>6

(* No two tables of opcode 31 claim the same extended opcode, so the order  *)
(* of the arms of print31 does not matter.                                  *)
LEMMA Codes31 ==
  \A x : /\ x \in Codes(TableX3) => x \notin {0, 19, 104, 144, 444, 598} \cup Codes(TableCache)
                                      \cup Codes(TableExtend) \cup Codes(TableSpr)
         /\ x \in Codes(TableCache) => x \notin {0, 19, 104, 144, 444, 598} \cup Codes(TableExtend) \cup Codes(TableSpr)
         /\ x \in Codes(TableExtend) => x \notin {0, 19, 104, 144, 444, 598} \cup Codes(TableSpr)
         /\ x \in Codes(TableSpr) => x \notin {0, 19, 104, 144, 444, 598}
BY SMT DEF TableX3, Codes, TableCache, TableExtend, TableSpr

LEMMA Print31 ==
  ASSUME NEW w
  PROVE  /\ print31(w, 0) = print_X_cmp(w, "cmp") /\ print31(w, 19) = print_X_reg_res_res(w, "mfcr")
         /\ print31(w, 104) = print_X_reg_reg_res(w, "neg") /\ print31(w, 144) = print_X_mtcrf(w, "mtcrf")
         /\ print31(w, 444) = print_X_switched_regreg_reg(w, "or") /\ print31(w, 598) = print_X_reserved(w, "sync")
         /\ print31(w, 149) = Line(".long", 0, <<w>>)
BY Codes31, SMT DEF print31, Codes, TableX3, TableCache, TableExtend, TableSpr

LEMMA Print31Table ==
  ASSUME NEW w
  PROVE  /\ \A m \in DOMAIN TableX3 : print31(w, TableX3[m]) = print_X_reg_reg_reg(w, m)
         /\ \A m \in DOMAIN TableCache : print31(w, TableCache[m]) = print_X_res_regorzero_reg(w, m)
         /\ \A m \in DOMAIN TableExtend : print31(w, TableExtend[m]) = print_X_switched_regreg(w, m)
         /\ \A m \in DOMAIN TableSpr : print31(w, TableSpr[m]) = print_X_mspr(w, m)
<1>1. ASSUME NEW m \in DOMAIN TableX3 PROVE print31(w, TableX3[m]) = print_X_reg_reg_reg(w, m)
  BY Names, TablesInjective, Codes31, SMT DEF print31
<1>2. ASSUME NEW m \in DOMAIN TableCache PROVE print31(w, TableCache[m]) = print_X_res_regorzero_reg(w, m)
  BY Names, TablesInjective, Codes31, SMT DEF print31
<1>3. ASSUME NEW m \in DOMAIN TableExtend PROVE print31(w, TableExtend[m]) = print_X_switched_regreg(w, m)
  BY Names, TablesInjective, Codes31, SMT DEF print31
<1>4. ASSUME NEW m \in DOMAIN TableSpr PROVE print31(w, TableSpr[m]) = print_X_mspr(w, m)
  BY Names, TablesInjective, Codes31, SMT DEF print31
<1> QED
  BY <1>1, <1>2, <1>3, <1>4

(* The same for the primary opcodes and print_instruction_at.               *)
LEMMA OpcodesApart ==
  \A x : /\ x \in Codes(TableD) => x \notin {11, 16, 18, 19, 21, 30, 31, 58, 62, 63} \cup Codes(TableU) \cup Codes(TableAddr)
         /\ x \in Codes(TableU) => x \notin {11, 16, 18, 19, 21, 30, 31, 58, 62, 63} \cup Codes(TableAddr)
         /\ x \in Codes(TableAddr) => x \notin {11, 16, 18, 19, 21, 30, 31, 58, 62, 63}
         /\ \A y : <<x, y>> \in Codes(TableDS) => x \in {58, 62}
BY SMT DEF TableD, TableU, TableAddr, TableDS, Codes

LEMMA Dispatch ==
  ASSUME NEW w
  PROVE  /\ Opcode(w) = 11 => print_instruction_at(w) = print_D_cmpi(w, "cmpi")
         /\ Opcode(w) = 16 => print_instruction_at(w) = print_B_bc(w)
         /\ Opcode(w) = 18 => print_instruction_at(w) = print_I_b(w)
         /\ Opcode(w) = 21 => print_instruction_at(w) = print_M(w)
         /\ Opcode(w) = 31 => print_instruction_at(w) = print31(w, ReadXo(w))
         /\ Opcode(w) = 30 /\ Read(w, 27, 3) \in {0, 1} => print_instruction_at(w) = print_MD(w)
         /\ Opcode(w) = 19 /\ ReadXo(w) \in {16, 528} => print_instruction_at(w) = print_X_bcspr(w)
         /\ Opcode(w) = 19 /\ ReadXo(w) = 150 => print_instruction_at(w) = print_X_reserved(w, "isync")
         /\ Opcode(w) = 63 /\ ReadXo(w) = 72 => print_instruction_at(w) = print_X_freg_res_freg(w, "fmr")
<1>1. /\ Opcode(w) \in {19, 31, 63} => ExtendedOpcode(w) = ReadXo(w)
      /\ Opcode(w) = 30 => ExtendedOpcode(w) = Read(w, 27, 3)
  BY SMT DEF ExtendedOpcode
<1>2. /\ Opcode(w) = 11 => print_instruction_at(w) = print_D_cmpi(w, "cmpi")
      /\ Opcode(w) = 16 => print_instruction_at(w) = print_B_bc(w)
      /\ Opcode(w) = 18 => print_instruction_at(w) = print_I_b(w)
      /\ Opcode(w) = 21 => print_instruction_at(w) = print_M(w)
  BY OpcodesApart, SMT DEF print_instruction_at
<1>3. Opcode(w) = 31 => print_instruction_at(w) = print31(w, ReadXo(w))
  BY OpcodesApart, <1>1, SMT DEF print_instruction_at
<1>4. Opcode(w) = 30 /\ Read(w, 27, 3) \in {0, 1} => print_instruction_at(w) = print_MD(w)
  BY OpcodesApart, <1>1, SMT DEF print_instruction_at
<1>5. /\ Opcode(w) = 19 /\ ReadXo(w) \in {16, 528} => print_instruction_at(w) = print_X_bcspr(w)
      /\ Opcode(w) = 19 /\ ReadXo(w) = 150 => print_instruction_at(w) = print_X_reserved(w, "isync")
  BY OpcodesApart, <1>1, SMT DEF print_instruction_at
<1>6. Opcode(w) = 63 /\ ReadXo(w) = 72 => print_instruction_at(w) = print_X_freg_res_freg(w, "fmr")
  BY OpcodesApart, <1>1, SMT DEF print_instruction_at
<1> QED
  BY <1>2, <1>3, <1>4, <1>5, <1>6

LEMMA DispatchTable ==
  ASSUME NEW w
  PROVE  /\ \A m \in DOMAIN TableD : Opcode(w) = TableD[m] => print_instruction_at(w) = print_D_reg_reg_simm(w, m)
         /\ \A m \in DOMAIN TableU : Opcode(w) = TableU[m] => print_instruction_at(w) = print_D_reg_reg_uimm(w, m)
         /\ \A m \in DOMAIN TableAddr : Opcode(w) = TableAddr[m] => print_instruction_at(w) = print_D_addr(w, m)
         /\ \A m \in DOMAIN TableDS : <<Opcode(w), Read(w, 30, 2)>> = TableDS[m]
                                        => print_instruction_at(w) = print_DS_reg_addr(w, m)
<1>1. ASSUME NEW m \in DOMAIN TableD, Opcode(w) = TableD[m]
      PROVE  print_instruction_at(w) = print_D_reg_reg_simm(w, m)
  BY <1>1, Names, TablesInjective, OpcodesApart, SMT DEF print_instruction_at
<1>2. ASSUME NEW m \in DOMAIN TableU, Opcode(w) = TableU[m]
      PROVE  print_instruction_at(w) = print_D_reg_reg_uimm(w, m)
  BY <1>2, Names, TablesInjective, OpcodesApart, SMT DEF print_instruction_at
<1>3. ASSUME NEW m \in DOMAIN TableAddr, Opcode(w) = TableAddr[m]
      PROVE  print_instruction_at(w) = print_D_addr(w, m)
  BY <1>3, Names, TablesInjective, OpcodesApart, SMT DEF print_instruction_at
<1>4. ASSUME NEW m \in DOMAIN TableDS, <<Opcode(w), Read(w, 30, 2)>> = TableDS[m]
      PROVE  print_instruction_at(w) = print_DS_reg_addr(w, m)
  <2>1. Opcode(w) \in {58, 62}
    BY <1>4, SMT DEF TableDS
  <2>2. ExtendedOpcode(w) = Read(w, 30, 2)
    BY <2>1, SMT DEF ExtendedOpcode
  <2> QED
    BY <1>4, <2>1, <2>2, Names, TablesInjective, OpcodesApart, SMT DEF print_instruction_at
<1> QED
  BY <1>1, <1>2, <1>3, <1>4

(* Encode, mnemonic by mnemonic.                                            *)
LEMMA EncodesTables ==
  ASSUME NEW o
  PROVE  /\ \A n \in DOMAIN Xo3 : Encode(n, o) = XForm(31, o[1], o[2], o[3], Xo3[n], Rc3(n))
         /\ \A n \in DOMAIN XoExtend : Encode(n, o) = XForm(31, o[2], o[1], 0, XoExtend[n], 0)
         /\ \A n \in DOMAIN XoCache : Encode(n, o) = XForm(31, 0, o[1], o[2], XoCache[n], 0)
         /\ \A n \in DOMAIN OpSigned : Encode(n, o) = DForm(OpSigned[n], o[1], o[2], o[3])
         /\ \A n \in DOMAIN OpUnsigned : Encode(n, o) = DForm(OpUnsigned[n], o[2], o[1], o[3])
         /\ \A n \in DOMAIN OpAddr : Encode(n, o) = DForm(OpAddr[n], o[1], o[2], Displacement(o[3]))
         /\ \A n \in DOMAIN OpDS :
              Encode(n, o) = DSForm(OpDS[n][1], o[1], o[2], Displacement(o[3]) \div 4, OpDS[n][2])
         /\ \A n \in DOMAIN XoBarrier : Encode(n, o) = XForm(XoBarrier[n][1], 0, 0, 0, XoBarrier[n][2], 0)
         /\ \A n \in DOMAIN XoBranch : Encode(n, o) = XForm(19, o[1], o[2], 0, XoBranch[n], Link[n])
<1> USE DEF Encode, Xo3, XoExtend, XoCache, OpSigned, OpUnsigned, OpAddr, OpDS, XoSpr, XoBarrier, XoBranch
<1>1. \A n \in DOMAIN Xo3 : Encode(n, o) = XForm(31, o[1], o[2], o[3], Xo3[n], Rc3(n))
  BY SMT
<1>2. \A n \in DOMAIN XoExtend : Encode(n, o) = XForm(31, o[2], o[1], 0, XoExtend[n], 0)
  BY SMT
<1>3. \A n \in DOMAIN XoCache : Encode(n, o) = XForm(31, 0, o[1], o[2], XoCache[n], 0)
  BY SMT
<1>4. \A n \in DOMAIN OpSigned : Encode(n, o) = DForm(OpSigned[n], o[1], o[2], o[3])
  BY SMT
<1>5. \A n \in DOMAIN OpUnsigned : Encode(n, o) = DForm(OpUnsigned[n], o[2], o[1], o[3])
  BY SMT
<1>6. \A n \in DOMAIN OpAddr : Encode(n, o) = DForm(OpAddr[n], o[1], o[2], Displacement(o[3]))
  BY SMT
<1>7. \A n \in DOMAIN OpDS :
        Encode(n, o) = DSForm(OpDS[n][1], o[1], o[2], Displacement(o[3]) \div 4, OpDS[n][2])
  BY SMT
<1>8. \A n \in DOMAIN XoBarrier : Encode(n, o) = XForm(XoBarrier[n][1], 0, 0, 0, XoBarrier[n][2], 0)
  BY SMT
<1>9. \A n \in DOMAIN XoBranch : Encode(n, o) = XForm(19, o[1], o[2], 0, XoBranch[n], Link[n])
  BY SMT
<1> HIDE DEF Encode
<1> QED
  BY <1>1, <1>2, <1>3, <1>4, <1>5, <1>6, <1>7, <1>8, <1>9

LEMMA EncodesSingles ==
  ASSUME NEW o
  PROVE  /\ Encode("OR", o) = XForm(31, o[2], o[1], o[3], 444, 0)
         /\ Encode("cmp", o) = XForm(31, o[1] * 4 + o[2], o[3], o[4], 0, 0)
         /\ Encode("cmpi", o) = DForm(11, o[1] * 4 + o[2], o[3], o[4])
         /\ Encode("neg", o) = XForm(31, o[1], o[2], 0, 104, 0)
         /\ Encode("fmr", o) = XForm(63, o[1], 0, o[2], 72, 0)
         /\ Encode("mfcr", o) = XForm(31, o[1], 0, 0, 19, 0)
         /\ Encode("mtcrf", o) = XForm(31, o[2], o[1] \div 16, (o[1] % 16) * 2, 144, 0)
         /\ Encode("mfspr", o) = XForm(31, o[1], o[2], 0, XoSpr.mfspr, 0)
         /\ Encode("mtspr", o) = XForm(31, o[2], o[1], 0, XoSpr.mtspr, 0)
         /\ Encode("bc", o) = BForm(o[1], o[2], o[3], 0) /\ Encode("bcl", o) = BForm(o[1], o[2], o[3], 1)
         /\ Encode("b", o) = IForm(o[1], 0) /\ Encode("bl", o) = IForm(o[1], 1)
         /\ Encode("rlwinm", o) = MForm(o[2], o[1], o[3], o[4], o[5])
         /\ Encode("rldicl", o) = MDForm(o[2], o[1], o[3], o[4], 0)
         /\ Encode("rldicr", o) = MDForm(o[2], o[1], o[3], o[4], 1)
<1> USE DEF Encode, Xo3, XoExtend, XoCache, OpSigned, OpUnsigned, OpAddr, OpDS, XoSpr, XoBarrier, XoBranch
<1>1. /\ Encode("OR", o) = XForm(31, o[2], o[1], o[3], 444, 0)
      /\ Encode("cmp", o) = XForm(31, o[1] * 4 + o[2], o[3], o[4], 0, 0)
      /\ Encode("cmpi", o) = DForm(11, o[1] * 4 + o[2], o[3], o[4])
  BY SMT
<1>2. /\ Encode("neg", o) = XForm(31, o[1], o[2], 0, 104, 0)
      /\ Encode("fmr", o) = XForm(63, o[1], 0, o[2], 72, 0)
      /\ Encode("mfcr", o) = XForm(31, o[1], 0, 0, 19, 0)
  BY SMT
<1>3. /\ Encode("mtcrf", o) = XForm(31, o[2], o[1] \div 16, (o[1] % 16) * 2, 144, 0)
      /\ Encode("mfspr", o) = XForm(31, o[1], o[2], 0, XoSpr.mfspr, 0)
      /\ Encode("mtspr", o) = XForm(31, o[2], o[1], 0, XoSpr.mtspr, 0)
  BY SMT
<1>4. /\ Encode("bc", o) = BForm(o[1], o[2], o[3], 0) /\ Encode("bcl", o) = BForm(o[1], o[2], o[3], 1)
      /\ Encode("b", o) = IForm(o[1], 0) /\ Encode("bl", o) = IForm(o[1], 1)
  BY SMT DEF Link
<1>5. /\ Encode("rlwinm", o) = MForm(o[2], o[1], o[3], o[4], o[5])
      /\ Encode("rldicl", o) = MDForm(o[2], o[1], o[3], o[4], 0)
      /\ Encode("rldicr", o) = MDForm(o[2], o[1], o[3], o[4], 1)
  BY SMT
<1> HIDE DEF Encode
<1> QED
  BY <1>1, <1>2, <1>3, <1>4, <1>5

(* Assembled, line by line: the standard mnemonics first.                   *)
LEMMA AssembledShort ==
  /\ \A rc, a, c : Assembled(Line("li", rc, <<a, c>>)) = Encode("addi", <<a, 0, c>>)
  /\ \A rc, a, c : Assembled(Line("lis", rc, <<a, c>>)) = Encode("addis", <<a, 0, c>>)
  /\ \A rc, a, b, c : Assembled(Line("subi", rc, <<a, b, c>>)) = Encode("addi", <<a, b, -c>>)
  /\ \A rc, a, b, c : Assembled(Line("sub", rc, <<a, b, c>>)) = Encode("subf", <<a, c, b>>)
  /\ \A rc : Assembled(Line("nop", rc, <<>>)) = Encode("ori", <<0, 0, 0>>)
  /\ \A rc, a, b : Assembled(Line("mr", rc, <<a, b>>)) = Encode("OR", <<a, b, b>>)
  /\ \A rc, a : Assembled(Line("mtcr", rc, <<a>>)) = Encode("mtcrf", <<255, a>>)
  /\ \A rc, a, b, c : Assembled(Line("slwi", rc, <<a, b, c>>)) = Encode("rlwinm", <<a, b, c, 0, 31 - c>>)
  /\ \A rc, a, b, c : Assembled(Line("srwi", rc, <<a, b, c>>)) = Encode("rlwinm", <<a, b, 32 - c, c, 31>>)
  /\ \A rc, a, b, c : Assembled(Line("sldi", rc, <<a, b, c>>)) = Encode("rldicr", <<a, b, c, 63 - c>>)
  /\ \A rc, a, b, c : Assembled(Line("srdi", rc, <<a, b, c>>)) = Encode("rldicl", <<a, b, 64 - c, c>>)
  /\ \A rc : Assembled(Line("mpclr", rc, <<>>)) = Encode("bcl", <<20, 31, 1>>)
<1> USE DEF Assembled, Line, Compares, XoSpr
<1>1. /\ \A rc, a, c : Assembled(Line("li", rc, <<a, c>>)) = Encode("addi", <<a, 0, c>>)
      /\ \A rc, a, c : Assembled(Line("lis", rc, <<a, c>>)) = Encode("addis", <<a, 0, c>>)
      /\ \A rc, a, b, c : Assembled(Line("subi", rc, <<a, b, c>>)) = Encode("addi", <<a, b, -c>>)
  BY SMT
<1>2. /\ \A rc, a, b, c : Assembled(Line("sub", rc, <<a, b, c>>)) = Encode("subf", <<a, c, b>>)
      /\ \A rc : Assembled(Line("nop", rc, <<>>)) = Encode("ori", <<0, 0, 0>>)
      /\ \A rc, a, b : Assembled(Line("mr", rc, <<a, b>>)) = Encode("OR", <<a, b, b>>)
  BY SMT
<1>3. /\ \A rc, a : Assembled(Line("mtcr", rc, <<a>>)) = Encode("mtcrf", <<255, a>>)
      /\ \A rc, a, b, c : Assembled(Line("slwi", rc, <<a, b, c>>)) = Encode("rlwinm", <<a, b, c, 0, 31 - c>>)
      /\ \A rc, a, b, c : Assembled(Line("srwi", rc, <<a, b, c>>)) = Encode("rlwinm", <<a, b, 32 - c, c, 31>>)
  BY SMT
<1>4. /\ \A rc, a, b, c : Assembled(Line("sldi", rc, <<a, b, c>>)) = Encode("rldicr", <<a, b, c, 63 - c>>)
      /\ \A rc, a, b, c : Assembled(Line("srdi", rc, <<a, b, c>>)) = Encode("rldicl", <<a, b, 64 - c, c>>)
      /\ \A rc : Assembled(Line("mpclr", rc, <<>>)) = Encode("bcl", <<20, 31, 1>>)
  BY SMT
<1> HIDE DEF Assembled
<1> QED
  BY <1>1, <1>2, <1>3, <1>4

LEMMA AssembledPlain ==
  ASSUME NEW d, NEW o,
         NEW n \in DOMAIN TableX3 \cup DOMAIN TableCache \cup DOMAIN TableExtend \cup DOMAIN TableD \cup DOMAIN TableU
                     \cup DOMAIN TableAddr \cup DOMAIN TableDS \cup {"or", "neg", "fmr", "mfcr"}
  PROVE  Assembled(Line(n, d, o)) = Encode(PlainName(n), o)
<1> DEFINE t == Line(n, d, o)
<1>1. /\ n \notin {"li", "lis", "subi", "sub", "nop", "mr", "mtcr", "slwi", "srwi", "sldi", "srdi", "mpclr", "isync", "sync", "b"}
      /\ n \notin DOMAIN Compares /\ n \notin DOMAIN XoSpr
  BY SMT DEF TableX3, TableCache, TableExtend, TableD, TableU, TableAddr, TableDS, Compares, XoSpr
<1>2. t.m[1] = n /\ t.ops = o
  BY SMT DEF Line
<1> HIDE DEF t
<1>3. Assembled(t) = Encode(PlainName(n), o)
  BY <1>1, <1>2, Zenon DEF Assembled
<1> QED
  BY <1>3 DEF t

LEMMA AssembledOthers ==
  ASSUME NEW d
  PROVE  /\ Assembled(Line("isync", d, <<>>)) = Encode("isync", <<>>) /\ Assembled(Line("sync", d, <<>>)) = Encode("sync", <<>>)
         /\ \A s, a : /\ Assembled(LineOf(<<"mfspr", s>>, <<a>>)) = Encode("mfspr", <<a, s>>)
                      /\ Assembled(LineOf(<<"mtspr", s>>, <<a>>)) = Encode("mtspr", <<s, a>>)
         /\ \A k, lk : Assembled(LineOf(<<"b", k, "ctr", lk>>, <<>>)) = Encode("bcctrl", Condition[k])
         /\ \A k : /\ Assembled(LineOf(<<"b", k, "lr", 1>>, <<>>)) = Encode("bclrl", Condition[k])
                   /\ Assembled(LineOf(<<"b", k, "lr", 0>>, <<>>)) = Encode("bclr", Condition[k])
         /\ \A x : /\ Assembled(LineOf(<<"b", "", "", 1>>, <<x>>)) = Encode("bl", <<x % 2^24>>)
                   /\ Assembled(LineOf(<<"b", "", "", 0>>, <<x>>)) = Encode("b", <<x % 2^24>>)
<1> USE DEF Assembled, Line, LineOf, Compares, XoSpr
<1>1. Assembled(Line("isync", d, <<>>)) = Encode("isync", <<>>) /\ Assembled(Line("sync", d, <<>>)) = Encode("sync", <<>>)
  BY SMT
<1>2. \A s, a : /\ Assembled(LineOf(<<"mfspr", s>>, <<a>>)) = Encode("mfspr", <<a, s>>)
                /\ Assembled(LineOf(<<"mtspr", s>>, <<a>>)) = Encode("mtspr", <<s, a>>)
  BY SMT
<1>3. \A k, lk : Assembled(LineOf(<<"b", k, "ctr", lk>>, <<>>)) = Encode("bcctrl", Condition[k])
  BY SMT
<1>4. \A k : /\ Assembled(LineOf(<<"b", k, "lr", 1>>, <<>>)) = Encode("bclrl", Condition[k])
             /\ Assembled(LineOf(<<"b", k, "lr", 0>>, <<>>)) = Encode("bclr", Condition[k])
  BY SMT
<1>5. \A x : /\ Assembled(LineOf(<<"b", "", "", 1>>, <<x>>)) = Encode("bl", <<x % 2^24>>)
             /\ Assembled(LineOf(<<"b", "", "", 0>>, <<x>>)) = Encode("b", <<x % 2^24>>)
  BY SMT
<1> HIDE DEF Assembled
<1> QED
  BY <1>1, <1>2, <1>3, <1>4, <1>5

LEMMA AssembledConditional ==
  \A k, x, y, lk : Assembled(LineOf(<<"b", k, "", lk>>, <<x, y>>))
                     = BForm(Condition[k][1], Condition[k][2] + 4 * x, y % 2^14, lk)
BY SMT DEF Assembled, LineOf, Compares, XoSpr

LEMMA AssembledCompare ==
  ASSUME NEW n \in DOMAIN Compares, NEW f \in Nat, NEW x, NEW y
  PROVE  Assembled(Line(n, 0, IF f = 0 THEN <<x, y>> ELSE <<f, x, y>>))
           = Encode(Compares[n][1], <<f, Compares[n][2], x, y>>)
<1> DEFINE o == IF f = 0 THEN <<x, y>> ELSE <<f, x, y>>
           t == Line(n, 0, o)
<1>1. /\ t.m[1] = n /\ t.ops = o
      /\ n \notin {"li", "lis", "subi", "sub", "nop", "mr", "mtcr", "slwi", "srwi", "sldi", "srdi",
                   "mpclr", "isync", "sync", "b"} \cup DOMAIN XoSpr
  BY SMT DEF Line, Compares, XoSpr
<1> HIDE DEF t, o
<1>2. Assembled(t) = Encode(Compares[n][1], IF Len(o) = 3 THEN <<o[1], Compares[n][2], o[2], o[3]>>
                                            ELSE <<0, Compares[n][2], o[1], o[2]>>)
  BY <1>1, Zenon DEF Assembled
<1>3. CASE f = 0
  BY <1>2, <1>3, SMT DEF t, o
<1>4. CASE f # 0
  BY <1>2, <1>4, SMT DEF t, o
<1> QED
  BY <1>3, <1>4

(* The line printed for an instruction, assembled, is the instruction.      *)
Reads(n, o) == Assembled(print_instruction_at(Encode(n, o))) = Encode(n, o)

LEMMA ReadsThree ==
  ASSUME NEW n \in DOMAIN Xo3 \ {"stdx"}, NEW a \in 0..31, NEW b \in 0..31, NEW c \in 0..31
  PROVE  Reads(n, <<a, b, c>>)
<1> DEFINE w == XForm(31, a, b, c, Xo3[n], Rc3(n))
<1>1. \A o : o[1] = a /\ o[2] = b /\ o[3] = c => Encode(n, o) = w
  BY EncodesTables, SMT
<1>2. PICK m \in DOMAIN TableX3 : PlainName(m) = n /\ TableX3[m] = Xo3[n] /\ (Xo3[n] = 40 <=> n = "subf")
  BY SMT DEF TableX3, Xo3, PlainName, Plain
<1>3. Xo3[n] \in Nat /\ Xo3[n] < 1024 /\ Rc3(n) \in 0..1
  BY SMT DEF Xo3, Rc3
<1>4. /\ Opcode(w) = 31 /\ ReadReg(w, 1) = a /\ ReadReg(w, 2) = b /\ ReadReg(w, 3) = c
      /\ ReadXo(w) = Xo3[n] /\ Rc(w) = Rc3(n)
  BY <1>3, XFields, SMT DEF HasX
<1> HIDE DEF w
<1>5. print_instruction_at(w) = print_X_reg_reg_reg(w, m)
  BY <1>2, <1>4, Dispatch, Print31Table, SMT
<1>6. CASE n = "subf"
  <2>1. print_instruction_at(w) = Line("sub", Rc(w), <<a, c, b>>)
    BY <1>2, <1>4, <1>5, <1>6, SMT DEF print_X_reg_reg_reg
  <2>2. Assembled(print_instruction_at(w)) = Encode("subf", <<a, b, c>>)
    BY <2>1, AssembledShort, SMT
  <2> QED
    BY <1>1, <1>6, <2>2, SMT DEF Reads
<1>7. CASE n # "subf"
  <2>1. print_instruction_at(w) = Line(m, Rc(w), <<a, b, c>>)
    BY <1>2, <1>4, <1>5, <1>7, SMT DEF print_X_reg_reg_reg
  <2>2. Assembled(print_instruction_at(w)) = Encode(n, <<a, b, c>>)
    BY <1>2, <2>1, AssembledPlain, SMT
  <2> QED
    BY <1>1, <2>2, SMT DEF Reads
<1> QED
  BY <1>6, <1>7

(* stdx has no row: its word is printed as a number.                        *)
LEMMA StdxIsNotRead ==
  ASSUME NEW a \in 0..31, NEW b \in 0..31, NEW c \in 0..31
  PROVE  LET w == Encode("stdx", <<a, b, c>>) IN print_instruction_at(w) = Line(".long", 0, <<w>>)
<1> DEFINE w == XForm(31, a, b, c, 149, 0)
<1>1. Encode("stdx", <<a, b, c>>) = w
  BY EncodesTables, SMT DEF Xo3, Rc3
<1>2. Opcode(w) = 31 /\ ReadXo(w) = 149
  BY XFields, SMT DEF HasX
<1> HIDE DEF w
<1>3. print_instruction_at(w) = Line(".long", 0, <<w>>)
  BY <1>2, Dispatch, Print31, SMT
<1> QED
  BY <1>1, <1>3

LEMMA ReadsTwo ==
  ASSUME NEW n \in DOMAIN XoExtend \cup DOMAIN XoCache \cup {"neg", "fmr"}, NEW a \in 0..31, NEW b \in 0..31
  PROVE  Reads(n, <<a, b>>)
<1>1. CASE n \in DOMAIN XoExtend
  <2> DEFINE w == XForm(31, b, a, 0, XoExtend[n], 0)
  <2>1. Encode(n, <<a, b>>) = w
    BY <1>1, EncodesTables, SMT
  <2>2. XoExtend[n] \in Nat /\ XoExtend[n] < 1024 /\ n \in DOMAIN TableExtend /\ TableExtend[n] = XoExtend[n] /\ PlainName(n) = n
    BY <1>1, SMT DEF XoExtend, TableExtend, PlainName, Plain
  <2>3. Opcode(w) = 31 /\ ReadReg(w, 1) = b /\ ReadReg(w, 2) = a /\ ReadXo(w) = XoExtend[n]
    BY <2>2, XFields, SMT DEF HasX
  <2> HIDE DEF w
  <2>4. print_instruction_at(w) = Line(n, Rc(w), <<a, b>>)
    BY <2>2, <2>3, Dispatch, Print31Table, SMT DEF print_X_switched_regreg
  <2> QED
    BY <2>1, <2>2, <2>4, AssembledPlain, SMT DEF Reads
<1>2. CASE n \in DOMAIN XoCache
  <2> DEFINE w == XForm(31, 0, a, b, XoCache[n], 0)
  <2>1. Encode(n, <<a, b>>) = w
    BY <1>2, EncodesTables, SMT
  <2>2. XoCache[n] \in Nat /\ XoCache[n] < 1024 /\ n \in DOMAIN TableCache /\ TableCache[n] = XoCache[n] /\ PlainName(n) = n
    BY <1>2, SMT DEF XoCache, TableCache, PlainName, Plain
  <2>3. Opcode(w) = 31 /\ ReadReg(w, 2) = a /\ ReadReg(w, 3) = b /\ ReadXo(w) = XoCache[n]
    BY <2>2, XFields, SMT DEF HasX
  <2> HIDE DEF w
  <2>4. print_instruction_at(w) = Line(n, Rc(w), <<a, b>>)
    BY <2>2, <2>3, Dispatch, Print31Table, SMT DEF print_X_res_regorzero_reg
  <2> QED
    BY <2>1, <2>2, <2>4, AssembledPlain, SMT DEF Reads
<1>3. CASE n = "neg"
  <2> DEFINE w == XForm(31, a, b, 0, 104, 0)
  <2>1. Encode(n, <<a, b>>) = w /\ PlainName(n) = n
    BY <1>3, EncodesSingles, SMT DEF PlainName, Plain
  <2>3. Opcode(w) = 31 /\ ReadReg(w, 1) = a /\ ReadReg(w, 2) = b /\ ReadXo(w) = 104
    BY XFields, SMT DEF HasX
  <2> HIDE DEF w
  <2>5. print_instruction_at(w) = print31(w, 104)
    BY <2>3, Dispatch, SMT
  <2>2. print_instruction_at(w) = print_X_reg_reg_res(w, n)
    BY <1>3, <2>5, Print31, Zenon
  <2>4. print_instruction_at(w) = Line(n, Rc(w), <<a, b>>)
    BY <2>2, <2>3, SMT DEF print_X_reg_reg_res
  <2> QED
    BY <1>3, <2>1, <2>4, AssembledPlain, SMT DEF Reads
<1>4. CASE n = "fmr"
  <2> DEFINE w == XForm(63, a, 0, b, 72, 0)
  <2>1. Encode(n, <<a, b>>) = w /\ PlainName(n) = n
    BY <1>4, EncodesSingles, SMT DEF PlainName, Plain
  <2>3. Opcode(w) = 63 /\ ReadReg(w, 1) = a /\ ReadReg(w, 3) = b /\ ReadXo(w) = 72
    BY XFields, SMT DEF HasX
  <2> HIDE DEF w
  <2>4. print_instruction_at(w) = Line(n, Rc(w), <<a, b>>)
    BY <1>4, <2>3, Dispatch, SMT DEF print_X_freg_res_freg
  <2> QED
    BY <1>4, <2>1, <2>4, AssembledPlain, SMT DEF Reads
<1> QED
  BY <1>1, <1>2, <1>3, <1>4

(* addi, addis and subfic: li, lis and subi are short forms of some of      *)
(* them.                                                                    *)
LEMMA ReadsSigned ==
  ASSUME NEW n \in DOMAIN OpSigned, NEW a \in 0..31, NEW b \in 0..31, NEW i \in SignedHalfword
  PROVE  Reads(n, <<a, b, i>>)
<1>0. i \in Int /\ -32768 <= i /\ i < 32768
  BY Immediates
<1> DEFINE w == DForm(OpSigned[n], a, b, i)
<1>1. Encode(n, <<a, b, i>>) = w
  BY EncodesTables, SMT
<1>2. OpSigned[n] \in 0..63 /\ n \in DOMAIN TableD /\ TableD[n] = OpSigned[n] /\ PlainName(n) = n
  BY SMT DEF OpSigned, TableD, PlainName, Plain
<1>3. Opcode(w) = OpSigned[n] /\ ReadReg(w, 1) = a /\ ReadReg(w, 2) = b /\ ReadSigned(w, 16, 16) = i
  BY <1>0, <1>2, DFields, SMT DEF HasD
<1> HIDE DEF w
<1>4. print_instruction_at(w) = print_D_reg_reg_simm(w, n)
  BY <1>2, <1>3, DispatchTable, SMT
<1>5. CASE b = 0 /\ n = "addi"
  <2>1. print_instruction_at(w) = Line("li", 0, <<a, i>>)
    BY <1>0, <1>3, <1>4, <1>5, SMT DEF print_D_reg_reg_simm
  <2> QED
    BY <1>1, <1>5, <2>1, AssembledShort, SMT DEF Reads
<1>6. CASE b = 0 /\ n = "addis"
  <2>1. print_instruction_at(w) = Line("lis", 0, <<a, i>>)
    BY <1>3, <1>4, <1>6, SMT DEF print_D_reg_reg_simm
  <2> QED
    BY <1>1, <1>6, <2>1, AssembledShort, SMT DEF Reads
<1>7. CASE b # 0 /\ n = "addi" /\ i < 0
  <2>1. print_instruction_at(w) = Line("subi", 0, <<a, b, -i>>)
    BY <1>0, <1>3, <1>4, <1>7, SMT DEF print_D_reg_reg_simm
  <2>2. -(-i) = i
    BY <1>0, SMT
  <2> QED
    BY <1>1, <1>7, <2>1, <2>2, AssembledShort, SMT DEF Reads
<1>8. CASE ~(b = 0 /\ n \in {"addi", "addis"}) /\ ~(n = "addi" /\ i < 0)
  <2>1. print_instruction_at(w) = Line(n, 0, <<a, b, i>>)
    BY <1>3, <1>4, <1>8, SMT DEF print_D_reg_reg_simm
  <2> QED
    BY <1>1, <1>2, <2>1, AssembledPlain, SMT DEF Reads
<1> QED
  BY <1>5, <1>6, <1>7, <1>8

LEMMA ReadsUnsigned ==
  ASSUME NEW n \in DOMAIN OpUnsigned, NEW a \in 0..31, NEW b \in 0..31, NEW i \in Halfword
  PROVE  Reads(n, <<a, b, i>>)
<1>0. i \in Nat /\ i < 65536
  BY Immediates
<1> DEFINE w == DForm(OpUnsigned[n], b, a, i)
<1>1. Encode(n, <<a, b, i>>) = w
  BY EncodesTables, SMT
<1>2. OpUnsigned[n] \in 0..63 /\ n \in DOMAIN TableU /\ TableU[n] = OpUnsigned[n] /\ PlainName(n) = n
  BY SMT DEF OpUnsigned, TableU, PlainName, Plain
<1>3. Opcode(w) = OpUnsigned[n] /\ ReadReg(w, 1) = b /\ ReadReg(w, 2) = a /\ Read(w, 16, 16) = i
  BY <1>0, <1>2, DFields, SMT DEF HasD
<1> HIDE DEF w
<1>4. print_instruction_at(w) = print_D_reg_reg_uimm(w, n)
  BY <1>2, <1>3, DispatchTable, SMT
<1>5. CASE n = "ori" /\ a = 0 /\ b = 0 /\ i = 0
  <2>1. print_instruction_at(w) = Line("nop", 0, <<>>)
    BY <1>0, <1>3, <1>4, <1>5, SMT DEF print_D_reg_reg_uimm
  <2> QED
    BY <1>1, <1>5, <2>1, AssembledShort, SMT DEF Reads
<1>6. CASE ~(n = "ori" /\ a = 0 /\ b = 0 /\ i = 0)
  <2>1. print_instruction_at(w) = Line(n, 0, <<a, b, i>>)
    BY <1>3, <1>4, <1>6, SMT DEF print_D_reg_reg_uimm
  <2> QED
    BY <1>1, <1>2, <2>1, AssembledPlain, SMT DEF Reads
<1> QED
  BY <1>5, <1>6

LEMMA ReadsAddresses ==
  ASSUME NEW a \in 0..31, NEW b \in 0..31, NEW i \in SignedHalfword
  PROVE  /\ \A n \in DOMAIN OpAddr : Reads(n, <<a, b, i>>)
         /\ i % 4 = 0 => \A n \in DOMAIN OpDS : Reads(n, <<a, b, i>>)
<1>0. i \in Int /\ -32768 <= i /\ i < 32768
  BY Immediates
<1>1. ASSUME NEW n \in DOMAIN OpAddr
      PROVE  Reads(n, <<a, b, i>>)
  <2> DEFINE w == DForm(OpAddr[n], a, b, i)
  <2>1. Encode(n, <<a, b, i>>) = DForm(OpAddr[n], a, b, Displacement(i))
    BY EncodesTables, SMT
  <2>2. DForm(OpAddr[n], a, b, Displacement(i)) = w
    <3>1. (i % 65536) % 65536 = i % 65536
      BY <1>0, SMT
    <3> QED
      BY <3>1 DEF DForm, Displacement
  <2>3. OpAddr[n] \in 0..63 /\ n \in DOMAIN TableAddr /\ TableAddr[n] = OpAddr[n] /\ PlainName(n) = n
    BY SMT DEF OpAddr, TableAddr, PlainName, Plain
  <2>4. Opcode(w) = OpAddr[n] /\ ReadReg(w, 1) = a /\ ReadReg(w, 2) = b /\ ReadSigned(w, 16, 16) = i
    BY <1>0, <2>3, DFields, SMT DEF HasD
  <2> HIDE DEF w
  <2>5. print_instruction_at(w) = Line(n, 0, <<a, b, i>>)
    BY <2>3, <2>4, DispatchTable, SMT DEF print_D_addr
  <2> QED
    BY <2>1, <2>2, <2>3, <2>5, AssembledPlain, SMT DEF Reads
<1>2. ASSUME i % 4 = 0, NEW n \in DOMAIN OpDS
      PROVE  Reads(n, <<a, b, i>>)
  <2> DEFINE op == OpDS[n][1]
             x == OpDS[n][2]
             w == DSForm(op, a, b, Displacement(i) \div 4, x)
  <2>1. Encode(n, <<a, b, i>>) = w
    BY EncodesTables, SMT
  <2>2. op \in 0..63 /\ x \in 0..3 /\ n \in DOMAIN TableDS /\ TableDS[n] = <<op, x>> /\ PlainName(n) = n
    BY SMT DEF OpDS, TableDS, PlainName, Plain
  <2> HIDE DEF op, x
  <2>3. /\ Opcode(w) = op /\ ReadReg(w, 1) = a /\ ReadReg(w, 2) = b /\ Read(w, 30, 2) = x
        /\ 4 * ReadSigned(w, 16, 14) = i
    BY <1>0, <1>2, <2>2, DSFields, SMT DEF HasDS
  <2> HIDE DEF w
  <2>4. print_instruction_at(w) = print_DS_reg_addr(w, n)
    BY <2>2, <2>3, DispatchTable, SMT
  <2>5. print_instruction_at(w) = Line(n, 0, <<a, b, i>>)
    BY <2>3, <2>4, SMT DEF print_DS_reg_addr
  <2> QED
    BY <2>1, <2>2, <2>5, AssembledPlain, SMT DEF Reads
<1> QED
  BY <1>1, <1>2

(* or is printed as mr exactly when its two sources are one register.       *)
LEMMA ReadsMoves ==
  ASSUME NEW a \in 0..31, NEW b \in 0..31, NEW c \in 0..31
  PROVE  Reads("OR", <<a, b, c>>)
<1> DEFINE w == XForm(31, b, a, c, 444, 0)
<1>1. Encode("OR", <<a, b, c>>) = w
  BY EncodesSingles, SMT
<1>2. Opcode(w) = 31 /\ ReadReg(w, 1) = b /\ ReadReg(w, 2) = a /\ ReadReg(w, 3) = c /\ ReadXo(w) = 444 /\ Rc(w) = 0
  BY XFields, SMT DEF HasX
<1> HIDE DEF w
<1>3. print_instruction_at(w) = print31(w, 444)
  BY <1>2, Dispatch, SMT
<1>4. print_instruction_at(w) = print_X_switched_regreg_reg(w, "or")
  BY <1>3, Print31, Zenon
<1>5. CASE b = c
  <2>1. print_instruction_at(w) = Line("mr", 0, <<a, c>>)
    BY <1>2, <1>4, <1>5, SMT DEF print_X_switched_regreg_reg
  <2> QED
    BY <1>1, <1>5, <2>1, AssembledShort, SMT DEF Reads
<1>6. CASE b # c
  <2>1. print_instruction_at(w) = Line("or", 0, <<a, b, c>>)
    BY <1>2, <1>4, <1>6, SMT DEF print_X_switched_regreg_reg
  <2>2. PlainName("or") = "OR"
    BY SMT DEF PlainName, Plain
  <2>3. Assembled(Line("or", 0, <<a, b, c>>)) = Encode(PlainName("or"), <<a, b, c>>)
    BY AssembledPlain, Zenon
  <2> QED
    BY <1>1, <2>1, <2>2, <2>3 DEF Reads
<1> QED
  BY <1>5, <1>6

(* Field 0 is not printed, and is the one assumed when it is missing.       *)
LEMMA ReadsCompares ==
  ASSUME NEW f \in 0..7, NEW l \in 0..1, NEW a \in 0..31
  PROVE  /\ \A b \in 0..31 : Reads("cmp", <<f, l, a, b>>)
         /\ \A i \in SignedHalfword : Reads("cmpi", <<f, l, a, i>>)
<1>0. /\ f * 4 + l \in 0..31 /\ (f * 4 + l) \div 4 = f /\ (f * 4 + l) % 2 = l
  BY SMT
<1>1. ASSUME NEW b \in 0..31
      PROVE  Reads("cmp", <<f, l, a, b>>)
  <2> DEFINE w == XForm(31, f * 4 + l, a, b, 0, 0)
             n == IF l = 1 THEN "cmpd" ELSE "cmpw"
             o == IF f = 0 THEN <<a, b>> ELSE <<f, a, b>>
  <2>1. Encode("cmp", <<f, l, a, b>>) = w
    BY EncodesSingles, SMT
  <2>2. /\ Opcode(w) = 31 /\ ReadXo(w) = 0 /\ ReadReg(w, 2) = a /\ ReadReg(w, 3) = b
        /\ Read(w, 6, 3) = f /\ Read(w, 10, 1) = l
    BY <1>0, XFields, SMT DEF HasX
  <2> HIDE DEF w
  <2>3. print_instruction_at(w) = print31(w, 0)
    BY <2>2, Dispatch, SMT
  <2>4. print_instruction_at(w) = print_X_cmp(w, "cmp")
    BY <2>3, Print31, Zenon
  <2>5. print_instruction_at(w) = Line(n, 0, o)
    BY <2>2, <2>4, SMT DEF print_X_cmp, CompareLine
  <2>6. n \in DOMAIN Compares /\ Compares[n] = <<"cmp", l>>
    BY SMT DEF Compares
  <2> HIDE DEF n
  <2>8. f \in Nat
    BY SMT
  <2>7. Assembled(Line(n, 0, o)) = Encode(Compares[n][1], <<f, Compares[n][2], a, b>>)
    BY <2>6, <2>8, AssembledCompare, Zenon
  <2> QED
    BY <2>1, <2>5, <2>6, <2>7, SMT DEF Reads
<1>2. ASSUME NEW i \in SignedHalfword
      PROVE  Reads("cmpi", <<f, l, a, i>>)
  <2>9. i \in Int /\ -32768 <= i /\ i < 32768
    BY Immediates
  <2> DEFINE w == DForm(11, f * 4 + l, a, i)
             n == IF l = 1 THEN "cmpdi" ELSE "cmpwi"
             o == IF f = 0 THEN <<a, i>> ELSE <<f, a, i>>
  <2>1. Encode("cmpi", <<f, l, a, i>>) = w
    BY EncodesSingles, SMT
  <2>2. /\ Opcode(w) = 11 /\ ReadReg(w, 2) = a /\ ReadSigned(w, 16, 16) = i
        /\ Read(w, 6, 3) = f /\ Read(w, 10, 1) = l
    BY <1>0, <2>9, DFields, SMT DEF HasD
  <2> HIDE DEF w
  <2>3. print_instruction_at(w) = print_D_cmpi(w, "cmpi")
    BY <2>2, Dispatch, Zenon
  <2>5. print_instruction_at(w) = Line(n, 0, o)
    BY <2>2, <2>3, SMT DEF print_D_cmpi, CompareLine
  <2>6. n \in DOMAIN Compares /\ Compares[n] = <<"cmpi", l>>
    BY SMT DEF Compares
  <2> HIDE DEF n
  <2>8. f \in Nat
    BY SMT
  <2>7. Assembled(Line(n, 0, o)) = Encode(Compares[n][1], <<f, Compares[n][2], a, i>>)
    BY <2>6, <2>8, AssembledCompare, Zenon
  <2> QED
    BY <2>1, <2>5, <2>6, <2>7, SMT DEF Reads
<1> QED
  BY <1>1, <1>2

LEMMA ReadsSpecial ==
  ASSUME NEW a \in 0..31
  PROVE  /\ Reads("mfcr", <<a>>) /\ Reads("mtcrf", <<255, a>>)
         /\ \A s \in {8, 9} : Reads("mfspr", <<a, s>>) /\ Reads("mtspr", <<s, a>>)
         /\ Reads("isync", <<>>) /\ Reads("sync", <<>>)
<1>1. Reads("mfcr", <<a>>)
  <2> DEFINE w == XForm(31, a, 0, 0, 19, 0)
  <2>1. Encode("mfcr", <<a>>) = w /\ PlainName("mfcr") = "mfcr"
    BY EncodesSingles, SMT DEF PlainName, Plain
  <2>2. Opcode(w) = 31 /\ ReadXo(w) = 19 /\ ReadReg(w, 1) = a
    BY XFields, SMT DEF HasX
  <2> HIDE DEF w
  <2>3. print_instruction_at(w) = print31(w, 19)
    BY <2>2, Dispatch, SMT
  <2>4. print_instruction_at(w) = print_X_reg_res_res(w, "mfcr")
    BY <2>3, Print31, Zenon
  <2>5. print_instruction_at(w) = Line("mfcr", Rc(w), <<a>>)
    BY <2>2, <2>4 DEF print_X_reg_res_res
  <2>6. Assembled(Line("mfcr", Rc(w), <<a>>)) = Encode(PlainName("mfcr"), <<a>>)
    BY AssembledPlain, Zenon
  <2> QED
    BY <2>1, <2>5, <2>6 DEF Reads
<1>2. Reads("mtcrf", <<255, a>>)
  <2> DEFINE w == XForm(31, a, 15, 30, 144, 0)
  <2>1. Encode("mtcrf", <<255, a>>) = w
    BY EncodesSingles, SMT
  <2>2. Opcode(w) = 31 /\ ReadXo(w) = 144 /\ ReadReg(w, 1) = a /\ Read(w, 12, 4) = 15 /\ Read(w, 16, 4) = 15
    BY XFields, SMT DEF HasX
  <2> HIDE DEF w
  <2>3. print_instruction_at(w) = print31(w, 144)
    BY <2>2, Dispatch, SMT
  <2>4. print_instruction_at(w) = print_X_mtcrf(w, "mtcrf")
    BY <2>3, Print31, Zenon
  <2>5. print_instruction_at(w) = Line("mtcr", 0, <<a>>)
    BY <2>2, <2>4, SMT DEF print_X_mtcrf
  <2> QED
    BY <2>1, <2>5, AssembledShort, SMT DEF Reads
<1>3. ASSUME NEW s \in {8, 9}
      PROVE  Reads("mfspr", <<a, s>>) /\ Reads("mtspr", <<s, a>>)
  <2>1. ASSUME NEW n \in DOMAIN XoSpr, NEW o, Encode(n, o) = XForm(31, a, s, 0, XoSpr[n], 0)
        PROVE  print_instruction_at(Encode(n, o)) = LineOf(<<n, s>>, <<a>>)
    <3> DEFINE w == XForm(31, a, s, 0, XoSpr[n], 0)
    <3>1. XoSpr[n] \in Nat /\ XoSpr[n] < 1024 /\ n \in DOMAIN TableSpr /\ TableSpr[n] = XoSpr[n]
      BY SMT DEF XoSpr, TableSpr
    <3>2. s \in 0..31
      BY SMT
    <3>3. /\ Opcode(w) = 31 /\ ReadXo(w) = XoSpr[n] /\ ReadReg(w, 1) = a /\ ReadReg(w, 2) = s
          /\ ReadReg(w, 3) = 0
      BY <3>1, <3>2, XFields, SMT DEF HasX
    <3> HIDE DEF w
    <3>4. print_instruction_at(w) = print_X_mspr(w, n)
      BY <3>1, <3>3, Dispatch, Print31Table, SMT
    <3>5. print_instruction_at(w) = LineOf(<<n, s>>, <<a>>)
      BY <3>3, <3>4, SMT DEF print_X_mspr
    <3> QED
      BY <2>1, <3>5 DEF w
  <2>2. /\ Encode("mfspr", <<a, s>>) = XForm(31, a, s, 0, XoSpr["mfspr"], 0)
        /\ Encode("mtspr", <<s, a>>) = XForm(31, a, s, 0, XoSpr["mtspr"], 0)
        /\ "mfspr" \in DOMAIN XoSpr /\ "mtspr" \in DOMAIN XoSpr
    BY EncodesSingles, SMT DEF XoSpr
  <2>3. /\ Assembled(LineOf(<<"mfspr", s>>, <<a>>)) = Encode("mfspr", <<a, s>>)
        /\ Assembled(LineOf(<<"mtspr", s>>, <<a>>)) = Encode("mtspr", <<s, a>>)
    BY AssembledOthers, Zenon
  <2> QED
    BY <2>1, <2>2, <2>3, Zenon DEF Reads
<1>4. Reads("isync", <<>>)
  <2> DEFINE w == XForm(19, 0, 0, 0, 150, 0)
  <2>5. "isync" \in DOMAIN XoBarrier /\ XoBarrier["isync"][1] = 19 /\ XoBarrier["isync"][2] = 150
    BY SMT DEF XoBarrier
  <2>1. Encode("isync", <<>>) = w
    BY <2>5, EncodesTables, SMT
  <2>2. Opcode(w) = 19 /\ ReadXo(w) = 150
    BY XFields, SMT DEF HasX
  <2> HIDE DEF w
  <2>3. print_instruction_at(w) = Line("isync", 0, <<>>)
    BY <2>2, Dispatch, SMT DEF print_X_reserved
  <2>4. Assembled(Line("isync", 0, <<>>)) = Encode("isync", <<>>)
    BY AssembledOthers, Zenon
  <2> QED
    BY <2>1, <2>3, <2>4 DEF Reads
<1>5. Reads("sync", <<>>)
  <2> DEFINE w == XForm(31, 0, 0, 0, 598, 0)
  <2>6. "sync" \in DOMAIN XoBarrier /\ XoBarrier["sync"][1] = 31 /\ XoBarrier["sync"][2] = 598
    BY SMT DEF XoBarrier
  <2>7. \A n \in DOMAIN XoBarrier : Encode(n, <<>>) = XForm(XoBarrier[n][1], 0, 0, 0, XoBarrier[n][2], 0)
    BY EncodesTables, Zenon
  <2>1. Encode("sync", <<>>) = w
    BY <2>6, <2>7
  <2>2. Opcode(w) = 31 /\ ReadXo(w) = 598
    BY XFields, SMT DEF HasX
  <2> HIDE DEF w
  <2>3. print_instruction_at(w) = print31(w, 598)
    BY <2>2, Dispatch, SMT
  <2>4. print_instruction_at(w) = Line("sync", 0, <<>>)
    BY <2>3, Print31, ZenonT(40) DEF print_X_reserved
  <2>5. Assembled(Line("sync", 0, <<>>)) = Encode("sync", <<>>)
    BY AssembledOthers, Zenon
  <2> QED
    BY <2>1, <2>4, <2>5 DEF Reads
<1> QED
  BY <1>1, <1>2, <1>3, <1>4, <1>5

LEMMA ReadsBranchRegister ==
  /\ Reads("bcctrl", <<20, 0>>) /\ Reads("bclrl", <<20, 0>>)
  /\ \A o \in {<<20, 0>>, <<12, 2>>, <<4, 1>>} : Reads("bclr", o)
<1> DEFINE K == {"always", "eq", "le"}
           register(n) == IF XoBranch[n] = 16 THEN "lr" ELSE "ctr"
<1>1. ASSUME NEW n \in DOMAIN XoBranch, NEW k \in K
      PROVE  print_instruction_at(Encode(n, Condition[k])) = LineOf(<<"b", k, register(n), Link[n]>>, <<>>)
  <2> DEFINE bo == Condition[k][1]
             bi == Condition[k][2]
             w == XForm(19, bo, bi, 0, XoBranch[n], Link[n])
  <2>1. Encode(n, Condition[k]) = w
    BY EncodesTables, SMT
  <2>2. /\ k \in DOMAIN Condition /\ bo \in 0..31 /\ bi \in 0..31 /\ <<bo, bi % 4>> = Condition[k]
        /\ XoBranch[n] \in {16, 528} /\ Link[n] \in 0..1
    BY SMT DEF Condition, XoBranch, Link
  <2> HIDE DEF bo, bi
  <2>3. /\ Opcode(w) = 19 /\ ReadXo(w) = XoBranch[n] /\ Rc(w) = Link[n]
        /\ ReadReg(w, 1) = bo /\ ReadReg(w, 2) = bi
    BY <2>2, XFields, SMT DEF HasX
  <2> HIDE DEF w
  <2>4. print_instruction_at(w) = print_X_bcspr(w)
    BY <2>2, <2>3, Dispatch, SMT
  <2>5. Condition[k] \in Codes(Condition) /\ NameIn(Condition, Condition[k]) = k
    BY <2>2, Names, TablesInjective, Zenon
  <2>6. <<ReadReg(w, 1), ReadReg(w, 2) % 4>> = Condition[k]
    BY <2>2, <2>3
  <2>7. print_instruction_at(w) = LineOf(<<"b", k, register(n), Link[n]>>, <<>>)
    BY <2>3, <2>4, <2>5, <2>6, Zenon DEF print_X_bcspr
  <2> QED
    BY <2>1, <2>7
<1>2. "bcctrl" \in DOMAIN XoBranch /\ register("bcctrl") = "ctr" /\ Link["bcctrl"] = 1
  BY SMT DEF XoBranch, Link
<1>3. "bclr" \in DOMAIN XoBranch /\ register("bclr") = "lr" /\ Link["bclr"] = 0
  BY SMT DEF XoBranch, Link
<1>4. "bclrl" \in DOMAIN XoBranch /\ register("bclrl") = "lr" /\ Link["bclrl"] = 1
  BY SMT DEF XoBranch, Link
<1> HIDE DEF K, register
<1>5. \A k \in K :
        /\ print_instruction_at(Encode("bcctrl", Condition[k])) = LineOf(<<"b", k, "ctr", 1>>, <<>>)
        /\ print_instruction_at(Encode("bclr", Condition[k])) = LineOf(<<"b", k, "lr", 0>>, <<>>)
        /\ print_instruction_at(Encode("bclrl", Condition[k])) = LineOf(<<"b", k, "lr", 1>>, <<>>)
  <2> TAKE k \in K
  <2>4. \A n \in DOMAIN XoBranch :
          print_instruction_at(Encode(n, Condition[k])) = LineOf(<<"b", k, register(n), Link[n]>>, <<>>)
    BY <1>1
  <2>1. print_instruction_at(Encode("bcctrl", Condition[k])) = LineOf(<<"b", k, register("bcctrl"), Link["bcctrl"]>>, <<>>)
    BY <1>2, <2>4, Zenon
  <2>2. print_instruction_at(Encode("bclr", Condition[k])) = LineOf(<<"b", k, register("bclr"), Link["bclr"]>>, <<>>)
    BY <1>3, <2>4, Zenon
  <2>3. print_instruction_at(Encode("bclrl", Condition[k])) = LineOf(<<"b", k, register("bclrl"), Link["bclrl"]>>, <<>>)
    BY <1>4, <2>4, Zenon
  <2> QED
    BY <1>2, <1>3, <1>4, <2>1, <2>2, <2>3
<1>6. \A k \in K :
        /\ Reads("bcctrl", Condition[k]) /\ Reads("bclrl", Condition[k]) /\ Reads("bclr", Condition[k])
  BY <1>5, AssembledOthers, Zenon DEF Reads
<1>7. Condition["always"] = <<20, 0>> /\ Condition["eq"] = <<12, 2>> /\ Condition["le"] = <<4, 1>>
  BY SMT DEF Condition
<1> QED
  BY <1>6, <1>7, SMT DEF K

LEMMA ReadsBranches ==
  /\ \A d \in Int : -8388608 <= d /\ d < 8388608
       => Reads("b", <<BranchField(0, d, 24)>>) /\ Reads("bl", <<BranchField(0, d, 24)>>)
  /\ \A o \in Conditions : \A d \in Int : -8192 <= d /\ d < 8192
       => Reads("bc", <<o[1], o[2], BranchField(0, d, 14)>>)
  /\ Reads("bcl", <<20, 31, 1>>)
<1>1. ASSUME NEW d \in Int, -8388608 <= d, d < 8388608
      PROVE  Reads("b", <<BranchField(0, d, 24)>>) /\ Reads("bl", <<BranchField(0, d, 24)>>)
  <2> DEFINE c == BranchField(0, d, 24)
  <2>1. Encode("b", <<c>>) = IForm(c, 0) /\ Encode("bl", <<c>>) = IForm(c, 1)
    BY EncodesSingles, SMT
  <2>2. HasI(IForm(c, 0), d, 0) /\ HasI(IForm(c, 1), d, 1)
    BY <1>1, IFields, SMT
  <2> HIDE DEF c
  <2>3. /\ print_instruction_at(IForm(c, 0)) = LineOf(<<"b", "", "", 0>>, <<d>>)
        /\ print_instruction_at(IForm(c, 1)) = LineOf(<<"b", "", "", 1>>, <<d>>)
        /\ d % 2^24 = c
    <3>1. Opcode(IForm(c, 0)) = 18 /\ Opcode(IForm(c, 1)) = 18
      BY <2>2 DEF HasI
    <3>2. /\ print_instruction_at(IForm(c, 0)) = print_I_b(IForm(c, 0))
          /\ print_instruction_at(IForm(c, 1)) = print_I_b(IForm(c, 1))
      BY <3>1, Dispatch, Zenon
    <3> QED
      BY <2>2, <3>2, Zenon DEF HasI, print_I_b, c
  <2>4. /\ Assembled(LineOf(<<"b", "", "", 0>>, <<d>>)) = Encode("b", <<d % 2^24>>)
        /\ Assembled(LineOf(<<"b", "", "", 1>>, <<d>>)) = Encode("bl", <<d % 2^24>>)
    BY AssembledOthers, Zenon
  <2> QED
    BY <2>1, <2>3, <2>4, Zenon DEF Reads, c
<1>2. ASSUME NEW o \in Conditions, NEW d \in Int, -8192 <= d, d < 8192
      PROVE  Reads("bc", <<o[1], o[2], BranchField(0, d, 14)>>)
  <2> DEFINE c == BranchField(0, d, 14)
             w == BForm(o[1], o[2], c, 0)
  <2>1. Encode("bc", <<o[1], o[2], c>>) = w
    BY EncodesSingles, SMT
  <2>2. PICK k \in DOMAIN Condition : /\ Condition[k] = <<o[1], o[2] % 4>> /\ o[1] # 20
                                      /\ o[1] \in 0..31 /\ o[2] \in 0..31
                                      /\ Condition[k][1] = o[1] /\ Condition[k][2] + 4 * (o[2] \div 4) = o[2]
    <3>1. CASE o \in {<<16, 0>>, <<12, 2>>, <<4, 0>>, <<12, 1>>, <<4, 1>>, <<12, 0>>}
      BY <3>1, SMT DEF Condition
    <3>2. ASSUME NEW r \in CrFields, o = <<4, 4 * r + 2>>
          PROVE  /\ "ne" \in DOMAIN Condition /\ Condition["ne"] = <<o[1], o[2] % 4>> /\ o[1] # 20
                 /\ o[1] \in 0..31 /\ o[2] \in 0..31
                 /\ Condition["ne"][1] = o[1] /\ Condition["ne"][2] + 4 * (o[2] \div 4) = o[2]
      <4>1. r \in 0..7
        BY FieldsOfCalls
      <4>2. (4 * r + 2) % 4 = 2 /\ (4 * r + 2) \div 4 = r /\ 4 * r + 2 \in 0..31
        BY <4>1, SMT
      <4>3. o[1] = 4 /\ o[2] = 4 * r + 2
        BY <3>2
      <4>4. "ne" \in DOMAIN Condition /\ Condition["ne"] = <<4, 2>>
        BY SMT DEF Condition
      <4> QED
        BY <4>1, <4>2, <4>3, <4>4, SMT
    <3> QED
      BY <3>1, <3>2, Zenon DEF Conditions
  <2>3. HasB(w, o[1], o[2], d, 0)
    BY <1>2, <2>2, BFields, SMT
  <2>4. /\ Opcode(w) = 16 /\ ReadReg(w, 1) = o[1] /\ ReadReg(w, 2) = o[2]
        /\ ReadSigned(w, 16, 14) = d /\ Rc(w) = 0 /\ d % 2^14 = c
    BY <2>3 DEF HasB
  <2> HIDE DEF w, c
  <2>5. print_instruction_at(w) = print_B_bc(w)
    BY <2>4, Dispatch, Zenon
  <2>6. Condition[k] \in Codes(Condition) /\ NameIn(Condition, Condition[k]) = k
    BY Names, TablesInjective, Zenon
  <2>7. print_instruction_at(w) = LineOf(<<"b", k, "", 0>>, <<o[2] \div 4, d>>)
    BY <2>2, <2>4, <2>5, <2>6, Zenon DEF print_B_bc
  <2>8. Assembled(LineOf(<<"b", k, "", 0>>, <<o[2] \div 4, d>>))
          = BForm(Condition[k][1], Condition[k][2] + 4 * (o[2] \div 4), d % 2^14, 0)
    BY AssembledConditional, Zenon
  <2> QED
    BY <2>1, <2>2, <2>4, <2>7, <2>8, Zenon DEF Reads, w, c
<1>3. Reads("bcl", <<20, 31, 1>>)
  <2> DEFINE w == BForm(20, 31, 1, 1)
  <2>1. Encode("bcl", <<20, 31, 1>>) = w
    BY EncodesSingles, SMT
  <2>2. BranchField(0, 1, 14) = 1
    BY SMT DEF BranchField
  <2>3. HasB(w, 20, 31, 1, 1)
    BY <2>2, BFields, SMT
  <2> HIDE DEF w
  <2>5. /\ Opcode(w) = 16 /\ ReadReg(w, 1) = 20 /\ ReadReg(w, 2) = 31
        /\ ReadSigned(w, 16, 14) = 1 /\ Rc(w) = 1
    BY <2>3 DEF HasB
  <2>6. print_instruction_at(w) = print_B_bc(w)
    BY <2>5, Dispatch, Zenon
  <2>4. print_instruction_at(w) = Line("mpclr", 0, <<>>)
    BY <2>5, <2>6, SMT DEF print_B_bc
  <2>7. Assembled(Line("mpclr", 0, <<>>)) = Encode("bcl", <<20, 31, 1>>)
    BY AssembledShort, SMT
  <2> QED
    BY <2>1, <2>4, <2>7 DEF Reads
<1> QED
  BY <1>1, <1>2, <1>3, SMT

(* The shift by 64 - s or 32 - s of the right shifts is taken back to s.    *)
LEMMA ReadsShifts ==
  ASSUME NEW a \in 0..31, NEW b \in 0..31
  PROVE  /\ \A s \in 1..31 : Reads("rlwinm", <<a, b, s, 0, 31 - s>>) /\ Reads("rlwinm", <<a, b, 32 - s, s, 31>>)
         /\ \A s \in 1..63 : Reads("rldicr", <<a, b, s, 63 - s>>) /\ Reads("rldicl", <<a, b, 64 - s, s>>)
<1>1. ASSUME NEW s \in 1..31
      PROVE  Reads("rlwinm", <<a, b, s, 0, 31 - s>>)
  <2> DEFINE w == MForm(b, a, s, 0, 31 - s)
  <2>1. Encode("rlwinm", <<a, b, s, 0, 31 - s>>) = w
    BY EncodesSingles, SMT
  <2>2. HasM(w, b, a, s, 0, 31 - s)
    BY MFields, SMT
  <2> HIDE DEF w
  <2>3. print_instruction_at(w) = print_M(w)
    BY <2>2, Dispatch, SMT DEF HasM
  <2>4. print_instruction_at(w) = Line("slwi", 0, <<a, b, s>>)
    BY <2>2, <2>3, SMT DEF HasM, print_M
  <2> QED
    BY <2>1, <2>4, AssembledShort, SMT DEF Reads
<1>2. ASSUME NEW s \in 1..31
      PROVE  Reads("rlwinm", <<a, b, 32 - s, s, 31>>)
  <2> DEFINE w == MForm(b, a, 32 - s, s, 31)
  <2>1. Encode("rlwinm", <<a, b, 32 - s, s, 31>>) = w
    BY EncodesSingles, SMT
  <2>2. HasM(w, b, a, 32 - s, s, 31)
    BY MFields, SMT
  <2> HIDE DEF w
  <2>3. print_instruction_at(w) = print_M(w)
    BY <2>2, Dispatch, SMT DEF HasM
  <2>4. print_instruction_at(w) = Line("srwi", 0, <<a, b, s>>)
    BY <2>2, <2>3, SMT DEF HasM, print_M, SrwiCount
  <2> QED
    BY <2>1, <2>4, AssembledShort, SMT DEF Reads
<1>3. ASSUME NEW s \in 1..63
      PROVE  Reads("rldicr", <<a, b, s, 63 - s>>)
  <2> DEFINE w == MDForm(b, a, s, 63 - s, 1)
  <2>1. Encode("rldicr", <<a, b, s, 63 - s>>) = w
    BY EncodesSingles, SMT
  <2>2. HasMD(w, b, a, s, 63 - s, 1)
    BY MDFields, SMT
  <2> HIDE DEF w
  <2>3. print_instruction_at(w) = print_MD(w) /\ ExtendedOpcode(w) = 1
    BY <2>2, Dispatch, SMT DEF HasMD, ExtendedOpcode
  <2>4. print_instruction_at(w) = Line("sldi", 0, <<a, b, s>>)
    BY <2>2, <2>3, SMT DEF HasMD, print_MD
  <2> QED
    BY <2>1, <2>4, AssembledShort, SMT DEF Reads
<1>4. ASSUME NEW s \in 1..63
      PROVE  Reads("rldicl", <<a, b, 64 - s, s>>)
  <2> DEFINE w == MDForm(b, a, 64 - s, s, 0)
  <2>1. Encode("rldicl", <<a, b, 64 - s, s>>) = w
    BY EncodesSingles, SMT
  <2>2. HasMD(w, b, a, 64 - s, s, 0)
    BY MDFields, SMT
  <2> HIDE DEF w
  <2>3. print_instruction_at(w) = print_MD(w) /\ ExtendedOpcode(w) = 0
    BY <2>2, Dispatch, SMT DEF HasMD, ExtendedOpcode
  <2>4. print_instruction_at(w) = Line("srdi", 0, <<a, b, s>>)
    BY <2>2, <2>3, SMT DEF HasMD, print_MD
  <2> QED
    BY <2>1, <2>4, AssembledShort, SMT DEF Reads
<1> QED
  BY <1>1, <1>2, <1>3, <1>4

(* What PrintedIsTheInstruction asks of a call of the assembler.            *)
Printed(n, o) ==
  IF n = "stdx" THEN print_instruction_at(Encode(n, o)) = Line(".long", 0, <<Encode(n, o)>>) ELSE Reads(n, o)

(* Every call of a name in N with operands in O; every call in C.           *)
ArePrinted(N, O) == \A n \in N, o \in O : Printed(n, o) /\ n # "none"

AllPrinted(C) == \A c \in C : Printed(c[1], c[2]) /\ c[1] # "none"

LEMMA ProductsArePrinted ==
  \A N, O : ArePrinted(N, O) => AllPrinted(N \X O)
BY SMT DEF ArePrinted, AllPrinted

LEMMA UnionsArePrinted ==
  \A S, T : AllPrinted(S) /\ AllPrinted(T) => AllPrinted(S \cup T)
BY DEF AllPrinted

LEMMA TableCallsArePrinted == AllPrinted(TableCalls)
<1>1. ArePrinted(DOMAIN Xo3, R3)
  <2> SUFFICES ASSUME NEW n \in DOMAIN Xo3, NEW a \in Regs, NEW b \in Regs, NEW c \in Regs
               PROVE  Printed(n, <<a, b, c>>) /\ n # "none"
    BY SMT DEF R3, ArePrinted
  <2>1. n # "none" /\ a \in 0..31 /\ b \in 0..31 /\ c \in 0..31
    BY FieldsOfCalls, SMT DEF Xo3
  <2> QED
    BY <2>1, ReadsThree, StdxIsNotRead, Zenon DEF Printed
<1>2. ArePrinted(DOMAIN XoExtend \cup DOMAIN XoCache \cup {"neg", "fmr"}, R2)
  <2> SUFFICES ASSUME NEW n \in DOMAIN XoExtend \cup DOMAIN XoCache \cup {"neg", "fmr"}, NEW a \in Regs, NEW b \in Regs
               PROVE  Printed(n, <<a, b>>) /\ n # "none"
    BY SMT DEF R2, ArePrinted
  <2>1. n # "none" /\ n # "stdx" /\ a \in 0..31 /\ b \in 0..31
    BY FieldsOfCalls, SMT DEF XoExtend, XoCache
  <2> QED
    BY <2>1, ReadsTwo, Zenon DEF Printed
<1>3. ArePrinted(DOMAIN OpSigned \cup DOMAIN OpAddr, RI(Signed16))
  <2> SUFFICES ASSUME NEW n \in DOMAIN OpSigned \cup DOMAIN OpAddr, NEW a \in Regs, NEW b \in Regs, NEW i \in Signed16
               PROVE  Printed(n, <<a, b, i>>) /\ n # "none"
    BY SMT DEF RI, ArePrinted
  <2>1. n # "none" /\ n # "stdx" /\ a \in 0..31 /\ b \in 0..31
    BY FieldsOfCalls, SMT DEF OpSigned, OpAddr
  <2>2. i \in SignedHalfword
    BY FieldsOfCalls
  <2>3. Reads(n, <<a, b, i>>)
    BY <2>1, <2>2, ReadsSigned, ReadsAddresses, Zenon
  <2> QED
    BY <2>1, <2>3 DEF Printed
<1>4. ArePrinted(DOMAIN OpUnsigned, RI(Unsigned16))
  <2> SUFFICES ASSUME NEW n \in DOMAIN OpUnsigned, NEW a \in Regs, NEW b \in Regs, NEW i \in Unsigned16
               PROVE  Printed(n, <<a, b, i>>) /\ n # "none"
    BY SMT DEF RI, ArePrinted
  <2>1. n # "none" /\ n # "stdx" /\ a \in 0..31 /\ b \in 0..31
    BY FieldsOfCalls, SMT DEF OpUnsigned
  <2>2. i \in Halfword
    BY FieldsOfCalls
  <2>3. Reads(n, <<a, b, i>>)
    BY <2>1, <2>2, ReadsUnsigned, Zenon
  <2> QED
    BY <2>1, <2>3 DEF Printed
<1>5. ArePrinted(DOMAIN OpDS, RI(Doublewords))
  <2> SUFFICES ASSUME NEW n \in DOMAIN OpDS, NEW a \in Regs, NEW b \in Regs, NEW i \in Signed16, i % 4 = 0
               PROVE  Printed(n, <<a, b, i>>) /\ n # "none"
    BY SMT DEF RI, Doublewords, ArePrinted
  <2>1. n # "none" /\ n # "stdx" /\ a \in 0..31 /\ b \in 0..31
    BY FieldsOfCalls, SMT DEF OpDS
  <2>2. i \in SignedHalfword
    BY FieldsOfCalls
  <2>3. Reads(n, <<a, b, i>>)
    BY <2>1, <2>2, ReadsAddresses, Zenon
  <2> QED
    BY <2>1, <2>3 DEF Printed
<1> DEFINE S1 == (DOMAIN Xo3) \X R3
           S2 == (DOMAIN XoExtend \cup DOMAIN XoCache \cup {"neg", "fmr"}) \X R2
           S3 == (DOMAIN OpSigned \cup DOMAIN OpAddr) \X RI(Signed16)
           S4 == (DOMAIN OpUnsigned) \X RI(Unsigned16)
           S5 == (DOMAIN OpDS) \X RI(Doublewords)
<1>21. AllPrinted(S1)
  BY <1>1, ProductsArePrinted
<1>22. AllPrinted(S2)
  BY <1>2, ProductsArePrinted
<1>23. AllPrinted(S3)
  BY <1>3, ProductsArePrinted
<1>24. AllPrinted(S4)
  BY <1>4, ProductsArePrinted
<1>25. AllPrinted(S5)
  BY <1>5, ProductsArePrinted
<1>30. TableCalls = S1 \cup S2 \cup S3 \cup S4 \cup S5
  BY DEF TableCalls
<1> HIDE DEF S1, S2, S3, S4, S5
<1> QED
  BY <1>21, <1>22, <1>23, <1>24, <1>25, <1>30, Zenon DEF AllPrinted

LEMMA OtherCallsArePrinted == AllPrinted(OtherCalls)
<1>1. ArePrinted({"OR"}, R3)
  <2> SUFFICES ASSUME NEW a \in Regs, NEW b \in Regs, NEW c \in Regs
               PROVE  Printed("OR", <<a, b, c>>)
    BY SMT DEF R3, ArePrinted
  <2>1. a \in 0..31 /\ b \in 0..31 /\ c \in 0..31
    BY FieldsOfCalls
  <2> QED
    BY <2>1, ReadsMoves DEF Printed
<1>2. /\ ArePrinted({"cmp"}, Compared(Regs))
      /\ ArePrinted({"cmpi"}, Compared(Signed16))
  <2> SUFFICES ASSUME NEW f \in CrFields, NEW l \in {0, 1}, NEW a \in Regs
               PROVE  /\ \A b \in Regs : Printed("cmp", <<f, l, a, b>>)
                      /\ \A i \in Signed16 : Printed("cmpi", <<f, l, a, i>>)
    BY SMT DEF ArePrinted, Compared
  <2>1. f \in 0..7 /\ l \in 0..1 /\ a \in 0..31
    BY FieldsOfCalls, SMT
  <2>2. \A b \in Regs : b \in 0..31
    BY FieldsOfCalls
  <2>3. \A b \in Regs : Printed("cmp", <<f, l, a, b>>)
    BY <2>1, <2>2, ReadsCompares, Zenon DEF Printed
  <2>4. ASSUME NEW i \in Signed16 PROVE Printed("cmpi", <<f, l, a, i>>)
    <3>1. i \in SignedHalfword
      BY FieldsOfCalls
    <3>2. Reads("cmpi", <<f, l, a, i>>)
      BY <2>1, <3>1, ReadsCompares, Zenon
    <3> QED
      BY <3>2 DEF Printed
  <2> QED
    BY <2>3, <2>4
<1>3. ASSUME NEW a \in Regs
      PROVE  /\ Printed("mfcr", <<a>>) /\ Printed("mtcrf", <<255, a>>)
             /\ \A s \in {8, 9} : Printed("mfspr", <<a, s>>) /\ Printed("mtspr", <<s, a>>)
             /\ Printed("isync", <<>>) /\ Printed("sync", <<>>)
  <2>1. a \in 0..31
    BY FieldsOfCalls
  <2> QED
    BY <2>1, ReadsSpecial, Zenon DEF Printed
<1>4. BranchSpr = {8, 9}
  BY SMT DEF Spr, BranchSpr
<1>5. ArePrinted({"mfcr"}, {<<a>> : a \in Regs}) /\ ArePrinted({"mtcrf"}, {<<255, a>> : a \in Regs})
  <2>1. "mfcr" # "none" /\ "mtcrf" # "none"
    BY SMT
  <2> QED
    BY <1>3, <2>1, Zenon DEF ArePrinted
<1>6. ArePrinted({"mfspr"}, {<<a, s>> : a \in Regs, s \in BranchSpr})
  <2>1. \A a \in Regs, s \in BranchSpr : Printed("mfspr", <<a, s>>) /\ "mfspr" # "none"
    BY <1>3, <1>4, Zenon
  <2> QED
    BY <2>1, SMT DEF ArePrinted
<1>7. ArePrinted({"mtspr"}, {<<s, a>> : s \in BranchSpr, a \in Regs})
  <2>1. \A a \in Regs, s \in BranchSpr : Printed("mtspr", <<s, a>>) /\ "mtspr" # "none"
    BY <1>3, <1>4, Zenon
  <2> QED
    BY <2>1, SMT DEF ArePrinted
<1>8. ArePrinted(DOMAIN XoBarrier, {<<>>})
  <2>1. 0 \in 0..31
    BY SMT
  <2>2. Printed("isync", <<>>) /\ Printed("sync", <<>>)
    BY <2>1, ReadsSpecial, Zenon DEF Printed
  <2> QED
    BY <2>2, SMT DEF ArePrinted, XoBarrier
<1> DEFINE S1 == {"OR"} \X R3
           S2 == {"cmp"} \X Compared(Regs)
           S3 == {"cmpi"} \X Compared(Signed16)
           S4 == {"mfcr"} \X {<<a>> : a \in Regs}
           S5 == {"mtcrf"} \X {<<255, a>> : a \in Regs}
           S6 == {"mfspr"} \X {<<a, s>> : a \in Regs, s \in BranchSpr}
           S7 == {"mtspr"} \X {<<s, a>> : s \in BranchSpr, a \in Regs}
           S8 == (DOMAIN XoBarrier) \X {<<>>}
<1>21. AllPrinted(S1)
  BY <1>1, ProductsArePrinted
<1>22. AllPrinted(S2)
  BY <1>2, ProductsArePrinted
<1>23. AllPrinted(S3)
  BY <1>2, ProductsArePrinted
<1>24. AllPrinted(S4)
  BY <1>5, ProductsArePrinted
<1>25. AllPrinted(S5)
  BY <1>5, ProductsArePrinted
<1>26. AllPrinted(S6)
  BY <1>6, ProductsArePrinted
<1>27. AllPrinted(S7)
  BY <1>7, ProductsArePrinted
<1>28. AllPrinted(S8)
  BY <1>8, ProductsArePrinted
<1>30. OtherCalls = S1 \cup S2 \cup S3 \cup S4 \cup S5 \cup S6 \cup S7 \cup S8
  BY DEF OtherCalls
<1> HIDE DEF S1, S2, S3, S4, S5, S6, S7, S8
<1> QED
  BY <1>21, <1>22, <1>23, <1>24, <1>25, <1>26, <1>27, <1>28, <1>30, Zenon DEF AllPrinted

LEMMA BranchCallsArePrinted == AllPrinted(BranchCalls)
<1>1. ArePrinted({"bcctrl", "bclrl"}, {<<20, 0>>}) /\ ArePrinted({"bclr"}, {<<20, 0>>, <<12, 2>>, <<4, 1>>})
  BY ReadsBranchRegister, SMT DEF Printed, ArePrinted
<1>2. ArePrinted({"bc"}, {<<o[1], o[2], BranchField(0, d, 14)>> : o \in Conditions, d \in ShortBranches})
  <2>1. \A d \in ShortBranches : d \in Int /\ -8192 <= d /\ d < 8192
    BY Displacements, FieldAssumption
  <2>2. \A o \in Conditions, d \in ShortBranches : Reads("bc", <<o[1], o[2], BranchField(0, d, 14)>>)
    BY <2>1, ReadsBranches, SMT
  <2> QED
    BY <2>2, SMT DEF Printed, ArePrinted
<1>3. ArePrinted({"bcl"}, {<<20, 31, 1>>})
  BY ReadsBranches, SMT DEF Printed, ArePrinted
<1>4. ArePrinted({"b", "bl"}, {<<BranchField(0, d, 24)>> : d \in LongBranches})
  <2>1. \A d \in LongBranches : d \in Int /\ -8388608 <= d /\ d < 8388608
    BY Displacements, FieldAssumption
  <2>2. \A d \in LongBranches : Reads("b", <<BranchField(0, d, 24)>>) /\ Reads("bl", <<BranchField(0, d, 24)>>)
    BY <2>1, ReadsBranches, SMT
  <2> QED
    BY <2>2, SMT DEF Printed, ArePrinted
<1> DEFINE S1 == {"bcctrl", "bclrl"} \X {<<20, 0>>}
           S2 == {"bclr"} \X {<<20, 0>>, <<12, 2>>, <<4, 1>>}
           S3 == {"bc"} \X {<<o[1], o[2], BranchField(0, d, 14)>> : o \in Conditions, d \in ShortBranches}
           S4 == {"bcl"} \X {<<20, 31, 1>>}
           S5 == {"b", "bl"} \X {<<BranchField(0, d, 24)>> : d \in LongBranches}
<1>21. AllPrinted(S1)
  BY <1>1, ProductsArePrinted
<1>22. AllPrinted(S2)
  BY <1>1, ProductsArePrinted
<1>23. AllPrinted(S3)
  BY <1>2, ProductsArePrinted
<1>24. AllPrinted(S4)
  BY <1>3, ProductsArePrinted
<1>25. AllPrinted(S5)
  BY <1>4, ProductsArePrinted
<1>30. BranchCalls = S1 \cup S2 \cup S3 \cup S4 \cup S5
  BY DEF BranchCalls
<1> HIDE DEF S1, S2, S3, S4, S5
<1> QED
  BY <1>21, <1>22, <1>23, <1>24, <1>25, <1>30, Zenon DEF AllPrinted

LEMMA ShiftCallsArePrinted == AllPrinted(ShiftCalls)
<1>1. /\ \A s \in LongShifts : s \in 1..63
      /\ \A r \in Regs : r \in 0..31
      /\ \A s \in Shifts : s \in 1..31
  BY FieldsOfCalls, SMT
<1>2. \A a \in Regs, b \in Regs, s \in Shifts : Reads("rlwinm", slwi(a, b, s)) /\ Reads("rlwinm", srwi(a, b, s))
  BY <1>1, ReadsShifts, Zenon DEF slwi, srwi
<1>3. \A a \in Regs, b \in Regs, s \in LongShifts : Reads("rldicr", sldi(a, b, s)) /\ Reads("rldicl", srdi(a, b, s))
  BY <1>1, ReadsShifts, Zenon DEF sldi, srdi
<1>4. ArePrinted({"rlwinm"}, Shifted(slwi, Shifts) \cup Shifted(srwi, Shifts))
  BY <1>2, SMT DEF Printed, ArePrinted, Shifted
<1>5. ArePrinted({"rldicr"}, Shifted(sldi, LongShifts))
  BY <1>3, SMT DEF Printed, ArePrinted, Shifted
<1>6. ArePrinted({"rldicl"}, Shifted(srdi, LongShifts))
  BY <1>3, SMT DEF Printed, ArePrinted, Shifted
<1> DEFINE S1 == {"rlwinm"} \X (Shifted(slwi, Shifts) \cup Shifted(srwi, Shifts))
           S2 == {"rldicr"} \X Shifted(sldi, LongShifts)
           S3 == {"rldicl"} \X Shifted(srdi, LongShifts)
<1>21. AllPrinted(S1)
  BY <1>4, ProductsArePrinted
<1>22. AllPrinted(S2)
  BY <1>5, ProductsArePrinted
<1>23. AllPrinted(S3)
  BY <1>6, ProductsArePrinted
<1>30. ShiftCalls = S1 \cup S2 \cup S3
  BY DEF ShiftCalls
<1> HIDE DEF S1, S2, S3
<1> QED
  BY <1>21, <1>22, <1>23, <1>30, Zenon DEF AllPrinted

LEMMA CallsArePrinted == AllPrinted(Calls)
BY TableCallsArePrinted, OtherCallsArePrinted, BranchCallsArePrinted, ShiftCallsArePrinted, UnionsArePrinted DEF Calls

(* The inductive invariant: the word is what the call emits, and what was   *)
(* printed is what the printers make of the word.                           *)
DisassemblerInv ==
  /\ call = <<"none", <<>>>> \/ (call \in Calls /\ word = Encode(call[1], call[2]))
  /\ text = Line("none", 0, <<>>) \/ (call \in Calls /\ text = print_instruction_at(word))

(* What Disassembler::decode prints for an instruction the assembler can    *)
(* emit, with any registers, immediates and displacements that fit its      *)
(* fields, is that instruction: read back as assembler input it gives the   *)
(* same word, and stdx alone is printed as a number                         *)
(* (disassembler_CPU.cpp:31-652, assembler_CPU.cpp:40-590).                 *)
THEOREM InstructionsAreReadBack == DisassemblerSpec => []PrintedIsTheInstruction
<1> DEFINE vars == <<call, word, code, labels, constant, loaded, passed, text>>
<1>1. DisassemblerInit => DisassemblerInv
  BY Zenon DEF DisassemblerInit, AssemblerInit, DisassemblerInv
<1>2. DisassemblerInv /\ [DisassemblerNext]_vars => DisassemblerInv'
  <2> SUFFICES ASSUME DisassemblerInv, [DisassemblerNext]_vars
               PROVE  DisassemblerInv'
    OBVIOUS
  <2>1. CASE call[1] = "none" /\ Emit /\ UNCHANGED text
    <3>1. call' \in Calls /\ word' = Encode(call'[1], call'[2]) /\ text' = text
      BY <2>1 DEF Emit
    <3>2. call \notin Calls
      BY <2>1, CallsArePrinted DEF AllPrinted
    <3>3. text = Line("none", 0, <<>>)
      BY <3>2 DEF DisassemblerInv
    <3> QED
      BY <3>1, <3>3, Zenon DEF DisassemblerInv
  <2>2. CASE Decode
    <3>1. call \in Calls /\ word = Encode(call[1], call[2])
      BY <2>2, SMT DEF Decode, DisassemblerInv
    <3>2. call' = call /\ word' = word /\ text' = print_instruction_at(word)
      BY <2>2 DEF Decode
    <3> QED
      BY <3>1, <3>2, Zenon DEF DisassemblerInv
  <2>3. CASE UNCHANGED vars
    BY <2>3 DEF DisassemblerInv
  <2> QED
    BY <2>1, <2>2, <2>3 DEF DisassemblerNext
<1>3. DisassemblerInv => PrintedIsTheInstruction
  <2> SUFFICES ASSUME DisassemblerInv, text.m # <<"none">>
               PROVE  IF call[1] = "stdx" THEN text = Line(".long", 0, <<word>>) ELSE Assembled(text) = word
    BY DEF PrintedIsTheInstruction
  <2>1. text # Line("none", 0, <<>>)
    BY DEF Line
  <2>2. call \in Calls /\ text = print_instruction_at(word)
    BY <2>1 DEF DisassemblerInv
  <2>3. Printed(call[1], call[2]) /\ call[1] # "none"
    BY <2>2, CallsArePrinted DEF AllPrinted
  <2>4. word = Encode(call[1], call[2])
    BY <2>3, SMT DEF DisassemblerInv
  <2> QED
    BY <2>2, <2>3, <2>4, Zenon DEF Printed, Reads
<1> QED
  BY <1>1, <1>2, <1>3, PTL DEF DisassemblerSpec
=============================================================================
