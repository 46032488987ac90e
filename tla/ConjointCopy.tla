---------------------------- MODULE ConjointCopy ----------------------------
(***************************************************************************)
(* Copying and filling words of the heap: the assembler loops              *)
(* _Copy_conjoint_jints_atomic and _Copy_conjoint_jlongs_atomic, whose     *)
(* source and destination may overlap, and pd_disjoint_words_atomic and    *)
(* pd_fill_to_words, written in C++.  Addresses, sizes and indices are in  *)
(* elements; the loops count bytes.                                        *)
(***************************************************************************)
EXTENDS Integers

CONSTANTS HeapBase, HeapSize, \* the elements' addresses
          SignBit             \* first address cmpw and cmpd take for negative

ASSUME HeapAssumption == HeapBase \in Nat /\ HeapSize \in Nat /\ SignBit \in Nat

VARIABLES heap,      \* what the elements hold
          at,        \* where the call stands
          src, dst, count,
          index,     \* r6, or r5 on its way down
          r0,
          before     \* heap when the routine was called

copyVars == <<heap, at, src, dst, count, index, r0, before>>

Addresses == HeapBase..HeapBase + HeapSize - 1
Block(from, n) == from..from + n - 1
Overlap(from, to, n) == Block(from, n) \cap Block(to, n) # {}

\* What a fill writes; no element of the heap holds it before.
Filler == -1

\* Every element holds its own address: a copy treats all values alike.
CopyInit ==
  /\ heap = [a \in Addresses |-> a]
  /\ at = "idle"
  /\ src = HeapBase /\ dst = HeapBase /\ count = 0 /\ index = 0 /\ r0 = 0
  /\ before = heap

Called(from, to, n) ==
  /\ at = "idle"
  /\ Block(from, n) \subseteq Addresses /\ Block(to, n) \subseteq Addresses
  /\ src' = from /\ dst' = to /\ count' = n /\ before' = heap

\* The operands the wrong way round.
MutNotAbove(a, b) == b <= a

\* cmpw, cmpd: pointers are compared as signed numbers.
NotAbove(a, b) == IF (a < SignBit) = (b < SignBit) THEN a <= b ELSE b < SignBit

\* The head of both routines: which way to go.
CallConjoint(from, to, n) ==
  /\ Called(from, to, n)
  /\ IF NotAbove(from, to)
     THEN at' = "rightToLeft" /\ index' = n
     ELSE at' = "leftToRight" /\ index' = 0
  /\ UNCHANGED <<heap, r0>>

\* lwzx, ldx
LoadElement(i) == r0' = heap[src + i]
\* stwx, stdx
StoreElement(i, v) == heap' = [heap EXCEPT ![dst + i] = v]

\* Labels 2 and 1.
LeftToRight ==
  /\ at = "leftToRight"
  /\ IF index < count THEN LoadElement(index) /\ at' = "storeRight" ELSE at' = "done" /\ UNCHANGED r0
  /\ UNCHANGED <<heap, src, dst, count, index, before>>

StoreRight ==
  /\ at = "storeRight"
  /\ StoreElement(index, r0)
  /\ index' = index + 1
  /\ at' = "leftToRight"
  /\ UNCHANGED <<src, dst, count, r0, before>>

\* Labels 3 and cla_RightToLeft.
RightToLeft ==
  /\ at = "rightToLeft"
  /\ IF index > 0
     THEN index' = index - 1 /\ LoadElement(index - 1) /\ at' = "storeLeft"
     ELSE at' = "done" /\ UNCHANGED <<index, r0>>
  /\ UNCHANGED <<heap, src, dst, count, before>>

StoreLeft ==
  /\ at = "storeLeft"
  /\ StoreElement(index, r0)
  /\ at' = "rightToLeft"
  /\ UNCHANGED <<src, dst, count, index, r0, before>>

\* pd_disjoint_words and pd_disjoint_words_atomic: the cases of the switch fall
\* through, from the last word down; more words go up in a loop (or memcpy).
Unrolled == 8
CallDisjoint(from, to, n) ==
  /\ Called(from, to, n)
  /\ ~Overlap(from, to, n)
  /\ IF n <= Unrolled THEN at' = "rightToLeft" /\ index' = n ELSE at' = "leftToRight" /\ index' = 0
  /\ UNCHANGED <<heap, r0>>

\* pd_fill_to_words, pd_zero_to_words
CallFill(to, n) ==
  /\ Called(to, to, n)
  /\ at' = "filling" /\ index' = 0
  /\ UNCHANGED <<heap, r0>>

Fill ==
  /\ at = "filling"
  /\ IF index < count
     THEN StoreElement(index, Filler) /\ index' = index + 1 /\ UNCHANGED at
     ELSE at' = "filled" /\ UNCHANGED <<heap, index>>
  /\ UNCHANGED <<src, dst, count, r0, before>>

CopyNext ==
  \/ \E from, to \in Addresses, n \in 0..HeapSize :
       CallConjoint(from, to, n) \/ CallDisjoint(from, to, n)
  \/ \E to \in Addresses, n \in 0..HeapSize : CallFill(to, n)
  \/ LeftToRight \/ StoreRight \/ RightToLeft \/ StoreLeft \/ Fill

CopySpec == CopyInit /\ [][CopyNext]_copyVars

-----------------------------------------------------------------------------
(* Properties. *)

\* What memmove would leave behind.
Memmoved == [a \in Addresses |-> IF a \in Block(dst, count) THEN before[a - dst + src] ELSE before[a]]
Filled == [a \in Addresses |-> IF a \in Block(dst, count) THEN Filler ELSE before[a]]

\* A copy leaves in the destination what the source held when it began, however
\* the two overlap, and touches nothing else; and while it runs every element
\* holds its old or its new value, which is what a collector or another thread
\* that looks at an array of references may see (linux_ppc.s:57-76,
\* linux_ppc64.s:77-96, copy_CPU.hpp:49-68, 138-150).
CopyMoves ==
  /\ at = "done" => heap = Memmoved
  /\ at = "filled" => heap = Filled
  /\ at \notin {"idle", "filling", "filled"} => \A a \in Addresses : heap[a] \in {before[a], Memmoved[a]}

\* The heap lies on one side of the sign bit.
OneSided == HeapBase + HeapSize <= SignBit \/ SignBit <= HeapBase
=============================================================================
