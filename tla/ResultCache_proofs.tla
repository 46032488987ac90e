------------------------ MODULE ResultCache_proofs -------------------------
(***************************************************************************)
(* Theorems about ResultCache, for all sets of clients and tests. Those    *)
(* about the file assume, if clients may crash, that there are at most two *)
(* (all living clients have the same file open then: of three, one that    *)
(* has waited for a dead one can break the lock of another).               *)
(***************************************************************************)
EXTENDS ResultCache, FiniteSetTheorems, WellFoundedInduction, TLAPS

-----------------------------------------------------------------------------
(* Files and maps.                                                         *)

(* A nonempty set of positions of a sequence has a last element.           *)
LEMMA LastPosition ==
  ASSUME NEW n \in Nat, NEW P \in SUBSET (1 .. n), P # {}
  PROVE  \E i \in P : \A j \in P : j <= i
<1> DEFINE Q == {n - i : i \in P}
<1>1. Q \subseteq Nat /\ Q # {}
  <2>1. Q \subseteq Nat
    OBVIOUS
  <2>2. \E i \in P : n - i \in Q
    OBVIOUS
  <2> QED
    BY <2>1, <2>2
<1>2. PICK x \in Q : \A y \in Q : ~(<<y, x>> \in OpToRel(<, Nat))
  BY <1>1, NatLessThanWellFounded, WFMin
<1>3. \A y \in Q : ~(y < x)
  BY <1>1, <1>2 DEF OpToRel
<1>4. PICK i \in P : x = n - i
  BY DEF Q
<1>5. ASSUME NEW j \in P PROVE j <= i
  <2>1. n - j \in Q
    OBVIOUS
  <2>2. ~(n - j < n - i)
    BY <1>3, <1>4, <2>1
  <2> QED
    BY <2>2
<1> QED
  BY <1>5

(* Every unit of a file is an entry, the header or junk.                   *)
LEMMA LatestType ==
  ASSUME CacheAssumption, NEW us \in Seq(Unit)
  PROVE  /\ Latest(us) \in [Tests -> 0 .. MaxRuns]
         /\ \A t \in Tests : Latest(us)[t] # 0 <=> t \in Tested(us)
<1>1. ASSUME NEW t \in Tests
      PROVE  /\ Latest(us)[t] \in 0 .. MaxRuns
             /\ Latest(us)[t] # 0 <=> t \in Tested(us)
  <2> DEFINE at == {i \in 1 .. Len(us) : us[i].test = t}
  <2>1. t # None
    BY CacheAssumption DEF CacheAssumption
  <2>2. at = {} <=> t \notin Tested(us)
    BY <2>1 DEF Tested
  <2>3. CASE at = {}
    BY <2>2, <2>3, CacheAssumption DEF Latest, CacheAssumption
  <2>4. CASE at # {}
    <3> DEFINE i == CHOOSE i \in at : \A j \in at : j <= i
    <3>1. at \in SUBSET (1 .. Len(us)) /\ Len(us) \in Nat
      OBVIOUS
    <3>2. \E k \in at : \A j \in at : j <= k
      BY <2>4, <3>1, LastPosition
    <3>3. i \in at
      BY <3>2
    <3>4. us[i] \in Unit /\ us[i].test = t
      BY <3>1, <3>3
    <3>5. us[i].ver \in 1 .. MaxRuns
      BY <2>1, <3>4 DEF Unit, Entry, Header, Junk
    <3>6. Latest(us)[t] = us[i].ver
      BY <2>4 DEF Latest
    <3> QED
      BY <2>2, <2>4, <3>5, <3>6, CacheAssumption DEF CacheAssumption
  <2> QED
    BY <2>3, <2>4
<1> QED
  BY <1>1 DEF Latest

(* A map keeps its tests when a queue is put over it, and gets the queue's. *)
LEMMA MergedType ==
  ASSUME CacheAssumption, NEW m \in [Tests -> 0 .. MaxRuns],
         NEW q \in Seq(Entry)
  PROVE  /\ Merged(m, q) \in [Tests -> 0 .. MaxRuns]
         /\ \A t \in Tests :
              m[t] # 0 \/ t \in Tested(q) => Merged(m, q)[t] # 0
<1>1. q \in Seq(Unit)
  BY DEF Unit
<1>2. /\ Latest(q) \in [Tests -> 0 .. MaxRuns]
      /\ \A t \in Tests : Latest(q)[t] # 0 <=> t \in Tested(q)
  BY <1>1, CacheAssumption, LatestType
<1> QED
  BY <1>2 DEF Merged

(* A listing of a map has an entry of every test of the map.               *)
LEMMA ListingType ==
  ASSUME CacheAssumption, NEW m \in [Tests -> 0 .. MaxRuns]
  PROVE  /\ Listing(m) \in Seq(Unit) /\ Listing(m) # <<>>
         /\ \A t \in Tests : m[t] # 0 => t \in Tested(Listing(m))
<1> DEFINE S == {e \in Entry : m[e.test] = e.ver}
           P == {t \in Tests : m[t] # 0}
           g == [t \in P |-> [test |-> t, ver |-> m[t]]]
           s == SetToSeq(S)
<1>1. IsFiniteSet(S)
  <2>1. IsFiniteSet(P)
    BY CacheAssumption, FS_Subset DEF CacheAssumption
  <2>2. \A t \in P : g[t] \in S
    BY CacheAssumption DEF Entry, CacheAssumption
  <2>3. \A e \in S : e.test \in P /\ g[e.test] = e
    BY CacheAssumption DEF Entry, CacheAssumption
  <2>4. g \in Surjection(P, S)
    <3>1. g \in [P -> S]
      BY <2>2
    <3>2. \A e \in S : \E t \in P : g[t] = e
      BY <2>3
    <3> QED
      BY <3>1, <3>2 DEF Surjection
  <2> QED
    BY <2>1, <2>4, FS_Surjection
<1>2. s \in [1 .. Cardinality(S) -> S] /\ IsInjective(s)
  <2>1. ExistsBijection(1 .. Cardinality(S), S)
    BY <1>1, FS_CardinalityType
  <2>2. \E f \in [1 .. Cardinality(S) -> S] : IsInjective(f)
    BY <2>1 DEF ExistsBijection, Bijection, Injection
  <2> QED
    BY <2>2 DEF SetToSeq
<1>3. Cardinality(S) \in Nat
  BY <1>1, FS_CardinalityType
<1>4. \A e \in S : \E i \in 1 .. Cardinality(S) : s[i] = e
  <2>1. s \in Injection(1 .. Cardinality(S), S)
    BY <1>2 DEF Injection
  <2>2. Cardinality(1 .. Cardinality(S)) = Cardinality(S)
    BY <1>3, FS_Interval
  <2>3. s \in Surjection(1 .. Cardinality(S), S)
    BY <1>1, <2>1, <2>2, FS_Injection
  <2> QED
    BY <2>3 DEF Surjection
<1>5. s \in Seq(Entry) /\ Len(s) = Cardinality(S)
  BY <1>2, <1>3
<1>6. /\ Listing(m) = <<Header>> \o s
      /\ Len(Listing(m)) = Cardinality(S) + 1
      /\ \A i \in 1 .. Cardinality(S) : Listing(m)[i + 1] = s[i]
  <2>1. Listing(m) = <<Header>> \o s
    BY DEF Listing
  <2>2. s \in Seq(Unit) /\ <<Header>> \in Seq(Unit) /\ Len(<<Header>>) = 1
    BY <1>5 DEF Unit
  <2>3. Len(<<Header>> \o s) = Cardinality(S) + 1
    BY <1>3, <1>5, <2>2
  <2>4. ASSUME NEW i \in 1 .. Cardinality(S)
        PROVE  (<<Header>> \o s)[i + 1] = s[i]
    BY <1>3, <1>5, <2>2
  <2> QED
    BY <2>1, <2>3, <2>4
<1>7. Listing(m) \in Seq(Unit) /\ Listing(m) # <<>>
  BY <1>3, <1>5, <1>6 DEF Unit
<1>8. ASSUME NEW t \in Tests, m[t] # 0
      PROVE  t \in Tested(Listing(m))
  <2> DEFINE e == [test |-> t, ver |-> m[t]]
  <2>1. e \in S
    BY <1>8, CacheAssumption DEF Entry, CacheAssumption
  <2>2. PICK i \in 1 .. Cardinality(S) : s[i] = e
    BY <1>4, <2>1
  <2>3. i + 1 \in 1 .. Len(Listing(m)) /\ Listing(m)[i + 1] = e
    BY <1>3, <1>6, <2>2
  <2>4. e.test = t /\ t # None
    BY CacheAssumption DEF CacheAssumption
  <2> QED
    BY <2>3, <2>4 DEF Tested
<1> QED
  BY <1>7, <1>8

(* Putting a file and more units together loses no test.                   *)
LEMMA TestedConcat ==
  ASSUME NEW a \in Seq(Unit), NEW b \in Seq(Unit)
  PROVE  /\ a \o b \in Seq(Unit)
         /\ Tested(a) \subseteq Tested(a \o b)
         /\ Tested(b) \subseteq Tested(a \o b)
<1>1. a \o b \in Seq(Unit) /\ Len(a \o b) = Len(a) + Len(b)
  OBVIOUS
<1>2. \A i \in 1 .. Len(a) : i \in 1 .. Len(a \o b) /\ (a \o b)[i] = a[i]
  BY <1>1
<1>3. ASSUME NEW i \in 1 .. Len(b)
      PROVE  Len(a) + i \in 1 .. Len(a \o b) /\ (a \o b)[Len(a) + i] = b[i]
  BY <1>1
<1> QED
  BY <1>1, <1>2, <1>3 DEF Tested

(* The tests of a prefix are tests of the file.                            *)
LEMMA TestedPrefix ==
  ASSUME NEW f \in Seq(Unit), NEW us \in Seq(Unit), IsPrefix(us, f)
  PROVE  Tested(us) \subseteq Tested(f)
<1>1. Len(us) <= Len(f) /\ Len(us) \in Nat /\ Len(f) \in Nat
  BY DEF IsPrefix
<1>2. ASSUME NEW i \in 1 .. Len(us)
      PROVE  i \in 1 .. Len(f) /\ us[i] = f[i]
  <2>1. SubSeq(us, 1, Len(us))[i] = us[i]
    BY <1>1
  <2>2. SubSeq(f, 1, Len(us))[i] = f[i]
    BY <1>1
  <2> QED
    BY <1>1, <2>1, <2>2 DEF IsPrefix
<1> QED
  BY <1>2 DEF Tested

(* A file whose beginning was replaced is a sequence of units, and has the *)
(* new ones.                                                               *)
LEMMA OverType ==
  ASSUME NEW f \in Seq(Unit), NEW us \in Seq(Unit), NEW g \in Over(f, us)
  PROVE  /\ g \in Seq(Unit) /\ Tested(us) \subseteq Tested(g)
         /\ us # <<>> => g # <<>>
<1>1. ASSUME NEW i \in 1 .. Len(f)
      PROVE  SubSeq(f, i + 1, Len(f)) \in Seq(Unit)
  <2>1. i + 1 \in Nat /\ Len(f) \in Nat /\ i + 1 >= 1
    OBVIOUS
  <2> QED
    BY <2>1
<1>2. <<Junk>> \in Seq(Unit)
  BY DEF Unit
<1>3. CASE IsPrefix(us, f) /\ g = f
  <2>1. us # <<>> => f # <<>>
    BY <1>3 DEF IsPrefix
  <2> QED
    BY <1>3, <2>1, TestedPrefix
<1>4. CASE g = us
  BY <1>4
<1>5. ASSUME NEW rest \in Seq(Unit), g = us \o rest
      PROVE  /\ g \in Seq(Unit) /\ Tested(us) \subseteq Tested(g)
             /\ us # <<>> => g # <<>>
  <2>1. Len(g) = Len(us) + Len(rest)
    BY <1>5
  <2>2. us # <<>> => g # <<>>
    BY <2>1
  <2> QED
    BY <1>5, <2>2, TestedConcat
<1>6. \/ IsPrefix(us, f) /\ g = f
      \/ g = us
      \/ g = us \o <<Junk>>
      \/ \E i \in 1 .. Len(f) : g = us \o SubSeq(f, i + 1, Len(f))
  BY DEF Over
<1> QED
  BY <1>1, <1>2, <1>3, <1>4, <1>5, <1>6

(* Writing units at a position gives a file of units.                      *)
LEMMA OverwrittenType ==
  ASSUME NEW f \in Seq(Unit), NEW at \in Nat, NEW us \in Seq(Unit),
         NEW g \in Overwritten(f, at, us)
  PROVE  g \in Seq(Unit)
<1> DEFINE start == IF at <= Len(f) THEN SubSeq(f, 1, at) ELSE Append(f, Junk)
<1>1. Junk \in Unit
  BY DEF Unit
<1>2. start \in Seq(Unit)
  <2>1. CASE at <= Len(f)
    BY <2>1
  <2>2. CASE ~(at <= Len(f))
    BY <1>1, <2>2
  <2> QED
    BY <2>1, <2>2
<1>3. start \o us \in Seq(Unit)
  BY <1>2, TestedConcat
<1>4. g \in Over(f, start \o us)
  BY DEF Overwritten
<1> QED
  BY <1>3, <1>4, OverType

(* Writing units from the start leaves at least these units.               *)
LEMMA OverwrittenFromStart ==
  ASSUME NEW f \in Seq(Unit), NEW us \in Seq(Unit),
         NEW g \in Overwritten(f, 0, us)
  PROVE  Tested(us) \subseteq Tested(g) /\ (us # <<>> => g # <<>>)
<1>1. SubSeq(f, 1, 0) \o us = us /\ 0 <= Len(f)
  <2>1. SubSeq(f, 1, 0) = <<>>
    OBVIOUS
  <2> QED
    BY <2>1
<1>2. g \in Over(f, us)
  BY <1>1 DEF Overwritten
<1> QED
  BY <1>2, OverType

(* Writing units to the end of a file appends them.                        *)
LEMMA OverwrittenAtEnd ==
  ASSUME NEW f \in Seq(Unit), NEW us \in Seq(Unit),
         NEW g \in Overwritten(f, Len(f), us)
  PROVE  g = f \o us
<1> DEFINE head == f \o us
<1>1. SubSeq(f, 1, Len(f)) = f
  OBVIOUS
<1>2. Len(f) \in Nat /\ Len(head) = Len(f) + Len(us) /\ Len(us) \in Nat
  OBVIOUS
<1>3. IsPrefix(f, head)
  <2>1. SubSeq(head, 1, Len(f)) = f
    BY <1>2
  <2> QED
    BY <1>1, <1>2, <2>1 DEF IsPrefix
<1>4. g \in Over(f, head)
  <2>1. Len(f) <= Len(f)
    BY <1>2
  <2>2. Overwritten(f, Len(f), us) = Over(f, SubSeq(f, 1, Len(f)) \o us)
    BY <2>1, Zenon DEF Overwritten
  <2> QED
    BY <1>1, <2>2
<1>5. CASE IsPrefix(head, f)
  <2>1. g = f
    BY <1>4, <1>5 DEF Over
  <2>2. Len(us) = 0
    BY <1>2, <1>5 DEF IsPrefix
  <2>3. us = <<>>
    BY <2>2
  <2> QED
    BY <2>1, <2>3
<1>6. CASE ~IsPrefix(head, f)
  BY <1>3, <1>4, <1>6 DEF Over
<1> QED
  BY <1>5, <1>6

(* What is written before a stop is units.                                 *)
LEMMA CutType ==
  ASSUME NEW us \in Seq(Unit), NEW p \in Cut(us)
  PROVE  p \in Seq(Unit)
<1>1. PICK i \in 0 .. Len(us) :
        p \in {SubSeq(us, 1, i), Append(SubSeq(us, 1, i), Junk)}
  BY DEF Cut
<1>2. SubSeq(us, 1, i) \in Seq(Unit)
  OBVIOUS
<1>3. Junk \in Unit
  BY DEF Unit
<1> QED
  BY <1>1, <1>2, <1>3

-----------------------------------------------------------------------------
(* The inductive invariant. All living clients have the one file open that *)
(* has the name of the cache.                                              *)
OneFile == \A c \in Clients : Alive(c) => handle[c] = here

(* The lock file is there for the worker that works on the cache, or for   *)
(* one that died while it did.                                             *)
LockHeld ==
  /\ \A c \in Clients : pc[c] \in Working => lock = c
  /\ lock # None => pc[lock] \in Working \cup {"dead"}

(* Who has timed out has waited for a client that has crashed.             *)
WaitedForDead ==
  \A c \in Clients :
    /\ late[c] => \E d \in Clients : d # c /\ pc[d] = "dead"
    /\ pc[c] = "dead" => Crashes

(* Files that have not had the name yet are empty.                         *)
NewFilesEmpty == \A f \in 1 .. MaxFiles : f > here => disk[f] = <<>>

AtMostTwo == \A a, b, c \in Clients : a = b \/ a = c \/ b = c

(* What has been inserted has been written to a .jtr file before.          *)
JtrFirst ==
  /\ \A t \in inserted : jtr[t] # 0
  /\ \A c \in Clients : hand[c] # None => jtr[hand[c].test] # 0

Queued(t) == \E c \in Clients : t \in Tested(pend[c])

(* What a worker knows when it may write the cache: where its map is from, *)
(* that it is at the end of the file if it read the file, and that a map   *)
(* from all entries or from all .jtr files misses no test but queued ones. *)
KnownAtWrite(c) ==
  pc[c] = "write" =>
    /\ source[c] \in {"entries", "updates", "files", "cut files"}
    /\ source[c] \in {"entries", "updates"} =>
         disk[here] # <<>> /\ size[c] = Len(disk[here])
    /\ source[c] = "entries" =>
         ~Corrupt(disk[here]) /\ \A t \in Tests :
                                t \in Tested(disk[here]) => tests[c][t] # 0
    /\ source[c] = "files" =>
         \A t \in inserted : tests[c][t] # 0 \/ Queued(t)

AtEndOfFile(c) ==
  pc[c] = "update" => disk[here] # <<>> /\ size[c] = Len(disk[here])

LockInv == TypeOK /\ OneFile /\ LockHeld /\ WaitedForDead
CacheInv ==
  /\ LockInv /\ NewFilesEmpty /\ JtrFirst
  /\ \A c \in Clients : KnownAtWrite(c) /\ AtEndOfFile(c)
  /\ NoTestForgotten

-----------------------------------------------------------------------------
(* Types.                                                                  *)

LEMMA TypeInit ==
  ASSUME CacheAssumption, Init
  PROVE  TypeOK
<1>1. 1 \in 1 .. MaxFiles /\ 0 \in 0 .. MaxRuns
  BY CacheAssumption DEF CacheAssumption
<1>2. NoTests \in [Tests -> 0 .. MaxRuns]
  BY <1>1 DEF NoTests
<1>3. <<>> \in Seq(Unit) /\ <<>> \in Seq(Entry)
  OBVIOUS
<1>4. "new" \in Places /\ "none" \in Sources
  BY DEF Places, Sources
<1>5. disk \in [1 .. MaxFiles -> Seq(Unit)] /\ pend \in [Clients -> Seq(Entry)]
  BY <1>3 DEF Init
<1> QED
  BY <1>1, <1>2, <1>4, <1>5 DEF Init, TypeOK

(* What a client has, and the file it has open.                            *)
LEMMA TypeOf ==
  ASSUME TypeOK, NEW c \in Clients
  PROVE  /\ handle[c] \in 1 .. MaxFiles
         /\ disk[handle[c]] \in Seq(Unit) /\ Len(disk[handle[c]]) \in Nat
         /\ size[c] \in Nat /\ pend[c] \in Seq(Entry)
         /\ pend[c] \in Seq(Unit)
         /\ tests[c] \in [Tests -> 0 .. MaxRuns]
<1>1. handle[c] \in 1 .. MaxFiles
  BY DEF TypeOK
<1>2. disk[handle[c]] \in Seq(Unit)
  BY <1>1 DEF TypeOK
<1>3. Len(disk[handle[c]]) \in Nat
  BY <1>2
<1>4. size[c] \in Nat /\ pend[c] \in Seq(Entry) /\ tests[c] \in [Tests -> 0 .. MaxRuns]
  BY DEF TypeOK
<1>5. pend[c] \in Seq(Unit)
  BY <1>4 DEF Unit
<1> QED
  BY <1>1, <1>2, <1>3, <1>4, <1>5

(* A write that a crash stops.                                             *)
LEMMA TornType ==
  ASSUME CacheAssumption, TypeOK, NEW c \in Clients,
         TornRewrite(c) \/ TornUpdate(c)
  PROVE  /\ \E g \in Seq(Unit) : disk' = [disk EXCEPT ![handle[c]] = g]
         /\ sync' \in [Clients -> BOOLEAN]
<1> DEFINE f == disk[handle[c]]
           m == Merged(tests[c], pend[c])
<1>1. f \in Seq(Unit) /\ size[c] \in Nat /\ pend[c] \in Seq(Unit)
  BY TypeOf
<1>2. Listing(m) \in Seq(Unit)
  <2>1. m \in [Tests -> 0 .. MaxRuns]
    BY CacheAssumption, TypeOf, MergedType
  <2> QED
    BY CacheAssumption, <2>1, ListingType
<1>3. CASE TornRewrite(c)
  <2>1. PICK us \in Cut(Listing(m)) : \E g \in Overwritten(f, 0, us) :
          disk' = [disk EXCEPT ![handle[c]] = g]
    BY <1>3 DEF TornRewrite
  <2>2. us \in Seq(Unit)
    BY <1>2, CutType
  <2>3. sync' \in [Clients -> BOOLEAN]
    <3>1. sync' = [d \in Clients |-> d # c /\ handle[d] # handle[c] /\ sync[d]]
      BY <1>3 DEF TornRewrite
    <3>2. \A d \in Clients : sync[d] \in BOOLEAN
      BY DEF TypeOK
    <3> QED
      BY <3>1, <3>2
  <2> QED
    BY <1>1, <2>1, <2>2, <2>3, OverwrittenType
<1>4. CASE TornUpdate(c)
  <2>1. PICK us \in Cut(pend[c]) : \E g \in Overwritten(f, size[c], us) :
          disk' = [disk EXCEPT ![handle[c]] = g]
    BY <1>4 DEF TornUpdate
  <2>2. us \in Seq(Unit)
    BY <1>1, CutType
  <2>3. sync' \in [Clients -> BOOLEAN]
    BY <1>4 DEF TornUpdate, TypeOK
  <2> QED
    BY <1>1, <2>1, <2>2, <2>3, OverwrittenType
<1> QED
  BY <1>3, <1>4

(* The calls of a client.                                                  *)
LEMMA TypeCaller ==
  ASSUME CacheAssumption, TypeOK, NEW c \in Clients, Caller(c)
  PROVE  TypeOK'
<1> USE CacheAssumption DEF CacheAssumption
<1>0. NoTests \in [Tests -> 0 .. MaxRuns]
  BY DEF NoTests
<1>1. CASE Open(c)
  BY <1>1 DEF Open, TypeOK, Places, sharedVars, workVars, histories
<1>2. CASE Insert(c)
  <2>1. hand[c] \in Entry
    BY <1>2 DEF Insert, TypeOK
  <2>2. Append(pend[c], hand[c]) \in Seq(Entry)
    BY <2>1, TypeOf
  <2>3. hand[c].test \in Tests
    BY <2>1 DEF Entry
  <2> QED
    BY <1>2, <2>2, <2>3 DEF Insert, TypeOK, sharedVars, workVars, requestVars
<1>3. CASE Compress(c)
  BY <1>3 DEF Compress, TypeOK, sharedVars, workVars, histories
<1>4. CASE Shutdown(c)
  BY <1>4 DEF Shutdown, TypeOK, sharedVars, workVars, histories
<1>5. CASE Crash(c)
  <2>1. /\ \/ disk' = disk
           \/ \E g \in Seq(Unit) : disk' = [disk EXCEPT ![handle[c]] = g]
        /\ sync' \in [Clients -> BOOLEAN]
    <3>1. CASE disk' = disk /\ sync' = [sync EXCEPT ![c] = FALSE]
      BY <3>1 DEF TypeOK
    <3>2. CASE TornRewrite(c) \/ TornUpdate(c)
      BY <3>2, TornType
    <3> QED
      BY <1>5, <3>1, <3>2 DEF Crash
  <2>3. disk' \in [1 .. MaxFiles -> Seq(Unit)]
    BY <2>1 DEF TypeOK
  <2>4. /\ pc' \in [Clients -> Places] /\ source' \in [Clients -> Sources]
        /\ size' \in [Clients -> Nat]
        /\ tests' \in [Clients -> [Tests -> 0 .. MaxRuns]]
    BY <1>0, <1>5 DEF Crash, TypeOK, Places, Sources
  <2>5. /\ need' \in [Clients -> BOOLEAN] /\ late' \in [Clients -> BOOLEAN]
        /\ full' \in [Clients -> BOOLEAN]
        /\ compress' \in [Clients -> BOOLEAN]
        /\ flush' \in [Clients -> BOOLEAN]
        /\ shutdown' \in [Clients -> BOOLEAN]
        /\ told' \in [Clients -> BOOLEAN]
        /\ hand' \in [Clients -> Entry \cup {None}]
    BY <1>5 DEF Crash, TypeOK
  <2> QED
    BY <1>5, <2>1, <2>3, <2>4, <2>5 DEF Crash, TypeOK, histories
<1>6. ASSUME NEW t \in Tests, FinishTest(c, t)
      PROVE  TypeOK'
  <2>1. jtr[t] + 1 \in 1 .. MaxRuns /\ jtr[t] + 1 \in 0 .. MaxRuns
    <3>1. jtr[t] \in 0 .. MaxRuns /\ jtr[t] < MaxRuns
      BY <1>6 DEF FinishTest, TypeOK
    <3> QED
      BY <3>1
  <2>2. [test |-> t, ver |-> jtr[t] + 1] \in Entry
    BY <2>1 DEF Entry
  <2> QED
    BY <1>6, <2>1, <2>2
    DEF FinishTest, TypeOK, workVars, requestVars, histories
<1> QED
  BY <1>1, <1>2, <1>3, <1>4, <1>5, <1>6 DEF Caller

(* Reading the cache.                                                      *)
LEMMA TypeReadCache ==
  ASSUME CacheAssumption, TypeOK, NEW c \in Clients, ReadCache(c)
  PROVE  TypeOK'
<1> USE CacheAssumption DEF CacheAssumption
<1> DEFINE f == disk[handle[c]]
           news == SubSeq(f, size[c] + 1, Len(f))
<1>1. f \in Seq(Unit) /\ Len(f) \in Nat /\ size[c] \in Nat
  BY TypeOf
<1>2. news \in Seq(Unit)
  BY <1>1
<1>3. ASSUME NEW g \in Seq(Unit), Rebuild(c, g)
      PROVE  /\ disk' \in [1 .. MaxFiles -> Seq(Unit)]
             /\ pend' \in [Clients -> Seq(Entry)]
             /\ pc' \in [Clients -> Places]
  <2>1. <<>> \in Seq(Unit) /\ <<>> \in Seq(Entry)
    OBVIOUS
  <2>2. PICK h \in Seq(Unit) : disk' = [disk EXCEPT ![handle[c]] = h]
    BY <1>3, <2>1 DEF Rebuild
  <2>3. pend' = pend \/ pend' = [pend EXCEPT ![c] = <<>>]
    BY <1>3 DEF Rebuild
  <2>4. PICK p \in Places : pc' = [pc EXCEPT ![c] = p]
    BY <1>3 DEF Rebuild, Places, Working
  <2>5. disk' \in [1 .. MaxFiles -> Seq(Unit)]
    BY <2>2 DEF TypeOK
  <2>6. pend' \in [Clients -> Seq(Entry)]
    BY <2>1, <2>3 DEF TypeOK
  <2>7. pc' \in [Clients -> Places]
    BY <2>4 DEF TypeOK
  <2> QED
    BY <2>5, <2>6, <2>7
<1>4. ASSUME NEW us \in Seq(Unit), NEW from \in {"entries", "updates"},
             ReadEntries(c, us, from)
      PROVE  /\ disk' \in [1 .. MaxFiles -> Seq(Unit)]
             /\ pend' \in [Clients -> Seq(Entry)]
             /\ pc' \in [Clients -> Places]
             /\ tests' \in [Clients -> [Tests -> 0 .. MaxRuns]]
             /\ source' \in [Clients -> Sources]
             /\ size' \in [Clients -> Nat]
  <2>1. CASE Corrupt(us)
    <3>1. Rebuild(c, <<>>) /\ UNCHANGED <<tests, source, size>>
      BY <1>4, <2>1 DEF ReadEntries
    <3>2. <<>> \in Seq(Unit)
      OBVIOUS
    <3> QED
      BY <1>3, <3>1, <3>2 DEF TypeOK
  <2>2. CASE ~Corrupt(us)
    <3>1. Latest(us) \in [Tests -> 0 .. MaxRuns]
      BY LatestType
    <3> QED
      <4>1. disk' = disk /\ pend' = pend
        BY <1>4, <2>2 DEF ReadEntries
      <4>2. pc' \in [Clients -> Places]
        BY <1>4, <2>2 DEF ReadEntries, TypeOK, Places, Working
      <4>3. tests' \in [Clients -> [Tests -> 0 .. MaxRuns]]
        BY <1>4, <2>2, <3>1 DEF ReadEntries, TypeOK
      <4>4. source' \in [Clients -> Sources]
        BY <1>4, <2>2 DEF ReadEntries, TypeOK, Sources
      <4>5. size' \in [Clients -> Nat]
        BY <1>1, <1>4, <2>2, ZenonT(30) DEF ReadEntries, TypeOK
      <4> QED
        BY <4>1, <4>2, <4>3, <4>4, <4>5 DEF TypeOK
  <2> QED
    BY <2>1, <2>2
<1>5. UNCHANGED <<here, lock, jtr, handle, late, requestVars, told, hand,
                  histories>>
  BY DEF ReadCache
<1>6. CASE f = <<>> /\ Rebuild(c, f) /\ UNCHANGED workVars
  BY <1>1, <1>3, <1>5, <1>6 DEF TypeOK, workVars, requestVars, histories
<1>7. CASE /\ need' = [need EXCEPT ![c] = full[c] \/ ~sync[c] \/ Len(f) > size[c]]
           /\ sync' = [sync EXCEPT ![c] = TRUE]
           /\ ReadEntries(c, f, "entries")
  <2>1. need' \in [Clients -> BOOLEAN] /\ sync' \in [Clients -> BOOLEAN]
    BY <1>7 DEF TypeOK
  <2> QED
    BY <1>1, <1>4, <1>5, <1>7, <2>1 DEF TypeOK, requestVars, histories
<1>8. CASE /\ ReadEntries(c, news, "updates")
           /\ need' = [need EXCEPT ![c] = @ \/ ~Corrupt(news)]
           /\ UNCHANGED sync
  <2>1. need' \in [Clients -> BOOLEAN] /\ sync' \in [Clients -> BOOLEAN]
    BY <1>8 DEF TypeOK
  <2> QED
    BY <1>2, <1>4, <1>5, <1>8, <2>1 DEF TypeOK, requestVars, histories
<1>9. CASE /\ Rebuild(c, f) /\ need' = [need EXCEPT ![c] = FALSE]
           /\ UNCHANGED <<tests, source, size, sync>>
  <2>1. need' \in [Clients -> BOOLEAN]
    BY <1>9 DEF TypeOK
  <2> QED
    BY <1>1, <1>3, <1>5, <1>9, <2>1 DEF TypeOK, requestVars, histories
<1> QED
  BY <1>6, <1>7, <1>8, <1>9 DEF ReadCache

(* The steps that write the cache.                                         *)
LEMMA TypeWriteCache ==
  ASSUME CacheAssumption, TypeOK, NEW c \in Clients, WriteCache(c)
  PROVE  TypeOK'
<1> DEFINE f == disk[handle[c]]
           m == Merged(tests[c], pend[c])
           writes == Rewrites(c)
<1>1. pc' \in [Clients -> Places]
  BY DEF WriteCache, TypeOK, Places, Working
<1>2. CASE ~writes
  BY <1>1, <1>2 DEF WriteCache, TypeOK, requestVars
<1>3. CASE writes
  <2>1. f \in Seq(Unit)
    BY TypeOf
  <2>2. m \in [Tests -> 0 .. MaxRuns]
    BY CacheAssumption, TypeOf, MergedType
  <2>3. PICK g \in Overwritten(f, 0, Listing(m)) :
          /\ disk' = [disk EXCEPT ![handle[c]] = g]
          /\ size' = [size EXCEPT ![c] = Len(g)]
    BY <1>3 DEF WriteCache
  <2>4. g \in Seq(Unit)
    BY CacheAssumption, <2>1, <2>2, ListingType, OverwrittenType
  <2>5. disk' \in [1 .. MaxFiles -> Seq(Unit)]
    BY <2>3, <2>4 DEF TypeOK
  <2>6. size' \in [Clients -> Nat]
    <3>1. Len(g) \in Nat
      BY <2>4
    <3> QED
      BY <2>3, <3>1 DEF TypeOK
  <2>7. tests' \in [Clients -> [Tests -> 0 .. MaxRuns]]
    <3>1. tests' = [tests EXCEPT ![c] = m]
      BY <1>3 DEF WriteCache
    <3> QED
      BY <2>2, <3>1 DEF TypeOK
  <2>8. source' \in [Clients -> Sources]
    BY <1>3 DEF WriteCache, TypeOK, Sources
  <2>9. pend' \in [Clients -> Seq(Entry)]
    <3>1. pend' = [pend EXCEPT ![c] = <<>>]
      BY <1>3 DEF WriteCache
    <3>2. <<>> \in Seq(Entry)
      OBVIOUS
    <3> QED
      BY <3>1, <3>2 DEF TypeOK
  <2>10. sync' \in [Clients -> BOOLEAN]
    <3>1. sync' = [d \in Clients |->
                     d = c \/ (handle[d] # handle[c] /\ sync[d])]
      BY <1>3 DEF WriteCache
    <3>2. \A d \in Clients : sync[d] \in BOOLEAN
      BY DEF TypeOK
    <3> QED
      BY <3>1, <3>2
  <2>11. damaged' \subseteq Incomplete
    BY <1>3 DEF WriteCache, TypeOK
  <2> QED
    BY <1>1, <2>5, <2>6, <2>7, <2>8, <2>9, <2>10, <2>11
    DEF WriteCache, TypeOK, requestVars
<1> QED
  BY <1>2, <1>3

LEMMA TypeUpdateCache ==
  ASSUME CacheAssumption, TypeOK, NEW c \in Clients, UpdateCache(c)
  PROVE  TypeOK'
<1> DEFINE f == disk[handle[c]]
<1>1. PICK g \in Overwritten(f, size[c], pend[c]) :
        /\ disk' = [disk EXCEPT ![handle[c]] = g]
        /\ size' = [size EXCEPT ![c] = Len(g)]
  BY DEF UpdateCache
<1>2. g \in Seq(Unit) /\ Len(g) \in Nat
  <2>1. g \in Seq(Unit)
    BY TypeOf, OverwrittenType
  <2> QED
    BY <2>1
<1>3. disk' \in [1 .. MaxFiles -> Seq(Unit)] /\ size' \in [Clients -> Nat]
  BY <1>1, <1>2 DEF TypeOK
<1>4. pend' \in [Clients -> Seq(Entry)]
  <2>1. <<>> \in Seq(Entry)
    OBVIOUS
  <2> QED
    BY <2>1 DEF UpdateCache, TypeOK
<1>5. tests' \in [Clients -> [Tests -> 0 .. MaxRuns]]
  <2>1. NoTests \in [Tests -> 0 .. MaxRuns]
    BY CacheAssumption DEF NoTests, CacheAssumption
  <2> QED
    BY <2>1 DEF UpdateCache, TypeOK
<1>6. pc' \in [Clients -> Places] /\ compress' \in [Clients -> BOOLEAN]
  BY DEF UpdateCache, TypeOK, Places, Working
<1> QED
  BY <1>3, <1>4, <1>5, <1>6 DEF UpdateCache, TypeOK, histories

(* The other steps of the worker.                                          *)
LEMMA TypeWorker ==
  ASSUME CacheAssumption, TypeOK, NEW c \in Clients, GetLock(c) \/ Worker(c)
  PROVE  TypeOK'
<1> USE CacheAssumption DEF CacheAssumption
<1>1. CASE GetLock(c)
  BY <1>1 DEF GetLock, TypeOK, Places, Working, workVars, requestVars, histories
<1>2. CASE TimeOut(c)
  <2>1. here + 1 \in 1 .. MaxFiles
    <3>1. here \in 1 .. MaxFiles /\ here < MaxFiles
      BY <1>2 DEF TimeOut, TypeOK
    <3> QED
      BY <3>1
  <2> QED
    BY <1>2, <2>1 DEF TimeOut, TypeOK, requestVars, histories
<1>3. CASE ReadCache(c)
  BY <1>3, TypeReadCache
<1>4. CASE ReadJTRFiles(c)
  <2>1. PICK seen \in SUBSET Tests :
          /\ tests' = [tests EXCEPT ![c] =
                         [t \in Tests |-> IF t \in seen THEN jtr[t] ELSE 0]]
          /\ source' = [source EXCEPT ![c] =
                          IF seen = Tests THEN "files" ELSE "cut files"]
    BY <1>4 DEF ReadJTRFiles
  <2>2. [t \in Tests |-> IF t \in seen THEN jtr[t] ELSE 0]
          \in [Tests -> 0 .. MaxRuns]
    BY DEF TypeOK
  <2>3. /\ tests' \in [Clients -> [Tests -> 0 .. MaxRuns]]
        /\ source' \in [Clients -> Sources]
    BY <2>1, <2>2 DEF TypeOK, Sources
  <2>4. pc' \in [Clients -> Places]
    BY <1>4 DEF ReadJTRFiles, TypeOK, Places, Working
  <2> QED
    BY <1>4, <2>3, <2>4
    DEF ReadJTRFiles, TypeOK, sharedVars, requestVars, histories
<1>5. CASE WriteCache(c)
  BY <1>5, TypeWriteCache
<1>6. CASE UpdateCache(c)
  BY <1>6, TypeUpdateCache
<1>7. CASE ReleaseLock(c)
  BY <1>7 DEF ReleaseLock, TypeOK, Places, workVars, requestVars, histories
<1>8. CASE Tell(c)
  BY <1>8 DEF Tell, TypeOK, Places, Sources, sharedVars, histories
<1>9. CASE Check(c)
  BY <1>9 DEF Check, TypeOK, Places, sharedVars, workVars, histories
<1>10. CASE Wake(c)
  BY <1>10
  DEF Wake, TypeOK, Places, sharedVars, workVars, requestVars, histories
<1>11. CASE Stop(c)
  BY <1>11
  DEF Stop, TypeOK, Places, sharedVars, workVars, requestVars, histories
<1> QED
  BY <1>1, <1>2, <1>3, <1>4, <1>5, <1>6, <1>7, <1>8, <1>9, <1>10, <1>11
  DEF Worker

LEMMA TypeStep ==
  ASSUME CacheAssumption, TypeOK, [Next]_vars
  PROVE  TypeOK'
<1>1. CASE UNCHANGED vars
  BY <1>1 DEF TypeOK, vars, sharedVars, workVars, requestVars, histories
<1>2. CASE Next
  BY <1>2, CacheAssumption, TypeCaller, TypeWorker DEF Next
<1> QED
  BY <1>1, <1>2

(* The variables have their types, whatever clients do and whenever they   *)
(* crash.                                                                  *)
THEOREM Types == Spec => []TypeOK
<1>1. Init => TypeOK
  BY CacheAssumption, TypeInit
<1>2. TypeOK /\ [Next]_vars => TypeOK'
  BY CacheAssumption, TypeStep
<1> QED
  BY <1>1, <1>2, PTL DEF Spec

-----------------------------------------------------------------------------
(* The lock.                                                               *)

(* A time-out ends the wait for a client that has crashed: of two, the     *)
(* other one.                                                              *)
LEMMA TimeOutAlone ==
  ASSUME CacheAssumption, Crashes => AtMostTwo, LockInv, NEW c \in Clients,
         TimeOut(c)
  PROVE  /\ here + 1 \in 1 .. MaxFiles
         /\ \E d \in Clients :
              /\ d # c /\ pc[d] = "dead"
              /\ \A e \in Clients : e = c \/ e = d
<1>1. /\ pc[c] = "lock" /\ lock # None /\ here < MaxFiles
      /\ late[c] \/ pc[lock] = "dead"
  BY DEF TimeOut
<1>2. lock \in Clients
  BY <1>1 DEF LockInv, TypeOK
<1>3. lock # c
  BY <1>1, <1>2 DEF LockInv, LockHeld, Working
<1>4. PICK d \in Clients : d # c /\ pc[d] = "dead"
  BY <1>1, <1>2, <1>3 DEF LockInv, WaitedForDead
<1>5. AtMostTwo
  BY <1>4 DEF LockInv, WaitedForDead
<1>6. \A e \in Clients : e = c \/ e = d
  BY <1>4, <1>5 DEF AtMostTwo
<1>7. here + 1 \in 1 .. MaxFiles
  BY <1>1, CacheAssumption DEF LockInv, TypeOK, CacheAssumption
<1> QED
  BY <1>4, <1>6, <1>7

LEMMA LockStep ==
  ASSUME CacheAssumption, Crashes => AtMostTwo, LockInv, [Next]_vars
  PROVE  LockInv'
<1>1. TypeOK'
  BY CacheAssumption, TypeStep DEF LockInv
<1>2. CASE UNCHANGED vars
  BY <1>1, <1>2
  DEF LockInv, OneFile, LockHeld, WaitedForDead, Alive, vars, sharedVars
<1>3. ASSUME NEW c \in Clients, Caller(c) \/ GetLock(c) \/ Worker(c)
      PROVE  OneFile' /\ LockHeld' /\ WaitedForDead'
  <2> USE DEF LockInv, OneFile, LockHeld, WaitedForDead, Alive, Working
  <2>1. pc \in [Clients -> Places] /\ handle \in [Clients -> 1 .. MaxFiles]
        /\ late \in [Clients -> BOOLEAN]
    BY DEF TypeOK
  <2>2. lock # None => lock \in Clients
    BY DEF TypeOK
  <2>3. None \notin Clients
    BY CacheAssumption DEF CacheAssumption
  <2>4. CASE Caller(c)
    <3>1. CASE Crash(c)
      <4>1. /\ Crashes /\ UNCHANGED <<here, lock, handle>>
            /\ pc' = [pc EXCEPT ![c] = "dead"]
            /\ late' = [late EXCEPT ![c] = FALSE]
        BY <3>1 DEF Crash
      <4> QED
        BY <2>1, <2>2, <4>1
    <3>2. CASE Open(c)
      <4>1. /\ pc[c] = "new" /\ UNCHANGED <<here, lock, late>>
            /\ pc' = [pc EXCEPT ![c] = "lock"]
            /\ handle' = [handle EXCEPT ![c] = here]
        BY <3>2 DEF Open, sharedVars
      <4> QED
        BY <2>1, <2>2, <4>1
    <3>3. CASE ~Open(c) /\ ~Crash(c)
      <4>1. UNCHANGED <<here, lock, late, pc, handle>>
        BY <2>4, <3>3
        DEF Caller, Insert, Compress, Shutdown, FinishTest, sharedVars
      <4> QED
        BY <4>1
    <3> QED
      BY <3>1, <3>2, <3>3
  <2>5. CASE GetLock(c)
    <3>1. /\ pc[c] = "lock" /\ lock = None /\ lock' = c
          /\ UNCHANGED <<here, handle>>
          /\ pc' = [pc EXCEPT ![c] = "read"]
          /\ late' = [late EXCEPT ![c] = FALSE]
      BY <2>5 DEF GetLock
    <3> QED
      BY <2>1, <2>3, <3>1
  <2>6. CASE TimeOut(c)
    <3>1. PICK d \in Clients : /\ d # c /\ pc[d] = "dead"
                               /\ \A e \in Clients : e = c \/ e = d
      BY <2>6, CacheAssumption, TimeOutAlone
    <3>2. /\ pc[c] = "lock" /\ lock' = None /\ pc' = pc /\ here' = here + 1
          /\ handle' = [handle EXCEPT ![c] = here + 1]
          /\ late' = [late EXCEPT ![c] = TRUE]
      BY <2>6 DEF TimeOut
    <3>3. OneFile'
      BY <2>1, <3>1, <3>2
    <3>4. LockHeld'
      BY <3>1, <3>2
    <3>5. WaitedForDead'
      BY <2>1, <3>1, <3>2
    <3> QED
      BY <3>3, <3>4, <3>5
  <2>7. CASE ReadCache(c)
    <3>1. /\ UNCHANGED <<here, lock, handle, late>>
          /\ pc[c] = "read"
          /\ \E p \in {"unlock", "scan", "write"} : pc' = [pc EXCEPT ![c] = p]
      BY <2>7 DEF ReadCache, Rebuild, ReadEntries
    <3> QED
      BY <2>1, <2>2, <3>1
  <2>8. CASE ReadJTRFiles(c) \/ WriteCache(c) \/ UpdateCache(c)
    <3>1. /\ UNCHANGED <<here, lock, handle, late>>
          /\ pc[c] \in {"scan", "write", "update"}
          /\ \E p \in {"write", "update", "unlock"} : pc' = [pc EXCEPT ![c] = p]
      BY <2>8 DEF ReadJTRFiles, WriteCache, UpdateCache, sharedVars
    <3> QED
      BY <2>1, <2>2, <3>1
  <2>9. CASE ReleaseLock(c)
    <3>1. /\ UNCHANGED <<here, handle, late>> /\ lock' = None
          /\ pc[c] = "unlock"
          /\ \E p \in {"check", "tell"} : pc' = [pc EXCEPT ![c] = p]
      BY <2>9 DEF ReleaseLock
    <3> QED
      BY <2>1, <2>3, <3>1
  <2>10. CASE Tell(c) \/ Check(c) \/ Wake(c) \/ Stop(c)
    <3>1. /\ UNCHANGED <<here, lock, handle, late>>
          /\ pc[c] \in {"tell", "check", "idle"}
          /\ \E p \in {"check", "lock", "done", "idle"} :
               pc' = [pc EXCEPT ![c] = p]
      BY <2>10 DEF Tell, Check, Wake, Stop, sharedVars
    <3> QED
      BY <2>1, <2>2, <3>1
  <2> QED
    BY <1>3, <2>4, <2>5, <2>6, <2>7, <2>8, <2>9, <2>10 DEF Worker
<1> QED
  BY <1>1, <1>2, <1>3 DEF LockInv, Next

LEMMA LockInit ==
  ASSUME CacheAssumption, Init
  PROVE  LockInv
<1>1. TypeOK
  BY CacheAssumption, TypeInit
<1> QED
  BY <1>1, CacheAssumption
  DEF LockInv, OneFile, LockHeld, WaitedForDead, Working, Alive, Init,
      CacheAssumption

(* One worker at most is between getLock() and releaseLock(): however many *)
(* clients have the work directory open if none crashes, and across the    *)
(* crash and the time-out of one of two.                                   *)
THEOREM Exclusion == (Crashes => AtMostTwo) => (Spec => []MutualExclusion)
<1> SUFFICES ASSUME Crashes => AtMostTwo PROVE Spec => []MutualExclusion
  OBVIOUS
<1>1. Init => LockInv
  BY CacheAssumption, LockInit
<1>2. LockInv /\ [Next]_vars => LockInv'
  BY CacheAssumption, LockStep
<1>3. LockInv => MutualExclusion
  BY DEF LockInv, LockHeld, MutualExclusion
<1> QED
  BY <1>1, <1>2, <1>3, PTL DEF Spec

-----------------------------------------------------------------------------
(* No test is forgotten.                                                   *)

LEMMA CacheInit ==
  ASSUME CacheAssumption, Init
  PROVE  CacheInv
<1>1. LockInv
  BY CacheAssumption, LockInit
<1> QED
  BY <1>1 DEF CacheInv, JtrFirst, KnownAtWrite, AtEndOfFile, NoTestForgotten,
     NewFilesEmpty, Init

(* A worker with the lock is the only one in doWork, and has the cache     *)
(* file open; so no dead client's lock file is there.                      *)
LEMMA Alone ==
  ASSUME CacheInv, NEW c \in Clients, pc[c] \in Working
  PROVE  /\ handle[c] = here /\ here \in 1 .. MaxFiles
         /\ \A d \in Clients : pc[d] \in Working => d = c
         /\ ~LeftLocked
BY DEF CacheInv, LockInv, TypeOK, OneFile, LockHeld, Alive, Working, LeftLocked

(* Only the file with the name of the cache is written.                    *)
LEMMA NewFilesStay ==
  ASSUME CacheInv, here' = here,
         \A f \in 1 .. MaxFiles : f # here => disk'[f] = disk[f]
  PROVE  NewFilesEmpty'
<1>1. here \in 1 .. MaxFiles
  BY DEF CacheInv, LockInv, TypeOK
<1>2. ASSUME NEW f \in 1 .. MaxFiles, f > here
      PROVE  disk'[f] = <<>>
  <2>1. f # here
    BY <1>1, <1>2
  <2> QED
    BY <1>2, <2>1 DEF CacheInv, NewFilesEmpty
<1> QED
  BY <1>2 DEF NewFilesEmpty

(* Steps that neither touch files, queues and maps nor bring a worker to   *)
(* where it writes.                                                        *)
LEMMA QuietStep ==
  ASSUME CacheInv, LockInv', LeftLocked => LeftLocked',
         UNCHANGED <<disk, here, jtr, pend, hand, inserted, damaged, tests,
                     size>>,
         \A d \in Clients : pc'[d] \in {"write", "update"} =>
                               pc'[d] = pc[d] /\ source'[d] = source[d]
  PROVE  CacheInv'
<1>1. JtrFirst'
  BY DEF CacheInv, JtrFirst
<1>2. ASSUME NEW d \in Clients
      PROVE  KnownAtWrite(d)' /\ AtEndOfFile(d)'
  BY DEF CacheInv, KnownAtWrite, AtEndOfFile, Queued
<1>3. NoTestForgotten' /\ NewFilesEmpty'
  BY DEF CacheInv, NoTestForgotten, NewFilesEmpty, Kept
<1> QED
  BY <1>1, <1>2, <1>3 DEF CacheInv

(* A living client leaves alone the lock file of a dead one.               *)
LEMMA LeftLockedStays ==
  ASSUME CacheAssumption, LockInv, NEW c \in Clients, NEW p,
         pc[c] # "dead", lock' = lock \/ lock \in {c, None},
         pc' = pc \/ pc' = [pc EXCEPT ![c] = p]
  PROVE  LeftLocked => LeftLocked'
<1> SUFFICES ASSUME NEW d \in Clients, lock = d, pc[d] = "dead"
             PROVE  lock' = d /\ pc'[d] = "dead"
  BY DEF LeftLocked
<1>1. d # c /\ d # None
  BY CacheAssumption DEF CacheAssumption
<1>2. pc'[d] = pc[d]
  BY <1>1 DEF LockInv, TypeOK
<1> QED
  BY <1>1, <1>2

LEMMA FinishTestStep ==
  ASSUME CacheAssumption, CacheInv, LockInv', NEW c \in Clients,
         NEW t \in Tests, FinishTest(c, t)
  PROVE  CacheInv'
<1>1. jtr \in [Tests -> 0 .. MaxRuns] /\ inserted \subseteq Tests
      /\ hand \in [Clients -> Entry \cup {None}]
  BY DEF CacheInv, LockInv, TypeOK
<1>2. /\ jtr' = [jtr EXCEPT ![t] = jtr[t] + 1]
      /\ hand' = [hand EXCEPT ![c] = [test |-> t, ver |-> jtr[t] + 1]]
  BY DEF FinishTest
<1>3. jtr[t] + 1 # 0 /\ \A u \in Tests : jtr[u] # 0 => jtr'[u] # 0
  BY <1>1, <1>2
<1>4. jtr'[t] # 0
  BY <1>1, <1>2, <1>3
<1>5. JtrFirst'
  <2>1. \A u \in inserted' : jtr'[u] # 0
    BY <1>1, <1>3 DEF CacheInv, JtrFirst, FinishTest, histories
  <2>2. ASSUME NEW d \in Clients, hand'[d] # None
        PROVE  jtr'[hand'[d].test] # 0
    <3>1. CASE d = c
      BY <1>1, <1>2, <1>4, <3>1
    <3>2. CASE d # c
      <4>1. hand'[d] = hand[d] /\ hand[d] \in Entry
        BY <1>1, <1>2, <2>2, <3>2
      <4> QED
        BY <1>3, <2>2, <4>1 DEF CacheInv, JtrFirst, Entry
    <3> QED
      BY <3>1, <3>2
  <2> QED
    BY <2>1, <2>2 DEF JtrFirst
<1>6. ASSUME NEW d \in Clients
      PROVE  KnownAtWrite(d)' /\ AtEndOfFile(d)'
  BY DEF CacheInv, KnownAtWrite, AtEndOfFile, Queued, FinishTest, workVars,
     histories
<1>7. NoTestForgotten' /\ NewFilesEmpty'
  BY DEF CacheInv, NoTestForgotten, NewFilesEmpty, Kept, LeftLocked, FinishTest,
     histories
<1> QED
  BY <1>5, <1>6, <1>7 DEF CacheInv

LEMMA InsertStep ==
  ASSUME CacheAssumption, CacheInv, LockInv', NEW c \in Clients, Insert(c)
  PROVE  CacheInv'
<1>1. /\ hand[c] \in Entry /\ hand[c].test \in Tests /\ hand[c].test # None
      /\ pend[c] \in Seq(Entry) /\ pend \in [Clients -> Seq(Entry)]
      /\ hand \in [Clients -> Entry \cup {None}]
  BY CacheAssumption DEF Insert, CacheInv, LockInv, TypeOK, Entry, CacheAssumption
<1>2. /\ pend' = [pend EXCEPT ![c] = Append(pend[c], hand[c])]
      /\ hand' = [hand EXCEPT ![c] = None]
      /\ inserted' = inserted \cup {hand[c].test}
      /\ UNCHANGED <<disk, here, lock, jtr, pc, tests, source, size, damaged>>
  BY DEF Insert, sharedVars, workVars
<1>3. /\ Tested(pend[c]) \subseteq Tested(Append(pend[c], hand[c]))
      /\ hand[c].test \in Tested(Append(pend[c], hand[c]))
  <2> DEFINE q == Append(pend[c], hand[c])
  <2>1. Len(q) = Len(pend[c]) + 1 /\ Len(pend[c]) \in Nat
    BY <1>1
  <2>2. \A i \in 1 .. Len(pend[c]) : i \in 1 .. Len(q) /\ q[i] = pend[c][i]
    BY <1>1, <2>1
  <2>3. Len(q) \in 1 .. Len(q) /\ q[Len(q)] = hand[c]
    BY <1>1, <2>1
  <2> HIDE DEF q
  <2>4. Tested(pend[c]) \subseteq Tested(q) /\ hand[c].test \in Tested(q)
    BY <1>1, <2>2, <2>3 DEF Tested
  <2> QED
    BY <2>4 DEF q
<1>4. \A d \in Clients : Tested(pend[d]) \subseteq Tested(pend'[d])
  BY <1>1, <1>2, <1>3
<1>5. hand[c].test \in Tested(pend'[c])
  BY <1>1, <1>2, <1>3
<1>6. JtrFirst'
  BY <1>1, <1>2 DEF CacheInv, JtrFirst, Insert
<1>7. ASSUME NEW t \in inserted', t \in inserted => Queued(t)
      PROVE  Queued(t)'
  <2>1. CASE t \in inserted
    BY <1>4, <1>7, <2>1 DEF Queued
  <2>2. CASE t = hand[c].test
    BY <1>5, <2>2 DEF Queued
  <2> QED
    BY <1>2, <2>1, <2>2
<1>8. ASSUME NEW d \in Clients
      PROVE  KnownAtWrite(d)' /\ AtEndOfFile(d)'
  <2>1. AtEndOfFile(d)'
    BY <1>2 DEF CacheInv, AtEndOfFile
  <2>2. ASSUME pc[d] = "write", source[d] = "files", NEW t \in inserted'
        PROVE  tests[d][t] # 0 \/ Queued(t)'
    <3>1. t \in inserted => tests[d][t] # 0 \/ Queued(t)
      BY <2>2 DEF CacheInv, KnownAtWrite
    <3> QED
      BY <1>7, <3>1
  <2>3. KnownAtWrite(d)'
    BY <1>2, <2>2 DEF CacheInv, KnownAtWrite
  <2> QED
    BY <2>1, <2>3
<1>9. NoTestForgotten' /\ NewFilesEmpty'
  BY <1>2, <1>4, <1>5
  DEF CacheInv, NoTestForgotten, NewFilesEmpty, Kept, LeftLocked
<1> QED
  BY <1>6, <1>8, <1>9 DEF CacheInv

LEMMA ReadCacheStep ==
  ASSUME CacheAssumption, CacheInv, LockInv', NEW c \in Clients, ReadCache(c)
  PROVE  CacheInv'
<1> DEFINE f == disk[here]
           news == SubSeq(f, size[c] + 1, Len(f))
<1>1. pc[c] = "read" /\ handle[c] = here /\ here \in 1 .. MaxFiles
  BY Alone DEF ReadCache, Working
<1>2. ~LeftLocked /\ \A d \in Clients : d # c => pc[d] \notin Working
  BY <1>1, Alone DEF Working
<1>3. UNCHANGED <<here, jtr, hand, inserted, damaged>>
  BY DEF ReadCache, histories
<1>4. /\ pc \in [Clients -> Places] /\ here \in DOMAIN disk
      /\ tests \in [Clients -> [Tests -> 0 .. MaxRuns]]
      /\ source \in [Clients -> Sources] /\ size \in [Clients -> Nat]
      /\ f \in Seq(Unit)
  BY <1>1, TypeOf DEF CacheInv, LockInv, TypeOK
<1>5. JtrFirst' /\ NewFilesEmpty'
  <2>1. disk' = disk \/ \E g \in {f, <<>>} : disk' = [disk EXCEPT ![here] = g]
    BY <1>1 DEF ReadCache, ReadEntries, Rebuild
  <2>2. disk \in [1 .. MaxFiles -> Seq(Unit)]
    BY DEF CacheInv, LockInv, TypeOK
  <2>3. \A e \in 1 .. MaxFiles : e # here => disk'[e] = disk[e]
    BY <2>1, <2>2
  <2>4. NewFilesEmpty'
    BY <1>3, <2>3, NewFilesStay
  <2> QED
    BY <1>3, <2>4 DEF CacheInv, JtrFirst
<1>6. ASSUME NEW g \in {f, <<>>}, Rebuild(c, g)
      PROVE  CacheInv'
  <2>1. disk'[here] = <<>> \/ (disk'[here] = f /\ pend' = pend)
    BY <1>1, <1>4, <1>6 DEF Rebuild
  <2>2. \E p \in {"unlock", "scan"} : pc' = [pc EXCEPT ![c] = p]
    BY <1>6 DEF Rebuild
  <2>3. \A d \in Clients : pc'[d] \notin {"write", "update"}
    BY <1>2, <1>4, <2>2 DEF Working
  <2>4. NoTestForgotten'
    BY <1>1, <1>2, <1>3, <2>1 DEF CacheInv, NoTestForgotten, Kept
  <2> QED
    BY <1>5, <2>3, <2>4 DEF CacheInv, KnownAtWrite, AtEndOfFile
<1>7. ASSUME NEW us \in Seq(Unit), NEW from \in {"entries", "updates"},
             from = "entries" => us = f, f # <<>>, ReadEntries(c, us, from)
      PROVE  CacheInv'
  <2>1. CASE Corrupt(us)
    BY <1>6, <1>7, <2>1 DEF ReadEntries
  <2>2. CASE ~Corrupt(us)
    <3>1. /\ tests' = [tests EXCEPT ![c] = Latest(us)]
          /\ source' = [source EXCEPT ![c] = from]
          /\ size' = [size EXCEPT ![c] = Len(f)]
          /\ pc' = [pc EXCEPT ![c] = "write"]
          /\ disk' = disk /\ pend' = pend
      BY <1>1, <1>7, <2>2 DEF ReadEntries
    <3>2. NoTestForgotten'
      BY <1>2, <1>3, <3>1 DEF CacheInv, NoTestForgotten, Kept
    <3>3. ASSUME NEW d \in Clients, d # c
          PROVE  pc'[d] \notin {"write", "update"}
      BY <1>2, <1>4, <3>1, <3>3 DEF Working
    <3>4. pc'[c] = "write" /\ source'[c] = from /\ size'[c] = Len(f)
          /\ tests'[c] = Latest(us)
      BY <1>4, <3>1
    <3>5. ASSUME from = "entries", NEW t \in Tests, t \in Tested(f)
          PROVE  Latest(us)[t] # 0
      BY <1>7, <3>5, CacheAssumption, LatestType
    <3>6. KnownAtWrite(c)' /\ AtEndOfFile(c)'
      BY <1>3, <1>7, <2>2, <3>1, <3>4, <3>5 DEF KnownAtWrite, AtEndOfFile
    <3>7. \A d \in Clients : KnownAtWrite(d)' /\ AtEndOfFile(d)'
      BY <3>3, <3>6 DEF KnownAtWrite, AtEndOfFile
    <3> QED
      BY <1>5, <3>2, <3>7 DEF CacheInv
  <2> QED
    BY <2>1, <2>2
<1>8. news \in Seq(Unit)
  <2>1. size[c] + 1 \in Nat /\ size[c] + 1 >= 1 /\ Len(f) \in Nat
    BY <1>4
  <2> QED
    BY <1>4, <2>1
<1>9. \/ Rebuild(c, f)
      \/ f # <<>> /\ ReadEntries(c, f, "entries")
      \/ f # <<>> /\ ReadEntries(c, news, "updates")
  BY <1>1 DEF ReadCache
<1> QED
  BY <1>4, <1>6, <1>7, <1>8, <1>9

LEMMA ReadJTRFilesStep ==
  ASSUME CacheAssumption, CacheInv, LockInv', NEW c \in Clients,
         ReadJTRFiles(c)
  PROVE  CacheInv'
<1>1. /\ pc[c] = "scan" /\ pc' = [pc EXCEPT ![c] = "write"]
      /\ UNCHANGED <<disk, here, jtr, pend, hand, inserted, damaged, size>>
  BY DEF ReadJTRFiles, sharedVars, histories
<1>2. ~LeftLocked /\ \A d \in Clients : d # c => pc[d] \notin Working
  BY <1>1, Alone DEF Working
<1>3. /\ pc \in [Clients -> Places] /\ inserted \subseteq Tests
      /\ tests \in [Clients -> [Tests -> 0 .. MaxRuns]]
      /\ source \in [Clients -> Sources]
  BY DEF CacheInv, LockInv, TypeOK
<1>4. PICK seen \in SUBSET Tests :
        /\ tests' = [tests EXCEPT ![c] =
                       [t \in Tests |-> IF t \in seen THEN jtr[t] ELSE 0]]
        /\ source' = [source EXCEPT ![c] =
                        IF seen = Tests THEN "files" ELSE "cut files"]
  BY DEF ReadJTRFiles
<1>5. JtrFirst' /\ NoTestForgotten' /\ NewFilesEmpty'
  BY <1>1, <1>2 DEF CacheInv, JtrFirst, NoTestForgotten, NewFilesEmpty, Kept
<1>6. ASSUME seen = Tests, NEW t \in inserted
      PROVE  tests'[c][t] # 0
  <2>1. jtr[t] # 0 /\ t \in Tests
    BY <1>3 DEF CacheInv, JtrFirst
  <2>2. tests'[c] = [u \in Tests |-> IF u \in seen THEN jtr[u] ELSE 0]
    BY <1>3, <1>4
  <2> QED
    BY <1>6, <2>1, <2>2
<1>7. KnownAtWrite(c)'
  <2>1. source'[c] = IF seen = Tests THEN "files" ELSE "cut files"
    BY <1>3, <1>4
  <2> QED
    BY <1>1, <1>6, <2>1 DEF KnownAtWrite
<1>8. ASSUME NEW d \in Clients, d # c
      PROVE  pc'[d] \notin {"write", "update"}
  BY <1>1, <1>2, <1>3, <1>8 DEF Working
<1>9. pc'[c] = "write"
  BY <1>1, <1>3
<1> QED
  BY <1>5, <1>7, <1>8, <1>9 DEF CacheInv, KnownAtWrite, AtEndOfFile

(* What was queued by the worker's own client is in the merged map, what   *)
(* others queued stays queued.                                             *)
LEMMA WriteCacheStep ==
  ASSUME CacheAssumption, CacheInv, LockInv', NEW c \in Clients,
         WriteCache(c)
  PROVE  CacheInv'
<1> DEFINE f == disk[here]
           m == Merged(tests[c], pend[c])
           writes == Rewrites(c)
<1>1. pc[c] = "write" /\ handle[c] = here /\ here \in 1 .. MaxFiles
  BY Alone DEF WriteCache, Working
<1>2. ~LeftLocked /\ \A d \in Clients : d # c => pc[d] \notin Working
  BY <1>1, Alone DEF Working
<1>3. /\ pc \in [Clients -> Places] /\ inserted \subseteq Tests
      /\ here \in DOMAIN disk /\ size \in [Clients -> Nat]
      /\ pend \in [Clients -> Seq(Entry)] /\ pend[c] \in Seq(Entry)
      /\ tests[c] \in [Tests -> 0 .. MaxRuns]
      /\ f \in Seq(Unit)
  BY <1>1, TypeOf DEF CacheInv, LockInv, TypeOK
<1>4. /\ UNCHANGED <<here, jtr, hand, inserted>>
      /\ pc' = [pc EXCEPT ![c] = "update"]
  BY DEF WriteCache
<1>5. JtrFirst' /\ NewFilesEmpty'
  <2>1. disk' = disk \/ \E g \in Overwritten(f, 0, Listing(m)) :
                         disk' = [disk EXCEPT ![here] = g]
    BY <1>1 DEF WriteCache
  <2>2. disk \in [1 .. MaxFiles -> Seq(Unit)]
    BY DEF CacheInv, LockInv, TypeOK
  <2>3. \A e \in 1 .. MaxFiles : e # here => disk'[e] = disk[e]
    BY <2>1, <2>2
  <2>4. NewFilesEmpty'
    BY <1>4, <2>3, NewFilesStay
  <2> QED
    BY <1>4, <2>4 DEF CacheInv, JtrFirst
<1>6. \A d \in Clients : d # c => pc'[d] \notin {"write", "update"}
  BY <1>2, <1>3, <1>4 DEF Working
<1>7. pc'[c] = "update"
  BY <1>3, <1>4
<1>8. CASE ~writes
  <2>1. UNCHANGED <<disk, size, sync, tests, source, pend, damaged>>
    BY <1>1, <1>8 DEF WriteCache
  <2>2. size[c] = Len(f) /\ f # <<>>
    BY <1>1, <1>8 DEF Rewrites, CacheInv, KnownAtWrite
  <2>3. NoTestForgotten'
    BY <1>2, <1>4, <2>1 DEF CacheInv, NoTestForgotten, Kept
  <2> QED
    BY <1>4, <1>5, <1>6, <1>7, <2>1, <2>2, <2>3
    DEF CacheInv, KnownAtWrite, AtEndOfFile
<1>9. CASE writes
  <2>1. PICK g \in Overwritten(f, 0, Listing(m)) :
          /\ disk' = [disk EXCEPT ![here] = g]
          /\ size' = [size EXCEPT ![c] = Len(g)]
    BY <1>1, <1>9 DEF WriteCache
  <2>2. /\ pend' = [pend EXCEPT ![c] = <<>>]
        /\ damaged' = damaged \cup ({source[c]} \cap Incomplete)
    BY <1>1, <1>9 DEF WriteCache
  <2>3. disk'[here] = g /\ size'[c] = Len(g)
    BY <1>3, <2>1
  <2>4. /\ m \in [Tests -> 0 .. MaxRuns]
        /\ \A t \in Tests :
             tests[c][t] # 0 \/ t \in Tested(pend[c]) => m[t] # 0
    BY <1>3, CacheAssumption, MergedType
  <2>5. g # <<>> /\ \A t \in Tests : m[t] # 0 => t \in Tested(g)
    <3>1. /\ Listing(m) \in Seq(Unit) /\ Listing(m) # <<>>
          /\ \A t \in Tests : m[t] # 0 => t \in Tested(Listing(m))
      BY <2>4, CacheAssumption, ListingType
    <3>2. Tested(Listing(m)) \subseteq Tested(g) /\ g # <<>>
      BY <1>3, <3>1, OverwrittenFromStart
    <3> QED
      BY <3>1, <3>2
  <2>6. ASSUME damaged' = {}, NEW t \in inserted
        PROVE  tests[c][t] # 0 \/ Queued(t)
    <3>1. source[c] \in {"entries", "files"} /\ damaged = {}
      BY <1>1, <2>2, <2>6 DEF Incomplete, CacheInv, KnownAtWrite
    <3>2. CASE source[c] = "files"
      BY <1>1, <3>2 DEF CacheInv, KnownAtWrite
    <3>3. CASE source[c] = "entries"
      <4>1. /\ f # <<>> /\ ~Corrupt(f)
            /\ \A u \in Tests : u \in Tested(f) => tests[c][u] # 0
        BY <1>1, <3>3 DEF CacheInv, KnownAtWrite
      <4>2. Kept(t)
        BY <3>1 DEF CacheInv, NoTestForgotten
      <4> QED
        BY <1>1, <1>2, <1>3, <4>1, <4>2 DEF Kept, Queued
    <3> QED
      BY <3>1, <3>2, <3>3
  <2>7. NoTestForgotten'
    <3>1. ASSUME damaged' = {}, NEW t \in inserted
          PROVE  t \in Tested(disk'[here])
                   \/ \E d \in Clients : t \in Tested(pend'[d])
      <4>1. CASE tests[c][t] # 0 \/ t \in Tested(pend[c])
        BY <1>3, <2>3, <2>4, <2>5, <4>1
      <4>2. CASE ~(tests[c][t] # 0 \/ t \in Tested(pend[c]))
        <5>1. PICK d \in Clients : t \in Tested(pend[d])
          BY <2>6, <3>1, <4>2 DEF Queued
        <5>2. d # c
          BY <4>2, <5>1
        <5> QED
          BY <1>3, <2>2, <5>1, <5>2
      <4> QED
        BY <4>1, <4>2
    <3> QED
      BY <1>1, <1>4, <3>1 DEF NoTestForgotten, Kept
  <2> QED
    BY <1>4, <1>5, <1>6, <1>7, <2>3, <2>5, <2>7
    DEF CacheInv, KnownAtWrite, AtEndOfFile
<1> QED
  BY <1>8, <1>9

LEMMA UpdateCacheStep ==
  ASSUME CacheAssumption, CacheInv, LockInv', NEW c \in Clients,
         UpdateCache(c)
  PROVE  CacheInv'
<1> DEFINE f == disk[here]
<1>1. pc[c] = "update" /\ handle[c] = here /\ here \in 1 .. MaxFiles
  BY Alone DEF UpdateCache, Working
<1>2. ~LeftLocked /\ \A d \in Clients : d # c => pc[d] \notin Working
  BY <1>1, Alone DEF Working
<1>3. /\ pc \in [Clients -> Places] /\ here \in DOMAIN disk
      /\ pend \in [Clients -> Seq(Entry)] /\ pend[c] \in Seq(Unit)
      /\ f \in Seq(Unit)
  BY <1>1, TypeOf DEF CacheInv, LockInv, TypeOK
<1>4. /\ UNCHANGED <<here, jtr, hand, inserted, damaged>>
      /\ pc' = [pc EXCEPT ![c] = "unlock"]
      /\ pend' = [pend EXCEPT ![c] = <<>>]
  BY DEF UpdateCache, histories
<1>5. disk'[here] = f \o pend[c]
  <2>1. size[c] = Len(f)
    BY <1>1 DEF CacheInv, AtEndOfFile
  <2>2. PICK g \in Overwritten(f, Len(f), pend[c]) :
          disk' = [disk EXCEPT ![here] = g]
    BY <1>1, <2>1 DEF UpdateCache
  <2>3. g = f \o pend[c]
    BY <1>3, OverwrittenAtEnd
  <2> QED
    BY <1>3, <2>2, <2>3
<1>6. /\ Tested(f) \subseteq Tested(disk'[here])
      /\ Tested(pend[c]) \subseteq Tested(disk'[here])
  BY <1>3, <1>5, TestedConcat
<1>7. Corrupt(f) => Corrupt(disk'[here])
  <2>1. Len(disk'[here]) = Len(f) + Len(pend[c]) /\ Len(f) \in Nat
        /\ Len(pend[c]) \in Nat
    BY <1>3, <1>5
  <2>2. \A i \in 1 .. Len(f) :
          i \in 1 .. Len(disk'[here]) /\ disk'[here][i] = f[i]
    BY <1>3, <1>5, <2>1
  <2> QED
    BY <2>2 DEF Corrupt
<1>8. ASSUME NEW t \in inserted, Kept(t)
      PROVE  Kept(t)'
  <2>1. CASE t \in Tested(f) \/ t \in Tested(pend[c])
    BY <1>1, <1>4, <1>6, <2>1 DEF Kept
  <2>2. CASE Corrupt(f)
    BY <1>1, <1>4, <1>7, <2>2 DEF Kept
  <2>3. CASE \E d \in Clients : d # c /\ t \in Tested(pend[d])
    BY <1>3, <1>4, <2>3 DEF Kept
  <2>4. f # <<>>
    BY <1>1 DEF CacheInv, AtEndOfFile
  <2> QED
    BY <1>1, <1>2, <1>8, <2>1, <2>2, <2>3, <2>4 DEF Kept
<1>9. NoTestForgotten'
  BY <1>4, <1>8 DEF CacheInv, NoTestForgotten
<1>10. JtrFirst' /\ NewFilesEmpty'
  <2>1. \E g \in Overwritten(f, size[c], pend[c]) :
          disk' = [disk EXCEPT ![here] = g]
    BY <1>1 DEF UpdateCache
  <2>2. disk \in [1 .. MaxFiles -> Seq(Unit)]
    BY DEF CacheInv, LockInv, TypeOK
  <2>3. \A e \in 1 .. MaxFiles : e # here => disk'[e] = disk[e]
    BY <2>1, <2>2
  <2>4. NewFilesEmpty'
    BY <1>4, <2>3, NewFilesStay
  <2> QED
    BY <1>4, <2>4 DEF CacheInv, JtrFirst
<1>11. \A d \in Clients : pc'[d] \notin {"write", "update"}
  BY <1>2, <1>3, <1>4 DEF Working
<1> QED
  BY <1>9, <1>10, <1>11 DEF CacheInv, KnownAtWrite, AtEndOfFile

(* A crash leaves the file as it is, or torn with the lock file there;     *)
(* queues are remembered.                                                  *)
LEMMA CrashStep ==
  ASSUME CacheAssumption, CacheInv, LockInv', NEW c \in Clients, Crash(c)
  PROVE  CacheInv'
<1> DEFINE f == disk[here]
<1>1. /\ pc \in [Clients -> Places] /\ handle \in [Clients -> 1 .. MaxFiles]
      /\ disk \in [1 .. MaxFiles -> Seq(Unit)] /\ here \in 1 .. MaxFiles
      /\ hand \in [Clients -> Entry \cup {None}]
      /\ tests \in [Clients -> [Tests -> 0 .. MaxRuns]]
      /\ source \in [Clients -> Sources] /\ size \in [Clients -> Nat]
      /\ f \in Seq(Unit)
  BY DEF CacheInv, LockInv, TypeOK
<1>2. handle[c] = here
  BY DEF Crash, CacheInv, LockInv, OneFile
<1>3. /\ UNCHANGED <<here, jtr, pend, inserted, damaged>>
      /\ pc' = [pc EXCEPT ![c] = "dead"]
      /\ hand' = [hand EXCEPT ![c] = None]
      /\ tests' = [tests EXCEPT ![c] = NoTests]
      /\ source' = [source EXCEPT ![c] = "none"]
      /\ size' = [size EXCEPT ![c] = 0]
  BY DEF Crash, histories
<1>4. \/ disk' = disk
      \/ /\ pc[c] \in {"write", "update"}
         /\ \E g \in Seq(Unit) : disk' = [disk EXCEPT ![here] = g]
  <2>1. CASE TornRewrite(c) \/ TornUpdate(c)
    BY <1>2, <2>1, CacheAssumption, TornType
    DEF TornRewrite, TornUpdate, CacheInv, LockInv
  <2> QED
    BY <2>1 DEF Crash
<1>5. JtrFirst'
  BY <1>1, <1>3 DEF CacheInv, JtrFirst
<1>6. NewFilesEmpty'
  <2>1. \A e \in 1 .. MaxFiles : e # here => disk'[e] = disk[e]
    BY <1>1, <1>4
  <2> QED
    BY <1>3, <2>1, NewFilesStay
<1>7. pc'[c] = "dead" /\ lock' = lock
      /\ \A d \in Clients : d # c => pc'[d] = pc[d]
  BY <1>1, <1>3 DEF Crash
<1>8. pc[c] \in {"write", "update"} => NoTestForgotten'
  <2> SUFFICES ASSUME pc[c] \in {"write", "update"} PROVE NoTestForgotten'
    OBVIOUS
  <2>1. lock = c
    BY DEF CacheInv, LockInv, LockHeld, Working
  <2>2. LeftLocked'
    BY <1>7, <2>1 DEF LeftLocked
  <2> QED
    BY <2>2 DEF NoTestForgotten, Kept
<1>9. NoTestForgotten'
  <2>1. CASE disk' = disk
    <3>1. LeftLocked => LeftLocked'
      BY <1>7 DEF LeftLocked
    <3> QED
      BY <1>3, <2>1, <3>1 DEF CacheInv, NoTestForgotten, Kept
  <2> QED
    BY <1>4, <1>8, <2>1
<1>10. ASSUME NEW d \in Clients
       PROVE  KnownAtWrite(d)' /\ AtEndOfFile(d)'
  <2>1. CASE d = c
    BY <1>1, <1>3, <2>1 DEF KnownAtWrite, AtEndOfFile
  <2>2. CASE d # c /\ pc[d] \in {"write", "update"}
    <3>1. pc[c] \notin {"write", "update"}
      BY <2>2, Alone DEF Working
    <3>2. disk' = disk
      BY <1>1, <1>4, <3>1
    <3>3. /\ pc'[d] = pc[d] /\ tests'[d] = tests[d] /\ source'[d] = source[d]
          /\ size'[d] = size[d]
      BY <1>1, <1>3, <2>2
    <3> QED
      BY <1>3, <3>2, <3>3 DEF CacheInv, KnownAtWrite, AtEndOfFile, Queued
  <2>3. CASE d # c /\ pc[d] \notin {"write", "update"}
    BY <1>1, <1>3, <2>3 DEF KnownAtWrite, AtEndOfFile
  <2> QED
    BY <2>1, <2>2, <2>3
<1> QED
  BY <1>5, <1>6, <1>9, <1>10 DEF CacheInv

(* After a time-out the cache is an empty file, to be rebuilt by the one   *)
(* client that lives.                                                      *)
LEMMA TimeOutStep ==
  ASSUME CacheAssumption, Crashes => AtMostTwo, CacheInv, LockInv',
         NEW c \in Clients, TimeOut(c)
  PROVE  CacheInv'
<1>1. PICK d \in Clients : /\ pc[d] = "dead"
                           /\ \A e \in Clients : e = c \/ e = d
  BY CacheAssumption, TimeOutAlone DEF CacheInv
<1>2. here + 1 \in 1 .. MaxFiles /\ here \in 1 .. MaxFiles
  BY CacheAssumption, TimeOutAlone DEF CacheInv, LockInv, TypeOK
<1>3. /\ UNCHANGED <<disk, jtr, pend, hand, inserted, damaged, pc>>
      /\ here' = here + 1 /\ pc[c] = "lock"
  BY DEF TimeOut, histories
<1>4. JtrFirst'
  BY <1>3 DEF CacheInv, JtrFirst
<1>5. NewFilesEmpty' /\ disk'[here'] = <<>>
  BY <1>2, <1>3 DEF CacheInv, NewFilesEmpty
<1>6. NoTestForgotten'
  BY <1>5 DEF NoTestForgotten, Kept
<1>7. \A e \in Clients : pc'[e] \notin {"write", "update"}
  BY <1>1, <1>3
<1> QED
  BY <1>4, <1>5, <1>6, <1>7 DEF CacheInv, KnownAtWrite, AtEndOfFile

LEMMA CacheStep ==
  ASSUME CacheAssumption, Crashes => AtMostTwo, CacheInv, [Next]_vars
  PROVE  CacheInv'
<1>1. LockInv'
  BY CacheAssumption, LockStep DEF CacheInv
<1>2. pc \in [Clients -> Places] /\ source \in [Clients -> Sources]
  BY DEF CacheInv, LockInv, TypeOK
<1>3. CASE UNCHANGED vars
  <2>1. LeftLocked => LeftLocked'
    BY <1>3 DEF LeftLocked, vars, sharedVars
  <2> QED
    BY <1>1, <1>3, <2>1, QuietStep DEF vars, sharedVars, workVars, histories
<1>4. ASSUME NEW c \in Clients, Caller(c) \/ GetLock(c) \/ Worker(c)
      PROVE  CacheInv'
  <2>1. CASE Caller(c)
    <3>1. CASE Crash(c)
      BY <1>1, <3>1, CacheAssumption, CrashStep
    <3>2. CASE Open(c) \/ Compress(c) \/ Shutdown(c)
      <4>1. UNCHANGED <<disk, here, jtr, pend, hand, inserted, damaged, tests,
                        size, source>>
        BY <3>2 DEF Open, Compress, Shutdown, sharedVars, workVars, histories
      <4>2. /\ pc' = pc \/ pc' = [pc EXCEPT ![c] = "lock"]
            /\ pc[c] # "dead" /\ lock' = lock
        BY <3>2 DEF Open, Compress, Shutdown, Alive, sharedVars
      <4>3. LeftLocked => LeftLocked'
        BY CacheAssumption, <4>2, LeftLockedStays DEF CacheInv
      <4> QED
        BY <1>1, <1>2, <4>1, <4>2, <4>3, QuietStep
    <3>3. CASE Insert(c)
      BY <1>1, <3>3, CacheAssumption, InsertStep
    <3>4. CASE \E t \in Tests : FinishTest(c, t)
      BY <1>1, <3>4, CacheAssumption, FinishTestStep
    <3> QED
      BY <2>1, <3>1, <3>2, <3>3, <3>4 DEF Caller
  <2>2. CASE GetLock(c)
    <3>1. UNCHANGED <<disk, here, jtr, pend, hand, inserted, damaged, tests,
                      size, source>>
          /\ pc' = [pc EXCEPT ![c] = "read"] /\ pc[c] # "dead" /\ lock = None
      BY <2>2 DEF GetLock, workVars, histories
    <3>2. LeftLocked => LeftLocked'
      BY CacheAssumption, <3>1, LeftLockedStays DEF CacheInv
    <3> QED
      BY <1>1, <1>2, <3>1, <3>2, QuietStep
  <2>3. CASE TimeOut(c)
    BY <1>1, <2>3, CacheAssumption, TimeOutStep
  <2>4. CASE ReadCache(c) \/ ReadJTRFiles(c) \/ WriteCache(c) \/ UpdateCache(c)
    BY <1>1, <2>4, CacheAssumption, ReadCacheStep, ReadJTRFilesStep,
       WriteCacheStep, UpdateCacheStep
  <2>5. CASE ReleaseLock(c) \/ Tell(c) \/ Check(c) \/ Wake(c) \/ Stop(c)
    <3>1. UNCHANGED <<disk, here, jtr, pend, hand, inserted, damaged, tests,
                      size>>
      BY <2>5 DEF ReleaseLock, Tell, Check, Wake, Stop, sharedVars, workVars,
                  histories
    <3>2. \E p \in {"check", "tell", "lock", "done", "idle"} :
            pc' = [pc EXCEPT ![c] = p]
      BY <2>5 DEF ReleaseLock, Tell, Check, Wake, Stop
    <3>3. \A d \in Clients : d # c => source'[d] = source[d]
      BY <1>2, <2>5 DEF ReleaseLock, Tell, Check, Wake, Stop, workVars
    <3>4. LeftLocked => LeftLocked'
      <4>1. pc[c] # "dead"
        BY <2>5 DEF ReleaseLock, Tell, Check, Wake, Stop
      <4>2. lock' = lock \/ lock = c
        BY <2>5
        DEF ReleaseLock, Tell, Check, Wake, Stop, sharedVars, CacheInv,
            LockInv, LockHeld, Working
      <4> QED
        BY CacheAssumption, <3>2, <4>1, <4>2, LeftLockedStays DEF CacheInv
    <3> QED
      BY <1>1, <1>2, <3>1, <3>2, <3>3, <3>4, QuietStep
  <2> QED
    BY <1>4, <2>1, <2>2, <2>3, <2>4, <2>5 DEF Worker
<1> QED
  BY <1>3, <1>4 DEF Next

(* However many clients there are and whatever they do at the same time,   *)
(* only a writeCache() of an incomplete map can make the cache forget a    *)
(* test. The same holds for two clients that may crash: what a crash in    *)
(* the middle of a write leaves may miss tests, but it leaves the lock     *)
(* file too, and the cache is deleted with it.                             *)
THEOREM NothingForgotten ==
  (Crashes => AtMostTwo) => (Spec => []NoTestForgotten)
<1> SUFFICES ASSUME Crashes => AtMostTwo PROVE Spec => []NoTestForgotten
  OBVIOUS
<1>1. Init => CacheInv
  BY CacheAssumption, CacheInit
<1>2. CacheInv /\ [Next]_vars => CacheInv'
  BY CacheAssumption, CacheStep
<1>3. CacheInv => NoTestForgotten
  BY DEF CacheInv
<1> QED
  BY <1>1, <1>2, <1>3, PTL DEF Spec
=============================================================================
