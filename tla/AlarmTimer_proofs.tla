-------------------------- MODULE AlarmTimer_proofs --------------------------
(***************************************************************************)
(* The safety properties of AlarmTimer for any number of threads and       *)
(* actions and any delay.                                                  *)
(*                                                                         *)
(* The queue is changed in four ways: an insertion, a removal, taking the  *)
(* first entry, a tick. The lemmas say what each means for the entries of  *)
(* one alarm; the invariants then speak of alarms and not of positions.    *)
(***************************************************************************)
EXTENDS AlarmTimer, WellFoundedInduction, SequenceTheorems, TLAPS

(* The entries of alarm a in a queue: there is one at most, and the kinds   *)
(* that are there.                                                          *)
At(q, a) == {i \in 1 .. Len(q) : q[i].alarm = a}
AtMostOne(q, a) == \A i, j \in At(q, a) : i = j
KindsOf(q, a) == {q[i].kind : i \in At(q, a)}

(* r has no entries of a that q does not have.                              *)
NothingNew(q, r, a) ==
  /\ AtMostOne(q, a) => AtMostOne(r, a)
  /\ KindsOf(r, a) \subseteq KindsOf(q, a)

(* The alarm of a callback under way is known while it is under way.        *)
TimerPhase == timer.at = "asleep" <=> timer.alarm = None

(* A thread with an alarm is the one that the alarm interrupts.             *)
Owned ==
  \A w \in Workers : pc[w] # "idle" => cur[w] \in Actions /\ target[cur[w]] = w

(* What was never set has no callback and was not cancelled.                *)
Unset ==
  \A a \in Actions : target[a] = None =>
    KindsOf(queue, a) = {} /\ timer.alarm # a /\ a \notin cancelled

(* An alarm has one callback outstanding.                                   *)
OneOutstanding ==
  \A a \in Actions : /\ AtMostOne(queue, a)
                     /\ timer.alarm = a => KindsOf(queue, a) = {}

(* The entry in the queue is the one that Alarm.entry refers to, or will    *)
(* refer to when the constructor has stored it.                             *)
Pending == {"constructing", "running", "ending", "failing"}
EntryKnown ==
  \A w \in Workers : pc[w] \in Pending /\ cur[w] \notin crossed =>
    /\ KindsOf(queue, cur[w]) \subseteq
         {IF pc[w] = "constructing" THEN "first" ELSE entry[cur[w]]}
    /\ pc[w] = "constructing" => ~(timer.at = "inside" /\ timer.alarm = cur[w])

(* A cancelled alarm is gone, unless a callback crossed it.                 *)
CancelledGone ==
  \A a \in cancelled \ crossed : KindsOf(queue, a) = {} /\ timer.alarm # a

QueueInv == TypeOK /\ TimerPhase /\ Owned /\ Unset /\ OneOutstanding
AlarmInv == QueueInv /\ EntryKnown /\ CancelledGone

-----------------------------------------------------------------------------
(* The queue                                                               *)

(* requestDelayedCallback finds a place: some entry is the first one that   *)
(* expires later, or the new one goes to the end.                           *)
LEMMA PlaceExists ==
  ASSUME NEW q \in Seq(Entries), NEW e \in Entries
  PROVE  \E n \in 1 .. Len(q) + 1 :
           /\ \A k \in 1 .. n - 1 : q[k].left <= e.left
           /\ n <= Len(q) => e.left < q[n].left
<1> DEFINE Later == {k \in 1 .. Len(q) : e.left < q[k].left}
<1>1. Len(q) \in Nat
  OBVIOUS
<1>2. \A k \in 1 .. Len(q) : q[k].left \in Nat /\ e.left \in Nat
  <2>1. \A x \in Entries : x.left \in 0 .. MaxDelay
    BY DEF Entries
  <2>2. \A k \in 1 .. Len(q) : q[k] \in Entries
    OBVIOUS
  <2> HIDE DEF Later
  <2> QED
    BY <2>1, <2>2, AlarmAssumption
<1>3. CASE Later = {}
  <2>1. \A k \in 1 .. Len(q) : q[k].left <= e.left
    BY <1>2, <1>3
  <2> QED
    BY <1>1, <2>1
<1>4. CASE Later # {}
  <2>1. PICK n \in Later : \A k \in Later : ~(<<k, n>> \in OpToRel(<, Nat))
    <3>1. Later \subseteq Nat
      BY <1>1
    <3> QED
      BY <1>4, <3>1, NatLessThanWellFounded, WFMin
  <2>2. \A k \in Later : ~(k < n)
    <3>1. Later \subseteq Nat
      BY <1>1
    <3> HIDE DEF Later
    <3> QED
      BY <2>1, <3>1 DEF OpToRel
  <2>3. ASSUME NEW k \in 1 .. n - 1 PROVE q[k].left <= e.left
    <3>1. k \in 1 .. Len(q) /\ k < n
      BY <1>1
    <3>2. k \notin Later
      BY <2>2, <3>1
    <3> QED
      BY <1>2, <3>1, <3>2
  <2> QED
    BY <1>1, <2>3
<1> QED
  BY <1>3, <1>4

(* requestDelayedCallback: the new entry is at some place, the others keep  *)
(* their order around it.                                                   *)
LEMMA InsertPlace ==
  ASSUME NEW q \in Seq(Entries), NEW e \in Entries
  PROVE  /\ Insert(q, e) \in Seq(Entries)
         /\ Len(Insert(q, e)) = Len(q) + 1
         /\ \E p \in 1 .. Len(q) + 1 : \A k \in 1 .. Len(q) + 1 :
              Insert(q, e)[k] = IF k < p THEN q[k]
                                ELSE IF k = p THEN e ELSE q[k - 1]
<1> DEFINE Place(n) == /\ \A k \in 1 .. n - 1 : q[k].left <= e.left
                       /\ n <= Len(q) => e.left < q[n].left
           p == CHOOSE n \in 1 .. Len(q) + 1 : Place(n)
           front == SubSeq(q, 1, p - 1)
           back == SubSeq(q, p, Len(q))
<1>1. p \in 1 .. Len(q) + 1
  <2>1. \E n \in 1 .. Len(q) + 1 : Place(n)
    BY PlaceExists
  <2> QED
    BY <2>1
<1>2. Insert(q, e) = front \o <<e>> \o back
  BY DEF Insert
<1> HIDE DEF p
<1>3. /\ front \in Seq(Entries) /\ Len(front) = p - 1
      /\ \A k \in 1 .. p - 1 : front[k] = q[k]
  BY <1>1
<1>4. /\ back \in Seq(Entries) /\ Len(back) = Len(q) - p + 1
      /\ \A k \in 1 .. Len(q) - p + 1 : back[k] = q[p + k - 1]
  BY <1>1
<1> HIDE DEF front, back
<1>5. Insert(q, e) \in Seq(Entries) /\ Len(Insert(q, e)) = Len(q) + 1
  <2>1. <<e>> \in Seq(Entries) /\ Len(<<e>>) = 1
    OBVIOUS
  <2> DEFINE longer == front \o <<e>>
  <2>2. longer \in Seq(Entries) /\ Len(longer) = Len(front) + 1
    BY <1>3, <2>1, ConcatProperties
  <2> HIDE DEF longer
  <2>3. /\ longer \o back \in Seq(Entries)
        /\ Len(longer \o back) = Len(longer) + Len(back)
    BY <1>4, <2>2, ConcatProperties
  <2>4. Insert(q, e) = longer \o back
    BY <1>2 DEF longer
  <2> QED
    BY <1>1, <1>3, <1>4, <2>2, <2>3, <2>4
<1>6. ASSUME NEW k \in 1 .. Len(q) + 1
      PROVE  Insert(q, e)[k] = IF k < p THEN q[k]
                               ELSE IF k = p THEN e ELSE q[k - 1]
  <2>1. Insert(q, e)[k] = IF k < p THEN front[k]
                          ELSE IF k = p THEN e ELSE back[k - p]
    BY <1>1, <1>2, <1>3, <1>4
  <2>2. CASE k <= p
    BY <1>1, <1>3, <2>1, <2>2
  <2>3. CASE k > p
    <3>1. k - p \in 1 .. Len(q) - p + 1 /\ p + (k - p) - 1 = k - 1
      BY <1>1, <2>3
    <3>2. back[k - p] = q[p + (k - p) - 1]
      BY <1>4, <3>1
    <3> QED
      BY <1>1, <2>1, <2>3, <3>1, <3>2
  <2> QED
    BY <1>1, <2>2, <2>3
<1> QED
  BY <1>1, <1>5, <1>6

(* An insertion adds one entry of its alarm and nothing else.               *)
LEMMA InsertEntry ==
  ASSUME NEW q \in Seq(Entries), NEW e \in Entries
  PROVE  /\ Insert(q, e) \in Seq(Entries)
         /\ \A a : a # e.alarm => NothingNew(q, Insert(q, e), a)
         /\ KindsOf(q, e.alarm) = {} =>
              /\ AtMostOne(Insert(q, e), e.alarm)
              /\ KindsOf(Insert(q, e), e.alarm) \subseteq {e.kind}
<1> DEFINE r == Insert(q, e)
<1>1. r \in Seq(Entries) /\ Len(r) = Len(q) + 1
  BY InsertPlace
<1>2. PICK p \in 1 .. Len(q) + 1 : \A k \in 1 .. Len(q) + 1 :
        r[k] = IF k < p THEN q[k] ELSE IF k = p THEN e ELSE q[k - 1]
  BY InsertPlace
<1> HIDE DEF r
<1>3. Len(q) \in Nat
  OBVIOUS
<1> DEFINE Old(k) == IF k < p THEN k ELSE k - 1
<1>4. \A k \in 1 .. Len(r) : k # p => Old(k) \in 1 .. Len(q) /\ r[k] = q[Old(k)]
  BY <1>1, <1>2, <1>3
<1>5. ASSUME NEW a, a # e.alarm PROVE NothingNew(q, r, a)
  <2>1. \A k \in At(r, a) : k # p /\ k \in 1 .. Len(r) /\ Old(k) \in At(q, a)
                            /\ r[k] = q[Old(k)]
    BY <1>1, <1>2, <1>4, <1>5 DEF At
  <2>2. \A i, j \in At(r, a) : Old(i) = Old(j) => i = j
    BY <1>1, <1>3, <2>1
  <2>3. AtMostOne(q, a) => AtMostOne(r, a)
    BY <2>1, <2>2 DEF AtMostOne
  <2>4. KindsOf(r, a) \subseteq KindsOf(q, a)
    BY <2>1 DEF KindsOf
  <2> QED
    BY <2>3, <2>4 DEF NothingNew
<1>6. ASSUME KindsOf(q, e.alarm) = {}
      PROVE  AtMostOne(r, e.alarm) /\ KindsOf(r, e.alarm) \subseteq {e.kind}
  <2>1. At(q, e.alarm) = {}
    BY <1>6 DEF KindsOf
  <2>2. \A k \in At(r, e.alarm) : k = p
    BY <1>4, <2>1 DEF At
  <2>3. r[p] = e
    BY <1>2
  <2> QED
    BY <2>2, <2>3 DEF AtMostOne, KindsOf
<1> QED
  BY <1>1, <1>5, <1>6 DEF r

(* What remains when an entry leaves the queue.                             *)
LEMMA RemoveEntry ==
  ASSUME NEW q \in Seq(Entries), NEW p \in 1 .. Len(q)
  PROVE  /\ RemoveAt(q, p) \in Seq(Entries)
         /\ \A a : NothingNew(q, RemoveAt(q, p), a)
         /\ \A a : AtMostOne(q, a) /\ q[p].alarm = a =>
              KindsOf(RemoveAt(q, p), a) = {}
<1> DEFINE front == SubSeq(q, 1, p - 1)
           back == SubSeq(q, p + 1, Len(q))
           r == RemoveAt(q, p)
           Old(k) == IF k < p THEN k ELSE k + 1
<1>0. Len(q) \in Nat
  OBVIOUS
<1>1. /\ front \in Seq(Entries) /\ Len(front) = p - 1
      /\ \A k \in 1 .. p - 1 : front[k] = q[k]
  BY <1>0
<1>2. /\ back \in Seq(Entries) /\ Len(back) = Len(q) - p
      /\ \A k \in 1 .. Len(q) - p : back[k] = q[p + k]
  BY <1>0
<1>3. r = front \o back
  BY DEF RemoveAt
<1> HIDE DEF front, back, r
<1>4. r \in Seq(Entries) /\ Len(r) = Len(q) - 1
  <2>1. r \in Seq(Entries) /\ Len(r) = Len(front) + Len(back)
    BY <1>1, <1>2, <1>3, ConcatProperties
  <2> QED
    BY <1>0, <1>1, <1>2, <2>1
<1>5. ASSUME NEW k \in 1 .. Len(r)
      PROVE  Old(k) \in 1 .. Len(q) /\ Old(k) # p /\ r[k] = q[Old(k)]
  <2>1. r[k] = IF k < p THEN front[k] ELSE back[k - (p - 1)]
    BY <1>0, <1>1, <1>2, <1>3, <1>4
  <2>2. CASE k < p
    BY <1>0, <1>1, <1>4, <2>1, <2>2
  <2>3. CASE k >= p
    <3>1. k - (p - 1) \in 1 .. Len(q) - p /\ p + (k - (p - 1)) = k + 1
      BY <1>0, <1>4, <2>3
    <3>2. back[k - (p - 1)] = q[p + (k - (p - 1))]
      BY <1>2, <3>1
    <3> QED
      BY <1>0, <1>4, <2>1, <2>3, <3>1, <3>2
  <2> QED
    BY <1>0, <1>4, <2>2, <2>3
<1>6. ASSUME NEW a PROVE NothingNew(q, r, a)
  <2>1. \A k \in At(r, a) : Old(k) \in At(q, a) /\ r[k] = q[Old(k)]
    BY <1>5 DEF At
  <2>2. \A i, j \in At(r, a) : Old(i) = Old(j) => i = j
    BY <1>0, <1>4 DEF At
  <2>3. AtMostOne(q, a) => AtMostOne(r, a)
    BY <2>1, <2>2 DEF AtMostOne
  <2>4. KindsOf(r, a) \subseteq KindsOf(q, a)
    BY <2>1 DEF KindsOf
  <2> QED
    BY <2>3, <2>4 DEF NothingNew
<1>7. ASSUME NEW a, AtMostOne(q, a), q[p].alarm = a
      PROVE  KindsOf(r, a) = {}
  <2>1. p \in At(q, a)
    BY <1>7 DEF At
  <2>2. \A k \in At(r, a) : Old(k) \in At(q, a) /\ Old(k) # p
    BY <1>5 DEF At
  <2>3. At(r, a) = {}
    BY <1>7, <2>1, <2>2 DEF AtMostOne
  <2> QED
    BY <2>3 DEF KindsOf
<1> QED
  BY <1>4, <1>6, <1>7 DEF r

(* Taking the first entry removes it.                                       *)
LEMMA TakeFirst ==
  ASSUME NEW q \in Seq(Entries), q # <<>>
  PROVE  1 \in 1 .. Len(q) /\ Head(q) = q[1] /\ Tail(q) = RemoveAt(q, 1)
<1>1. Len(q) \in Nat /\ Len(q) >= 1
  BY EmptySeq
<1>2. SubSeq(q, 1, 0) = <<>>
  BY <1>1
<1>3. Tail(q) = SubSeq(q, 2, Len(q))
  BY <1>1
<1>4. SubSeq(q, 2, Len(q)) \in Seq(Entries)
  BY <1>1
<1> QED
  BY <1>1, <1>2, <1>3, <1>4 DEF RemoveAt

(* The steps that change the queue, in these terms.                         *)
LEMMA RequestEntry ==
  ASSUME queue \in Seq(Entries), NEW a \in Actions,
         NEW kind \in {"first", "again"}, NEW delay \in 0 .. MaxDelay,
         RequestDelayedCallback(a, kind, delay)
  PROVE  /\ queue' \in Seq(Entries) /\ nap' = 0
         /\ \A b : b # a => NothingNew(queue, queue', b)
         /\ KindsOf(queue, a) = {} =>
              AtMostOne(queue', a) /\ KindsOf(queue', a) \subseteq {kind}
<1> DEFINE e == [alarm |-> a, kind |-> kind, left |-> delay]
<1>1. e \in Entries /\ e.alarm = a /\ e.kind = kind
  BY DEF Entries
<1>2. queue' = Insert(queue, e) /\ nap' = 0
  BY DEF RequestDelayedCallback, Notify
<1> HIDE DEF e
<1> QED
  BY <1>1, <1>2, InsertEntry

LEMMA CancelEntry ==
  ASSUME queue \in Seq(Entries), NEW a, Cancel(a)
  PROVE  /\ queue' \in Seq(Entries) /\ nap' = 0
         /\ \A b : NothingNew(queue, queue', b)
         /\ AtMostOne(queue, a) /\ KindsOf(queue, a) \subseteq {entry[a]} =>
              KindsOf(queue', a) = {}
<1> DEFINE same == {i \in 1 .. Len(queue) :
                      queue[i].alarm = a /\ queue[i].kind = entry[a]}
           p == CHOOSE i \in same : TRUE
<1>1. /\ queue' = IF same = {} THEN queue ELSE RemoveAt(queue, p)
      /\ nap' = 0
  BY DEF Cancel, Notify
<1>2. CASE same = {}
  <2>1. queue' = queue
    BY <1>1, <1>2
  <2>2. KindsOf(queue, a) \subseteq {entry[a]} => KindsOf(queue, a) = {}
    BY <1>2 DEF KindsOf, At
  <2> QED
    BY <1>1, <2>1, <2>2 DEF NothingNew
<1>3. CASE same # {}
  <2>1. p \in same
    BY <1>3
  <2>2. p \in 1 .. Len(queue) /\ queue[p].alarm = a
    BY <2>1
  <2>3. queue' = RemoveAt(queue, p)
    BY <1>1, <1>3
  <2> HIDE DEF p
  <2> QED
    BY <1>1, <2>2, <2>3, RemoveEntry
<1> QED
  BY <1>2, <1>3

LEMMA NextEntryTakes ==
  ASSUME queue \in Seq(Entries), NextEntry, TimerPhase,
         \A a \in Actions : AtMostOne(queue, a)
  PROVE  /\ queue' \in Seq(Entries)
         /\ \A a : NothingNew(queue, queue', a)
         /\ \/ timer' = timer /\ queue' = queue
            \/ \E a \in Actions : /\ timer' = [at |-> "called", alarm |-> a]
                                  /\ KindsOf(queue', a) = {}
                                  /\ KindsOf(queue, a) # {}
<1>1. CASE queue # <<>> /\ Head(queue).left = 0
  <2>1. /\ timer' = [at |-> "called", alarm |-> Head(queue).alarm]
        /\ queue' = Tail(queue)
    BY <1>1 DEF NextEntry, WithoutFirst
  <2>2. /\ 1 \in 1 .. Len(queue) /\ Head(queue) = queue[1]
        /\ queue' = RemoveAt(queue, 1)
    BY <1>1, <2>1, TakeFirst
  <2>3. queue[1].alarm \in Actions
    <3>1. queue[1] \in Entries
      BY <2>2
    <3> QED
      BY <3>1 DEF Entries
  <2>4. KindsOf(queue, queue[1].alarm) # {}
    BY <2>2 DEF KindsOf, At
  <2> QED
    BY <2>1, <2>2, <2>3, <2>4, RemoveEntry
<1>2. CASE ~(queue # <<>> /\ Head(queue).left = 0)
  <2>1. UNCHANGED <<queue, timer>>
    BY <1>2 DEF NextEntry
  <2> QED
    BY <2>1 DEF NothingNew
<1> QED
  BY <1>1, <1>2

LEMMA TickKeeps ==
  ASSUME queue \in Seq(Entries), nap \in 0 .. Forever, Tick
  PROVE  /\ queue' \in Seq(Entries) /\ nap' \in 0 .. Forever
         /\ \A a : NothingNew(queue, queue', a)
<1> DEFINE Older(e) == [e EXCEPT !.left = IF @ > 0 THEN @ - 1 ELSE 0]
<1>1. queue' = [i \in 1 .. Len(queue) |-> Older(queue[i])]
  BY DEF Tick
<1>2. \A e \in Entries : /\ Older(e) \in Entries
                         /\ Older(e).alarm = e.alarm /\ Older(e).kind = e.kind
  BY AlarmAssumption DEF Entries
<1>3. nap' \in 0 .. Forever
  BY AlarmAssumption DEF Tick, Forever
<1> HIDE DEF Older
<1>4. queue' \in Seq(Entries) /\ Len(queue') = Len(queue)
  BY <1>1, <1>2
<1>5. \A i \in 1 .. Len(queue) : /\ queue'[i].alarm = queue[i].alarm
                                 /\ queue'[i].kind = queue[i].kind
  BY <1>1, <1>2
<1>6. ASSUME NEW a PROVE NothingNew(queue, queue', a)
  <2>1. At(queue', a) = At(queue, a)
    BY <1>4, <1>5 DEF At
  <2>2. KindsOf(queue', a) = KindsOf(queue, a)
    BY <1>5, <2>1 DEF KindsOf, At
  <2> QED
    BY <2>1, <2>2 DEF NothingNew, AtMostOne
<1> QED
  BY <1>3, <1>4, <1>6

-----------------------------------------------------------------------------
(* Types                                                                   *)

LEMMA InitInv == Init => AlarmInv
<1> SUFFICES ASSUME Init PROVE AlarmInv
  OBVIOUS
<1>1. TypeOK
  BY AlarmAssumption DEF Init, TypeOK, Forever
<1>2. \A a : At(queue, a) = {}
  BY DEF Init, At
<1>3. \A a : KindsOf(queue, a) = {} /\ AtMostOne(queue, a)
  BY <1>2 DEF KindsOf, AtMostOne
<1>4. TimerPhase /\ Owned /\ Unset /\ OneOutstanding
  BY <1>3, AlarmAssumption
     DEF Init, TimerPhase, Owned, Unset, OneOutstanding
<1>5. EntryKnown /\ CancelledGone
  BY <1>3 DEF Init, EntryKnown, CancelledGone, Pending
<1> QED
  BY <1>1, <1>4, <1>5 DEF AlarmInv, QueueInv

(* The values of the variables stay in their types.                         *)
LEMMA TypesStep == QueueInv /\ [Next]_vars => TypeOK'
<1> SUFFICES ASSUME QueueInv, [Next]_vars PROVE TypeOK'
  OBVIOUS
<1>0. TypeOK /\ TimerPhase /\ OneOutstanding /\ 0 \in 0 .. Forever
  BY AlarmAssumption DEF QueueInv, Forever
<1>1. CASE NextEntry
  <2>1. queue' \in Seq(Entries)
    BY <1>0, <1>1, NextEntryTakes DEF TypeOK, OneOutstanding
  <2>2. timer' \in [at : {"asleep", "called", "inside"}, alarm : Actions \cup {None}]
    BY <1>0, <1>1, NextEntryTakes DEF TypeOK, OneOutstanding
  <2>3. nap' \in 0 .. Forever
    <3>1. CASE queue = <<>> \/ Head(queue).left = 0
      BY <1>0, <1>1, <3>1, AlarmAssumption DEF NextEntry, Forever
    <3>2. CASE queue # <<>> /\ Head(queue).left # 0
      <4>1. Head(queue) \in Entries
        BY <1>0, <3>2 DEF TypeOK
      <4>2. Head(queue).left \in 0 .. MaxDelay
        BY <4>1 DEF Entries
      <4>3. nap' = Head(queue).left
        BY <1>1, <3>2 DEF NextEntry
      <4> QED
        BY <4>2, <4>3, AlarmAssumption DEF Forever
    <3> QED
      BY <3>1, <3>2
  <2> QED
    BY <1>0, <1>1, <2>1, <2>2, <2>3
       DEF TypeOK, NextEntry, workerVars, alarmVars
<1>2. CASE Timeout
  <2>1. \A x \in Workers : pc[x] = "constructing" => cur[x] \in Actions
    BY DEF QueueInv, Owned
  <2>2. crossed' \subseteq Actions
    BY <1>0, <1>2, <2>1 DEF TypeOK, Timeout
  <2> QED
    BY <1>0, <1>2, <2>2 DEF TypeOK, Timeout, alarmVars
<1>3. CASE TimeoutReturns
  <2>1. timer.alarm \in Actions
    BY <1>0, <1>3 DEF TypeOK, TimerPhase, TimeoutReturns
  <2>2. RepeatDelay \in 0 .. MaxDelay
    BY AlarmAssumption DEF RepeatDelay
  <2>3. queue' \in Seq(Entries) /\ nap' = 0
    BY <1>0, <1>3, <2>1, <2>2, RequestEntry DEF TypeOK, TimeoutReturns
  <2> QED
    BY <1>0, <1>3, <2>3 DEF TypeOK, TimeoutReturns, NewEntry, workerVars
<1>4. CASE Tick
  <2>1. queue' \in Seq(Entries) /\ nap' \in 0 .. Forever
    BY <1>0, <1>4, TickKeeps DEF TypeOK
  <2> QED
    BY <1>0, <1>4, <2>1 DEF TypeOK, Tick, workerVars, alarmVars
<1>5. ASSUME NEW w \in Workers, NEW a \in Actions, SetAlarm(w, a)
      PROVE  TypeOK'
  <2>1. PICK delay \in 1 .. MaxDelay : RequestDelayedCallback(a, "first", delay)
    BY <1>5 DEF SetAlarm
  <2>2. delay \in 0 .. MaxDelay
    BY AlarmAssumption
  <2>3. queue' \in Seq(Entries) /\ nap' = 0
    BY <1>0, <2>1, <2>2, RequestEntry DEF TypeOK
  <2> QED
    BY <1>0, <1>5, <2>3 DEF TypeOK, SetAlarm
<1>6. ASSUME NEW w \in Workers, AlarmConstructed(w) PROVE TypeOK'
  BY <1>0, <1>6 DEF TypeOK, AlarmConstructed, timerVars
<1>7. ASSUME NEW w \in Workers,
             ActionReturns(w) \/ ActionInterrupted(w) \/ InterruptIgnored(w)
      PROVE  TypeOK'
  BY <1>0, <1>7
     DEF TypeOK, ActionReturns, ActionInterrupted, InterruptIgnored, alarmVars, timerVars
<1>8. ASSUME NEW w \in Workers, CancelAlarm(w) PROVE TypeOK'
  <2>1. queue' \in Seq(Entries) /\ nap' = 0
    BY <1>0, <1>8, CancelEntry DEF TypeOK, CancelAlarm
  <2>2. cur[w] \in Actions
    BY <1>8 DEF QueueInv, Owned, CancelAlarm
  <2> QED
    BY <1>0, <1>8, <2>1, <2>2 DEF TypeOK, CancelAlarm, alarmVars
<1>9. ASSUME NEW w \in Workers, ScriptEnds(w) PROVE TypeOK'
  BY <1>0, <1>9 DEF TypeOK, ScriptEnds, alarmVars, timerVars
<1>10. CASE UNCHANGED vars
  BY <1>0, <1>10 DEF TypeOK, vars, workerVars, alarmVars, timerVars
<1> QED
  BY <1>1, <1>2, <1>3, <1>4, <1>5, <1>6, <1>7, <1>8, <1>9, <1>10 DEF Next, TimerStep

-----------------------------------------------------------------------------
(* One callback                                                            *)

(* A step that adds no entry and gives the timer no alarm keeps the         *)
(* invariant of the queue.                                                  *)
LEMMA NothingNewKeeps ==
  ASSUME Unset, OneOutstanding,
         \A a \in Actions : NothingNew(queue, queue', a),
         target' = target, timer'.alarm \in {timer.alarm, None},
         None \notin Actions, cancelled' = cancelled
  PROVE  Unset' /\ OneOutstanding'
<1>1. \A a \in Actions : /\ AtMostOne(queue, a) => AtMostOne(queue', a)
                         /\ KindsOf(queue, a) = {} => KindsOf(queue', a) = {}
  BY DEF NothingNew
<1>2. Unset'
  BY <1>1 DEF Unset
<1>3. OneOutstanding'
  BY <1>1 DEF OneOutstanding
<1> QED
  BY <1>2, <1>3

LEMMA QueueStep == QueueInv /\ [Next]_vars => QueueInv'
<1> SUFFICES ASSUME QueueInv, [Next]_vars PROVE QueueInv'
  OBVIOUS
<1>0. /\ TypeOK /\ TimerPhase /\ Owned /\ Unset /\ OneOutstanding
      /\ queue \in Seq(Entries) /\ None \notin Actions
  BY AlarmAssumption DEF QueueInv, TypeOK
<1>t. TypeOK'
  BY TypesStep
<1> DEFINE Rest == TimerPhase /\ Owned /\ Unset /\ OneOutstanding
<1> SUFFICES Rest'
  BY <1>t DEF QueueInv
<1>q. ASSUME queue' = queue PROVE \A a \in Actions : NothingNew(queue, queue', a)
  BY <1>q DEF NothingNew
<1>1. CASE NextEntry
  <2>1. /\ \A a : NothingNew(queue, queue', a)
        /\ \/ timer' = timer /\ queue' = queue
           \/ \E a \in Actions : /\ timer' = [at |-> "called", alarm |-> a]
                                 /\ KindsOf(queue', a) = {}
                                 /\ KindsOf(queue, a) # {}
    BY <1>0, <1>1, NextEntryTakes DEF OneOutstanding
  <2>2. /\ UNCHANGED <<pc, cur, target, cancelled>>
        /\ timer.alarm = None
    BY <1>0, <1>1 DEF NextEntry, TimerPhase, workerVars, alarmVars
  <2>3. CASE timer' = timer
    <3>1. Unset' /\ OneOutstanding'
      BY <1>0, <2>1, <2>2, <2>3, NothingNewKeeps
    <3> QED
      BY <1>0, <2>2, <2>3, <3>1 DEF TimerPhase, Owned
  <2>4. ASSUME NEW a \in Actions, timer' = [at |-> "called", alarm |-> a],
               KindsOf(queue', a) = {}, KindsOf(queue, a) # {}
        PROVE  Rest'
    <3>1. TimerPhase' /\ Owned'
      BY <1>0, <2>2, <2>4 DEF TimerPhase, Owned
    <3>2. \A b \in Actions : /\ AtMostOne(queue, b) => AtMostOne(queue', b)
                             /\ KindsOf(queue, b) = {} => KindsOf(queue', b) = {}
      BY <2>1 DEF NothingNew
    <3>3. Unset'
      BY <1>0, <2>2, <2>4, <3>2 DEF Unset
    <3>4. OneOutstanding'
      BY <1>0, <2>4, <3>2 DEF OneOutstanding
    <3> QED
      BY <3>1, <3>3, <3>4
  <2> QED
    BY <2>1, <2>3, <2>4
<1>2. CASE Timeout
  <2>1. /\ UNCHANGED <<pc, cur, target, queue, cancelled>>
        /\ timer.at = "called" /\ timer' = [timer EXCEPT !.at = "inside"]
    BY <1>2 DEF Timeout, alarmVars
  <2>2. timer'.alarm = timer.alarm /\ timer'.at = "inside"
    BY <1>0, <2>1 DEF TypeOK
  <2>3. Unset' /\ OneOutstanding'
    BY <1>0, <1>q, <2>1, <2>2, NothingNewKeeps
  <2> QED
    BY <1>0, <2>1, <2>2, <2>3 DEF TimerPhase, Owned
<1>3. CASE TimeoutReturns
  <2>1. timer.alarm \in Actions
    BY <1>0, <1>3 DEF TypeOK, TimerPhase, TimeoutReturns
  <2>2. RepeatDelay \in 0 .. MaxDelay
    BY AlarmAssumption DEF RepeatDelay
  <2>3. /\ UNCHANGED <<pc, cur, target, cancelled>>
        /\ timer' = [at |-> "asleep", alarm |-> None]
        /\ RequestDelayedCallback(timer.alarm, "again", RepeatDelay)
    BY <1>3 DEF TimeoutReturns, workerVars
  <2>4. /\ \A b : b # timer.alarm => NothingNew(queue, queue', b)
        /\ KindsOf(queue, timer.alarm) = {} => AtMostOne(queue', timer.alarm)
    BY <1>0, <2>1, <2>2, <2>3, RequestEntry
  <2>5. \A b \in Actions \ {timer.alarm} :
          /\ AtMostOne(queue, b) => AtMostOne(queue', b)
          /\ KindsOf(queue, b) = {} => KindsOf(queue', b) = {}
    BY <2>4 DEF NothingNew
  <2>6. Unset'
    BY <1>0, <2>1, <2>3, <2>5 DEF Unset
  <2>7. OneOutstanding'
    BY <1>0, <2>1, <2>3, <2>4, <2>5 DEF OneOutstanding
  <2> QED
    BY <1>0, <2>3, <2>6, <2>7 DEF TimerPhase, Owned
<1>4. CASE Tick
  <2>1. UNCHANGED <<pc, cur, target, timer, cancelled>>
    BY <1>4 DEF Tick, workerVars, alarmVars
  <2>2. \A a \in Actions : NothingNew(queue, queue', a)
    BY <1>0, <1>4, TickKeeps DEF TypeOK
  <2>3. Unset' /\ OneOutstanding'
    BY <1>0, <2>1, <2>2, NothingNewKeeps
  <2> QED
    BY <1>0, <2>1, <2>3 DEF TimerPhase, Owned
<1>5. ASSUME NEW w \in Workers, NEW a \in Actions, SetAlarm(w, a)
      PROVE  Rest'
  <2>1. PICK delay \in 1 .. MaxDelay : RequestDelayedCallback(a, "first", delay)
    BY <1>5 DEF SetAlarm
  <2>2. delay \in 0 .. MaxDelay
    BY AlarmAssumption
  <2>3. /\ \A b : b # a => NothingNew(queue, queue', b)
        /\ KindsOf(queue, a) = {} => AtMostOne(queue', a)
    BY <1>0, <2>1, <2>2, RequestEntry
  <2>4. /\ target[a] = None /\ UNCHANGED <<timer, cancelled>>
        /\ pc' = [pc EXCEPT ![w] = "constructing"]
        /\ cur' = [cur EXCEPT ![w] = a]
        /\ target' = [target EXCEPT ![a] = w]
    BY <1>5 DEF SetAlarm
  <2>5. \A b \in Actions \ {a} :
          /\ AtMostOne(queue, b) => AtMostOne(queue', b)
          /\ KindsOf(queue, b) = {} => KindsOf(queue', b) = {}
          /\ target'[b] = target[b]
    BY <1>0, <2>3, <2>4 DEF NothingNew, TypeOK
  <2>6. target'[a] = w /\ w # None
    BY <1>0, <2>4, AlarmAssumption DEF TypeOK
  <2>7. Owned'
    <3> SUFFICES ASSUME NEW x \in Workers, pc'[x] # "idle"
                 PROVE  cur'[x] \in Actions /\ target'[cur'[x]] = x
      BY DEF Owned
    <3>1. CASE x = w
      BY <1>0, <2>4, <2>6, <3>1 DEF TypeOK
    <3>2. CASE x # w
      <4>1. pc'[x] = pc[x] /\ cur'[x] = cur[x]
        BY <1>0, <2>4, <3>2 DEF TypeOK
      <4>2. cur[x] \in Actions /\ target[cur[x]] = x
        BY <1>0, <4>1 DEF Owned
      <4>3. cur[x] # a
        BY <2>4, <4>2, AlarmAssumption
      <4> QED
        BY <2>5, <4>1, <4>2, <4>3
    <3> QED
      BY <3>1, <3>2
  <2>8. Unset'
    BY <1>0, <2>4, <2>5, <2>6 DEF Unset
  <2>9. OneOutstanding'
    <3>1. KindsOf(queue, a) = {} /\ timer.alarm # a
      BY <1>0, <2>4 DEF Unset
    <3> QED
      BY <1>0, <2>3, <2>4, <2>5, <3>1 DEF OneOutstanding
  <2> QED
    BY <1>0, <2>4, <2>7, <2>8, <2>9 DEF TimerPhase
<1>6. ASSUME NEW w \in Workers,
             \/ AlarmConstructed(w) \/ ActionReturns(w)
             \/ ActionInterrupted(w) \/ InterruptIgnored(w)
      PROVE  Rest'
  <2>1. /\ UNCHANGED <<cur, target, queue, timer, cancelled>>
        /\ pc[w] \in {"constructing", "running"}
        /\ \A x \in Workers : pc'[x] # "idle" => pc[x] # "idle"
    BY <1>0, <1>6 DEF TypeOK, AlarmConstructed, ActionReturns,
         ActionInterrupted, InterruptIgnored, alarmVars, timerVars
  <2>2. Unset' /\ OneOutstanding'
    BY <1>0, <1>q, <2>1, NothingNewKeeps
  <2> QED
    BY <1>0, <2>1, <2>2 DEF TimerPhase, Owned
<1>7. ASSUME NEW w \in Workers, CancelAlarm(w) PROVE Rest'
  <2>1. /\ UNCHANGED <<cur, target, timer>> /\ Cancel(cur[w])
        /\ pc[w] \in {"ending", "failing"}
        /\ cancelled' = cancelled \cup {cur[w]}
        /\ \A x \in Workers : pc'[x] # "idle" => pc[x] # "idle"
    BY <1>0, <1>7 DEF TypeOK, CancelAlarm, alarmVars
  <2>2. \A b : NothingNew(queue, queue', b)
    BY <1>0, <2>1, CancelEntry
  <2>3. \A b \in Actions : /\ AtMostOne(queue, b) => AtMostOne(queue', b)
                           /\ KindsOf(queue, b) = {} => KindsOf(queue', b) = {}
    BY <2>2 DEF NothingNew
  <2>4. target[cur[w]] # None
    BY <1>0, <2>1, AlarmAssumption DEF Owned
  <2>5. Unset'
    BY <1>0, <2>1, <2>3, <2>4 DEF Unset
  <2>6. OneOutstanding'
    BY <1>0, <2>1, <2>3 DEF OneOutstanding
  <2> QED
    BY <1>0, <2>1, <2>5, <2>6 DEF TimerPhase, Owned
<1>8. ASSUME NEW w \in Workers, ScriptEnds(w) PROVE Rest'
  <2>1. /\ UNCHANGED <<target, queue, timer, cancelled>>
        /\ pc' = [pc EXCEPT ![w] = "idle"]
        /\ cur' = [cur EXCEPT ![w] = None]
    BY <1>8 DEF ScriptEnds, alarmVars, timerVars
  <2>2. Unset' /\ OneOutstanding'
    BY <1>0, <1>q, <2>1, NothingNewKeeps
  <2>3. Owned'
    BY <1>0, <2>1 DEF Owned, TypeOK
  <2> QED
    BY <1>0, <2>1, <2>2, <2>3 DEF TimerPhase
<1>9. CASE UNCHANGED vars
  <2>1. UNCHANGED <<pc, cur, target, queue, timer, cancelled>>
    BY <1>9 DEF vars, workerVars, alarmVars, timerVars
  <2>2. Unset' /\ OneOutstanding'
    BY <1>0, <1>q, <2>1, NothingNewKeeps
  <2> QED
    BY <1>0, <2>1, <2>2 DEF TimerPhase, Owned
<1> QED
  BY <1>1, <1>2, <1>3, <1>4, <1>5, <1>6, <1>7, <1>8, <1>9 DEF Next, TimerStep

-----------------------------------------------------------------------------
(* What cancel() leaves behind                                             *)

(* A step of the others: no new entries, the fields of the alarms as they   *)
(* were, crossed at most grown.                                             *)
LEMMA OthersKeepKnown ==
  ASSUME EntryKnown,
         \A a : KindsOf(queue', a) \subseteq KindsOf(queue, a),
         entry' = entry, crossed \subseteq crossed', timer' = timer,
         NEW x \in Workers, cur'[x] = cur[x], pc'[x] \in Pending,
         pc[x] \in Pending, pc'[x] = "constructing" <=> pc[x] = "constructing",
         cur'[x] \notin crossed'
  PROVE  /\ KindsOf(queue', cur'[x]) \subseteq
              {IF pc'[x] = "constructing" THEN "first" ELSE entry'[cur'[x]]}
         /\ pc'[x] = "constructing" => ~(timer'.at = "inside" /\ timer'.alarm = cur'[x])
<1>1. cur[x] \notin crossed
  OBVIOUS
<1>2. /\ KindsOf(queue, cur[x]) \subseteq
           {IF pc[x] = "constructing" THEN "first" ELSE entry[cur[x]]}
      /\ pc[x] = "constructing" => ~(timer.at = "inside" /\ timer.alarm = cur[x])
  BY <1>1 DEF EntryKnown
<1> QED
  BY <1>2

LEMMA KnownStep == AlarmInv /\ [Next]_vars => EntryKnown' /\ CancelledGone'
<1> SUFFICES ASSUME AlarmInv, [Next]_vars PROVE EntryKnown' /\ CancelledGone'
  OBVIOUS
<1>0. /\ TypeOK /\ TimerPhase /\ Owned /\ Unset /\ OneOutstanding
      /\ EntryKnown /\ CancelledGone
      /\ queue \in Seq(Entries) /\ None \notin Actions
  BY AlarmAssumption DEF AlarmInv, QueueInv, TypeOK
<1> DEFINE Known(x) ==
      /\ KindsOf(queue, cur[x]) \subseteq
           {IF pc[x] = "constructing" THEN "first" ELSE entry[cur[x]]}
      /\ pc[x] = "constructing" => ~(timer.at = "inside" /\ timer.alarm = cur[x])
<1>k. \A x \in Workers : pc[x] \in Pending /\ cur[x] \notin crossed => Known(x)
  BY <1>0 DEF EntryKnown
<1>p. \A x \in Workers : pc[x] \in Pending => cur[x] \in Actions /\ target[cur[x]] = x
  BY <1>0 DEF Pending, Owned
<1>1. CASE NextEntry
  <2>1. /\ \A a : KindsOf(queue', a) \subseteq KindsOf(queue, a)
        /\ \/ timer' = timer /\ queue' = queue
           \/ \E a \in Actions : /\ timer' = [at |-> "called", alarm |-> a]
                                 /\ KindsOf(queue', a) = {}
                                 /\ KindsOf(queue, a) # {}
    BY <1>0, <1>1, NextEntryTakes DEF OneOutstanding, NothingNew
  <2>2. UNCHANGED <<pc, cur, entry, cancelled, crossed>>
    BY <1>1 DEF NextEntry, workerVars, alarmVars
  <2>3. timer' = timer \/ timer'.at = "called"
    BY <2>1
  <2>4. EntryKnown'
    <3> SUFFICES ASSUME NEW x \in Workers, pc[x] \in Pending, cur[x] \notin crossed
                 PROVE  Known(x)'
      BY <2>2 DEF EntryKnown
    <3> QED
      BY <1>k, <2>1, <2>2, <2>3
  <2>5. CancelledGone'
    <3> SUFFICES ASSUME NEW a \in cancelled \ crossed
                 PROVE  KindsOf(queue', a) = {} /\ timer'.alarm # a
      BY <2>2 DEF CancelledGone
    <3>1. KindsOf(queue, a) = {} /\ timer.alarm # a
      BY <1>0 DEF CancelledGone
    <3> QED
      BY <2>1, <3>1
  <2> QED
    BY <2>4, <2>5
<1>2. CASE Timeout
  <2>1. /\ UNCHANGED <<pc, cur, entry, queue, cancelled>>
        /\ timer' = [timer EXCEPT !.at = "inside"]
        /\ crossed \subseteq crossed'
        /\ \A x \in Workers : pc[x] = "constructing" /\ cur[x] = timer.alarm
                                => cur[x] \in crossed'
    BY <1>2 DEF Timeout, alarmVars
  <2>2. timer'.alarm = timer.alarm
    BY <1>0, <2>1 DEF TypeOK
  <2>3. EntryKnown'
    <3> SUFFICES ASSUME NEW x \in Workers, pc[x] \in Pending, cur[x] \notin crossed'
                 PROVE  Known(x)'
      BY <2>1 DEF EntryKnown
    <3>1. Known(x)
      BY <1>k, <2>1
    <3>2. pc[x] = "constructing" => cur[x] # timer.alarm
      BY <2>1
    <3> QED
      BY <2>1, <2>2, <3>1, <3>2
  <2>4. CancelledGone'
    BY <1>0, <2>1, <2>2 DEF CancelledGone
  <2> QED
    BY <2>3, <2>4
<1>3. CASE TimeoutReturns
  <2>1. timer.alarm \in Actions /\ timer.at = "inside"
    BY <1>0, <1>3 DEF TypeOK, TimerPhase, TimeoutReturns
  <2>2. RepeatDelay \in 0 .. MaxDelay
    BY AlarmAssumption DEF RepeatDelay
  <2>3. /\ UNCHANGED <<pc, cur, cancelled, crossed>>
        /\ timer' = [at |-> "asleep", alarm |-> None]
        /\ entry' = [entry EXCEPT ![timer.alarm] = "again"]
        /\ RequestDelayedCallback(timer.alarm, "again", RepeatDelay)
    BY <1>3 DEF TimeoutReturns, NewEntry, workerVars
  <2>4. /\ \A b : b # timer.alarm => KindsOf(queue', b) \subseteq KindsOf(queue, b)
        /\ KindsOf(queue, timer.alarm) = {} =>
             KindsOf(queue', timer.alarm) \subseteq {"again"}
    BY <1>0, <2>1, <2>2, <2>3, RequestEntry DEF NothingNew
  <2>5. KindsOf(queue', timer.alarm) \subseteq {"again"}
    BY <1>0, <2>1, <2>4 DEF OneOutstanding
  <2>6. EntryKnown'
    <3> SUFFICES ASSUME NEW x \in Workers, pc[x] \in Pending, cur[x] \notin crossed
                 PROVE  Known(x)'
      BY <2>3 DEF EntryKnown
    <3>1. Known(x)
      BY <1>k
    <3>2. CASE cur[x] = timer.alarm
      <4>1. pc[x] # "constructing"
        BY <2>1, <3>1, <3>2
      <4>2. entry'[cur[x]] = "again"
        BY <1>0, <2>1, <2>3, <3>2 DEF TypeOK
      <4> QED
        BY <2>3, <2>5, <3>2, <4>1, <4>2
    <3>3. CASE cur[x] # timer.alarm
      <4>1. entry'[cur[x]] = entry[cur[x]]
        BY <1>0, <1>p, <2>3, <3>3 DEF TypeOK
      <4> QED
        BY <2>3, <2>4, <3>1, <3>3, <4>1
    <3> QED
      BY <3>2, <3>3
  <2>7. CancelledGone'
    <3> SUFFICES ASSUME NEW a \in cancelled \ crossed
                 PROVE  KindsOf(queue', a) = {} /\ timer'.alarm # a
      BY <2>3 DEF CancelledGone
    <3>1. KindsOf(queue, a) = {} /\ timer.alarm # a /\ a \in Actions
      BY <1>0 DEF CancelledGone, TypeOK
    <3> QED
      BY <1>0, <2>3, <2>4, <3>1
  <2> QED
    BY <2>6, <2>7
<1>4. CASE Tick
  <2>1. UNCHANGED <<pc, cur, entry, timer, cancelled, crossed>>
    BY <1>4 DEF Tick, workerVars, alarmVars
  <2>2. \A a : KindsOf(queue', a) \subseteq KindsOf(queue, a)
    BY <1>0, <1>4, TickKeeps DEF TypeOK, NothingNew
  <2>3. EntryKnown'
    <3> SUFFICES ASSUME NEW x \in Workers, pc[x] \in Pending, cur[x] \notin crossed
                 PROVE  Known(x)'
      BY <2>1 DEF EntryKnown
    <3> QED
      BY <1>k, <2>1, <2>2
  <2>4. CancelledGone'
    <3> SUFFICES ASSUME NEW a \in cancelled \ crossed
                 PROVE  KindsOf(queue', a) = {} /\ timer.alarm # a
      BY <2>1 DEF CancelledGone
    <3> QED
      BY <1>0, <2>2 DEF CancelledGone
  <2> QED
    BY <2>3, <2>4
<1>5. ASSUME NEW w \in Workers, NEW a \in Actions, SetAlarm(w, a)
      PROVE  EntryKnown' /\ CancelledGone'
  <2>1. PICK delay \in 1 .. MaxDelay : RequestDelayedCallback(a, "first", delay)
    BY <1>5 DEF SetAlarm
  <2>2. delay \in 0 .. MaxDelay
    BY AlarmAssumption
  <2>3. /\ target[a] = None /\ UNCHANGED <<entry, timer, cancelled, crossed>>
        /\ pc' = [pc EXCEPT ![w] = "constructing"]
        /\ cur' = [cur EXCEPT ![w] = a]
    BY <1>5 DEF SetAlarm
  <2>4. KindsOf(queue, a) = {} /\ timer.alarm # a /\ a \notin cancelled
    BY <1>0, <2>3 DEF Unset
  <2>5. /\ \A b : b # a => KindsOf(queue', b) \subseteq KindsOf(queue, b)
        /\ KindsOf(queue', a) \subseteq {"first"}
    BY <1>0, <2>1, <2>2, <2>4, RequestEntry DEF NothingNew
  <2>6. EntryKnown'
    <3> SUFFICES ASSUME NEW x \in Workers, pc'[x] \in Pending, cur'[x] \notin crossed
                 PROVE  Known(x)'
      BY <2>3 DEF EntryKnown
    <3>1. CASE x = w
      <4>1. pc'[x] = "constructing" /\ cur'[x] = a
        BY <1>0, <2>3, <3>1 DEF TypeOK
      <4> QED
        BY <2>3, <2>4, <2>5, <4>1
    <3>2. CASE x # w
      <4>1. pc'[x] = pc[x] /\ cur'[x] = cur[x]
        BY <1>0, <2>3, <3>2 DEF TypeOK
      <4>2. cur[x] # a
        <5>1. target[cur[x]] = x
          BY <1>p, <4>1
        <5> QED
          BY <2>3, <5>1, AlarmAssumption
      <4> QED
        BY <1>k, <2>3, <2>5, <4>1, <4>2
    <3> QED
      BY <3>1, <3>2
  <2>7. CancelledGone'
    <3> SUFFICES ASSUME NEW b \in cancelled \ crossed
                 PROVE  KindsOf(queue', b) = {} /\ timer.alarm # b
      BY <2>3 DEF CancelledGone
    <3> QED
      BY <1>0, <2>4, <2>5 DEF CancelledGone
  <2> QED
    BY <2>6, <2>7
<1>6. ASSUME NEW w \in Workers, AlarmConstructed(w)
      PROVE  EntryKnown' /\ CancelledGone'
  <2>1. /\ UNCHANGED <<cur, queue, timer, cancelled, crossed>>
        /\ pc[w] = "constructing" /\ pc' = [pc EXCEPT ![w] = "running"]
        /\ entry' = [entry EXCEPT ![cur[w]] = "first"]
    BY <1>6 DEF AlarmConstructed, timerVars
  <2>2. pc[w] \in Pending
    BY <2>1 DEF Pending
  <2>3. EntryKnown'
    <3> SUFFICES ASSUME NEW x \in Workers, pc'[x] \in Pending, cur[x] \notin crossed
                 PROVE  Known(x)'
      BY <2>1 DEF EntryKnown
    <3>1. CASE x = w
      <4>1. Known(x)
        BY <1>k, <2>2, <3>1
      <4>2. pc'[x] = "running" /\ entry'[cur[x]] = "first"
        BY <1>0, <1>p, <2>1, <2>2, <3>1 DEF TypeOK
      <4> QED
        BY <2>1, <3>1, <4>1, <4>2
    <3>2. CASE x # w
      <4>1. pc'[x] = pc[x]
        BY <1>0, <2>1, <3>2 DEF TypeOK
      <4>2. cur[x] \in Actions /\ cur[x] # cur[w]
        BY <1>p, <2>2, <3>2, <4>1
      <4>3. entry'[cur[x]] = entry[cur[x]]
        BY <1>0, <2>1, <4>2 DEF TypeOK
      <4> QED
        BY <1>k, <2>1, <4>1, <4>3
    <3> QED
      BY <3>1, <3>2
  <2>4. CancelledGone'
    BY <1>0, <2>1 DEF CancelledGone
  <2> QED
    BY <2>3, <2>4
<1>7. ASSUME NEW w \in Workers,
             ActionReturns(w) \/ ActionInterrupted(w) \/ InterruptIgnored(w)
      PROVE  EntryKnown' /\ CancelledGone'
  <2>1. /\ UNCHANGED <<cur, entry, queue, timer, cancelled, crossed>>
        /\ \A x \in Workers : /\ pc'[x] \in Pending => pc[x] \in Pending
                              /\ pc'[x] = "constructing" <=> pc[x] = "constructing"
    BY <1>0, <1>7 DEF TypeOK, ActionReturns, ActionInterrupted,
         InterruptIgnored, Pending, alarmVars, timerVars
  <2>2. EntryKnown'
    BY <1>0, <2>1, OthersKeepKnown DEF EntryKnown
  <2>3. CancelledGone'
    BY <1>0, <2>1 DEF CancelledGone
  <2> QED
    BY <2>2, <2>3
<1>8. ASSUME NEW w \in Workers, CancelAlarm(w)
      PROVE  EntryKnown' /\ CancelledGone'
  <2>1. /\ UNCHANGED <<cur, entry, timer>> /\ Cancel(cur[w])
        /\ pc[w] \in {"ending", "failing"}
        /\ cancelled' = cancelled \cup {cur[w]}
        /\ crossed \subseteq crossed'
        /\ timer.alarm = cur[w] => cur[w] \in crossed'
    BY <1>8 DEF CancelAlarm, alarmVars
  <2>2. \A x \in Workers : /\ pc'[x] \in Pending => pc[x] \in Pending
                           /\ pc'[x] = "constructing" <=> pc[x] = "constructing"
    BY <1>0, <1>8 DEF TypeOK, CancelAlarm, Pending
  <2>3. /\ \A a : KindsOf(queue', a) \subseteq KindsOf(queue, a)
        /\ AtMostOne(queue, cur[w]) /\ KindsOf(queue, cur[w]) \subseteq {entry[cur[w]]}
             => KindsOf(queue', cur[w]) = {}
    BY <1>0, <2>1, CancelEntry DEF NothingNew
  <2>4. EntryKnown'
    BY <1>0, <2>1, <2>2, <2>3, OthersKeepKnown DEF EntryKnown
  <2>5. CancelledGone'
    <3> SUFFICES ASSUME NEW a \in cancelled' \ crossed'
                 PROVE  KindsOf(queue', a) = {} /\ timer.alarm # a
      BY <2>1 DEF CancelledGone
    <3>1. CASE a = cur[w]
      <4>1. pc[w] \in Pending /\ pc[w] # "constructing"
        BY <2>1 DEF Pending
      <4>2. Known(w)
        BY <1>k, <2>1, <3>1, <4>1
      <4>3. AtMostOne(queue, cur[w])
        BY <1>0, <1>p, <4>1 DEF OneOutstanding
      <4> QED
        BY <2>1, <2>3, <3>1, <4>1, <4>2, <4>3
    <3>2. CASE a # cur[w]
      BY <1>0, <2>1, <2>3, <3>2 DEF CancelledGone
    <3> QED
      BY <3>1, <3>2
  <2> QED
    BY <2>4, <2>5
<1>9. ASSUME NEW w \in Workers, ScriptEnds(w)
      PROVE  EntryKnown' /\ CancelledGone'
  <2>1. /\ UNCHANGED <<entry, queue, timer, cancelled, crossed>>
        /\ pc' = [pc EXCEPT ![w] = "idle"]
        /\ cur' = [cur EXCEPT ![w] = None]
    BY <1>9 DEF ScriptEnds, alarmVars, timerVars
  <2>2. \A x \in Workers : pc'[x] \in Pending => pc'[x] = pc[x] /\ cur'[x] = cur[x]
    BY <1>0, <2>1 DEF TypeOK, Pending
  <2>3. EntryKnown'
    BY <1>0, <2>1, <2>2, OthersKeepKnown DEF EntryKnown
  <2>4. CancelledGone'
    BY <1>0, <2>1 DEF CancelledGone
  <2> QED
    BY <2>3, <2>4
<1>10. CASE UNCHANGED vars
  BY <1>0, <1>10
     DEF EntryKnown, CancelledGone, vars, workerVars, alarmVars, timerVars
<1> QED
  BY <1>1, <1>2, <1>3, <1>4, <1>5, <1>6, <1>7, <1>8, <1>9, <1>10 DEF Next, TimerStep

-----------------------------------------------------------------------------
(* The theorems                                                            *)

(* Every behaviour of the timer and the scripts keeps the invariant: its    *)
(* types, who owns an alarm, what is outstanding, what the alarm's field    *)
(* refers to.                                                               *)
THEOREM AlarmInvariant == Spec => []AlarmInv
<1>1. Init => AlarmInv
  BY InitInv
<1>2. AlarmInv /\ [Next]_vars => AlarmInv'
  BY QueueStep, KnownStep DEF AlarmInv
<1> QED
  BY <1>1, <1>2, PTL DEF Spec

(* An alarm is never in the queue twice, nor in the queue while a callback  *)
(* of it is under way: timeout() asks again after its entry was taken, and  *)
(* setAlarm asks for a new alarm only.                                      *)
THEOREM OneCallback == Spec => []OneCallbackPerAlarm
<1>1. AlarmInv => OneCallbackPerAlarm
  <2> SUFFICES ASSUME AlarmInv, NEW a \in Actions, NEW i \in Queued(a), NEW j \in Queued(a)
               PROVE  i = j /\ timer.alarm # a
    BY DEF OneCallbackPerAlarm
  <2>1. i \in At(queue, a) /\ j \in At(queue, a)
    BY DEF Queued, At
  <2>2. KindsOf(queue, a) # {}
    BY <2>1 DEF KindsOf
  <2> QED
    BY <2>1, <2>2 DEF AlarmInv, QueueInv, OneOutstanding, AtMostOne
<1> QED
  BY <1>1, AlarmInvariant, PTL

(* cancel() ends an alarm for good unless a callback of it crossed cancel() *)
(* or the constructor: Alarm.entry refers to the entry that is queued.      *)
THEOREM CancelIsFinal == Spec => []CancelledLeavesQueue
<1>1. AlarmInv => CancelledLeavesQueue
  <2> SUFFICES ASSUME AlarmInv, NEW a \in cancelled \ crossed
               PROVE  Queued(a) = {} /\ timer.alarm # a
    BY DEF CancelledLeavesQueue
  <2>1. KindsOf(queue, a) = {} /\ timer.alarm # a
    BY DEF AlarmInv, CancelledGone
  <2>2. At(queue, a) = {}
    BY <2>1 DEF KindsOf
  <2> QED
    BY <2>1, <2>2 DEF Queued, At
<1> QED
  BY <1>1, AlarmInvariant, PTL

=============================================================================
