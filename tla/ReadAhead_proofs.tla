-------------------------- MODULE ReadAhead_proofs --------------------------
(***************************************************************************)
(* Theorems about ReadAhead, for every number of items and every mode,     *)
(* whether the source fails or not. The inductive invariant says where     *)
(* each item of the source is: with the consumer, in the queue, in the     *)
(* hands of the worker or still in the source, what may be missing after   *)
(* an Error, and what the worker's state says about the source.            *)
(***************************************************************************)
EXTENDS ReadAhead, TLAPS, SequenceTheorems

(* The last item that the worker, or next(), has passed on.                 *)
Released == IF worker = "putting" THEN pos - 1 ELSE pos

(* Also after the source has thrown: what is delivered, then what is        *)
(* queued, is in the order of the source, without a repetition.             *)
InOrder ==
  /\ usedCount = Len(delivered)
  /\ \A i, j \in 1 .. Len(delivered) : i < j => delivered[i] < delivered[j]
  /\ \A i \in 1 .. Len(delivered) : delivered[i] <= Released
  /\ \A i, j \in 1 .. Len(queue) : i < j => queue[i] < queue[j]
  /\ \A i \in 1 .. Len(queue) : queue[i] <= Released
  /\ \A i \in 1 .. Len(delivered), j \in 1 .. Len(queue) : delivered[i] < queue[j]
  /\ usedCount + Len(queue) <= Released

(* Until then the first usedCount items are delivered, the next ones queued *)
(* in order, one may be in the hands of the worker, the rest is in the      *)
(* source.                                                                  *)
Accounted ==
  ~failed => /\ \A i \in 1 .. Len(delivered) : delivered[i] = i
             /\ \A i \in 1 .. Len(queue) : queue[i] = usedCount + i
             /\ usedCount + Len(queue) = Released

(* sourceHasNext describes the source unless the worker holds an item; the  *)
(* worker goes on only as long as there is something to read. A worker that *)
(* ended because of an Error leaves sourceHasNext set.                      *)
WorkerKnows ==
  /\ worker = "putting" => /\ hand = [item |-> pos, more |-> pos < total]
                           /\ sourceHasNext
  /\ worker \in {"started", "reading", "waiting", "woken"}
       => sourceHasNext /\ pos < total
  /\ worker = "ending" => \/ ~sourceHasNext /\ pos = total
                          \/ sourceHasNext /\ pos < total /\ failed
  /\ worker = "none" /\ sourceHasNext => pos < total /\ failed

(* The consumer waits only where next() will not return null.               *)
ConsumerServed ==
  /\ pc = "hasNext" => HasNextAnswer
  /\ pc \in {"waiting", "woken", "spinning"} => queue # <<>> \/ sourceHasNext
  /\ pc = "noNext" /\ ~failed => Len(delivered) = total

Bounded ==
  /\ maxQueueSize = 0 => queue = <<>> /\ worker = "none" /\ ~failed
  /\ maxQueueSize > 0 => Len(queue) <= maxQueueSize
  /\ worker \in {"started", "reading", "putting"} => Len(queue) < maxQueueSize

RInv ==
  TypeOK /\ InOrder /\ Accounted /\ WorkerKnows /\ ConsumerServed /\ Bounded

-----------------------------------------------------------------------------
(* The sizes that setMode computes. *)
LEMMA ModeSizes ==
  ASSUME mode \in Modes
  PROVE  /\ minQueueSize \in Nat /\ maxQueueSize \in Nat
         /\ minQueueSize <= maxQueueSize
BY ReadAheadAssumption DEF minQueueSize, maxQueueSize

(* Putting an item at the end of the queue, and taking the first one.       *)
LEMMA QueueAppend ==
  ASSUME NEW S, NEW q \in Seq(S), NEW e \in S
  PROVE  /\ Append(q, e) \in Seq(S)
         /\ Len(Append(q, e)) = Len(q) + 1
         /\ \A i \in 1 .. Len(q) : Append(q, e)[i] = q[i]
         /\ Append(q, e)[Len(q) + 1] = e
BY AppendProperties

LEMMA QueueTail ==
  ASSUME NEW S, NEW q \in Seq(S), q # <<>>
  PROVE  /\ Head(q) \in S /\ Head(q) = q[1]
         /\ Tail(q) \in Seq(S)
         /\ Len(q) \in Nat \ {0}
         /\ Len(Tail(q)) = Len(q) - 1
         /\ \A i \in 1 .. Len(q) - 1 : Tail(q)[i] = q[i + 1]
BY HeadTailProperties, EmptySeq

-----------------------------------------------------------------------------
LEMMA RInit == Init => RInv
<1> SUFFICES ASSUME Init PROVE RInv
  OBVIOUS
<1>1. /\ total \in Nat /\ total \in 0 .. MaxItems /\ mode \in Modes
      /\ <<>> \in Seq(1 .. total) /\ Len(<<>>) = 0
  BY ReadAheadAssumption, EmptySeq DEF Init
<1>2. TypeOK
  <2>1. hand \in [item : 0 .. total, more : BOOLEAN] /\ 0 \in 0 .. total
    BY <1>1 DEF Init
  <2> QED BY <1>1, <2>1 DEF Init, TypeOK, WorkerStates, ConsumerStates
<1>3. InOrder /\ Accounted
  BY <1>1 DEF Init, InOrder, Accounted, Released
<1>4. WorkerKnows /\ ConsumerServed
  BY DEF Init, WorkerKnows, ConsumerServed
<1>5. Bounded
  BY <1>1, ModeSizes DEF Init, Bounded
<1> QED BY <1>2, <1>3, <1>4, <1>5 DEF RInv

(* The numbers in which the steps below calculate.                          *)
LEMMA Quantities ==
  ASSUME RInv
  PROVE  /\ total \in Nat /\ total \in 0 .. MaxItems /\ mode \in Modes
         /\ pos \in 0 .. total /\ Released \in 0 .. total
         /\ delivered \in Seq(1 .. total) /\ queue \in Seq(1 .. total)
         /\ Len(delivered) \in Nat /\ Len(queue) \in Nat
         /\ usedCount = Len(delivered)
         /\ usedCount + Len(queue) <= Released
         /\ worker \in WorkerStates /\ pc \in ConsumerStates
         /\ (queue = <<>> <=> Len(queue) = 0)
         /\ minQueueSize \in Nat /\ maxQueueSize \in Nat
<1>1. /\ total \in Nat /\ total \in 0 .. MaxItems /\ mode \in Modes
      /\ pos \in 0 .. total
      /\ delivered \in Seq(1 .. total) /\ queue \in Seq(1 .. total)
      /\ worker \in WorkerStates /\ pc \in ConsumerStates
  BY ReadAheadAssumption DEF RInv, TypeOK
<1>2. /\ Len(delivered) \in Nat /\ Len(queue) \in Nat
      /\ (queue = <<>> <=> Len(queue) = 0)
  BY <1>1, LenProperties, EmptySeq
<1>3. usedCount = Len(delivered) /\ usedCount + Len(queue) <= Released
  BY DEF RInv, InOrder
<1>4. Released \in 0 .. total
  BY <1>1, <1>2, <1>3 DEF Released
<1> QED BY <1>1, <1>2, <1>3, <1>4, ModeSizes

(* An index of a sequence with one more element.                            *)
LEMMA LastOrBefore ==
  ASSUME NEW n \in Nat, NEW i \in 1 .. (n + 1)
  PROVE  i \in 1 .. n \/ i = n + 1
OBVIOUS

(* An item behind all that have been delivered is delivered in order.       *)
LEMMA OrderKept ==
  ASSUME NEW n \in Nat, NEW d \in Seq(1 .. n), NEW e \in 1 .. n,
         \A i, j \in 1 .. Len(d) : i < j => d[i] < d[j],
         \A i \in 1 .. Len(d) : d[i] < e
  PROVE  /\ Append(d, e) \in Seq(1 .. n)
         /\ Len(Append(d, e)) = Len(d) + 1
         /\ Append(d, e)[Len(d) + 1] = e
         /\ \A i \in 1 .. Len(d) : Append(d, e)[i] = d[i]
         /\ \A i, j \in 1 .. Len(Append(d, e)) :
              i < j => Append(d, e)[i] < Append(d, e)[j]
         /\ \A i \in 1 .. Len(Append(d, e)) : Append(d, e)[i] <= e
<1> DEFINE f == Append(d, e)
<1>1. /\ f \in Seq(1 .. n) /\ Len(f) = Len(d) + 1
      /\ \A i \in 1 .. Len(d) : f[i] = d[i]
      /\ f[Len(d) + 1] = e
  BY QueueAppend
<1>2. Len(d) \in Nat /\ \A i \in 1 .. Len(d) : d[i] \in 1 .. n
  BY LenProperties, ElementOfSeq
<1> HIDE DEF f
<1>3. ASSUME NEW i \in 1 .. Len(f), NEW j \in 1 .. Len(f), i < j
      PROVE  f[i] < f[j]
  <2>1. Len(d) \in Nat /\ i \in 1 .. (Len(d) + 1) /\ j \in 1 .. (Len(d) + 1)
    BY <1>1, <1>2
  <2>2. /\ i \in 1 .. Len(d) \/ i = Len(d) + 1
        /\ j \in 1 .. Len(d) \/ j = Len(d) + 1
    BY <2>1, LastOrBefore
  <2>3. i \in 1 .. Len(d)
    BY <1>3, <2>1, <2>2
  <2>4. CASE j \in 1 .. Len(d)
    BY <1>1, <1>3, <2>3, <2>4
  <2>5. CASE j = Len(d) + 1
    BY <1>1, <2>3, <2>5
  <2> QED BY <2>2, <2>4, <2>5
<1>4. ASSUME NEW i \in 1 .. Len(f)
      PROVE  f[i] <= e
  <2>1. Len(d) \in Nat /\ i \in 1 .. (Len(d) + 1)
    BY <1>1, <1>2
  <2>2. i \in 1 .. Len(d) \/ i = Len(d) + 1
    BY <2>1, LastOrBefore
  <2>3. CASE i \in 1 .. Len(d)
    <3>1. f[i] = d[i] /\ d[i] \in 1 .. n /\ d[i] < e
      BY <1>1, <1>2, <2>3
    <3> QED BY <3>1
  <2>4. CASE i = Len(d) + 1
    BY <1>1, <2>4
  <2> QED BY <2>2, <2>3, <2>4
<1>5. \A i, j \in 1 .. Len(f) : i < j => f[i] < f[j]
  BY <1>3
<1>6. \A i \in 1 .. Len(f) : f[i] <= e
  BY <1>4
<1> QED BY <1>1, <1>5, <1>6 DEF f

(* The consumer takes the first item of the queue: it is behind everything  *)
(* delivered, and the next one unless the source has thrown.                *)
LEMMA DeliverFirst ==
  ASSUME RInv, queue # <<>>, DeliverHead, UNCHANGED <<sourceVars, sourceHasNext, hand, intr>>,
         worker' = worker \/ (worker = "waiting" /\ worker' = "woken")
  PROVE  /\ RInv'
         /\ Head(queue) \in 1 .. total
         /\ delivered' = Append(delivered, Head(queue))
         /\ \A i \in 1 .. Len(delivered) : delivered[i] < Head(queue)
         /\ ~failed => Head(queue) = Len(delivered) + 1
<1> USE ReadAheadAssumption
<1>1. /\ delivered \in Seq(1 .. total) /\ queue \in Seq(1 .. total)
      /\ pos \in 0 .. total /\ total \in Nat /\ Released \in 0 .. total
      /\ usedCount = Len(delivered) /\ Len(delivered) \in Nat
      /\ usedCount + Len(queue) <= Released
  BY Quantities
<1>2. /\ Head(queue) \in 1 .. total /\ Head(queue) = queue[1]
      /\ Len(queue) \in Nat \ {0}
  BY <1>1, QueueTail
<1>3. /\ delivered' = Append(delivered, Head(queue)) /\ queue' = Tail(queue)
      /\ usedCount' = usedCount + 1 /\ pc' = "idle"
      /\ total' = total /\ mode' = mode /\ pos' = pos /\ failed' = failed
      /\ sourceHasNext' = sourceHasNext /\ hand' = hand /\ intr' = intr
      /\ Released' = Released
  BY DEF DeliverHead, Deliver, sourceVars, Released
<1>4. /\ \A i \in 1 .. Len(delivered) : delivered[i] < Head(queue)
      /\ \A i, j \in 1 .. Len(delivered) : i < j => delivered[i] < delivered[j]
      /\ \A i, j \in 1 .. Len(queue) : i < j => queue[i] < queue[j]
      /\ \A i \in 1 .. Len(queue) : queue[i] <= Released
  BY <1>2 DEF RInv, InOrder
<1>5. /\ delivered' \in Seq(1 .. total) /\ Len(delivered') = Len(delivered) + 1
      /\ delivered'[Len(delivered) + 1] = Head(queue)
      /\ \A i \in 1 .. Len(delivered) : delivered'[i] = delivered[i]
      /\ \A i, j \in 1 .. Len(delivered') : i < j => delivered'[i] < delivered'[j]
      /\ \A i \in 1 .. Len(delivered') : delivered'[i] <= Head(queue)
  BY <1>1, <1>2, <1>3, <1>4, OrderKept
<1>6. /\ queue' \in Seq(1 .. total) /\ Len(queue') = Len(queue) - 1
      /\ \A i \in 1 .. Len(queue') : /\ queue'[i] = queue[i + 1]
                                     /\ i + 1 \in 1 .. Len(queue)
  <2>1. /\ queue' \in Seq(1 .. total) /\ Len(queue') = Len(queue) - 1
        /\ \A i \in 1 .. Len(queue) - 1 : queue'[i] = queue[i + 1]
    BY <1>1, <1>3, QueueTail
  <2> QED BY <1>2, <2>1
<1>7. TypeOK'
  BY SMTT(30), <1>1, <1>2, <1>3, <1>5, <1>6
  DEF RInv, TypeOK, WorkerStates, ConsumerStates
<1>8. InOrder'
  <2>1. \A i \in 1 .. Len(delivered') : delivered'[i] \in 1 .. total
    BY <1>5, ElementOfSeq
  <2>2. \A i \in 1 .. Len(queue) : queue[i] \in 1 .. total
    BY <1>1, ElementOfSeq
  <2>3. \A i \in 1 .. Len(delivered') : delivered'[i] <= Released'
    BY <1>1, <1>2, <1>3, <1>4, <1>5, <2>1
  <2>4. \A i, j \in 1 .. Len(queue') : i < j => queue'[i] < queue'[j]
    BY <1>2, <1>4, <1>6
  <2>5. \A i \in 1 .. Len(queue') : queue'[i] <= Released'
    BY <1>3, <1>4, <1>6
  <2>6. ASSUME NEW i \in 1 .. Len(delivered'), NEW j \in 1 .. Len(queue')
        PROVE  delivered'[i] < queue'[j]
    <3>1. Head(queue) < queue'[j]
      BY <1>2, <1>4, <1>6
    <3>2. queue'[j] \in 1 .. total
      BY <1>6, <2>2
    <3> QED BY <1>2, <1>5, <2>1, <3>1, <3>2
  <2>7. usedCount' = Len(delivered') /\ usedCount' + Len(queue') <= Released'
    BY <1>1, <1>2, <1>3, <1>5, <1>6
  <2> QED BY <1>5, <2>3, <2>4, <2>5, <2>6, <2>7 DEF InOrder
<1>9. ~failed => Head(queue) = Len(delivered) + 1
  BY <1>1, <1>2 DEF RInv, Accounted
<1>10. Accounted'
  <2> SUFFICES ASSUME ~failed PROVE Accounted'
    BY <1>3 DEF Accounted
  <2>1. /\ \A i \in 1 .. Len(delivered) : delivered[i] = i
        /\ \A i \in 1 .. Len(queue) : queue[i] = usedCount + i
        /\ usedCount + Len(queue) = Released
    BY DEF RInv, Accounted
  <2>2. ASSUME NEW i \in 1 .. Len(delivered') PROVE delivered'[i] = i
    <3>1. i \in 1 .. Len(delivered) \/ i = Len(delivered) + 1
      BY <1>1, <1>5, LastOrBefore
    <3> QED BY <1>5, <1>9, <2>1, <3>1
  <2>3. \A i \in 1 .. Len(queue') : queue'[i] = usedCount' + i
    <3>1. usedCount \in Nat /\ usedCount' = usedCount + 1
      BY <1>1, <1>3
    <3> QED BY <1>6, <2>1, <3>1
  <2>4. usedCount' + Len(queue') = Released'
    <3>1. /\ usedCount' = usedCount + 1 /\ Len(queue') = Len(queue) - 1
          /\ Released' = Released
      BY <1>3, <1>6
    <3>2. usedCount \in Nat /\ Len(queue) \in Nat
      BY <1>1, <1>2
    <3> QED BY <2>1, <3>1, <3>2
  <2> QED BY <2>2, <2>3, <2>4 DEF Accounted
<1>11. WorkerKnows'
  BY <1>3 DEF RInv, WorkerKnows
<1>12. ConsumerServed'
  BY <1>3 DEF ConsumerServed
<1>13. Bounded'
  BY <1>2, <1>3, <1>6, ModeSizes DEF RInv, TypeOK, Bounded, maxQueueSize
<1> QED
  BY <1>2, <1>3, <1>4, <1>7, <1>8, <1>9, <1>10, <1>11, <1>12, <1>13 DEF RInv

(* What hasNext() answers, wherever the worker is.                          *)
LEMMA AnswerIsRight ==
  ASSUME RInv, ~failed
  PROVE  HasNextAnswer <=> Len(delivered) < total
<1>1. /\ total \in Nat /\ pos \in 0 .. total /\ worker \in WorkerStates
      /\ Len(delivered) \in Nat /\ Len(queue) \in Nat
      /\ (queue = <<>> <=> Len(queue) = 0)
  BY Quantities
<1>2. pos = Len(delivered) + Len(queue) + (IF worker = "putting" THEN 1 ELSE 0)
  <2>1. usedCount = Len(delivered)
    BY Quantities
  <2>2. usedCount + Len(queue) = IF worker = "putting" THEN pos - 1 ELSE pos
    BY DEF RInv, Accounted, Released
  <2> QED BY <1>1, <2>1, <2>2
<1>3. CASE worker = "none"
  BY <1>1, <1>2, <1>3 DEF HasNextAnswer, SourceHasNext
<1>4. CASE worker = "putting"
  BY <1>1, <1>2, <1>4 DEF HasNextAnswer, RInv, WorkerKnows
<1>5. CASE worker \in WorkerStates \ {"none", "putting"}
  <2>1. (sourceHasNext /\ pos < total) \/ (~sourceHasNext /\ pos = total)
    BY <1>5 DEF RInv, WorkerKnows, WorkerStates
  <2> QED BY <1>1, <1>2, <1>5, <2>1 DEF HasNextAnswer
<1> QED BY <1>1, <1>3, <1>4, <1>5 DEF WorkerStates

(* next() takes an item from the source only in mode NONE, where no worker  *)
(* ever throws.                                                             *)
LEMMA SourceInNone ==
  ASSUME RInv, NextFromSource
  PROVE  /\ ~failed /\ queue = <<>> /\ worker = "none"
         /\ pos = Len(delivered) /\ pos < total
         /\ \A i \in 1 .. Len(delivered) : delivered[i] = i
<1>1. /\ ~failed /\ queue = <<>> /\ worker = "none" /\ pos < total
  BY DEF NextFromSource, SourceHasNext, RInv, Bounded
<1> QED BY <1>1, Quantities DEF RInv, Accounted, Released

(* next() that finds the queue empty starts or awakes the worker, and waits:*)
(* hasNext() has answered true, and the worker has not reached the end of   *)
(* the source since without an item in the queue.                           *)
LEMMA WaitsForWorker ==
  ASSUME RInv, queue = <<>>
  PROVE  /\ pc = "hasNext" /\ worker = "none" => SourceHasNext
         /\ pc = "hasNext" /\ worker # "none" => sourceHasNext
         /\ pc \in {"waiting", "woken"} => sourceHasNext
BY DEF RInv, ConsumerServed, HasNextAnswer

-----------------------------------------------------------------------------
(* One case per action.                                                     *)
LEMMA RNext ==
  ASSUME RInv, [Next]_vars
  PROVE  RInv'
<1> USE ReadAheadAssumption
<1>0. /\ total \in Nat /\ total \in 0 .. MaxItems /\ mode \in Modes
      /\ pos \in 0 .. total /\ Released \in 0 .. total
      /\ delivered \in Seq(1 .. total) /\ queue \in Seq(1 .. total)
      /\ Len(delivered) \in Nat /\ Len(queue) \in Nat
      /\ usedCount = Len(delivered)
      /\ usedCount + Len(queue) <= Released
      /\ (queue = <<>> <=> Len(queue) = 0)
      /\ minQueueSize \in Nat /\ maxQueueSize \in Nat
  BY Quantities
<1>1. CASE HasNext
  <2>1. TypeOK'
    BY <1>1 DEF HasNext, sourceVars, RInv, TypeOK, ConsumerStates
  <2>2. InOrder' /\ Accounted' /\ WorkerKnows' /\ Bounded'
    BY <1>1 DEF HasNext, sourceVars, RInv, InOrder, Accounted, WorkerKnows,
                Bounded, maxQueueSize, Released
  <2>3. ~failed => (HasNextAnswer <=> Len(delivered) < total)
    BY AnswerIsRight
  <2>4. Len(delivered) <= total
    BY <1>0
  <2>5. HasNextAnswer' <=> HasNextAnswer
    BY <1>1 DEF HasNext, sourceVars, HasNextAnswer, SourceHasNext
  <2>6. /\ pc' = IF HasNextAnswer THEN "hasNext" ELSE "noNext"
        /\ UNCHANGED <<total, delivered, failed>>
    BY <1>1 DEF HasNext, sourceVars
  <2>7. ConsumerServed'
    <3>1. pc' = "hasNext" => HasNextAnswer'
      BY <2>5, <2>6
    <3>2. pc' \notin {"waiting", "woken", "spinning"}
      BY <2>6
    <3>3. pc' = "noNext" /\ ~failed => Len(delivered) = total
      BY <1>0, <2>3, <2>4, <2>6
    <3> QED BY <2>6, <3>1, <3>2, <3>3 DEF ConsumerServed
  <2> QED BY <2>1, <2>2, <2>7 DEF RInv
<1>2. CASE NextFromQueue
  BY <1>2, DeliverFirst
  DEF NextFromQueue, WakeWorker, sourceVars
<1>3. CASE NextFromSource
  <2>1. /\ ~failed /\ queue = <<>> /\ worker = "none"
        /\ pos = Len(delivered) /\ pos < total
        /\ \A i \in 1 .. Len(delivered) : delivered[i] = i
    BY <1>3, SourceInNone
  <2>2. /\ pos' = pos + 1 /\ pos + 1 \in 1 .. total /\ pc' = "idle"
        /\ delivered' = Append(delivered, pos + 1) /\ usedCount' = usedCount + 1
        /\ UNCHANGED <<total, mode, failed, queue, sourceHasNext, worker, hand, intr>>
    BY <1>0, <1>3, <2>1 DEF NextFromSource, Deliver
  <2>3. /\ delivered' \in Seq(1 .. total) /\ Len(delivered') = Len(delivered) + 1
        /\ \A i \in 1 .. Len(delivered) : delivered'[i] = delivered[i]
        /\ delivered'[Len(delivered) + 1] = Len(delivered) + 1
    BY <1>0, <2>1, <2>2, QueueAppend
  <2>4. TypeOK'
    BY <1>0, <2>1, <2>2, <2>3 DEF RInv, TypeOK, ConsumerStates
  <2>5. ASSUME NEW i \in 1 .. Len(delivered') PROVE delivered'[i] = i
    <3>1. i \in 1 .. Len(delivered) \/ i = Len(delivered) + 1
      BY <1>0, <2>3, LastOrBefore
    <3> QED BY <2>1, <2>3, <3>1
  <2>6. /\ Len(queue') = 0 /\ Released' = usedCount' /\ usedCount' = Len(delivered')
        /\ Released' \in Nat
    BY <1>0, <2>1, <2>2, <2>3 DEF Released
  <2>7. InOrder' /\ Accounted'
    BY <2>5, <2>6 DEF InOrder, Accounted
  <2>8. WorkerKnows' /\ ConsumerServed' /\ Bounded'
    BY <2>1, <2>2 DEF RInv, WorkerKnows, ConsumerServed, Bounded, maxQueueSize
  <2> QED BY <2>4, <2>7, <2>8 DEF RInv
<1>4. CASE NextStartsWorker
  <2>1. SourceHasNext /\ pos < total
    BY <1>4, WaitsForWorker DEF NextStartsWorker, SourceHasNext
  <2>2. /\ sourceHasNext' = TRUE /\ worker' = "started"
        /\ pc' \in {"waiting", "spinning"} /\ queue = <<>>
        /\ maxQueueSize > 0 /\ worker = "none"
        /\ UNCHANGED <<sourceVars, queue, hand, intr, delivered, usedCount>>
    BY <1>4, <2>1 DEF NextStartsWorker, WaitLoop
  <2>3. TypeOK'
    BY <2>2 DEF sourceVars, RInv, TypeOK, ConsumerStates, WorkerStates
  <2>4. InOrder' /\ Accounted'
    BY <2>2 DEF sourceVars, RInv, InOrder, Accounted, Released
  <2>5. WorkerKnows' /\ ConsumerServed'
    BY <2>1, <2>2 DEF sourceVars, WorkerKnows, ConsumerServed
  <2>6. Bounded'
    BY <1>0, <2>2 DEF sourceVars, Bounded, maxQueueSize
  <2> QED BY <2>3, <2>4, <2>5, <2>6 DEF RInv
<1>5. CASE NextWakesWorker
  <2>1. /\ queue = <<>> /\ worker # "none" /\ pc = "hasNext"
        /\ worker' = worker \/ (worker = "waiting" /\ worker' = "woken")
        /\ UNCHANGED <<sourceVars, queue, sourceHasNext, hand, intr, delivered,
                       usedCount>>
    BY <1>5 DEF NextWakesWorker, WakeWorker
  <2>2. sourceHasNext
    BY <2>1, WaitsForWorker
  <2>3. pc' \in {"waiting", "spinning"}
    BY <1>5, <2>2 DEF NextWakesWorker, WaitLoop
  <2>4. TypeOK'
    BY <2>1, <2>3 DEF sourceVars, RInv, TypeOK, ConsumerStates, WorkerStates
  <2>5. InOrder' /\ Accounted' /\ WorkerKnows'
    BY <2>1 DEF sourceVars, RInv, InOrder, Accounted, WorkerKnows, Released
  <2>6. ConsumerServed' /\ Bounded'
    BY <2>1, <2>2, <2>3
    DEF sourceVars, RInv, ConsumerServed, Bounded, maxQueueSize
  <2> QED BY <2>4, <2>5, <2>6 DEF RInv
<1>6. CASE Woken
  <2>1. CASE queue # <<>>
    BY <1>6, <2>1, DeliverFirst DEF Woken, sourceVars
  <2>2. CASE queue = <<>>
    <3>1. /\ pc \in {"waiting", "woken"} /\ WaitLoop(sourceHasNext)
          /\ UNCHANGED <<sourceVars, queue, sourceHasNext, worker, hand, intr,
                         delivered, usedCount>>
      BY <1>6, <2>2 DEF Woken, sourceVars
    <3>2. sourceHasNext
      BY <2>2, <3>1, WaitsForWorker
    <3>3. pc' \in {"waiting", "spinning"}
      BY <3>1, <3>2 DEF WaitLoop
    <3>4. TypeOK'
      BY <3>1, <3>3 DEF sourceVars, RInv, TypeOK, ConsumerStates
    <3>5. InOrder' /\ Accounted' /\ WorkerKnows' /\ Bounded'
      BY <3>1 DEF sourceVars, RInv, InOrder, Accounted, WorkerKnows, Bounded,
                  maxQueueSize, Released
    <3>6. ConsumerServed'
      BY <3>1, <3>2, <3>3 DEF ConsumerServed
    <3> QED BY <3>4, <3>5, <3>6 DEF RInv
  <2> QED BY <2>1, <2>2
<1>7. CASE Interrupt \/ InterruptCleared
  <2>1. intr' \in BOOLEAN
        /\ UNCHANGED <<sourceVars, queue, sourceHasNext, worker, hand, pc,
                       delivered, usedCount>>
    BY <1>7 DEF Interrupt, InterruptCleared
  <2>2. TypeOK'
    BY <2>1 DEF sourceVars, RInv, TypeOK
  <2>3. InOrder' /\ Accounted' /\ WorkerKnows'
    BY <2>1 DEF sourceVars, RInv, InOrder, Accounted, WorkerKnows, Released
  <2>4. ConsumerServed' /\ Bounded'
    BY <2>1 DEF sourceVars, RInv, ConsumerServed, Bounded, maxQueueSize,
                HasNextAnswer, SourceHasNext
  <2> QED BY <2>2, <2>3, <2>4 DEF RInv
<1>8. CASE WorkerBegins \/ WorkerWoken
  <2>1. /\ worker \in {"started", "woken"} /\ worker' \in {"reading", "waiting"}
        /\ worker' = "reading" => worker = "started" \/ Len(queue) < maxQueueSize
        /\ UNCHANGED <<sourceVars, queue, sourceHasNext, hand, consumerVars>>
    BY <1>0, <1>8
    DEF WorkerBegins, WorkerWoken, KeepReading, QueueFull, RInv, WorkerKnows
  <2>2. TypeOK'
    BY <2>1 DEF sourceVars, consumerVars, RInv, TypeOK, WorkerStates
  <2>3. InOrder' /\ Accounted' /\ WorkerKnows'
    BY <2>1 DEF sourceVars, consumerVars, RInv, InOrder, Accounted, WorkerKnows,
                Released
  <2>4. ConsumerServed'
    BY <2>1 DEF sourceVars, consumerVars, RInv, ConsumerServed, HasNextAnswer
  <2>5. Bounded'
    BY <1>0, <2>1 DEF sourceVars, consumerVars, RInv, Bounded, maxQueueSize
  <2> QED BY <2>2, <2>3, <2>4, <2>5 DEF RInv
<1>9. CASE ReadSource
  <2>1. /\ worker = "reading" /\ worker' = "putting" /\ pos' = pos + 1
        /\ hand' = [item |-> pos + 1, more |-> pos + 1 < total]
        /\ UNCHANGED <<total, mode, failed, queue, sourceHasNext, consumerVars>>
    BY <1>9 DEF ReadSource
  <2>2. pos + 1 \in 0 .. total /\ sourceHasNext /\ Released' = Released
    BY <1>0, <2>1 DEF RInv, WorkerKnows, Released
  <2>3. hand' \in [item : 0 .. total, more : BOOLEAN]
    BY <2>1, <2>2
  <2>4. TypeOK'
    BY <2>1, <2>2, <2>3 DEF consumerVars, RInv, TypeOK, WorkerStates
  <2>5. InOrder' /\ Accounted'
    BY <2>1, <2>2 DEF consumerVars, RInv, InOrder, Accounted
  <2>6. WorkerKnows' /\ ConsumerServed' /\ Bounded'
    BY <2>1, <2>2
    DEF consumerVars, RInv, WorkerKnows, ConsumerServed, Bounded, maxQueueSize,
        HasNextAnswer
  <2> QED BY <2>4, <2>5, <2>6 DEF RInv
<1>10. CASE SourceFails
  <2>1. /\ worker = "reading" /\ worker' = "ending"
        /\ pos + 1 < total /\ pos' = pos + 1 /\ failed' = TRUE
        /\ UNCHANGED <<total, mode, queue, sourceHasNext, hand, consumerVars>>
    BY <1>10 DEF SourceFails
  <2>2. /\ pos + 1 \in 0 .. total /\ sourceHasNext
        /\ Released = pos /\ Released' = Released + 1
    BY <1>0, <2>1 DEF RInv, WorkerKnows, Released
  <2>3. TypeOK'
    BY <2>1, <2>2 DEF consumerVars, RInv, TypeOK, WorkerStates
  <2>4. InOrder'
    <3>1. /\ \A i \in 1 .. Len(delivered) : delivered[i] \in 1 .. total
          /\ \A i \in 1 .. Len(queue) : queue[i] \in 1 .. total
      BY <1>0, ElementOfSeq
    <3>2. /\ \A i \in 1 .. Len(delivered) : delivered[i] <= Released'
          /\ \A i \in 1 .. Len(queue) : queue[i] <= Released'
          /\ usedCount + Len(queue) <= Released'
      BY <1>0, <2>2, <3>1 DEF RInv, InOrder
    <3> QED BY <2>1, <3>2 DEF consumerVars, RInv, InOrder
  <2>5. Accounted' /\ WorkerKnows' /\ ConsumerServed'
    BY <2>1, <2>2
    DEF consumerVars, RInv, Accounted, WorkerKnows, ConsumerServed, HasNextAnswer
  <2>6. Bounded'
    BY <1>0, <2>1 DEF consumerVars, RInv, Bounded, maxQueueSize
  <2> QED BY <2>3, <2>4, <2>5, <2>6 DEF RInv
<1>11. CASE Put
  <2>1. /\ worker = "putting" /\ hand = [item |-> pos, more |-> pos < total]
        /\ sourceHasNext' \in BOOLEAN /\ (sourceHasNext' <=> pos < total)
        /\ queue' = Append(queue, pos)
        /\ pc' = pc \/ (pc = "waiting" /\ pc' = "woken")
        /\ UNCHANGED <<sourceVars, hand, intr, delivered, usedCount>>
    <3>1. worker = "putting" /\ hand = [item |-> pos, more |-> pos < total]
      BY <1>11 DEF Put, RInv, WorkerKnows
    <3>2. hand.item = pos /\ hand.more = (pos < total)
      BY <3>1
    <3>3. sourceHasNext' \in BOOLEAN /\ (sourceHasNext' <=> pos < total)
      <4>1. sourceHasNext' = hand.more
        BY <1>11 DEF Put
      <4>2. sourceHasNext' = (pos < total)
        BY <3>2, <4>1
      <4>3. (pos < total) \in BOOLEAN
        BY <1>0
      <4>4. sourceHasNext' \in BOOLEAN
        BY <4>2, <4>3
      <4>5. sourceHasNext' <=> pos < total
        BY <4>2, Zenon
      <4> QED BY <4>4, <4>5
    <3> QED BY <1>11, <3>1, <3>2, <3>3 DEF Put, Insert, WakeConsumer
  <2>2. /\ worker' \in {"ending", "waiting", "reading"}
        /\ worker' = "ending" <=> ~sourceHasNext'
        /\ worker' = "reading" => ~(Len(queue') >= maxQueueSize)
    BY <1>11, <2>1 DEF Put, KeepReading, QueueFull, sourceVars, maxQueueSize
  <2>3. /\ Released = pos - 1 /\ Released' = pos /\ pos \in 1 .. total
        /\ pos' = pos /\ total' = total /\ failed' = failed
    BY <1>0, <2>1, <2>2 DEF Released, sourceVars
  <2>4. /\ queue' \in Seq(1 .. total) /\ Len(queue') = Len(queue) + 1
        /\ queue'[Len(queue) + 1] = pos
        /\ \A i \in 1 .. Len(queue) : queue'[i] = queue[i]
        /\ \A i, j \in 1 .. Len(queue') : i < j => queue'[i] < queue'[j]
        /\ \A i \in 1 .. Len(queue') : queue'[i] <= pos
    <3>1. \A i, j \in 1 .. Len(queue) : i < j => queue[i] < queue[j]
      BY DEF RInv, InOrder
    <3>2. \A i \in 1 .. Len(queue) : queue[i] \in 1 .. total /\ queue[i] <= pos - 1
      BY <1>0, <2>3, ElementOfSeq DEF RInv, InOrder
    <3>3. \A i \in 1 .. Len(queue) : queue[i] < pos
      BY <2>3, <3>2
    <3>4. total \in Nat /\ queue \in Seq(1 .. total) /\ pos \in 1 .. total
      BY <1>0, <2>3
    <3>5. queue' = Append(queue, pos)
      BY <2>1
    <3>6. /\ Append(queue, pos) \in Seq(1 .. total)
          /\ Len(Append(queue, pos)) = Len(queue) + 1
          /\ Append(queue, pos)[Len(queue) + 1] = pos
          /\ \A i \in 1 .. Len(queue) : Append(queue, pos)[i] = queue[i]
          /\ \A i, j \in 1 .. Len(Append(queue, pos)) :
               i < j => Append(queue, pos)[i] < Append(queue, pos)[j]
          /\ \A i \in 1 .. Len(Append(queue, pos)) : Append(queue, pos)[i] <= pos
      BY ONLY <3>1, <3>3, <3>4, OrderKept
    <3> QED BY ONLY <3>5, <3>6
  <2>5. TypeOK'
    BY <2>1, <2>2, <2>4
    DEF sourceVars, RInv, TypeOK, WorkerStates, ConsumerStates
  <2>6. InOrder'
    <3>1. \A i \in 1 .. Len(delivered) :
             delivered[i] \in 1 .. total /\ delivered[i] <= pos - 1
      BY <1>0, <2>3, ElementOfSeq DEF RInv, InOrder
    <3>2. ASSUME NEW i \in 1 .. Len(delivered), NEW j \in 1 .. Len(queue')
          PROVE  delivered[i] < queue'[j]
      <4>1. CASE j \in 1 .. Len(queue)
        BY <2>4, <4>1 DEF RInv, InOrder
      <4>2. CASE j = Len(queue) + 1
        BY <2>3, <2>4, <3>1, <4>2
      <4> QED BY <1>0, <2>4, <4>1, <4>2
    <3>3. /\ usedCount + Len(queue') <= pos
          /\ \A i \in 1 .. Len(delivered) : delivered[i] <= pos
      BY <1>0, <2>3, <2>4, <3>1
    <3>4. delivered' = delivered /\ usedCount' = usedCount
      BY <2>1
    <3>5. \A i, j \in 1 .. Len(delivered) : i < j => delivered[i] < delivered[j]
      BY DEF RInv, InOrder
    <3> QED BY <1>0, <2>3, <2>4, <3>2, <3>3, <3>4, <3>5 DEF InOrder
  <2>7. Accounted'
    <3> SUFFICES ASSUME ~failed PROVE Accounted'
      BY <2>3 DEF Accounted
    <3>1. /\ \A i \in 1 .. Len(delivered) : delivered[i] = i
          /\ \A i \in 1 .. Len(queue) : queue[i] = usedCount + i
          /\ usedCount + Len(queue) = pos - 1
      BY <2>3 DEF RInv, Accounted
    <3>2. ASSUME NEW i \in 1 .. Len(queue') PROVE queue'[i] = usedCount + i
      <4>1. i \in 1 .. Len(queue) \/ i = Len(queue) + 1
        BY <1>0, <2>4, LastOrBefore
      <4>2. pos = usedCount + (Len(queue) + 1)
        BY <1>0, <2>3, <3>1
      <4> QED BY <2>4, <3>1, <4>1, <4>2
    <3>3. usedCount + Len(queue') = pos
      BY <1>0, <2>3, <2>4, <3>1
    <3>4. delivered' = delivered /\ usedCount' = usedCount
      BY <2>1
    <3> QED BY <2>3, <3>1, <3>2, <3>3, <3>4 DEF Accounted
  <2>8. WorkerKnows'
    <3>1. ~(pos < total) => pos = total
      BY <1>0
    <3>2. worker' = "ending" => ~sourceHasNext' /\ pos' = total'
      BY <2>1, <2>2, <2>3, <3>1
    <3>3. worker' \in {"waiting", "reading"} => sourceHasNext' /\ pos' < total'
      BY <2>1, <2>2, <2>3
    <3> QED BY <2>2, <3>2, <3>3 DEF WorkerKnows
  <2>9. ConsumerServed'
    <3>1. queue' # <<>>
      BY <1>0, <2>4
    <3>2. pc' = "noNext" => pc = "noNext"
      BY <2>1
    <3> QED BY <2>1, <2>3, <3>1, <3>2 DEF RInv, ConsumerServed, HasNextAnswer
  <2>10. Bounded'
    <3>1. Len(queue) < maxQueueSize
      BY <2>1 DEF RInv, Bounded
    <3> QED BY <1>0, <2>1, <2>2, <2>4, <3>1 DEF sourceVars, Bounded, maxQueueSize
  <2> QED BY <2>5, <2>6, <2>7, <2>8, <2>9, <2>10 DEF RInv
<1>12. CASE WorkerEnds
  <2>1. /\ worker = "ending" /\ worker' = "none"
        /\ UNCHANGED <<sourceVars, queue, sourceHasNext, hand, consumerVars>>
    BY <1>12 DEF WorkerEnds
  <2>2. TypeOK'
    BY <2>1 DEF sourceVars, consumerVars, RInv, TypeOK, WorkerStates
  <2>3. InOrder' /\ Accounted' /\ WorkerKnows'
    BY <2>1 DEF sourceVars, consumerVars, RInv, InOrder, Accounted, WorkerKnows,
                Released
  <2>4. HasNextAnswer => HasNextAnswer'
    <3>1. sourceHasNext => pos < total
      BY <2>1 DEF RInv, WorkerKnows
    <3> QED BY <2>1, <3>1 DEF sourceVars, HasNextAnswer, SourceHasNext
  <2>5. ConsumerServed' /\ Bounded'
    BY <2>1, <2>4 DEF sourceVars, consumerVars, RInv, ConsumerServed, Bounded,
                      maxQueueSize
  <2> QED BY <2>2, <2>3, <2>5 DEF RInv
<1>13. CASE UNCHANGED vars
  <2>1. TypeOK'
    BY <1>13 DEF vars, sourceVars, consumerVars, RInv, TypeOK
  <2>2. InOrder' /\ Accounted' /\ WorkerKnows'
    BY <1>13 DEF vars, sourceVars, consumerVars, RInv, InOrder, Accounted,
                 WorkerKnows, Released
  <2>3. ConsumerServed' /\ Bounded'
    BY <1>13 DEF vars, sourceVars, consumerVars, RInv, ConsumerServed, Bounded,
                 maxQueueSize, HasNextAnswer, SourceHasNext
  <2> QED BY <2>1, <2>2, <2>3 DEF RInv
<1> QED
  BY <1>1, <1>2, <1>3, <1>4, <1>5, <1>6, <1>7, <1>8, <1>9, <1>10, <1>11, <1>12,
     <1>13
  DEF Next, NextStep, WorkerStep

(* A call of hasNext, a return of next() or an Error is the same step of    *)
(* the plain iterator; everything else is invisible to it.                  *)
LEMMA PlainStep ==
  ASSUME RInv, [Next]_vars
  PROVE  [Plain!Next]_(Plain!vars)
<1> USE ReadAheadAssumption
<1> DEFINE answer == CASE pc = "idle" -> "none" [] pc = "noNext" -> "no"
                       [] OTHER -> "yes"
<1>0. /\ total \in Nat /\ pc \in ConsumerStates
      /\ Len(delivered) \in Nat
  BY Quantities
<1>1. CASE HasNext
  <2>1. /\ pc \in {"idle", "noNext"} /\ UNCHANGED <<total, delivered, failed>>
        /\ pc' = IF HasNextAnswer THEN "hasNext" ELSE "noNext"
    BY <1>1 DEF HasNext, sourceVars
  <2>2. ~failed => (HasNextAnswer <=> Len(delivered) < total)
    BY AnswerIsRight
  <2>3. answer # "yes" /\ answer' = IF HasNextAnswer THEN "yes" ELSE "no"
    BY <2>1
  <2>4. Plain!HasNext
    BY <2>1, <2>2, <2>3 DEF Plain!HasNext
  <2> QED BY <2>4 DEF Plain!Next
<1>2. ASSUME NEW item \in 1 .. total,
             pc \in {"hasNext", "waiting", "woken"}, pc' = "idle",
             total' = total, failed' = failed,
             \A i \in 1 .. Len(delivered) : delivered[i] < item,
             ~failed => item = Len(delivered) + 1,
             delivered' = Append(delivered, item)
      PROVE  Plain!Next
  BY <1>2 DEF Plain!Next, Plain!NextItem
<1>3. ASSUME \/ pc' = pc
             \/ /\ pc \in {"hasNext", "waiting", "woken"}
                /\ pc' \in {"waiting", "woken", "spinning"},
             UNCHANGED <<total, delivered, failed>>
      PROVE  UNCHANGED Plain!vars
  BY <1>3 DEF Plain!vars
<1>4. CASE NextFromQueue
  <2>1. /\ queue # <<>> /\ DeliverHead /\ pc = "hasNext"
        /\ UNCHANGED <<sourceVars, sourceHasNext, hand, intr>>
        /\ worker' = worker \/ (worker = "waiting" /\ worker' = "woken")
    BY <1>4 DEF NextFromQueue, WakeWorker, sourceVars
  <2> QED BY <1>2, <2>1, DeliverFirst DEF sourceVars, DeliverHead, Deliver
<1>5. CASE NextFromSource
  <2>1. /\ pos = Len(delivered) /\ pos < total
        /\ \A i \in 1 .. Len(delivered) : delivered[i] = i
    BY <1>5, SourceInNone
  <2>2. /\ pos + 1 \in 1 .. total /\ pos + 1 = Len(delivered) + 1
        /\ \A i \in 1 .. Len(delivered) : delivered[i] < pos + 1
    BY <1>0, <2>1
  <2>3. /\ pc = "hasNext" /\ pc' = "idle" /\ total' = total /\ failed' = failed
        /\ delivered' = Append(delivered, pos + 1)
    BY <1>5 DEF NextFromSource, Deliver
  <2> QED BY <1>2, <2>2, <2>3
<1>6. CASE NextStartsWorker
  <2>1. SourceHasNext
    BY <1>6, WaitsForWorker DEF NextStartsWorker
  <2> QED BY <1>3, <1>6, <2>1 DEF NextStartsWorker, WaitLoop, sourceVars
<1>7. CASE NextWakesWorker
  <2>1. sourceHasNext
    BY <1>7, WaitsForWorker DEF NextWakesWorker
  <2> QED BY <1>3, <1>7, <2>1 DEF NextWakesWorker, WaitLoop, sourceVars
<1>8. CASE Woken
  <2>1. CASE queue # <<>>
    <3>1. /\ DeliverHead /\ pc \in {"waiting", "woken"} /\ worker' = worker
          /\ UNCHANGED <<sourceVars, sourceHasNext, hand, intr>>
      BY <1>8, <2>1 DEF Woken, sourceVars
    <3> QED BY <1>2, <2>1, <3>1, DeliverFirst DEF sourceVars, DeliverHead, Deliver
  <2>2. CASE queue = <<>>
    <3>1. sourceHasNext
      BY <1>8, <2>2, WaitsForWorker DEF Woken
    <3> QED BY <1>3, <1>8, <2>2, <3>1 DEF Woken, WaitLoop, sourceVars
  <2> QED BY <2>1, <2>2
<1>9. CASE Put
  BY <1>3, <1>9 DEF Put, WakeConsumer, sourceVars
<1>10. CASE SourceFails
  <2>1. failed' = TRUE /\ UNCHANGED <<total, delivered, pc>>
    BY <1>10 DEF SourceFails, consumerVars
  <2>2. Plain!SourceFails
    BY <2>1 DEF Plain!SourceFails
  <2> QED BY <2>2 DEF Plain!Next
<1>11. CASE Interrupt \/ InterruptCleared \/ WorkerBegins \/ WorkerWoken \/ WorkerEnds
              \/ ReadSource \/ UNCHANGED vars
  BY <1>3, <1>11
  DEF Interrupt, InterruptCleared, WorkerBegins, WorkerWoken, WorkerEnds,
      ReadSource, vars, sourceVars, consumerVars
<1> QED
  BY <1>1, <1>4, <1>5, <1>6, <1>7, <1>8, <1>9, <1>10, <1>11
  DEF Next, NextStep, WorkerStep

-----------------------------------------------------------------------------
(* The invariant holds for every length of the source, in every mode, with  *)
(* and without interrupts, also when the source throws.                     *)
THEOREM ReadAheadInvariant == Spec => []RInv
<1>1. Init => RInv
  BY RInit
<1>2. RInv /\ [Next]_vars => RInv'
  BY RNext
<1> QED BY <1>1, <1>2, PTL DEF Spec

(* Every reachable state is well-typed; no null is ever queued or returned. *)
THEOREM ReadAheadTypes == Spec => []TypeOK
<1>1. RInv => TypeOK
  BY DEF RInv
<1> QED BY <1>1, ReadAheadInvariant, PTL

(* Once isReadAheadComplete answers true, getItemsFoundCount is the number  *)
(* of all items.                                                            *)
THEOREM CountIsTotal == Spec => []CountIsTotalWhenComplete
<1>1. RInv => CountIsTotalWhenComplete
  <2> SUFFICES ASSUME RInv, IsReadAheadComplete, ~failed
               PROVE  ItemsFoundCount = total
    BY DEF CountIsTotalWhenComplete
  <2>1. /\ total \in Nat /\ pos \in 0 .. total /\ worker \in WorkerStates
        /\ Len(delivered) \in Nat /\ Len(queue) \in Nat
        /\ usedCount = Len(delivered)
    BY Quantities
  <2>2. pos = total /\ worker # "putting"
    BY <2>1 DEF IsReadAheadComplete, SourceHasNext, RInv, WorkerKnows,
                WorkerStates
  <2> QED BY <2>1, <2>2 DEF ItemsFoundCount, RInv, Accounted, Released
<1> QED BY <1>1, ReadAheadInvariant, PTL

(* In limited mode the queue never holds more than maxQueueSize items.      *)
THEOREM LimitedQueue == Spec => []QueueBounded
<1>1. RInv => QueueBounded
  BY DEF RInv, Bounded, QueueBounded
<1> QED BY <1>1, ReadAheadInvariant, PTL

(* The iterator with its queue and its thread does what a plain iterator    *)
(* does, step for step; after an Error of the source it may leave items     *)
(* out, but next() returns them in order, none twice, and never null.       *)
THEOREM RefinesPlainIterator == Spec => ImplementsPlainIterator
<1>1. Init => Plain!Init
  BY ReadAheadAssumption DEF Init, Plain!Init
<1>2. RInv /\ [Next]_vars => [Plain!Next]_(Plain!vars)
  BY PlainStep
<1> QED
  BY <1>1, <1>2, ReadAheadInvariant, PTL
  DEF Spec, ImplementsPlainIterator, Plain!Spec
=============================================================================
