----------------------------- MODULE ReadAhead ------------------------------
(***************************************************************************)
(* util/ReadAheadIterator: a queue between a source of tests, which is     *)
(* slow because it reads the file system, and the threads that run them.   *)
(*                                                                         *)
(* Processes: the consumer, that is the thread inside                      *)
(* DefaultTestRunner.nextTest, whose monitor admits one thread at a time   *)
(* and which calls next() only after hasNext() answered true; and the      *)
(* worker thread that reads ahead. An action is one critical section of    *)
(* the iterator's monitor, or one access of the worker to the source.      *)
(***************************************************************************)
EXTENDS Naturals, Sequences

CONSTANTS
  MaxItems,      \* bound on the number of items of the source
  Modes,         \* pairs <<minQueueSize, maxQueueSize>> that setMode computes;
                 \* NONE is <<0, 0>>, in FULL mode the queue is never full
  SourceMayFail, \* the source may throw an Error while it is read
  MayInterrupt   \* the consumer may be interrupted

ASSUME ReadAheadAssumption ==
  /\ MaxItems \in Nat
  /\ \A m \in Modes : /\ m \in Nat \X Nat
                      /\ m[1] <= m[2] /\ (m[1] = 0 <=> m[2] = 0)
  /\ SourceMayFail \in BOOLEAN /\ MayInterrupt \in BOOLEAN

VARIABLES
  total,         \* items of the source: they are 1 .. total
  mode,          \* <<minQueueSize, maxQueueSize>>, set by the constructor
  pos,           \* items taken from the source
  queue,
  sourceHasNext,
  usedCount,
  worker,        \* where the worker thread is; "none": the field is null
  hand,          \* what the worker read last: the item, and source.hasNext()
  pc,            \* where the consumer is
  intr,          \* its interrupt status
  delivered,     \* history: what next() returned
  failed         \* history: the source has thrown an Error

sourceVars == <<total, mode, pos, failed>>
consumerVars == <<pc, intr, delivered, usedCount>>
vars == <<sourceVars, queue, sourceHasNext, worker, hand, consumerVars>>

minQueueSize == mode[1]
maxQueueSize == mode[2]

WorkerStates == {"none", "started", "reading", "putting", "waiting", "woken",
                 "ending"}
(* "waiting" has released the iterator's monitor inside wait(), "spinning"  *)
(* never does.                                                              *)
ConsumerStates == {"idle", "hasNext", "noNext", "waiting", "woken", "spinning"}

TypeOK ==
  /\ total \in 0 .. MaxItems /\ mode \in Modes /\ pos \in 0 .. total
  /\ queue \in Seq(1 .. total)
  /\ sourceHasNext \in BOOLEAN
  /\ usedCount \in 0 .. total
  /\ worker \in WorkerStates
  /\ hand \in [item : 0 .. total, more : BOOLEAN]
  /\ pc \in ConsumerStates /\ intr \in BOOLEAN
  /\ delivered \in Seq(1 .. total) /\ failed \in BOOLEAN

Init ==
  /\ total \in 0 .. MaxItems /\ mode \in Modes
  /\ pos = 0 /\ queue = <<>> /\ sourceHasNext = FALSE /\ usedCount = 0
  /\ worker = "none" /\ hand = [item |-> 0, more |-> FALSE]
  /\ pc = "idle" /\ intr = FALSE /\ delivered = <<>> /\ failed = FALSE

-----------------------------------------------------------------------------
MonitorFree == pc # "spinning"

SourceHasNext == pos < total

(* hasNext(): the source is asked only while no worker owns it.             *)
MutIgnoresQueue == IF worker = "none" THEN SourceHasNext ELSE sourceHasNext
HasNextAnswer ==
  queue # <<>> \/ IF worker = "none" THEN SourceHasNext ELSE sourceHasNext

(* isReadAheadComplete() and isSourceExhausted(); getItemsFoundCount().     *)
MutAsksSource == ~SourceHasNext
IsReadAheadComplete ==
  IF worker = "none" THEN ~SourceHasNext ELSE ~sourceHasNext
ItemsFoundCount == usedCount + Len(queue)

KeepReading == sourceHasNext

MutOneMore == Len(queue) > maxQueueSize
QueueFull == Len(queue) >= maxQueueSize

(* The queue is getting empty, seen after an item was removed.              *)
MutNeverLow == FALSE
GettingEmpty == sourceHasNext /\ Len(queue') < minQueueSize

(* notifyAll()                                                              *)
WakeWorker == worker' = IF worker = "waiting" THEN "woken" ELSE worker
MutNoWake == pc' = pc
WakeConsumer == pc' = IF pc = "waiting" THEN "woken" ELSE pc

Deliver(item) ==
  /\ pc' = "idle"
  /\ delivered' = Append(delivered, item)
  /\ usedCount' = usedCount + 1

(* Fifo.insert and Fifo.remove work at opposite ends.                       *)
Insert(item) == queue' = Append(queue, item)
DeliverHead == Deliver(Head(queue)) /\ queue' = Tail(queue)

-----------------------------------------------------------------------------
(* The consumer                                                            *)

HasNext ==
  /\ pc \in {"idle", "noNext"}
  /\ pc' = IF HasNextAnswer THEN "hasNext" ELSE "noNext"
  /\ UNCHANGED <<sourceVars, queue, sourceHasNext, worker, hand, intr,
                 delivered, usedCount>>

(* next() finds an item in the queue.                                       *)
NextFromQueue ==
  /\ pc = "hasNext" /\ queue # <<>>
  /\ DeliverHead
  /\ IF GettingEmpty THEN WakeWorker ELSE UNCHANGED worker
  /\ UNCHANGED <<sourceVars, sourceHasNext, hand, intr>>

(* No read ahead: next() asks the source.                                   *)
NextFromSource ==
  /\ pc = "hasNext" /\ queue = <<>> /\ maxQueueSize = 0 /\ SourceHasNext
  /\ pos' = pos + 1
  /\ Deliver(pos')
  /\ UNCHANGED <<total, mode, failed, queue, sourceHasNext, worker, hand, intr>>

(* The wait loop of next(), entered or continued with the monitor held: the *)
(* consumer waits, or finds nothing and returns null. With the interrupt    *)
(* status set wait() throws before it releases the monitor, and the handler *)
(* sets the status again.                                                   *)
WaitLoop(more) ==
  IF more THEN pc' = IF intr THEN "spinning" ELSE "waiting"
          ELSE pc' = "idle"

(* The queue is empty: start the worker, or make sure that it is awake.     *)
NextStartsWorker ==
  /\ pc = "hasNext" /\ queue = <<>> /\ maxQueueSize > 0 /\ worker = "none"
  /\ sourceHasNext' = SourceHasNext
  /\ worker' = IF SourceHasNext THEN "started" ELSE "none"
  /\ WaitLoop(SourceHasNext)
  /\ UNCHANGED <<sourceVars, queue, hand, intr, delivered, usedCount>>

NextWakesWorker ==
  /\ pc = "hasNext" /\ queue = <<>> /\ maxQueueSize > 0 /\ worker # "none"
  /\ WakeWorker
  /\ WaitLoop(sourceHasNext)
  /\ UNCHANGED <<sourceVars, queue, sourceHasNext, hand, intr, delivered,
                 usedCount>>

(* wait() returns after a notify, or throws because of an interrupt, which  *)
(* leaves the status as it was; then the loop's condition is tested.        *)
Woken ==
  /\ pc = "woken" \/ (pc = "waiting" /\ intr)
  /\ IF queue # <<>> THEN DeliverHead
     ELSE WaitLoop(sourceHasNext) /\ UNCHANGED <<queue, delivered, usedCount>>
  /\ UNCHANGED <<sourceVars, sourceHasNext, worker, hand, intr>>

(* A stray alarm, or the end of a run, interrupts the consumer's thread;    *)
(* the end of Script.run clears its status.                                 *)
Interrupt ==
  /\ MayInterrupt /\ ~intr
  /\ intr' = TRUE
  /\ UNCHANGED <<sourceVars, queue, sourceHasNext, worker, hand, pc, delivered,
                 usedCount>>

InterruptCleared ==
  /\ pc = "idle" /\ intr
  /\ intr' = FALSE
  /\ UNCHANGED <<sourceVars, queue, sourceHasNext, worker, hand, pc, delivered,
                 usedCount>>

-----------------------------------------------------------------------------
(* The worker thread: readAhead()                                          *)

WorkerBegins ==
  /\ worker = "started" /\ MonitorFree
  /\ worker' = IF KeepReading THEN "reading" ELSE "ending"
  /\ UNCHANGED <<sourceVars, queue, sourceHasNext, hand, consumerVars>>

(* The source belongs to the worker: no monitor is held.                    *)
ReadSource ==
  /\ worker = "reading"
  /\ pos' = pos + 1
  /\ hand' = [item |-> pos + 1, more |-> pos + 1 < total]
  /\ worker' = "putting"
  /\ UNCHANGED <<total, mode, failed, queue, sourceHasNext, consumerVars>>

(* The source has removed an item and throws looking for the one behind it: *)
(* the item is lost, and the finally clause is all that is executed.        *)
SourceFails ==
  /\ SourceMayFail
  /\ worker = "reading" /\ pos + 1 < total
  /\ pos' = pos + 1 /\ failed' = TRUE
  /\ worker' = "ending"
  /\ UNCHANGED <<total, mode, queue, sourceHasNext, hand, consumerVars>>

Put ==
  /\ worker = "putting" /\ MonitorFree
  /\ Insert(hand.item)
  /\ sourceHasNext' = hand.more
  /\ WakeConsumer
  /\ UNCHANGED <<sourceVars, hand, intr, delivered, usedCount>>
  /\ worker' = CASE ~KeepReading' -> "ending"
                 [] KeepReading' /\ QueueFull' -> "waiting"
                 [] OTHER -> "reading"

WorkerWoken ==
  /\ worker = "woken" /\ MonitorFree
  /\ worker' = CASE ~KeepReading -> "ending"
                 [] KeepReading /\ QueueFull -> "waiting"
                 [] OTHER -> "reading"
  /\ UNCHANGED <<sourceVars, queue, sourceHasNext, hand, consumerVars>>

WorkerEnds ==
  /\ worker = "ending" /\ MonitorFree
  /\ worker' = "none"
  /\ UNCHANGED <<sourceVars, queue, sourceHasNext, hand, consumerVars>>

-----------------------------------------------------------------------------
NextStep ==
  NextFromQueue \/ NextFromSource \/ NextStartsWorker \/ NextWakesWorker \/ Woken

WorkerStep ==
  WorkerBegins \/ ReadSource \/ SourceFails \/ Put \/ WorkerWoken \/ WorkerEnds

Next == HasNext \/ NextStep \/ Interrupt \/ InterruptCleared \/ WorkerStep

Spec == Init /\ [][Next]_vars

(* A thread inside next() and the worker keep running. Nothing makes the    *)
(* consumer ask for another test.                                           *)
FairSpec == Spec /\ WF_vars(NextStep) /\ WF_vars(WorkerStep)

-----------------------------------------------------------------------------
(* Properties that hold                                                    *)

Plain == INSTANCE PlainIterator WITH
  answer <- CASE pc = "idle" -> "none" [] pc = "noNext" -> "no" [] OTHER -> "yes"

(* The queue and the thread behind it are invisible: in every mode and      *)
(* under interrupts the consumer sees a plain iterator, that has a next     *)
(* item exactly if the source has not been delivered to its end, and gives  *)
(* the items in order.                                                      *)
ImplementsPlainIterator == Plain!Spec

(* A caller of next() does not wait for ever, unless it is interrupted or   *)
(* the source throws.                                                       *)
CallerIsServed ==
  []~(intr \/ failed) => (pc \in {"waiting", "woken"} ~> pc = "idle")

(* "If the read ahead is complete, the value will be the total number of    *)
(* items" (ReadAheadIterator.java:97), whatever is in the queue or in the   *)
(* hands of the worker.                                                     *)
CountIsTotalWhenComplete ==
  IsReadAheadComplete /\ ~failed => ItemsFoundCount = total

(* Limited read ahead is limited.                                           *)
QueueBounded == maxQueueSize > 0 => Len(queue) <= maxQueueSize

WaitsBelowMin == worker \in {"waiting", "woken"} /\ Len(queue) < minQueueSize

(* A worker thread that waits while the queue is below its minimum reads    *)
(* again once the consumer has called next(), although it does not come     *)
(* back for more ("the worker thread will be woken up to replenish the      *)
(* queue", ReadAheadIterator.java:316).                                     *)
NextReplenishes ==
  []~intr => (WaitsBelowMin /\ pc = "hasNext" ~> worker = "reading")

-----------------------------------------------------------------------------
(* What a comment of the code claims and the code does not do              *)

(* "wait for the worker to deliver some results"                            *)
(* (ReadAheadIterator.java:203): the wait ends, also if the consumer is     *)
(* interrupted ("propogate the interrupt", line 209).                       *)
WaitEnds == pc \in {"waiting", "woken", "spinning"} ~> pc = "idle"

=============================================================================
