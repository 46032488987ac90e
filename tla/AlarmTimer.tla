----------------------------- MODULE AlarmTimer -----------------------------
(***************************************************************************)
(* Alarms of test scripts. Script.setAlarm creates an Alarm that asks the  *)
(* one static util/Timer for a callback; the callback interrupts the       *)
(* thread that runs the script and asks for the next one, until            *)
(* setAlarm(0) cancels the alarm. The actions of a jtreg test (and a       *)
(* script with a timeout of its own) run between these two calls.          *)
(*                                                                         *)
(* Processes: worker threads that run scripts, and the timer's thread.     *)
(* Time is relative: entries hold the number of ticks left to them. A tick *)
(* is the period of the repeated callbacks (100 ms).                       *)
(***************************************************************************)
EXTENDS Naturals, SequencesExt

CONSTANTS
  Workers,   \* threads that run scripts
  Actions,   \* executions of an action; each sets and cancels one alarm
  MaxDelay,  \* bound on the delay of an alarm, in ticks
  None       \* no action, no thread

ASSUME AlarmAssumption ==
  /\ MaxDelay \in Nat \ {0}
  /\ None \notin Actions \cup Workers

VARIABLES
  pc,        \* [Workers -> what the thread does with its script]
  cur,       \* [Workers -> Actions \cup {None}]: the action, and its alarm
  intr,      \* [Workers -> BOOLEAN]: interrupt status
  target,    \* [Actions -> Workers \cup {None}]: Alarm.threadToInterrupt
  entry,     \* [Actions -> which of its entries Alarm.entry refers to]
  queue,     \* Timer.entries
  timer,     \* where the timer's thread is, and for which alarm
  nap,       \* ticks left to its wait(); MaxDelay + 1 is wait() without limit
  cancelled, \* history: alarms whose cancel() has returned
  crossed    \* history: alarms with a callback that crossed the constructor or
             \* cancel(): under way at one of them

workerVars == <<pc, cur, intr>>
alarmVars == <<target, entry>>
timerVars == <<queue, timer, nap>>
vars == <<workerVars, alarmVars, timerVars, cancelled, crossed>>

(* An alarm's first entry is the one its constructor asked for, "again" the *)
(* latest one that timeout() asked for.                                     *)
Entries == [alarm : Actions, kind : {"first", "again"}, left : 0 .. MaxDelay]
Forever == MaxDelay + 1

TypeOK ==
  /\ pc \in [Workers -> {"idle", "constructing", "running", "ending",
                         "failing", "passed", "failed"}]
  /\ cur \in [Workers -> Actions \cup {None}]
  /\ intr \in [Workers -> BOOLEAN]
  /\ target \in [Actions -> Workers \cup {None}]
  /\ entry \in [Actions -> {"none", "first", "again"}]
  /\ queue \in Seq(Entries)
  /\ timer \in [at : {"asleep", "called", "inside"}, alarm : Actions \cup {None}]
  /\ nap \in 0 .. Forever
  /\ cancelled \subseteq Actions /\ crossed \subseteq Actions

Init ==
  /\ pc = [w \in Workers |-> "idle"]
  /\ cur = [w \in Workers |-> None]
  /\ intr = [w \in Workers |-> FALSE]
  /\ target = [a \in Actions |-> None]
  /\ entry = [a \in Actions |-> "none"]
  /\ queue = <<>>
  /\ timer = [at |-> "asleep", alarm |-> None]
  /\ nap = 0
  /\ cancelled = {} /\ crossed = {}

-----------------------------------------------------------------------------
(* Timer: the monitor's operations on the queue                            *)

(* Before the first entry that expires later, or at the end.                *)
Insert(q, e) ==
  LET i == CHOOSE n \in 1 .. Len(q) + 1 :
             /\ \A k \in 1 .. n - 1 : q[k].left <= e.left
             /\ n <= Len(q) => e.left < q[n].left
  IN SubSeq(q, 1, i - 1) \o <<e>> \o SubSeq(q, i, Len(q))

MutNoNotify == nap' = nap
Notify == nap' = 0

RequestDelayedCallback(a, kind, delay) ==
  /\ queue' = Insert(queue, [alarm |-> a, kind |-> kind, left |-> delay])
  /\ Notify

(* Timer.cancel(alarm.entry): removing an entry that has left the queue     *)
(* does nothing.                                                            *)
Cancel(a) ==
  LET same == {i \in 1 .. Len(queue) :
                 queue[i].alarm = a /\ queue[i].kind = entry[a]}
  IN /\ queue' = IF same = {} THEN queue
                            ELSE RemoveAt(queue, CHOOSE i \in same : TRUE)
     /\ Notify

-----------------------------------------------------------------------------
(* Worker threads                                                          *)

(* setAlarm(timeout): the constructor of Alarm has asked for a callback and *)
(* has not stored the entry yet. The script goes on with its next action    *)
(* only if the last one passed.                                             *)
SetAlarm(w, a) ==
  /\ pc[w] \in {"idle", "passed"} /\ target[a] = None
  /\ pc' = [pc EXCEPT ![w] = "constructing"]
  /\ cur' = [cur EXCEPT ![w] = a]
  /\ target' = [target EXCEPT ![a] = w]
  /\ \E delay \in 1 .. MaxDelay : RequestDelayedCallback(a, "first", delay)
  /\ UNCHANGED <<intr, entry, timer, cancelled, crossed>>

(* The constructor stores the entry, without holding the alarm's monitor.   *)
AlarmConstructed(w) ==
  /\ pc[w] = "constructing"
  /\ pc' = [pc EXCEPT ![w] = "running"]
  /\ entry' = [entry EXCEPT ![cur[w]] = "first"]
  /\ UNCHANGED <<cur, intr, target, timerVars, cancelled, crossed>>

(* The action ends by itself, with or without a pending interrupt.          *)
ActionReturns(w) ==
  /\ pc[w] = "running"
  /\ \E how \in {"ending", "failing"} : pc' = [pc EXCEPT ![w] = how]
  /\ UNCHANGED <<cur, intr, alarmVars, timerVars, cancelled, crossed>>

(* The action sees the interrupt and gives up: ProcessCommand.exec destroys *)
(* the process and reports "interrupted! (timed out?)".                     *)
ActionInterrupted(w) ==
  /\ pc[w] = "running" /\ intr[w]
  /\ pc' = [pc EXCEPT ![w] = "failing"]
  /\ intr' = [intr EXCEPT ![w] = FALSE]
  /\ UNCHANGED <<cur, alarmVars, timerVars, cancelled, crossed>>

(* A test run by a SameVMThread, which sets an alarm for itself, catches    *)
(* the interrupt and carries on.                                            *)
InterruptIgnored(w) ==
  /\ pc[w] = "running" /\ intr[w]
  /\ intr' = [intr EXCEPT ![w] = FALSE]
  /\ UNCHANGED <<pc, cur, alarmVars, timerVars, cancelled, crossed>>

(* setAlarm(0): cancel() needs the alarm's monitor, which timeout() holds   *)
(* from the interrupt to its new request.                                   *)
AlarmMonitorFree(a) == timer.at # "inside" \/ timer.alarm # a

CancelAlarm(w) ==
  /\ pc[w] \in {"ending", "failing"} /\ AlarmMonitorFree(cur[w])
  /\ Cancel(cur[w])
  /\ pc' = [pc EXCEPT ![w] = IF @ = "ending" THEN "passed" ELSE "failed"]
  /\ cancelled' = cancelled \cup {cur[w]}
  /\ crossed' = IF timer.alarm = cur[w] THEN crossed \cup {cur[w]} ELSE crossed
  /\ UNCHANGED <<cur, intr, alarmVars, timer>>

(* The end of Script.run clears the interrupt status.                       *)
ScriptEnds(w) ==
  /\ pc[w] \in {"passed", "failed"}
  /\ pc' = [pc EXCEPT ![w] = "idle"]
  /\ cur' = [cur EXCEPT ![w] = None]
  /\ intr' = [intr EXCEPT ![w] = FALSE]
  /\ UNCHANGED <<alarmVars, timerVars, cancelled, crossed>>

-----------------------------------------------------------------------------
(* The timer's thread                                                      *)

(* The entry leaves the queue before its callback is made. *)
MutLeavesEntry(q) == q
WithoutFirst(q) == Tail(q)

(* One turn of the loop of getNextEntry, when wait() has returned: take the *)
(* first entry if it has expired, else wait until it does, or for a notify. *)
NextEntry ==
  /\ timer.at = "asleep" /\ nap = 0
  /\ IF queue # <<>> /\ Head(queue).left = 0
       THEN /\ timer' = [at |-> "called", alarm |-> Head(queue).alarm]
            /\ queue' = WithoutFirst(queue)
            /\ nap' = 0
       ELSE /\ nap' = IF queue = <<>> THEN Forever ELSE Head(queue).left
            /\ UNCHANGED <<queue, timer>>
  /\ UNCHANGED <<workerVars, alarmVars, cancelled, crossed>>

(* timeout() takes the alarm's monitor and interrupts the thread.           *)
Timeout ==
  /\ timer.at = "called"
  /\ timer' = [timer EXCEPT !.at = "inside"]
  /\ intr' = [intr EXCEPT ![target[timer.alarm]] = TRUE]
  /\ crossed' = crossed \cup
       {cur[w] : w \in {x \in Workers : /\ pc[x] = "constructing"
                                       /\ cur[x] = timer.alarm}}
  /\ UNCHANGED <<pc, cur, alarmVars, queue, nap, cancelled>>

(* timeout() asks to be called again and releases the alarm's monitor.      *)
MutForgetsEntry(a) == entry' = entry
NewEntry(a) == entry' = [entry EXCEPT ![a] = "again"]

(* 100 milliseconds. *)
RepeatDelay == 1

TimeoutReturns ==
  /\ timer.at = "inside"
  /\ RequestDelayedCallback(timer.alarm, "again", RepeatDelay)
  /\ NewEntry(timer.alarm)
  /\ timer' = [at |-> "asleep", alarm |-> None]
  /\ UNCHANGED <<workerVars, target, cancelled, crossed>>

(* A tick of the clock: nothing in the code waits for the clock alone.      *)
Tick ==
  /\ \/ \E i \in 1 .. Len(queue) : queue[i].left > 0
     \/ nap \in 1 .. MaxDelay
  /\ queue' = [i \in 1 .. Len(queue) |->
                 [queue[i] EXCEPT !.left = IF @ > 0 THEN @ - 1 ELSE 0]]
  /\ nap' = IF nap \in 1 .. MaxDelay THEN nap - 1 ELSE nap
  /\ UNCHANGED <<workerVars, alarmVars, timer, cancelled, crossed>>

-----------------------------------------------------------------------------
TimerStep == NextEntry \/ Timeout \/ TimeoutReturns

Next ==
  \/ TimerStep \/ Tick
  \/ \E w \in Workers :
       \/ \E a \in Actions : SetAlarm(w, a)
       \/ AlarmConstructed(w) \/ ActionReturns(w) \/ ActionInterrupted(w)
       \/ InterruptIgnored(w) \/ CancelAlarm(w) \/ ScriptEnds(w)

Spec == Init /\ [][Next]_vars

(* Time passes, the timer's thread runs, and a thread inside setAlarm gets  *)
(* on. Actions may never end.                                               *)
FairSpec ==
  /\ Spec /\ WF_vars(TimerStep) /\ WF_vars(Tick)
  /\ \A w \in Workers : WF_vars(AlarmConstructed(w)) /\ WF_vars(CancelAlarm(w))

-----------------------------------------------------------------------------
(* Properties that hold                                                    *)

Queued(a) == {i \in 1 .. Len(queue) : queue[i].alarm = a}

(* An alarm has one callback outstanding, in the queue or under way: timeout *)
(* asks again only after its entry was taken.                               *)
OneCallbackPerAlarm ==
  \A a \in Actions : \A i, j \in Queued(a) : i = j /\ timer.alarm # a

(* cancel() ends an alarm for good, unless a callback of it was under way   *)
(* then, or had overtaken the constructor: the entry that Alarm.entry names *)
(* is the one in the queue.                                                 *)
CancelledLeavesQueue ==
  \A a \in cancelled \ crossed : Queued(a) = {} /\ timer.alarm # a

(* An action that does not end is interrupted, and again after every        *)
(* interrupt it ignores (setAlarm: "repeatedly thereafter until cancelled"),*)
(* however many other alarms keep the timer busy.                           *)
SlowActionIsInterrupted ==
  \A w \in Workers : pc[w] = "running" ~> intr[w] \/ pc[w] # "running"

-----------------------------------------------------------------------------
(* What a comment of the code claims and the code does not do              *)

(* setAlarm: the thread is interrupted after the delay "and repeatedly      *)
(* thereafter until cancelled" (Script.java:335): a cancelled alarm         *)
(* interrupts nobody.                                                       *)
NoInterruptAfterCancel ==
  [][\A w \in Workers : ~intr[w] /\ intr'[w] => timer.alarm \notin cancelled]_vars

=============================================================================
