------------------------------ MODULE HarnessRun ------------------------------
(***************************************************************************)
(* Test runs of the JT Harness copy in test/jtreg: class Harness, which    *)
(* accepts one run at a time, resets its flags, drives a test runner and   *)
(* tells its observers about it; and DefaultTestRunner, the pool of worker *)
(* threads that takes tests from the shared iterator and runs scripts.     *)
(*                                                                         *)
(* Processes: the thread that executes a run (a fresh thread for start(),  *)
(* the caller's for batch()), one worker thread per slot of the runner,    *)
(* and any thread that calls start(), batch() or stop().                   *)
(***************************************************************************)
EXTENDS Naturals

CONSTANTS
  Runs,    \* calls of start() and batch() that a Harness object accepts
  Slots,   \* indices of the array threads[] in DefaultTestRunner.runTests
  Tests,   \* tests that the parameters of a run may select
  NoRun,   \* Harness.worker = null
  NoTest   \* a worker thread that holds no test

ASSUME HarnessAssumption ==
  /\ NoRun \notin Runs
  /\ NoTest \notin Tests
  /\ Slots # {}

VARIABLES
  worker,     \* Harness.worker: the run whose thread is registered, or NoRun
  stopping,   \* Harness.stopping
  isBatchRun, \* Harness.isBatchRun
  failures,   \* Notifier: failCount > 0 or errCount > 0
  phase,      \* [Runs -> Phases]: where the thread executing the run is
  mode,       \* [Runs -> {"start", "batch"}]
  valid,      \* [Runs -> BOOLEAN]: Parameters.isValid
  sel,        \* [Runs -> SUBSET Tests]: tests the iterator can return
  intr,       \* [Runs -> BOOLEAN]: interrupt status of the run's thread
  ok,         \* [Runs -> BOOLEAN]: the result computed so far
  taken,      \* [Runs -> SUBSET Tests]: tests the iterator has returned
  result,     \* [Runs -> [Tests -> Outcomes]]: what finishedTest reported
  halt,       \* [Runs -> BOOLEAN]: DefaultTestRunner.stopping
  allPassed,  \* [Runs -> BOOLEAN]: DefaultTestRunner.allPassed
  active,     \* [Runs -> SUBSET Slots]: DefaultTestRunner.activeThreads
  notified,   \* [Runs -> BOOLEAN]: a notifyAll the waiting runTests has to see
  thr,        \* [Runs -> [Slots -> Threads]]: the worker threads
  stopReq,    \* history: when stop() was first accepted for the run
  late,       \* history: tests taken after an effective stop(); 2 means more
  faulted     \* history: runs in which a test description could not be read

harnessVars == <<worker, stopping, isBatchRun, failures>>
runVars == <<phase, mode, valid, sel, intr, ok>>
runnerVars == <<taken, result, halt, allPassed, active, notified, thr>>
history == <<stopReq, late, faulted>>
vars == <<harnessVars, runVars, runnerVars, history>>

Phases == {"unborn", "entry", "ready", "loop", "runner", "grace", "wind",
           "tally", "final", "notify", "over"}
MutNotRunAccepted == {"passed", "failed", "error", "notRun"}
Statuses == {"passed", "failed", "error"}
Outcomes == {"passed", "failed", "error", "none"}
ThreadStates == {"none", "fetch", "has", "run", "dying", "report", "exit"}
Threads == [pc : ThreadStates, test : Tests \cup {NoTest},
            st : Outcomes, kill : BOOLEAN]

NoThread == [pc |-> "none", test |-> NoTest, st |-> "none", kill |-> FALSE]
NewThread == [pc |-> "fetch", test |-> NoTest, st |-> "none", kill |-> FALSE]

(* The run's thread is inside Harness.runTests.                            *)
Executing(r) ==
  phase[r] \in {"entry", "ready", "loop", "runner", "grace", "wind", "tally",
                "final"}

(* The monitor of the runner: no worker thread is inside nextTest, and the  *)
(* run's thread, which holds it in its loop, has released it in wait().     *)
NoneInNext(r) == \A s \in Slots : thr[r][s].pc # "has"
MutUnsynchronizedNextTest(r) == phase[r] # "loop"
MutSleepInsteadOfWait(r) == phase[r] \notin {"loop", "runner"} /\ NoneInNext(r)
MonitorFree(r) == phase[r] # "loop" /\ NoneInNext(r)

TypeOK ==
  /\ worker \in Runs \cup {NoRun}
  /\ stopping \in BOOLEAN /\ isBatchRun \in BOOLEAN /\ failures \in BOOLEAN
  /\ phase \in [Runs -> Phases]
  /\ mode \in [Runs -> {"start", "batch"}]
  /\ valid \in [Runs -> BOOLEAN]
  /\ sel \in [Runs -> SUBSET Tests]
  /\ intr \in [Runs -> BOOLEAN] /\ ok \in [Runs -> BOOLEAN]
  /\ taken \in [Runs -> SUBSET Tests]
  /\ result \in [Runs -> [Tests -> Outcomes]]
  /\ halt \in [Runs -> BOOLEAN] /\ allPassed \in [Runs -> BOOLEAN]
  /\ active \in [Runs -> SUBSET Slots]
  /\ notified \in [Runs -> BOOLEAN]
  /\ thr \in [Runs -> [Slots -> Threads]]
  /\ stopReq \in [Runs -> {"no", "early", "effective"}]
  /\ late \in [Runs -> 0 .. 2]
  /\ faulted \in SUBSET Runs

Init ==
  /\ worker = NoRun
  /\ stopping = FALSE /\ isBatchRun = FALSE /\ failures = FALSE
  /\ phase = [r \in Runs |-> "unborn"]
  /\ mode = [r \in Runs |-> "start"]
  /\ valid = [r \in Runs |-> TRUE]
  /\ sel = [r \in Runs |-> {}]
  /\ intr = [r \in Runs |-> FALSE] /\ ok = [r \in Runs |-> FALSE]
  /\ taken = [r \in Runs |-> {}]
  /\ result = [r \in Runs |-> [t \in Tests |-> "none"]]
  /\ halt = [r \in Runs |-> FALSE] /\ allPassed = [r \in Runs |-> TRUE]
  /\ active = [r \in Runs |-> {}]
  /\ notified = [r \in Runs |-> FALSE]
  /\ thr = [r \in Runs |-> [s \in Slots |-> NoThread]]
  /\ stopReq = [r \in Runs |-> "no"]
  /\ late = [r \in Runs |-> 0]
  /\ faulted = {}

-----------------------------------------------------------------------------
(* Harness: accepting and refusing calls                                   *)

MutNoRunningCheck == TRUE
Idle == worker = NoRun

(* start() and batch() under the Harness lock: the run is registered. For   *)
(* batch() the flag isBatchRun is set before the lock is taken.             *)
Accept(r) ==
  /\ Idle /\ phase[r] = "unborn"
  /\ worker' = r
  /\ phase' = [phase EXCEPT ![r] = "entry"]
  /\ \E m \in {"start", "batch"}, v \in BOOLEAN, S \in SUBSET Tests :
       /\ mode' = [mode EXCEPT ![r] = m]
       /\ valid' = [valid EXCEPT ![r] = v]
       /\ sel' = [sel EXCEPT ![r] = S]
       /\ isBatchRun' = (isBatchRun \/ m = "batch")
  /\ UNCHANGED <<stopping, failures, intr, ok, runnerVars, history>>

(* A batch() call while another run is registered throws a Fault, after     *)
(* isBatchRun was set; a refused start() changes nothing.                   *)
BatchRefused ==
  /\ worker # NoRun
  /\ isBatchRun' = TRUE
  /\ UNCHANGED <<worker, stopping, failures, runVars, runnerVars, history>>

(* batch() with incomplete parameters throws a Fault between registering    *)
(* the run and entering the try block that clears Harness.worker.           *)
BatchIncomplete(r) ==
  /\ phase[r] = "entry" /\ mode[r] = "batch" /\ ~valid[r]
  /\ phase' = [phase EXCEPT ![r] = "over"]
  /\ UNCHANGED <<harnessVars, mode, valid, sel, intr, ok, runnerVars, history>>

(* stop(), called by a user interface, by the HTTP handler or by an         *)
(* observer on a worker thread, under the Harness lock.                     *)
Stop ==
  /\ worker # NoRun
  /\ stopping' = TRUE
  /\ intr' = [intr EXCEPT ![worker] = TRUE]
  /\ stopReq' = [stopReq EXCEPT ![worker] =
                   IF phase[worker] # "entry" THEN "effective"
                   ELSE IF @ = "no" THEN "early" ELSE @]
  /\ UNCHANGED <<worker, isBatchRun, failures, phase, mode, valid, sel, ok,
                 runnerVars, late, faulted>>

-----------------------------------------------------------------------------
(* Harness.runTests up to the runner                                       *)

(* The flags of the previous run are reset; start() with incomplete         *)
(* parameters ends in a Fault that the worker thread reports.               *)
EnterRunTests(r) ==
  /\ phase[r] = "entry" /\ (mode[r] = "batch" => valid[r])
  /\ stopping' = FALSE
  /\ phase' = [phase EXCEPT ![r] = IF valid[r] THEN "ready" ELSE "final"]
  /\ UNCHANGED <<worker, isBatchRun, failures, mode, valid, sel, intr, ok,
                 runnerVars, history>>

(* No iterator for the initial files, or a TestSuite.Fault while the run is *)
(* being set up: runTests is left by an exception, before any test.         *)
LaunchFault(r) ==
  /\ phase[r] = "ready"
  /\ phase' = [phase EXCEPT ![r] = "final"]
  /\ UNCHANGED <<harnessVars, mode, valid, sel, intr, ok, runnerVars, history>>

(* resultTable.waitUntilReady() returns. An interrupt that finds the thread *)
(* waiting is caught there and forgotten. The runner is created and its     *)
(* first pass over threads[] starts a worker thread in every slot.          *)
LaunchRunner(r) ==
  /\ phase[r] = "ready"
  /\ phase' = [phase EXCEPT ![r] = "loop"]
  /\ \E swallowed \in BOOLEAN :
       intr' = [intr EXCEPT ![r] = @ /\ ~swallowed]
  /\ ok' = [ok EXCEPT ![r] = TRUE]
  /\ thr' = [thr EXCEPT ![r] = [s \in Slots |-> NewThread]]
  /\ active' = [active EXCEPT ![r] = Slots]
  /\ UNCHANGED <<harnessVars, mode, valid, sel, taken, result, halt, allPassed,
                 notified, history>>

-----------------------------------------------------------------------------
(* DefaultTestRunner.runTests, on the run's thread                         *)

(* wait(), unless an interrupt is already pending: the monitor is released. *)
Wait(r) ==
  /\ phase[r] = "loop" /\ ~intr[r]
  /\ phase' = [phase EXCEPT ![r] = "runner"]
  /\ UNCHANGED <<harnessVars, mode, valid, sel, intr, ok, runnerVars, history>>

(* The thread is notified, no stop: every slot whose thread has left        *)
(* activeThreads gets a new one, and the thread goes back to wait().        *)
Respawn(r) ==
  /\ phase[r] = "runner" /\ notified[r] /\ MonitorFree(r) /\ ~halt[r]
  /\ phase' = [phase EXCEPT ![r] = "loop"]
  /\ thr' = [thr EXCEPT ![r] =
               [s \in Slots |-> IF s \in active[r] THEN @[s] ELSE NewThread]]
  /\ active' = [active EXCEPT ![r] = Slots]
  /\ notified' = [notified EXCEPT ![r] = FALSE]
  /\ UNCHANGED <<harnessVars, mode, valid, sel, intr, ok, taken, result, halt,
                 allPassed, history>>

MutOneExited(r) == active[r] # Slots
AllExited(r) == active[r] = {}

(* The thread is notified after a stop and finds a worker thread active.    *)
WaitForThreads(r) ==
  /\ phase[r] = "runner" /\ notified[r] /\ MonitorFree(r) /\ halt[r]
  /\ ~AllExited(r)
  /\ phase' = [phase EXCEPT ![r] = "loop"]
  /\ notified' = [notified EXCEPT ![r] = FALSE]
  /\ UNCHANGED <<harnessVars, mode, valid, sel, intr, ok, taken, result, halt,
                 allPassed, active, thr, history>>

(* No worker thread is left in activeThreads: the runner returns allPassed. *)
RunnerReturns(r) ==
  /\ phase[r] = "runner" /\ notified[r] /\ MonitorFree(r) /\ halt[r]
  /\ AllExited(r)
  /\ phase' = [phase EXCEPT ![r] = "wind"]
  /\ ok' = [ok EXCEPT ![r] = allPassed[r]]
  /\ UNCHANGED <<harnessVars, mode, valid, sel, intr, runnerVars, history>>

(* wait() throws InterruptedException: no new tests, interrupt the worker   *)
(* threads (which makes their tests return sooner), and give them a while.  *)
RunnerInterrupted(r) ==
  /\ phase[r] \in {"loop", "runner"} /\ intr[r] /\ NoneInNext(r)
  /\ phase' = [phase EXCEPT ![r] = "grace"]
  /\ intr' = [intr EXCEPT ![r] = FALSE]
  /\ halt' = [halt EXCEPT ![r] = TRUE]
  /\ UNCHANGED <<harnessVars, mode, valid, sel, ok, taken, result, allPassed,
                 active, notified, thr, history>>

(* The timed waits of the grace period return when the monitor is free.     *)
MutNoGraceLimit(r) == NoneInNext(r) /\ AllExited(r)
GraceOver(r) == NoneInNext(r)

(* All threads gone, two seconds passed or a second interrupt: the finally  *)
(* block calls Thread.stop on what is left, and Harness.runTests swallows   *)
(* the rethrown InterruptedException, keeping its initial ok = true.        *)
GraceEnds(r) ==
  /\ phase[r] = "grace" /\ GraceOver(r)
  /\ phase' = [phase EXCEPT ![r] = "wind"]
  /\ \E again \in BOOLEAN : intr' = [intr EXCEPT ![r] = @ /\ ~again]
  /\ thr' = [thr EXCEPT ![r] = [s \in Slots |->
                IF @[s].pc = "none" THEN @[s] ELSE [@[s] EXCEPT !.kill = TRUE]]]
  /\ UNCHANGED <<harnessVars, mode, valid, sel, ok, taken, result, halt,
                 allPassed, active, notified, history>>

-----------------------------------------------------------------------------
(* DefaultTestRunner: the worker thread of a slot                          *)

Goto(r, s, pc) == thr' = [thr EXCEPT ![r][s] = [@ EXCEPT !.pc = pc]]

(* The iterator of Harness.runTests: nothing more once the harness stops.   *)
MutCountsOnlyReported(r) == {t \in sel[r] : result[r][t] = "none"}
Remaining(r) == sel[r] \ taken[r]

MutIgnoresStop(r) == Remaining(r) # {}
IteratorHasNext(r) == ~stopping /\ Remaining(r) # {}

(* nextTest takes the runner's monitor and asks the iterator; no more tests *)
(* means halt for every thread.                                             *)
NextTest(r, s) ==
  /\ thr[r][s].pc = "fetch" /\ MonitorFree(r)
  /\ Goto(r, s, IF ~halt[r] /\ IteratorHasNext(r) THEN "has" ELSE "exit")
  /\ halt' = [halt EXCEPT ![r] = @ \/ ~IteratorHasNext(r)]
  /\ UNCHANGED <<harnessVars, runVars, taken, result, allPassed, active,
                 notified, history>>

AfterStop(r) == IF stopReq[r] # "effective" THEN late[r]
                ELSE IF late[r] = 0 THEN 1 ELSE 2

(* testIter.next(), still inside nextTest: the test is handed to this       *)
(* thread.                                                                  *)
Take(r, s, t) ==
  /\ thr[r][s].pc = "has" /\ t \in Remaining(r)
  /\ taken' = [taken EXCEPT ![r] = @ \cup {t}]
  /\ thr' = [thr EXCEPT ![r][s] = [@ EXCEPT !.pc = "run", !.test = t]]
  /\ late' = [late EXCEPT ![r] = AfterStop(r)]
  /\ UNCHANGED <<harnessVars, runVars, result, halt, allPassed, active,
                 notified, stopReq, faulted>>

(* The description of the next test cannot be read: the iterator stops the  *)
(* run and its JavaTestError ends the worker thread.                        *)
TakeFault(r, s, t) ==
  /\ thr[r][s].pc = "has" /\ t \in Remaining(r)
  /\ taken' = [taken EXCEPT ![r] = @ \cup {t}]
  /\ stopping' = TRUE
  /\ Goto(r, s, "exit")
  /\ faulted' = faulted \cup {r}
  /\ UNCHANGED <<worker, isBatchRun, failures, runVars, result, halt, allPassed,
                 active, notified, stopReq, late>>

(* Script.run, or the error result made for whatever it throws.             *)
RunScript(r, s) ==
  /\ thr[r][s].pc = "run"
  /\ \E st \in Statuses :
       thr' = [thr EXCEPT ![r][s] = [@ EXCEPT !.pc = "report", !.st = st]]
  /\ UNCHANGED <<harnessVars, runVars, taken, result, halt, allPassed, active,
                 notified, history>>

(* notifier.finishedTest: the result table is updated, the observers are    *)
(* told, the failure is counted. A thread that was stopped then dies.       *)
Report(r, s) ==
  /\ thr[r][s].pc \in {"report", "dying"}
  /\ LET this == thr[r][s] IN
       /\ result' = [result EXCEPT ![r][this.test] = this.st]
       /\ failures' = (failures \/ this.st # "passed")
       /\ allPassed' = [allPassed EXCEPT ![r] =
                          IF this.pc = "report" THEN @ /\ this.st = "passed" ELSE @]
       /\ thr' = [thr EXCEPT ![r][s] =
                    [@ EXCEPT !.pc = IF @ = "report" THEN "fetch" ELSE "exit",
                              !.test = NoTest, !.st = "none"]]
  /\ UNCHANGED <<worker, stopping, isBatchRun, runVars, taken, halt, active,
                 notified, history>>

(* The ThreadDeath of Thread.stop arrives. In the script it becomes an      *)
(* error result that is still reported; elsewhere the thread just unwinds.  *)
Die(r, s) ==
  /\ thr[r][s].kill /\ thr[r][s].pc \in {"fetch", "run", "report"}
  /\ LET running == thr[r][s].pc = "run" IN
       thr' = [thr EXCEPT ![r][s] =
                 [pc |-> IF running THEN "dying" ELSE "exit",
                  test |-> IF running THEN @.test ELSE NoTest,
                  st |-> IF running THEN "error" ELSE "none",
                  kill |-> FALSE]]
  /\ UNCHANGED <<harnessVars, runVars, taken, result, halt, allPassed, active,
                 notified, history>>

(* threadExiting, in the finally block of every worker thread.              *)
ThreadExiting(r, s) ==
  /\ thr[r][s].pc = "exit" /\ MonitorFree(r)
  /\ active' = [active EXCEPT ![r] = @ \ {s}]
  /\ notified' = [notified EXCEPT ![r] = TRUE]
  /\ thr' = [thr EXCEPT ![r][s] = NoThread]
  /\ UNCHANGED <<harnessVars, runVars, taken, result, halt, allPassed, history>>

-----------------------------------------------------------------------------
(* Harness.runTests after the runner, and the end of start() and batch()   *)

(* finishTime is set and notifier.finishedTesting() tells the observers.    *)
FinishedTesting(r) ==
  /\ phase[r] = "wind"
  /\ phase' = [phase EXCEPT ![r] = "tally"]
  /\ UNCHANGED <<harnessVars, mode, valid, sel, intr, ok, runnerVars, history>>

(* The verdict: no test at all is an error for start(), and any failure the *)
(* notifier has counted makes it false. The tests counted are those that    *)
(* left the table's iterator: the ones taken, and some read ahead of them.  *)
Verdict(r) ==
  /\ phase[r] = "tally"
  /\ phase' = [phase EXCEPT ![r] = "final"]
  /\ \E counted \in SUBSET sel[r] :
       /\ taken[r] \subseteq counted
       /\ ok' = [ok EXCEPT ![r] =
                   @ /\ (counted = {} => mode[r] = "batch") /\ ~failures]
  /\ UNCHANGED <<harnessVars, mode, valid, sel, intr, runnerVars, history>>

(* worker = null and notifyAll, under the Harness lock: waitUntilDone       *)
(* returns and the next run can be accepted.                                *)
Release(r) ==
  /\ phase[r] = "final"
  /\ worker' = NoRun
  /\ phase' = [phase EXCEPT ![r] = "notify"]
  /\ UNCHANGED <<stopping, isBatchRun, failures, mode, valid, sel, intr, ok,
                 runnerVars, history>>

(* notifier.finishedTestRun(ok), without the lock; batch() then clears its  *)
(* flag. Parameters, iterator and thread of the run become garbage: their   *)
(* values are set back, so that runs that differ only there coincide. What  *)
(* worker threads that outlive the run still use (halt, thr) is kept.       *)
FinishedTestRun(r) ==
  /\ phase[r] = "notify"
  /\ phase' = [phase EXCEPT ![r] = "over"]
  /\ isBatchRun' = (isBatchRun /\ mode[r] # "batch")
  /\ mode' = [mode EXCEPT ![r] = "start"]
  /\ valid' = [valid EXCEPT ![r] = TRUE]
  /\ sel' = [sel EXCEPT ![r] = {}] /\ taken' = [taken EXCEPT ![r] = {}]
  /\ intr' = [intr EXCEPT ![r] = FALSE] /\ ok' = [ok EXCEPT ![r] = FALSE]
  /\ allPassed' = [allPassed EXCEPT ![r] = TRUE]
  /\ late' = [late EXCEPT ![r] = 0]
  /\ UNCHANGED <<worker, stopping, failures, result, halt, active, notified,
                 thr, stopReq, faulted>>

-----------------------------------------------------------------------------
(* The steps of the run's own thread. *)
RunStep(r) ==
  \/ BatchIncomplete(r) \/ EnterRunTests(r) \/ LaunchFault(r) \/ LaunchRunner(r)
  \/ Wait(r) \/ Respawn(r) \/ WaitForThreads(r) \/ RunnerReturns(r)
  \/ RunnerInterrupted(r) \/ GraceEnds(r)
  \/ FinishedTesting(r) \/ Verdict(r) \/ Release(r) \/ FinishedTestRun(r)

(* The steps of a worker thread that wait for nothing but the runner's      *)
(* monitor.                                                                 *)
OwnStep(r, s) == NextTest(r, s) \/ Report(r, s) \/ ThreadExiting(r, s)

(* testIter.next() returns, with a test or with an error.                   *)
NextCall(r, s) == \E t \in Tests : Take(r, s, t) \/ TakeFault(r, s, t)

ThreadStep(r, s) == OwnStep(r, s) \/ NextCall(r, s)

Next ==
  \/ BatchRefused \/ Stop
  \/ \E r \in Runs : Accept(r) \/ RunStep(r)
  \/ \E r \in Runs, s \in Slots :
       ThreadStep(r, s) \/ RunScript(r, s) \/ Die(r, s)

Spec == Init /\ [][Next]_vars

(* Threads that wait neither for each other, nor for a test, nor for the    *)
(* thread that reads ahead are scheduled.                                   *)
HarnessFairness ==
  /\ \A r \in Runs : WF_vars(RunStep(r))
  /\ \A r \in Runs, s \in Slots : WF_vars(OwnStep(r, s))

(* The scripts return: each runs under an alarm that interrupts it.         *)
ScriptsReturn == \A r \in Runs, s \in Slots : WF_vars(RunScript(r, s))

(* The calls of testIter.next() return. A premise, not an assumption: next  *)
(* waits for the thread that reads ahead, for ever if that thread died of   *)
(* an Error (WaitEnds of ReadAhead is violated), and its caller is inside   *)
(* the synchronized nextTest, with the runner's monitor in its hands.       *)
NextReturns == \A r \in Runs, s \in Slots : WF_vars(NextCall(r, s))

FairSpec == Spec /\ HarnessFairness

-----------------------------------------------------------------------------
(* Properties that hold                                                    *)

(* A run that nobody stopped and whose descriptions could all be read.      *)
Undisturbed(r) == stopReq[r] = "no" /\ r \notin faulted

(* The run has its final verdict, and it is true. *)
Concluded(r) == phase[r] \in {"final", "notify"} /\ ok[r]

(* Harness.start and batch promise one run at a time: whatever two callers  *)
(* and the thread winding up a run do, at most one thread is inside         *)
(* runTests, and it is the registered one (Harness.java:373, 559, 579).     *)
OneRunAtATime == \A r \in Runs : Executing(r) => worker = r

(* hasNext and next are two calls on a shared iterator: a worker thread     *)
(* that was told hasNext still finds a test, and no other thread is between *)
(* the two calls (nextTest, DefaultTestRunner.java:139).                    *)
HasNextIsStable ==
  \A r \in Runs, s \in Slots : thr[r][s].pc = "has" =>
    /\ taken[r] # sel[r]
    /\ \A s2 \in Slots \ {s} : thr[r][s2].pc # "has"

(* When the observers hear finishedTesting from an undisturbed run, every   *)
(* selected test has been reported and no worker thread is left, although   *)
(* threads come and go while the run's thread waits for them.               *)
AllReportedWhenFinished ==
  \A r \in Runs :
    Undisturbed(r) /\ phase[r] = "tally" =>
      /\ \A t \in sel[r] : result[r][t] # "none"
      /\ \A s \in Slots : thr[r][s] = NoThread

(* A true verdict of an undisturbed run means every selected test passed    *)
(* (the @return of Harness.batch, in the direction the code keeps).         *)
TrueVerdictSound ==
  \A r \in Runs : Concluded(r) /\ Undisturbed(r) =>
    \A t \in sel[r] : result[r][t] = "passed"

(* After a stop() that runTests does not reset, at most one more test is    *)
(* started: the one whose thread had already been told hasNext.             *)
StopIsPrompt == \A r \in Runs : late[r] < 2

(* finishedTest reports a test once and, in an undisturbed run, before the  *)
(* runner returns (Harness.java:852, DefaultTestRunner.java:74).            *)
ReportsStayInRun ==
  [][\A r \in Runs : result'[r] # result[r] =>
       /\ \A t \in Tests : result'[r][t] # result[r][t] => result[r][t] = "none"
       /\ Undisturbed(r) => phase[r] \in {"loop", "runner"}]_vars

(* Every accepted run ends with finishedTestRun, or with the Fault of an    *)
(* incomplete batch, provided the scripts and testIter.next() return.       *)
EveryRunEnds ==
  ScriptsReturn /\ NextReturns =>
    \A r \in Runs : phase[r] = "entry" ~> phase[r] = "over"

(* Even if scripts hang and ignore interrupts, a stop() that is not reset   *)
(* ends the run (the grace period and Thread.stop in DefaultTestRunner), if *)
(* testIter.next() returns: the run's thread leaves wait(), interrupted or  *)
(* timed out, only with the monitor that the caller of next() holds.        *)
StopEndsRun ==
  NextReturns =>
    \A r \in Runs : stopReq[r] = "effective" ~> phase[r] = "over"

-----------------------------------------------------------------------------
(* What comments of the code claim and the code does not do                *)

(* batch: "true if and only if all the selected tests were executed         *)
(* successfully, and all passed" (Harness.java:354): if.                    *)
AllPassedGivesTrue ==
  \A r \in Runs :
    /\ phase[r] = "notify" /\ sel[r] # {} /\ Undisturbed(r)
    /\ \A t \in sel[r] : result[r][t] = "passed"
    => ok[r]

(* stop: "Stop the harness executing any tests [...]. The worker may carry  *)
(* on for a short time after this method is called" (Harness.java:334): a   *)
(* run stopped before it takes its first test does not run them all.        *)
StopIsRemembered ==
  \A r \in Runs : stopReq[r] = "early" /\ phase[r] = "tally" =>
    taken[r] # sel[r] \/ sel[r] = {}

(* stop: "The worker may carry on for a short time after this method is     *)
(* called" (Harness.java:335): not if a worker thread waits in              *)
(* testIter.next() for a thread that reads ahead no more.                   *)
StopEndsRunAnyway ==
  \A r \in Runs : stopReq[r] = "effective" ~> phase[r] = "over"

=============================================================================
