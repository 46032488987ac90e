-------------------------- MODULE HarnessRun_proofs --------------------------
(* Theorems about HarnessRun, for any number of runs, slots and tests.      *)
EXTENDS HarnessRun, TLAPS

(* The initial values of a slot's thread, and a thread just created.        *)
LEMMA ThreadValues == NoThread \in Threads /\ NewThread \in Threads
  BY DEF NoThread, NewThread, Threads, ThreadStates, Outcomes, Statuses

(* The fields a worker thread's step assigns keep its record well-formed.   *)
LEMMA ThreadFields ==
  ASSUME NEW th \in Threads
  PROVE /\ \A p \in ThreadStates : [th EXCEPT !.pc = p] \in Threads
        /\ [th EXCEPT !.kill = TRUE] \in Threads
        /\ \A t \in Tests : [th EXCEPT !.pc = "run", !.test = t] \in Threads
        /\ \A o \in Statuses : [th EXCEPT !.pc = "report", !.st = o] \in Threads
        /\ \A p \in ThreadStates :
              [th EXCEPT !.pc = p, !.test = NoTest, !.st = "none"] \in Threads
  BY DEF Threads, ThreadStates, Outcomes, Statuses

(* The state is always one the variables' declarations describe.            *)
THEOREM TypeCorrect == Spec => []TypeOK
<1>1. Init => TypeOK
  <2>. SUFFICES ASSUME Init PROVE TypeOK
    OBVIOUS
  <2>1. /\ thr \in [Runs -> [Slots -> Threads]]
        /\ result \in [Runs -> [Tests -> Outcomes]]
    BY ThreadValues DEF Init, Outcomes
  <2>2. /\ phase \in [Runs -> Phases]
        /\ stopReq \in [Runs -> {"no", "early", "effective"}]
        /\ late \in [Runs -> 0 .. 2]
    BY DEF Init, Phases
  <2>. QED
    BY <2>1, <2>2 DEF Init, TypeOK
<1>2. TypeOK /\ [Next]_vars => TypeOK'
  <2> SUFFICES ASSUME TypeOK, [Next]_vars PROVE TypeOK'
    OBVIOUS
  <2>. USE DEF TypeOK
  <2>1. CASE BatchRefused
    BY <2>1 DEF BatchRefused, runVars, runnerVars, history
  <2>2. CASE Stop
    BY <2>2 DEF Stop, runnerVars
  <2>3. ASSUME NEW r \in Runs, Accept(r) PROVE TypeOK'
    BY <2>3 DEF Accept, Phases, Idle, runnerVars, history
  <2>4. ASSUME NEW r \in Runs, RunStep(r) PROVE TypeOK'
    <3>1. CASE BatchIncomplete(r)
      BY <3>1 DEF BatchIncomplete, Phases, harnessVars, runVars, runnerVars, history
    <3>2. CASE EnterRunTests(r)
      BY <3>2 DEF EnterRunTests, Phases, harnessVars, runVars, runnerVars, history
    <3>3. CASE LaunchFault(r)
      BY <3>3 DEF LaunchFault, Phases, harnessVars, runVars, runnerVars, history
    <3>4. CASE LaunchRunner(r)
      BY <3>4, ThreadValues DEF LaunchRunner, Phases, harnessVars, runVars, runnerVars, history
    <3>5. CASE Wait(r)
      BY <3>5 DEF Wait, Phases, harnessVars, runVars, runnerVars, history
    <3>6. CASE Respawn(r)
      BY <3>6, ThreadValues DEF Respawn, Phases, harnessVars, runVars, runnerVars, history
    <3>7. CASE WaitForThreads(r)
      BY <3>7 DEF WaitForThreads, Phases, harnessVars, runVars, runnerVars, history
    <3>8. CASE RunnerReturns(r)
      BY <3>8 DEF RunnerReturns, Phases, harnessVars, runVars, runnerVars, history
    <3>9. CASE RunnerInterrupted(r)
      BY <3>9 DEF RunnerInterrupted, Phases, harnessVars, runVars, runnerVars, history
    <3>10. CASE GraceEnds(r)
      <4>1. \A s \in Slots : [thr[r][s] EXCEPT !.kill = TRUE] \in Threads
        <5>. TAKE s \in Slots
        <5>1. thr[r][s] \in Threads
          OBVIOUS
        <5>. QED
          BY <5>1, ThreadFields
      <4>. QED
        BY <3>10, <4>1 DEF GraceEnds, Phases, harnessVars, runVars, runnerVars, history
    <3>11. CASE FinishedTesting(r)
      BY <3>11 DEF FinishedTesting, Phases, harnessVars, runVars, runnerVars, history
    <3>12. CASE Verdict(r)
      BY <3>12 DEF Verdict, Phases, harnessVars, runVars, runnerVars, history
    <3>13. CASE Release(r)
      BY <3>13 DEF Release, Phases, harnessVars, runVars, runnerVars, history
    <3>14. CASE FinishedTestRun(r)
      BY <3>14 DEF FinishedTestRun, Phases, harnessVars, runVars, runnerVars, history
    <3>. QED
      BY <2>4, <3>1, <3>2, <3>3, <3>4, <3>5, <3>6, <3>7, <3>8, <3>9, <3>10, <3>11, <3>12, <3>13, <3>14 DEF RunStep
  <2>5. ASSUME NEW r \in Runs, NEW s \in Slots,
               ThreadStep(r, s) \/ RunScript(r, s) \/ Die(r, s)
        PROVE TypeOK'
    <3>. thr[r][s] \in Threads
      OBVIOUS
    <3>1. CASE NextTest(r, s)
      <4>1. \E x \in Threads : thr' = [thr EXCEPT ![r][s] = x]
        BY <3>1, ThreadFields DEF NextTest, Goto, ThreadStates
      <4>. QED
        BY <3>1, <4>1 DEF NextTest, harnessVars, runVars, runnerVars, history
    <3>2. CASE Report(r, s)
      <4>1. \E x \in Threads : thr' = [thr EXCEPT ![r][s] = x]
        BY <3>2, ThreadFields DEF Report, ThreadStates
      <4>2. thr[r][s].st \in Outcomes
        BY DEF Threads
      <4>3. result' \in [Runs -> [Tests -> Outcomes]]
        BY <3>2, <4>2 DEF Report
      <4>4. failures' \in BOOLEAN /\ allPassed' \in [Runs -> BOOLEAN]
        BY <3>2 DEF Report
      <4>5. UNCHANGED <<worker, stopping, isBatchRun, runVars, taken, halt, active,
                        notified, history>>
        BY <3>2 DEF Report
      <4>6. thr' \in [Runs -> [Slots -> Threads]]
        BY <4>1
      <4>. QED
        BY <4>3, <4>4, <4>5, <4>6 DEF runVars, history
    <3>3. CASE ThreadExiting(r, s)
      BY <3>3, ThreadValues DEF ThreadExiting, harnessVars, runVars, runnerVars, history
    <3>4. CASE RunScript(r, s)
      <4>1. \E x \in Threads : thr' = [thr EXCEPT ![r][s] = x]
        BY <3>4, ThreadFields DEF RunScript
      <4>. QED
        BY <3>4, <4>1 DEF RunScript, harnessVars, runVars, runnerVars, history
    <3>5. CASE Die(r, s)
      <4>1. \E x \in Threads : thr' = [thr EXCEPT ![r][s] = x]
        <5>1. thr[r][s].test \in Tests \cup {NoTest}
          BY DEF Threads
        <5>2. \A p \in {"dying", "exit"}, o \in {"error", "none"},
                 t \in Tests \cup {NoTest} :
                [pc |-> p, test |-> t, st |-> o, kill |-> FALSE] \in Threads
          BY DEF Threads, ThreadStates, Outcomes, Statuses
        <5>. QED
          BY <3>5, <5>1, <5>2 DEF Die
      <4>2. UNCHANGED <<harnessVars, runVars, taken, result, halt, allPassed,
                        active, notified, history>>
        BY <3>5 DEF Die
      <4>. QED
        BY <4>1, <4>2 DEF harnessVars, runVars, history
    <3>6. ASSUME NEW t \in Tests, Take(r, s, t) PROVE TypeOK'
      <4>1. \E x \in Threads : thr' = [thr EXCEPT ![r][s] = x]
        BY <3>6, ThreadFields DEF Take
      <4>. QED
        BY <3>6, <4>1 DEF Take, AfterStop, harnessVars, runVars, runnerVars, history
    <3>7. ASSUME NEW t \in Tests, TakeFault(r, s, t) PROVE TypeOK'
      <4>1. \E x \in Threads : thr' = [thr EXCEPT ![r][s] = x]
        BY <3>7, ThreadFields DEF TakeFault, Goto, ThreadStates
      <4>. QED
        BY <3>7, <4>1 DEF TakeFault, harnessVars, runVars, runnerVars, history
    <3>. QED
      BY <2>5, <3>1, <3>2, <3>3, <3>4, <3>5, <3>6, <3>7 DEF ThreadStep, OwnStep, NextCall
  <2>6. CASE UNCHANGED vars
    BY <2>6 DEF vars, harnessVars, runVars, runnerVars, history
  <2>. QED
    BY <2>1, <2>2, <2>3, <2>4, <2>5, <2>6 DEF Next
<1>. QED
  BY <1>1, <1>2, PTL DEF Spec

-----------------------------------------------------------------------------
(* At most one run is inside runTests, and it is the registered one: only   *)
(* an idle harness accepts a run, and a run is inside runTests from then    *)
(* until the step that clears Harness.worker.                               *)
THEOREM OneRun == Spec => []OneRunAtATime
<1>1. Init => OneRunAtATime
  BY DEF Init, OneRunAtATime, Executing
<1>2. TypeOK /\ OneRunAtATime /\ [Next]_vars => OneRunAtATime'
  <2>. SUFFICES ASSUME TypeOK, OneRunAtATime, [Next]_vars,
                       NEW q \in Runs, Executing(q)'
                PROVE worker' = q
    BY DEF OneRunAtATime
  <2>. USE DEF TypeOK, OneRunAtATime, Executing
  <2>1. CASE BatchRefused \/ Stop \/ UNCHANGED vars
    BY <2>1 DEF BatchRefused, Stop, vars, harnessVars, runVars
  <2>2. ASSUME NEW r \in Runs, Accept(r) PROVE worker' = q
    BY <2>2, HarnessAssumption DEF Accept, Idle
  <2>3. ASSUME NEW r \in Runs, RunStep(r) PROVE worker' = q
    <3>1. CASE Release(r)
      BY <3>1 DEF Release
    <3>2. CASE BatchIncomplete(r) \/ EnterRunTests(r) \/ LaunchFault(r) \/ LaunchRunner(r)
      BY <3>2 DEF BatchIncomplete, EnterRunTests, LaunchFault, LaunchRunner, harnessVars
    <3>3. CASE Wait(r) \/ Respawn(r) \/ WaitForThreads(r) \/ RunnerReturns(r)
      BY <3>3 DEF Wait, Respawn, WaitForThreads, RunnerReturns, harnessVars
    <3>4. CASE RunnerInterrupted(r) \/ GraceEnds(r)
      BY <3>4 DEF RunnerInterrupted, GraceEnds, harnessVars
    <3>5. CASE FinishedTesting(r) \/ Verdict(r) \/ FinishedTestRun(r)
      BY <3>5 DEF FinishedTesting, Verdict, FinishedTestRun, harnessVars
    <3>. QED
      BY <2>3, <3>1, <3>2, <3>3, <3>4, <3>5 DEF RunStep
  <2>4. ASSUME NEW r \in Runs, NEW s \in Slots,
               ThreadStep(r, s) \/ RunScript(r, s) \/ Die(r, s)
        PROVE UNCHANGED <<worker, phase>>
    BY <2>4 DEF ThreadStep, OwnStep, NextCall, NextTest, Take, TakeFault, Report, ThreadExiting,
                RunScript, Die, harnessVars, runVars
  <2>. QED
    BY <2>1, <2>2, <2>3, <2>4 DEF Next
<1>. QED
  BY <1>1, <1>2, TypeCorrect, PTL DEF Spec

-----------------------------------------------------------------------------
(* The inductive invariant for the hand-out of tests.                       *)

NoThreads(r) == \A s \in Slots : thr[r][s].pc = "none"

(* Before the runner starts there are no worker threads; once it has been   *)
(* left, it hands out no test any more.                                     *)
RunnerPhases ==
  \A r \in Runs :
    /\ phase[r] \in {"unborn", "entry", "ready"} => NoThreads(r)
    /\ phase[r] \notin {"unborn", "entry", "ready", "loop", "runner"} =>
         halt[r] \/ NoThreads(r)

(* A thread is inside nextTest only while the run's thread waits; it is      *)
(* alone there and finds a test.                                            *)
InNextTest ==
  \A r \in Runs, s \in Slots : thr[r][s].pc = "has" =>
    /\ phase[r] = "runner"
    /\ Remaining(r) # {}
    /\ \A s2 \in Slots \ {s} : thr[r][s2].pc # "has"

(* A stop that is not reset stays in force for as long as the run executes, *)
(* and the run that took a test after it has no thread inside nextTest.     *)
StopInForce ==
  \A r \in Runs :
    /\ stopReq[r] = "effective" =>
         /\ phase[r] \notin {"unborn", "entry"}
         /\ Executing(r) => stopping
    /\ late[r] # 0 => late[r] = 1 /\ stopReq[r] = "effective" /\ NoneInNext(r)

Registered == \A r \in Runs : worker = r => phase[r] # "unborn"

HandOut == RunnerPhases /\ InNextTest /\ StopInForce /\ Registered

LEMMA HandOutInit == Init => HandOut
  BY HarnessAssumption
  DEF Init, HandOut, RunnerPhases, InNextTest, StopInForce, Registered, NoThreads,
      NoThread, Executing

(* Steps that leave the worker threads alone.                               *)
LEMMA HandOutHarness ==
  ASSUME TypeOK, OneRunAtATime, HandOut,
         \/ BatchRefused \/ Stop \/ UNCHANGED vars
         \/ \E r \in Runs :
              \/ Accept(r) \/ BatchIncomplete(r) \/ EnterRunTests(r)
              \/ LaunchFault(r) \/ Wait(r) \/ WaitForThreads(r)
              \/ RunnerReturns(r) \/ RunnerInterrupted(r)
              \/ FinishedTesting(r) \/ Verdict(r) \/ Release(r)
              \/ FinishedTestRun(r)
  PROVE HandOut'
<1>. USE DEF TypeOK, HandOut, RunnerPhases, InNextTest, StopInForce, Registered,
             NoThreads, NoneInNext, Remaining, Executing
<1>1. CASE BatchRefused \/ UNCHANGED vars
  BY <1>1 DEF BatchRefused, vars, harnessVars, runVars, runnerVars, history
<1>2. CASE Stop
  BY <1>2, HarnessAssumption DEF Stop, runnerVars
<1>3. ASSUME NEW r \in Runs, Accept(r) PROVE HandOut'
  BY <1>3, HarnessAssumption DEF Accept, Idle, OneRunAtATime, runnerVars, history
<1>4. ASSUME NEW r \in Runs, BatchIncomplete(r) PROVE HandOut'
  BY <1>4 DEF BatchIncomplete, harnessVars, runVars, runnerVars, history
<1>5. ASSUME NEW r \in Runs, EnterRunTests(r) PROVE HandOut'
  BY <1>5 DEF EnterRunTests, OneRunAtATime, harnessVars, runVars, runnerVars, history
<1>6. ASSUME NEW r \in Runs, LaunchFault(r) PROVE HandOut'
  BY <1>6 DEF LaunchFault, harnessVars, runVars, runnerVars, history
<1>7. ASSUME NEW r \in Runs, Wait(r) PROVE HandOut'
  BY <1>7 DEF Wait, harnessVars, runVars, runnerVars, history
<1>8. ASSUME NEW r \in Runs, WaitForThreads(r) PROVE HandOut'
  BY <1>8 DEF WaitForThreads, MonitorFree, harnessVars, runVars, runnerVars, history
<1>9. ASSUME NEW r \in Runs, RunnerReturns(r) PROVE HandOut'
  BY <1>9 DEF RunnerReturns, MonitorFree, harnessVars, runVars, runnerVars, history
<1>10. ASSUME NEW r \in Runs, RunnerInterrupted(r) PROVE HandOut'
  BY <1>10 DEF RunnerInterrupted, harnessVars, runVars, runnerVars, history
<1>11. ASSUME NEW r \in Runs, FinishedTesting(r) PROVE HandOut'
  BY <1>11 DEF FinishedTesting, harnessVars, runVars, runnerVars, history
<1>12. ASSUME NEW r \in Runs, Verdict(r) PROVE HandOut'
  BY <1>12 DEF Verdict, harnessVars, runVars, runnerVars, history
<1>13. ASSUME NEW r \in Runs, Release(r) PROVE HandOut'
  BY <1>13, HarnessAssumption DEF Release, harnessVars, runVars, runnerVars, history
<1>14. ASSUME NEW r \in Runs, FinishedTestRun(r) PROVE HandOut'
  BY <1>14 DEF FinishedTestRun, harnessVars, runVars, runnerVars, history
<1>. QED
  BY <1>1, <1>2, <1>3, <1>4, <1>5, <1>6, <1>7, <1>8, <1>9, <1>10, <1>11, <1>12,
     <1>13, <1>14

(* Steps that create or kill worker threads.                                *)
LEMMA HandOutRunner ==
  ASSUME TypeOK, HandOut, NEW r \in Runs,
         LaunchRunner(r) \/ Respawn(r) \/ GraceEnds(r)
  PROVE HandOut'
<1>. USE DEF TypeOK, HandOut, RunnerPhases, InNextTest, StopInForce, Registered,
             NoThreads, NoneInNext, Remaining, Executing
<1>1. CASE LaunchRunner(r)
  BY <1>1 DEF LaunchRunner, NewThread, harnessVars, history
<1>2. CASE Respawn(r)
  BY <1>2 DEF Respawn, MonitorFree, NewThread, harnessVars, history
<1>3. CASE GraceEnds(r)
  <2>1. \A q \in Runs, s \in Slots : thr'[q][s].pc = thr[q][s].pc
    BY <1>3 DEF GraceEnds, Threads
  <2>. QED
    BY <1>3, <2>1 DEF GraceEnds, harnessVars, history
<1>. QED
  BY <1>1, <1>2, <1>3

(* A step that moves worker thread s of run r to p and no other thread.     *)
Moves(r, s, p) ==
  /\ thr'[r][s].pc = p
  /\ \A q \in Runs, s2 \in Slots : (q # r \/ s2 # s) => thr'[q][s2] = thr[q][s2]

(* A thread that leaves nextTest, or was not in it, may take tests, raise   *)
(* flags and count a late test, provided nextTest is left empty.            *)
LEMMA HandOutMove ==
  ASSUME TypeOK, HandOut, NEW r \in Runs, NEW s \in Slots,
         NEW p \in ThreadStates \ {"has"}, thr[r][s].pc # "none", Moves(r, s, p),
         UNCHANGED <<worker, phase, stopReq>>, stopping => stopping',
         \A q \in Runs : halt[q] => halt'[q],
         \A q \in Runs : NoneInNext(q)' \/ Remaining(q)' = Remaining(q),
         \A q \in Runs : \/ late'[q] = late[q]
                         \/ late'[q] = 1 /\ stopReq[q] = "effective" /\ NoneInNext(q)'
  PROVE HandOut'
<1>1. RunnerPhases'
  <2>1. \A q \in Runs : NoThreads(q) => NoThreads(q)'
    BY DEF NoThreads, Moves
  <2>. QED
    BY <2>1 DEF HandOut, RunnerPhases
<1>2. InNextTest'
  <2>. SUFFICES ASSUME NEW q \in Runs, NEW s1 \in Slots, thr'[q][s1].pc = "has"
                PROVE /\ phase'[q] = "runner"
                      /\ Remaining(q)' # {}
                      /\ \A s2 \in Slots \ {s1} : thr'[q][s2].pc # "has"
    BY DEF InNextTest
  <2>1. thr[q][s1].pc = "has"
    BY DEF Moves
  <2>2. Remaining(q)' = Remaining(q)
    BY DEF NoneInNext
  <2>. QED
    BY <2>1, <2>2 DEF HandOut, InNextTest, Moves
<1>3. StopInForce'
  <2>1. \A q \in Runs : NoneInNext(q) => NoneInNext(q)'
    BY DEF NoneInNext, Moves
  <2>. QED
    BY <2>1 DEF HandOut, StopInForce, Executing
<1>4. Registered'
  BY DEF HandOut, Registered
<1>. QED
  BY <1>1, <1>2, <1>3, <1>4 DEF HandOut

(* The steps of a worker thread.                                            *)
LEMMA HandOutThread ==
  ASSUME TypeOK, HandOut, NEW r \in Runs, NEW s \in Slots,
         ThreadStep(r, s) \/ RunScript(r, s) \/ Die(r, s)
  PROVE HandOut'
<1>1. CASE NextTest(r, s)
  <2>1. Moves(r, s, IF ~halt[r] /\ IteratorHasNext(r) THEN "has" ELSE "exit")
    BY <1>1 DEF NextTest, Goto, Threads, TypeOK, Moves
  <2>2. CASE halt[r] \/ ~IteratorHasNext(r)
    <3>1. /\ thr[r][s].pc # "none" /\ Moves(r, s, "exit")
          /\ \A q \in Runs : halt[q] => halt'[q]
      BY <1>1, <2>1, <2>2 DEF NextTest, TypeOK
    <3>2. UNCHANGED <<worker, phase, stopReq, stopping, late, sel, taken>>
      BY <1>1 DEF NextTest, harnessVars, runVars, history
    <3>. QED
      BY <3>1, <3>2, HandOutMove DEF ThreadStates, Remaining
  <2>3. CASE ~halt[r] /\ IteratorHasNext(r)
    <3>1. phase[r] = "runner" /\ NoneInNext(r)
      BY <1>1, <2>3 DEF NextTest, MonitorFree, TypeOK, HandOut, RunnerPhases, NoThreads
    <3>2. late[r] = 0
      BY <2>3, <3>1 DEF IteratorHasNext, HandOut, StopInForce, Executing
    <3>3. UNCHANGED <<worker, phase, stopReq, stopping, late, sel, taken, halt>>
      BY <1>1, <2>3 DEF NextTest, harnessVars, runVars, history, TypeOK
    <3>4. Moves(r, s, "has") /\ thr[r][s].pc # "none" /\ Remaining(r) # {}
      BY <1>1, <2>1, <2>3 DEF NextTest, IteratorHasNext
    <3>5. RunnerPhases' /\ Registered'
      BY <3>1, <3>3, <3>4 DEF HandOut, RunnerPhases, Registered, NoThreads, Moves
    <3>6. InNextTest'
      BY <3>1, <3>3, <3>4 DEF HandOut, InNextTest, NoneInNext, Remaining, Moves
    <3>7. StopInForce'
      BY <3>2, <3>3, <3>4 DEF HandOut, StopInForce, NoneInNext, Executing, Moves
    <3>. QED
      BY <3>5, <3>6, <3>7 DEF HandOut
  <2>. QED
    BY <2>2, <2>3
<1>2. ASSUME NEW t \in Tests, Take(r, s, t) PROVE HandOut'
  <2>1. Moves(r, s, "run") /\ thr[r][s].pc = "has"
    BY <1>2 DEF Take, Threads, TypeOK, Moves
  <2>2. NoneInNext(r)' /\ late[r] = 0
    BY <2>1 DEF HandOut, InNextTest, StopInForce, NoneInNext, Moves
  <2>3. UNCHANGED <<worker, phase, stopReq, stopping, halt, sel>>
    BY <1>2 DEF Take, harnessVars, runVars
  <2>4. \A q \in Runs : \/ late'[q] = late[q]
                        \/ q = r /\ late'[q] = 1 /\ stopReq[q] = "effective"
    <3>1. late' = [late EXCEPT ![r] = AfterStop(r)]
      BY <1>2 DEF Take
    <3>2. \/ AfterStop(r) = late[r]
          \/ AfterStop(r) = 1 /\ stopReq[r] = "effective"
      BY <2>2 DEF AfterStop
    <3>. QED
      BY <3>1, <3>2 DEF TypeOK
  <2>5. \A q \in Runs : q = r \/ Remaining(q)' = Remaining(q)
    BY <1>2, <2>3 DEF Take, Remaining, TypeOK
  <2>. QED
    BY <2>1, <2>2, <2>3, <2>4, <2>5, HandOutMove DEF ThreadStates
<1>3. ASSUME NEW t \in Tests, TakeFault(r, s, t) PROVE HandOut'
  <2>1. Moves(r, s, "exit") /\ thr[r][s].pc = "has"
    BY <1>3 DEF TakeFault, Goto, Threads, TypeOK, Moves
  <2>2. NoneInNext(r)'
    BY <2>1 DEF HandOut, InNextTest, NoneInNext, Moves
  <2>3. UNCHANGED <<worker, phase, stopReq, halt, sel, late>> /\ stopping'
    BY <1>3 DEF TakeFault, runVars
  <2>4. \A q \in Runs : q = r \/ Remaining(q)' = Remaining(q)
    BY <1>3, <2>3 DEF TakeFault, Remaining, TypeOK
  <2>. QED
    BY <2>1, <2>2, <2>3, <2>4, HandOutMove DEF ThreadStates
<1>4. CASE Report(r, s) \/ ThreadExiting(r, s) \/ RunScript(r, s) \/ Die(r, s)
  <2>1. thr[r][s].pc # "none" /\ \E p \in ThreadStates \ {"has"} : Moves(r, s, p)
    <3>. USE DEF TypeOK, Threads, ThreadStates, Moves
    <3>1. CASE Report(r, s)
      BY <3>1 DEF Report
    <3>2. CASE ThreadExiting(r, s)
      BY <3>2 DEF ThreadExiting, NoThread
    <3>3. CASE RunScript(r, s)
      <4>1. PICK o \in Statuses : thr' = [thr EXCEPT ![r][s] =
                                            [@ EXCEPT !.pc = "report", !.st = o]]
        BY <3>3 DEF RunScript
      <4>2. thr'[r][s] = [thr[r][s] EXCEPT !.pc = "report", !.st = o]
        BY <4>1
      <4>3. thr[r][s].pc = "run"
        BY <3>3 DEF RunScript
      <4>4. thr'[r][s].pc = "report"
        BY <4>2
      <4>5. Moves(r, s, "report")
        BY <4>1, <4>4
      <4>. QED
        BY <4>3, <4>5
    <3>4. CASE Die(r, s)
      BY <3>4 DEF Die
    <3>. QED
      BY <1>4, <3>1, <3>2, <3>3, <3>4
  <2>2. UNCHANGED <<worker, stopping, phase, sel, taken, halt, stopReq, late>>
    BY <1>4 DEF Report, ThreadExiting, RunScript, Die, harnessVars, runVars, history
  <2>. QED
    BY <2>1, <2>2, HandOutMove DEF Remaining
<1>. QED
  BY <1>1, <1>2, <1>3, <1>4 DEF ThreadStep, OwnStep, NextCall

(* HandOut is an inductive invariant.                                       *)
THEOREM HandOutInvariant == Spec => []HandOut
<1>1. TypeOK /\ OneRunAtATime /\ HandOut /\ [Next]_vars => HandOut'
  BY HandOutHarness, HandOutRunner, HandOutThread DEF Next, RunStep
<1>. QED
  BY <1>1, HandOutInit, TypeCorrect, OneRun, PTL DEF Spec

(* A worker thread that was told hasNext finds a test, and is alone between *)
(* the two calls (DefaultTestRunner.nextTest).                              *)
THEOREM StableHasNext == Spec => []HasNextIsStable
<1>1. TypeOK /\ HandOut => HasNextIsStable
  BY DEF TypeOK, HandOut, InNextTest, HasNextIsStable, Remaining
<1>. QED
  BY <1>1, TypeCorrect, HandOutInvariant, PTL

(* After an effective stop at most one more test is taken, however many     *)
(* worker threads there are.                                                *)
THEOREM PromptStop == Spec => []StopIsPrompt
<1>1. TypeOK /\ HandOut => StopIsPrompt
  <2>. SUFFICES ASSUME TypeOK, HandOut, NEW r \in Runs PROVE late[r] < 2
    BY DEF StopIsPrompt
  <2>1. late[r] = 0 \/ late[r] = 1
    BY DEF HandOut, StopInForce
  <2>. QED
    BY <2>1
<1>. QED
  BY <1>1, TypeCorrect, HandOutInvariant, PTL

-----------------------------------------------------------------------------
(***************************************************************************)
(* The reports of a test run and its verdict: a test is reported once; a   *)
(* run nobody disturbed has reported every selected test when it announces *)
(* its end, and its verdict is true only if all of them passed.            *)
(***************************************************************************)

UpToReady == {"unborn", "entry", "ready"}
InRunner == {"loop", "runner"}
AfterRunner == {"wind", "tally", "final", "notify", "over"}
HasTest == {"run", "report", "dying"}

(* A test that was taken has been reported, or a thread is going to.        *)
Accounted(r, t) ==
  \/ result[r][t] # "none"
  \/ \E s \in Slots : thr[r][s].pc \in {"run", "report"} /\ thr[r][s].test = t

(* What interrupts, kills or stops the run is a stop() or a fault of it.    *)
Disturbances(r) ==
  /\ intr[r] => stopReq[r] # "no"
  /\ phase[r] = "grace" => stopReq[r] # "no"
  /\ \A s \in Slots : thr[r][s].kill => stopReq[r] # "no"
  /\ stopping /\ phase[r] \in {"ready", "loop", "runner", "grace", "wind", "tally", "final"} =>
       ~Undisturbed(r)

(* activeThreads holds the slots with a thread; a thread with a test keeps  *)
(* it until it is reported.                                                 *)
ThreadsOf(r) ==
  \A s \in Slots :
    /\ thr[r][s].pc = "none" => thr[r][s] = NoThread
    /\ s \in active[r] <=> thr[r][s].pc # "none"
    /\ thr[r][s].pc \in HasTest => thr[r][s].test \in Tests
    /\ thr[r][s].pc \in {"report", "dying"} => thr[r][s].st \in Statuses

ReportsOf(r) ==
  /\ phase[r] \in UpToReady => ~ok[r] /\ ~halt[r] /\ taken[r] = {}
  /\ Undisturbed(r) /\ phase[r] \in InRunner =>
       /\ halt[r] => sel[r] \subseteq taken[r]
       /\ \A t \in taken[r] : Accounted(r, t)
  /\ Undisturbed(r) /\ phase[r] \in AfterRunner => NoThreads(r)
  /\ Undisturbed(r) /\ phase[r] \in {"wind", "tally"} => \A t \in sel[r] : result[r][t] # "none"
  /\ \A t \in Tests : result[r][t] \in {"none", "passed"} \/ failures
  /\ Undisturbed(r) /\ Concluded(r) => \A t \in sel[r] : result[r][t] = "passed"

Accounts == \A r \in Runs : Disturbances(r) /\ ThreadsOf(r) /\ ReportsOf(r)

LEMMA AccountsInit == Init => Accounts
<1>. SUFFICES ASSUME Init, NEW r \in Runs PROVE Disturbances(r) /\ ThreadsOf(r) /\ ReportsOf(r)
  BY Zenon DEF Accounts
<1>0. /\ phase[r] = "unborn" /\ ~ok[r] /\ ~halt[r] /\ taken[r] = {} /\ ~intr[r]
      /\ active[r] = {} /\ \A s \in Slots : thr[r][s] = NoThread
      /\ \A t \in Tests : result[r][t] = "none"
  BY DEF Init
<1>1. Disturbances(r)
  BY <1>0 DEF Disturbances, NoThread
<1>2. ThreadsOf(r)
  <2>. SUFFICES ASSUME NEW s \in Slots
                PROVE /\ thr[r][s].pc = "none" => thr[r][s] = NoThread
                      /\ s \in active[r] <=> thr[r][s].pc # "none"
                      /\ thr[r][s].pc \in HasTest => thr[r][s].test \in Tests
                      /\ thr[r][s].pc \in {"report", "dying"} => thr[r][s].st \in Statuses
    BY Zenon DEF ThreadsOf
  <2>1. thr[r][s] = NoThread /\ NoThread.pc = "none" /\ active[r] = {}
    BY <1>0 DEF NoThread
  <2>. QED
    BY <2>1 DEF HasTest
<1>3. ReportsOf(r)
  BY <1>0 DEF ReportsOf, Concluded, UpToReady, InRunner, AfterRunner
<1>. QED
  BY <1>1, <1>2, <1>3

(* Steps that leave the worker threads and the reports alone.               *)
LEMMA AccountsHarness ==
  ASSUME TypeOK, OneRunAtATime, HandOut, Accounts,
         \/ BatchRefused \/ Stop \/ UNCHANGED vars
         \/ \E r \in Runs :
              \/ Accept(r) \/ BatchIncomplete(r) \/ EnterRunTests(r)
              \/ LaunchFault(r) \/ Wait(r) \/ WaitForThreads(r)
              \/ RunnerReturns(r) \/ RunnerInterrupted(r)
              \/ FinishedTesting(r) \/ Verdict(r) \/ Release(r)
              \/ FinishedTestRun(r)
  PROVE  Accounts'
<1> SUFFICES ASSUME NEW q \in Runs PROVE (Disturbances(q) /\ ThreadsOf(q) /\ ReportsOf(q))'
  BY DEF Accounts
<1>0. thr' = thr /\ result' = result /\ active' = active
  BY DEF BatchRefused, Stop, vars, Accept, BatchIncomplete, EnterRunTests, LaunchFault, Wait,
         WaitForThreads, RunnerReturns, RunnerInterrupted, FinishedTesting, Verdict, Release,
         FinishedTestRun, runnerVars
<1>a. ThreadsOf(q)'
  BY <1>0 DEF Accounts, ThreadsOf
<1>b. /\ Disturbances(q) /\ ThreadsOf(q) /\ ReportsOf(q)
      /\ phase[q] \in {"unborn", "entry", "ready"} => NoThreads(q)
  BY DEF Accounts, HandOut, RunnerPhases
<1>. USE <1>0, <1>a, <1>b DEF TypeOK, Disturbances, ReportsOf, NoThreads, Accounted,
             Undisturbed, Concluded, UpToReady, InRunner, AfterRunner
<1>1. CASE BatchRefused \/ UNCHANGED vars
  BY <1>1 DEF BatchRefused, vars, harnessVars, runVars, runnerVars, history
<1>2. CASE Stop
  BY <1>2 DEF Stop, OneRunAtATime, Executing, runnerVars
<1>3. ASSUME NEW r \in Runs, Accept(r) PROVE (Disturbances(q) /\ ReportsOf(q))'
  BY <1>3 DEF Accept, Idle, runnerVars, history
<1>4. ASSUME NEW r \in Runs, BatchIncomplete(r) PROVE (Disturbances(q) /\ ReportsOf(q))'
  BY <1>4 DEF BatchIncomplete, harnessVars, runVars, runnerVars, history
<1>5. ASSUME NEW r \in Runs, EnterRunTests(r) PROVE (Disturbances(q) /\ ReportsOf(q))'
  BY <1>5 DEF EnterRunTests, harnessVars, runVars, runnerVars, history
<1>6. ASSUME NEW r \in Runs, LaunchFault(r) PROVE (Disturbances(q) /\ ReportsOf(q))'
  BY <1>6 DEF LaunchFault, harnessVars, runVars, runnerVars, history
<1>7. ASSUME NEW r \in Runs, Wait(r) PROVE (Disturbances(q) /\ ReportsOf(q))'
  BY <1>7 DEF Wait, harnessVars, runVars, runnerVars, history
<1>8. ASSUME NEW r \in Runs, WaitForThreads(r) PROVE (Disturbances(q) /\ ReportsOf(q))'
  BY <1>8 DEF WaitForThreads, harnessVars, runVars, runnerVars, history
<1>9. ASSUME NEW r \in Runs, RunnerReturns(r) PROVE (Disturbances(q) /\ ReportsOf(q))'
  <2>1. /\ phase[r] = "runner" /\ phase' = [phase EXCEPT ![r] = "wind"] /\ halt[r]
        /\ ok' = [ok EXCEPT ![r] = allPassed[r]]
        /\ UNCHANGED <<intr, halt, taken, sel, failures, stopping, stopReq, faulted>>
    BY <1>9 DEF RunnerReturns, harnessVars, runVars, runnerVars, history
  <2>2. NoThreads(r)
    BY <1>9 DEF RunnerReturns, AllExited, ThreadsOf, Accounts
  <2>3. CASE q # r
    <3>1. UNCHANGED <<phase[q], ok[q]>>
      BY <2>1, <2>3
    <3>. QED
      BY <2>1, <3>1
  <2>4. CASE q = r
    <3>1. phase'[q] = "wind" /\ phase[q] = "runner"
      BY <2>1, <2>4
    <3>2. Disturbances(q)'
      BY <2>1, <3>1
    <3>3. Undisturbed(q) => \A t \in sel[q] : result[q][t] # "none"
      BY <2>1, <2>2, <2>4
    <3>. QED
      BY <2>1, <2>2, <2>4, <3>1, <3>2, <3>3
  <2>. QED
    BY <2>3, <2>4
<1>10. ASSUME NEW r \in Runs, RunnerInterrupted(r) PROVE (Disturbances(q) /\ ReportsOf(q))'
  BY <1>10 DEF RunnerInterrupted, harnessVars, runVars, runnerVars, history
<1>11. ASSUME NEW r \in Runs, FinishedTesting(r) PROVE (Disturbances(q) /\ ReportsOf(q))'
  BY <1>11 DEF FinishedTesting, harnessVars, runVars, runnerVars, history
<1>12. ASSUME NEW r \in Runs, Verdict(r) PROVE (Disturbances(q) /\ ReportsOf(q))'
  BY <1>12 DEF Verdict, harnessVars, runVars, runnerVars, history
<1>13. ASSUME NEW r \in Runs, Release(r) PROVE (Disturbances(q) /\ ReportsOf(q))'
  BY <1>13 DEF Release, harnessVars, runVars, runnerVars, history
<1>14. ASSUME NEW r \in Runs, FinishedTestRun(r) PROVE (Disturbances(q) /\ ReportsOf(q))'
  BY <1>14 DEF FinishedTestRun, harnessVars, runVars, runnerVars, history
<1>. QED
  BY <1>1, <1>2, <1>3, <1>4, <1>5, <1>6, <1>7, <1>8, <1>9, <1>10, <1>11, <1>12,
     <1>13, <1>14
(* Steps that create or kill worker threads.                                *)
LEMMA AccountsRunner ==
  ASSUME TypeOK, HandOut, Accounts, NEW r \in Runs,
         LaunchRunner(r) \/ Respawn(r) \/ GraceEnds(r)
  PROVE  Accounts'
<1>. SUFFICES ASSUME NEW q \in Runs PROVE (Disturbances(q) /\ ThreadsOf(q) /\ ReportsOf(q))'
  BY DEF Accounts
<1>a. Disturbances(q) /\ ThreadsOf(q) /\ ReportsOf(q)
  BY DEF Accounts
<1>b. NewThread.pc = "fetch" /\ ~NewThread.kill
  BY DEF NewThread
<1>c. UNCHANGED <<stopping, failures, sel, taken, result, stopReq, faulted, halt>>
  BY DEF LaunchRunner, Respawn, GraceEnds, harnessVars, history
<1>1. CASE q # r
  <2>1. UNCHANGED <<phase[q], intr[q], ok[q], thr[q], active[q]>>
    BY <1>1 DEF LaunchRunner, Respawn, GraceEnds, TypeOK
  <2>. QED
    BY <1>a, <1>c, <2>1 DEF Disturbances, ThreadsOf, ReportsOf, NoThreads, Accounted,
                            Undisturbed, Concluded
<1>2. CASE q = r /\ LaunchRunner(r)
  <2>1. /\ phase[q] = "ready" /\ phase'[q] = "loop" /\ intr'[q] \in {intr[q], FALSE}
        /\ taken[q] = {} /\ ~halt[q] /\ active'[q] = Slots
        /\ \A s \in Slots : thr'[q][s] = NewThread
    BY <1>2, <1>a DEF LaunchRunner, TypeOK, ReportsOf, UpToReady
  <2>. QED
    BY <1>a, <1>b, <1>c, <2>1
    DEF Disturbances, ThreadsOf, ReportsOf, Undisturbed, Concluded, UpToReady, InRunner,
        AfterRunner, HasTest
<1>3. CASE q = r /\ Respawn(r)
  <2>1. /\ phase[q] = "runner" /\ phase'[q] = "loop" /\ intr'[q] = intr[q]
        /\ ~halt[q] /\ active'[q] = Slots
        /\ \A s \in Slots : thr'[q][s] = IF s \in active[q] THEN thr[q][s] ELSE NewThread
    BY <1>3 DEF Respawn, TypeOK
  <2>2. \A t \in Tests : Accounted(q, t) => Accounted(q, t)'
    BY <1>a, <1>c, <2>1 DEF Accounted, ThreadsOf
  <2>3. ReportsOf(q)'
    BY <1>a, <1>c, <2>1, <2>2 DEF ReportsOf, Undisturbed, Concluded, UpToReady, InRunner,
       AfterRunner, TypeOK
  <2>. QED
    BY <1>a, <1>b, <1>c, <2>1, <2>3 DEF Disturbances, ThreadsOf, Undisturbed, HasTest
<1>4. CASE q = r /\ GraceEnds(r)
  <2>1. /\ phase[q] = "grace" /\ phase'[q] = "wind"
        /\ active'[q] = active[q]
    BY <1>4 DEF GraceEnds, TypeOK
  <2>2. stopReq[q] # "no"
    BY Zenon, <1>a, <2>1 DEF Disturbances
  <2>3. \A s \in Slots : \/ thr'[q][s] = thr[q][s]
                         \/ thr[q][s].pc # "none" /\ thr'[q][s] = [thr[q][s] EXCEPT !.kill = TRUE]
    BY <1>4 DEF GraceEnds, TypeOK
  <2>4. \A s \in Slots : /\ thr'[q][s].pc = thr[q][s].pc
                         /\ thr'[q][s].test = thr[q][s].test /\ thr'[q][s].st = thr[q][s].st
                         /\ thr[q][s].pc = "none" => thr'[q][s] = thr[q][s]
    <3>. TAKE s \in Slots
    <3>1. thr[q][s] \in Threads
      BY DEF TypeOK
    <3>2. CASE thr'[q][s] = thr[q][s]
      BY <3>2
    <3>3. CASE thr[q][s].pc # "none" /\ thr'[q][s] = [thr[q][s] EXCEPT !.kill = TRUE]
      BY <3>1, <3>3 DEF Threads
    <3>. QED
      BY <2>3, <3>2, <3>3
  <2>5. ThreadsOf(q)'
    BY <1>a, <2>1, <2>4 DEF ThreadsOf
  <2>6. stopReq'[q] # "no" /\ ~Undisturbed(q)'
    BY <1>c, <2>2 DEF Undisturbed
  <2>7. Disturbances(q)'
    BY Zenon, <2>6 DEF Disturbances
  <2>8. phase'[q] \notin UpToReady /\ ~Concluded(q)'
    BY <2>1 DEF UpToReady, Concluded
  <2>9. \A t \in Tests : (result[q][t] \in {"none", "passed"} \/ failures)'
    BY Zenon, <1>a, <1>c DEF ReportsOf
  <2>10. ReportsOf(q)'
    BY Zenon, <2>6, <2>8, <2>9 DEF ReportsOf
  <2>. QED
    BY <2>5, <2>7, <2>10
<1>. QED
  BY <1>1, <1>2, <1>3, <1>4

(* A step of one worker thread, whose record becomes x: what it owes to the *)
(* invariant. While the thread exists its run is not over, or is disturbed. *)
LEMMA AccountsMove ==
  ASSUME TypeOK, OneRunAtATime, HandOut, Accounts, NEW r \in Runs, NEW s \in Slots,
         NEW x \in Threads, thr[r][s].pc # "none", thr' = [thr EXCEPT ![r][s] = x],
         UNCHANGED <<runVars, stopReq>>,
         \A q \in Runs : q # r => UNCHANGED <<halt[q], taken[q], result[q], active[q]>>,
         failures => failures', faulted \subseteq faulted',
         stopping' = stopping \/ (worker = r /\ r \in faulted'),
         x.kill => thr[r][s].kill,
         \A s2 \in Slots : s2 # s => (s2 \in active'[r] <=> s2 \in active[r]),
         s \in active'[r] <=> x.pc # "none",
         x.pc = "none" => x = NoThread,
         x.pc \in HasTest => x.test \in Tests,
         x.pc \in {"report", "dying"} => x.st \in Statuses,
         \A t \in Tests : result'[r][t] \in {"none", "passed"} \/ failures',
         Undisturbed(r)' /\ phase[r] \in InRunner =>
           /\ halt'[r] => sel[r] \subseteq taken'[r]
           /\ \A t \in taken'[r] : Accounted(r, t)'
  PROVE  Accounts'
<1>. SUFFICES ASSUME NEW q \in Runs PROVE (Disturbances(q) /\ ThreadsOf(q) /\ ReportsOf(q))'
  BY DEF Accounts
<1>1. Disturbances(q) /\ ThreadsOf(q) /\ ReportsOf(q)
  BY DEF Accounts
<1>2. /\ UNCHANGED <<phase, mode, valid, sel, intr, ok, stopReq>>
      /\ Undisturbed(q)' => Undisturbed(q)
  BY DEF runVars, Undisturbed
<1>3. \A s2 \in Slots : (q # r \/ s2 # s) => thr'[q][s2] = thr[q][s2]
  BY DEF TypeOK
<1>4. thr'[r][s] = x
  BY DEF TypeOK
<1>5. Disturbances(q)'
  <2>1. \A s2 \in Slots : thr'[q][s2].kill => thr[q][s2].kill
    BY <1>3, <1>4
  <2>2. worker = r /\ r \in faulted' => ~Undisturbed(q)' \/ ~Executing(q)
    BY DEF OneRunAtATime, Undisturbed
  <2>. QED
    BY <1>1, <1>2, <2>1, <2>2 DEF Disturbances, Executing
<1>6. ThreadsOf(q)'
  BY <1>1, <1>3, <1>4 DEF ThreadsOf
<1>7. ReportsOf(q)'
  <2>1. CASE q # r
    <3>1. \A s2 \in Slots : thr'[q][s2] = thr[q][s2]
      BY <1>3, <2>1
    <3>2. UNCHANGED <<halt[q], taken[q], result[q], active[q]>>
      BY <2>1
    <3>. QED
      BY <1>1, <1>2, <3>1, <3>2 DEF ReportsOf, NoThreads, Accounted, Concluded
  <2>2. CASE q = r
    <3>1. ~NoThreads(q)
      BY <2>2 DEF NoThreads
    <3>2. phase[q] \notin UpToReady
      BY <3>1 DEF HandOut, RunnerPhases, UpToReady
    <3>3. Undisturbed(q)' => phase[q] \notin AfterRunner
      BY <1>1, <1>2, <3>1 DEF ReportsOf
    <3>. QED
      BY <1>2, <2>2, <3>2, <3>3 DEF ReportsOf, Concluded, AfterRunner
  <2>. QED
    BY <2>1, <2>2
<1>. QED
  BY <1>5, <1>6, <1>7

(* The thread that has reported a test goes on, or dies.                    *)
LEMMA ReportMove ==
  ASSUME TypeOK, NEW r \in Runs, NEW s \in Slots, Report(r, s)
  PROVE  \E x \in Threads : /\ thr' = [thr EXCEPT ![r][s] = x]
                            /\ x.pc \in {"fetch", "exit"} /\ x.kill = thr[r][s].kill
<1>1. thr[r][s] \in Threads
  BY DEF TypeOK
<1>2. PICK x \in Threads : thr' = [thr EXCEPT ![r][s] = x]
  BY Zenon, <1>1, ThreadFields DEF Report, ThreadStates
<1>3. thr'[r][s] = x
  BY <1>2 DEF TypeOK
<1>4. thr'[r][s].pc \in {"fetch", "exit"} /\ thr'[r][s].kill = thr[r][s].kill
  BY <1>1 DEF TypeOK, Report, Threads
<1>. QED
  BY <1>2, <1>3, <1>4

(* The steps of a worker thread.                                            *)
LEMMA AccountsThread ==
  ASSUME TypeOK, OneRunAtATime, HandOut, Accounts, NEW r \in Runs, NEW s \in Slots,
         ThreadStep(r, s) \/ RunScript(r, s) \/ Die(r, s)
  PROVE  Accounts'
<1>. DEFINE own == thr[r][s]
<1>a. own \in Threads
  BY DEF TypeOK
<1>b. Disturbances(r) /\ ThreadsOf(r) /\ ReportsOf(r)
  BY DEF Accounts
<1>c. \A t \in Tests : result[r][t] \in {"none", "passed"} \/ failures
  BY Zenon, <1>b DEF ReportsOf
<1>d. /\ s \in active[r] <=> own.pc # "none"
      /\ own.pc \in HasTest => own.test \in Tests
      /\ own.pc \in {"report", "dying"} => own.st \in Statuses
  BY Zenon, <1>b DEF ThreadsOf
<1>e. Undisturbed(r) /\ phase[r] \in InRunner =>
        /\ halt[r] => sel[r] \subseteq taken[r]
        /\ \A t \in taken[r] : Accounted(r, t)
  BY Zenon, <1>b DEF ReportsOf
<1>1. CASE NextTest(r, s)
  <2>. DEFINE x == [own EXCEPT !.pc = IF ~halt[r] /\ IteratorHasNext(r) THEN "has" ELSE "exit"]
  <2>1. /\ own.pc = "fetch" /\ thr' = [thr EXCEPT ![r][s] = x]
        /\ halt' = [halt EXCEPT ![r] = @ \/ ~IteratorHasNext(r)]
        /\ UNCHANGED <<worker, stopping, failures, runVars, taken, result, active, stopReq, faulted>>
    BY <1>1 DEF NextTest, Goto, harnessVars, history
  <2>2. /\ x \in Threads /\ x.pc \in {"has", "exit"} /\ x.kill = own.kill
    BY <1>a DEF Threads, ThreadStates
  <2>3. ASSUME Undisturbed(r), phase[r] \in InRunner
        PROVE  /\ halt'[r] => sel[r] \subseteq taken[r]
               /\ \A t \in taken[r] : Accounted(r, t)'
    <3>1. ~stopping
      BY Zenon, <1>b, <2>3 DEF Disturbances, InRunner
    <3>2. halt'[r] => sel[r] \subseteq taken[r]
      BY <1>e, <2>1, <2>3, <3>1 DEF IteratorHasNext, Remaining, TypeOK
    <3>3. \A s2 \in Slots : thr[r][s2].pc \in {"run", "report"} => thr'[r][s2] = thr[r][s2]
      BY <2>1 DEF TypeOK
    <3>4. \A t \in Tests : Accounted(r, t) => Accounted(r, t)'
      BY <2>1, <3>3 DEF Accounted
    <3>. QED
      BY <1>e, <2>3, <3>2, <3>4 DEF TypeOK
  <2>4. Undisturbed(r)' <=> Undisturbed(r)
    BY <2>1 DEF Undisturbed
  <2>5. \A q \in Runs : q # r => halt'[q] = halt[q]
    BY <2>1 DEF TypeOK
  <2>. HIDE DEF x
  <2>. QED
    BY <1>c, <1>d, <2>1, <2>2, <2>3, <2>4, <2>5, AccountsMove DEF HasTest, runVars
<1>2. ASSUME NEW t \in Tests, Take(r, s, t) PROVE Accounts'
  <2>. DEFINE x == [own EXCEPT !.pc = "run", !.test = t]
  <2>1. /\ own.pc = "has" /\ thr' = [thr EXCEPT ![r][s] = x]
        /\ taken' = [taken EXCEPT ![r] = @ \cup {t}]
        /\ UNCHANGED <<worker, stopping, failures, runVars, halt, result, active, stopReq, faulted>>
    BY <1>2 DEF Take, harnessVars
  <2>2. x \in Threads /\ x.pc = "run" /\ x.test = t /\ x.kill = own.kill
    BY <1>a DEF Threads, ThreadStates
  <2>3. \A u \in Tests : Accounted(r, u) \/ u = t => Accounted(r, u)'
    <3>1. thr'[r][s] = x
      BY <2>1 DEF TypeOK
    <3>2. \A s2 \in Slots : thr[r][s2].pc \in {"run", "report"} => thr'[r][s2] = thr[r][s2]
      BY <2>1 DEF TypeOK
    <3>. QED
      BY <2>1, <2>2, <3>1, <3>2 DEF Accounted
  <2>4. Undisturbed(r)' <=> Undisturbed(r)
    BY <2>1 DEF Undisturbed
  <2>5. taken'[r] = taken[r] \cup {t} /\ \A q \in Runs : q # r => taken'[q] = taken[q]
    BY <2>1 DEF TypeOK
  <2>6. Undisturbed(r)' /\ phase[r] \in InRunner =>
          /\ halt[r] => sel[r] \subseteq taken'[r]
          /\ \A u \in taken'[r] : Accounted(r, u)'
    BY <1>e, <2>3, <2>4, <2>5 DEF TypeOK
  <2>. HIDE DEF x
  <2>. QED
    BY <1>c, <1>d, <2>1, <2>2, <2>4, <2>5, <2>6, AccountsMove DEF HasTest, runVars
<1>3. ASSUME NEW t \in Tests, TakeFault(r, s, t) PROVE Accounts'
  <2>. DEFINE x == [own EXCEPT !.pc = "exit"]
  <2>1. /\ own.pc = "has" /\ thr' = [thr EXCEPT ![r][s] = x]
        /\ taken' = [taken EXCEPT ![r] = @ \cup {t}]
        /\ stopping' = TRUE /\ faulted' = faulted \cup {r}
        /\ UNCHANGED <<worker, failures, runVars, halt, result, active, stopReq>>
    BY <1>3 DEF TakeFault, Goto
  <2>2. x \in Threads /\ x.pc = "exit" /\ x.kill = own.kill
    BY <1>a DEF Threads, ThreadStates
  <2>3. worker = r
    BY <2>1 DEF HandOut, InNextTest, OneRunAtATime, Executing
  <2>4. ~Undisturbed(r)' /\ faulted \subseteq faulted'
    BY <2>1 DEF Undisturbed
  <2>5. stopping' = stopping \/ (worker = r /\ r \in faulted')
    BY <2>1, <2>3 DEF TypeOK
  <2>6. \A q \in Runs : q # r => taken'[q] = taken[q]
    BY <2>1 DEF TypeOK
  <2>. HIDE DEF x
  <2>. QED
    BY <1>c, <1>d, <2>1, <2>2, <2>4, <2>5, <2>6, AccountsMove DEF HasTest, runVars
<1>4. CASE RunScript(r, s)
  <2>1. PICK st \in Statuses : thr' = [thr EXCEPT ![r][s] = [@ EXCEPT !.pc = "report", !.st = st]]
    BY Zenon, <1>4 DEF RunScript
  <2>. DEFINE x == [own EXCEPT !.pc = "report", !.st = st]
  <2>2. /\ own.pc = "run" /\ thr' = [thr EXCEPT ![r][s] = x]
        /\ UNCHANGED <<worker, stopping, failures, runVars, taken, halt, result, active, stopReq, faulted>>
    <3>1. /\ own.pc = "run"
          /\ UNCHANGED <<harnessVars, runVars, taken, result, halt, active, history>>
      BY Zenon, <1>4 DEF RunScript
    <3>. QED
      BY Zenon, <2>1, <3>1 DEF harnessVars, history
  <2>3. /\ x \in Threads /\ x.pc = "report" /\ x.test = own.test /\ x.st = st /\ x.kill = own.kill
    BY <1>a DEF Threads, ThreadStates, Outcomes, Statuses
  <2>4. \A u \in Tests : Accounted(r, u) => Accounted(r, u)'
    <3>1. thr'[r][s] = x /\ \A s2 \in Slots : s2 # s => thr'[r][s2] = thr[r][s2]
      BY <2>2 DEF TypeOK
    <3>. QED
      BY <2>2, <2>3, <3>1 DEF Accounted
  <2>5. Undisturbed(r)' <=> Undisturbed(r)
    BY <2>2 DEF Undisturbed
  <2>6. Undisturbed(r)' /\ phase[r] \in InRunner =>
          /\ halt[r] => sel[r] \subseteq taken[r]
          /\ \A u \in taken[r] : Accounted(r, u)'
    BY <1>e, <2>4, <2>5 DEF TypeOK
  <2>. HIDE DEF x
  <2>. QED
    BY <1>c, <1>d, <2>2, <2>3, <2>5, <2>6, AccountsMove DEF HasTest, runVars
<1>5. CASE Report(r, s)
  <2>0. PICK x \in Threads : /\ thr' = [thr EXCEPT ![r][s] = x]
                             /\ x.pc \in {"fetch", "exit"} /\ x.kill = own.kill
    BY Zenon, <1>5, ReportMove
  <2>1. /\ own.pc \in {"report", "dying"} /\ thr' = [thr EXCEPT ![r][s] = x]
        /\ result' = [result EXCEPT ![r][own.test] = own.st]
        /\ failures' = (failures \/ own.st # "passed")
        /\ UNCHANGED <<worker, stopping, runVars, taken, halt, active, stopReq, faulted>>
    <3>1. own.pc \in {"report", "dying"}
      BY <1>5 DEF Report
    <3>2. result' = [result EXCEPT ![r][own.test] = own.st]
      BY Zenon, <1>5 DEF Report
    <3>3. failures' = (failures \/ own.st # "passed")
      BY Zenon, <1>5 DEF Report
    <3>4. UNCHANGED <<worker, stopping, runVars, taken, halt, active, stopReq, faulted>>
      BY Zenon, <1>5 DEF Report, history
    <3>. QED
      BY Zenon, <2>0, <3>1, <3>2, <3>3, <3>4
  <2>2. /\ x \in Threads /\ x.pc \in {"fetch", "exit"} /\ x.kill = own.kill
    BY <2>0
  <2>3. own.test \in Tests /\ own.st \in Statuses
    BY <1>d, <2>1 DEF HasTest
  <2>4. /\ \A q \in Runs : q # r => result'[q] = result[q]
        /\ \A u \in Tests : result'[r][u] = IF u = own.test THEN own.st ELSE result[r][u]
    BY <2>1, <2>3 DEF TypeOK
  <2>5. \A u \in Tests : Accounted(r, u) => Accounted(r, u)'
    <3>1. \A s2 \in Slots : s2 # s => thr'[r][s2] = thr[r][s2]
      BY <2>1 DEF TypeOK
    <3>. QED
      BY <2>3, <2>4, <3>1 DEF Accounted, Statuses
  <2>6. \A u \in Tests : result'[r][u] \in {"none", "passed"} \/ failures'
    BY <1>c, <2>1, <2>4
  <2>7. Undisturbed(r)' <=> Undisturbed(r)
    BY <2>1 DEF Undisturbed
  <2>8. Undisturbed(r)' /\ phase[r] \in InRunner =>
          /\ halt[r] => sel[r] \subseteq taken[r]
          /\ \A u \in taken[r] : Accounted(r, u)'
    BY <1>e, <2>5, <2>7 DEF TypeOK
  <2>. QED
    BY <1>d, <2>1, <2>2, <2>4, <2>6, <2>7, <2>8, AccountsMove DEF HasTest, runVars
<1>6. CASE ThreadExiting(r, s)
  <2>1. /\ own.pc = "exit" /\ thr' = [thr EXCEPT ![r][s] = NoThread]
        /\ active' = [active EXCEPT ![r] = @ \ {s}]
        /\ UNCHANGED <<worker, stopping, failures, runVars, result, taken, halt, stopReq, faulted>>
    BY <1>6 DEF ThreadExiting, harnessVars, history
  <2>2. NoThread \in Threads /\ NoThread.pc = "none" /\ ~NoThread.kill
    BY ThreadValues DEF NoThread
  <2>3. \A u \in Tests : Accounted(r, u) => Accounted(r, u)'
    <3>1. \A s2 \in Slots : s2 # s => thr'[r][s2] = thr[r][s2]
      BY <2>1 DEF TypeOK
    <3>. QED
      BY <2>1, <3>1 DEF Accounted
  <2>4. Undisturbed(r)' <=> Undisturbed(r)
    BY <2>1 DEF Undisturbed
  <2>5. Undisturbed(r)' /\ phase[r] \in InRunner =>
          /\ halt[r] => sel[r] \subseteq taken[r]
          /\ \A u \in taken[r] : Accounted(r, u)'
    BY <1>e, <2>3, <2>4 DEF TypeOK
  <2>6. active'[r] = active[r] \ {s} /\ \A q \in Runs : q # r => active'[q] = active[q]
    BY <2>1 DEF TypeOK
  <2>. QED
    BY <1>c, <2>1, <2>2, <2>4, <2>5, <2>6, AccountsMove DEF HasTest, runVars
<1>7. CASE Die(r, s)
  <2>. DEFINE running == own.pc = "run"
              x == [pc |-> IF running THEN "dying" ELSE "exit",
                    test |-> IF running THEN own.test ELSE NoTest,
                    st |-> IF running THEN "error" ELSE "none", kill |-> FALSE]
  <2>1. /\ own.kill /\ own.pc \in {"fetch", "run", "report"} /\ thr' = [thr EXCEPT ![r][s] = x]
        /\ UNCHANGED <<worker, stopping, failures, runVars, result, taken, halt, active, stopReq, faulted>>
    BY <1>7 DEF Die, harnessVars, history
  <2>2. /\ x \in Threads /\ x.pc \in {"dying", "exit"} /\ ~x.kill
        /\ x.pc = "dying" => x.test \in Tests /\ x.st \in Statuses
    BY <1>a, <1>d DEF Threads, ThreadStates, Outcomes, Statuses, HasTest
  <2>3. ~Undisturbed(r)'
    BY Zenon, <1>b, <2>1 DEF Disturbances, Undisturbed
  <2>. HIDE DEF x
  <2>. QED
    BY <1>c, <1>d, <2>1, <2>2, <2>3, AccountsMove DEF HasTest, runVars
<1>. QED
  BY <1>1, <1>2, <1>3, <1>4, <1>5, <1>6, <1>7 DEF ThreadStep, OwnStep, NextCall

(* Accounts is an inductive invariant, given the other three.               *)
THEOREM AccountsInvariant == Spec => []Accounts
<1>1. TypeOK /\ OneRunAtATime /\ HandOut /\ Accounts /\ [Next]_vars => Accounts'
  BY AccountsHarness, AccountsRunner, AccountsThread DEF Next, RunStep
<1>. QED
  BY <1>1, AccountsInit, TypeCorrect, OneRun, HandOutInvariant, PTL DEF Spec

(* When the observers hear finishedTesting from a run nobody disturbed,     *)
(* every selected test has been reported and no worker thread is left: the  *)
(* wait loop of DefaultTestRunner.runTests does not return too early, for   *)
(* any number of threads and tests.                                         *)
THEOREM ReportsComplete == Spec => []AllReportedWhenFinished
<1>1. Accounts => AllReportedWhenFinished
  BY DEF Accounts, ReportsOf, ThreadsOf, NoThreads, AfterRunner, AllReportedWhenFinished
<1>. QED
  BY <1>1, AccountsInvariant, PTL

(* A true verdict of a run nobody disturbed means every selected test       *)
(* passed, whatever earlier runs and their threads have left behind         *)
(* (Harness.runTests, Harness.batch).                                       *)
THEOREM VerdictIsSound == Spec => []TrueVerdictSound
<1>1. Accounts => TrueVerdictSound
  BY DEF Accounts, ReportsOf, TrueVerdictSound
<1>. QED
  BY <1>1, AccountsInvariant, PTL
-----------------------------------------------------------------------------
(* Each test is reported once.                                              *)

Holds(r, s, t) == thr[r][s].pc \in HasTest /\ thr[r][s].test = t

(* A test is in the hands of one thread at most, it has not been reported   *)
(* while it is, and as long as tests are handed out it is one of those that *)
(* were taken.                                                              *)
OneHolder ==
  \A r \in Runs, t \in Tests :
    /\ \A s \in Slots : Holds(r, s, t) =>
         result[r][t] = "none" /\ \A s2 \in Slots \ {s} : ~Holds(r, s2, t)
    /\ phase[r] \in UpToReady \cup InRunner =>
         \/ t \in taken[r]
         \/ result[r][t] = "none" /\ \A s \in Slots : ~Holds(r, s, t)

LEMMA OneHolderInit == Init => OneHolder
  BY DEF Init, OneHolder, Holds, NoThread, HasTest

(* A step that gives no test to a thread and reports none.                  *)
LEMMA HoldersKept ==
  ASSUME OneHolder, result' = result,
         \A r \in Runs, s \in Slots, t \in Tests : Holds(r, s, t)' => Holds(r, s, t),
         \A r \in Runs : phase'[r] \in UpToReady \cup InRunner =>
            phase[r] \in UpToReady \cup InRunner /\ taken[r] \subseteq taken'[r]
  PROVE  OneHolder'
  BY DEF OneHolder

LEMMA OneHolderHarness ==
  ASSUME TypeOK, OneHolder,
         \/ BatchRefused \/ Stop \/ UNCHANGED vars
         \/ \E r \in Runs :
              \/ Accept(r) \/ BatchIncomplete(r) \/ EnterRunTests(r)
              \/ LaunchFault(r) \/ Wait(r) \/ WaitForThreads(r)
              \/ RunnerReturns(r) \/ RunnerInterrupted(r)
              \/ FinishedTesting(r) \/ Verdict(r) \/ Release(r)
              \/ FinishedTestRun(r)
  PROVE  OneHolder'
<1>1. thr' = thr /\ result' = result
  BY DEF BatchRefused, Stop, vars, Accept, BatchIncomplete, EnterRunTests, LaunchFault, Wait,
         WaitForThreads, RunnerReturns, RunnerInterrupted, FinishedTesting, Verdict, Release,
         FinishedTestRun, runnerVars
<1>2. \A r \in Runs, s \in Slots, t \in Tests : Holds(r, s, t)' => Holds(r, s, t)
  BY <1>1 DEF Holds
<1>3. ASSUME NEW q \in Runs, phase'[q] \in UpToReady \cup InRunner
      PROVE  phase[q] \in UpToReady \cup InRunner /\ taken[q] \subseteq taken'[q]
  <2>. USE <1>3 DEF TypeOK, UpToReady, InRunner
  <2>1. CASE BatchRefused \/ Stop \/ UNCHANGED vars
    BY <2>1 DEF BatchRefused, Stop, vars, runVars, runnerVars
  <2>2. ASSUME NEW r \in Runs, Accept(r) \/ BatchIncomplete(r) \/ EnterRunTests(r) \/ LaunchFault(r)
        PROVE phase[q] \in UpToReady \cup InRunner /\ taken[q] \subseteq taken'[q]
    BY <2>2 DEF Accept, BatchIncomplete, EnterRunTests, LaunchFault, runnerVars
  <2>3. ASSUME NEW r \in Runs, Wait(r) \/ WaitForThreads(r) \/ RunnerReturns(r) \/ RunnerInterrupted(r)
        PROVE phase[q] \in UpToReady \cup InRunner /\ taken[q] \subseteq taken'[q]
    BY <2>3 DEF Wait, WaitForThreads, RunnerReturns, RunnerInterrupted, runnerVars
  <2>4. ASSUME NEW r \in Runs, FinishedTesting(r) \/ Verdict(r) \/ Release(r) \/ FinishedTestRun(r)
        PROVE phase[q] \in UpToReady \cup InRunner /\ taken[q] \subseteq taken'[q]
    BY <2>4 DEF FinishedTesting, Verdict, Release, FinishedTestRun, runnerVars
  <2>. QED
    BY <2>1, <2>2, <2>3, <2>4
<1>. QED
  BY Zenon, <1>1, <1>2, <1>3, HoldersKept

LEMMA OneHolderRunner ==
  ASSUME TypeOK, HandOut, Accounts, OneHolder, NEW r \in Runs,
         LaunchRunner(r) \/ Respawn(r) \/ GraceEnds(r)
  PROVE  OneHolder'
<1>1. UNCHANGED <<result, taken>>
  BY DEF LaunchRunner, Respawn, GraceEnds
<1>2. \A q \in Runs : phase'[q] \in UpToReady \cup InRunner => phase[q] \in UpToReady \cup InRunner
  BY DEF LaunchRunner, Respawn, GraceEnds, TypeOK, UpToReady, InRunner
<1>3. ASSUME NEW q \in Runs, NEW s \in Slots, NEW t \in Tests, Holds(q, s, t)'
      PROVE  Holds(q, s, t)
  <2>1. CASE LaunchRunner(r) \/ Respawn(r)
    <3>1. thr'[q][s] = thr[q][s] \/ thr'[q][s] = NewThread
      BY <2>1 DEF LaunchRunner, Respawn, TypeOK
    <3>. QED
      BY <1>3, <3>1 DEF Holds, NewThread, HasTest
  <2>2. CASE GraceEnds(r)
    <3>1. thr[q][s] \in Threads
      BY DEF TypeOK
    <3>2. thr'[q][s] = thr[q][s] \/ thr'[q][s] = [thr[q][s] EXCEPT !.kill = TRUE]
      BY <2>2 DEF GraceEnds, TypeOK
    <3>3. thr'[q][s].pc = thr[q][s].pc /\ thr'[q][s].test = thr[q][s].test
      BY <3>1, <3>2 DEF Threads
    <3>. QED
      BY <1>3, <3>3 DEF Holds
  <2>. QED
    BY <2>1, <2>2
<1>. QED
  BY Zenon, <1>1, <1>2, <1>3, HoldersKept

LEMMA OneHolderThread ==
  ASSUME TypeOK, HandOut, Accounts, OneHolder, NEW r \in Runs, NEW s \in Slots,
         ThreadStep(r, s) \/ RunScript(r, s) \/ Die(r, s)
  PROVE  OneHolder'
<1>. thr[r][s] \in Threads
  BY DEF TypeOK
<1>a. \A q \in Runs, s2 \in Slots : (q # r \/ s2 # s) => thr'[q][s2] = thr[q][s2]
  <2>. SUFFICES \E x : thr' = [thr EXCEPT ![r][s] = x]
    BY DEF TypeOK
  <2>1. ASSUME NEW t \in Tests, Take(r, s, t) \/ TakeFault(r, s, t)
        PROVE  \E x : thr' = [thr EXCEPT ![r][s] = x]
    BY Zenon, <2>1 DEF Take, TakeFault, Goto
  <2>2. CASE NextTest(r, s)
    BY Zenon, <2>2 DEF NextTest, Goto
  <2>3. CASE ThreadExiting(r, s)
    BY Zenon, <2>3 DEF ThreadExiting
  <2>4. CASE RunScript(r, s)
    BY Zenon, <2>4 DEF RunScript
  <2>5. CASE Die(r, s)
    BY Zenon, <2>5 DEF Die
  <2>6. CASE Report(r, s)
    <3>1. PICK x \in Threads : /\ thr' = [thr EXCEPT ![r][s] = x]
                               /\ x.pc \in {"fetch", "exit"} /\ x.kill = thr[r][s].kill
      BY Zenon, <2>6, ReportMove
    <3>. QED
      BY Zenon, <3>1
  <2>. QED
    BY Zenon, <2>1, <2>2, <2>3, <2>4, <2>5, <2>6 DEF ThreadStep, OwnStep, NextCall
<1>b. phase' = phase
  BY Zenon DEF ThreadStep, OwnStep, NextCall, NextTest, Take, TakeFault, Report, ThreadExiting, RunScript, Die, runVars
<1>1. CASE NextTest(r, s) \/ ThreadExiting(r, s) \/ RunScript(r, s) \/ Die(r, s)
  <2>1. UNCHANGED <<result, taken>>
    BY Zenon, <1>1 DEF NextTest, ThreadExiting, RunScript, Die
  <2>2. \A t \in Tests : Holds(r, s, t)' => Holds(r, s, t)
    <3>1. CASE NextTest(r, s)
      BY <3>1 DEF NextTest, Goto, TypeOK, Threads, Holds, HasTest
    <3>2. CASE ThreadExiting(r, s)
      BY <3>2 DEF ThreadExiting, TypeOK, NoThread, Holds, HasTest
    <3>3. CASE RunScript(r, s)
      <4>1. PICK st \in Statuses : thr' = [thr EXCEPT ![r][s] = [@ EXCEPT !.pc = "report", !.st = st]]
        BY Zenon, <3>3 DEF RunScript
      <4>2. thr'[r][s] = [thr[r][s] EXCEPT !.pc = "report", !.st = st]
        BY <4>1 DEF TypeOK
      <4>3. thr'[r][s].test = thr[r][s].test
        BY <4>2 DEF Threads
      <4>4. thr[r][s].pc = "run"
        BY Zenon, <3>3 DEF RunScript
      <4>. QED
        BY <4>3, <4>4 DEF Holds, HasTest
    <3>4. CASE Die(r, s)
      BY <3>4 DEF Die, TypeOK, Holds, HasTest
    <3>. QED
      BY <1>1, <3>1, <3>2, <3>3, <3>4
  <2>3. \A q \in Runs, s2 \in Slots, t \in Tests : Holds(q, s2, t)' => Holds(q, s2, t)
    BY <1>a, <2>2 DEF Holds
  <2>. QED
    BY Zenon, <1>b, <2>1, <2>3, HoldersKept
<1>2. ASSUME NEW t \in Tests, TakeFault(r, s, t) PROVE OneHolder'
  <2>1. result' = result /\ \A q \in Runs : taken[q] \subseteq taken'[q]
    BY <1>2 DEF TakeFault, TypeOK
  <2>2. \A q \in Runs, s2 \in Slots, u \in Tests : Holds(q, s2, u)' => Holds(q, s2, u)
    BY <1>2, <1>a DEF TakeFault, Goto, TypeOK, Threads, Holds, HasTest
  <2>. QED
    BY Zenon, <1>b, <2>1, <2>2, HoldersKept
<1>3. ASSUME NEW t \in Tests, Take(r, s, t) PROVE OneHolder'
  <2>1. /\ thr[r][s].pc = "has" /\ t \notin taken[r] /\ result' = result
        /\ \A q \in Runs : taken'[q] = IF q = r THEN taken[q] \cup {t} ELSE taken[q]
        /\ thr'[r][s].test = t
    BY <1>3 DEF Take, TypeOK, Threads, Remaining
  <2>2. phase[r] \in UpToReady \cup InRunner
    BY <2>1 DEF HandOut, InNextTest, InRunner
  <2>3. result[r][t] = "none" /\ \A s2 \in Slots : ~Holds(r, s2, t)
    BY <2>1, <2>2 DEF OneHolder
  <2>4. \A q \in Runs, s2 \in Slots, u \in Tests :
          Holds(q, s2, u)' => Holds(q, s2, u) \/ (q = r /\ s2 = s /\ u = t)
    BY <1>a, <2>1 DEF Holds
  <2>. SUFFICES ASSUME NEW q \in Runs, NEW u \in Tests
                PROVE /\ \A s2 \in Slots : Holds(q, s2, u)' =>
                           /\ result[q][u] = "none"
                           /\ \A s3 \in Slots \ {s2} : ~Holds(q, s3, u)'
                      /\ phase[q] \in UpToReady \cup InRunner =>
                           \/ u \in taken'[q]
                           \/ result[q][u] = "none" /\ \A s2 \in Slots : ~Holds(q, s2, u)'
    BY Zenon, <1>b, <2>1 DEF OneHolder
  <2>5. CASE q = r /\ u = t
    <3>1. \A s2 \in Slots : Holds(q, s2, u)' => s2 = s
      BY <2>3, <2>4, <2>5
    <3>2. u \in taken'[q]
      BY <2>1, <2>5
    <3>. QED
      BY <2>3, <2>5, <3>1, <3>2
  <2>6. CASE q # r \/ u # t
    <3>1. \A s2 \in Slots : Holds(q, s2, u)' => Holds(q, s2, u)
      BY <2>4, <2>6
    <3>2. taken[q] \subseteq taken'[q]
      BY <2>1
    <3>. QED
      BY <3>1, <3>2 DEF OneHolder
  <2>. QED
    BY <2>5, <2>6
<1>4. CASE Report(r, s)
  <2>1. PICK x \in Threads : thr' = [thr EXCEPT ![r][s] = x] /\ x.pc \in {"fetch", "exit"}
    BY Zenon, <1>4, ReportMove
  <2>2. thr'[r][s].pc \in {"fetch", "exit"}
    BY <2>1 DEF TypeOK
  <2>. DEFINE u == thr[r][s].test
  <2>3. thr[r][s].pc \in {"report", "dying"}
    BY <1>4 DEF Report
  <2>4. u \in Tests /\ Holds(r, s, u)
    BY <2>3 DEF Accounts, ThreadsOf, Holds, HasTest
  <2>5. result' = [result EXCEPT ![r][u] = thr[r][s].st] /\ taken' = taken
    BY Zenon, <1>4 DEF Report
  <2>6. \A q \in Runs, t \in Tests : (q # r \/ t # u) => result'[q][t] = result[q][t]
    BY <2>4, <2>5 DEF TypeOK
  <2>7. \A q \in Runs, s2 \in Slots, t \in Tests : Holds(q, s2, t)' => Holds(q, s2, t) /\ (q # r \/ t # u)
    <3>1. \A t \in Tests : ~Holds(r, s, t)'
      BY <2>2 DEF Holds, HasTest
    <3>2. \A s2 \in Slots \ {s} : ~Holds(r, s2, u)
      BY <2>4 DEF OneHolder
    <3>. QED
      BY <1>a, <3>1, <3>2 DEF Holds
  <2>8. phase[r] \in UpToReady \cup InRunner => u \in taken[r]
    BY <2>4 DEF OneHolder
  <2>. HIDE DEF u
  <2>. QED
    BY <1>b, <2>4, <2>5, <2>6, <2>7, <2>8 DEF OneHolder
<1>. QED
  BY <1>1, <1>2, <1>3, <1>4 DEF ThreadStep, OwnStep, NextCall

(* A test is held by one thread, and unreported while it is (the hand-out   *)
(* in nextTest, the report in finishedTest).                                *)
THEOREM OneHolderInvariant == Spec => []OneHolder
<1>1. TypeOK /\ HandOut /\ Accounts /\ OneHolder /\ [Next]_vars => OneHolder'
  BY OneHolderHarness, OneHolderRunner, OneHolderThread DEF Next, RunStep
<1>. QED
  BY <1>1, OneHolderInit, TypeCorrect, HandOutInvariant, AccountsInvariant, PTL DEF Spec

(* A test is reported once, however threads are stopped, killed and         *)
(* respawned, and the reports of a run nobody disturbed come before its     *)
(* runner returns (DefaultTestRunner.java:74, Harness.java:852).            *)
THEOREM ReportsOnce == Spec => ReportsStayInRun
<1>. DEFINE Once(r) ==
       result'[r] # result[r] =>
         /\ \A t \in Tests : result'[r][t] # result[r][t] => result[r][t] = "none"
         /\ Undisturbed(r) => phase[r] \in {"loop", "runner"}
<1>1. ASSUME TypeOK, HandOut, Accounts, OneHolder, [Next]_vars, NEW r \in Runs PROVE Once(r)
  <2>. USE <1>1
  <2>. SUFFICES ASSUME result'[r] # result[r] PROVE Once(r)
    OBVIOUS
  <2>1. PICK q \in Runs, s \in Slots : Report(q, s)
    <3>. SUFFICES ASSUME \A q \in Runs, s \in Slots : ~Report(q, s) PROVE result' = result
      BY Zenon
    <3>1. CASE BatchRefused \/ Stop \/ UNCHANGED vars
      BY <3>1 DEF BatchRefused, Stop, vars, runnerVars
    <3>2. ASSUME NEW q \in Runs, Accept(q) \/ RunStep(q) PROVE result' = result
      BY Zenon, <3>2
      DEF runnerVars, Accept, RunStep, BatchIncomplete, EnterRunTests, LaunchFault,
          LaunchRunner, Wait, Respawn, WaitForThreads, RunnerReturns, RunnerInterrupted,
          GraceEnds, FinishedTesting, Verdict, Release, FinishedTestRun
    <3>3. ASSUME NEW q \in Runs, NEW s \in Slots, ThreadStep(q, s) \/ RunScript(q, s) \/ Die(q, s)
          PROVE result' = result
      BY Zenon, <3>3 DEF ThreadStep, OwnStep, NextCall, NextTest, Take, TakeFault, ThreadExiting, RunScript, Die
    <3>. QED
      BY Zenon, <3>1, <3>2, <3>3 DEF Next
  <2>2. thr[q][s].pc \in {"report", "dying"}
    BY <2>1 DEF Report
  <2>3. thr[q][s].test \in Tests /\ Holds(q, s, thr[q][s].test)
    BY <2>1, <2>2 DEF Accounts, ThreadsOf, Holds, HasTest
  <2>4. result' = [result EXCEPT ![q][thr[q][s].test] = thr[q][s].st]
    BY Zenon, <2>1 DEF Report
  <2>5. q = r /\ \A t \in Tests : result'[r][t] # result[r][t] => t = thr[q][s].test
    BY <2>1, <2>3, <2>4 DEF TypeOK
  <2>6. result[r][thr[q][s].test] = "none"
    BY <2>1, <2>3, <2>5 DEF OneHolder
  <2>7. Undisturbed(r) => phase[r] \in {"loop", "runner"}
    <3>1. ~NoThreads(r)
      BY <2>1, <2>2, <2>5 DEF NoThreads
    <3>2. phase[r] \in UpToReady => NoThreads(r)
      BY DEF HandOut, RunnerPhases, UpToReady
    <3>3. Undisturbed(r) => phase[r] \notin AfterRunner
      BY Zenon, <3>1 DEF Accounts, ReportsOf
    <3>4. Undisturbed(r) => phase[r] # "grace"
      BY Zenon DEF Accounts, Disturbances, Undisturbed
    <3>5. phase[r] \in Phases
      BY DEF TypeOK
    <3>. QED
      BY <3>1, <3>2, <3>3, <3>4, <3>5 DEF Phases, UpToReady, AfterRunner
  <2>. QED
    BY <2>5, <2>6, <2>7
<1>2. TypeOK /\ HandOut /\ Accounts /\ OneHolder /\ [Next]_vars =>
        [\A r \in Runs : Once(r)]_vars
  BY <1>1
<1>. QED
  BY <1>2, TypeCorrect, HandOutInvariant, AccountsInvariant, OneHolderInvariant, PTL
  DEF Spec, ReportsStayInRun
==============================================================================
