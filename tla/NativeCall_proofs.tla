------------------------- MODULE NativeCall_proofs -------------------------
(***************************************************************************)
(* Theorems about NativeCall, for any set of threads, any native methods   *)
(* and any number of calls and collections: at a safepoint no thread is in *)
(* Java code, the references the entry uses name objects where they are,   *)
(* and a monitor protects its data.                                        *)
(***************************************************************************)
EXTENDS NativeCall, SequenceTheorems, TLAPS

(* The thread state of t is not a safe one, and no safe one is on its way.  *)
Clean(t) ==
  vis[t] \notin SafeStates /\ \A i \in 1..Len(buf[t]) : buf[t][i] \notin SafeStates

Running(t) == pc[t] \in JavaPcs \cup {"prepare"}
Stopped(t) == pc[t] \in InNative \cup Suspended

PcTypes == pc \in [Threads -> JavaPcs \cup InNative \cup Suspended \cup {"prepare"}]
StateTypes ==
  /\ PcTypes
  /\ vis \in [Threads -> ThreadState] /\ buf \in [Threads -> Seq(ThreadState)]
  /\ membar \in BOOLEAN

(* Where the VM thread is and what it has announced.                        *)
VMPhase ==
  /\ vm \in {"idle", "protect", "unprotect", "poll", "collect"}
  /\ safepoint = CASE vm = "idle" -> "not_synchronized"
                   [] vm = "collect" -> "synchronized"
                   [] OTHER -> "synchronizing"
  /\ safe \subseteq Threads
  /\ safe # {} => vm \in {"poll", "collect"}
  /\ vm = "collect" => safe = Threads

(* The last word: what t last stored is not a safe state.  Behind a barrier, *)
(* of either kind, nothing older can become visible either.                 *)
Barred == membar \/ vm \in {"unprotect", "poll", "collect"}
StateOf(t) ==
  /\ Running(t) \/ pc[t] \in {"barrier", "check"} => Newest(vis[t], buf[t]) \notin SafeStates
  /\ Running(t) /\ Barred => Clean(t)
  /\ pc[t] = "check" /\ membar => Clean(t)
  /\ t \in safe => Stopped(t)

SafepointInv == StateTypes /\ VMPhase /\ \A t \in Threads : StateOf(t)

(* The monitor.                                                             *)
MonitorInv ==
  /\ method \in [Threads -> Methods] /\ dirty \in [Threads -> BOOLEAN]
  /\ \A t \in Threads : dirty[t] => mark = t
  /\ ~died => \A t \in Threads : InMonitor(t) => mark = t

(* References.                                                              *)
ReferencesOf(t) ==
  /\ pc[t] \in BeforeCall \cup {"prepare", "prepare_blocked"} => frame[t] = epoch /\ r3[t] = 0
  /\ pc[t] \in {"prepare", "prepare_blocked"} => sp[t] = TRUE /\ spBuf[t] = <<>>
  /\ pc[t] \in BeforeCall => mreg[t] = epoch
  /\ pc[t] \in {"native", "java_blocked"} => r3[t] = 0
  /\ pc[t] \in {"barrier", "check", "special", "to_java", "unbox"} /\ method[t].oop =>
       r3[t] \in {0, Handle}
  /\ pc[t] \in {"unlock", "result", "java"} /\ method[t].oop => r3[t] \in {0, epoch}
  /\ pc[t] \in {"unlock", "result"} /\ method[t].oop => temp[t] = r3[t]

ReferenceDomains ==
  /\ DOMAIN pc = Threads /\ DOMAIN method = Threads /\ DOMAIN mreg = Threads
  /\ DOMAIN frame = Threads /\ DOMAIN temp = Threads /\ DOMAIN r3 = Threads
  /\ DOMAIN sp = Threads /\ DOMAIN spBuf = Threads

ReferencesInv ==
  epoch \in Nat \ {0} /\ ReferenceDomains /\ \A t \in Threads : ReferencesOf(t)

-----------------------------------------------------------------------------
(* Memory.                                                                  *)

LEMMA StatesAreTyped == SafeStates \subseteq ThreadState /\ "in_Java" \notin SafeStates
                        /\ "in_vm" \notin SafeStates /\ "in_native_trans" \notin SafeStates
BY DEF SafeStates, ThreadState

LEMMA NewestIsTyped ==
  ASSUME NEW v \in ThreadState, NEW s \in Seq(ThreadState)
  PROVE  Newest(v, s) \in ThreadState
BY DEF Newest

LEMMA CleanNewest ==
  ASSUME StateTypes, NEW t \in Threads, Clean(t)
  PROVE  Newest(vis[t], buf[t]) \notin SafeStates
<1>1. buf[t] \in Seq(ThreadState)
  BY DEF StateTypes
<1>2. CASE buf[t] = <<>>
  BY <1>2 DEF Clean, Newest
<1>3. CASE buf[t] # <<>>
  <2>1. Len(buf[t]) \in 1..Len(buf[t])
    BY <1>1, <1>3
  <2> QED BY <1>3, <2>1 DEF Clean, Newest
<1> QED BY <1>2, <1>3

LEMMA EmptyIsClean ==
  ASSUME NEW t \in Threads, vis[t] \notin SafeStates, buf[t] = <<>>
  PROVE  Clean(t) /\ Newest(vis[t], buf[t]) = vis[t]
BY DEF Clean, Newest

(* A store is the newest; it soils a clean thread only with a safe state.   *)
LEMMA StoreStateFacts ==
  ASSUME StateTypes, NEW t \in Threads, NEW s \in ThreadState, StoreState(t, s)
  PROVE  /\ vis' = vis /\ buf' \in [Threads -> Seq(ThreadState)]
         /\ \A u \in Threads \ {t} : buf'[u] = buf[u]
         /\ Newest(vis[t], buf[t])' = s
         /\ Clean(t) /\ s \notin SafeStates => Clean(t)'
<1>1. vis' = vis /\ buf[t] \in Seq(ThreadState) /\ buf'[t] = Append(buf[t], s)
  BY DEF StoreState, StateTypes
<1>2. buf' \in [Threads -> Seq(ThreadState)] /\ \A u \in Threads \ {t} : buf'[u] = buf[u]
  BY <1>1 DEF StoreState, StateTypes
<1>3. /\ Append(buf[t], s) # <<>>
      /\ Len(Append(buf[t], s)) = Len(buf[t]) + 1
      /\ Append(buf[t], s)[Len(buf[t]) + 1] = s
      /\ \A i \in 1..Len(buf[t]) : Append(buf[t], s)[i] = buf[t][i]
  BY <1>1
<1>4. Newest(vis[t], buf[t])' = s
  BY <1>1, <1>3 DEF Newest
<1>5. ASSUME Clean(t), s \notin SafeStates PROVE Clean(t)'
  <2>1. \A i \in 1..Len(buf[t]) + 1 : Append(buf[t], s)[i] \notin SafeStates
    <3>1. Len(buf[t]) \in Nat
      BY <1>1
    <3> QED BY <1>3, <1>5, <3>1 DEF Clean
  <2> QED BY <1>1, <1>3, <1>5, <2>1 DEF Clean
<1> QED BY <1>1, <1>2, <1>4, <1>5

LEMMA SyncFacts ==
  ASSUME StateTypes, NEW T \in SUBSET Threads, Sync(T)
  PROVE  /\ vis' \in [Threads -> ThreadState] /\ buf' \in [Threads -> Seq(ThreadState)]
         /\ \A u \in Threads \ T : vis'[u] = vis[u] /\ buf'[u] = buf[u]
         /\ \A u \in T : vis'[u] = Newest(vis[u], buf[u]) /\ buf'[u] = <<>>
BY NewestIsTyped DEF Sync, StateTypes

LEMMA TransitionFacts ==
  ASSUME StateTypes, NEW t \in Threads, NEW s \in ThreadState, NEW stores, Transition(t, s, stores)
  PROVE  /\ vis' \in [Threads -> ThreadState] /\ buf' \in [Threads -> Seq(ThreadState)]
         /\ \A u \in Threads \ {t} : vis'[u] = vis[u] /\ buf'[u] = buf[u]
         /\ vis'[t] = s /\ buf'[t] = <<>>
BY DEF Transition, StateTypes

LEMMA CommitFacts ==
  ASSUME StateTypes, NEW t \in Threads, CommitState(t)
  PROVE  /\ vis' \in [Threads -> ThreadState] /\ buf' \in [Threads -> Seq(ThreadState)]
         /\ \A u \in Threads \ {t} : vis'[u] = vis[u] /\ buf'[u] = buf[u]
         /\ Newest(vis[t], buf[t])' = Newest(vis[t], buf[t])
         /\ Clean(t) => Clean(t)'
<1>1. buf[t] \in Seq(ThreadState) /\ buf[t] # <<>>
  BY DEF CommitState, StateTypes
<1>2. vis'[t] = Head(buf[t]) /\ buf'[t] = Tail(buf[t])
  BY DEF CommitState, StateTypes
<1>3. /\ Head(buf[t]) = buf[t][1] /\ Head(buf[t]) \in ThreadState
      /\ Tail(buf[t]) \in Seq(ThreadState)
      /\ Len(buf[t]) \in Nat \ {0} /\ Len(Tail(buf[t])) = Len(buf[t]) - 1
      /\ \A i \in 1..Len(buf[t]) - 1 : Tail(buf[t])[i] = buf[t][i + 1]
  BY <1>1
<1>4. /\ vis' \in [Threads -> ThreadState] /\ buf' \in [Threads -> Seq(ThreadState)]
      /\ \A u \in Threads \ {t} : vis'[u] = vis[u] /\ buf'[u] = buf[u]
  BY <1>3 DEF CommitState, StateTypes
<1>5. Newest(Head(buf[t]), Tail(buf[t])) = Newest(vis[t], buf[t])
  <2>1. CASE Len(buf[t]) = 1
    <3>1. Tail(buf[t]) = <<>>
      <4>1. Len(Tail(buf[t])) \notin Nat \ {0}
        BY <1>3, <2>1
      <4> QED BY <1>3, <4>1, EmptySeq
    <3> QED BY <1>1, <1>3, <2>1, <3>1 DEF Newest
  <2>2. CASE Len(buf[t]) # 1
    <3>1. Tail(buf[t]) # <<>> /\ Len(buf[t]) - 1 \in 1..Len(buf[t]) - 1
      <4>1. Len(Tail(buf[t])) # 0 /\ Len(buf[t]) - 1 \in 1..Len(buf[t]) - 1
        <5>1. Len(buf[t]) \in Nat /\ Len(buf[t]) # 0 /\ Len(buf[t]) # 1
          BY <1>3, <2>2
        <5>2. Len(Tail(buf[t])) = Len(buf[t]) - 1
          BY <1>3
        <5>3. ASSUME NEW n \in Nat, n # 0, n # 1 PROVE n - 1 # 0 /\ n - 1 \in 1..n - 1
          BY <5>3
        <5>4. Len(buf[t]) - 1 # 0 /\ Len(buf[t]) - 1 \in 1..Len(buf[t]) - 1
          BY <5>1, <5>3
        <5> QED BY <5>2, <5>4
      <4>2. Tail(buf[t]) # <<>>
        BY <4>1, Len(<<>>) = 0
      <4> QED BY <4>1, <4>2
    <3>2. Tail(buf[t])[Len(buf[t]) - 1] = buf[t][Len(buf[t])]
      BY <1>3, <3>1
    <3> QED BY <1>1, <1>3, <3>1, <3>2 DEF Newest
  <2> QED BY <2>1, <2>2
<1>6. ASSUME Clean(t) PROVE Clean(t)'
  <2>1. Head(buf[t]) \notin SafeStates
    BY <1>3, <1>6 DEF Clean
  <2>2. \A i \in 1..Len(buf[t]) - 1 : Tail(buf[t])[i] \notin SafeStates
    BY <1>3, <1>6 DEF Clean
  <2> QED BY <1>2, <1>3, <2>1, <2>2 DEF Clean
<1>7. Newest(vis[t], buf[t])' = Newest(Head(buf[t]), Tail(buf[t]))
  BY <1>2 DEF Newest
<1> QED BY <1>4, <1>5, <1>6, <1>7

-----------------------------------------------------------------------------
(* Safepoints.                                                              *)

(* A step of one thread that leaves the VM thread alone has to be looked at  *)
(* for that thread only.                                                    *)
LEMMA LocalStep ==
  ASSUME SafepointInv, NEW t \in Threads, StateTypes', UNCHANGED <<membar, vmVars>>,
         \A u \in Threads \ {t} : pc'[u] = pc[u] /\ vis'[u] = vis[u] /\ buf'[u] = buf[u],
         StateOf(t)'
  PROVE  SafepointInv'
<1>1. VMPhase'
  BY DEF SafepointInv, VMPhase, vmVars
<1>2. ASSUME NEW u \in Threads \ {t} PROVE StateOf(u)'
  BY DEF SafepointInv, StateOf, Running, Stopped, Clean, Barred, Newest, vmVars
<1> QED BY <1>1, <1>2 DEF SafepointInv

(* Between the locations of Java code, and with the memory as it is, nothing *)
(* changes.                                                                 *)
LEMMA StaysRunning ==
  ASSUME SafepointInv, NEW t \in Threads, NEW l \in JavaPcs, Running(t), Goto(t, l),
         UNCHANGED <<memory, membar, vmVars>>
  PROVE  SafepointInv'
<1>1. pc' = [pc EXCEPT ![t] = l] /\ vis' = vis /\ buf' = buf
  BY DEF Goto, memory
<1>2. StateTypes' /\ pc'[t] = l /\ \A u \in Threads \ {t} : pc'[u] = pc[u]
  BY <1>1 DEF SafepointInv, StateTypes, PcTypes
<1>3. l \notin InNative \cup Suspended
  BY DEF JavaPcs, BeforeCall, AfterCall, InNative, Suspended
<1>4. t \notin safe
  BY DEF SafepointInv, StateOf, Running, Stopped, JavaPcs, BeforeCall, AfterCall, InNative, Suspended
<1>5. StateOf(t)'
  <2>1. Newest(vis[t], buf[t]) \notin SafeStates /\ (Barred => Clean(t))
    BY DEF SafepointInv, StateOf
  <2>2. Newest(vis[t], buf[t])' = Newest(vis[t], buf[t]) /\ Barred' = Barred /\ Clean(t)' = Clean(t)
    BY <1>1 DEF Newest, Barred, Clean, vmVars
  <2>3. pc'[t] # "check" /\ t \notin safe'
    BY <1>2, <1>3, <1>4 DEF InNative, vmVars
  <2> QED BY <2>1, <2>2, <2>3 DEF StateOf
<1> QED BY <1>1, <1>2, <1>5, LocalStep

(* So does a thread whose stores are performed.                             *)
LEMMA StaysRunningSynced ==
  ASSUME SafepointInv, NEW t \in Threads, NEW l \in JavaPcs, Running(t), Goto(t, l),
         Sync({t}), UNCHANGED <<membar, vmVars>>
  PROVE  SafepointInv'
<1>1. pc' = [pc EXCEPT ![t] = l]
  BY DEF Goto
<1>2. /\ vis' \in [Threads -> ThreadState] /\ buf' \in [Threads -> Seq(ThreadState)]
      /\ \A u \in Threads \ {t} : vis'[u] = vis[u] /\ buf'[u] = buf[u]
      /\ vis'[t] = Newest(vis[t], buf[t]) /\ buf'[t] = <<>>
  BY SyncFacts DEF SafepointInv
<1>3. StateTypes' /\ pc'[t] = l /\ \A u \in Threads \ {t} : pc'[u] = pc[u]
  BY <1>1, <1>2 DEF SafepointInv, StateTypes, PcTypes
<1>4. l \notin InNative \cup Suspended
  BY DEF JavaPcs, BeforeCall, AfterCall, InNative, Suspended
<1>5. t \notin safe
  BY DEF SafepointInv, StateOf, Running, Stopped, JavaPcs, BeforeCall, AfterCall, InNative, Suspended
<1>6. vis'[t] \notin SafeStates
  BY <1>2 DEF SafepointInv, StateOf
<1>7. Clean(t)' /\ Newest(vis[t], buf[t])' \notin SafeStates
  BY <1>2, <1>6 DEF Clean, Newest
<1>8. StateOf(t)'
  BY <1>3, <1>4, <1>5, <1>7 DEF StateOf, vmVars
<1> QED BY <1>2, <1>3, <1>8, LocalStep

(* A transition of the runtime to a state that is not safe, or to a place   *)
(* where the thread may be stopped.                                         *)
LEMMA TransitionKeeps ==
  ASSUME SafepointInv, NEW t \in Threads, NEW s \in ThreadState, NEW stores,
         NEW l \in JavaPcs \cup InNative \cup Suspended \cup {"prepare"}, Goto(t, l),
         Transition(t, s, stores), UNCHANGED <<membar, vmVars>>,
         l \in Suspended \/ (s \notin SafeStates /\ t \notin safe)
  PROVE  SafepointInv'
<1>1. pc' = [pc EXCEPT ![t] = l]
  BY DEF Goto
<1>2. /\ vis' \in [Threads -> ThreadState] /\ buf' \in [Threads -> Seq(ThreadState)]
      /\ \A u \in Threads \ {t} : vis'[u] = vis[u] /\ buf'[u] = buf[u]
      /\ vis'[t] = s /\ buf'[t] = <<>>
  BY TransitionFacts DEF SafepointInv
<1>3. StateTypes' /\ pc'[t] = l /\ \A u \in Threads \ {t} : pc'[u] = pc[u]
  BY <1>1, <1>2 DEF SafepointInv, StateTypes, PcTypes
<1>4. CASE l \in Suspended
  <2>1. Stopped(t)' /\ ~Running(t)' /\ pc'[t] \notin {"barrier", "check"}
    BY <1>3, <1>4 DEF Stopped, Running, JavaPcs, BeforeCall, AfterCall, InNative, Suspended
  <2>2. StateOf(t)'
    BY <2>1 DEF StateOf
  <2> QED BY <1>2, <1>3, <2>2, LocalStep
<1>5. CASE s \notin SafeStates /\ t \notin safe
  <2>1. Clean(t)' /\ Newest(vis[t], buf[t])' \notin SafeStates
    BY <1>2, <1>5 DEF Clean, Newest
  <2>2. StateOf(t)'
    BY <1>5, <2>1 DEF StateOf, vmVars
  <2> QED BY <1>2, <1>3, <2>2, LocalStep
<1> QED BY <1>4, <1>5

(* Nobody is seen safe while no safepoint is announced.                     *)
LEMMA NotSafeWhenIdle ==
  ASSUME SafepointInv, safepoint = "not_synchronized"
  PROVE  safe = {} /\ vm = "idle"
BY DEF SafepointInv, VMPhase

LEMMA RunningIsNotSafe ==
  ASSUME SafepointInv, NEW t \in Threads, Running(t)
  PROVE  t \notin safe
BY DEF SafepointInv, StateOf, Running, Stopped, JavaPcs, BeforeCall, AfterCall, InNative, Suspended

LEMMA SafepointInit == Init => SafepointInv
<1> SUFFICES ASSUME Init PROVE SafepointInv
  OBVIOUS
<1>1. StateTypes
  BY DEF Init, StateTypes, PcTypes, ThreadState, JavaPcs
<1>2. VMPhase
  BY DEF Init, VMPhase
<1>3. ASSUME NEW t \in Threads PROVE StateOf(t)
  <2>1. vis[t] = "in_Java" /\ buf[t] = <<>> /\ pc[t] = "java" /\ safe = {}
    BY DEF Init
  <2> QED BY <2>1, EmptyIsClean, StatesAreTyped DEF StateOf
<1> QED BY <1>1, <1>2, <1>3 DEF SafepointInv

(* One step of a thread, or of the hardware that performs its stores.       *)
LEMMA SafepointThread ==
  ASSUME SafepointInv, NEW t \in Threads, Step(t) \/ NativeReturns(t) \/ Commit(t)
  PROVE  SafepointInv'
<1> USE StatesAreTyped DEF ThreadState
<1>1. CASE NativeEntry(t)
  <2>1. PICK l \in {"lock", "handler"} : Goto(t, l)
    BY <1>1 DEF NativeEntry
  <2>2. Running(t) /\ l \in JavaPcs
    BY <1>1 DEF NativeEntry, Running, JavaPcs, BeforeCall, AfterCall
  <2>3. UNCHANGED <<memory, membar, vmVars>>
    BY <1>1 DEF NativeEntry
  <2> QED BY <2>1, <2>2, <2>3, StaysRunning
<1>2. CASE LoadMark(t)
  <2>1. Goto(t, "cas_lock") /\ Running(t) /\ "cas_lock" \in JavaPcs
    BY <1>2 DEF LoadMark, Running, JavaPcs, BeforeCall, AfterCall
  <2>2. UNCHANGED <<memory, membar, vmVars>>
    BY <1>2 DEF LoadMark
  <2> QED BY <2>1, <2>2, StaysRunning
<1>3. CASE LockObject(t)
  <2>1. Goto(t, "handler") /\ Running(t) /\ "handler" \in JavaPcs
    BY <1>3 DEF LockObject, Running, JavaPcs, BeforeCall, AfterCall
  <2>2. Sync({t}) /\ UNCHANGED <<membar, vmVars>>
    BY <1>3 DEF LockObject, Cmpxchg
  <2> QED BY <2>1, <2>2, StaysRunningSynced
<1>4. CASE LoadHandler(t)
  <2>1. Running(t) /\ "signature" \in JavaPcs /\ UNCHANGED <<membar, vmVars>>
    BY <1>4 DEF LoadHandler, Running, JavaPcs, BeforeCall, AfterCall
  <2>2. CASE method[t] \in prepared
    <3>1. Goto(t, "signature") /\ UNCHANGED memory
      BY <1>4, <2>2 DEF LoadHandler
    <3> QED BY <2>1, <3>1, StaysRunning
  <2>3. CASE method[t] \notin prepared
    <3>1. Goto(t, "prepare") /\ Transition(t, "in_vm", <<>>)
      BY <1>4, <2>3 DEF LoadHandler
    <3> QED BY <2>1, <3>1, RunningIsNotSafe, TransitionKeeps
  <2> QED BY <2>2, <2>3
<1>5. CASE PrepareReturns(t)
  <2>1. PICK l \in {"signature", "java"} : Goto(t, l)
    BY <1>5 DEF PrepareReturns, Unwind
  <2>2. Running(t) /\ l \in JavaPcs
    BY <1>5 DEF PrepareReturns, Running, JavaPcs, BeforeCall, AfterCall
  <2>3. Transition(t, "in_Java", <<FALSE>>) /\ UNCHANGED <<membar, vmVars>>
    BY <1>5 DEF PrepareReturns
  <2> QED BY <2>1, <2>2, <2>3, RunningIsNotSafe, TransitionKeeps
<1>6. CASE EnterNative(t)
  <2>1. /\ StoreState(t, "in_native") /\ Goto(t, "native") /\ UNCHANGED <<membar, vmVars>>
        /\ Running(t)
    BY <1>6 DEF EnterNative, Running, JavaPcs, BeforeCall, AfterCall
  <2>2. /\ vis' = vis /\ buf' \in [Threads -> Seq(ThreadState)]
        /\ \A u \in Threads \ {t} : buf'[u] = buf[u]
    BY <2>1, StoreStateFacts DEF SafepointInv
  <2>3. StateTypes' /\ pc'[t] = "native" /\ \A u \in Threads \ {t} : pc'[u] = pc[u]
    BY <2>1, <2>2 DEF SafepointInv, StateTypes, PcTypes, Goto, InNative
  <2>4. StateOf(t)'
    BY <2>3 DEF StateOf, Stopped, InNative, Running, JavaPcs, BeforeCall, AfterCall
  <2> QED BY <2>1, <2>2, <2>3, <2>4, LocalStep
<1>7. CASE NativeReturns(t)
  <2>1. StoreState(t, "in_native_trans") /\ Goto(t, "barrier") /\ UNCHANGED <<membar, vmVars>>
    BY <1>7 DEF NativeReturns
  <2>2. /\ vis' = vis /\ buf' \in [Threads -> Seq(ThreadState)]
        /\ \A u \in Threads \ {t} : buf'[u] = buf[u]
        /\ Newest(vis[t], buf[t])' = "in_native_trans"
    BY <2>1, StoreStateFacts DEF SafepointInv
  <2>3. StateTypes' /\ pc'[t] = "barrier" /\ \A u \in Threads \ {t} : pc'[u] = pc[u]
    BY <2>1, <2>2 DEF SafepointInv, StateTypes, PcTypes, Goto, InNative
  <2>4. StateOf(t)'
    BY <2>2, <2>3 DEF StateOf, Stopped, InNative, Running, JavaPcs, BeforeCall, AfterCall
  <2> QED BY <2>1, <2>2, <2>3, <2>4, LocalStep
<1>8. CASE Barrier(t)
  <2>1. /\ pc[t] = "barrier" /\ Goto(t, "check") /\ UNCHANGED <<membar, vmVars>>
        /\ (membar /\ Sync({t})) \/ (~membar /\ UNCHANGED memory)
    BY <1>8 DEF Barrier
  <2>2. Newest(vis[t], buf[t]) \notin SafeStates
    BY <2>1 DEF SafepointInv, StateOf
  <2>3. /\ vis' \in [Threads -> ThreadState] /\ buf' \in [Threads -> Seq(ThreadState)]
        /\ \A u \in Threads \ {t} : vis'[u] = vis[u] /\ buf'[u] = buf[u]
        /\ Newest(vis[t], buf[t])' \notin SafeStates
        /\ membar => Clean(t)'
    <3>1. CASE membar /\ Sync({t})
      <4>1. /\ vis' \in [Threads -> ThreadState] /\ buf' \in [Threads -> Seq(ThreadState)]
            /\ \A u \in Threads \ {t} : vis'[u] = vis[u] /\ buf'[u] = buf[u]
            /\ vis'[t] = Newest(vis[t], buf[t]) /\ buf'[t] = <<>>
        BY <3>1, SyncFacts DEF SafepointInv
      <4>2. Clean(t)' /\ Newest(vis[t], buf[t])' = vis'[t]
        BY <2>2, <4>1 DEF Clean, Newest
      <4> QED BY <2>2, <4>1, <4>2
    <3>2. CASE ~membar /\ UNCHANGED memory
      BY <2>2, <3>2 DEF memory, Newest, SafepointInv, StateTypes
    <3> QED BY <2>1, <3>1, <3>2
  <2>4. StateTypes' /\ pc'[t] = "check" /\ \A u \in Threads \ {t} : pc'[u] = pc[u]
    BY <2>1, <2>3 DEF SafepointInv, StateTypes, PcTypes, Goto, InNative
  <2>5. StateOf(t)'
    BY <2>1, <2>3, <2>4 DEF StateOf, Stopped, InNative, Running, JavaPcs, BeforeCall, AfterCall
  <2> QED BY <2>1, <2>3, <2>4, <2>5, LocalStep
<1>9. CASE CheckSafepoint(t)
  <2>1. CASE Goto(t, "special") /\ Transition(t, "blocked", <<>>)
    BY <1>9, <2>1, TransitionKeeps DEF CheckSafepoint, Suspended
  <2>2. CASE safepoint = "not_synchronized" /\ Goto(t, "to_java") /\ UNCHANGED memory
    <3>1. safe = {} /\ vm = "idle"
      BY <2>2, NotSafeWhenIdle
    <3>2. pc[t] = "check" /\ UNCHANGED <<membar, vmVars>> /\ vis' = vis /\ buf' = buf
      BY <1>9, <2>2 DEF CheckSafepoint, memory
    <3>3. Newest(vis[t], buf[t]) \notin SafeStates /\ (membar => Clean(t))
      BY <3>2 DEF SafepointInv, StateOf
    <3>4. StateTypes' /\ pc'[t] = "to_java" /\ \A u \in Threads \ {t} : pc'[u] = pc[u]
      BY <2>2, <3>2 DEF SafepointInv, StateTypes, PcTypes, Goto, Running, JavaPcs, BeforeCall, AfterCall
    <3>5. Newest(vis[t], buf[t])' \notin SafeStates /\ (Barred' => Clean(t)')
      BY <3>1, <3>2, <3>3 DEF Newest, Barred, Clean, vmVars
    <3>6. StateOf(t)'
      BY <3>1, <3>2, <3>4, <3>5 DEF StateOf, vmVars
    <3> QED BY <3>2, <3>4, <3>6, LocalStep
  <2> QED BY <1>9, <2>1, <2>2 DEF CheckSafepoint
<1>10. CASE EnterJava(t)
  <2>1. /\ StoreState(t, "in_Java") /\ Goto(t, "unbox") /\ UNCHANGED <<membar, vmVars>>
        /\ Running(t)
    BY <1>10 DEF EnterJava, Running, JavaPcs, BeforeCall, AfterCall
  <2>2. /\ vis' = vis /\ buf' \in [Threads -> Seq(ThreadState)]
        /\ \A u \in Threads \ {t} : buf'[u] = buf[u]
        /\ Newest(vis[t], buf[t])' = "in_Java" /\ (Clean(t) => Clean(t)')
    BY <2>1, StoreStateFacts DEF SafepointInv
  <2>3. StateTypes' /\ pc'[t] = "unbox" /\ \A u \in Threads \ {t} : pc'[u] = pc[u]
    BY <2>1, <2>2 DEF SafepointInv, StateTypes, PcTypes, Goto, Running, JavaPcs, BeforeCall, AfterCall
  <2>4. t \notin safe /\ (Barred => Clean(t)) /\ Barred' = Barred
    BY <2>1, RunningIsNotSafe DEF SafepointInv, StateOf, Barred, vmVars
  <2>5. StateOf(t)'
    BY <2>1, <2>2, <2>3, <2>4 DEF StateOf, vmVars
  <2> QED BY <2>1, <2>2, <2>3, <2>5, LocalStep
<1>11. CASE Unbox(t)
  <2>1. PICK l \in {"java", "unlock", "result"} : Goto(t, l)
    BY <1>11 DEF Unbox, Unwind
  <2>2. Running(t) /\ l \in JavaPcs
    BY <1>11 DEF Unbox, Running, JavaPcs, BeforeCall, AfterCall
  <2>3. UNCHANGED <<memory, membar, vmVars>>
    BY <1>11 DEF Unbox
  <2> QED BY <2>1, <2>2, <2>3, StaysRunning
<1>12. CASE UnlockObject(t)
  <2>1. Goto(t, "result") /\ Running(t) /\ "result" \in JavaPcs /\ UNCHANGED <<membar, vmVars>>
    BY <1>12 DEF UnlockObject, Running, JavaPcs, BeforeCall, AfterCall
  <2>2. Sync({t}) \/ UNCHANGED memory
    BY <1>12 DEF UnlockObject, Cmpxchg
  <2> QED BY <2>1, <2>2, StaysRunning, StaysRunningSynced
<1>13. CASE ResultHandler(t)
  <2>1. Goto(t, "java") /\ Running(t) /\ "java" \in JavaPcs
    BY <1>13 DEF ResultHandler, Unwind, Running, JavaPcs, BeforeCall, AfterCall
  <2>2. UNCHANGED <<memory, membar, vmVars>>
    BY <1>13 DEF ResultHandler
  <2> QED BY <2>1, <2>2, StaysRunning
<1>14. CASE Block(t)
  <2>1. PICK l \in Suspended : Goto(t, l)
    BY <1>14 DEF Block, PrepareBlocks, JavaBlocks, Suspended
  <2>2. Transition(t, "blocked", <<>>) /\ UNCHANGED <<membar, vmVars>>
    BY <1>14 DEF Block, PrepareBlocks, JavaBlocks
  <2> QED BY <2>1, <2>2, TransitionKeeps
<1>15. CASE Resume(t)
  <2>1. safepoint = "not_synchronized" /\ UNCHANGED <<membar, vmVars>>
    BY <1>15 DEF Resume, PrepareResumes, SpecialCondition, JavaResumes
  <2>2. t \notin safe
    BY <2>1, NotSafeWhenIdle
  <2>3. CASE PrepareResumes(t)
    BY <2>1, <2>2, <2>3, TransitionKeeps DEF PrepareResumes
  <2>4. CASE SpecialCondition(t)
    <3>1. "to_java" \in JavaPcs
      BY DEF Running, JavaPcs, BeforeCall, AfterCall
    <3> QED BY <2>1, <2>2, <2>4, <3>1, TransitionKeeps DEF SpecialCondition
  <2>5. CASE JavaResumes(t)
    <3>1. "java" \in JavaPcs
      BY DEF Running, JavaPcs, BeforeCall, AfterCall
    <3> QED BY <2>1, <2>2, <2>5, <3>1, TransitionKeeps DEF JavaResumes
  <2> QED BY <1>15, <2>3, <2>4, <2>5 DEF Resume
<1>16. CASE Commit(t)
  <2>1. pc' = pc /\ UNCHANGED <<membar, vmVars>>
    BY <1>16 DEF Commit
  <2>2. CASE CommitState(t)
    <3>1. /\ vis' \in [Threads -> ThreadState] /\ buf' \in [Threads -> Seq(ThreadState)]
          /\ \A u \in Threads \ {t} : vis'[u] = vis[u] /\ buf'[u] = buf[u]
          /\ Newest(vis[t], buf[t])' = Newest(vis[t], buf[t])
          /\ Clean(t) => Clean(t)'
      BY <2>2, CommitFacts DEF SafepointInv
    <3>2. StateTypes'
      BY <2>1, <3>1 DEF SafepointInv, StateTypes, PcTypes
    <3>3. Barred' = Barred /\ Running(t)' = Running(t) /\ Stopped(t)' = Stopped(t)
      BY <2>1 DEF Barred, Running, Stopped, vmVars
    <3>4. StateOf(t)'
      BY <2>1, <3>1, <3>3 DEF SafepointInv, StateOf, vmVars
    <3> QED BY <2>1, <3>1, <3>2, <3>4, LocalStep
  <2>3. CASE CommitSp(t) \/ CommitData(t)
    <3>1. vis' = vis /\ buf' = buf
      BY <2>3 DEF CommitSp, CommitData
    <3>2. StateTypes'
      BY <2>1, <3>1 DEF SafepointInv, StateTypes, PcTypes
    <3>3. StateOf(t)'
      BY <2>1, <3>1 DEF SafepointInv, StateOf, Barred, Running, Stopped, Clean, Newest, vmVars
    <3> QED BY <2>1, <3>1, <3>2, <3>3, LocalStep
  <2> QED BY <1>16, <2>2, <2>3 DEF Commit
<1> QED
  BY <1>1, <1>2, <1>3, <1>4, <1>5, <1>6, <1>7, <1>8, <1>9, <1>10, <1>11, <1>12, <1>13,
     <1>14, <1>15, <1>16 DEF Step, Before, After

(* One step of the VM thread.                                               *)
LEMMA SafepointVM ==
  ASSUME SafepointInv, VMStep PROVE SafepointInv'
<1>1. CASE Begin
  <2>1. /\ vm = "idle" /\ safepoint' = "synchronizing" /\ UNCHANGED <<pc, memory, membar, safe>>
        /\ vm' = IF membar THEN "poll" ELSE "protect"
    BY <1>1 DEF Begin
  <2>2. VMPhase'
    BY <2>1 DEF SafepointInv, VMPhase
  <2>3. StateTypes' /\ \A t \in Threads : StateOf(t)'
    BY <2>1 DEF SafepointInv, StateTypes, PcTypes, StateOf, Barred, Running, Stopped, Clean,
                Newest, memory
  <2> QED BY <2>2, <2>3 DEF SafepointInv
<1>2. CASE Protect
  <2>1. /\ vm = "protect" /\ vm' = "unprotect" /\ UNCHANGED <<pc, membar, safepoint, safe>>
        /\ Sync(Threads)
    BY <1>2 DEF Protect
  <2>2. /\ vis' \in [Threads -> ThreadState] /\ buf' \in [Threads -> Seq(ThreadState)]
        /\ \A u \in Threads : vis'[u] = Newest(vis[u], buf[u]) /\ buf'[u] = <<>>
    BY <2>1, SyncFacts DEF SafepointInv
  <2>3. VMPhase' /\ StateTypes'
    BY <2>1, <2>2 DEF SafepointInv, VMPhase, StateTypes, PcTypes
  <2>4. ASSUME NEW t \in Threads PROVE StateOf(t)'
    <3>1. Running(t) \/ pc[t] \in {"barrier", "check"} =>
            Clean(t)' /\ Newest(vis[t], buf[t])' \notin SafeStates
      BY <2>2 DEF SafepointInv, StateOf, Clean, Newest
    <3> QED BY <2>1, <3>1 DEF SafepointInv, StateOf, Running, Stopped
  <2> QED BY <2>3, <2>4 DEF SafepointInv
<1>3. CASE Unprotect
  <2>1. /\ vm = "unprotect" /\ vm' = "poll" /\ UNCHANGED <<pc, memory, membar, safepoint, safe>>
    BY <1>3 DEF Unprotect
  <2>2. VMPhase' /\ StateTypes'
    BY <2>1 DEF SafepointInv, VMPhase, StateTypes, PcTypes, memory
  <2>3. \A t \in Threads : StateOf(t)'
    BY <2>1 DEF SafepointInv, StateOf, Barred, Running, Stopped, Clean, Newest, memory
  <2> QED BY <2>2, <2>3 DEF SafepointInv
<1>4. ASSUME NEW t \in Threads, Poll(t) PROVE SafepointInv'
  <2>1. /\ vm = "poll" /\ vm' = vm /\ vis[t] \in SafeStates /\ safe' = safe \cup {t}
        /\ UNCHANGED <<pc, memory, membar, safepoint>>
    BY <1>4 DEF Poll
  <2>2. Stopped(t)
    <3>1. ~Running(t)
      BY <2>1 DEF SafepointInv, StateOf, Barred, Clean
    <3> QED BY <3>1 DEF SafepointInv, StateTypes, PcTypes, Running, Stopped
  <2>3. VMPhase' /\ StateTypes'
    BY <2>1 DEF SafepointInv, VMPhase, StateTypes, PcTypes, memory
  <2>4. \A u \in Threads : StateOf(u)'
    BY <2>1, <2>2 DEF SafepointInv, StateOf, Barred, Running, Stopped, Clean, Newest, memory
  <2> QED BY <2>3, <2>4 DEF SafepointInv
<1>5. CASE Reached
  <2>1. /\ vm = "poll" /\ safe = Threads /\ safepoint' = "synchronized" /\ vm' = "collect"
        /\ UNCHANGED <<pc, memory, membar, safe>>
    BY <1>5 DEF Reached
  <2>2. VMPhase' /\ StateTypes'
    BY <2>1 DEF SafepointInv, VMPhase, StateTypes, PcTypes, memory
  <2>3. \A t \in Threads : StateOf(t)'
    BY <2>1 DEF SafepointInv, StateOf, Barred, Running, Stopped, Clean, Newest, memory
  <2> QED BY <2>2, <2>3 DEF SafepointInv
<1>6. CASE Collect
  <2>1. /\ vm = "collect" /\ vm' = "idle" /\ safepoint' = "not_synchronized" /\ safe' = {}
        /\ UNCHANGED <<pc, memory, membar>>
    BY <1>6 DEF Collect
  <2>2. VMPhase' /\ StateTypes'
    BY <2>1 DEF SafepointInv, VMPhase, StateTypes, PcTypes, memory
  <2>3. \A t \in Threads : StateOf(t)'
    BY <2>1 DEF SafepointInv, StateOf, Barred, Running, Stopped, Clean, Newest, memory
  <2> QED BY <2>2, <2>3 DEF SafepointInv
<1> QED BY <1>1, <1>2, <1>3, <1>4, <1>5, <1>6 DEF VMStep

(* The VM thread and the threads on their way into and out of native code   *)
(* never miss each other's store, by either kind of barrier.                *)
THEOREM SafepointInvariant == Spec => []SafepointInv
<1>1. Init => SafepointInv
  BY SafepointInit
<1>2. SafepointInv /\ [Next]_vars => SafepointInv'
  <2> SUFFICES ASSUME SafepointInv, [Next]_vars PROVE SafepointInv'
    OBVIOUS
  <2>1. CASE UNCHANGED vars
    <3>1. pc' = pc /\ vis' = vis /\ buf' = buf /\ membar' = membar /\ UNCHANGED vmVars
      BY <2>1 DEF vars, memory
    <3>2. VMPhase' /\ StateTypes'
      BY <3>1 DEF SafepointInv, VMPhase, StateTypes, PcTypes, vmVars
    <3>3. \A t \in Threads : StateOf(t)'
      BY <3>1 DEF SafepointInv, StateOf, Barred, Running, Stopped, Clean, Newest, vmVars
    <3> QED BY <3>2, <3>3 DEF SafepointInv
  <2>2. CASE VMStep
    BY <2>2, SafepointVM
  <2>3. ASSUME NEW t \in Threads, Step(t) \/ NativeReturns(t) \/ Commit(t) PROVE SafepointInv'
    BY <2>3, SafepointThread
  <2> QED BY <2>1, <2>2, <2>3 DEF Next
<1> QED BY <1>1, <1>2, PTL DEF Spec

(* While the VM thread works in a safepoint no thread executes Java code    *)
(* (cppInterpreter_CPU.cpp:621-657), for any number of threads.             *)
THEOREM SafepointsExcludeJava == Spec => []SafepointExcludesJava
<1>1. SafepointInv => SafepointExcludesJava
  <2> SUFFICES ASSUME SafepointInv, safepoint = "synchronized", NEW t \in Threads
               PROVE  pc[t] \notin JavaPcs
    BY DEF SafepointExcludesJava
  <2>1. t \in safe
    BY DEF SafepointInv, VMPhase
  <2>2. Stopped(t)
    BY <2>1 DEF SafepointInv, StateOf
  <2> QED BY <2>2 DEF Stopped, JavaPcs, BeforeCall, AfterCall, InNative, Suspended
<1> QED BY <1>1, SafepointInvariant, PTL

-----------------------------------------------------------------------------
(* The monitor.                                                             *)

(* A step keeps the monitor as it is if it makes nobody a holder and soils  *)
(* nobody's data.                                                           *)
LEMMA MonitorQuiet ==
  ASSUME MonitorInv, ~died, mark' = mark,
         method' \in [Threads -> Methods], dirty' \in [Threads -> BOOLEAN],
         \A t \in Threads : dirty'[t] => dirty[t],
         \A t \in Threads : InMonitor(t)' => InMonitor(t)
  PROVE  MonitorInv'
BY DEF MonitorInv

LEMMA MonitorMemory ==
  ASSUME MonitorInv
  PROVE  /\ UNCHANGED memory => dirty' = dirty
         /\ \A T \in SUBSET Threads : Sync(T) =>
              /\ dirty' \in [Threads -> BOOLEAN]
              /\ \A t \in Threads : dirty'[t] => dirty[t] /\ t \notin T
         /\ \A t \in Threads : \A s, stores : Transition(t, s, stores) =>
              dirty' \in [Threads -> BOOLEAN] /\ \A u \in Threads : dirty'[u] => dirty[u]
         /\ \A t \in Threads : CommitState(t) \/ CommitSp(t) \/ CommitData(t) =>
              dirty' \in [Threads -> BOOLEAN] /\ \A u \in Threads : dirty'[u] => dirty[u]
<1>1. UNCHANGED memory => dirty' = dirty
  BY DEF memory
<1>2. ASSUME NEW T \in SUBSET Threads, Sync(T)
      PROVE  /\ dirty' \in [Threads -> BOOLEAN]
             /\ \A t \in Threads : dirty'[t] => dirty[t] /\ t \notin T
  BY <1>2, Zenon DEF Sync, MonitorInv
<1>3. ASSUME NEW t \in Threads, NEW s, NEW stores, Transition(t, s, stores)
      PROVE  dirty' \in [Threads -> BOOLEAN] /\ \A u \in Threads : dirty'[u] => dirty[u]
  BY <1>3 DEF Transition, MonitorInv
<1>4. ASSUME NEW t \in Threads, CommitState(t) \/ CommitSp(t) \/ CommitData(t)
      PROVE  dirty' \in [Threads -> BOOLEAN] /\ \A u \in Threads : dirty'[u] => dirty[u]
  BY <1>4 DEF CommitState, CommitSp, CommitData, MonitorInv
<1> QED BY <1>1, <1>2, <1>3, <1>4, Zenon

MonitorPcs ==
  {"handler", "prepare", "prepare_blocked", "signature", "special", "to_java", "unbox", "unlock"}
    \cup InNative

LEMMA MonitorThread ==
  ASSUME MonitorInv, PcTypes, ~died, NEW t \in Threads, Step(t) \/ NativeReturns(t) \/ Commit(t)
  PROVE  MonitorInv'
<1> DEFINE moves(l) == pc' = [pc EXCEPT ![t] = l]
<1> DEFINE same == method' = method /\ mark' = mark
<1> DEFINE cleaner == dirty' \in [Threads -> BOOLEAN] /\ \A u \in Threads : dirty'[u] => dirty[u]
<1>a. UNCHANGED memory => cleaner
  BY MonitorMemory DEF MonitorInv
<1>b. ASSUME NEW s, NEW stores, Transition(t, s, stores) PROVE cleaner
  BY <1>b, MonitorMemory
<1>c. Sync({t}) => cleaner
  BY MonitorMemory
(* Out of the monitor, or from one place in it to another. *)
<1>d. ASSUME NEW l, moves(l), same, cleaner,
             l \in MonitorPcs => pc[t] \in MonitorPcs \/ ~method[t].sync
      PROVE  MonitorInv'
  <2>1. \A u \in Threads : InMonitor(u)' => InMonitor(u)
    BY <1>d DEF InMonitor, MonitorPcs, PcTypes
  <2> QED BY <1>d, <2>1, MonitorQuiet DEF MonitorInv
<1>1. CASE NativeEntry(t)
  <2>1. PICK m \in Callees[t] :
          method' = [method EXCEPT ![t] = m] /\ Goto(t, IF m.sync THEN "lock" ELSE "handler")
    BY <1>1 DEF NativeEntry
  <2>2. mark' = mark /\ cleaner
    BY <1>1, <1>a DEF NativeEntry
  <2>3. method' \in [Threads -> Methods]
    BY <2>1, CalleesAssumption DEF MonitorInv
  <2>4. ASSUME NEW u \in Threads, InMonitor(u)' PROVE InMonitor(u)
    <3>1. method'[t] = m
      BY <2>1 DEF MonitorInv
    <3>2. u # t
      <4>1. CASE m.sync
        <5>1. pc'[t] = "lock"
          BY <2>1, <4>1 DEF Goto, PcTypes
        <5> QED BY <2>4, <5>1 DEF InMonitor, InNative
      <4>2. CASE ~m.sync
        BY <2>4, <3>1, <4>2 DEF InMonitor
      <4> QED BY <4>1, <4>2
    <3>3. pc'[u] = pc[u] /\ method'[u] = method[u]
      BY <2>1, <3>2 DEF Goto, PcTypes, MonitorInv
    <3> QED BY <2>4, <3>3 DEF InMonitor
  <2> QED BY <2>2, <2>3, <2>4, MonitorQuiet
<1>2. CASE LoadMark(t)
  <2>1. moves("cas_lock") /\ same /\ cleaner /\ "cas_lock" \notin MonitorPcs
    BY <1>2, <1>a DEF LoadMark, Goto, MonitorPcs, InNative
  <2> QED BY <1>d, <2>1
<1>3. CASE LockObject(t)
  <2>1. moves("handler") /\ method' = method /\ cleaner /\ Sync({t})
    BY <1>3, <1>c DEF LockObject, Cmpxchg, Goto, regs
  <2>2. CASE displaced[t] = None /\ mark = None
    <3>1. mark' = t /\ ~died'
      BY <1>3, <2>2 DEF LockObject, Cmpxchg
    <3>2. \A u \in Threads : ~dirty'[u]
      BY <2>1, <2>2, ThreadsAssumption DEF MonitorInv
    <3>3. ASSUME NEW u \in Threads, InMonitor(u)' PROVE u = t
      <4> SUFFICES ASSUME u # t PROVE FALSE
        OBVIOUS
      <4>1. InMonitor(u)
        BY <2>1, <3>3 DEF InMonitor, PcTypes
      <4> QED BY <2>2, <4>1, ThreadsAssumption DEF MonitorInv
    <3> QED BY <2>1, <3>1, <3>2, <3>3 DEF MonitorInv
  <2>3. CASE ~(displaced[t] = None /\ mark = None)
    <3>1. mark' = mark /\ died'
      BY <1>3, <2>3 DEF LockObject, Cmpxchg
    <3> QED BY <2>1, <3>1 DEF MonitorInv
  <2> QED BY <2>2, <2>3
<1>4. CASE LoadHandler(t)
  <2>1. PICK l \in {"signature", "prepare"} : moves(l)
    BY <1>4 DEF LoadHandler, Goto
  <2>2. same /\ pc[t] \in MonitorPcs
    BY <1>4 DEF LoadHandler, regs, MonitorPcs
  <2>3. cleaner
    BY <1>4, <1>a, <1>b DEF LoadHandler
  <2> QED BY <1>d, <2>1, <2>2, <2>3
<1>5. CASE PrepareReturns(t)
  <2>1. PICK l \in {"signature", "java"} : moves(l)
    BY <1>5 DEF PrepareReturns, Unwind, Goto
  <2>2. same /\ pc[t] \in MonitorPcs /\ cleaner
    BY <1>5, <1>b DEF PrepareReturns, MonitorPcs
  <2> QED BY <1>d, <2>1, <2>2
<1>6. CASE EnterNative(t)
  <2>1. moves("native") /\ same /\ pc[t] \in MonitorPcs /\ dirty' = dirty
    BY <1>6 DEF EnterNative, Goto, MonitorPcs
  <2> QED BY <1>d, <2>1 DEF MonitorInv
<1>7. CASE NativeReturns(t)
  <2>1. moves("barrier") /\ same /\ pc[t] = "native" /\ died' = died
        /\ dirty' = [dirty EXCEPT ![t] = @ \/ method[t].sync]
    BY <1>7 DEF NativeReturns, Goto
  <2>2. \A u \in Threads : InMonitor(u)' => InMonitor(u)
    BY <2>1 DEF InMonitor, InNative, PcTypes
  <2>3. dirty' \in [Threads -> BOOLEAN]
    BY <2>1, Zenon DEF MonitorInv
  <2>4. ASSUME NEW u \in Threads, dirty'[u] PROVE mark = u
    <3>1. CASE dirty[u]
      BY <3>1 DEF MonitorInv
    <3>2. CASE ~dirty[u]
      <4>1. u = t /\ method[t].sync
        BY <2>1, <2>4, <3>2 DEF MonitorInv
      <4>2. InMonitor(t)
        BY <2>1, <4>1 DEF InMonitor, InNative
      <4> QED BY <4>1, <4>2 DEF MonitorInv
    <3> QED BY <3>1, <3>2
  <2> QED BY <2>1, <2>2, <2>3, <2>4 DEF MonitorInv
<1>8. CASE Barrier(t)
  <2>1. moves("check") /\ same /\ pc[t] \in MonitorPcs /\ cleaner
    BY <1>8, <1>a, <1>c DEF Barrier, Goto, MonitorPcs, InNative, regs
  <2> QED BY <1>d, <2>1
<1>9. CASE CheckSafepoint(t)
  <2>1. PICK l \in {"to_java", "special"} : moves(l)
    BY <1>9 DEF CheckSafepoint, Goto
  <2>2. same /\ pc[t] \in MonitorPcs /\ cleaner
    BY <1>9, <1>a, <1>b DEF CheckSafepoint, MonitorPcs, InNative, regs
  <2> QED BY <1>d, <2>1, <2>2
<1>10. CASE EnterJava(t)
  <2>1. moves("unbox") /\ same /\ pc[t] \in MonitorPcs /\ dirty' = dirty
    BY <1>10 DEF EnterJava, Goto, MonitorPcs, regs
  <2> QED BY <1>d, <2>1 DEF MonitorInv
<1>11. CASE Unbox(t)
  <2>1. PICK l \in {"java", "unlock", "result"} : moves(l)
    BY <1>11 DEF Unbox, Unwind, Goto
  <2>2. same /\ pc[t] \in MonitorPcs /\ cleaner
    BY <1>11, <1>a DEF Unbox, MonitorPcs
  <2> QED BY <1>d, <2>1, <2>2
<1>12. CASE UnlockObject(t)
  <2>1. moves("result") /\ method' = method
    BY <1>12 DEF UnlockObject, Goto, regs
  <2>2. CASE mark = t /\ Sync({t})
    <3>1. dirty' \in [Threads -> BOOLEAN] /\ \A u \in Threads : ~dirty'[u]
      BY <2>2, MonitorMemory DEF MonitorInv
    <3>2. ASSUME NEW u \in Threads, InMonitor(u)', ~died' PROVE FALSE
      <4>1. u # t
        BY <2>1, <3>2 DEF InMonitor, InNative, PcTypes
      <4>2. InMonitor(u)
        BY <2>1, <3>2, <4>1 DEF InMonitor, PcTypes
      <4> QED BY <2>2, <4>1, <4>2 DEF MonitorInv
    <3> QED BY <2>1, <3>1, <3>2 DEF MonitorInv
  <2>3. CASE mark' = mark /\ died' /\ cleaner
    BY <2>1, <2>3 DEF MonitorInv
  <2> QED BY <1>12, <1>a, <1>c, <2>2, <2>3 DEF UnlockObject, Cmpxchg
<1>13. CASE ResultHandler(t)
  <2>1. moves("java") /\ same /\ cleaner /\ "java" \notin MonitorPcs
    BY <1>13, <1>a DEF ResultHandler, Unwind, Goto, MonitorPcs, InNative
  <2> QED BY <1>d, <2>1
<1>14. CASE PrepareBlocks(t)
  <2>1. moves("prepare_blocked") /\ same /\ pc[t] \in MonitorPcs /\ cleaner
    BY <1>14, <1>b DEF PrepareBlocks, Goto, MonitorPcs, regs
  <2> QED BY <1>d, <2>1
<1>15. CASE JavaBlocks(t)
  <2>1. moves("java_blocked") /\ same /\ cleaner /\ "java_blocked" \notin MonitorPcs
    BY <1>15, <1>b DEF JavaBlocks, Goto, MonitorPcs, InNative
  <2> QED BY <1>d, <2>1
<1>16. CASE PrepareResumes(t)
  <2>1. moves("prepare") /\ same /\ pc[t] \in MonitorPcs /\ cleaner
    BY <1>16, <1>b DEF PrepareResumes, Goto, MonitorPcs, regs
  <2> QED BY <1>d, <2>1
<1>17. CASE SpecialCondition(t)
  <2>1. moves("to_java") /\ same /\ pc[t] \in MonitorPcs /\ cleaner
    BY <1>17, <1>b DEF SpecialCondition, Goto, MonitorPcs
  <2> QED BY <1>d, <2>1
<1>18. CASE JavaResumes(t)
  <2>1. moves("java") /\ same /\ cleaner /\ "java" \notin MonitorPcs
    BY <1>18, <1>b DEF JavaResumes, Goto, MonitorPcs, InNative, regs
  <2> QED BY <1>d, <2>1
<1>19. CASE Commit(t)
  <2>1. pc' = pc /\ same /\ cleaner
    BY <1>19, MonitorMemory DEF Commit, regs
  <2>2. \A u \in Threads : InMonitor(u)' => InMonitor(u)
    BY <2>1 DEF InMonitor
  <2> QED BY <2>1, <2>2, MonitorQuiet DEF MonitorInv
<1> QED
  BY <1>1, <1>2, <1>3, <1>4, <1>5, <1>6, <1>7, <1>8, <1>9, <1>10, <1>11, <1>12, <1>13, <1>14,
     <1>15, <1>16, <1>17, <1>18, <1>19 DEF Step, Before, After, Block, Resume

(* The lock word of a synchronized native method: whoever stored to the     *)
(* object without a barrier since still holds it (lock_object,              *)
(* unlock_object).                                                          *)
THEOREM MonitorInvariant == Spec => []MonitorInv
<1>1. Init => MonitorInv
  <2> SUFFICES ASSUME Init PROVE MonitorInv
    OBVIOUS
  <2>1. method \in [Threads -> Methods]
    <3>1. \A t \in Threads : (CHOOSE m \in Callees[t] : TRUE) \in Methods
      BY CalleesAssumption
    <3> QED BY <3>1 DEF Init
  <2>2. dirty \in [Threads -> BOOLEAN] /\ \A t \in Threads : ~dirty[t] /\ ~InMonitor(t)
    BY DEF Init, InMonitor, InNative
  <2> QED BY <2>1, <2>2 DEF MonitorInv
<1>2. SafepointInv /\ MonitorInv /\ [Next]_vars => MonitorInv'
  <2> SUFFICES ASSUME SafepointInv, MonitorInv, [Next]_vars PROVE MonitorInv'
    OBVIOUS
  <2>1. CASE UNCHANGED vars
    BY <2>1 DEF vars, regs, memory, MonitorInv, InMonitor
  <2>2. CASE ~died /\ VMStep
    <3>1. pc' = pc /\ method' = method /\ mark' = mark
      BY <2>2 DEF VMStep, Begin, Protect, Unprotect, Poll, Reached, Collect, regs
    <3>2. UNCHANGED memory \/ Sync(Threads)
      BY <2>2 DEF VMStep, Begin, Protect, Unprotect, Poll, Reached, Collect
    <3>3. dirty' \in [Threads -> BOOLEAN] /\ \A u \in Threads : dirty'[u] => dirty[u]
      BY <3>2, MonitorMemory DEF MonitorInv
    <3>4. \A u \in Threads : InMonitor(u)' => InMonitor(u)
      BY <3>1 DEF InMonitor
    <3> QED BY <2>2, <3>1, <3>3, <3>4, MonitorQuiet DEF MonitorInv
  <2>3. ASSUME ~died, NEW t \in Threads, Step(t) \/ NativeReturns(t) \/ Commit(t) PROVE MonitorInv'
    BY <2>3, MonitorThread DEF SafepointInv, StateTypes
  <2> QED BY <2>1, <2>2, <2>3 DEF Next
<1> QED BY <1>1, <1>2, SafepointInvariant, PTL DEF Spec

(* A thread past lock_object holds the mark word, and the stores of those   *)
(* who held it before are visible (assembler_CPU.cpp:1164-1179).            *)
THEOREM MonitorsProtect == Spec => []MonitorProtects
<1>1. MonitorInv => MonitorProtects
  BY DEF MonitorInv, MonitorProtects
<1> QED BY <1>1, MonitorInvariant, PTL

-----------------------------------------------------------------------------
(* References.                                                              *)

(* What a memory operation does to the frame anchors: a thread other than   *)
(* those concerned keeps its own, and so does one with an empty buffer.     *)
AnchorsKept(T) ==
  /\ DOMAIN sp' = Threads /\ DOMAIN spBuf' = Threads
  /\ \A u \in Threads : u \notin T \/ spBuf[u] = <<>> => sp'[u] = sp[u] /\ spBuf'[u] = spBuf[u]

LEMMA SyncAnchors ==
  ASSUME NEW T \in SUBSET Threads, Sync(T) PROVE AnchorsKept(T)
BY DEF Sync, AnchorsKept, Newest

LEMMA CommitAnchors ==
  ASSUME ReferencesInv, NEW t \in Threads, Commit(t) PROVE AnchorsKept({t})
<1>1. CASE CommitState(t) \/ CommitData(t)
  BY <1>1 DEF CommitState, CommitData, AnchorsKept, ReferencesInv, ReferenceDomains
<1>2. CASE CommitSp(t)
  BY <1>2 DEF CommitSp, AnchorsKept, ReferencesInv, ReferenceDomains
<1> QED BY <1>1, <1>2 DEF Commit

LEMMA TransitionAnchors ==
  ASSUME ReferencesInv, NEW t \in Threads, NEW s, NEW stores, Transition(t, s, stores)
  PROVE  /\ DOMAIN sp' = Threads /\ DOMAIN spBuf' = Threads
         /\ sp'[t] = TRUE /\ spBuf'[t] = stores
         /\ \A u \in Threads \ {t} : sp'[u] = sp[u] /\ spBuf'[u] = spBuf[u]
BY DEF Transition, ReferencesInv, ReferenceDomains

LEMMA StoreAnchors ==
  ASSUME ReferencesInv, NEW t \in Threads, NEW b, StoreSp(t, b)
  PROVE  /\ DOMAIN sp' = Threads /\ DOMAIN spBuf' = Threads
         /\ \A u \in Threads \ {t} : sp'[u] = sp[u] /\ spBuf'[u] = spBuf[u]
BY DEF StoreSp, ReferencesInv, ReferenceDomains

(* A step of t leaves the references of the other threads alone.            *)
LEMMA ReferencesLocal ==
  ASSUME ReferencesInv, NEW t \in Threads, ReferenceDomains', epoch' = epoch,
         \A u \in Threads \ {t} :
           /\ pc'[u] = pc[u] /\ method'[u] = method[u] /\ mreg'[u] = mreg[u]
           /\ frame'[u] = frame[u] /\ temp'[u] = temp[u] /\ r3'[u] = r3[u]
           /\ sp'[u] = sp[u] /\ spBuf'[u] = spBuf[u],
         ReferencesOf(t)'
  PROVE  ReferencesInv'
<1>1. ASSUME NEW u \in Threads \ {t} PROVE ReferencesOf(u)'
  <2>1. ReferencesOf(u)
    BY DEF ReferencesInv
  <2> QED BY <2>1 DEF ReferencesOf
<1>2. \A u \in Threads : ReferencesOf(u)'
  BY <1>1
<1>3. epoch' \in Nat \ {0}
  BY DEF ReferencesInv
<1> QED BY <1>2, <1>3 DEF ReferencesInv

(* Steps that keep the frame anchors of all threads that are in prepare.    *)
LEMMA ReferencesQuiet ==
  ASSUME ReferencesInv, NEW T \in SUBSET Threads, AnchorsKept(T), UNCHANGED <<pc, regs, epoch>>
  PROVE  ReferencesInv'
<1>1. ASSUME NEW u \in Threads PROVE ReferencesOf(u)'
  <2>1. ReferencesOf(u)
    BY DEF ReferencesInv
  <2>2. spBuf[u] = <<>> => sp'[u] = sp[u] /\ spBuf'[u] = spBuf[u]
    BY DEF AnchorsKept
  <2>3. /\ pc' = pc /\ method' = method /\ mreg' = mreg /\ frame' = frame
        /\ temp' = temp /\ r3' = r3 /\ epoch' = epoch
    BY DEF regs
  <2> QED BY <2>1, <2>2, <2>3 DEF ReferencesOf
<1>2. ReferenceDomains'
  BY DEF ReferencesInv, ReferenceDomains, AnchorsKept, regs
<1> QED BY <1>1, <1>2 DEF ReferencesInv

(* What a step of t that makes no collection has to establish.              *)
LEMMA ReferencesThread ==
  ASSUME SafepointInv, ReferencesInv, NEW t \in Threads,
         Step(t) \/ NativeReturns(t) \/ Commit(t)
  PROVE  ReferencesInv'
<1> DEFINE others ==
      \A u \in Threads \ {t} :
        /\ pc'[u] = pc[u] /\ method'[u] = method[u] /\ mreg'[u] = mreg[u]
        /\ frame'[u] = frame[u] /\ temp'[u] = temp[u] /\ r3'[u] = r3[u]
    anchors == /\ DOMAIN sp' = Threads /\ DOMAIN spBuf' = Threads
               /\ \A u \in Threads \ {t} : sp'[u] = sp[u] /\ spBuf'[u] = spBuf[u]
    domains == /\ DOMAIN pc' = Threads /\ DOMAIN method' = Threads /\ DOMAIN mreg' = Threads
               /\ DOMAIN frame' = Threads /\ DOMAIN temp' = Threads /\ DOMAIN r3' = Threads
<1>a. ASSUME others, anchors, domains, epoch' = epoch, ReferencesOf(t)' PROVE ReferencesInv'
  <2>1. ReferenceDomains'
    BY <1>a DEF ReferenceDomains
  <2> QED BY <1>a, <2>1, ReferencesLocal
<1>b. ReferencesOf(t) /\ ReferenceDomains
  BY DEF ReferencesInv
<1>c. UNCHANGED memory \/ Sync({t}) => anchors
  <2>1. Sync({t}) => anchors
    BY SyncAnchors DEF AnchorsKept
  <2> QED BY <1>b, <2>1 DEF memory, ReferenceDomains
<1>d. \A s, stores : Transition(t, s, stores) => anchors /\ sp'[t] = TRUE /\ spBuf'[t] = stores
  BY TransitionAnchors
<1>e. \A b : StoreSp(t, b) => anchors
  BY StoreAnchors
<1> USE <1>b DEF ReferenceDomains, Goto
<1> HIDE DEF anchors
<1>1. CASE NativeEntry(t)
  <2>1. others /\ domains /\ epoch' = epoch
    BY <1>1 DEF NativeEntry, regs, vmVars
  <2>2. anchors
    BY <1>1, <1>c DEF NativeEntry
  <2>3. /\ pc[t] = "java" /\ pc'[t] \in {"lock", "handler"}
        /\ mreg'[t] = epoch /\ frame'[t] = epoch /\ r3'[t] = 0
    BY <1>1 DEF NativeEntry, regs
  <2>4. ReferencesOf(t)'
    BY <2>1, <2>3 DEF ReferencesOf, BeforeCall, Handle
  <2> QED BY <1>a, <2>1, <2>2, <2>4
<1>2. CASE LoadMark(t)
  <2>1. others /\ domains /\ epoch' = epoch
    BY <1>2 DEF LoadMark, regs, vmVars
  <2>2. anchors
    BY <1>2, <1>c DEF LoadMark
  <2>3. /\ pc[t] = "lock" /\ pc'[t] = "cas_lock"
        /\ method'[t] = method[t] /\ mreg'[t] = mreg[t] /\ frame'[t] = frame[t]
        /\ temp'[t] = temp[t] /\ r3'[t] = r3[t]
    BY <1>2 DEF LoadMark, regs
  <2>4. ReferencesOf(t)'
    BY <2>1, <2>3 DEF ReferencesOf, BeforeCall, Handle
  <2> QED BY <1>a, <2>1, <2>2, <2>4
<1>3. CASE LockObject(t)
  <2>1. others /\ domains /\ epoch' = epoch
    BY <1>3 DEF LockObject, regs, vmVars, Cmpxchg
  <2>2. anchors
    BY <1>3, <1>c DEF LockObject, Cmpxchg
  <2>3. /\ pc[t] = "cas_lock" /\ pc'[t] = "handler"
        /\ method'[t] = method[t] /\ mreg'[t] = mreg[t] /\ frame'[t] = frame[t]
        /\ temp'[t] = temp[t] /\ r3'[t] = r3[t]
    BY <1>3 DEF LockObject, regs, Cmpxchg
  <2>4. ReferencesOf(t)'
    BY <2>1, <2>3 DEF ReferencesOf, BeforeCall, Handle
  <2> QED BY <1>a, <2>1, <2>2, <2>4
<1>4. CASE LoadHandler(t)
  <2>1. others /\ domains /\ epoch' = epoch
    BY <1>4 DEF LoadHandler, regs, vmVars
  <2>2. /\ pc[t] = "handler"
        /\ method'[t] = method[t] /\ mreg'[t] = mreg[t] /\ frame'[t] = frame[t]
        /\ temp'[t] = temp[t] /\ r3'[t] = r3[t]
    BY <1>4 DEF LoadHandler, regs
  <2>3. CASE method[t] \in prepared
    <3>1. anchors /\ pc'[t] = "signature"
      BY <1>4, <1>c, <2>3 DEF LoadHandler
    <3>2. ReferencesOf(t)'
      BY <2>1, <2>2, <3>1 DEF ReferencesOf, BeforeCall
    <3> QED BY <1>a, <2>1, <3>1, <3>2
  <2>4. CASE method[t] \notin prepared
    <3>1. pc'[t] = "prepare" /\ Transition(t, "in_vm", <<>>)
      BY <1>4, <2>4 DEF LoadHandler
    <3>2. anchors /\ sp'[t] = TRUE /\ spBuf'[t] = <<>>
      BY <1>d, <3>1
    <3>3. ReferencesOf(t)'
      BY <2>1, <2>2, <3>1, <3>2 DEF ReferencesOf, BeforeCall
    <3> QED BY <1>a, <2>1, <3>2, <3>3
  <2> QED BY <2>3, <2>4
<1>5. CASE PrepareBlocks(t)
  <2>1. others /\ domains /\ epoch' = epoch
    BY <1>5 DEF PrepareBlocks, regs, vmVars
  <2>2. Transition(t, "blocked", <<>>)
    BY <1>5 DEF PrepareBlocks
  <2>3. anchors /\ sp'[t] = TRUE /\ spBuf'[t] = <<>>
    BY <1>d, <2>2
  <2>4. /\ pc[t] = "prepare" /\ pc'[t] = "prepare_blocked"
        /\ method'[t] = method[t] /\ mreg'[t] = mreg[t] /\ frame'[t] = frame[t]
        /\ temp'[t] = temp[t] /\ r3'[t] = r3[t]
    BY <1>5 DEF PrepareBlocks, regs
  <2>5. ReferencesOf(t)'
    BY <2>1, <2>3, <2>4 DEF ReferencesOf, BeforeCall
  <2> QED BY <1>a, <2>1, <2>3, <2>5
<1>6. CASE PrepareResumes(t)
  <2>1. others /\ domains /\ epoch' = epoch
    BY <1>6 DEF PrepareResumes, regs, vmVars
  <2>2. Transition(t, "in_vm", <<>>)
    BY <1>6 DEF PrepareResumes
  <2>3. anchors /\ sp'[t] = TRUE /\ spBuf'[t] = <<>>
    BY <1>d, <2>2
  <2>4. /\ pc[t] = "prepare_blocked" /\ pc'[t] = "prepare"
        /\ method'[t] = method[t] /\ mreg'[t] = mreg[t] /\ frame'[t] = frame[t]
        /\ temp'[t] = temp[t] /\ r3'[t] = r3[t]
    BY <1>6 DEF PrepareResumes, regs
  <2>5. ReferencesOf(t)'
    BY <2>1, <2>3, <2>4 DEF ReferencesOf, BeforeCall
  <2> QED BY <1>a, <2>1, <2>3, <2>5
<1>7. CASE PrepareReturns(t)
  <2>1. others /\ domains /\ epoch' = epoch
    BY <1>7 DEF PrepareReturns, regs, vmVars, Unwind
  <2>2. anchors
    BY <1>7, <1>d DEF PrepareReturns
  <2>3. /\ pc[t] = "prepare" /\ r3'[t] = r3[t]
        /\ \/ pc'[t] = "signature" /\ mreg'[t] = frame[t] /\ frame'[t] = frame[t]
           \/ pc'[t] = "java"
    BY <1>7 DEF PrepareReturns, regs, Unwind
  <2>4. ReferencesOf(t)'
    BY <2>1, <2>3 DEF ReferencesOf, BeforeCall, Handle
  <2> QED BY <1>a, <2>1, <2>2, <2>4
<1>8. CASE EnterNative(t)
  <2>1. others /\ domains /\ epoch' = epoch
    BY <1>8 DEF EnterNative, regs, vmVars
  <2>2. anchors
    BY <1>8, <1>e DEF EnterNative
  <2>3. pc[t] = "signature" /\ pc'[t] = "native" /\ r3'[t] = r3[t]
    BY <1>8 DEF EnterNative, regs
  <2>4. ReferencesOf(t)'
    BY <2>1, <2>3 DEF ReferencesOf, BeforeCall, Handle
  <2> QED BY <1>a, <2>1, <2>2, <2>4
<1>9. CASE NativeReturns(t)
  <2>1. others /\ domains /\ epoch' = epoch
    BY <1>9 DEF NativeReturns, StoreState, vmVars
  <2>2. anchors
    BY <1>9, <1>b DEF NativeReturns, StoreState, anchors
  <2>3. pc'[t] = "barrier" /\ r3'[t] \in {0, Handle}
    BY <1>9 DEF NativeReturns
  <2>4. ReferencesOf(t)'
    BY <2>3 DEF ReferencesOf, BeforeCall
  <2> QED BY <1>a, <2>1, <2>2, <2>4
<1>10. CASE Barrier(t)
  <2>1. others /\ domains /\ epoch' = epoch
    BY <1>10 DEF Barrier, regs, vmVars
  <2>2. anchors
    BY <1>10, <1>c DEF Barrier
  <2>3. /\ pc[t] = "barrier" /\ pc'[t] = "check"
        /\ method'[t] = method[t] /\ mreg'[t] = mreg[t] /\ frame'[t] = frame[t]
        /\ temp'[t] = temp[t] /\ r3'[t] = r3[t]
    BY <1>10 DEF Barrier, regs
  <2>4. ReferencesOf(t)'
    BY <2>1, <2>3 DEF ReferencesOf, BeforeCall, Handle
  <2> QED BY <1>a, <2>1, <2>2, <2>4
<1>11. CASE CheckSafepoint(t)
  <2>1. others /\ domains /\ epoch' = epoch
    BY <1>11 DEF CheckSafepoint, regs, vmVars
  <2>2. anchors
    BY <1>11, <1>c, <1>d DEF CheckSafepoint
  <2>3. /\ pc[t] = "check" /\ pc'[t] \in {"to_java", "special"}
        /\ method'[t] = method[t] /\ mreg'[t] = mreg[t] /\ frame'[t] = frame[t]
        /\ temp'[t] = temp[t] /\ r3'[t] = r3[t]
    BY <1>11 DEF CheckSafepoint, regs
  <2>4. ReferencesOf(t)'
    BY <2>3 DEF ReferencesOf, BeforeCall
  <2> QED BY <1>a, <2>1, <2>2, <2>4
<1>12. CASE SpecialCondition(t)
  <2>1. others /\ domains /\ epoch' = epoch
    BY <1>12 DEF SpecialCondition, regs, vmVars
  <2>2. anchors
    BY <1>12, <1>d DEF SpecialCondition
  <2>3. /\ pc[t] = "special" /\ pc'[t] = "to_java"
        /\ method'[t] = method[t] /\ r3'[t] = r3[t]
    BY <1>12 DEF SpecialCondition, regs
  <2>4. ReferencesOf(t)'
    BY <2>1, <2>3 DEF ReferencesOf, BeforeCall, Handle
  <2> QED BY <1>a, <2>1, <2>2, <2>4
<1>13. CASE EnterJava(t)
  <2>1. others /\ domains /\ epoch' = epoch
    BY <1>13 DEF EnterJava, regs, vmVars
  <2>2. anchors
    BY <1>13, <1>e DEF EnterJava
  <2>3. /\ pc[t] = "to_java" /\ pc'[t] = "unbox"
        /\ method'[t] = method[t] /\ mreg'[t] = mreg[t] /\ frame'[t] = frame[t]
        /\ temp'[t] = temp[t] /\ r3'[t] = r3[t]
    BY <1>13 DEF EnterJava, regs
  <2>4. ReferencesOf(t)'
    BY <2>1, <2>3 DEF ReferencesOf, BeforeCall, Handle
  <2> QED BY <1>a, <2>1, <2>2, <2>4
<1>14. CASE Unbox(t)
  <2>1. others /\ domains /\ epoch' = epoch
    BY <1>14 DEF Unbox, Unwind, regs, vmVars
  <2>2. anchors
    BY <1>14, <1>c DEF Unbox
  <2>3. /\ pc[t] = "unbox" /\ pc'[t] \in {"unlock", "result", "java"}
        /\ method'[t] = method[t]
    BY <1>14 DEF Unbox, Unwind
  <2>4. ASSUME method[t].oop
        PROVE  /\ r3'[t] \in {0, epoch}
               /\ pc'[t] # "java" => temp'[t] = r3'[t]
    <3>1. r3[t] \in {0, Handle}
      BY <2>3, <2>4 DEF ReferencesOf
    <3> QED BY <1>14, <2>4, <3>1 DEF Unbox, Unwind, Handle
  <2>5. ReferencesOf(t)'
    BY <2>1, <2>3, <2>4 DEF ReferencesOf, BeforeCall
  <2> QED BY <1>a, <2>1, <2>2, <2>5
<1>15. CASE UnlockObject(t)
  <2>1. others /\ domains /\ epoch' = epoch
    BY <1>15 DEF UnlockObject, regs, vmVars
  <2>2. anchors
    BY <1>15, <1>c DEF UnlockObject, Cmpxchg
  <2>3. /\ pc[t] = "unlock" /\ pc'[t] = "result"
        /\ method'[t] = method[t] /\ mreg'[t] = mreg[t] /\ frame'[t] = frame[t]
        /\ temp'[t] = temp[t] /\ r3'[t] = r3[t]
    BY <1>15 DEF UnlockObject, regs
  <2>4. ReferencesOf(t)'
    BY <2>1, <2>3 DEF ReferencesOf, BeforeCall, Handle
  <2> QED BY <1>a, <2>1, <2>2, <2>4
<1>16. CASE ResultHandler(t)
  <2>1. others /\ domains /\ epoch' = epoch
    BY <1>16 DEF ResultHandler, regs, vmVars, Unwind
  <2>2. anchors
    BY <1>16, <1>c DEF ResultHandler
  <2>3. /\ pc[t] = "result" /\ pc'[t] = "java" /\ method'[t] = method[t]
        /\ method[t].oop => r3'[t] = temp[t]
    BY <1>16 DEF ResultHandler, regs, Unwind
  <2>4. ReferencesOf(t)'
    BY <2>1, <2>3 DEF ReferencesOf, BeforeCall, Handle
  <2> QED BY <1>a, <2>1, <2>2, <2>4
<1>17. CASE JavaBlocks(t)
  <2>1. others /\ domains /\ epoch' = epoch
    BY <1>17 DEF JavaBlocks, regs, vmVars
  <2>2. anchors
    BY <1>17, <1>d DEF JavaBlocks
  <2>3. pc'[t] = "java_blocked" /\ r3'[t] = 0
    BY <1>17 DEF JavaBlocks
  <2>4. ReferencesOf(t)'
    BY <2>3 DEF ReferencesOf, BeforeCall
  <2> QED BY <1>a, <2>1, <2>2, <2>4
<1>18. CASE JavaResumes(t)
  <2>1. others /\ domains /\ epoch' = epoch
    BY <1>18 DEF JavaResumes, regs, vmVars
  <2>2. anchors
    BY <1>18, <1>d DEF JavaResumes
  <2>3. /\ pc[t] = "java_blocked" /\ pc'[t] = "java"
        /\ method'[t] = method[t] /\ mreg'[t] = mreg[t] /\ frame'[t] = frame[t]
        /\ temp'[t] = temp[t] /\ r3'[t] = r3[t]
    BY <1>18 DEF JavaResumes, regs
  <2>4. ReferencesOf(t)'
    BY <2>1, <2>3 DEF ReferencesOf, BeforeCall, Handle
  <2> QED BY <1>a, <2>1, <2>2, <2>4
<1>19. CASE Commit(t)
  BY <1>19, CommitAnchors, ReferencesQuiet DEF Commit, regs, vmVars
<1> QED
  BY <1>1, <1>2, <1>3, <1>4, <1>5, <1>6, <1>7, <1>8, <1>9, <1>10, <1>11, <1>12, <1>13, <1>14,
     <1>15, <1>16, <1>17, <1>18, <1>19 DEF Step, Before, After, Block, Resume

(* A collection moves the objects the frames of stopped threads name.       *)
LEMMA ReferencesCollect ==
  ASSUME SafepointInv, ReferencesInv, Collect PROVE ReferencesInv'
<1>1. \A t \in Threads : Stopped(t)
  BY DEF SafepointInv, VMPhase, StateOf, Collect
<1>2. /\ epoch \in Nat \ {0} /\ epoch' = epoch + 1
      /\ pc' = pc /\ method' = method /\ mreg' = mreg /\ r3' = r3 /\ sp' = sp /\ spBuf' = spBuf
  BY DEF Collect, ReferencesInv, memory
<1>3. ASSUME NEW t \in Threads PROVE ReferencesOf(t)'
  <2>1. ReferencesOf(t) /\ Stopped(t)
    BY <1>1 DEF ReferencesInv
  <2>2. ASSUME pc[t] = "prepare_blocked" PROVE frame'[t] = epoch'
    <3>1. sp[t] = TRUE /\ frame[t] = epoch
      BY <2>1, <2>2 DEF ReferencesOf
    <3> QED BY <1>2, <3>1 DEF Collect, Moved
  <2>3. pc[t] \in InNative \cup Suspended
    BY <2>1 DEF Stopped
  <2> QED BY <1>2, <2>1, <2>2, <2>3 DEF ReferencesOf, InNative, Suspended, BeforeCall
<1>4. ReferenceDomains'
  BY <1>2 DEF ReferencesInv, ReferenceDomains, Collect
<1> QED BY <1>2, <1>3, <1>4 DEF ReferencesInv

(* What the collector can move is in the frame, in a handle or not live     *)
(* while a thread of the native entry is at a safe state.                   *)
THEOREM ReferencesInvariant == Spec => []ReferencesInv
<1>1. Init => ReferencesInv
  BY DEF Init, ReferencesInv, ReferenceDomains, ReferencesOf, BeforeCall
<1>2. SafepointInv /\ ReferencesInv /\ [Next]_vars => ReferencesInv'
  <2> SUFFICES ASSUME SafepointInv, ReferencesInv, [Next]_vars PROVE ReferencesInv'
    OBVIOUS
  <2>1. CASE UNCHANGED vars
    <3>1. AnchorsKept({}) /\ UNCHANGED <<pc, regs, epoch>>
      BY <2>1 DEF vars, memory, vmVars, AnchorsKept, ReferencesInv, ReferenceDomains
    <3> QED BY <3>1, ReferencesQuiet
  <2>2. CASE VMStep
    <3>1. CASE Collect
      BY <3>1, ReferencesCollect
    <3>2. CASE Protect
      BY <3>2, SyncAnchors, ReferencesQuiet DEF Protect
    <3>3. CASE Begin \/ Unprotect \/ Reached \/ \E t \in Threads : Poll(t)
      <4>1. sp' = sp /\ spBuf' = spBuf /\ UNCHANGED <<pc, regs, epoch>>
        BY <3>3 DEF Begin, Unprotect, Reached, Poll, memory
      <4>2. AnchorsKept({})
        BY <4>1 DEF AnchorsKept, ReferencesInv, ReferenceDomains
      <4> QED BY <4>1, <4>2, ReferencesQuiet
    <3> QED BY <2>2, <3>1, <3>2, <3>3 DEF VMStep
  <2>3. ASSUME NEW t \in Threads, Step(t) \/ NativeReturns(t) \/ Commit(t) PROVE ReferencesInv'
    BY <2>3, ReferencesThread
  <2> QED BY <2>1, <2>2, <2>3 DEF Next
<1> QED BY <1>1, <1>2, SafepointInvariant, PTL DEF Spec

(* Rmethod before the call and an unboxed result name the object where it   *)
(* is now, whatever was collected in between (cppInterpreter_CPU.cpp:       *)
(* 662-680).                                                                *)
THEOREM ReferencesAreCurrent == Spec => []ReferencesCurrent
<1>1. ReferencesInv => ReferencesCurrent
  BY DEF ReferencesInv, ReferencesOf, ReferencesCurrent, BeforeCall
<1> QED BY <1>1, ReferencesInvariant, PTL
=============================================================================
