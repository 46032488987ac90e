------------------------------ MODULE NativeCall ------------------------------
(***************************************************************************)
(* The native method entry of the PowerPC interpreter (cppInterpreter_CPU  *)
(* .cpp, generate_native_entry) executed by several Java threads, together *)
(* with the macro assembler code it is built from: the lock word protocol  *)
(* of interp_masm_CPU.cpp, cmpxchg_ and serialize_memory of the assembler, *)
(* the signal handler that backs the serialization page, the frame anchor  *)
(* of the thread.                                                          *)
(*                                                                         *)
(* The processor is weakly ordered: a store goes to a buffer of the thread *)
(* and becomes visible later; stores to one location keep their order,     *)
(* stores to different locations do not.  `sync' empties the buffers.      *)
(* Three locations matter: the thread state, the last_Java_sp of the frame *)
(* anchor and the data an object's monitor protects.                       *)
(*                                                                         *)
(* The VM thread, the collector and the runtime's blocking transitions are *)
(* not in the repository: they are modelled from how the generated code    *)
(* uses them.  A collection moves every object: a reference is the number  *)
(* of the epoch in which it was valid, 0 is null.                          *)
(***************************************************************************)
EXTENDS Integers, Sequences, FiniteSets

CONSTANTS Threads,    \* the Java threads
          Methods,    \* native methods: [sync, static, oop : BOOLEAN]
          Callees,    \* the methods each thread calls
          MaxCalls,   \* bound on the calls of one thread
          MaxEpoch,   \* bound on the collections
          None        \* no thread: the neutral mark word

ASSUME ThreadsAssumption == None \notin Threads
ASSUME MethodsAssumption == Methods \subseteq [sync : BOOLEAN, static : BOOLEAN, oop : BOOLEAN]
ASSUME CalleesAssumption == Callees \in [Threads -> (SUBSET Methods) \ {{}}]
ASSUME BoundAssumption == MaxCalls \in Nat /\ MaxEpoch \in Nat

VARIABLES pc,         \* where each thread is in the native entry
          method,     \* Rmethod: which method it calls
          calls,      \* calls made so far
          exception,  \* the thread's pending exception
          mreg,       \* epoch in which the reference in Rmethod was read
          frame,      \* epoch of the references in the frame (_method, monitor)
          temp,       \* the frame's _oop_temp
          r3,         \* the saved result: Handle, 0, or a reference
          displaced   \* displaced header in the frame's BasicObjectLock
VARIABLES vis, buf,   \* thread state: visible value, buffered stores
          sp, spBuf,  \* last_Java_sp set: visible value, buffered stores
          dirty       \* a buffered store to the data of the monitor
VARIABLES prepared,   \* methods whose native function and signature handler are set
          mark,       \* mark word: None or the thread whose entry it points to
          membar,     \* UseMembar
          safepoint,  \* SafepointSynchronize state
          vm,         \* where the VM thread is
          page,       \* the serialization page is write protected
          safe,       \* threads the VM thread has seen in a safe state
          epoch,      \* collections so far, plus one
          died        \* unimplemented() or should_not_reach_here() was reached

regs == <<method, calls, exception, mreg, frame, temp, r3, displaced>>
memory == <<vis, buf, sp, spBuf, dirty>>
vmVars == <<safepoint, vm, page, safe, epoch>>
vars == <<pc, regs, memory, prepared, mark, membar, vmVars, died>>

Handle == -1
ThreadState == {"in_Java", "in_vm", "in_native", "in_native_trans", "blocked"}
SafeStates == {"in_native", "blocked"}

BeforeCall == {"lock", "cas_lock", "handler", "signature"}
InNative == {"native", "barrier", "check"}
Suspended == {"special", "prepare_blocked", "java_blocked"}
AfterCall == {"to_java", "unbox", "unlock", "result"}
JavaPcs == {"java"} \cup BeforeCall \cup AfterCall

-----------------------------------------------------------------------------
(* Memory. *)

Goto(t, l) == pc' = [pc EXCEPT ![t] = l]

StoreState(t, s) == buf' = [buf EXCEPT ![t] = Append(@, s)] /\ UNCHANGED vis
StoreSp(t, b) == spBuf' = [spBuf EXCEPT ![t] = Append(@, b)] /\ UNCHANGED sp

Newest(visible, buffer) == IF buffer = <<>> THEN visible ELSE buffer[Len(buffer)]

\* What sync does for the threads of T: their stores are performed.
Sync(T) ==
  /\ vis' = [t \in Threads |-> IF t \in T THEN Newest(vis[t], buf[t]) ELSE vis[t]]
  /\ buf' = [t \in Threads |-> IF t \in T THEN <<>> ELSE buf[t]]
  /\ sp' = [t \in Threads |-> IF t \in T THEN Newest(sp[t], spBuf[t]) ELSE sp[t]]
  /\ spBuf' = [t \in Threads |-> IF t \in T THEN <<>> ELSE spBuf[t]]
  /\ dirty' = [t \in Threads |-> t \notin T /\ dirty[t]]

\* A transition made by the runtime, which has its own barriers, with the
\* anchor set; call_VM's later stores to the anchor are stores.
Transition(t, s, stores) ==
  /\ vis' = [vis EXCEPT ![t] = s]
  /\ buf' = [buf EXCEPT ![t] = <<>>]
  /\ sp' = [sp EXCEPT ![t] = TRUE]
  /\ spBuf' = [spBuf EXCEPT ![t] = stores]
  /\ dirty' = [dirty EXCEPT ![t] = FALSE]

\* generate_unwind_interpreter_state: the activation and what it kept is gone,
\* and the caller takes a pending exception.
Unwind(t) ==
  /\ Goto(t, "java")
  /\ exception' = [exception EXCEPT ![t] = FALSE]
  /\ frame' = [frame EXCEPT ![t] = 0]
  /\ temp' = [temp EXCEPT ![t] = 0]
  /\ mreg' = [mreg EXCEPT ![t] = 0]
  /\ displaced' = [displaced EXCEPT ![t] = None]

CommitState(t) ==
  /\ buf[t] # <<>>
  /\ vis' = [vis EXCEPT ![t] = Head(buf[t])]
  /\ buf' = [buf EXCEPT ![t] = Tail(@)]
  /\ UNCHANGED <<sp, spBuf, dirty>>

CommitSp(t) ==
  /\ spBuf[t] # <<>>
  /\ sp' = [sp EXCEPT ![t] = Head(spBuf[t])]
  /\ spBuf' = [spBuf EXCEPT ![t] = Tail(@)]
  /\ UNCHANGED <<vis, buf, dirty>>

CommitData(t) ==
  /\ dirty[t]
  /\ dirty' = [dirty EXCEPT ![t] = FALSE]
  /\ UNCHANGED <<vis, buf, sp, spBuf>>

Commit(t) ==
  /\ CommitState(t) \/ CommitSp(t) \/ CommitData(t)
  /\ UNCHANGED <<pc, regs, prepared, mark, membar, vmVars, died>>

Init ==
  /\ pc = [t \in Threads |-> "java"]
  /\ method = [t \in Threads |-> CHOOSE m \in Callees[t] : TRUE]
  /\ calls = [t \in Threads |-> 0]
  /\ exception = [t \in Threads |-> FALSE]
  /\ mreg = [t \in Threads |-> 0]
  /\ frame = [t \in Threads |-> 0]
  /\ temp = [t \in Threads |-> 0]
  /\ r3 = [t \in Threads |-> 0]
  /\ displaced = [t \in Threads |-> None]
  /\ vis = [t \in Threads |-> "in_Java"]
  /\ buf = [t \in Threads |-> <<>>]
  /\ sp = [t \in Threads |-> FALSE]
  /\ spBuf = [t \in Threads |-> <<>>]
  /\ dirty = [t \in Threads |-> FALSE]
  /\ prepared = {}
  /\ mark = None
  /\ membar \in BOOLEAN
  /\ safepoint = "not_synchronized" /\ vm = "idle" /\ page = FALSE
  /\ safe = {} /\ epoch = 1
  /\ died = FALSE

-----------------------------------------------------------------------------
(* The native entry, up to the call. *)

\* The caller's Rmethod is current; a fresh frame holds the same references.
NativeEntry(t) ==
  /\ pc[t] = "java" /\ calls[t] < MaxCalls
  /\ \E m \in Callees[t] :
       /\ method' = [method EXCEPT ![t] = m]
       /\ Goto(t, IF m.sync THEN "lock" ELSE "handler")
  /\ calls' = [calls EXCEPT ![t] = @ + 1]
  /\ mreg' = [mreg EXCEPT ![t] = epoch]
  /\ frame' = [frame EXCEPT ![t] = epoch]
  /\ r3' = [r3 EXCEPT ![t] = 0]
  /\ UNCHANGED <<exception, temp, displaced, memory, prepared, mark, membar, vmVars, died>>

\* displaced = lockee->mark()->set_unlocked(): of a locked mark word the
\* result is no mark word any more, so the swap below fails.
LoadMark(t) ==
  /\ pc[t] = "lock"
  /\ displaced' = [displaced EXCEPT ![t] = mark]
  /\ Goto(t, "cas_lock")
  /\ UNCHANGED <<method, calls, exception, mreg, frame, temp, r3, memory,
                 prepared, mark, membar, vmVars, died>>

\* Without its first instruction.
MutCmpxchgWithoutSync(t, expected, exchange) ==
  /\ UNCHANGED memory
  /\ mark' = IF mark = expected THEN exchange ELSE mark
  /\ died' = (mark # expected)

\* cmpxchg_: sync, then the reservation loop as one step, then isync.
Cmpxchg(t, expected, exchange) ==
  /\ Sync({t})
  /\ mark' = IF mark = expected THEN exchange ELSE mark
  /\ died' = (mark # expected)

LockObject(t) ==
  /\ pc[t] = "cas_lock"
  /\ IF displaced[t] = None THEN Cmpxchg(t, None, t)
                            ELSE Sync({t}) /\ died' = TRUE /\ UNCHANGED mark
  /\ Goto(t, "handler")
  /\ UNCHANGED <<regs, prepared, membar, vmVars>>

\* The signature handler of the method is loaded through Rmethod.
LoadHandler(t) ==
  /\ pc[t] = "handler"
  /\ IF method[t] \in prepared
       THEN Goto(t, "signature") /\ UNCHANGED memory
       ELSE Goto(t, "prepare") /\ Transition(t, "in_vm", <<>>)
  /\ UNCHANGED <<regs, prepared, mark, membar, vmVars, died>>

\* External: InterpreterRuntime::prepare_native_call, which sets the native
\* function and the signature handler or throws, may block for a safepoint.
PrepareBlocks(t) ==
  /\ pc[t] = "prepare" /\ safepoint # "not_synchronized"
  /\ Transition(t, "blocked", <<>>) /\ Goto(t, "prepare_blocked")
  /\ UNCHANGED <<regs, prepared, mark, membar, vmVars, died>>

PrepareResumes(t) ==
  /\ pc[t] = "prepare_blocked" /\ safepoint = "not_synchronized"
  /\ Transition(t, "in_vm", <<>>) /\ Goto(t, "prepare")
  /\ UNCHANGED <<regs, prepared, mark, membar, vmVars, died>>

\* call_VM without the reload.
MutPrepareNoReload(t) ==
  /\ pc[t] = "prepare" /\ safepoint = "not_synchronized"
  /\ prepared' = prepared \cup {method[t]}
  /\ Goto(t, "signature")
  /\ Transition(t, "in_Java", <<FALSE>>)
  /\ UNCHANGED <<method, calls, exception, mreg, frame, temp, r3, displaced,
                 mark, membar, vmVars, died>>

\* The rest of call_VM: reset the anchor, reload Rmethod from the frame; then
\* the test of the pending exception.
PrepareReturns(t) ==
  /\ pc[t] = "prepare" /\ safepoint = "not_synchronized"
  /\ \/ /\ prepared' = prepared \cup {method[t]}
        /\ mreg' = [mreg EXCEPT ![t] = frame[t]]
        /\ Goto(t, "signature") /\ UNCHANGED <<exception, frame, temp, displaced>>
     \/ /\ method[t] \notin prepared
        /\ Unwind(t) /\ UNCHANGED prepared
  /\ Transition(t, "in_Java", <<FALSE>>)
  /\ UNCHANGED <<method, calls, r3, mark, membar, vmVars, died>>

\* Without the store of the new state.
MutStaysInJava(t) ==
  /\ pc[t] = "signature" /\ Goto(t, "native") /\ StoreSp(t, TRUE)
  /\ UNCHANGED <<regs, vis, buf, dirty, prepared, mark, membar, vmVars, died>>

\* Load the native function, call the signature handler, pass the JNIEnv and,
\* for a static method, the mirror handle through _oop_temp; set_last_Java_frame
\* and the new thread state are stored without a barrier between them.
EnterNative(t) ==
  /\ pc[t] = "signature"
  /\ temp' = [temp EXCEPT ![t] = IF method[t].static THEN mreg[t] ELSE @]
  /\ StoreSp(t, TRUE) /\ StoreState(t, "in_native")
  /\ Goto(t, "native")
  /\ UNCHANGED <<method, calls, exception, mreg, frame, r3, displaced, dirty,
                 prepared, mark, membar, vmVars, died>>

-----------------------------------------------------------------------------
(* The call and the way back. *)

\* External: the native function.  It may write the data its monitor protects,
\* return a local handle or null, and leave a pending exception.  The code
\* then reloads Rmethod, saves the result and stores _thread_in_native_trans.
NativeReturns(t) ==
  /\ pc[t] = "native"
  /\ \E r \in {0, Handle}, e \in BOOLEAN :
       /\ (r = Handle) => method[t].oop
       /\ r3' = [r3 EXCEPT ![t] = r]
       /\ exception' = [exception EXCEPT ![t] = e]
  /\ dirty' = [dirty EXCEPT ![t] = @ \/ method[t].sync]
  /\ mreg' = [mreg EXCEPT ![t] = frame[t]]
  /\ StoreState(t, "in_native_trans") /\ Goto(t, "barrier")
  /\ UNCHANGED <<method, calls, frame, temp, displaced, sp, spBuf,
                 prepared, mark, membar, vmVars, died>>

\* Neither sync nor the store to the page.
MutNoBarrier(t) ==
  /\ pc[t] = "barrier" /\ Goto(t, "check")
  /\ UNCHANGED <<regs, memory, prepared, mark, membar, vmVars, died>>

\* UseMembar: sync.  Otherwise the store to the serialization page; while the
\* page is protected it traps, and the signal handler blocks and retries.
Barrier(t) ==
  /\ pc[t] = "barrier"
  /\ \/ membar /\ Sync({t})
     \/ ~membar /\ ~page /\ UNCHANGED memory
  /\ Goto(t, "check")
  /\ UNCHANGED <<regs, prepared, mark, membar, vmVars, died>>

\* Safepoint in progress, or a suspend request (read as either value).
CheckSafepoint(t) ==
  /\ pc[t] = "check"
  /\ \/ safepoint = "not_synchronized" /\ Goto(t, "to_java") /\ UNCHANGED memory
     \/ Goto(t, "special") /\ Transition(t, "blocked", <<>>)
  /\ UNCHANGED <<regs, prepared, mark, membar, vmVars, died>>

\* External: check_special_condition_for_native_trans blocks, restores the
\* thread state and returns; the code then reloads Rmethod.
SpecialCondition(t) ==
  /\ pc[t] = "special" /\ safepoint = "not_synchronized"
  /\ Transition(t, "in_native_trans", <<>>)
  /\ mreg' = [mreg EXCEPT ![t] = frame[t]]
  /\ Goto(t, "to_java")
  /\ UNCHANGED <<method, calls, exception, frame, temp, r3, displaced,
                 prepared, mark, membar, vmVars, died>>

\* The thread state, then the anchor.
EnterJava(t) ==
  /\ pc[t] = "to_java"
  /\ StoreState(t, "in_Java") /\ StoreSp(t, FALSE) /\ Goto(t, "unbox")
  /\ UNCHANGED <<regs, dirty, prepared, mark, membar, vmVars, died>>

\* An oop result is unboxed into the frame's _oop_temp, the handle block is
\* emptied (the handle is dead from here on), and the pending exception
\* decides: with one the activation is unwound and the monitor stays locked.
Unbox(t) ==
  /\ pc[t] = "unbox"
  /\ LET ref == IF method[t].oop /\ r3[t] = Handle THEN epoch ELSE r3[t]
     IN  /\ r3' = [r3 EXCEPT ![t] = ref]
         /\ IF exception[t]
              THEN Unwind(t)
              ELSE /\ Goto(t, IF method[t].sync THEN "unlock" ELSE "result")
                   /\ temp' = [temp EXCEPT ![t] = IF method[t].oop THEN ref ELSE @]
                   /\ UNCHANGED <<exception, mreg, frame, displaced>>
  /\ UNCHANGED <<method, calls, memory, prepared, mark, membar, vmVars, died>>

\* unlock_object: the lockee comes from the frame's monitor entry; when the
\* frame was not seen by a collection it no longer names the object.
UnlockObject(t) ==
  /\ pc[t] = "unlock"
  /\ IF frame[t] = epoch THEN Cmpxchg(t, t, displaced[t])
                         ELSE died' = TRUE /\ UNCHANGED <<memory, mark>>
  /\ Goto(t, "result")
  /\ UNCHANGED <<regs, prepared, membar, vmVars>>

\* The result handler for an oop reloads r3 from _oop_temp; the activation is
\* unwound.
ResultHandler(t) ==
  /\ pc[t] = "result"
  /\ r3' = [r3 EXCEPT ![t] = IF method[t].oop THEN temp[t] ELSE @]
  /\ Unwind(t)
  /\ UNCHANGED <<method, calls, memory, prepared, mark, membar, vmVars, died>>

\* External: Java code polls for safepoints.  What it still needs is on its own
\* frame, so r3 is dead.
JavaBlocks(t) ==
  /\ pc[t] = "java" /\ safepoint # "not_synchronized"
  /\ Transition(t, "blocked", <<>>) /\ Goto(t, "java_blocked")
  /\ r3' = [r3 EXCEPT ![t] = 0]
  /\ UNCHANGED <<method, calls, exception, mreg, frame, temp, displaced,
                 prepared, mark, membar, vmVars, died>>

JavaResumes(t) ==
  /\ pc[t] = "java_blocked" /\ safepoint = "not_synchronized"
  /\ Transition(t, "in_Java", <<FALSE>>) /\ Goto(t, "java")
  /\ UNCHANGED <<regs, prepared, mark, membar, vmVars, died>>

-----------------------------------------------------------------------------
(* External: the VM thread. *)

Begin ==
  /\ vm = "idle" /\ epoch <= MaxEpoch
  /\ safepoint' = "synchronizing"
  /\ vm' = IF membar THEN "poll" ELSE "protect"
  /\ UNCHANGED <<pc, regs, memory, prepared, mark, membar, page, safe, epoch, died>>

\* serialize_thread_states: changing the protection interrupts every processor.
Protect ==
  /\ vm = "protect" /\ Sync(Threads)
  /\ page' = TRUE /\ vm' = "unprotect"
  /\ UNCHANGED <<pc, regs, prepared, mark, membar, safepoint, safe, epoch, died>>

Unprotect ==
  /\ vm = "unprotect" /\ page' = FALSE /\ vm' = "poll"
  /\ UNCHANGED <<pc, regs, memory, prepared, mark, membar, safepoint, safe, epoch, died>>

Poll(t) ==
  /\ vm = "poll" /\ t \notin safe /\ vis[t] \in SafeStates
  /\ safe' = safe \cup {t}
  /\ UNCHANGED <<pc, regs, memory, prepared, mark, membar, safepoint, vm, page, epoch, died>>

Reached ==
  /\ vm = "poll" /\ safe = Threads
  /\ safepoint' = "synchronized" /\ vm' = "collect"
  /\ UNCHANGED <<pc, regs, memory, prepared, mark, membar, page, safe, epoch, died>>

\* The references in a frame are updated only if the thread's anchor names it.
Moved(t, ref) == IF sp[t] /\ ref # 0 THEN epoch + 1 ELSE ref
Collect ==
  /\ vm = "collect" /\ vm' = "idle"
  /\ epoch' = epoch + 1
  /\ frame' = [t \in Threads |-> Moved(t, frame[t])]
  /\ temp' = [t \in Threads |-> Moved(t, temp[t])]
  /\ safepoint' = "not_synchronized" /\ safe' = {}
  /\ UNCHANGED <<pc, method, calls, exception, mreg, r3, displaced, memory, prepared,
                 mark, membar, page, died>>

-----------------------------------------------------------------------------
Resume(t) == PrepareResumes(t) \/ SpecialCondition(t) \/ JavaResumes(t)
Block(t) == PrepareBlocks(t) \/ JavaBlocks(t)
Before(t) == \/ NativeEntry(t) \/ LoadMark(t) \/ LockObject(t) \/ LoadHandler(t)
             \/ PrepareReturns(t) \/ EnterNative(t)
After(t) == \/ Barrier(t) \/ CheckSafepoint(t) \/ EnterJava(t) \/ Unbox(t)
            \/ UnlockObject(t) \/ ResultHandler(t)
\* Everything a thread does by itself; a native function need not return.
Step(t) == Before(t) \/ After(t) \/ Block(t) \/ Resume(t)
VMStep == \/ Begin \/ Protect \/ Unprotect \/ Reached \/ Collect
          \/ \E t \in Threads : Poll(t)

Next == /\ ~died
        /\ \/ \E t \in Threads : Step(t) \/ NativeReturns(t) \/ Commit(t)
           \/ VMStep

Spec == Init /\ [][Next]_vars

Live(A) == ~died /\ A
Fairness == /\ \A t \in Threads : WF_vars(Live(Step(t))) /\ WF_vars(Live(Commit(t)))
            /\ WF_vars(Live(VMStep))
FairSpec == Spec /\ Fairness

-----------------------------------------------------------------------------
(* Properties. *)

TypeOK ==
  /\ pc \in [Threads -> JavaPcs \cup InNative \cup Suspended \cup {"prepare"}]
  /\ method \in [Threads -> Methods]
  /\ calls \in [Threads -> 0..MaxCalls]
  /\ exception \in [Threads -> BOOLEAN] /\ dirty \in [Threads -> BOOLEAN]
  /\ mreg \in [Threads -> 0..MaxEpoch + 1] /\ frame \in [Threads -> 0..MaxEpoch + 1]
  /\ temp \in [Threads -> 0..MaxEpoch + 1]
  /\ r3 \in [Threads -> {Handle} \cup (0..MaxEpoch + 1)]
  /\ displaced \in [Threads -> Threads \cup {None}]
  /\ vis \in [Threads -> ThreadState] /\ buf \in [Threads -> Seq(ThreadState)]
  /\ sp \in [Threads -> BOOLEAN] /\ spBuf \in [Threads -> Seq(BOOLEAN)]
  /\ prepared \subseteq Methods
  /\ mark \in Threads \cup {None}
  /\ membar \in BOOLEAN /\ page \in BOOLEAN /\ died \in BOOLEAN
  /\ safepoint \in {"not_synchronized", "synchronizing", "synchronized"}
  /\ vm \in {"idle", "protect", "unprotect", "poll", "collect"}
  /\ safe \subseteq Threads
  /\ epoch \in 1..MaxEpoch + 1

\* While the VM thread works in a safepoint no thread executes in the state
\* _thread_in_Java: not before its store of _thread_in_native, and not after it
\* found no safepoint on its way back, however late its stores become visible
\* (cppInterpreter_CPU.cpp:621-657, "reading and testing the synchronization
\* state is not atomic with respect to garbage collection").
SafepointExcludesJava ==
  safepoint = "synchronized" => \A t \in Threads : pc[t] \notin JavaPcs

\* A reference the entry is going to use names the object where it is now:
\* Rmethod until the call, the unboxed result from the store to _oop_temp until
\* the caller has it (662-680; the result handler at 149-153).
ReferencesCurrent ==
  \A t \in Threads :
    /\ pc[t] \in {"handler", "signature"} => mreg[t] = epoch
    /\ pc[t] \in {"unlock", "result", "java"} /\ method[t].oop
         => r3[t] \in {0, epoch}

\* A thread past lock_object holds the mark word, and every store that another
\* thread made while it held it is visible: sync in cmpxchg_
\* (assembler_CPU.cpp:1164-1179).
InMonitor(t) ==
  /\ method[t].sync
  /\ pc[t] \in {"handler", "prepare", "prepare_blocked", "signature",
                "special", "to_java", "unbox", "unlock"} \cup InNative
MonitorProtects ==
  ~died => \A t \in Threads : InMonitor(t) =>
             /\ mark = t
             /\ \A u \in Threads \ {t} : ~dirty[u]

\* Every safepoint is reached, though a native function may never return: a
\* thread on its way into or out of the call either becomes visible as safe or
\* blocks.
SafepointReached == safepoint = "synchronizing" ~> safepoint = "synchronized" \/ died

\* thread_linux_CPU.hpp:34, "must have last_Java_sp() when suspended": in a
\* safepoint the frame of every thread in a native call can be found.
SuspendedHasFrame ==
  safepoint = "synchronized" => \A t \in Threads : pc[t] \in InNative => sp[t]

\* interp_masm_CPU.cpp:180, "Reload everything that might have changed after a
\* safepoint": behind the safepoint check Rmethod is current again.
MethodReloaded ==
  \A t \in Threads : pc[t] \in AfterCall => mreg[t] = epoch

\* A monitor the native entry locked is not left locked by an activation that
\* is gone.
NoLockByDeadFrame ==
  \A t \in Threads : mark = t => pc[t] \notin {"java", "java_blocked"}
=============================================================================
