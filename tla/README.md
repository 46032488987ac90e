# TLA+ models of IcedTea: the test harness and the PowerPC port of HotSpot

IcedTea is a build harness around OpenJDK: an automake file that downloads,
patches, configures and builds a JDK in several stages, and code of its own around
it. Two parts of the repository carry core logic worth a model, and this project
models both:

- `test/jtreg`, a copy of the JT Harness and of jtreg merged for IcedTea, which the
  build compiles and uses to run the OpenJDK tests (`make check`): concurrent Java
  that accepts test runs, hands tests to worker threads, interrupts tests that take
  too long, reads test descriptions ahead, and keeps a cache of results in a work
  directory that several processes may share;
- `contrib/templater/hotspot`, the templates of the PowerPC port of HotSpot: a C++
  interpreter whose frames, calls, safepoint transitions and monitors are written in
  generated machine code.

Paths below are relative to `src/`; `javatest/` stands for
`test/jtreg/com/sun/javatest/`, `vm/` for `contrib/templater/hotspot/src/cpu/CPU/vm/`
and `os_cpu/` for `contrib/templater/hotspot/src/os_cpu/linux_CPU/vm/`.

## 1. Inventory

### The test harness

| component | state | operations | hard because of | what makes it correct |
|---|---|---|---|---|
| `Harness` (`javatest/Harness.java`) and `DefaultTestRunner` | registered run thread `worker`, flags `stopping`, `isBatchRun`, counters of the notifier; per run the iterator, the worker threads and `activeThreads`, `stopping`, `allPassed` | `start`, `batch`, `stop`, `waitUntilDone`, `runTests`; `nextTest`, `runTest`, `threadExiting` | two locks, interrupts, threads that die or hang, `Thread.stop`, observers on foreign threads | one run at a time; every test handed out once and reported once; a true verdict only if all passed; stop is prompt and every run ends |
| `Script.Alarm` and `util/Timer` | sorted queue of timer entries, the script's `alarm`, the alarm's `entry`, interrupt status of worker threads | `setAlarm`, `cancel`, `requestDelayedCallback`, `getNextEntry`, `timeout` | a callback in flight while its entry is cancelled | a slow test is interrupted until it ends; nobody else is |
| `util/ReadAheadIterator` | queue, `sourceHasNext`, the read-ahead thread | `hasNext`, `next`, `readAhead`, counters | hand-over between a consumer and a thread that comes and goes | same items, same order, none lost; `hasNext` keeps its word; the consumer is not stuck |
| `TestResultCache` | cache file, lock file, results waiting to be written, `lastSerial`, `lastFileSize`, request flags, the `.jtr` files | `insert`, `flush`, `compress`, `requestFullUpdate`, `shutdown`, `doWork`, `getLock` | several processes on one file, lock timeouts, rewriting in place | one process at a time on the file; the last result of a test wins; nothing inserted is lost |
| `TestResultTable`, `TRT_TreeNode`, `TRT_Iterator`, `TestResult` | the tree of results, `cacheInitialized`, `updateInProgress` | `waitUntilReady`, `update`, iterators, reload of `.jtr` files | the cache's callbacks against the run and the GUI | consistent counts, no lost result, `waitUntilReady` returns |
| `WorkDirectory` | directory on disk, `testsuite` and `log` files, lock per canonical path | create, open, purge | two openers, half-created directories | one object per directory, no half-created one is opened |
| `TestFinder`, `TestFinderQueue` | queue of files and tests, cache of files | `next`, `setTests` | a reader thread against the consumer | every test once |
| agents (`javatest/agent`) | pool of connections, tasks, agent threads | register, `nextAgent`, execute, close | sockets, time-outs, remote failure | an agent serves one task; waiting clients get one |
| `lib/ProcessCommand` and the other commands | child process, stream copiers | run, interrupt, destroy | interrupts, processes that outlive the test | status of the process, no leak of copiers |
| jtreg itself (`javatest/regtest`) | parsed actions, class path, status | parse and run the actions of a test | order of actions, reversed status | first failing action decides |
| `httpd`, `report`, `cof`, `diff`, `audit`, `finder`, `logging`, `mrep` | parsed inputs, output documents | read results, write documents | mostly formatting | faithful output |
| `test/jtreg/com/sun/interview` | questions, current path | answer, path update | re-evaluation of the path | path follows the answers |
| GUI (`exec`, `tool`, `wizard`) | Swing widgets | events | Swing thread | out of scope |

How they interact. `Harness.runTests` waits for the result table, which is
filled by the cache's observer; takes an iterator from the table, wraps it in a
`ReadAheadIterator` and hands it to the runner. A worker thread of the runner
calls `hasNext` and `next` of it, creates a `Script`, which sets alarms, and
reports to the notifier, which updates the table, which inserts the result in the
cache. Everything that interrupts a worker thread (the runner after a stop, an
alarm) is seen by whatever that thread is doing at the time: running a test or
waiting for the read-ahead thread.

### The PowerPC port

| component | state | operations | hard because of | what makes it correct |
|---|---|---|---|---|
| native entry and safepoints (`vm/cppInterpreter_CPU.cpp`, `interp_masm_CPU.cpp`, `os_linux_CPU.cpp`) | thread state, frame anchor, Rmethod, r3, `_oop_temp`, mark word, monitor entry | `generate_native_entry`, `call_VM`, `lock_object`, `unlock_object`, `cmpxchg_`, the signal handler of the serialization page | weakly ordered stores, collections that move objects between two instructions | no Java code in a safepoint; references are current; the monitor protects; safepoints are reached |
| frame manager, call stub, stack walk (`cppInterpreter_CPU.cpp`, `stubGenerator_CPU.cpp`, `frame_CPU.cpp`) | stack of frames, LR, Rstate, Rlocals, interpreter states with `_prev_link`, frame anchor | `generate_normal_entry`, the fast entries, `generate_call_stub`, `sender` | two ways to call a method, return addresses that are never executed, exceptions | every return lands; the walk finds the activations; results and exceptions reach the right caller |
| frame layout (`cppInterpreter_CPU.cpp`, `assembler_CPU.cpp`) | stack pointer, words of the frames, `_stack`, `_stack_limit` | make, extend and drop frames, move operands for monitors, `StackFrame` prologs and epilogs | alignment, two word sizes, frames extended in place | nothing a frame needs is overwritten; registers are restored |
| signature handlers (`interpreterRT_CPU.cpp`, `interpreter_CPU.cpp`, `sharedRuntime_CPU.cpp`) | argument cursors | `pass_int` ... of two handlers, `java_calling_convention` | pairs, doubles, overflow to the stack, two implementations | no place twice; both handlers agree |
| argument slots (`jniTypes_CPU.hpp`, `bytecodeInterpreter_CPU.hpp`) | slots | `put_*`, the stub's copy, `LOCALS_*` | order of halves in three files | what is read is what was put |
| assembler and disassembler (`assembler_CPU.*`, `disassembler_CPU.cpp`) | code, labels | encode, branch, bind, patch, load, print | fields, sign extension, extended mnemonics | branches reach labels; what is printed is the instruction |
| copying (`copy_CPU.hpp`, `linux_ppc.s`, `linux_ppc64.s`) and byte order (`bytes_CPU.hpp`) | memory | conjoint, disjoint, fill; get and put | overlap, alignment, endianness | memmove; the same value at every alignment |
| bytecode arithmetic, atomics, OS layer, patching, template interpreter | little or none | | most of it is `Unimplemented()` or one expression | |

How they interact. C++ code calls a Java method through the call stub, which makes
a frame and jumps to the method's entry. The normal entry is the frame manager: it
makes interpreter frames and calls `BytecodeInterpreter::run`, whose messages tell it
to call, return or throw. A native method's entry runs in the same kind of frame,
passes the arguments through a signature handler and changes the thread's state
around the call, so that the VM thread may stop the world meanwhile. The stack walk
starts at the frame anchor these entries keep, and recognises frames by saved
return addresses. All of it is emitted with the macro assembler.

### The rest

The build (`Makefile.am`, `acinclude.m4`, `configure.ac`: stamps of make targets),
scripts, `fsg.sh.in`, `tapset`, `patches`, `overlays`, `pulseaudio` and the remaining
test data hold no state that lives; see section 7.

## 2. Plan

In this order, the most important behaviour first; the ones marked * are written.

1. * `HarnessRun`: `Harness` and `DefaultTestRunner` together, since they share
   threads and both stop flags. `HarnessRun_proofs` holds its theorems.
2. * `AlarmTimer`: `Script.Alarm` over `util/Timer`, with `AlarmTimer_proofs`.
3. * `ReadAhead`: `util/ReadAheadIterator` as a refinement of `PlainIterator`, with
   `ReadAhead_proofs`.
4. * `ResultCache`: `TestResultCache` in several programs over one work directory,
   with `ResultCache_proofs`.
5. * `NativeCall`: the native method entry of the port among several threads and a VM
   thread, with `NativeCall_proofs`.
6. * `FrameManager`: calls, returns and exceptions of the interpreter, as a refinement
   of `CallStack`, with `FrameManager_proofs`.
7. * The sequential parts of the port, composed in `MCPort`: `FrameLayout` and
   `StackFrame` (with `FrameLayout_proofs`), and `Arguments`, `JavaArguments`,
   `Assembler`, `Disassembler`, `ConjointCopy` and `Bytes`, whose theorems are together
   in `Port_proofs`.
8. `AgentPool`: `ActiveAgentPool` with the watchers of its idle connections, the
   threads that accept them, and clients that wait for one with a time-out.
9. `ResultTable`: `waitUntilReady`, the cache's observer and `update` of
   `TestResultTable`, composed with the interface of `ResultCache`.
10. `FinderQueue`, `WorkDir` and `Command` (`ProcessCommand`, `StreamCopier`).
11. `Autostop` in `HarnessRun`; `Interview`; `BuildStages` for the stamps of
    `Makefile.am`.

Three specifications are abstract: `PlainIterator` (a sequential iterator),
`CallStack` (nested activations with operand stacks), and `Memmoved` and `Filled` of
`ConjointCopy` (what a copy leaves behind). Worth stating besides: "a run: started,
each test reported at most once, finished" for `HarnessRun`, and "a set of idle
connections" for `AgentPool`. Every safety property that a passing run checks is stated
by a theorem. Worth proving besides: what is left of mutual exclusion and of the cache
when one of three or more clients of `ResultCache` crashes (section 5).

## 3. The modules

In the models of the harness an action is one critical section of the code (what a
thread does between taking and releasing a lock), or one step outside of locks that
others can see. In those of the port it is a stretch of generated code between two
points that another thread, the collector or a called C++ function can observe.
Locals, messages, statistics and texts are left out; a test, a thread, a client, a
method is a model value or a small record. `PROJECT.json` maps every definition to the
lines it stands for. Definitions whose name begins with `Mut` are faulty variants of
the definition next to them; nothing uses them, they show that the properties can
fail.

### HarnessRun

Three kinds of processes: the thread of a run (`phase[r]`; `start()` makes one,
`batch()` uses its caller's), the worker threads (`thr[r][s]`, one per slot of
`threads[]`) and whoever calls `start`, `batch` or `stop`.

| action | code |
|---|---|
| `Accept`, `BatchRefused`, `BatchIncomplete` | `Harness.start`, `startWorker`, `batch`: registration under the lock, the refusal, the Fault for incomplete parameters |
| `Stop` | `Harness.stop`: flag and interrupt under the lock |
| `EnterRunTests`, `LaunchFault`, `LaunchRunner` | `Harness.runTests` up to the call of the runner; it resets `stopping` and does not reset the counts of the notifier |
| `Respawn`, `Wait`, `WaitForThreads`, `RunnerReturns`, `RunnerInterrupted`, `GraceEnds` | `DefaultTestRunner.runTests`: the loop with `wait()`, the wait for the threads, the interrupt with its grace period and `Thread.stop` |
| `NextTest`, `Take`, `TakeFault` | `nextTest`: `hasNext`, then `next`, on the iterator of `runTests`, which may throw |
| `RunScript`, `Report`, `Die`, `ThreadExiting` | `runTest`, `finishedTest`, a `Throwable` or a kill at any point, the `finally` clause |
| `FinishedTesting`, `Verdict`, `Release`, `FinishedTestRun` | the end of `runTests` and the `finally` clauses of `startWorker` and `batch` |

`stopReq`, `late` and `faulted` are history: they record when `stop()` was
accepted, how many tests were taken after it, and where the iterator threw.
`Take` and `TakeFault` are the return of `testIter.next()`, which the caller of
`nextTest` awaits with the runner's monitor held (`NoneInNext`), perhaps for ever: no
fairness is assumed of them (`NextCall`).

### AlarmTimer

`queue`, `timer` and `nap` are the timer's entries, where its one thread is, and
how long it still waits; `entry` and `target` are fields of the alarms; `pc`,
`cur` and `intr` belong to the threads that run scripts. Time is relative: a tick
is the 100 ms of the repeated callback, and an entry holds the ticks it has left.
`SetAlarm` and `AlarmConstructed` are two steps because the constructor stores
its entry without the alarm's monitor; `Timeout` and `TimeoutReturns` are two
because the interrupt and the new request happen within that monitor, but not
within the timer's. `cancelled` and `crossed` are history.

### ReadAhead and PlainIterator

The consumer is the thread inside `DefaultTestRunner.nextTest`: one at a time
(`HasNextIsStable` of `HarnessRun`), `next()` only after `hasNext()`. `NextFromQueue`,
`NextFromSource`, `NextStartsWorker` and `NextWakesWorker` are the branches of
`next()`; `Woken` is a turn of its wait loop. `ReadSource` is the worker's access
to the source, which holds no lock; `Put` and `WorkerWoken` are its critical
sections. `Interrupt` comes from an alarm that crossed its cancellation
(`AlarmTimer`) or from a stopped run. `PlainIterator` is what the consumer is
promised: an answer that is right and the items in order.

### ResultCache

`disk` holds the files that have had the cache's name (a client whose lock was
broken may still have the old one open), `here` says which has it now, `lock` who
created the lock file. The rest is per client: the worker's place, its map `tests`
and where it came from (`source`), `size`, `sync` and `need` for
`lastFileSize`, `lastSerial` and `updateNeeded`, the queue `pend`, the request
flags. `GetLock` to `Tell` are the steps of `doWork` in their order, `Check`,
`Wake` and `Stop` those of `doWorkUntilDone`; `Open`, `Insert`, `Compress` and
`Shutdown` are calls of the table; `FinishTest` writes the `.jtr` file before the
result is inserted; `Crash` ends a program anywhere and leaves its lock.

A file is a sequence of units (a header, an entry each). `writeCache` and
`updateCache` overwrite a file from a position and never truncate it; how much of
the old content remains behind the new one depends on the lengths of texts, so `Over`
allows any rest of the old file, from none of it to all, or a part that does not parse.
A crash in the middle of a write cuts the new units anywhere (`Cut`) and leaves such a
rest behind them (`TornRewrite`, `TornUpdate`): often a file that parses, with tests
missing. The dead client's lock file is what keeps it from being read as a cache: whoever
breaks the lock deletes the file (`LeftLocked`).

Abstractions: serial numbers are distinct; a living holder of the lock releases it
within `MAX_LOCK_WAIT_TIME`; `.jtr` files are replaced atomically and written for
every result; `compress()` may be called at any time (the threshold of 40% is left
out); `flush()` and `requestFullUpdate()` have no effective caller; I/O errors (with
which the worker ends and releases the lock, whatever it has left in the file) and the
end of a worker whose table was garbage-collected are left out.

### NativeCall

Each Java thread executes `generate_native_entry`; `pc[t]` is where it is.

| action | code |
|---|---|
| `NativeEntry`, `LoadMark`, `LockObject` | the frame, and `lock_object` for a synchronized method: displaced mark, `cmpxchg_` |
| `LoadHandler`, `PrepareBlocks`, `PrepareResumes`, `PrepareReturns` | the signature handler, or `call_VM(prepare_native_call)` with the reload behind it |
| `EnterNative`, `NativeReturns` | arguments, frame anchor, `_thread_in_native`, the call, reload of Rmethod, `_thread_in_native_trans` |
| `Barrier`, `CheckSafepoint`, `SpecialCondition`, `EnterJava` | `sync` or the store to the serialization page, the tests of the safepoint state and suspend flags, `_thread_in_Java`, the anchor |
| `Unbox`, `UnlockObject`, `ResultHandler` | the result in `_oop_temp`, the pending exception, `unlock_object`, the result handler |
| `JavaBlocks`, `JavaResumes` | external: Java code polls |
| `Begin`, `Protect`, `Unprotect`, `Poll`, `Reached`, `Collect`, `Resume...` of `VMStep` | external: the VM thread, from what the generated code and the signal handler rely on |

The processor is weakly ordered: `buf`, `spBuf` and `dirty` are the stores of a
thread to its state, its anchor and the data a monitor protects that are not visible
yet. `Commit` makes one visible at any time, stores to one location in order, to
different locations in any order; `sync` empties the buffers. Both `UseMembar` and
the serialization page are in the model; the page is external and its trap is
modelled from `os_linux_CPU.cpp`. A reference is the number of the collection after
which it was taken (`epoch`); `Collect` moves every object and updates what it can
reach: frames named by a visible anchor, and handles. `SafepointReached` needs the
commits to be fair.

Abstractions: `check_special_condition_for_native_trans` and `prepare_native_call` are
modelled by what the code after them relies on; the signature handler is one the
generator made (the slow handler's own `call_VM` is not in this module); a lock word is
free or held by a thread (the recursive and inflated cases end in `unimplemented()`, a
failing swap ends the behaviour: `died`).

### FrameManager and CallStack

One thread's stack. A frame is its number, so the back chain of frame `i` is
`i - 1`; a code address is the name of the place it points to. `lr`, `rlocals`,
`rstate`, `tosca` are registers, `exc` the pending exception, `anchor` the last Java
frame. `CallStub` and `StubReturns` are the two halves of the call stub;
`EnterNormal`, `EnterFast` and `EnterNative` the entries; `ReDispatch`, `CallMethod`,
`ManagerResumes`, `ReturnFromMethod`, `ThrowingException`, `MoreMonitors` and `Resume`
the parts of `generate_normal_entry`. `Compute`, `Raise` and `Catch` are the C++
interpreter between two messages. `Sender` and the walk translate `frame_CPU.cpp`.
`CallStack` is what callers are promised: a callee takes its arguments from the
caller's operands and puts its result, or an exception, in their place. The
refinement mapping (`AbstractActs`) reads the operands of every activation from its
frame and adds what is on the way in registers.

### FrameLayout and StackFrame

The same frames word by word. A cell of `mem` holds a tag that says what was stored
there, so that an overwritten cell shows. `CallFromVM`, `EnterFromStub`, `CallMethod`
are the stores of the stub, of `generate_compute_interpreter_state` and of
`generate_adjust_callers_stack`; `MoreMonitors` moves the operands; `PassOnStack` is
what the signature handlers put below; `ReturnToCaller`, `ReturnToStub` and
`StubReturns` drop frames by the back chain; a stub whose method has returned is of
kind `returned`, since the code enters a method once per stub. Both word sizes are
initial states. The stack ends at word 0: a step that would put the stack pointer
below it is not taken, since the code does nothing about an overflow
(`bang_stack_with_offset` is `Unimplemented()`, `assembler_CPU.cpp:1473`); `StackTop` is
any number.
In `LayoutSpec`, which the proofs and `ppc_port` use, an argument is stored in its own
words. `FloatLayoutSpec` adds `PassFloatOnStack`, the one kind that is not: a float on the
stack of PPC64, when it is the last argument.
`StackFrame` is the class of that name: what a frame asks for, its layout, its prolog
and epilog, and `Body`, which changes everything the code between may change. The
`offset++` of the prolog is in closed form: `SaveOffset` gives each saved register the
word it has when the areas before its own are full, and epilog and prolog use the same.

### Arguments and JavaArguments

`Arguments` steps the fast handler, the slow handler and `java_calling_convention`
over one signature, argument by argument, and keeps the places each gives: a register
or a stack word, where it is stored. `StoredFrom` is the offset `StackArgument::pass` adds:
a float on the stack of PPC64 is stored behind its own word. `JavaArguments` follows the halves of each value: into the array of
`JNITypes`, through the reversing copy of the call stub or the interpreter's
expression stack, to the `LOCALS_` macros.

### Assembler and Disassembler

`Encode` gives for each emitter its instruction word (two halfwords, because
TLC's integers have 32 bits), `Calls` the emitters and mnemonics with the operands
their asserts admit: those of the disassembler's tables, the loads and stores, the
branches and the shifts. Registers, fields of CR, shift counts, immediates and
displacements are constants, sets within the ranges of their fields. `Branch`, `Other`
and `Bind` build code with labels and patches; `Load` is the sequence
`load(Register, long)` chooses, executed on halfwords; `PassArgs` the moves of `call_VM`.
`Disassembler` splits a word into fields, looks it up in the tables and prints a line:
mnemonic, dot, operands. `Assembled` reads a line back. In `DisassemblerSpec` one
instruction is emitted and then decoded.

### ConjointCopy and Bytes

One element per load and per store, with indices as the loops count them. `Bytes`
has an integer as the sequence of its bytes and reads and writes it in the parts that
the low bits of the address select.

`MCPort` puts these eight modules side by side: the variable `part` says which one a
behaviour explores, and the variables of the others stay at their initial values. The
parts share no state in the code; one run explores them all.

## 4. The runs

| run | sizes | what it shows |
|---|---|---|
| `harness_pool` | 1 run, 2 slots, 2 tests | the hand-out of tests (`HasNextIsStable`), everything reported when an undisturbed run finishes, a true verdict only if all passed, at most one test after an effective stop, a test reported once and not after the end; wherever `testIter.next()` returns, every run ends if scripts return, and a stop that is not forgotten ends it even if they hang |
| `harness_runs` | 2 runs, 1 slot, 1 test | at most one run executes and it is the registered one, while others are wound up, refused or faulty |
| `alarm_queue` | 2 threads, 2 actions, delays 1..2 | one callback per alarm, a cancelled alarm is gone unless a callback crossed it, a slow action is interrupted again and again |
| `readahead_modes` | up to 6 items, 5 modes | refinement of `PlainIterator` in every mode, with interrupts and a failing source; the count is the total when complete, limits, replenishment, no waiting for ever |
| `cache_shared` | 2 clients, 2 tests, crashes | mutual exclusion on the file, also across a time-out; no inserted test is forgotten unless an incomplete map is written |
| `cache_ready` | 2 clients, 1 test, crashes | every client's table gets its first update; queued results do not stay queued |
| `cache_next_client` | 2 clients, 1 test | finding: a shutdown during the rebuild leaves a partial cache that the next client believes |
| `cache_compress` | 2 clients, 2 tests | finding: a `compress()` between the reading of the cache and line 343 writes the latest updates over the whole cache |
| `ppc_native` | 2 threads, a static synchronized and a plain method, 1 collection, both barriers | no thread in Java code during a safepoint, current references, the monitor's holder and its data, every safepoint is reached |
| `ppc_interpreter` | 5 frames, 4 methods (one per kind), 2 operand slots | every return lands, the walk finds the activations, refinement of `CallStack`; deadlock is checked |
| `ppc_port` | section 3; both word sizes, 4 frames, 15 arguments, 12 heap words, 5 instructions between a branch and its label | the sequential parts: stack words, prologs, argument places and slots, copies, bytes, labels, constants, moves, disassembly |
| `ppc_method_stale` | as `ppc_native` | finding: Rmethod is stale behind the safepoint check |

Why these bounds are enough. *Harness.* Two slots are one thread and "the others" (a
thread that reports, dies or is killed while another takes the last test); two tests
let one be reported while the other is taken; respawned threads reuse slots, so there
are more threads than slots. Two runs are the one executing and the one that is
accepted or refused while the first is wound up. Two alarms give every order of two
entries and of a callback with `cancel` and with the other's request; two ticks
distinguish the first delay, the repetition and "already due". Six items exceed
the largest limit, 4, by more than the distance of both limits, so the worker
stops, waits and resumes; the modes stand for NONE, LIMITED with equal limits
(amounts up to 10), LIMITED with a lower minimum, and FULL, whose limit is never
reached. `ResultCache` has a client that holds the lock or has died with it and
one that waits; two tests tell "this one is missing" from "all are missing";
`MaxFiles` = 2 admits one broken lock. What two clients cannot show is in
section 5. *Port.* Two threads are the one that returns from native code and the
one that contends for its monitor or is elsewhere when the VM thread begins; one
collection suffices to make a reference stale and `MaxCalls` = 1 still lets each
thread call once before and finish after it. Five frames hold a call stub, an
interpreted caller, an interpreted callee, a second stub and its callee: every pair of
neighbours that the code can build, and a re-entry of the virtual machine. The
methods of `ppc_port` have no, one and several parameters, extra locals, monitors and
results of 0 to 2 words; 15 arguments exhaust the eight integer registers and PPC64's
13 floating-point registers and leave two, a float on PPC64's stack and its successor, to
which the fourteenth and fifteenth are limited (`FewTypesAtTheEnd`); halfwords 0, 1, 0x7FFF, 0x8000 and 0xFFFF in all
positions are the constants at which the load sequences differ; copies of up to 12
words reach the unrolled and the looping variants and every overlap. Displacements of
3 and 4 bits stand for 14 and 24. Symmetry is used only in runs without liveness
properties, over values no definition orders (`SetToSeq` orders tests, so
`ResultCache` has symmetry of clients only). No run has a state constraint.

`CHECK_DEADLOCK FALSE` everywhere but in `ppc_interpreter`, since the systems really
stop: runs, scripts and clients end, a consumer need not ask for more, a consumer that
spins never changes state, threads have made their calls, an argument list is full.

Fairness. `HarnessFairness`: threads that wait neither for a test nor for another
thread run on. That scripts return (`ScriptsReturn`) and that `testIter.next()` does
(`NextReturns`) are premises, not assumptions: `EveryRunEnds` has both, `StopEndsRun` the
second. `next()` waits for the thread that reads ahead, with the runner's monitor
held, so the run's thread cannot even leave its `wait()` meanwhile; `ReadAhead` says when it
is answered (`CallerIsServed`: if the source throws no Error and nobody interrupts the
caller) and when it is not (`WaitEnds`). The step of the run's thread that launches the
runner contains `waitUntilReady()`, of which `cache_ready` shows under its own fairness
that the cache lets it return. `AlarmTimer`: the clock, the timer's thread and threads inside
`setAlarm` run on, actions need not end. `ReadAhead`: a thread inside `next()` and
the worker run on; nothing makes the consumer call. `ResultCache`: the worker runs
on, and `GetLock` is strongly fair, because `createNewFile()` is retried every 100 ms
and finds a lock file absent that is absent again and again. `NativeCall`: a thread's
own steps, the visibility of its stores and the VM thread are weakly fair; a native
function need not return, and nobody has to call. Callers, crashes and interrupts are
never fair. Wake-ups without a cause are not modelled; every `wait()` is in a loop
that tests its condition again.

## 5. What the checks found

Three runs end in a counterexample, listed as findings in `PROJECT.json`. The modules
also state properties that comments or documentation claim and the code does not
keep; each is marked as violated, TLC finds the counterexample when it is given as an
invariant, and no configuration lists it:

| property | claim | what happens |
|---|---|---|
| `AllPassedGivesTrue` (`HarnessRun`) | `Harness.java:354`, "true if and only if" | a run in which all tests pass returns false after one with failures, because the notifier's counts are never reset |
| `StopIsRemembered` (`HarnessRun`) | `Harness.java:334` | a stop between registration and the reset of the flag (606) is lost |
| `StopEndsRunAnyway` (`HarnessRun`) | `Harness.java:335`, "may carry on for a short time" | a worker thread waits in `testIter.next()` for a read-ahead thread that an Error ended, or spins there after an interrupt (`WaitEnds`), and holds the runner's monitor: the run never ends |
| `NoInterruptAfterCancel` (`AlarmTimer`) | `Script.java:335`, "until cancelled" | a callback that crosses `cancel()` interrupts the thread in its next action, and goes on for ever |
| `WaitEnds` (`ReadAhead`) | `ReadAheadIterator.java:204-216`, a wait for the worker | the interrupt set again in the wait loop makes it spin with the monitor held, so that the worker never delivers |
| `SuspendedHasFrame` (`NativeCall`) | `os_cpu/thread_linux_CPU.hpp:34` | `_thread_in_native` becomes visible before the anchor does: nothing orders the two stores |
| `NoLockByDeadFrame` (`NativeCall`) | balanced locking | with a pending exception (`cppInterpreter_CPU.cpp:682-688`) the activation is unwound and the monitor stays locked |
| `ImagesInFrame` (`Arguments`) | `interpreter_CPU.cpp:42`, "we allocate for the worst case" | on PPC32 the images of the registers come to lie below the parameter list |
| `ConventionDisjoint` (`Arguments`) | `sharedRuntime_CPU.cpp:49` | two arguments get one place |
| `ArgumentsInTheirArea` (`FrameLayout`, under `FloatLayoutSpec`; `MCFrameLayout` has a method for it) | `interpreterRT_CPU.cpp:238`, "the area between the link area and the expression stack" | on PPC64 a float that is the last argument on the stack is stored past the area, in the monitor or the interpreter state of the native method |
| `JavaOrder` (`Bytes`, with `LittleEndian`) | `bytes_CPU.hpp:39`, "in platform-specific byte ordering" | under `VM_LITTLE_ENDIAN` an unaligned access combines the bytes in the wrong order |
| `LoadsConstant` (`Assembler`) | `assembler_CPU.hpp:348` | `load` sign-extends a part it treats as unsigned; `LoadExact` says for which constants it is right |
| `EpilogUndoesProlog` with `SavesUnusedR0 = TRUE` | the picture at `assembler_CPU.cpp:661-684` | a frame that saves some registers and not r0 still skips r0's word |

Others were met while modelling:

- `Harness.batch`: a Fault because of incomplete parameters leaves the harness
  registered, and `isRunning()` true, for ever (`Harness.java:380`, against 413).
  `isBatchRun()` can be true for a run of `start()` (366, against 426). `batch()` can
  return true for a run that was stopped (731, against 354). A killed worker thread
  reports after `finishedTesting` (`DefaultTestRunner.java:191`, `Harness.java:103`).
- `ReadAheadIterator`: an Error thrown by the source in the worker thread leaves the
  consumer waiting for ever (258, 285, 204); an item taken at the end of a wait may
  leave the queue below its minimum without a notify (214, against 315).
- `TestResultCache`: the file is never truncated, so an old end of it is read again;
  `compress()` does not eliminate obsolete entries then (192), and an old result may
  win over its new one. A `compress()` between `readCache` and line 343 writes the
  latest updates over the whole cache (345 calls the flag "safe to clear"): the run
  `cache_compress`. `NoTestForgotten` is about the rest: a program that has made such a
  write, or has rebuilt from half of the `.jtr` files (`cache_next_client`), is excluded
  (`damaged`). An I/O error in the middle of a write ends the worker, which releases its
  lock (362): the torn file can then be read, unlike that of a crash. The check for conflicting results looks up names among paths and never fires (612,
  650, against 616). `getLock` does not reset `start` after a time-out (694): with
  three clients, the second one that waited for a dead holder breaks the lock of the
  first and deletes its file, and mutual exclusion fails. `releaseLock` deletes
  anybody's lock. A worker that gave up a rebuild goes round in `doWorkUntilDone`
  until the VM ends, if a request is pending (327). A rewrite that keeps the length
  is not noticed (400). A result reported during the cache's update of the table is
  not inserted (`TestResultTable.java:522`).
- The port: `unlock_object` loads where it should store the mark word
  (`interp_masm_CPU.cpp:163-165`; the model stores). `cmpw` and `cmpd` compare
  addresses as signed numbers (`linux_ppc.s:48`, commented "if (from > to)"): a copy
  across the sign bit may go the wrong way, so `CopiesMove` assumes that the heap lies
  on one side of it. On PPC64 a float on the stack is stored behind its own word
  (`interpreterRT_CPU.cpp:203`): the callee does not find it, the next argument on the
  stack overwrites it, and as the last argument it is past the area the handler has made
  (`ArgumentsInTheirArea`: in the monitor or the interpreter state of the native method). The slow signature handler passes the high half of a `jint` on
  PPC64's stack and does not align pairs on PPC32's. `stdx` is missing from the
  disassembler's table, `if (SH = 64 - ME)` (350) is an assignment, and shifts by 0
  have no extended form that prints them. `VMlongLtz` tests `<=`, the shifts of `int`
  do not mask their count, `VMlongDiv` does not catch `MIN_VALUE / -1`
  (`bytecodeInterpreter_CPU.inline.hpp`); `load_acquire` and `release_store` are plain
  accesses (`orderAccess_linux_CPU.inline.hpp`).

## 6. What is proved

TLAPS checks these for every value of the constants that satisfies the assumptions
named in each module (the null values are no elements, there is a slot, limits are
ordered, tests are finite, methods are records of their type, bounds are numbers).

**`HarnessRun_proofs`**: `TypeCorrect`; `OneRun` (at most one run executes, inductive
given the types); `HandOutInvariant`, from which `StableHasNext` and `PromptStop`
follow. `HandOut` strengthens them by what they rest on: a thread is between
`hasNext` and `next` only while the run's thread waits (`InNextTest`), the runner
hands out nothing once it has been left (`RunnerPhases`), an effective stop stays in
force as long as its run executes, which needs `OneRun`, because only the entry of
another run resets the flag (`StopInForce`).

The same module proves `ReportsComplete`, `VerdictIsSound` and `ReportsOnce`. None of
them is inductive: that everything is reported when the run winds up depends on what
happened to each test and each thread before. `Accounts` says so: what interrupts or
kills an undisturbed run does not exist (`Disturbances`), `activeThreads` is the set of
slots with a thread (`ThreadsOf`), and each test taken has been reported or is in the
hands of a thread that will report it, while the runner's stop flag means that nothing
is left to take (`ReportsOf`). `OneHolder` adds that a test is held by one thread at
most and is unreported while it is, which makes reports unique.

**`AlarmTimer_proofs`**, for any number of threads and alarms: `OneCallback` and
`CancelIsFinal`. `cancel()` removes the entry that `Alarm.entry` refers to, which
`timeout()` and the constructor replace, so `AlarmInv` follows that field: an alarm that
was never set has no callback (`Unset`), any other at most one (`OneOutstanding`). It
belongs to the thread it interrupts (`Owned`), and a queued entry is the one the
field refers to, or will when the constructor has stored it, unless a callback crossed
the constructor (`EntryKnown`). The lemmas on the queue say what an insertion, a
removal and a tick leave of one alarm; that an insertion finds its place needs a
least element, from the library's well-founded induction.

**`ReadAhead_proofs`**, for sources of any length, every mode, interrupts and a source
that may throw: `ReadAheadInvariant`, `ReadAheadTypes`, `CountIsTotal`, `LimitedQueue` and
`RefinesPlainIterator`, which is the whole property `ImplementsPlainIterator` (it has no
fairness). Until the source has thrown, `RInv` accounts for every item: delivered,
queued, in the worker's hands or in the source (`Accounted`). Afterwards items are
missing, and what is left is that delivered and then queued items are in the order of
the source and not beyond what has been passed on (`InOrder`). `WorkerKnows` says what
the worker's state tells about the source; `sourceHasNext` stays set behind a worker
that an Error ended, which is why the consumer goes on waiting instead of returning
null (`ConsumerServed`). The types alone are not inductive: that `usedCount` stays within
`total` needs the order.

**`ResultCache_proofs`**: `Types`, for any number of clients, crashes included; `Exclusion`
and `NothingForgotten`, for any number of tests, runs and files, and any number of
clients if none crashes, or two of which both may. With a crash the bound on the
clients is necessary: with three, a time-out can hit a living one (section 5). `LockInv`
adds to the types that living clients have the file open that has the cache's name
(`OneFile`), that a worker in `doWork` holds the lock, which nobody else has but a dead
client (`LockHeld`), and that who has timed out has waited for a dead client
(`WaitedForDead`), so that of two nobody else is there to be disturbed. `CacheInv` adds
that a result is in its `.jtr` file before it is inserted (`JtrFirst`: so a rebuild finds
it), that the map to be written has every test that the file or no queue has
(`KnownAtWrite`), that `updateCache` writes at the end of the file (`AtEndOfFile`), and
that a file that gets the name in a time-out is empty (`NewFilesEmpty`). A write torn by a
crash may leave a file that parses with tests missing and nothing queued; what saves
them is that the dead client's lock file is left behind with it (`LeftLocked`, a disjunct
of `Kept`), so that nobody reads the file before breaking the lock, and breaking it
deletes the file. Programs that made an incomplete write without a crash are excluded by
the hypothesis of the property (`damaged`): `cache_next_client` and `cache_compress` show
that they must be.

**`NativeCall_proofs`**, for any number of threads and of stores on their way:
`SafepointsExcludeJava` from `SafepointInv`: the newest store of a running thread is never
a safe state; behind a barrier of either kind nothing older can still become visible,
so the thread that has read "no safepoint" was seen as unsafe; a thread seen as safe
is stopped. `MonitorsProtect` from `MonitorInv`: a thread with stores to the monitor's
data on their way is the holder of the mark word, because the `sync` of `cmpxchg_`
comes before the swap that releases it. `ReferencesAreCurrent` from `ReferencesInv`, which needs
`SafepointInv`: up to the call the frame and Rmethod are current, r3 is null; a thread
that waits for `prepare_native_call` has its anchor set and nothing in its buffer, so
the collector finds its frame; after the call the result is a handle or null until it
is unboxed.

**`FrameManager_proofs`**, for stacks of any depth, any methods and any operands:
`StackInvariant`, and from it `ReturnsAlwaysLand`, `WalksFindActivations` and
`CallsNest`. A return depends on words saved arbitrarily long ago, so `StackInv` speaks
of the whole stack (`Chain`): a call stub keeps its caller's registers and anchor; the LR
a method saved in the frame below leads to the code that made that frame, or, where it
is `RecursiveInterpreterActivation`, the interpreter state has that frame as its
previous one and the frame manager resumes it instead of returning; a method's
parameters are the last operands of the frame below. `Registers` says for each place in
the code which of these the registers agree with. `ReturnsLand` is a part of it. The walk
is a recursive function of the number of frames visited: that its n-th value is the
n-th activation follows by a least counterexample (well-founded induction on the
naturals, whose theorem on minimal elements takes no operator). For the refinement
`CallsNest`, `AbstractActs` is computed from `Chain` frame by frame: a call, an entry, a
push, a return and an exception each change the activations of one or two frames and
leave those below alone, so each action is one step of `CallStack` or a stutter. It is
the whole property `ImplementsCallStack`, which has no fairness.

**`FrameLayout_proofs`**, for any methods, any depth, any sizes and both word sizes:
`LayoutInvariant`, `FramesStayIntact` and `FramesStaySeparate`. Neither property is
inductive: that a store does not hit another frame depends on where all frames lie. `LayoutInv`
says it: each frame begins where its caller's stack pointer is, aligned, and only the
first is a call stub's (`Stacked`); link area, outgoing arguments, operands, monitors
and state fill a frame in this order, the distance from the limit to the base being the
method's `max_stack` (`Shaped`); a callee's parameters are its caller's topmost operands,
its result fits in their place, and its other locals lie above the caller's link area
(`Called`); and every kept word is there (`AllKept`). Each step changes the words
below the lowest operand of the frame on top (`DataStays`, `LinkStays`: what a frame
keeps survives any change below its own stack, its link area any change elsewhere),
pushes one frame (`PushFrame`), or drops one (`PopFrame`: the caller is left with its
operands less the parameters, plus the result). That an extension is enough rests on
`Extensions` and `Adjustments`: rounding up keeps the alignment and never gives less
than required. The outgoing arguments of `LayoutSpec` are in words of their own; of a
float on the stack of PPC64 the theorems say nothing, and could not
(`ArgumentsInTheirArea`).
The module also holds `EpilogRestores`, about `StackFrame`: from `PrologInv`, between
prolog and epilog every saved register's word, LR's, r0's and the CR word hold the
values at entry (`InItsWord`), and what the code was given as parameters and local
variables lies between the link area and r0's word (`GivenBelow`). It is kept because
the words of the saved registers lie above r0's and inside the frame (`SaveBounds`), no
two registers share one (`OneRegister`: the areas follow each other, and within an area
a word gives its register back), and what is changed and relied on is saved
(`ChangedIsSaved`). Its hypothesis is `~SavesUnusedR0`: a frame saves other registers only
if it saves the volatile ones, as all frames of this code do; without it the statement
is false (section 5).

**`Port_proofs`**: `SlowAgreesWithFast` and `FastHandlerIsSound`, for signatures of any
length: `ArgumentsInv` relates the cursors of both handlers (on PPC64 they agree; on
PPC32 the slow one is on the stack only after the registers are used up, which
bounds its stack words by the parameters seen) and puts every used place below the
cursors, or, for a float on PPC64's stack that was the argument before, at the cursor.
That float is the exception in `FastPlacesSound`: the property says which place it takes, and
that nothing else is misplaced. `ArgumentsBecomeLocals`: `JavaArgumentsInv` says which unit of the array, of the
expression stack or of the locals holds which half of which argument; `SlotOf` is in
closed form (a slot per argument before it and one more for each long and double), so
that a new argument leaves the earlier ones where they are. `LabelsAreReached`, from
`BranchInv`: a branch in the code is to a bound label and has its displacement in its
field, or is in the label's list of patches; the patches of a label are branches to it,
and a bound label has none left.
`LoadsAreExact`: the cases of `load` on four or two halfwords of any value; the condition of
`LoadExact` is necessary as well as sufficient. `ArgumentsReachTheVM`: up to three
registers moved one after the other, over every assignment the asserts admit.
`CopiesMove`, for heaps and blocks of any size on one side of the sign bit (`OneSided`):
the part copied so far is a prefix or a suffix chosen so that no source element has
been overwritten that is still to be read. `WrittenIsRead` holds under both endiannesses;
`BytesAreSound` adds Java's order, which only a big-endian machine has (`JavaOrder`
with `LittleEndian` is violated, section 5).
`InstructionsAreReadBack`: whatever instruction is emitted, with any registers, fields of
CR, shift counts, immediates and displacements that its fields hold, the line printed
is that instruction. The fields read from a word are the digits that `Encode` put
there, form by form (`XFields` to `IFields`); the tables are one-to-one
(`TablesInjective`), and no two of them share an opcode (`OpcodesApart`, `Codes31`), so a
word reaches the printer of its form; each form's line is read back. `CallsArePrinted`
puts the forms together, and `DisassemblerInv` is the invariant.

Only model-checked are the liveness properties: `EveryRunEnds`, `StopEndsRun`,
`SlowActionIsInterrupted`, `CallerIsServed`, `NextReplenishes`, `EveryClientGetsReady`,
`QueueIsWritten` and `SafepointReached`. Liveness under fairness is beyond TLAPS. The
theorems of
its library that do induction take the property as an operator, which the provers cannot
instantiate; where a recursive definition had to be reasoned about, the proofs use a
least counterexample, or the definition has a closed form.

## 7. What is not modelled

Of the harness, `TestResultTable` and `TestResult`, agents, commands,
`TestFinderQueue`, `WorkDirectory`, the interview and the stages of the build are
planned (section 2). jtreg's actions, parameters, filters, finders, reports, logging,
the HTTP server, the command line and the utilities are sequential or formatting. The
graphical interface is a client that starts and stops runs. Within the modelled
classes: the Autostop observer, the statistics and the time estimates of `Harness`;
what section 3 lists for `ResultCache`.

Of the port, the bytecode interpreter's loop, the collector, the VM thread, JNI handle
blocks and the compilers are not in the repository; where the generated code relies on
them they are external actions. The operators of
`bytecodeInterpreter_CPU.inline.hpp` are one C expression each; atomics and
`OrderAccess` are compiler builtins and single instructions; the template interpreter,
vtable stubs, fast JNI fields, code patching and relocation are `Unimplemented()`; the
operating system layer is signal contexts and stack addresses, of which only the
serialization page's case and `pd_last_frame` are in a model. The slow signature
handler's floats, the ARM variant, OSR and deoptimization are `unimplemented()` or left
out. The debugging dumps of the macro assembler print registers.

Scripts, wrappers, templates, SystemTap files, patches and test data have no state
that lives.
