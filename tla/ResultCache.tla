---------------------------- MODULE ResultCache ----------------------------
(***************************************************************************)
(* TestResultCache: the results of a work directory in one file, shared by *)
(* the programs that have the directory open. Each client has a worker     *)
(* thread that locks the file, reads it, rebuilds it from the .jtr files   *)
(* if it is empty, corrupt or has no news, adds the results that insert()  *)
(* queued, unlocks, and tells the client's TestResultTable.                *)
(*                                                                         *)
(* A file is a sequence of units: its serial number (Header), then one     *)
(* entry per result; Junk is a run of bytes that does not read as entries. *)
(* Serial numbers are taken to be distinct: only whether a client's        *)
(* lastSerial is the file's is kept. The lengths of entries depend on the  *)
(* texts of their statuses and are not kept: see Overwritten.              *)
(***************************************************************************)
EXTENDS Naturals, Sequences, FiniteSets, SequencesExt

CONSTANTS
  Clients,   \* programs that open the work directory, each once
  Tests,     \* the tests of the suite
  MaxRuns,   \* bound: how often a test is run
  MaxFiles,  \* bound: how many files get the name of the cache
  Crashes,   \* may a client die at any point?
  None       \* no client, no test, no result

ASSUME CacheAssumption ==
  /\ IsFiniteSet(Tests)
  /\ MaxRuns \in Nat /\ MaxFiles \in Nat \ {0}
  /\ Crashes \in BOOLEAN
  /\ None \notin Clients \cup Tests

Entry == [test : Tests, ver : 1 .. MaxRuns]
Header == [test |-> None, ver |-> 0]
Junk == [test |-> None, ver |-> 1]
Unit == Entry \cup {Header, Junk}

VARIABLES
  disk,     \* [1..MaxFiles -> Seq(Unit)]: files that have been the cache
  here,     \* the one that cacheFile names; the earlier ones are deleted
  lock,     \* who created lockFile, None if it does not exist
  jtr,      \* [Tests -> 0..MaxRuns]: the version in the .jtr file, 0 if none
  pc,       \* where the worker is
  handle,   \* the file that raf has open
  tests,    \* doWork's map: 0 for a test it has no entry of
  source,   \* where doWork got the map from, and whether it wrote it
  size,     \* lastFileSize
  sync,     \* is lastSerial the serial number of the open file?
  need,     \* updateNeeded
  late,     \* has this getLock() already timed out?
  pend,     \* testsToWrite
  full,     \* fullUpdateRequested
  compress, \* compressRequested
  flush,    \* flushRequested
  shutdown, \* shutdownRequested
  told,     \* has the observer had an update? (cacheInitialized)
  hand,     \* a finished test between its .jtr file and insert()
  inserted, \* history: tests that have been inserted
  damaged   \* history: sources of incomplete maps written over a cache

sharedVars == <<disk, here, lock, jtr>>
workVars == <<tests, source, size, sync, need>>
requestVars == <<full, compress, flush, shutdown>>
histories == <<inserted, damaged>>
vars == <<sharedVars, pc, handle, late, workVars, pend, requestVars, told,
          hand, histories>>

Working == {"read", "scan", "write", "update", "unlock"}  \* with the lock
Places ==
  Working \cup {"new", "lock", "tell", "check", "idle", "done", "dead"}
Sources == {"none", "entries", "updates", "files", "cut files", "written"}
Incomplete == {"updates", "cut files"}   \* maps that may miss tests

TypeOK ==
  /\ disk \in [1 .. MaxFiles -> Seq(Unit)] /\ here \in 1 .. MaxFiles
  /\ lock \in Clients \cup {None}
  /\ jtr \in [Tests -> 0 .. MaxRuns]
  /\ pc \in [Clients -> Places]
  /\ handle \in [Clients -> 1 .. MaxFiles]
  /\ tests \in [Clients -> [Tests -> 0 .. MaxRuns]]
  /\ source \in [Clients -> Sources]
  /\ size \in [Clients -> Nat]
  /\ sync \in [Clients -> BOOLEAN] /\ need \in [Clients -> BOOLEAN]
  /\ late \in [Clients -> BOOLEAN]
  /\ pend \in [Clients -> Seq(Entry)]
  /\ full \in [Clients -> BOOLEAN] /\ compress \in [Clients -> BOOLEAN]
  /\ flush \in [Clients -> BOOLEAN] /\ shutdown \in [Clients -> BOOLEAN]
  /\ told \in [Clients -> BOOLEAN]
  /\ hand \in [Clients -> Entry \cup {None}]
  /\ inserted \subseteq Tests /\ damaged \subseteq Incomplete

NoTests == [t \in Tests |-> 0]

Init ==
  /\ disk = [f \in 1 .. MaxFiles |-> <<>>] /\ here = 1 /\ lock = None
  /\ jtr = NoTests
  /\ pc = [c \in Clients |-> "new"]
  /\ handle = [c \in Clients |-> 1]
  /\ tests = [c \in Clients |-> NoTests]
  /\ source = [c \in Clients |-> "none"]
  /\ size = [c \in Clients |-> 0]
  /\ sync = [c \in Clients |-> FALSE] /\ need = [c \in Clients |-> FALSE]
  /\ late = [c \in Clients |-> FALSE]
  /\ pend = [c \in Clients |-> <<>>]
  /\ full = [c \in Clients |-> FALSE]
  /\ compress = [c \in Clients |-> FALSE]
  /\ flush = [c \in Clients |-> FALSE]
  /\ shutdown = [c \in Clients |-> FALSE]
  /\ told = [c \in Clients |-> FALSE]
  /\ hand = [c \in Clients |-> None]
  /\ inserted = {} /\ damaged = {}

-----------------------------------------------------------------------------
(* Files and maps.                                                         *)

Alive(c) == pc[c] \notin {"new", "dead"}
Tested(us) == {us[i].test : i \in 1 .. Len(us)} \ {None}
Corrupt(us) == \E i \in 1 .. Len(us) : us[i] = Junk

(* The map readCacheEntries fills: a later entry replaces an earlier one.  *)
Latest(us) ==
  [t \in Tests |->
     LET at == {i \in 1 .. Len(us) : us[i].test = t}
     IN  IF at = {} THEN 0
         ELSE us[CHOOSE i \in at : \A j \in at : j <= i].ver]

(* A map with a queue of results put over it.                              *)
MutDropsQueue(m, q) == m
Merged(m, q) ==
  [t \in Tests |-> IF t \in Tested(q) THEN Latest(q)[t] ELSE m[t]]

(* The content of a cache file with a map's entries, in the map's order.   *)
Listing(m) ==
  <<Header>> \o SetToSeq({e \in Entry : m[e.test] = e.ver})

(* What a file with content f may be after its beginning was replaced by   *)
(* the units us. It is never truncated. Once the units differ from the old *)
(* ones so may their lengths: what follows them is what is left of f after *)
(* the first units, the one that differs among them, or part of a unit.    *)
Over(f, us) ==
  IF IsPrefix(us, f) THEN {f}
  ELSE IF IsPrefix(f, us) THEN {us}
  ELSE {us \o <<Junk>>} \cup
       {us \o SubSeq(f, i + 1, Len(f)) :
          i \in {j \in 1 .. Len(f) : ~IsPrefix(SubSeq(f, 1, j), us)}}

(* The same for units us written from the position at.                     *)
Overwritten(f, at, us) ==
  Over(f, (IF at <= Len(f) THEN SubSeq(f, 1, at) ELSE Append(f, Junk)) \o us)

-----------------------------------------------------------------------------
(* The client: its calls, from the threads that run tests and its main.    *)

(* The constructor: opens the file and starts the worker, which asks for a *)
(* full update first of all.                                               *)
Open(c) ==
  /\ pc[c] = "new"
  /\ pc' = [pc EXCEPT ![c] = "lock"]
  /\ handle' = [handle EXCEPT ![c] = here]
  /\ full' = [full EXCEPT ![c] = TRUE]
  /\ UNCHANGED <<sharedVars, late, workVars, pend, compress, flush, shutdown,
                 told, hand, histories>>

(* Script.run writes the result of a test to its .jtr file. Tests are run  *)
(* after waitUntilReady().                                                 *)
FinishTest(c, t) ==
  /\ Alive(c) /\ told[c] /\ hand[c] = None
  /\ jtr[t] < MaxRuns
  /\ jtr' = [jtr EXCEPT ![t] = @ + 1]
  /\ hand' = [hand EXCEPT ![c] = [test |-> t, ver |-> jtr[t] + 1]]
  /\ UNCHANGED <<disk, here, lock, pc, handle, late, workVars, pend,
                 requestVars, told, histories>>

(* The harness reports the finished test: TestResultTable.update calls     *)
(* insert().                                                               *)
Insert(c) ==
  /\ Alive(c) /\ hand[c] # None
  /\ pend' = [pend EXCEPT ![c] = Append(@, hand[c])]
  /\ hand' = [hand EXCEPT ![c] = None]
  /\ inserted' = inserted \cup {hand[c].test}
  /\ UNCHANGED <<sharedVars, pc, handle, late, workVars, requestVars, told,
                 damaged>>

(* compress(), at the end of a run, if the table was advised to. The share *)
(* of the entries at which it is, 40% unless set otherwise, is left out.   *)
Compress(c) ==
  /\ Alive(c) /\ told[c] /\ ~shutdown[c]
  /\ compress' = [compress EXCEPT ![c] = TRUE]
  /\ UNCHANGED <<sharedVars, pc, handle, late, workVars, pend, full, flush,
                 shutdown, told, hand, histories>>

(* shutdown(): called by dispose() or as the VM's shutdown hook.           *)
Shutdown(c) ==
  /\ Alive(c) /\ ~shutdown[c]
  /\ shutdown' = [shutdown EXCEPT ![c] = TRUE]
  /\ flush' = [flush EXCEPT ![c] = @ \/ pend[c] # <<>>]
  /\ UNCHANGED <<sharedVars, pc, handle, late, workVars, pend, full, compress,
                 told, hand, histories>>

(* What has been written when writing the units us stops anywhere: some of *)
(* them, and perhaps part of one.                                          *)
Cut(us) ==
  UNION {{SubSeq(us, 1, i), Append(SubSeq(us, 1, i), Junk)} : i \in 0 .. Len(us)}

(* doWork() calls writeCache().                                            *)
Rewrites(c) ==
  source[c] \in {"files", "cut files"} \/ compress[c] \/ disk[handle[c]] = <<>>

(* writeCache() stops on its way: new entries are followed by what is left *)
(* of the old ones. Half a serial number over an old one is another one.   *)
TornRewrite(c) ==
  /\ pc[c] = "write" /\ Rewrites(c)
  /\ LET f == disk[handle[c]] IN
     \E us \in Cut(Listing(Merged(tests[c], pend[c]))) :
       /\ us = <<Junk>> => f = <<>>
       /\ \E g \in Overwritten(f, 0, us) :
            disk' = [disk EXCEPT ![handle[c]] = g]
  /\ sync' = [d \in Clients |->
                 d # c /\ handle[d] # handle[c] /\ sync[d]]

(* updateCache() stops on its way.                                         *)
TornUpdate(c) ==
  /\ pc[c] = "update"
  /\ \E us \in Cut(pend[c]) :
       \E g \in Overwritten(disk[handle[c]], size[c], us) :
         disk' = [disk EXCEPT ![handle[c]] = g]
  /\ sync' = [sync EXCEPT ![c] = FALSE]

(* The program dies, or ends before its daemon worker is done. Its lock    *)
(* file stays; what it was writing may be torn. Its memory is gone; pend   *)
(* remembers which results were still to be written.                       *)
Crash(c) ==
  /\ Crashes /\ Alive(c)
  /\ pc' = [pc EXCEPT ![c] = "dead"]
  /\ \/ disk' = disk /\ sync' = [sync EXCEPT ![c] = FALSE]
     \/ TornRewrite(c)
     \/ TornUpdate(c)
  /\ tests' = [tests EXCEPT ![c] = NoTests]
  /\ source' = [source EXCEPT ![c] = "none"]
  /\ size' = [size EXCEPT ![c] = 0]
  /\ need' = [need EXCEPT ![c] = FALSE]
  /\ late' = [late EXCEPT ![c] = FALSE] /\ full' = [full EXCEPT ![c] = FALSE]
  /\ compress' = [compress EXCEPT ![c] = FALSE]
  /\ flush' = [flush EXCEPT ![c] = FALSE]
  /\ shutdown' = [shutdown EXCEPT ![c] = FALSE]
  /\ told' = [told EXCEPT ![c] = FALSE] /\ hand' = [hand EXCEPT ![c] = None]
  /\ UNCHANGED <<here, lock, jtr, handle, pend, histories>>

-----------------------------------------------------------------------------
(* The worker: doWork().                                                   *)

(* getLock(): createNewFile() succeeds.                                    *)
GetLock(c) ==
  /\ pc[c] = "lock" /\ lock = None
  /\ lock' = c
  /\ pc' = [pc EXCEPT ![c] = "read"]
  /\ late' = [late EXCEPT ![c] = FALSE]
  /\ UNCHANGED <<disk, here, jtr, handle, workVars, pend, requestVars, told,
                 hand, histories>>

(* getLock(): MAX_LOCK_WAIT_TIME is over; trash the lock and the cache. A  *)
(* living holder is assumed to be faster than that. After the first        *)
(* time-out of a call the next failure is a time-out as well.              *)
MutTimesOutEarly(c) ==
  /\ pc[c] = "lock" /\ lock # None
  /\ here < MaxFiles
  /\ here' = here + 1
  /\ lock' = None
  /\ handle' = [handle EXCEPT ![c] = here + 1]
  /\ sync' = [sync EXCEPT ![c] = FALSE]
  /\ late' = [late EXCEPT ![c] = TRUE]
  /\ UNCHANGED <<disk, jtr, pc, tests, source, size, need, pend, requestVars,
                 told, hand, histories>>
MutKeepsCache(c) ==
  /\ pc[c] = "lock" /\ lock # None
  /\ late[c] \/ pc[lock] = "dead"
  /\ lock' = None
  /\ late' = [late EXCEPT ![c] = TRUE]
  /\ UNCHANGED <<disk, here, jtr, pc, handle, workVars, pend, requestVars,
                 told, hand, histories>>
TimeOut(c) ==
  /\ pc[c] = "lock" /\ lock # None
  /\ late[c] \/ pc[lock] = "dead"
  /\ here < MaxFiles
  /\ here' = here + 1
  /\ lock' = None
  /\ handle' = [handle EXCEPT ![c] = here + 1]
  /\ sync' = [sync EXCEPT ![c] = FALSE]
  /\ late' = [late EXCEPT ![c] = TRUE]
  /\ UNCHANGED <<disk, jtr, pc, tests, source, size, need, pend, requestVars,
                 told, hand, histories>>

(* The cache is to be rebuilt from the .jtr files: f is what is left of it *)
(* until then. In a client that shuts down this is left to the next one.   *)
Rebuild(c, f) ==
  IF shutdown[c]
  THEN /\ pend' = [pend EXCEPT ![c] = <<>>]
       /\ disk' = [disk EXCEPT ![handle[c]] = <<>>]
       /\ pc' = [pc EXCEPT ![c] = "unlock"]
  ELSE /\ disk' = [disk EXCEPT ![handle[c]] = f]
       /\ pc' = [pc EXCEPT ![c] = "scan"]
       /\ UNCHANGED pend

(* readCacheEntries() of the units us, with which the open file ends.      *)
ReadEntries(c, us, from) ==
  IF Corrupt(us)
  THEN /\ Rebuild(c, <<>>)
       /\ UNCHANGED <<tests, source, size>>
  ELSE /\ tests' = [tests EXCEPT ![c] = Latest(us)]
       /\ source' = [source EXCEPT ![c] = from]
       /\ size' = [size EXCEPT ![c] = Len(disk[handle[c]])]
       /\ pc' = [pc EXCEPT ![c] = "write"]
       /\ UNCHANGED <<disk, pend>>

ReadCache(c) ==
  /\ pc[c] = "read"
  /\ LET f == disk[handle[c]]
         all == ~sync[c] \/ full[c] \/ compress[c]
     IN
     \/ /\ f = <<>>
        /\ Rebuild(c, f)
        /\ UNCHANGED workVars
     \/ /\ f # <<>> /\ all
        /\ need' = [need EXCEPT ![c] = full[c] \/ ~sync[c] \/ Len(f) > size[c]]
        /\ sync' = [sync EXCEPT ![c] = TRUE]
        /\ ReadEntries(c, f, "entries")
     \/ /\ f # <<>> /\ ~all /\ Len(f) > size[c]
        /\ ReadEntries(c, SubSeq(f, size[c] + 1, Len(f)), "updates")
        /\ need' = [need EXCEPT ![c] =
                       @ \/ ~Corrupt(SubSeq(f, size[c] + 1, Len(f)))]
        /\ UNCHANGED sync
     \/ /\ f # <<>> /\ ~all /\ Len(f) <= size[c]
        /\ Rebuild(c, f)
        /\ need' = [need EXCEPT ![c] = FALSE]
        /\ UNCHANGED <<tests, source, size, sync>>
  /\ UNCHANGED <<here, lock, jtr, handle, late, requestVars, told, hand,
                 histories>>

(* readJTRFiles(). A shutdown request that comes meanwhile ends it early.  *)
ReadJTRFiles(c) ==
  /\ pc[c] = "scan"
  /\ \E seen \in IF shutdown[c] THEN SUBSET Tests ELSE {Tests} :
       /\ tests' = [tests EXCEPT ![c] =
                      [t \in Tests |-> IF t \in seen THEN jtr[t] ELSE 0]]
       /\ source' = [source EXCEPT ![c] =
                       IF seen = Tests THEN "files" ELSE "cut files"]
  /\ pc' = [pc EXCEPT ![c] = "write"]
  /\ UNCHANGED <<sharedVars, handle, late, size, sync, need, pend,
                 requestVars, told, hand, histories>>

(* writeCache(), if there is a reason to. The conflict check looks up a    *)
(* test's name among keys that are paths of .jtr files and never hits.     *)
WriteCache(c) ==
  /\ pc[c] = "write"
  /\ pc' = [pc EXCEPT ![c] = "update"]
  /\ LET f == disk[handle[c]]
         m == Merged(tests[c], pend[c])
     IN
     IF Rewrites(c)
     THEN /\ \E g \in Overwritten(f, 0, Listing(m)) :
               /\ disk' = [disk EXCEPT ![handle[c]] = g]
               /\ size' = [size EXCEPT ![c] = Len(g)]
          /\ sync' = [d \in Clients |->
                        d = c \/ (handle[d] # handle[c] /\ sync[d])]
          /\ tests' = [tests EXCEPT ![c] = m]
          /\ source' = [source EXCEPT ![c] = "written"]
          /\ pend' = [pend EXCEPT ![c] = <<>>]
          /\ damaged' = damaged \cup ({source[c]} \cap Incomplete)
     ELSE UNCHANGED <<disk, size, sync, tests, source, pend, damaged>>
  /\ UNCHANGED <<here, lock, jtr, handle, late, need, requestVars, told, hand,
                 inserted>>

(* Clears compressRequested if writeCache() was called; updateCache(). The *)
(* map is only passed on to the observer from here.                        *)
UpdateCache(c) ==
  /\ pc[c] = "update"
  /\ pc' = [pc EXCEPT ![c] = "unlock"]
  /\ compress' = [compress EXCEPT ![c] = @ /\ source[c] # "written"]
  /\ \E g \in Overwritten(disk[handle[c]], size[c], pend[c]) :
       /\ disk' = [disk EXCEPT ![handle[c]] = g]
       /\ size' = [size EXCEPT ![c] = Len(g)]
  /\ pend' = [pend EXCEPT ![c] = <<>>]
  /\ tests' = [tests EXCEPT ![c] = NoTests]
  /\ UNCHANGED <<here, lock, jtr, handle, late, source, sync, need, full,
                 flush, shutdown, told, hand, histories>>

(* releaseLock(): whoever's lock it is. doWork ends here if it gave up to  *)
(* rebuild.                                                                *)
ReleaseLock(c) ==
  /\ pc[c] = "unlock"
  /\ lock' = None
  /\ pc' = [pc EXCEPT ![c] = IF source[c] = "none" THEN "check" ELSE "tell"]
  /\ UNCHANGED <<disk, here, jtr, handle, late, workVars, pend, requestVars,
                 told, hand, histories>>

(* The end of doWork: observer.update().                                   *)
MutClearsUnanswered(c) ==
  /\ pc[c] = "tell"
  /\ pc' = [pc EXCEPT ![c] = "check"]
  /\ told' = [told EXCEPT ![c] = @ \/ (need[c] /\ ~shutdown[c])]
  /\ full' = [full EXCEPT ![c] = FALSE]
  /\ source' = [source EXCEPT ![c] = "none"]
  /\ UNCHANGED <<sharedVars, handle, late, tests, size, sync, need, pend,
                 compress, flush, shutdown, hand, histories>>
Tell(c) ==
  /\ pc[c] = "tell"
  /\ pc' = [pc EXCEPT ![c] = "check"]
  /\ told' = [told EXCEPT ![c] = @ \/ (need[c] /\ ~shutdown[c])]
  /\ full' = [full EXCEPT ![c] = @ /\ ~need[c]]
  /\ source' = [source EXCEPT ![c] = "none"]
  /\ UNCHANGED <<sharedVars, handle, late, tests, size, sync, need, pend,
                 compress, flush, shutdown, hand, histories>>

-----------------------------------------------------------------------------
(* The worker: doWorkUntilDone().                                          *)

Requested(c) == compress[c] \/ flush[c] \/ full[c]

(* isWorkAvailable(), more than ten seconds after the last work.           *)
MutForgetsQueue(c) == Requested(c) \/ Len(disk[handle[c]]) # size[c]
WorkAvailable(c) ==
  Requested(c) \/ pend[c] # <<>> \/ Len(disk[handle[c]]) # size[c]

(* After doWork(): more work, an end, or the wait().                       *)
Check(c) ==
  /\ pc[c] = "check"
  /\ flush' = [flush EXCEPT ![c] = @ /\ pend[c] # <<>>]
  /\ pc' = [pc EXCEPT ![c] = IF compress[c] \/ flush'[c] \/ full[c] THEN "lock"
                             ELSE IF shutdown[c] THEN "done" ELSE "idle"]
  /\ UNCHANGED <<sharedVars, handle, late, workVars, pend, full, compress,
                 shutdown, told, hand, histories>>

(* The wait() ends, by a call or after ten seconds, and there is work.     *)
Wake(c) ==
  /\ pc[c] = "idle" /\ WorkAvailable(c)
  /\ pc' = [pc EXCEPT ![c] = "lock"]
  /\ UNCHANGED <<sharedVars, handle, late, workVars, pend, requestVars, told,
                 hand, histories>>

(* The wait() ends by shutdown(): unless there is work, so does the        *)
(* worker. Results inserted since then are not work before ten seconds.    *)
Stop(c) ==
  /\ pc[c] = "idle" /\ shutdown[c] /\ ~Requested(c)
  /\ pc' = [pc EXCEPT ![c] = "done"]
  /\ UNCHANGED <<sharedVars, handle, late, workVars, pend, requestVars, told,
                 hand, histories>>

Worker(c) ==
  \/ TimeOut(c) \/ ReadCache(c) \/ ReadJTRFiles(c) \/ WriteCache(c)
  \/ UpdateCache(c) \/ ReleaseLock(c) \/ Tell(c) \/ Check(c) \/ Wake(c)
  \/ Stop(c)

Caller(c) ==
  \/ Open(c) \/ Insert(c) \/ Compress(c) \/ Shutdown(c) \/ Crash(c)
  \/ \E t \in Tests : FinishTest(c, t)

Next == \E c \in Clients : Caller(c) \/ GetLock(c) \/ Worker(c)

Spec == Init /\ [][Next]_vars

(* A worker that can go on does. createNewFile() is retried until it finds *)
(* no lock file: one that is absent again and again is found absent.       *)
FairSpec ==
  Spec /\ \A c \in Clients : WF_vars(Worker(c)) /\ SF_vars(GetLock(c))
-----------------------------------------------------------------------------
(* Between getLock() and releaseLock() a worker has the cache file for     *)
(* itself, also when it came in by a time-out (doWork, getLock).           *)
MutualExclusion ==
  \A c, d \in Clients : pc[c] \in Working /\ pc[d] \in Working => c = d

(* The lock file of a client that died at work is still there. What it was *)
(* writing may read as a cache that misses tests, but nobody reads it: the *)
(* next client times out and deletes the cache with the lock (getLock).    *)
LeftLocked == \E c \in Clients : lock = c /\ pc[c] = "dead"

(* No test that was inserted is forgotten: the cache has an entry of it,   *)
(* or it is (or was, when its client ended) queued in testsToWrite, or the *)
(* cache is empty, corrupt or left locked, so that the next client rebuilds*)
(* it. Except after a writeCache() of an incomplete map.                   *)
Kept(t) ==
  LET f == disk[here] IN
  \/ f = <<>> \/ Corrupt(f) \/ t \in Tested(f)
  \/ \E c \in Clients : t \in Tested(pend[c])
  \/ LeftLocked
NoTestForgotten == damaged = {} => \A t \in inserted : Kept(t)

(* A client that shuts down while it rebuilds the cache leaves it to "the  *)
(* next client to rebuild the cache instead" (doWork): whatever clients    *)
(* do, no test is ever forgotten.                                          *)
LeftToNextClient == \A t \in inserted : Kept(t)

(* compress() eliminates "any obsolete entries" (TestResultCache.java:192), *)
(* not the only entry of a test: what doWork does with compressRequested   *)
(* set makes the cache forget no test, in clients that do not shut down    *)
(* while they rebuild.                                                     *)
CompressKeepsTests ==
  "cut files" \notin damaged => \A t \in inserted : Kept(t)

(* A client's table is told the content of the cache, which is what        *)
(* waitUntilReady() waits for, unless the client shuts down or dies.       *)
EveryClientGetsReady ==
  \A c \in Clients :
    pc[c] = "lock" ~> told[c] \/ shutdown[c] \/ pc[c] = "dead"

(* The queue is written to the cache asynchronously (or, in a client that  *)
(* shuts down, dropped with the cache emptied), unless the worker has      *)
(* ended.                                                                  *)
QueueIsWritten ==
  \A c \in Clients :
    pend[c] # <<>> ~> pend[c] = <<>> \/ pc[c] \in {"done", "dead"}
=============================================================================
