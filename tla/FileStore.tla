----------------------------- MODULE FileStore -----------------------------
(***************************************************************************)
(* The concurrency of pkg/filestore: goroutines that run operations on     *)
(* files through the write-back cache.  Each operation on a file is        *)
(* withLock: pin the cache entry of its key (FileStore.Lock), lock it      *)
(* (CacheEntry.Lock), work on it and on the database, unlock, unpin (and   *)
(* discard a clean entry that nobody pins).  FlushCache, DeleteZone and    *)
(* ListFiles do that for one file after another.  Entries are objects:     *)
(* several may exist for a key, the cache refers to at most one of them.   *)
(*                                                                         *)
(* A file is abstracted to its size, which tells lost updates apart; its   *)
(* bytes are the subject of BlockFile.                                     *)
(***************************************************************************)
EXTENDS Integers, FiniteSets

CONSTANTS
    Threads,          \* goroutines that call the store
    Flusher,          \* the one that runs runFlusher
    Keys,             \* cache keys (of one zone)
    Entries,          \* CacheEntry objects
    Jobs,             \* the operations the threads other than Flusher run
    DbMayFail,        \* TRUE: a database access may fail
    MaxFlushErrors,   \* 3 in flushToDB
    SizeBound,        \* bound on the size of a file
    WriteSize,        \* the size of the data given to WriteFile
    NoEntry, NoThread, NoKey, NoFile

SingleJobs == {"make", "delete", "append", "replace", "read"}
MultiJobs  == {"flush", "zone", "list"}

ASSUME JobsAssumption  == Jobs \subseteq SingleJobs \cup MultiJobs
ASSUME BoundAssumption == SizeBound \in Nat /\ MaxFlushErrors \in Nat /\ WriteSize \in 0 .. SizeBound
ASSUME NoneAssumption  ==
    /\ NoEntry \notin Entries /\ NoThread \notin Threads
    /\ NoKey \notin Keys /\ NoFile \notin Int
    /\ Flusher \in Threads /\ DbMayFail \in BOOLEAN
ASSUME ThreadsAssumption == IsFiniteSet(Threads)

VARIABLES
    cache,       \* FileStore.Cache: key -> entry or NoEntry
    isFlushing,  \* FileStore.IsFlushing
    heap,        \* entry -> its PinCount, Lock (its holder), File, FlushErrors
    db,          \* key -> the durable file, or NoFile
    pc,          \* thread -> where it is
    job,         \* thread -> the operation it runs
    key,         \* thread -> the key it works on
    ent,         \* thread -> the entry withLock got for it
    todo,        \* thread -> the keys FlushCache, DeleteZone, ListFiles have left
    seen,        \* thread -> the file row a reader has loaded
    was,         \* thread -> its entry was dirty when it locked it
    listed       \* thread -> key -> the result of ListFiles so far

callVars  == <<job, key, ent, todo, seen, was, listed>>
storeVars == <<cache, isFlushing, heap, db>>
vars      == <<cache, isFlushing, heap, db, pc, job, key, ent, todo, seen, was, listed>>

Sizes  == 0 .. SizeBound
Cached == Sizes \cup {NoFile}

\* Where a thread is between its pin and its unpin, and where it holds the lock.
HoldingPcs == {"in", "apply", "clear", "flush", "parts", "unlock"}
PinnedPcs  == {"lock", "unpin"} \cup HoldingPcs
OtherPcs   == {"idle", "collect", "next", "pin"}

Holding(t) == pc[t] \in HoldingPcs
Pinned(t)  == pc[t] \in PinnedPcs

FileOf(t) == heap[ent[t]].file
goto(t, p) == pc' = [pc EXCEPT ![t] = p]
setFile(t, f) == heap' = [heap EXCEPT ![ent[t]].file = f]

\* An object that nothing refers to, such as makeCacheEntry allocates.
Unused(e) == (\A k \in Keys : cache[k] # e) /\ (\A t \in Threads : Pinned(t) => ent[t] # e)

Fresh == [pins |-> 0, owner |-> NoThread, file |-> NoFile, errors |-> 0]

-----------------------------------------------------------------------------
\* Every thread has "v".
All(v) == [t \in Threads |-> v]
NoCache == [k \in Keys |-> NoEntry]
NoFiles == [k \in Keys |-> NoFile]
NewHeap == [e \in Entries |-> Fresh]

Init ==
    /\ cache = NoCache /\ isFlushing = FALSE /\ heap = NewHeap /\ db = NoFiles
    /\ pc = All("idle") /\ job = All("none") /\ key = All(NoKey) /\ ent = All(NoEntry)
    /\ todo = All({}) /\ seen = All(NoFile) /\ was = All(FALSE) /\ listed = All(NoFiles)

\* A call of an operation on one file.
Begin(t, j, k) ==
    /\ pc[t] = "idle" /\ t # Flusher
    /\ goto(t, "pin")
    /\ job' = [job EXCEPT ![t] = j]
    /\ key' = [key EXCEPT ![t] = k]
    /\ UNCHANGED <<storeVars, ent, todo, seen, was, listed>>

\* FlushCache: setUnlessFlushing.  The caller gets an error if a flush runs.
BeginFlush(t) ==
    /\ pc[t] = "idle" /\ ~isFlushing
    /\ isFlushing' = TRUE
    /\ goto(t, "collect")
    /\ job' = [job EXCEPT ![t] = "flush"]
    /\ UNCHANGED <<cache, heap, db, key, ent, todo, seen, was, listed>>

\* As if getDirtyCacheKeys passed over the entries in use.
AppearsUnpinned(k) == {cache[k] # NoEntry /\ heap[cache[k]].file # NoFile /\ heap[cache[k]].pins = 0}

\* getDirtyCacheKeys reads entry.File under the store's lock only, so of an
\* entry that a thread changes just now it may still see the nil or the file
\* that was there when the thread locked it.
Appears(k) ==
    LET e == cache[k] IN
    {e # NoEntry /\ heap[e].file # NoFile}
        \cup {was[u] : u \in {u \in Threads : Pinned(u) /\ ent[u] = e /\ pc[u] # "lock"}}

CollectDirty(t) ==
    /\ pc[t] = "collect"
    /\ \E dirty \in SUBSET Keys :
          /\ \A k \in Keys : (k \in dirty) \in Appears(k)
          /\ todo' = [todo EXCEPT ![t] = dirty]
    /\ goto(t, "next")
    /\ UNCHANGED <<storeVars, job, key, ent, seen, was, listed>>

\* DeleteZone and ListFiles start from the rows of the database.
BeginZone(t, j) ==
    /\ pc[t] = "idle" /\ t # Flusher
    /\ goto(t, "next")
    /\ job' = [job EXCEPT ![t] = j]
    /\ todo' = [todo EXCEPT ![t] = {k \in Keys : db[k] # NoFile}]
    /\ listed' = IF j = "list" THEN [listed EXCEPT ![t] = db] ELSE listed
    /\ UNCHANGED <<storeVars, key, ent, seen, was>>

NextKey(t) ==
    /\ pc[t] = "next"
    /\ \E k \in todo[t] :
          /\ key' = [key EXCEPT ![t] = k]
          /\ todo' = [todo EXCEPT ![t] = @ \ {k}]
    /\ goto(t, "pin")
    /\ UNCHANGED <<storeVars, job, ent, seen, was, listed>>

\* The call returns: what it kept on its stack is gone.
Return(t) ==
    /\ goto(t, "idle")
    /\ job' = [job EXCEPT ![t] = "none"]
    /\ key' = [key EXCEPT ![t] = NoKey]
    /\ ent' = [ent EXCEPT ![t] = NoEntry]
    /\ seen' = [seen EXCEPT ![t] = NoFile]
    /\ was' = [was EXCEPT ![t] = FALSE]
    /\ listed' = [listed EXCEPT ![t] = NoFiles]

\* As if FlushCache did not reset IsFlushing.
FinishStillFlushing(t) ==
    /\ pc[t] = "next" /\ todo[t] = {}
    /\ Return(t)
    /\ UNCHANGED <<cache, isFlushing, heap, db, todo>>

FinishMulti(t) ==
    /\ pc[t] = "next" /\ todo[t] = {}
    /\ isFlushing' = (isFlushing /\ job[t] # "flush")
    /\ Return(t)
    /\ UNCHANGED <<cache, heap, db, todo>>

\* getEntryAndPin
Pin(t) ==
    /\ pc[t] = "pin"
    /\ \/ /\ cache[key[t]] # NoEntry
          /\ heap' = [heap EXCEPT ![cache[key[t]]].pins = @ + 1]
          /\ ent' = [ent EXCEPT ![t] = cache[key[t]]]
          /\ UNCHANGED cache
       \/ /\ cache[key[t]] = NoEntry
          /\ \E e \in {e \in Entries : Unused(e)} :
                /\ heap' = [heap EXCEPT ![e] = [Fresh EXCEPT !.pins = 1]]
                /\ cache' = [cache EXCEPT ![key[t]] = e]
                /\ ent' = [ent EXCEPT ![t] = e]
    /\ goto(t, "lock")
    /\ UNCHANGED <<isFlushing, db, job, key, todo, seen, was, listed>>

Lock(t) ==
    /\ pc[t] = "lock" /\ heap[ent[t]].owner = NoThread
    /\ heap' = [heap EXCEPT ![ent[t]].owner = t]
    /\ was' = [was EXCEPT ![t] = FileOf(t) # NoFile]
    /\ goto(t, "in")
    /\ UNCHANGED <<cache, isFlushing, db, job, key, ent, todo, seen, listed>>

Working(t, j, p) == pc[t] = p /\ job[t] \in j
storeUnchanged == UNCHANGED <<cache, isFlushing>>

\* MakeFile; dbInsertFile fails with ErrExist if the row is there.
Make(t) ==
    /\ Working(t, {"make"}, "in")
    /\ \/ /\ FileOf(t) = NoFile /\ db[key[t]] = NoFile
          /\ db' = [db EXCEPT ![key[t]] = 0]
       \/ /\ FileOf(t) # NoFile \/ db[key[t]] # NoFile \/ DbMayFail
          /\ UNCHANGED db
    /\ goto(t, "unlock")
    /\ storeUnchanged /\ UNCHANGED <<heap, callVars>>

\* DeleteFile: the rows go first, then the entry is cleared.
DeleteRows(t) ==
    /\ Working(t, {"delete", "zone"}, "in")
    /\ \/ /\ db' = [db EXCEPT ![key[t]] = NoFile] /\ goto(t, "clear")
       \/ /\ DbMayFail /\ goto(t, "unlock") /\ UNCHANGED db
    /\ storeUnchanged /\ UNCHANGED <<heap, callVars>>

Cleared(t) == heap' = [heap EXCEPT ![ent[t]].file = NoFile, ![ent[t]].errors = 0]

ClearEntry(t) ==
    /\ pc[t] = "clear"
    /\ Cleared(t)
    /\ goto(t, "unlock")
    /\ storeUnchanged /\ UNCHANGED <<db, callVars>>

\* As if the cache were not asked.
LoadedRow(t)  == db[key[t]]

\* loadFileForRead
LoadedFile(t) == IF FileOf(t) # NoFile THEN FileOf(t) ELSE db[key[t]]

\* loadFileIntoCache, for every operation that writes.
Load(t) ==
    /\ Working(t, {"append", "replace"}, "in")
    /\ \/ /\ LoadedFile(t) # NoFile
          /\ setFile(t, LoadedFile(t))
          /\ goto(t, "apply")
       \/ /\ LoadedFile(t) = NoFile \/ (DbMayFail /\ FileOf(t) = NoFile)
          /\ goto(t, "unlock") /\ UNCHANGED heap
    /\ storeUnchanged /\ UNCHANGED <<db, callVars>>

\* WriteMeta, WriteAt, AppendData, AppendIJson: change the cached file.  They
\* may fail to load the parts they need, after the file itself is cached.
ApplyAppend(t) ==
    /\ Working(t, {"append"}, "apply")
    /\ \/ FileOf(t) < SizeBound /\ setFile(t, FileOf(t) + 1)
       \/ (DbMayFail \/ FileOf(t) = SizeBound) /\ UNCHANGED heap
    /\ goto(t, "unlock")
    /\ storeUnchanged /\ UNCHANGED <<db, callVars>>

\* WriteFile, CompactIJson: replace the content, then flush it at once.
ApplyReplace(t) ==
    /\ Working(t, {"replace"}, "apply")
    /\ setFile(t, WriteSize)
    /\ goto(t, "flush")
    /\ storeUnchanged /\ UNCHANGED <<db, callVars>>

\* As if the count were tested one failure too late.
FlushFailedLate(t) ==
    IF heap[ent[t]].errors <= MaxFlushErrors
    THEN heap' = [heap EXCEPT ![ent[t]].errors = @ + 1]
    ELSE Cleared(t)

\* A failed write to the database is counted; the fourth one drops the data.
FlushFailed(t) ==
    IF heap[ent[t]].errors < MaxFlushErrors
    THEN heap' = [heap EXCEPT ![ent[t]].errors = @ + 1]
    ELSE Cleared(t)

\* flushToDB.  A failed flush ends FlushCache: it returns the error.
FlushToDB(t) ==
    /\ pc[t] = "flush" \/ Working(t, {"flush"}, "in")
    /\ \/ /\ FileOf(t) = NoFile
          /\ UNCHANGED <<heap, db, todo>>
       \/ /\ FileOf(t) # NoFile /\ db[key[t]] # NoFile
          /\ db' = [db EXCEPT ![key[t]] = FileOf(t)]
          /\ Cleared(t)
          /\ UNCHANGED todo
       \/ /\ FileOf(t) # NoFile /\ (db[key[t]] = NoFile \/ DbMayFail)
          /\ todo' = [todo EXCEPT ![t] = {}]
          /\ FlushFailed(t)
          /\ UNCHANGED db
       \/ /\ DbMayFail /\ FileOf(t) # NoFile          \* the context expired
          /\ todo' = [todo EXCEPT ![t] = {}]
          /\ UNCHANGED heap
          /\ \/ UNCHANGED db
             \/ db[key[t]] # NoFile /\ db' = [db EXCEPT ![key[t]] = FileOf(t)]
    /\ goto(t, "unlock")
    /\ storeUnchanged /\ UNCHANGED <<job, key, ent, seen, was, listed>>

\* Stat, ReadAt, ReadFile: loadFileForRead, then the parts of that file.
ReadRow(t) ==
    /\ Working(t, {"read"}, "in")
    /\ seen' = [seen EXCEPT ![t] = LoadedFile(t)]
    /\ goto(t, IF seen'[t] = NoFile THEN "unlock" ELSE "parts")
    /\ storeUnchanged /\ UNCHANGED <<heap, db, job, key, ent, todo, was, listed>>

ReadParts(t) ==
    /\ pc[t] = "parts"
    /\ goto(t, "unlock")
    /\ storeUnchanged /\ UNCHANGED <<heap, db, callVars>>

\* ListFiles prefers a cached file to the row it read.
ListEntry(t) ==
    /\ Working(t, {"list"}, "in")
    /\ listed' = IF FileOf(t) = NoFile THEN listed
                                       ELSE [listed EXCEPT ![t][key[t]] = FileOf(t)]
    /\ goto(t, "unlock")
    /\ storeUnchanged /\ UNCHANGED <<heap, db, job, key, ent, todo, seen, was>>

\* As if an early return missed the unlock.
KeepLocked(t) == pc[t] = "unlock" /\ goto(t, "unpin") /\ UNCHANGED <<storeVars, callVars>>

Unlock(t) ==
    /\ pc[t] = "unlock"
    /\ heap' = [heap EXCEPT ![ent[t]].owner = NoThread]
    /\ goto(t, "unpin")
    /\ UNCHANGED <<cache, isFlushing, db, callVars>>

\* As if the pin count, or the unsaved data, did not matter.
DiscardsPinned(k) == heap[cache[k]].file = NoFile
DiscardsDirty(k)  == heap[cache[k]].pins - 1 <= 0

\* unpinEntryAndTryDelete, which finds the entry by its key.
Discards(k) == heap[cache[k]].pins - 1 <= 0 /\ heap[cache[k]].file = NoFile

Unpin(t) ==
    /\ pc[t] = "unpin"
    /\ LET k == key[t] IN
       IF cache[k] = NoEntry THEN UNCHANGED <<cache, heap>>
       ELSE /\ heap' = [heap EXCEPT ![cache[k]].pins = @ - 1]
            /\ cache' = IF Discards(k) THEN [cache EXCEPT ![k] = NoEntry] ELSE cache
    /\ \/ /\ job[t] \in MultiJobs
          /\ goto(t, "next")
          /\ ent' = [ent EXCEPT ![t] = NoEntry]
          /\ was' = [was EXCEPT ![t] = FALSE]
          /\ UNCHANGED <<job, key, seen, listed>>
       \/ job[t] \in SingleJobs /\ Return(t)
    /\ UNCHANGED <<isFlushing, db, todo>>

\* The process ends: only the database is left.
Crash ==
    /\ cache' = NoCache /\ isFlushing' = FALSE /\ heap' = NewHeap /\ UNCHANGED db
    /\ pc' = All("idle") /\ job' = All("none") /\ key' = All(NoKey) /\ ent' = All(NoEntry)
    /\ todo' = All({}) /\ seen' = All(NoFile) /\ was' = All(FALSE) /\ listed' = All(NoFiles)

-----------------------------------------------------------------------------
Work(t) ==
    \/ Make(t) \/ DeleteRows(t) \/ ClearEntry(t) \/ Load(t) \/ ApplyAppend(t)
    \/ ApplyReplace(t) \/ FlushToDB(t) \/ ReadRow(t) \/ ReadParts(t) \/ ListEntry(t)

\* What a thread does by itself once its call has begun.
Step(t) ==
    \/ CollectDirty(t) \/ NextKey(t) \/ FinishMulti(t) \/ Pin(t) \/ Lock(t)
    \/ Work(t) \/ Unlock(t) \/ Unpin(t)

Call(t) ==
    \/ \E j \in Jobs \cap SingleJobs, k \in Keys : Begin(t, j, k)
    \/ \E j \in Jobs \cap {"zone", "list"} : BeginZone(t, j)
    \/ (t = Flusher \/ "flush" \in Jobs) /\ BeginFlush(t)

Next == (\E t \in Threads : Call(t) \/ Step(t)) \/ Crash

Spec == Init /\ [][Next]_vars

\* Goroutines are scheduled; a sync.Mutex does not starve a waiter (it turns to
\* FIFO after 1 ms); runFlusher calls FlushCache again and again.
Fairness ==
    /\ \A t \in Threads : WF_vars(Step(t)) /\ SF_vars(Lock(t))
    /\ SF_vars(BeginFlush(Flusher))

FairSpec == Spec /\ Fairness

-----------------------------------------------------------------------------
(* Properties                                                              *)

\* What a reader of file "k" sees: the cached file, or the row.  A file whose
\* row is gone is gone, although its entry is about to be cleared.
Dirty(k)   == cache[k] # NoEntry /\ heap[cache[k]].file # NoFile
Content(k) == IF db[k] # NoFile /\ Dirty(k) THEN heap[cache[k]].file ELSE db[k]
Fails(k)   == IF db[k] # NoFile /\ Dirty(k) THEN heap[cache[k]].errors ELSE 0

TypeOK ==
    /\ cache \in [Keys -> Entries \cup {NoEntry}]
    /\ isFlushing \in BOOLEAN
    /\ heap \in [Entries -> [pins : Nat, owner : Threads \cup {NoThread},
                             file : Cached, errors : 0 .. MaxFlushErrors]]
    /\ db \in [Keys -> Cached]
    /\ pc \in [Threads -> PinnedPcs \cup OtherPcs]
    /\ job \in [Threads -> SingleJobs \cup MultiJobs \cup {"none"}]
    /\ key \in [Threads -> Keys \cup {NoKey}]
    /\ ent \in [Threads -> Entries \cup {NoEntry}]
    /\ todo \in [Threads -> SUBSET Keys]
    /\ seen \in [Threads -> Cached]
    /\ was \in [Threads -> BOOLEAN]
    /\ listed \in [Threads -> [Keys -> Cached]]

\* Two threads never work on one file at once, whichever entry object each
\* of them got from the cache.
OneThreadPerFile ==
    \A t, u \in Threads : Holding(t) /\ Holding(u) /\ key[t] = key[u] => t = u

\* A thread works on the entry that the cache has for its key, from its pin to
\* its unpin: nobody discards the entry under it, and no write goes astray.
PinnedStaysCached ==
    \A t \in Threads : Pinned(t) => cache[key[t]] = ent[t]

\* An entry with unsaved data is in the cache, where the flusher finds it, and
\* an entry that nobody uses is clean and unlocked.
DirtyStaysCached ==
    \A e \in Entries : Unused(e) => heap[e].file = NoFile /\ heap[e].owner = NoThread

\* Reads of the row and of the parts belong to one state of the file.
ReadsAreWhole ==
    \A t \in Threads : pc[t] = "parts" => seen[t] = Content(key[t])

\* Every operation takes effect at one moment, none is lost, and a flush writes
\* what readers see.
Promise == INSTANCE Files WITH content <- [k \in Keys |-> Content(k)], durable <- db,
                               fails <- [k \in Keys |-> Fails(k)]
ImplementsFiles == Promise!Spec

\* Every call returns, whatever the others do.
CallsReturn == \A t \in Threads : pc[t] # "idle" ~> pc[t] = "idle"

\* What is only in the cache is saved (or replaced, or deleted) in the end,
\* although a FlushCache that meets another one gives up.
DirtyIsFlushed == \A k \in Keys : Dirty(k) ~> ~Dirty(k)
=============================================================================
