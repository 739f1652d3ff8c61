----------------------- MODULE FileStoreBrokerProofs -----------------------
(***************************************************************************)
(* Proofs about FileStore, for any number of threads, files and entry      *)
(* objects, and about BrokerHistory, for any routes, types, scopes,        *)
(* patterns and publishers, any size of the history and any number of      *)
(* events.  The two share no variable; what both have is named for the     *)
(* broker or its history in its part.                                      *)
(***************************************************************************)
EXTENDS FileStore, BrokerHistory, FiniteSetTheorems, SequenceTheorems, TLAPS

-----------------------------------------------------------------------------
(* FileStore.  The pin count of a cached entry is the number of threads    *)
(* that pin it, hence nobody discards an entry in use, hence one lock      *)
(* guards each file.                                                       *)

EntryType == [pins : Nat, owner : Threads \cup {NoThread},
              file : Cached, errors : 0 .. MaxFlushErrors]

KeyInv ==
    \A t \in Threads :
        /\ pc[t] = "pin" \/ Pinned(t) => key[t] \in Keys
        /\ Pinned(t) => ent[t] \in Entries

\* The cache has an entry under one key only.
Injective ==
    \A k, l \in Keys : cache[k] = cache[l] /\ cache[k] # NoEntry => k = l

PinnedOn(k) == {t \in Threads : Pinned(t) /\ key[t] = k}

PinCounts ==
    \A k \in Keys : cache[k] # NoEntry => heap[cache[k]].pins = Cardinality(PinnedOn(k))

OwnerInv ==
    \A e \in Entries, t \in Threads :
        heap[e].owner = t <=> Holding(t) /\ ent[t] = e

InCache(e) == \E k \in Keys : cache[k] = e

CleanInv ==
    \A e \in Entries : ~InCache(e) => heap[e].file = NoFile /\ heap[e].owner = NoThread

LockInv == KeyInv /\ PinnedStaysCached /\ Injective /\ PinCounts /\ OwnerInv /\ CleanInv

\* A thread about to change the file has it in the cache.
ApplyInv == \A t \in Threads : pc[t] = "apply" => FileOf(t) # NoFile

IInv == TypeOK /\ LockInv /\ ApplyInv

LEMMA PinnedOnFinite ==
    ASSUME NEW k
    PROVE  IsFiniteSet(PinnedOn(k)) /\ Cardinality(PinnedOn(k)) \in Nat
<1>1. PinnedOn(k) \subseteq Threads  BY DEF PinnedOn
<1> QED  BY <1>1, ThreadsAssumption, FS_Subset, FS_CardinalityType

LEMMA PinnedOnZero ==
    ASSUME NEW k, NEW t \in Threads, Pinned(t), key[t] = k
    PROVE  /\ Cardinality(PinnedOn(k)) >= 1
           /\ Cardinality(PinnedOn(k)) <= 1 => PinnedOn(k) = {t}
<1>1. t \in PinnedOn(k)  BY DEF PinnedOn
<1>2. Cardinality(PinnedOn(k) \ {t}) = Cardinality(PinnedOn(k)) - 1
  BY <1>1, PinnedOnFinite, FS_RemoveElement
<1>3. IsFiniteSet(PinnedOn(k) \ {t}) /\ Cardinality(PinnedOn(k) \ {t}) \in Nat
  BY PinnedOnFinite, FS_RemoveElement, FS_CardinalityType
<1>4. Cardinality(PinnedOn(k)) <= 1 => PinnedOn(k) \ {t} = {}
  BY <1>2, <1>3, PinnedOnFinite, FS_EmptySet
<1> QED  BY <1>1, <1>2, <1>3, <1>4, PinnedOnFinite

\* A step that neither pins nor unpins nor moves the ownership of an entry.
LEMMA QuietKeepsLocks ==
    ASSUME TypeOK, LockInv, cache' = cache,
           \A t \in Threads : /\ Pinned(t)' <=> Pinned(t)
                              /\ Holding(t)' <=> Holding(t)
                              /\ Pinned(t) => key'[t] = key[t] /\ ent'[t] = ent[t]
                              /\ pc'[t] = "pin" => key'[t] \in Keys,
           \A e \in Entries : /\ heap'[e].pins = heap[e].pins
                              /\ heap'[e].owner = heap[e].owner
                              /\ ~InCache(e) => heap'[e].file = heap[e].file
    PROVE  LockInv'
<1>0. \A t \in Threads : Holding(t) => Pinned(t)
  BY DEF Holding, Pinned, PinnedPcs
<1>1. KeyInv'  BY DEF LockInv, KeyInv
<1>2. PinnedStaysCached'  BY DEF LockInv, PinnedStaysCached
<1>3. Injective'  BY DEF LockInv, Injective
<1>4. PinCounts'
  <2>1. \A k : PinnedOn(k)' = PinnedOn(k)  BY DEF PinnedOn
  <2> QED  BY <2>1 DEF LockInv, PinCounts, TypeOK
<1>5. OwnerInv'  BY <1>0 DEF LockInv, OwnerInv
<1>6. CleanInv'
  <2>1. \A e : InCache(e)' <=> InCache(e)  BY DEF InCache
  <2> QED  BY <2>1 DEF LockInv, CleanInv
<1> QED  BY <1>1, <1>2, <1>3, <1>4, <1>5, <1>6 DEF LockInv

\* A step of a thread that works under the lock of its entry.
LEMMA WorkKeepsLocks ==
    ASSUME TypeOK, LockInv, NEW t \in Threads, Holding(t),
           NEW p \in HoldingPcs, goto(t, p),
           cache' = cache, key' = key, ent' = ent,
           \A e \in Entries : /\ heap'[e].pins = heap[e].pins
                              /\ heap'[e].owner = heap[e].owner
                              /\ e # ent[t] => heap'[e].file = heap[e].file
    PROVE  LockInv'
<1>1. Pinned(t)  BY DEF Holding, Pinned, PinnedPcs
<1>2. InCache(ent[t])
  BY <1>1 DEF InCache, LockInv, PinnedStaysCached, KeyInv
<1>3. \A u \in Threads : /\ pc'[u] = IF u = t THEN p ELSE pc[u]
  BY DEF goto, TypeOK
<1>4. \A u \in Threads : /\ Pinned(u)' <=> Pinned(u)
                         /\ Holding(u)' <=> Holding(u)
                         /\ pc'[u] = "pin" => key[u] \in Keys
  BY <1>1, <1>3 DEF Holding, Pinned, PinnedPcs, HoldingPcs, LockInv, KeyInv
<1> QED  BY <1>2, <1>4, QuietKeepsLocks

-----------------------------------------------------------------------------
(* Types                                                                   *)

LEMMA HeapField ==
    ASSUME TypeOK, NEW e \in Entries
    PROVE  /\ \A n \in Nat : [heap EXCEPT ![e].pins = n] \in [Entries -> EntryType]
           /\ \A u \in Threads \cup {NoThread} :
                 [heap EXCEPT ![e].owner = u] \in [Entries -> EntryType]
           /\ \A f \in Cached : [heap EXCEPT ![e].file = f] \in [Entries -> EntryType]
           /\ [heap EXCEPT ![e].file = NoFile, ![e].errors = 0] \in [Entries -> EntryType]
           /\ heap[e].errors < MaxFlushErrors =>
                 [heap EXCEPT ![e].errors = @ + 1] \in [Entries -> EntryType]
<1>0. heap \in [Entries -> EntryType] /\ heap[e] \in EntryType
  BY DEF TypeOK, EntryType
<1>1. NoFile \in Cached /\ 0 \in 0 .. MaxFlushErrors
  BY BoundAssumption DEF Cached
<1>2. heap[e].errors < MaxFlushErrors => heap[e].errors + 1 \in 0 .. MaxFlushErrors
  BY <1>0, BoundAssumption DEF EntryType
<1> QED  BY <1>0, <1>1, <1>2 DEF EntryType

LEMMA InitialTypes ==
    /\ NoCache \in [Keys -> Entries \cup {NoEntry}]
    /\ NewHeap \in [Entries -> EntryType]
    /\ Fresh \in EntryType
    /\ NoFiles \in [Keys -> Cached]
BY BoundAssumption DEF NoCache, NewHeap, Fresh, EntryType, NoFiles, Cached

LEMMA WorkTypes ==
    ASSUME TypeOK, LockInv, ApplyInv, NEW t \in Threads, Work(t)
    PROVE  TypeOK'
<1>0. Holding(t) => /\ key[t] \in Keys /\ ent[t] \in Entries
                    /\ FileOf(t) \in Cached /\ db[key[t]] \in Cached
                    /\ heap[ent[t]].errors \in 0 .. MaxFlushErrors
  BY DEF Holding, Pinned, PinnedPcs, LockInv, KeyInv, TypeOK, FileOf
<1>1. pc[t] \in {"in", "apply", "clear", "flush", "parts"} => Holding(t)
  BY DEF Holding, HoldingPcs
<1>2. NoFile \in Cached /\ 0 \in Cached /\ WriteSize \in Cached
  BY BoundAssumption DEF Cached, Sizes
<1>3. ASSUME Make(t) PROVE TypeOK'
  <2>0. key[t] \in Keys
    BY <1>0, <1>1, <1>3 DEF Make, Working
  <2>1. db' \in [Keys -> Cached]
    BY <2>0, <1>2, <1>3 DEF Make, TypeOK
  <2> QED  BY <1>3, <2>1
      DEF TypeOK, Make, goto, storeUnchanged, callVars, PinnedPcs, HoldingPcs, OtherPcs
<1>4. ASSUME DeleteRows(t) PROVE TypeOK'
  <2>0. key[t] \in Keys
    BY <1>0, <1>1, <1>4 DEF DeleteRows, Working
  <2>1. db' \in [Keys -> Cached]
    BY <2>0, <1>2, <1>4 DEF DeleteRows, TypeOK
  <2> QED  BY <1>4, <2>1
      DEF TypeOK, DeleteRows, goto, storeUnchanged, callVars, PinnedPcs, HoldingPcs, OtherPcs
<1>5. ASSUME ClearEntry(t) PROVE TypeOK'
  BY <1>0, <1>1, <1>5, HeapField
     DEF TypeOK, EntryType, ClearEntry, Cleared, goto, storeUnchanged, callVars, PinnedPcs, HoldingPcs, OtherPcs
<1>6. ASSUME Load(t) PROVE TypeOK'
  <2>1. LoadedFile(t) \in Cached
    BY <1>0, <1>1, <1>6 DEF Load, Working, LoadedFile
  <2>2. heap' \in [Entries -> EntryType]
    <3>1. heap \in [Entries -> EntryType] /\ ent[t] \in Entries
      BY <1>0, <1>1, <1>6 DEF Load, Working, TypeOK, EntryType
    <3>2. [heap EXCEPT ![ent[t]].file = LoadedFile(t)] \in [Entries -> EntryType]
      BY <2>1, <3>1, HeapField
    <3> QED  BY <1>6, <3>1, <3>2 DEF Load, setFile
  <2> QED  BY <1>6, <2>2
      DEF TypeOK, EntryType, Load, goto, storeUnchanged, callVars, PinnedPcs, HoldingPcs, OtherPcs
<1>7. ASSUME ApplyAppend(t) PROVE TypeOK'
  <2>0. Holding(t) /\ FileOf(t) \in Sizes
    BY <1>0, <1>1, <1>7 DEF ApplyAppend, Working, ApplyInv, Cached
  <2>1. FileOf(t) < SizeBound => FileOf(t) + 1 \in Cached
    BY <2>0, BoundAssumption DEF Sizes, Cached
  <2>2. FileOf(t) < SizeBound => [heap EXCEPT ![ent[t]].file = FileOf(t) + 1] \in [Entries -> EntryType]
    BY <1>0, <2>0, <2>1, HeapField
  <2>3. heap' \in [Entries -> EntryType]
    BY <1>7, <2>2 DEF ApplyAppend, setFile, TypeOK, EntryType
  <2> QED  BY <1>7, <2>3
      DEF TypeOK, EntryType, ApplyAppend, goto, storeUnchanged, callVars, PinnedPcs, HoldingPcs, OtherPcs
<1>8. ASSUME ApplyReplace(t) PROVE TypeOK'
  BY <1>0, <1>1, <1>2, <1>8, HeapField
     DEF TypeOK, EntryType, ApplyReplace, Working, setFile, goto, storeUnchanged, callVars, PinnedPcs, HoldingPcs, OtherPcs
<1>9. ASSUME FlushToDB(t) PROVE TypeOK'
  <2>0. Holding(t)
    BY <1>1, <1>9 DEF FlushToDB, Working
  <2>1. heap' \in [Entries -> EntryType]
    <3>1. heap \in [Entries -> EntryType] /\ ent[t] \in Entries
      BY <1>0, <2>0 DEF TypeOK, EntryType
    <3>2. Cleared(t) => heap' \in [Entries -> EntryType]
      <4>1. [heap EXCEPT ![ent[t]].file = NoFile, ![ent[t]].errors = 0] \in [Entries -> EntryType]
        BY <3>1, HeapField
      <4> QED  BY <4>1 DEF Cleared
    <3>3. FlushFailed(t) => heap' \in [Entries -> EntryType]
      <4>1. heap[ent[t]].errors < MaxFlushErrors =>
               [heap EXCEPT ![ent[t]].errors = @ + 1] \in [Entries -> EntryType]
        BY <3>1, HeapField
      <4>2. CASE heap[ent[t]].errors < MaxFlushErrors
        BY <4>1, <4>2 DEF FlushFailed
      <4>3. CASE ~(heap[ent[t]].errors < MaxFlushErrors)
        BY <3>2, <4>3 DEF FlushFailed
      <4> QED  BY <4>2, <4>3
    <3> QED  BY <1>9, <3>1, <3>2, <3>3 DEF FlushToDB
  <2>2. db' \in [Keys -> Cached]
    BY <1>0, <2>0, <1>9 DEF FlushToDB, TypeOK
  <2>3. todo' \in [Threads -> SUBSET Keys]
    BY <1>9 DEF FlushToDB, TypeOK
  <2> QED  BY <1>9, <2>1, <2>2, <2>3
      DEF TypeOK, EntryType, FlushToDB, goto, storeUnchanged, PinnedPcs, HoldingPcs, OtherPcs
<1>10. ASSUME ReadRow(t) PROVE TypeOK'
  <2>1. LoadedFile(t) \in Cached
    BY <1>0, <1>1, <1>10 DEF ReadRow, Working, LoadedFile
  <2> QED  BY <1>10, <2>1
      DEF TypeOK, ReadRow, goto, storeUnchanged, PinnedPcs, HoldingPcs, OtherPcs
<1>11. ASSUME ReadParts(t) PROVE TypeOK'
  BY <1>11 DEF TypeOK, ReadParts, goto, storeUnchanged, callVars, PinnedPcs, HoldingPcs, OtherPcs
<1>12. ASSUME ListEntry(t) PROVE TypeOK'
  BY <1>0, <1>1, <1>12
     DEF TypeOK, ListEntry, Working, goto, storeUnchanged, PinnedPcs, HoldingPcs, OtherPcs
<1> QED  BY <1>3, <1>4, <1>5, <1>6, <1>7, <1>8, <1>9, <1>10, <1>11, <1>12 DEF Work

LEMMA WorkLocks ==
    ASSUME TypeOK, LockInv, NEW t \in Threads, Work(t)
    PROVE  LockInv'
<1>0. pc[t] \in {"in", "apply", "clear", "flush", "parts"} => Holding(t)
  BY DEF Holding, HoldingPcs
<1>1. Holding(t) => ent[t] \in Entries
  BY DEF Holding, Pinned, PinnedPcs, LockInv, KeyInv
<1>2. Holding(t) /\ \E p \in HoldingPcs : goto(t, p)
  BY <1>0 DEF Work, Make, DeleteRows, ClearEntry, Load, ApplyAppend, ApplyReplace, FlushToDB,
              ReadRow, ReadParts, ListEntry, Working, HoldingPcs
<1>3. cache' = cache /\ key' = key /\ ent' = ent
  BY DEF Work, Make, DeleteRows, ClearEntry, Load, ApplyAppend, ApplyReplace, FlushToDB,
         ReadRow, ReadParts, ListEntry, storeUnchanged, callVars
<1>4. \/ UNCHANGED heap \/ Cleared(t) \/ (\E f : setFile(t, f))
      \/ heap' = [heap EXCEPT ![ent[t]].errors = @ + 1]
  BY DEF Work, Make, DeleteRows, ClearEntry, Load, ApplyAppend, ApplyReplace, FlushToDB, FlushFailed,
         ReadRow, ReadParts, ListEntry, callVars
<1>5. \A e \in Entries : /\ heap'[e].pins = heap[e].pins
                         /\ heap'[e].owner = heap[e].owner
                         /\ e # ent[t] => heap'[e].file = heap[e].file
  BY <1>1, <1>2, <1>4 DEF Cleared, setFile, TypeOK
<1> QED  BY <1>2, <1>3, <1>5, WorkKeepsLocks

-----------------------------------------------------------------------------
(* The steps around the work                                               *)

LEMMA CallSteps ==
    ASSUME IInv, NEW t \in Threads, Call(t)
    PROVE  IInv'
<1>1. TypeOK' /\ ApplyInv'
  <2>1. ASSUME NEW j \in Jobs \cap SingleJobs, NEW k \in Keys, Begin(t, j, k)
        PROVE  TypeOK' /\ ApplyInv'
    BY <2>1 DEF IInv, TypeOK, ApplyInv, FileOf, Begin, goto, storeVars, PinnedPcs, HoldingPcs, OtherPcs
  <2>2. ASSUME NEW j \in Jobs \cap {"zone", "list"}, BeginZone(t, j)
        PROVE  TypeOK' /\ ApplyInv'
    BY <2>2 DEF IInv, TypeOK, ApplyInv, FileOf, BeginZone, goto, storeVars, PinnedPcs, HoldingPcs, OtherPcs,
                MultiJobs
  <2>3. ASSUME BeginFlush(t)
        PROVE  TypeOK' /\ ApplyInv'
    BY <2>3 DEF IInv, TypeOK, ApplyInv, FileOf, BeginFlush, goto, PinnedPcs, HoldingPcs, OtherPcs, MultiJobs
  <2> QED  BY <2>1, <2>2, <2>3 DEF Call
<1>2. LockInv'
  <2>1. cache' = cache /\ heap' = heap /\ ent' = ent
    BY DEF Call, Begin, BeginZone, BeginFlush, storeVars
  <2>2. pc[t] = "idle" /\ pc' \in {[pc EXCEPT ![t] = p] : p \in {"pin", "collect", "next"}}
    BY DEF Call, Begin, BeginZone, BeginFlush, goto
  <2>3. \A u \in Threads : u # t => key'[u] = key[u]
    BY DEF Call, Begin, BeginZone, BeginFlush, IInv, TypeOK
  <2>4. pc'[t] = "pin" => key'[t] \in Keys
    BY DEF Call, Begin, BeginZone, BeginFlush, goto, IInv, TypeOK
  <2>5. \A u \in Threads : /\ Pinned(u)' <=> Pinned(u)
                           /\ Holding(u)' <=> Holding(u)
                           /\ Pinned(u) => u # t
                           /\ pc'[u] = "pin" => key'[u] \in Keys
    BY <2>2, <2>3, <2>4 DEF IInv, TypeOK, Pinned, Holding, PinnedPcs, HoldingPcs, LockInv, KeyInv
  <2> QED  BY <2>1, <2>3, <2>5, QuietKeepsLocks DEF IInv
<1> QED  BY <1>1, <1>2 DEF IInv

\* The steps of FlushCache, DeleteZone and ListFiles between two files.
LEMMA BetweenSteps ==
    ASSUME IInv, NEW t \in Threads, CollectDirty(t) \/ NextKey(t) \/ FinishMulti(t)
    PROVE  IInv'
<1>0. NoFile \in Cached /\ NoFiles \in [Keys -> Cached]
  BY InitialTypes DEF Cached
<1>1. TypeOK' /\ ApplyInv'
  <2>1. ASSUME CollectDirty(t) PROVE TypeOK' /\ ApplyInv'
    BY <2>1 DEF IInv, TypeOK, ApplyInv, FileOf, CollectDirty, goto, storeVars, PinnedPcs, HoldingPcs, OtherPcs
  <2>2. ASSUME NextKey(t) PROVE TypeOK' /\ ApplyInv'
    BY <2>2 DEF IInv, TypeOK, ApplyInv, FileOf, NextKey, goto, storeVars, PinnedPcs, HoldingPcs, OtherPcs
  <2>3. ASSUME FinishMulti(t) PROVE TypeOK' /\ ApplyInv'
    BY <1>0, <2>3 DEF IInv, TypeOK, ApplyInv, FileOf, FinishMulti, Return, goto, PinnedPcs, HoldingPcs, OtherPcs
  <2> QED  BY <2>1, <2>2, <2>3
<1>2. LockInv'
  <2>1. cache' = cache /\ heap' = heap
    BY DEF CollectDirty, NextKey, FinishMulti, storeVars
  <2>2. /\ pc[t] \in {"collect", "next"}
        /\ pc' \in {[pc EXCEPT ![t] = p] : p \in {"pin", "next", "idle"}}
    BY DEF CollectDirty, NextKey, FinishMulti, Return, goto
  <2>3. \A u \in Threads : u # t => key'[u] = key[u] /\ ent'[u] = ent[u]
    BY DEF CollectDirty, NextKey, FinishMulti, Return, IInv, TypeOK
  <2>4. pc'[t] = "pin" => key'[t] \in Keys
    BY DEF CollectDirty, NextKey, FinishMulti, Return, goto, IInv, TypeOK
  <2>5. \A u \in Threads : /\ Pinned(u)' <=> Pinned(u)
                           /\ Holding(u)' <=> Holding(u)
                           /\ Pinned(u) => u # t
                           /\ pc'[u] = "pin" => key'[u] \in Keys
    BY <2>2, <2>3, <2>4 DEF IInv, TypeOK, Pinned, Holding, PinnedPcs, HoldingPcs, LockInv, KeyInv
  <2> QED  BY <2>1, <2>3, <2>5, QuietKeepsLocks DEF IInv
<1> QED  BY <1>1, <1>2 DEF IInv

LEMMA LockSteps ==
    ASSUME IInv, NEW t \in Threads, Lock(t) \/ Unlock(t)
    PROVE  IInv'
<1>0. /\ Pinned(t) /\ key[t] \in Keys /\ ent[t] \in Entries
      /\ heap \in [Entries -> EntryType] /\ cache[key[t]] = ent[t]
  BY DEF Lock, Unlock, IInv, LockInv, KeyInv, PinnedStaysCached, Pinned, PinnedPcs, HoldingPcs, TypeOK, EntryType
<1>1. \E u \in {t, NoThread} : heap' = [heap EXCEPT ![ent[t]].owner = u]
  BY DEF Lock, Unlock
<1>2. \A e \in Entries : /\ heap'[e].pins = heap[e].pins /\ heap'[e].file = heap[e].file
                         /\ heap'[e].owner = IF e = ent[t] THEN (IF Lock(t) THEN t ELSE NoThread)
                                             ELSE heap[e].owner
  BY <1>0, NoneAssumption DEF Lock, Unlock, EntryType
<1>3. \A u \in Threads : pc'[u] = IF u = t THEN (IF Lock(t) THEN "in" ELSE "unpin") ELSE pc[u]
  BY DEF Lock, Unlock, goto, IInv, TypeOK
<1>4. cache' = cache /\ key' = key /\ ent' = ent
  BY DEF Lock, Unlock, callVars
<1>5. TypeOK'
  <2>1. heap' \in [Entries -> EntryType]
    <3>1. \A u \in {t, NoThread} : [heap EXCEPT ![ent[t]].owner = u] \in [Entries -> EntryType]
      BY <1>0, HeapField DEF IInv
    <3> QED  BY <1>1, <3>1
  <2> QED  BY <2>1
      DEF IInv, TypeOK, EntryType, Lock, Unlock, goto, callVars, PinnedPcs, HoldingPcs, OtherPcs
<1>6. ApplyInv'
  <2>1. \A u \in Threads : pc[u] = "apply" => ent[u] \in Entries
    BY DEF IInv, LockInv, KeyInv, Pinned, PinnedPcs, HoldingPcs
  <2> QED  BY <1>2, <1>3, <1>4, <2>1 DEF ApplyInv, FileOf, IInv
<1>7. LockInv'
  <2>1. \A u \in Threads : /\ Pinned(u)' <=> Pinned(u)
                           /\ pc'[u] = "pin" <=> pc[u] = "pin"
    BY <1>0, <1>3 DEF Pinned, PinnedPcs, HoldingPcs
  <2>2. KeyInv' /\ PinnedStaysCached' /\ Injective'
    BY <1>4, <2>1 DEF IInv, LockInv, KeyInv, PinnedStaysCached, Injective
  <2>3. PinCounts'
    <3>1. \A k : PinnedOn(k)' = PinnedOn(k)  BY <1>4, <2>1 DEF PinnedOn
    <3> QED  BY <1>2, <1>4, <3>1 DEF IInv, LockInv, PinCounts, TypeOK
  <2>4. OwnerInv'
    <3>1. CASE Lock(t)
      BY <1>0, <1>2, <1>3, <1>4, <3>1, NoneAssumption
         DEF Lock, IInv, LockInv, OwnerInv, Holding, HoldingPcs
    <3>2. CASE ~Lock(t)
      BY <1>0, <1>2, <1>3, <1>4, <3>2, NoneAssumption
         DEF Unlock, IInv, LockInv, OwnerInv, Holding, HoldingPcs
    <3> QED  BY <3>1, <3>2
  <2>5. CleanInv'
    BY <1>0, <1>2, <1>4 DEF IInv, LockInv, CleanInv, InCache
  <2> QED  BY <2>2, <2>3, <2>4, <2>5 DEF LockInv
<1> QED  BY <1>5, <1>6, <1>7 DEF IInv

LEMMA PinStep ==
    ASSUME IInv, NEW t \in Threads, Pin(t)
    PROVE  IInv'
<1>0. /\ key[t] \in Keys /\ ~Pinned(t) /\ ~Holding(t) /\ pc[t] = "pin"
      /\ heap \in [Entries -> EntryType] /\ cache \in [Keys -> Entries \cup {NoEntry}]
      /\ ent \in [Threads -> Entries \cup {NoEntry}]
  BY DEF Pin, IInv, LockInv, KeyInv, Pinned, Holding, PinnedPcs, HoldingPcs, TypeOK, EntryType
<1>k. PICK k \in Keys : k = key[t]
  BY <1>0
<1>1. PICK e \in Entries :
         /\ ent' = [ent EXCEPT ![t] = e]
         /\ \/ /\ cache[k] = e
               /\ heap' = [heap EXCEPT ![e].pins = @ + 1]
               /\ cache' = cache
            \/ /\ cache[k] = NoEntry /\ Unused(e)
               /\ heap' = [heap EXCEPT ![e] = [Fresh EXCEPT !.pins = 1]]
               /\ cache' = [cache EXCEPT ![k] = e]
  BY <1>0, <1>k DEF Pin
<1>2. /\ key' = key /\ goto(t, "lock")
      /\ \A u \in Threads : pc'[u] = IF u = t THEN "lock" ELSE pc[u]
      /\ \A u \in Threads : ent'[u] = IF u = t THEN e ELSE ent[u]
  BY <1>0, <1>1 DEF Pin, goto, IInv, TypeOK
<1>3. /\ cache'[k] = e
      /\ \A l \in Keys : l # k => cache'[l] = cache[l]
  BY <1>0, <1>1
<1>4. cache[k] = NoEntry => ~InCache(e)
  BY <1>1, NoneAssumption DEF Unused, InCache
<1>5. \A l \in Keys : l # k => cache[l] # e
  BY <1>0, <1>1, <1>4, NoneAssumption DEF IInv, LockInv, Injective, InCache
<1>6. \A x \in Entries : x # e => heap'[x] = heap[x]
  BY <1>0, <1>1
<1>7. /\ heap'[e].owner = heap[e].owner /\ heap'[e].file = heap[e].file
      /\ heap'[e].pins = IF cache[k] = NoEntry THEN 1 ELSE heap[e].pins + 1
      /\ heap'[e] \in EntryType
  <2>1. CASE cache[k] = NoEntry
    <3>1. heap'[e] = [pins |-> 1, owner |-> NoThread, file |-> NoFile, errors |-> 0]
      BY <1>0, <1>1, <2>1, NoneAssumption DEF Fresh
    <3>2. heap[e].owner = NoThread /\ heap[e].file = NoFile
      BY <1>4, <2>1 DEF IInv, LockInv, CleanInv
    <3> QED  BY <2>1, <3>1, <3>2, BoundAssumption DEF EntryType, Cached
  <2>2. CASE cache[k] # NoEntry
    <3>1. heap'[e] = [heap[e] EXCEPT !.pins = @ + 1]
      BY <1>0, <1>1, <2>2
    <3> QED  BY <1>0, <2>2, <3>1 DEF EntryType
  <2> QED  BY <2>1, <2>2
<1>8. \A u \in Threads : /\ Pinned(u)' <=> (Pinned(u) \/ u = t)
                         /\ Holding(u)' <=> Holding(u)
  BY <1>0, <1>2 DEF Pinned, Holding, PinnedPcs, HoldingPcs
<1>9. TypeOK'
  <2>1. heap' \in [Entries -> EntryType]
    BY <1>0, <1>1, <1>6, <1>7
  <2>2. cache' \in [Keys -> Entries \cup {NoEntry}] /\ ent' \in [Threads -> Entries \cup {NoEntry}]
    BY <1>0, <1>1
  <2> QED  BY <2>1, <2>2 DEF IInv, TypeOK, EntryType, Pin, goto, PinnedPcs
<1>10. ApplyInv'
  <2>1. \A u \in Threads : pc'[u] = "apply" => u # t /\ pc[u] = "apply" /\ ent'[u] = ent[u] /\ ent[u] \in Entries
    BY <1>2 DEF IInv, LockInv, KeyInv, Pinned, PinnedPcs, HoldingPcs
  <2>2. \A x \in Entries : heap'[x].file = heap[x].file
    BY <1>6, <1>7
  <2> QED  BY <2>1, <2>2 DEF IInv, ApplyInv, FileOf
<1>11. KeyInv'
  BY <1>0, <1>2, <1>8 DEF IInv, LockInv, KeyInv
<1>12. PinnedStaysCached'
  <2>1. ASSUME NEW u \in Threads, Pinned(u), key[u] = k PROVE cache[k] = e
    <3>1. cache[k] = ent[u] /\ ent[u] \in Entries
      BY <2>1 DEF IInv, LockInv, KeyInv, PinnedStaysCached
    <3> QED  BY <1>1, <3>1, NoneAssumption
  <2>2. ASSUME NEW u \in Threads, Pinned(u), u # t PROVE cache'[key[u]] = ent[u]
    <3>1. cache[key[u]] = ent[u] /\ key[u] \in Keys
      BY <2>2 DEF IInv, LockInv, KeyInv, PinnedStaysCached
    <3> QED  BY <1>3, <2>1, <2>2, <3>1
  <2> QED  BY <1>k, <1>2, <1>3, <1>8, <2>2 DEF PinnedStaysCached
<1>13. Injective'
  BY <1>3, <1>5 DEF IInv, LockInv, Injective
<1>14. PinCounts'
  <2>1. PinnedOn(k)' = PinnedOn(k) \cup {t}
    BY <1>k, <1>2, <1>8 DEF PinnedOn
  <2>2. \A l \in Keys : l # k => PinnedOn(l)' = PinnedOn(l)
    BY <1>k, <1>2, <1>8 DEF PinnedOn
  <2>3. Cardinality(PinnedOn(k)') = Cardinality(PinnedOn(k)) + 1
    <3>1. t \notin PinnedOn(k)  BY <1>0 DEF PinnedOn
    <3> QED  BY <2>1, <3>1, PinnedOnFinite, FS_AddElement
  <2>4. cache[k] = NoEntry => Cardinality(PinnedOn(k)) = 0
    <3>1. ASSUME cache[k] = NoEntry, NEW u \in PinnedOn(k) PROVE FALSE
      BY <3>1, NoneAssumption DEF PinnedOn, IInv, LockInv, KeyInv, PinnedStaysCached
    <3> QED  BY <3>1, FS_EmptySet
  <2>5. heap'[e].pins = Cardinality(PinnedOn(k)')
    BY <1>1, <1>7, <2>3, <2>4, NoneAssumption DEF IInv, LockInv, PinCounts
  <2>6. ASSUME NEW l \in Keys, l # k, cache'[l] # NoEntry
        PROVE  heap'[cache'[l]].pins = Cardinality(PinnedOn(l)')
    BY <1>0, <1>3, <1>5, <1>6, <2>2, <2>6 DEF IInv, LockInv, PinCounts
  <2> QED  BY <1>3, <2>5, <2>6 DEF PinCounts
<1>15. OwnerInv'
  <2>1. \A x \in Entries : heap'[x].owner = heap[x].owner
    BY <1>6, <1>7
  <2>2. \A u \in Threads : Holding(u)' => u # t
    BY <1>0, <1>8
  <2> QED  BY <1>2, <1>8, <2>1, <2>2 DEF IInv, LockInv, OwnerInv
<1>16. CleanInv'
  <2>1. \A x \in Entries : x # e /\ ~InCache(x)' => ~InCache(x)
    BY <1>1, <1>3, NoneAssumption DEF InCache
  <2>2. InCache(e)'
    BY <1>0, <1>3 DEF InCache
  <2> QED  BY <1>6, <2>1, <2>2 DEF IInv, LockInv, CleanInv
<1> QED  BY <1>9, <1>10, <1>11, <1>12, <1>13, <1>14, <1>15, <1>16 DEF IInv, LockInv

LEMMA UnpinStep ==
    ASSUME IInv, NEW t \in Threads, Unpin(t)
    PROVE  IInv'
<1>0. /\ Pinned(t) /\ ~Holding(t) /\ pc[t] = "unpin" /\ key[t] \in Keys /\ ent[t] \in Entries
      /\ cache[key[t]] = ent[t]
      /\ heap \in [Entries -> EntryType] /\ cache \in [Keys -> Entries \cup {NoEntry}]
  BY DEF Unpin, IInv, LockInv, KeyInv, PinnedStaysCached, Pinned, Holding, PinnedPcs, HoldingPcs,
         TypeOK, EntryType
<1>k. PICK k \in Keys : k = key[t]
  BY <1>0
<1>e. PICK e \in Entries : e = ent[t] /\ cache[k] = e
  BY <1>0, <1>k
<1>1. /\ heap' = [heap EXCEPT ![e].pins = @ - 1]
      /\ cache' = IF Discards(k) THEN [cache EXCEPT ![k] = NoEntry] ELSE cache
  BY <1>k, <1>e, NoneAssumption DEF Unpin
<1>2. /\ \A u \in Threads : u # t => key'[u] = key[u] /\ ent'[u] = ent[u] /\ pc'[u] = pc[u]
      /\ pc'[t] \in {"next", "idle"}
  BY DEF Unpin, Return, goto, IInv, TypeOK
<1>3. \A u \in Threads : /\ Pinned(u)' <=> Pinned(u) /\ u # t
                         /\ Holding(u)' <=> Holding(u)
                         /\ pc'[u] = "pin" <=> pc[u] = "pin"
                         /\ pc'[u] = "apply" => u # t /\ pc[u] = "apply"
  BY <1>0, <1>2 DEF Pinned, Holding, PinnedPcs, HoldingPcs
<1>4. /\ heap[e].pins = Cardinality(PinnedOn(k))
      /\ Cardinality(PinnedOn(k)) \in Nat /\ Cardinality(PinnedOn(k)) >= 1
      /\ Discards(k) => PinnedOn(k) = {t} /\ heap[e].file = NoFile
  <2>1. heap[e].pins = Cardinality(PinnedOn(k))
    BY <1>e, NoneAssumption DEF IInv, LockInv, PinCounts
  <2>2. /\ Cardinality(PinnedOn(k)) >= 1
        /\ Cardinality(PinnedOn(k)) <= 1 => PinnedOn(k) = {t}
    BY <1>0, <1>k, PinnedOnZero
  <2> QED  BY <1>e, <2>1, <2>2, PinnedOnFinite DEF Discards
<1>5. /\ \A x \in Entries : x # e => heap'[x] = heap[x]
      /\ heap'[e].owner = heap[e].owner /\ heap'[e].file = heap[e].file
      /\ heap'[e].pins = heap[e].pins - 1
      /\ heap' \in [Entries -> EntryType]
  <2>1. heap'[e] = [heap[e] EXCEPT !.pins = @ - 1]
    BY <1>0, <1>1
  <2>2. heap[e] \in EntryType /\ heap[e].pins - 1 \in Nat
    BY <1>0, <1>4
  <2> QED  BY <1>0, <1>1, <1>4, <2>1, <2>2, HeapField DEF EntryType, IInv
<1>6. /\ cache'[k] = IF Discards(k) THEN NoEntry ELSE e
      /\ \A l \in Keys : l # k => cache'[l] = cache[l] /\ cache[l] # e
      /\ cache' \in [Keys -> Entries \cup {NoEntry}]
  BY <1>0, <1>e, <1>1, NoneAssumption DEF IInv, LockInv, Injective
<1>7. TypeOK'
  <2>1. NoFile \in Cached /\ NoFiles \in [Keys -> Cached]
    BY InitialTypes DEF Cached
  <2>2. /\ pc' \in [Threads -> PinnedPcs \cup OtherPcs]
        /\ job' \in [Threads -> SingleJobs \cup MultiJobs \cup {"none"}]
        /\ key' \in [Threads -> Keys \cup {NoKey}]
    BY DEF IInv, TypeOK, Unpin, Return, goto, OtherPcs
  <2>3. /\ ent' \in [Threads -> Entries \cup {NoEntry}]
        /\ was' \in [Threads -> BOOLEAN]
        /\ seen' \in [Threads -> Cached]
    <3>1. /\ ent' = [ent EXCEPT ![t] = NoEntry] /\ was' = [was EXCEPT ![t] = FALSE]
          /\ seen' = seen \/ seen' = [seen EXCEPT ![t] = NoFile]
      BY DEF Unpin, Return
    <3>2. /\ ent \in [Threads -> Entries \cup {NoEntry}]
          /\ was \in [Threads -> BOOLEAN] /\ seen \in [Threads -> Cached]
      BY DEF IInv, TypeOK
    <3>3. was' \in [Threads -> BOOLEAN]
      BY <3>1, <3>2
    <3> QED  BY <2>1, <3>1, <3>2, <3>3
  <2>4. listed' \in [Threads -> [Keys -> Cached]]
    <3>1. listed' = listed \/ listed' = [listed EXCEPT ![t] = NoFiles]
      BY DEF Unpin, Return
    <3> QED  BY <2>1, <3>1 DEF IInv, TypeOK
  <2> QED  BY <1>5, <1>6, <2>2, <2>3, <2>4 DEF IInv, TypeOK, EntryType, Unpin
<1>8. ApplyInv'
  <2>1. \A u \in Threads : pc[u] = "apply" => ent[u] \in Entries
    BY DEF IInv, LockInv, KeyInv, Pinned, PinnedPcs, HoldingPcs
  <2>2. \A x \in Entries : heap'[x].file = heap[x].file
    BY <1>5
  <2> QED  BY <1>2, <1>3, <2>1, <2>2 DEF IInv, ApplyInv, FileOf
<1>9. KeyInv'
  BY <1>0, <1>2, <1>3 DEF IInv, LockInv, KeyInv
<1>10. PinnedStaysCached'
  <2>1. ASSUME NEW u \in Threads, Pinned(u), u # t PROVE cache'[key[u]] = ent[u]
    <3>1. cache[key[u]] = ent[u] /\ key[u] \in Keys
      BY <2>1 DEF IInv, LockInv, KeyInv, PinnedStaysCached
    <3>2. key[u] = k => u \in PinnedOn(k)
      BY <2>1 DEF PinnedOn
    <3> QED  BY <1>e, <1>4, <1>6, <2>1, <3>1, <3>2
  <2> QED  BY <1>2, <1>3, <2>1 DEF PinnedStaysCached
<1>11. Injective'
  BY <1>6 DEF IInv, LockInv, Injective
<1>12. PinCounts'
  <2>1. PinnedOn(k)' = PinnedOn(k) \ {t}
    BY <1>2, <1>3 DEF PinnedOn
  <2>2. \A l \in Keys : l # k => PinnedOn(l)' = PinnedOn(l)
    BY <1>k, <1>2, <1>3 DEF PinnedOn
  <2>3. Cardinality(PinnedOn(k)') = Cardinality(PinnedOn(k)) - 1
    <3>1. t \in PinnedOn(k)  BY <1>0, <1>k DEF PinnedOn
    <3> QED  BY <2>1, <3>1, PinnedOnFinite, FS_RemoveElement
  <2>4. cache'[k] # NoEntry => heap'[cache'[k]].pins = Cardinality(PinnedOn(k)')
    BY <1>4, <1>5, <1>6, <2>3
  <2>5. ASSUME NEW l \in Keys, l # k, cache'[l] # NoEntry
        PROVE  heap'[cache'[l]].pins = Cardinality(PinnedOn(l)')
    BY <1>0, <1>5, <1>6, <2>2, <2>5 DEF IInv, LockInv, PinCounts
  <2> QED  BY <2>4, <2>5 DEF PinCounts
<1>13. OwnerInv'
  <2>1. \A x \in Entries : heap'[x].owner = heap[x].owner
    BY <1>5
  <2> QED  BY <1>0, <1>2, <1>3, <2>1 DEF IInv, LockInv, OwnerInv
<1>14. CleanInv'
  <2>1. \A x \in Entries : x # e /\ ~InCache(x)' => ~InCache(x)
    BY <1>e, <1>6 DEF InCache
  <2>2. Discards(k) => heap[e].file = NoFile /\ heap[e].owner = NoThread
    <3>1. ASSUME Discards(k), NEW u \in Threads, heap[e].owner = u PROVE FALSE
      <4>1. Holding(u) /\ ent[u] = e /\ Pinned(u)
        BY <3>1 DEF IInv, LockInv, OwnerInv, Holding, Pinned, PinnedPcs
      <4>2. key[u] = k
        BY <1>e, <1>6, <4>1 DEF IInv, LockInv, KeyInv, PinnedStaysCached
      <4>3. u \in PinnedOn(k)
        BY <4>1, <4>2 DEF PinnedOn
      <4> QED  BY <1>0, <1>4, <3>1, <4>1, <4>3
    <3> QED  BY <1>0, <1>4, <3>1 DEF EntryType
  <2>3. ~Discards(k) => InCache(e)'
    BY <1>6 DEF InCache
  <2> QED  BY <1>5, <2>1, <2>2, <2>3 DEF IInv, LockInv, CleanInv
<1> QED  BY <1>7, <1>8, <1>9, <1>10, <1>11, <1>12, <1>13, <1>14 DEF IInv, LockInv

\* The store as it is when the process starts.
Fresh0 ==
    /\ cache = NoCache /\ isFlushing = FALSE /\ heap = NewHeap
    /\ pc = All("idle") /\ job = All("none") /\ key = All(NoKey) /\ ent = All(NoEntry)
    /\ todo = All({}) /\ seen = All(NoFile) /\ was = All(FALSE) /\ listed = All(NoFiles)

RowsOK == db \in [Keys -> Cached]

LEMMA StartKeepsIInv == Fresh0 /\ RowsOK => IInv
<1> SUFFICES ASSUME Fresh0, RowsOK PROVE IInv
  OBVIOUS
<1>1. TypeOK
  BY InitialTypes DEF Fresh0, RowsOK, TypeOK, All, EntryType, OtherPcs, Cached
<1>2. \A t \in Threads : ~Pinned(t) /\ ~Holding(t) /\ pc[t] = "idle"
  BY DEF Fresh0, All, Pinned, Holding, PinnedPcs, HoldingPcs
<1>3. \A e \in Entries : heap[e].file = NoFile /\ heap[e].owner = NoThread
  BY DEF Fresh0, NewHeap, Fresh
<1>4. KeyInv /\ PinnedStaysCached /\ Injective /\ PinCounts
  BY <1>2 DEF Fresh0, NoCache, KeyInv, PinnedStaysCached, Injective, PinCounts
<1>5. OwnerInv /\ CleanInv /\ ApplyInv
  BY <1>2, <1>3, NoneAssumption DEF OwnerInv, CleanInv, ApplyInv
<1> QED  BY <1>1, <1>4, <1>5 DEF IInv, LockInv

LEMMA InitIInv == Init => IInv
BY StartKeepsIInv, InitialTypes DEF Init, Fresh0, RowsOK

LEMMA CrashStep ==
    ASSUME IInv, Crash
    PROVE  IInv'
<1>1. (Fresh0 /\ RowsOK)'
  BY DEF RowsOK, Crash, Fresh0, NoCache, NewHeap, NoFiles, All, Fresh, IInv, TypeOK
<1> QED  BY <1>1, StartKeepsIInv, PTL

\* Nobody else changes an entry while its lock is held.
LEMMA WorkApply ==
    ASSUME IInv, NEW t \in Threads, Work(t)
    PROVE  ApplyInv'
<1>0. \A u \in Threads : pc[u] = "apply" => Holding(u) /\ ent[u] \in Entries
  BY DEF IInv, LockInv, KeyInv, Holding, Pinned, PinnedPcs, HoldingPcs
<1>1. Holding(t) /\ ent' = ent
  BY DEF Work, Make, DeleteRows, ClearEntry, Load, ApplyAppend, ApplyReplace, FlushToDB,
         ReadRow, ReadParts, ListEntry, Working, Holding, HoldingPcs, callVars
<1>2. \A u \in Threads : u # t => pc'[u] = pc[u]
  BY DEF Work, Make, DeleteRows, ClearEntry, Load, ApplyAppend, ApplyReplace, FlushToDB,
         ReadRow, ReadParts, ListEntry, goto, IInv, TypeOK
<1>3. ASSUME NEW u \in Threads, u # t, pc'[u] = "apply" PROVE FileOf(u)' # NoFile
  <2>1. ent[u] # ent[t] /\ ent[u] \in Entries /\ FileOf(u) # NoFile
    BY <1>0, <1>1, <1>2, <1>3 DEF IInv, LockInv, OwnerInv, ApplyInv
  <2>2. heap'[ent[u]] = heap[ent[u]]
    BY <2>1 DEF Work, Make, DeleteRows, ClearEntry, Load, ApplyAppend, ApplyReplace, FlushToDB, FlushFailed,
                ReadRow, ReadParts, ListEntry, Cleared, setFile, callVars, IInv, TypeOK
  <2> QED  BY <1>1, <2>1, <2>2 DEF FileOf
<1>4. pc'[t] = "apply" => Load(t) /\ LoadedFile(t) # NoFile /\ setFile(t, LoadedFile(t))
  BY DEF Work, Make, DeleteRows, ClearEntry, Load, ApplyAppend, ApplyReplace, FlushToDB,
         ReadRow, ReadParts, ListEntry, goto, IInv, TypeOK
<1>5. ASSUME pc'[t] = "apply" PROVE FileOf(t)' # NoFile
  <2>1. ent[t] \in Entries
    BY <1>1 DEF IInv, LockInv, KeyInv, Holding, Pinned, PinnedPcs
  <2> QED  BY <1>1, <1>4, <1>5, <2>1 DEF setFile, FileOf, IInv, TypeOK
<1> QED  BY <1>3, <1>5 DEF ApplyInv

LEMMA IInvStep == IInv /\ [Next]_vars => IInv'
<1> SUFFICES ASSUME IInv, [Next]_vars PROVE IInv'
  OBVIOUS
<1>1. ASSUME NEW t \in Threads, Work(t) PROVE IInv'
  BY <1>1, WorkTypes, WorkLocks, WorkApply DEF IInv
<1>2. ASSUME NEW t \in Threads, Step(t) PROVE IInv'
  BY <1>1, <1>2, BetweenSteps, PinStep, LockSteps, UnpinStep DEF Step
<1>3. CASE UNCHANGED vars
  BY <1>3 DEF vars, IInv, TypeOK, LockInv, KeyInv, PinnedStaysCached, Injective, PinCounts, OwnerInv,
              CleanInv, ApplyInv, InCache, PinnedOn, Pinned, Holding, FileOf
<1> QED  BY <1>2, <1>3, CallSteps, CrashStep DEF Next

LEMMA InvariantHolds == Spec => []IInv
BY InitIInv, IInvStep, PTL DEF Spec

\* The store's state has its types in every run, for all constants.
THEOREM TypeCorrect == Spec => []TypeOK
<1>1. IInv => TypeOK  BY DEF IInv
<1> QED  BY <1>1, InvariantHolds, PTL

\* A thread's entry stays in the cache from its getEntryAndPin to its
\* unpinEntryAndTryDelete, however many others come and go.
THEOREM PinsHold == Spec => []PinnedStaysCached
<1>1. IInv => PinnedStaysCached  BY DEF IInv, LockInv
<1> QED  BY <1>1, InvariantHolds, PTL

\* withLock is mutual exclusion per file: entries may be discarded and made
\* anew, but no two threads are ever inside it for one key.
THEOREM MutualExclusion == Spec => []OneThreadPerFile
<1>1. IInv => OneThreadPerFile
  <2> SUFFICES ASSUME IInv, NEW t \in Threads, NEW u \in Threads, Holding(t), Holding(u), key[t] = key[u]
               PROVE  t = u
    BY DEF OneThreadPerFile
  <2>1. Pinned(t) /\ Pinned(u)
    BY DEF Holding, Pinned, PinnedPcs
  <2>2. ent[t] = ent[u] /\ ent[t] \in Entries
    BY <2>1 DEF IInv, LockInv, KeyInv, PinnedStaysCached
  <2> QED  BY <2>2 DEF IInv, LockInv, OwnerInv
<1> QED  BY <1>1, InvariantHolds, PTL

\* Unsaved data is never in an entry that the flusher cannot find.
THEOREM NothingAstray == Spec => []DirtyStaysCached
<1>1. IInv => DirtyStaysCached
  BY DEF IInv, LockInv, CleanInv, InCache, DirtyStaysCached, Unused
<1> QED  BY <1>1, InvariantHolds, PTL

-----------------------------------------------------------------------------
(* What readers see, and what survives: Files.                             *)

\* The row of a file with unsaved data is there, but for the moment in which a delete has removed it and not yet
\* cleared the entry; until then nobody else is inside withLock for the file.
Clearing(k) == \E t \in Threads : pc[t] = "clear" /\ key[t] = k
RowInv ==
    /\ \A k \in Keys : Dirty(k) /\ db[k] = NoFile => Clearing(k)
    /\ \A t \in Threads : pc[t] = "clear" => db[key[t]] = NoFile

\* Failed flushes are counted for unsaved data only.
ErrorInv == \A e \in Entries : heap[e].file = NoFile => heap[e].errors = 0

ViewInv == RowInv /\ ErrorInv /\ ReadsAreWhole

LEMMA HolderFacts ==
    ASSUME IInv, NEW t \in Threads, Holding(t)
    PROVE  /\ key[t] \in Keys /\ ent[t] \in Entries /\ cache[key[t]] = ent[t] /\ ent[t] # NoEntry
           /\ heap[ent[t]] \in EntryType
           /\ \A l \in Keys : l # key[t] => cache[l] # ent[t]
           /\ \A u \in Threads : u # t /\ Holding(u) => key[u] \in Keys /\ key[u] # key[t]
<1>1. Pinned(t) /\ \A u \in Threads : Holding(u) => Pinned(u)
  BY DEF Holding, Pinned, PinnedPcs
<1>2. key[t] \in Keys /\ ent[t] \in Entries /\ cache[key[t]] = ent[t] /\ ent[t] # NoEntry
  BY <1>1, NoneAssumption DEF IInv, LockInv, KeyInv, PinnedStaysCached
<1>3. heap[ent[t]] \in EntryType
  BY <1>2 DEF IInv, TypeOK, EntryType
<1>4. \A l \in Keys : l # key[t] => cache[l] # ent[t]
  BY <1>2 DEF IInv, LockInv, Injective
<1>5. ASSUME NEW u \in Threads, u # t, Holding(u) PROVE key[u] \in Keys /\ key[u] # key[t]
  <2>1. cache[key[u]] = ent[u] /\ key[u] \in Keys /\ ent[u] \in Entries
    BY <1>1, <1>5 DEF IInv, LockInv, KeyInv, PinnedStaysCached
  <2>2. ent[u] # ent[t]
    BY <1>2, <1>5, <2>1 DEF IInv, LockInv, OwnerInv
  <2> QED  BY <1>2, <2>1, <2>2
<1> QED  BY <1>2, <1>3, <1>4, <1>5

\* Who works under the lock of a file finds its row, if there is unsaved data.
LEMMA RowIsThere ==
    ASSUME IInv, ViewInv, NEW t \in Threads, Holding(t), pc[t] # "clear"
    PROVE  FileOf(t) # NoFile => db[key[t]] # NoFile
<1>1. key[t] \in Keys /\ cache[key[t]] = ent[t] /\ ent[t] # NoEntry
  BY HolderFacts
<1>2. ASSUME NEW u \in Threads, pc[u] = "clear", key[u] = key[t] PROVE FALSE
  <2>1. Holding(u) /\ u # t
    BY <1>2 DEF Holding, HoldingPcs
  <2> QED  BY <1>2, <2>1, HolderFacts
<1>3. ~Clearing(key[t])
  BY <1>2 DEF Clearing
<1> QED  BY <1>1, <1>3 DEF ViewInv, RowInv, Dirty, FileOf

LEMMA WorkLocal ==
    ASSUME IInv, NEW t \in Threads, Work(t)
    PROVE  /\ Holding(t) /\ UNCHANGED <<cache, key, ent>>
           /\ \A x \in Entries : x # ent[t] => heap'[x] = heap[x]
           /\ \A l \in Keys : l # key[t] => db'[l] = db[l]
           /\ \A u \in Threads : u # t => pc'[u] = pc[u] /\ seen'[u] = seen[u]
<1>1. Holding(t)
  BY DEF Work, Make, DeleteRows, ClearEntry, Load, ApplyAppend, ApplyReplace, FlushToDB,
         ReadRow, ReadParts, ListEntry, Working, Holding, HoldingPcs
<1>2. UNCHANGED <<cache, key, ent>>
  BY DEF Work, Make, DeleteRows, ClearEntry, Load, ApplyAppend, ApplyReplace, FlushToDB,
         ReadRow, ReadParts, ListEntry, storeUnchanged, callVars
<1>3. \A x \in Entries : x # ent[t] => heap'[x] = heap[x]
  BY DEF Work, Make, DeleteRows, ClearEntry, Load, ApplyAppend, ApplyReplace, FlushToDB, FlushFailed,
         ReadRow, ReadParts, ListEntry, Cleared, setFile, callVars, IInv, TypeOK
<1>4. \A l \in Keys : l # key[t] => db'[l] = db[l]
  BY DEF Work, Make, DeleteRows, ClearEntry, Load, ApplyAppend, ApplyReplace, FlushToDB,
         ReadRow, ReadParts, ListEntry, IInv, TypeOK
<1>5. \A u \in Threads : u # t => pc'[u] = pc[u]
  BY DEF Work, Make, DeleteRows, ClearEntry, Load, ApplyAppend, ApplyReplace, FlushToDB,
         ReadRow, ReadParts, ListEntry, goto, IInv, TypeOK
<1>6. \A u \in Threads : u # t => seen'[u] = seen[u]
  BY DEF Work, Make, DeleteRows, ClearEntry, Load, ApplyAppend, ApplyReplace, FlushToDB,
         ReadRow, ReadParts, ListEntry, callVars, IInv, TypeOK
<1> QED  BY <1>1, <1>2, <1>3, <1>4, <1>5, <1>6

\* A step under a lock keeps the view of the other files, and the invariant if it keeps it for its own.
LEMMA WorkKeepsView ==
    ASSUME IInv, ViewInv, NEW t \in Threads, Work(t),
           Dirty(key[t])' /\ db'[key[t]] = NoFile => pc'[t] = "clear",
           pc'[t] = "clear" => db'[key[t]] = NoFile,
           heap'[ent[t]].file = NoFile => heap'[ent[t]].errors = 0,
           pc'[t] = "parts" => seen'[t] = Content(key[t])'
    PROVE  ViewInv' /\ \A l \in Keys : l # key[t] => Content(l)' = Content(l) /\ Fails(l)' = Fails(l)
<1>1. /\ Holding(t) /\ UNCHANGED <<cache, key, ent>>
      /\ \A x \in Entries : x # ent[t] => heap'[x] = heap[x]
      /\ \A l \in Keys : l # key[t] => db'[l] = db[l]
      /\ \A u \in Threads : u # t => pc'[u] = pc[u] /\ seen'[u] = seen[u]
  BY WorkLocal
<1>2. /\ key[t] \in Keys /\ cache[key[t]] = ent[t]
      /\ \A l \in Keys : l # key[t] => cache[l] # ent[t]
      /\ \A u \in Threads : u # t /\ Holding(u) => key[u] \in Keys /\ key[u] # key[t]
  BY <1>1, HolderFacts
<1>3. \A l \in Keys : cache[l] \in Entries \cup {NoEntry}
  BY DEF IInv, TypeOK
<1>4. \A l \in Keys : l # key[t] => cache[l] = NoEntry \/ heap'[cache[l]] = heap[cache[l]]
  BY <1>1, <1>2, <1>3
<1>5. ASSUME NEW l \in Keys, l # key[t]
      PROVE  (Dirty(l)' <=> Dirty(l)) /\ Content(l)' = Content(l) /\ Fails(l)' = Fails(l)
  BY <1>1, <1>4, <1>5 DEF Dirty, Content, Fails
<1>6. RowInv'
  <2>1. ASSUME NEW l \in Keys, Dirty(l)', db'[l] = NoFile PROVE Clearing(l)'
    <3>1. CASE l = key[t]
      BY <1>1, <2>1, <3>1 DEF Clearing
    <3>2. CASE l # key[t]
      <4>1. PICK u \in Threads : pc[u] = "clear" /\ key[u] = l
        BY <1>1, <1>5, <2>1, <3>2 DEF ViewInv, RowInv, Clearing
      <4> QED  BY <1>1, <3>2, <4>1 DEF Clearing
    <3> QED  BY <3>1, <3>2
  <2>2. ASSUME NEW u \in Threads, pc'[u] = "clear" PROVE db'[key'[u]] = NoFile
    <3>1. CASE u = t
      BY <1>1, <2>2, <3>1
    <3>2. CASE u # t
      <4>1. pc[u] = "clear" /\ Holding(u) /\ db[key[u]] = NoFile
        BY <1>1, <2>2, <3>2 DEF ViewInv, RowInv, Holding, HoldingPcs
      <4> QED  BY <1>1, <1>2, <3>2, <4>1
    <3> QED  BY <3>1, <3>2
  <2> QED  BY <2>1, <2>2 DEF RowInv
<1>7. ErrorInv'
  BY <1>1 DEF ViewInv, ErrorInv
<1>8. ReadsAreWhole'
  <2>1. ASSUME NEW u \in Threads, pc'[u] = "parts" PROVE (seen[u] = Content(key[u]))'
    <3>1. CASE u = t
      BY <1>1, <2>1, <3>1 DEF Content, Dirty
    <3>2. CASE u # t
      <4>1. pc[u] = "parts" /\ Holding(u) /\ seen[u] = Content(key[u]) /\ seen'[u] = seen[u]
        BY <1>1, <2>1, <3>2 DEF ViewInv, ReadsAreWhole, Holding, HoldingPcs
      <4>2. PICK l \in Keys : l = key[u] /\ l # key[t]
        BY <1>2, <3>2, <4>1
      <4>3. Content(l)' = Content(l) /\ key'[u] = l
        BY <1>1, <1>5, <4>2
      <4> QED  BY <4>1, <4>2, <4>3 DEF Content, Dirty
    <3> QED  BY <3>1, <3>2
  <2> QED  BY <2>1 DEF ReadsAreWhole, Content, Dirty
<1> QED  BY <1>5, <1>6, <1>7, <1>8 DEF ViewInv

\* What a thread that works on the file "k" through the entry "e" has before it, and makes of it.
LEMMA OwnView ==
    ASSUME IInv, ViewInv, NEW t \in Threads, Work(t), NEW k, key[t] = k, NEW e, ent[t] = e
    PROVE  /\ k \in Keys /\ e \in Entries /\ heap[e] \in EntryType /\ db[k] \in Cached
           /\ Content(k) = IF db[k] # NoFile /\ heap[e].file # NoFile THEN heap[e].file ELSE db[k]
           /\ Fails(k) = IF db[k] # NoFile /\ heap[e].file # NoFile THEN heap[e].errors ELSE 0
           /\ Content(k)' = IF db'[k] # NoFile /\ heap'[e].file # NoFile THEN heap'[e].file ELSE db'[k]
           /\ Fails(k)' = IF db'[k] # NoFile /\ heap'[e].file # NoFile THEN heap'[e].errors ELSE 0
           /\ heap[e].file = NoFile => heap[e].errors = 0
           /\ pc[t] # "clear" /\ heap[e].file # NoFile => db[k] # NoFile
           /\ pc[t] = "clear" => db[k] = NoFile
           /\ FileOf(t) = heap[e].file
<1>1. Holding(t) /\ UNCHANGED <<cache, key, ent>>
  BY WorkLocal
<1>2. k \in Keys /\ e \in Entries /\ cache[k] = e /\ e # NoEntry /\ heap[e] \in EntryType
  BY <1>1, HolderFacts
<1>3. db[k] \in Cached
  BY <1>2 DEF IInv, TypeOK
<1>4. (heap[e].file = NoFile => heap[e].errors = 0) /\ (pc[t] = "clear" => db[k] = NoFile)
  BY <1>2 DEF ViewInv, ErrorInv, RowInv
<1>5. FileOf(t) = heap[e].file
  BY DEF FileOf
<1>6. pc[t] # "clear" /\ heap[e].file # NoFile => db[k] # NoFile
  BY <1>1, <1>5, RowIsThere
<1>7. (Dirty(k) <=> heap[e].file # NoFile) /\ (Dirty(k)' <=> heap'[e].file # NoFile)
  BY <1>1, <1>2 DEF Dirty
<1>8. /\ Content(k) = IF db[k] # NoFile /\ heap[e].file # NoFile THEN heap[e].file ELSE db[k]
      /\ Fails(k) = IF db[k] # NoFile /\ heap[e].file # NoFile THEN heap[e].errors ELSE 0
  BY <1>2, <1>7 DEF Content, Fails
<1>9. /\ Content(k)' = IF db'[k] # NoFile /\ heap'[e].file # NoFile THEN heap'[e].file ELSE db'[k]
      /\ Fails(k)' = IF db'[k] # NoFile /\ heap'[e].file # NoFile THEN heap'[e].errors ELSE 0
  BY <1>1, <1>2, <1>7 DEF Content, Fails
<1> QED  BY <1>2, <1>3, <1>4, <1>5, <1>6, <1>8, <1>9

\* The file "k" after a step: what readers see, what is durable, the flushes that failed.
Takes(k, c, d, n) == Content(k)' = c /\ db'[k] = d /\ Fails(k)' = n
Stays(k) == Takes(k, Content(k), db[k], Fails(k))

\* One of the steps of Files on the file "k".
Effect(k) ==
    \/ Stays(k)
    \/ Content(k) = NoFile /\ Takes(k, 0, 0, 0)
    \/ Takes(k, NoFile, NoFile, 0)
    \/ Content(k) # NoFile /\ Takes(k, Content(k) + 1, db[k], Fails(k))
    \/ Content(k) # NoFile /\ Takes(k, WriteSize, db[k], Fails(k))
    \/ \E n \in {0, Fails(k)} : Takes(k, Content(k), Content(k), n)
    \/ Fails(k) < MaxFlushErrors /\ Takes(k, Content(k), db[k], Fails(k) + 1)
    \/ Fails(k) = MaxFlushErrors /\ Takes(k, db[k], db[k], 0)

\* What a step under the lock has to keep for its own file.
OwnInv(t) ==
    /\ heap[ent[t]].file # NoFile /\ db[key[t]] = NoFile => pc[t] = "clear"
    /\ pc[t] = "clear" => db[key[t]] = NoFile
    /\ heap[ent[t]].file = NoFile => heap[ent[t]].errors = 0
    /\ pc[t] = "parts" => seen[t] = Content(key[t])

\* Each operation takes effect on its file in one of its steps, and that effect is one Files has.
LEMMA WorkEffect ==
    ASSUME IInv, ViewInv, NEW t \in Threads, Work(t), NEW k, key[t] = k
    PROVE  OwnInv(t)' /\ Effect(k)
<1> DEFINE e == ent[t]
<1>0. PICK x : x = e
  OBVIOUS
<1>1. /\ k \in Keys /\ x \in Entries /\ heap[x] \in EntryType /\ db[k] \in Cached
      /\ Content(k) = IF db[k] # NoFile /\ heap[x].file # NoFile THEN heap[x].file ELSE db[k]
      /\ Fails(k) = IF db[k] # NoFile /\ heap[x].file # NoFile THEN heap[x].errors ELSE 0
      /\ Content(k)' = IF db'[k] # NoFile /\ heap'[x].file # NoFile THEN heap'[x].file ELSE db'[k]
      /\ Fails(k)' = IF db'[k] # NoFile /\ heap'[x].file # NoFile THEN heap'[x].errors ELSE 0
      /\ heap[x].file = NoFile => heap[x].errors = 0
      /\ pc[t] # "clear" /\ heap[x].file # NoFile => db[k] # NoFile
      /\ pc[t] = "clear" => db[k] = NoFile
      /\ FileOf(t) = heap[x].file
  BY <1>0, OwnView
<1>2. /\ Holding(t) /\ key' = key /\ ent' = ent
      /\ pc \in [Threads -> PinnedPcs \cup OtherPcs]
      /\ heap \in [Entries -> EntryType] /\ db \in [Keys -> Cached]
      /\ seen \in [Threads -> Cached]
  BY WorkLocal DEF IInv, TypeOK, EntryType
<1>3. \A p : goto(t, p) => pc'[t] = p
  BY <1>2 DEF goto
<1>4. ASSUME heap'[x].file # NoFile /\ db'[k] = NoFile => pc'[t] = "clear",
             pc'[t] = "clear" => db'[k] = NoFile,
             heap'[x].file = NoFile => heap'[x].errors = 0,
             pc'[t] = "parts" => seen'[t] = Content(k)'
      PROVE  OwnInv(t)'
  BY <1>0, <1>2, <1>4 DEF OwnInv, Content, Dirty
<1>5. 0 # NoFile /\ \A f \in Cached : f # NoFile => f \in Int /\ f + 1 # NoFile
  BY NoneAssumption DEF Cached, Sizes
<1>6. NoFile # WriteSize /\ WriteSize \in Int
  BY NoneAssumption, BoundAssumption
<1>7. ASSUME Make(t) PROVE OwnInv(t)' /\ Effect(k)
  <2>1. pc[t] = "in" /\ heap' = heap /\ pc'[t] = "unlock"
    BY <1>3, <1>7 DEF Make, Working
  <2>2. CASE db' = db
    <3>1. Stays(k)
      BY <1>1, <2>1, <2>2 DEF Stays, Takes
    <3> QED  BY <1>1, <1>4, <2>1, <2>2, <3>1 DEF Effect
  <2>3. CASE db' # db
    <3>1. FileOf(t) = NoFile /\ db[k] = NoFile /\ db' = [db EXCEPT ![k] = 0]
      BY <1>7, <2>3 DEF Make
    <3>2. db'[k] = 0
      BY <1>1, <1>2, <3>1
    <3>3. Content(k) = NoFile /\ Takes(k, 0, 0, 0)
      BY <1>1, <2>1, <3>1, <3>2 DEF Takes
    <3> QED  BY <1>1, <1>4, <1>5, <2>1, <3>1, <3>2, <3>3 DEF Effect
  <2> QED  BY <2>2, <2>3
<1>8. ASSUME DeleteRows(t) PROVE OwnInv(t)' /\ Effect(k)
  <2>1. pc[t] = "in" /\ heap' = heap
    BY <1>8 DEF DeleteRows, Working
  <2>2. CASE db' = db /\ pc'[t] = "unlock"
    <3>1. Stays(k)
      BY <1>1, <2>1, <2>2 DEF Stays, Takes
    <3> QED  BY <1>1, <1>4, <2>1, <2>2, <3>1 DEF Effect
  <2>3. CASE db' = [db EXCEPT ![k] = NoFile] /\ pc'[t] = "clear"
    <3>1. db'[k] = NoFile
      BY <1>1, <1>2, <2>3
    <3>2. Takes(k, NoFile, NoFile, 0)
      BY <1>1, <3>1 DEF Takes
    <3> QED  BY <1>1, <1>4, <2>1, <2>3, <3>1, <3>2 DEF Effect
  <2> QED  BY <1>3, <1>8, <2>2, <2>3 DEF DeleteRows
<1>9. ASSUME ClearEntry(t) PROVE OwnInv(t)' /\ Effect(k)
  <2>1. pc[t] = "clear" /\ db' = db /\ pc'[t] = "unlock" /\ db[k] = NoFile
    BY <1>1, <1>3, <1>9 DEF ClearEntry
  <2>2. heap'[x].file = NoFile /\ heap'[x].errors = 0
    BY <1>0, <1>1, <1>2, <1>9 DEF ClearEntry, Cleared, EntryType
  <2>3. Stays(k)
    BY <1>1, <2>1, <2>2 DEF Stays, Takes
  <2> QED  BY <1>4, <2>1, <2>2, <2>3 DEF Effect
<1>10. ASSUME Load(t) PROVE OwnInv(t)' /\ Effect(k)
  <2>1. pc[t] = "in" /\ db' = db
    BY <1>10 DEF Load, Working
  <2>2. CASE heap' = heap /\ pc'[t] = "unlock"
    <3>1. Stays(k)
      BY <1>1, <2>1, <2>2 DEF Stays, Takes
    <3> QED  BY <1>1, <1>4, <2>1, <2>2, <3>1 DEF Effect
  <2>3. CASE LoadedFile(t) # NoFile /\ setFile(t, LoadedFile(t)) /\ pc'[t] = "apply"
    <3>1. heap'[x].file = LoadedFile(t) /\ heap'[x].errors = heap[x].errors
      BY <1>0, <1>1, <1>2, <2>3 DEF setFile, EntryType
    <3>2. LoadedFile(t) = IF heap[x].file # NoFile THEN heap[x].file ELSE db[k]
      BY <1>1 DEF LoadedFile
    <3>3. db[k] # NoFile /\ heap'[x].file # NoFile
      BY <1>1, <2>1, <2>3, <3>1, <3>2
    <3>4. Stays(k)
      BY <1>1, <2>1, <3>1, <3>2, <3>3 DEF Stays, Takes
    <3> QED  BY <1>4, <2>1, <2>3, <3>3, <3>4 DEF Effect
  <2> QED  BY <1>3, <1>10, <2>2, <2>3 DEF Load
<1>11. ASSUME ApplyAppend(t) PROVE OwnInv(t)' /\ Effect(k)
  <2>1. pc[t] = "apply" /\ db' = db /\ pc'[t] = "unlock" /\ heap[x].file # NoFile /\ db[k] # NoFile
    BY <1>0, <1>1, <1>3, <1>11 DEF ApplyAppend, Working, IInv, ApplyInv
  <2>2. CASE heap' = heap
    <3>1. Stays(k)
      BY <1>1, <2>1, <2>2 DEF Stays, Takes
    <3> QED  BY <1>1, <1>4, <2>1, <2>2, <3>1 DEF Effect
  <2>3. CASE setFile(t, heap[x].file + 1)
    <3>1. heap'[x].file = heap[x].file + 1 /\ heap'[x].errors = heap[x].errors
      BY <1>0, <1>1, <1>2, <2>3 DEF setFile, EntryType
    <3>2. heap'[x].file # NoFile
      BY <1>1, <1>5, <2>1, <3>1 DEF EntryType
    <3>3. Content(k) # NoFile /\ Takes(k, Content(k) + 1, db[k], Fails(k))
      BY <1>1, <2>1, <3>1, <3>2 DEF Takes
    <3> QED  BY <1>4, <2>1, <3>2, <3>3 DEF Effect
  <2> QED  BY <1>1, <1>11, <2>2, <2>3 DEF ApplyAppend
<1>12. ASSUME ApplyReplace(t) PROVE OwnInv(t)' /\ Effect(k)
  <2>1. pc[t] = "apply" /\ db' = db /\ pc'[t] = "flush" /\ heap[x].file # NoFile /\ db[k] # NoFile
    BY <1>0, <1>1, <1>3, <1>12 DEF ApplyReplace, Working, IInv, ApplyInv
  <2>2. heap'[x].file = WriteSize /\ heap'[x].errors = heap[x].errors
    BY <1>0, <1>1, <1>2, <1>12 DEF ApplyReplace, setFile, EntryType
  <2>3. Content(k) # NoFile /\ Takes(k, WriteSize, db[k], Fails(k))
    BY <1>1, <1>6, <2>1, <2>2 DEF Takes
  <2> QED  BY <1>4, <1>6, <2>1, <2>2, <2>3 DEF Effect
<1>13. ASSUME FlushToDB(t) PROVE OwnInv(t)' /\ Effect(k)
  <2>1. pc[t] # "clear" /\ pc'[t] = "unlock"
    BY <1>3, <1>13 DEF FlushToDB, Working
  <2>2. ASSUME Cleared(t) PROVE heap'[x].file = NoFile /\ heap'[x].errors = 0
    BY <1>0, <1>1, <1>2, <2>2 DEF Cleared, EntryType
  <2>3. CASE heap' = heap /\ db' = db
    <3>1. Stays(k)
      BY <1>1, <2>3 DEF Stays, Takes
    <3> QED  BY <1>1, <1>4, <2>1, <2>3, <3>1 DEF Effect
  <2>4. CASE FileOf(t) # NoFile /\ db' = [db EXCEPT ![k] = FileOf(t)] /\ (Cleared(t) \/ heap' = heap)
    <3>1. db'[k] = heap[x].file /\ db'[k] # NoFile /\ db[k] # NoFile
      BY <1>1, <1>2, <2>1, <2>4
    <3>2. CASE Cleared(t)
      <4>1. Takes(k, Content(k), Content(k), 0)
        BY <1>1, <2>2, <3>1, <3>2 DEF Takes
      <4> QED  BY <1>4, <2>1, <2>2, <3>1, <3>2, <4>1 DEF Effect
    <3>3. CASE heap' = heap
      <4>1. Takes(k, Content(k), Content(k), Fails(k))
        BY <1>1, <3>1, <3>3 DEF Takes
      <4> QED  BY <1>1, <1>4, <2>1, <3>1, <3>3, <4>1 DEF Effect
    <3> QED  BY <2>4, <3>2, <3>3
  <2>5. CASE FileOf(t) # NoFile /\ db' = db /\ FlushFailed(t)
    <3>1. heap[x].file # NoFile /\ db[k] # NoFile /\ Fails(k) = heap[x].errors
      BY <1>1, <2>1, <2>5
    <3>2. CASE heap[x].errors < MaxFlushErrors
      <4>1. heap'[x].file = heap[x].file /\ heap'[x].errors = heap[x].errors + 1
        <5>1. heap' = [heap EXCEPT ![x].errors = @ + 1]
          BY <1>0, <2>5, <3>2 DEF FlushFailed
        <5> QED  BY <1>1, <1>2, <5>1 DEF EntryType
      <4>2. Fails(k) < MaxFlushErrors /\ Takes(k, Content(k), db[k], Fails(k) + 1)
        BY <1>1, <2>5, <3>1, <3>2, <4>1 DEF Takes
      <4> QED  BY <1>4, <2>1, <2>5, <3>1, <4>1, <4>2 DEF Effect
    <3>3. CASE ~(heap[x].errors < MaxFlushErrors)
      <4>1. Cleared(t)
        BY <1>0, <2>5, <3>3 DEF FlushFailed
      <4>2. Fails(k) = MaxFlushErrors
        BY <1>1, <3>1, <3>3, BoundAssumption DEF EntryType
      <4>3. Takes(k, db[k], db[k], 0)
        BY <1>1, <2>2, <2>5, <3>1, <4>1 DEF Takes
      <4> QED  BY <1>4, <2>1, <2>2, <2>5, <3>1, <4>1, <4>2, <4>3 DEF Effect
    <3> QED  BY <3>2, <3>3
  <2> QED  BY <1>13, <2>3, <2>4, <2>5 DEF FlushToDB
<1>14. ASSUME ReadRow(t) PROVE OwnInv(t)' /\ Effect(k)
  <2>1. pc[t] = "in" /\ heap' = heap /\ db' = db /\ pc'[t] \in {"unlock", "parts"}
        /\ seen'[t] = LoadedFile(t)
    BY <1>2, <1>3, <1>14 DEF ReadRow, Working
  <2>2. LoadedFile(t) = Content(k)
    BY <1>1, <2>1 DEF LoadedFile
  <2>3. Stays(k)
    BY <1>1, <2>1 DEF Stays, Takes
  <2>4. seen'[t] = Content(k)'
    BY <2>1, <2>2, <2>3 DEF Stays, Takes
  <2> QED  BY <1>1, <1>4, <2>1, <2>3, <2>4 DEF Effect
<1>15. ASSUME ReadParts(t) \/ ListEntry(t) PROVE OwnInv(t)' /\ Effect(k)
  <2>1. pc[t] # "clear" /\ heap' = heap /\ db' = db /\ pc'[t] = "unlock"
    BY <1>3, <1>15 DEF ReadParts, ListEntry, Working
  <2>2. Stays(k)
    BY <1>1, <2>1 DEF Stays, Takes
  <2> QED  BY <1>1, <1>4, <2>1, <2>2 DEF Effect
<1> QED  BY <1>7, <1>8, <1>9, <1>10, <1>11, <1>12, <1>13, <1>14, <1>15 DEF Work

\* A thread moves between two calls of withLock, and nobody's work is disturbed.
Moves(t) ==
    /\ pc[t] \notin {"clear", "parts"} /\ pc'[t] \notin {"clear", "parts"}
    /\ \A u \in Threads : u # t => pc'[u] = pc[u] /\ key'[u] = key[u] /\ seen'[u] = seen[u]

\* No file or error count changes, and entries come and go clean.
Settled ==
    /\ db' = db
    /\ \A x \in Entries : heap'[x].file = heap[x].file /\ heap'[x].errors = heap[x].errors
    /\ \A l \in Keys : cache'[l] = cache[l] \/ (~Dirty(l) /\ ~Dirty(l)')

LEMMA QuietView ==
    ASSUME IInv, ViewInv, Settled, NEW t \in Threads, Moves(t)
    PROVE  ViewInv' /\ \A l \in Keys : Content(l)' = Content(l) /\ Fails(l)' = Fails(l)
<1>1. \A l \in Keys : cache[l] \in Entries \cup {NoEntry}
  BY DEF IInv, TypeOK
<1>2. ASSUME NEW l \in Keys
      PROVE  (Dirty(l)' <=> Dirty(l)) /\ Content(l)' = Content(l) /\ Fails(l)' = Fails(l)
  <2>1. CASE cache'[l] = cache[l]
    BY <1>1, <2>1 DEF Settled, Dirty, Content, Fails
  <2>2. CASE ~Dirty(l) /\ ~Dirty(l)'
    BY <2>2 DEF Settled, Content, Fails
  <2> QED  BY <2>1, <2>2 DEF Settled
<1>3. ASSUME NEW u \in Threads, pc[u] \in {"clear", "parts"} \/ pc'[u] \in {"clear", "parts"}
      PROVE  /\ u # t /\ pc'[u] = pc[u] /\ key'[u] = key[u] /\ seen'[u] = seen[u]
             /\ key[u] \in Keys
  <2>1. u # t /\ pc'[u] = pc[u] /\ key'[u] = key[u] /\ seen'[u] = seen[u]
    BY <1>3 DEF Moves
  <2>2. Holding(u)
    BY <1>3, <2>1 DEF Holding, HoldingPcs
  <2> QED  BY <2>1, <2>2, HolderFacts
<1>4. RowInv'
  <2>1. ASSUME NEW l \in Keys, Dirty(l)', db'[l] = NoFile PROVE Clearing(l)'
    <3>1. PICK u \in Threads : pc[u] = "clear" /\ key[u] = l
      BY <1>2, <2>1 DEF ViewInv, RowInv, Clearing, Settled
    <3> QED  BY <1>3, <3>1 DEF Clearing
  <2>2. ASSUME NEW u \in Threads, pc'[u] = "clear" PROVE db'[key'[u]] = NoFile
    BY <1>3, <2>2 DEF ViewInv, RowInv, Settled
  <2> QED  BY <2>1, <2>2 DEF RowInv
<1>5. ErrorInv'
  BY DEF ViewInv, ErrorInv, Settled
<1>6. ReadsAreWhole'
  <2>1. ASSUME NEW u \in Threads, pc'[u] = "parts" PROVE (seen[u] = Content(key[u]))'
    <3>1. pc[u] = "parts" /\ seen[u] = Content(key[u]) /\ seen'[u] = seen[u]
      BY <1>3, <2>1 DEF ViewInv, ReadsAreWhole
    <3>2. PICK l \in Keys : l = key[u] /\ l = key'[u]
      BY <1>3, <2>1
    <3>3. Content(l)' = Content(l)
      BY <1>2
    <3> QED  BY <3>1, <3>2, <3>3 DEF Content, Dirty
  <2> QED  BY <2>1 DEF ReadsAreWhole, Content, Dirty
<1> QED  BY <1>2, <1>4, <1>5, <1>6 DEF ViewInv

LEMMA CallMoves ==
    ASSUME IInv, NEW t \in Threads,
           Call(t) \/ CollectDirty(t) \/ NextKey(t) \/ FinishMulti(t)
    PROVE  Settled /\ Moves(t)
<1>0. /\ pc \in [Threads -> PinnedPcs \cup OtherPcs] /\ key \in [Threads -> Keys \cup {NoKey}]
      /\ seen \in [Threads -> Cached]
  BY DEF IInv, TypeOK
<1>1. UNCHANGED <<db, heap, cache>>
  BY DEF Call, Begin, BeginZone, BeginFlush, CollectDirty, NextKey, FinishMulti, storeVars
<1>2. /\ pc[t] \in {"idle", "collect", "next"}
      /\ \E p \in {"idle", "collect", "next", "pin"} : goto(t, p)
  BY DEF Call, Begin, BeginZone, BeginFlush, CollectDirty, NextKey, FinishMulti, Return
<1>3. \A u \in Threads : u # t => key'[u] = key[u] /\ seen'[u] = seen[u]
  BY <1>0 DEF Call, Begin, BeginZone, BeginFlush, CollectDirty, NextKey, FinishMulti, Return
<1> QED  BY <1>0, <1>1, <1>2, <1>3 DEF Settled, Moves, goto

LEMMA LockMoves ==
    ASSUME IInv, NEW t \in Threads, Lock(t) \/ Unlock(t)
    PROVE  Settled /\ Moves(t)
<1>0. /\ pc \in [Threads -> PinnedPcs \cup OtherPcs] /\ heap \in [Entries -> EntryType]
  BY DEF IInv, TypeOK, EntryType
<1>1. UNCHANGED <<db, cache, key, seen>>
  BY DEF Lock, Unlock, callVars
<1>2. pc[t] \in {"lock", "unlock"} /\ \E p \in {"in", "unpin"} : goto(t, p)
  BY DEF Lock, Unlock
<1>3. \E u \in Threads \cup {NoThread} : heap' = [heap EXCEPT ![ent[t]].owner = u]
  BY DEF Lock, Unlock
<1>4. \A x \in Entries : heap'[x].file = heap[x].file /\ heap'[x].errors = heap[x].errors
  BY <1>0, <1>3 DEF EntryType
<1> QED  BY <1>0, <1>1, <1>2, <1>4 DEF Settled, Moves, goto

\* A new entry is as clean as the object it is made of.
LEMMA PinMoves ==
    ASSUME IInv, ErrorInv, NEW t \in Threads, Pin(t)
    PROVE  Settled /\ Moves(t)
<1>0. /\ pc \in [Threads -> PinnedPcs \cup OtherPcs] /\ heap \in [Entries -> EntryType]
      /\ cache \in [Keys -> Entries \cup {NoEntry}]
  BY DEF IInv, TypeOK, EntryType
<1>1. Moves(t)
  BY <1>0 DEF Pin, Moves, goto
<1>2. PICK k \in Keys : k = key[t]
  BY DEF Pin, IInv, LockInv, KeyInv
<1>3. CASE cache[k] # NoEntry
  <2>1. cache' = cache /\ db' = db /\ heap' = [heap EXCEPT ![cache[k]].pins = @ + 1]
    BY <1>2, <1>3 DEF Pin
  <2>2. \A x \in Entries : heap'[x].file = heap[x].file /\ heap'[x].errors = heap[x].errors
    BY <1>0, <2>1 DEF EntryType
  <2> QED  BY <1>1, <2>1, <2>2 DEF Settled
<1>4. CASE cache[k] = NoEntry
  <2>1. PICK e \in Entries : /\ Unused(e)
                             /\ heap' = [heap EXCEPT ![e] = [Fresh EXCEPT !.pins = 1]]
                             /\ cache' = [cache EXCEPT ![k] = e]
                             /\ db' = db
    BY <1>2, <1>4 DEF Pin
  <2>2. heap[e].file = NoFile /\ heap[e].errors = 0
    BY <2>1 DEF Unused, IInv, LockInv, CleanInv, InCache, ErrorInv
  <2>3. heap'[e].file = NoFile /\ heap'[e].errors = 0
    BY <1>0, <2>1 DEF Fresh
  <2>4. \A x \in Entries : heap'[x].file = heap[x].file /\ heap'[x].errors = heap[x].errors
    BY <1>0, <2>1, <2>2, <2>3
  <2>5. ASSUME NEW l \in Keys, cache'[l] # cache[l] PROVE ~Dirty(l) /\ ~Dirty(l)'
    <3>1. l = k /\ cache[l] = NoEntry /\ cache'[l] = e
      BY <1>0, <1>4, <2>1, <2>5
    <3> QED  BY <2>3, <3>1 DEF Dirty
  <2> QED  BY <1>1, <2>1, <2>4, <2>5 DEF Settled
<1> QED  BY <1>3, <1>4

\* Only a clean entry is discarded.
LEMMA UnpinMoves ==
    ASSUME IInv, NEW t \in Threads, Unpin(t)
    PROVE  Settled /\ Moves(t)
<1>0. /\ pc \in [Threads -> PinnedPcs \cup OtherPcs] /\ heap \in [Entries -> EntryType]
      /\ cache \in [Keys -> Entries \cup {NoEntry}] /\ key \in [Threads -> Keys \cup {NoKey}]
      /\ seen \in [Threads -> Cached]
  BY DEF IInv, TypeOK, EntryType
<1>1. pc[t] = "unpin" /\ db' = db /\ \E p \in {"next", "idle"} : goto(t, p)
  BY DEF Unpin, Return
<1>2. \A u \in Threads : u # t => key'[u] = key[u] /\ seen'[u] = seen[u]
  BY <1>0 DEF Unpin, Return
<1>3. Moves(t)
  BY <1>0, <1>1, <1>2 DEF Moves, goto
<1>4. PICK k \in Keys : k = key[t]
  BY <1>1 DEF IInv, LockInv, KeyInv, Pinned, PinnedPcs
<1>5. CASE cache[k] = NoEntry
  <2>1. UNCHANGED <<cache, heap>>
    BY <1>4, <1>5 DEF Unpin
  <2> QED  BY <1>1, <1>3, <2>1 DEF Settled
<1>6. CASE cache[k] # NoEntry
  <2>1. /\ heap' = [heap EXCEPT ![cache[k]].pins = @ - 1]
        /\ cache' = IF Discards(k) THEN [cache EXCEPT ![k] = NoEntry] ELSE cache
    BY <1>4, <1>6 DEF Unpin
  <2>2. \A x \in Entries : heap'[x].file = heap[x].file /\ heap'[x].errors = heap[x].errors
    BY <1>0, <2>1 DEF EntryType
  <2>3. ASSUME NEW l \in Keys, cache'[l] # cache[l] PROVE ~Dirty(l) /\ ~Dirty(l)'
    <3>1. l = k /\ heap[cache[k]].file = NoFile /\ cache'[l] = NoEntry
      BY <1>0, <2>1, <2>3 DEF Discards
    <3> QED  BY <3>1 DEF Dirty
  <2> QED  BY <1>1, <1>3, <2>2, <2>3 DEF Settled
<1> QED  BY <1>5, <1>6

-----------------------------------------------------------------------------
(* The refinement                                                          *)

\* One file takes an effect, the others keep theirs.
LEMMA PutOne ==
    ASSUME RowsOK, RowsOK', NEW k \in Keys, NEW c, NEW d, NEW n, Takes(k, c, d, n),
           \A l \in Keys : l # k => Content(l)' = Content(l) /\ Fails(l)' = Fails(l) /\ db'[l] = db[l]
    PROVE  Promise!Put(k, c, d, n)
<1>1. db' = [db EXCEPT ![k] = d]
  BY DEF RowsOK, Takes
<1>2. [l \in Keys |-> Content(l)]' = [[l \in Keys |-> Content(l)] EXCEPT ![k] = c]
  BY DEF Takes
<1>3. [l \in Keys |-> Fails(l)]' = [[l \in Keys |-> Fails(l)] EXCEPT ![k] = n]
  BY DEF Takes
<1> QED  BY <1>1, <1>2, <1>3 DEF Promise!Put

LEMMA EffectIsPromised ==
    ASSUME RowsOK, RowsOK', NEW k \in Keys, Effect(k),
           \A l \in Keys : l # k => Content(l)' = Content(l) /\ Fails(l)' = Fails(l) /\ db'[l] = db[l]
    PROVE  Promise!Next \/ UNCHANGED Promise!vars
<1>0. \A c, d, n : Takes(k, c, d, n) => Promise!Put(k, c, d, n)
  BY PutOne
<1>1. /\ [l \in Keys |-> Content(l)][k] = Content(k)
      /\ [l \in Keys |-> Fails(l)][k] = Fails(k)
  OBVIOUS
<1>2. CASE Stays(k)
  <2>1. \A l \in Keys : Content(l)' = Content(l) /\ Fails(l)' = Fails(l) /\ db'[l] = db[l]
    BY <1>2 DEF Stays, Takes
  <2>2. db' = db
    BY <2>1 DEF RowsOK
  <2> QED  BY <2>1, <2>2 DEF Promise!vars
<1>3. CASE Content(k) = NoFile /\ Takes(k, 0, 0, 0)
  <2>1. Promise!Create(k)
    BY <1>0, <1>1, <1>3 DEF Promise!Create
  <2> QED  BY <2>1 DEF Promise!Next
<1>4. CASE Takes(k, NoFile, NoFile, 0)
  <2>1. Promise!Remove(k)
    BY <1>0, <1>4 DEF Promise!Remove
  <2> QED  BY <2>1 DEF Promise!Next
<1>5. CASE Content(k) # NoFile /\ Takes(k, Content(k) + 1, db[k], Fails(k))
  <2>1. Promise!Append(k)
    BY <1>0, <1>1, <1>5 DEF Promise!Append
  <2> QED  BY <2>1 DEF Promise!Next
<1>6. CASE Content(k) # NoFile /\ Takes(k, WriteSize, db[k], Fails(k))
  <2>1. Promise!Replace(k)
    BY <1>0, <1>1, <1>6 DEF Promise!Replace
  <2> QED  BY <2>1 DEF Promise!Next
<1>7. CASE \/ \E n \in {0, Fails(k)} : Takes(k, Content(k), Content(k), n)
           \/ Fails(k) < MaxFlushErrors /\ Takes(k, Content(k), db[k], Fails(k) + 1)
           \/ Fails(k) = MaxFlushErrors /\ Takes(k, db[k], db[k], 0)
  <2>1. Promise!Flush(k)
    BY <1>0, <1>1, <1>7 DEF Promise!Flush
  <2> QED  BY <2>1 DEF Promise!Next
<1> QED  BY <1>2, <1>3, <1>4, <1>5, <1>6, <1>7 DEF Effect

\* A crash leaves of each file what is durable.
LEMMA CrashView ==
    ASSUME Crash, RowsOK
    PROVE  ViewInv' /\ Promise!Crash
<1>1. \A l \in Keys : cache'[l] = NoEntry
  BY DEF Crash, NoCache
<1>2. \A l \in Keys : ~Dirty(l)' /\ Content(l)' = db[l] /\ Fails(l)' = 0
  BY <1>1 DEF Crash, Dirty, Content, Fails
<1>3. \A u \in Threads : pc'[u] = "idle"
  BY DEF Crash, All
<1>4. RowInv'
  BY <1>2, <1>3 DEF RowInv
<1>5. ErrorInv'
  BY DEF Crash, NewHeap, Fresh, ErrorInv
<1>6. ReadsAreWhole'
  BY <1>3 DEF ReadsAreWhole
<1>7. [l \in Keys |-> Content(l)]' = db /\ [l \in Keys |-> Fails(l)]' = [l \in Keys |-> 0]
  BY <1>2 DEF RowsOK
<1>8. Promise!Crash
  BY <1>7 DEF Promise!Crash, Crash
<1> QED  BY <1>4, <1>5, <1>6, <1>8 DEF ViewInv

LEMMA ViewStep ==
    ASSUME IInv, ViewInv, [Next]_vars
    PROVE  ViewInv' /\ [Promise!Next]_Promise!vars
<1>0. RowsOK /\ RowsOK'
  BY IInvStep DEF IInv, TypeOK, RowsOK
<1>1. ASSUME NEW t \in Threads, Work(t) PROVE ViewInv' /\ [Promise!Next]_Promise!vars
  <2>1. PICK k \in Keys : k = key[t]
    BY <1>1, WorkLocal, HolderFacts
  <2>2. OwnInv(t)' /\ Effect(k)
    BY <1>1, <2>1, WorkEffect
  <2>3. /\ UNCHANGED <<cache, key, ent>> /\ cache[k] = ent[t] /\ ent[t] # NoEntry
        /\ \A l \in Keys : l # k => db'[l] = db[l]
    BY <1>1, <2>1, WorkLocal, HolderFacts
  <2>4. /\ Dirty(key[t])' /\ db'[key[t]] = NoFile => pc'[t] = "clear"
        /\ pc'[t] = "clear" => db'[key[t]] = NoFile
        /\ heap'[ent[t]].file = NoFile => heap'[ent[t]].errors = 0
        /\ pc'[t] = "parts" => seen'[t] = Content(key[t])'
    BY <2>1, <2>2, <2>3 DEF OwnInv, Dirty, Content
  <2>5. ViewInv' /\ \A l \in Keys : l # k => Content(l)' = Content(l) /\ Fails(l)' = Fails(l)
    BY <1>1, <2>1, <2>4, WorkKeepsView
  <2>6. Promise!Next \/ UNCHANGED Promise!vars
    BY <1>0, <2>2, <2>3, <2>5, EffectIsPromised
  <2> QED  BY <2>5, <2>6
<1>2. ASSUME NEW t \in Threads, Settled, Moves(t) PROVE ViewInv' /\ [Promise!Next]_Promise!vars
  <2>1. ViewInv' /\ \A l \in Keys : Content(l)' = Content(l) /\ Fails(l)' = Fails(l)
    BY <1>2, QuietView
  <2>2. UNCHANGED Promise!vars
    BY <1>2, <2>1 DEF Settled, Promise!vars
  <2> QED  BY <2>1, <2>2
<1>3. ASSUME NEW t \in Threads, Call(t) \/ Step(t) PROVE ViewInv' /\ [Promise!Next]_Promise!vars
  BY <1>1, <1>2, <1>3, CallMoves, LockMoves, PinMoves, UnpinMoves DEF Step, ViewInv
<1>4. CASE Crash
  BY <1>0, <1>4, CrashView DEF Promise!Next
<1>5. CASE UNCHANGED vars
  <2>1. ViewInv'
    BY <1>5 DEF vars, ViewInv, RowInv, ErrorInv, ReadsAreWhole, Dirty, Content, Clearing
  <2>2. UNCHANGED Promise!vars
    BY <1>5 DEF vars, Promise!vars, Content, Fails, Dirty
  <2> QED  BY <2>1, <2>2
<1> QED  BY <1>3, <1>4, <1>5 DEF Next

LEMMA InitView == Init => ViewInv /\ Promise!Init
<1> SUFFICES ASSUME Init PROVE ViewInv /\ Promise!Init
  OBVIOUS
<1>1. \A l \in Keys : cache[l] = NoEntry /\ db[l] = NoFile
  BY DEF Init, NoCache, NoFiles
<1>2. \A l \in Keys : ~Dirty(l) /\ Content(l) = NoFile /\ Fails(l) = 0
  BY <1>1 DEF Dirty, Content, Fails
<1>3. \A u \in Threads : pc[u] = "idle"
  BY DEF Init, All
<1>4. ErrorInv
  BY DEF Init, NewHeap, Fresh, ErrorInv
<1>5. ViewInv
  BY <1>2, <1>3, <1>4 DEF ViewInv, RowInv, ReadsAreWhole
<1>6. Promise!Init
  BY <1>2 DEF Promise!Init, Init, NoFiles
<1> QED  BY <1>5, <1>6

LEMMA ViewHolds == Spec => []ViewInv
<1>1. Init => IInv /\ ViewInv
  BY InitIInv, InitView
<1>2. (IInv /\ ViewInv) /\ [Next]_vars => (IInv /\ ViewInv)'
  BY IInvStep, ViewStep
<1> QED  BY <1>1, <1>2, PTL DEF Spec

\* The row that a reader loads and the parts it reads afterwards are of one
\* state of the file, however many write, flush, delete or list meanwhile.
THEOREM ReadsWhole == Spec => []ReadsAreWhole
<1>1. ViewInv => ReadsAreWhole  BY DEF ViewInv
<1> QED  BY <1>1, ViewHolds, PTL

\* The store, its cache, its locks, its flusher and its failures together are
\* files whose operations take effect at one moment each.
THEOREM Implements == Spec => ImplementsFiles
<1>1. Init => Promise!Init
  BY InitView
<1>2. IInv /\ ViewInv /\ [Next]_vars => [Promise!Next]_Promise!vars
  BY ViewStep
<1> QED  BY <1>1, <1>2, InvariantHolds, ViewHolds, PTL DEF Spec, ImplementsFiles, Promise!Spec

-----------------------------------------------------------------------------
(* BrokerHistory                                                           *)

AllScopes == Scopes \cup {AnyScope}
Active == [pc : {"persist", "client", "match", "send"}, event : Events, to : SUBSET Routes]

HistoryTypeOK ==
    /\ BrokerTypeOK
    /\ want \in [Routes -> [Types -> SUBSET (AllScopes \cup Patterns)]]
    /\ stored \in [Types -> [AllScopes -> Seq(Events)]]
    /\ late \in [Routes -> [type : Types, read : SUBSET Events] \cup {NotLate}]

-----------------------------------------------------------------------------
(* The inductive invariant.                                                *)

\* The three tables say of every route what it asked for last.
SubsAreWants ==
    \A r \in Routes, t \in Types :
        /\ r \in AllSubs[t] <=> AnyScope \in want[r][t]
        /\ \A s \in Scopes : r \in ScopeSubs[t][s] <=> s \in want[r][t]
        /\ \A q \in Patterns : r \in StarSubs[t][q] <=> q \in want[r][t]

\* The elements of a history are events of its type, and the last that were stored.
Suffix(a, b) == Len(a) <= Len(b) /\ \A i \in 1 .. Len(a) : a[i] = b[Len(b) - Len(a) + i]

HistoriesAreSuffixes ==
    \A t \in Types : \A s \in AllScopes :
        /\ Suffix(PersistMap[t][s], stored[t][s])
        /\ \A i \in 1 .. Len(PersistMap[t][s]) : PersistMap[t][s][i].type = t

\* Who is subscribed has gone through the broker's client.
WantsHaveClient == \A r \in Routes, t \in Types : want[r][t] # {} => Client

\* A late subscriber is subscribed to all scopes still.
LateAreSubscribed == \A r \in Routes : late[r] # NotLate => AnyScope \in want[r][late[r].type]

HistoryInv ==
    /\ HistoryTypeOK
    /\ SubsAreWants /\ WantsHaveClient /\ HistoriesAreSuffixes /\ LateAreSubscribed
    /\ NoEventMissed

-----------------------------------------------------------------------------
(* Histories.                                                              *)

LEMMA LastOfFacts ==
    ASSUME NEW S, NEW q \in Seq(S), NEW n \in Nat
    PROVE  /\ LastOf(q, n) \in Seq(S)
           /\ Len(LastOf(q, n)) = IF Len(q) > n THEN n ELSE Len(q)
           /\ \A i \in 1 .. Len(LastOf(q, n)) : LastOf(q, n)[i] = q[Len(q) - Len(LastOf(q, n)) + i]
<1>0. Len(q) \in Nat /\ \A i \in 1 .. Len(q) : q[i] \in S
  BY LenProperties, ElementOfSeq
<1>1. CASE Len(q) > n
  <2>0. PICK m, k : m = Len(q) - n + 1 /\ k = Len(q)
    OBVIOUS
  <2>1. m \in Int /\ k \in Int /\ k - m + 1 = n /\ 1 <= m /\ m <= k + 1 /\ \A i \in m .. k : q[i] \in S
    BY <1>0, <1>1, <2>0
  <2>2. PICK z : z = SubSeq(q, m, k)
    OBVIOUS
  <2>3. z \in Seq(S) /\ (Len(z) = IF m <= k THEN k - m + 1 ELSE 0) /\ \A i \in 1 .. k - m + 1 : z[i] = q[m + i - 1]
    BY <2>1, <2>2, SubSeqProperties
  <2>4. LastOf(q, n) = z
    BY <1>1, <2>0, <2>2 DEF LastOf
  <2>5. Len(z) = n
    BY <2>1, <2>3
  <2>6. \A i \in 1 .. n : m + i - 1 = k - n + i /\ z[i] = q[m + i - 1]
    BY <2>1, <2>3
  <2>7. \A i \in 1 .. Len(z) : z[i] = q[k - Len(z) + i]
    BY <2>5, <2>6
  <2>8. Len(z) = (IF k > n THEN n ELSE k)
    BY <1>1, <2>0, <2>5
  <2> QED  BY <2>0, <2>3, <2>4, <2>7, <2>8
<1>2. CASE ~(Len(q) > n)
  BY <1>0, <1>2 DEF LastOf
<1> QED  BY <1>1, <1>2

LEMMA StoredFacts ==
    ASSUME NEW S, NEW q \in Seq(S), NEW e \in S, NumPersist(e) \in 0 .. MaxPersist, MaxPersist \in Nat
    PROVE  /\ Stored(e, q) \in Seq(S)
           /\ Len(Stored(e, q)) <= MaxPersist /\ Len(Stored(e, q)) <= Len(q) + 1
           /\ \A i \in 1 .. Len(Stored(e, q)) :
                 Stored(e, q)[i] = Append(q, e)[Len(q) + 1 - Len(Stored(e, q)) + i]
<1>1. PICK a : a = Append(q, e)
  OBVIOUS
<1>2. a \in Seq(S) /\ Len(a) = Len(q) + 1 /\ Len(q) \in Nat
  BY <1>1, AppendProperties, LenProperties
<1>3. PICK n, x : n = NumPersist(e) /\ x = Stored(e, q) /\ n \in Nat /\ n <= MaxPersist
  OBVIOUS
<1>4. x = LastOf(a, n)
  BY <1>1, <1>3 DEF Stored
<1>5. /\ x \in Seq(S) /\ Len(x) \in Nat
      /\ Len(x) = IF Len(a) > n THEN n ELSE Len(a)
      /\ \A i \in 1 .. Len(x) : x[i] = a[Len(a) - Len(x) + i]
  <2>1. /\ LastOf(a, n) \in Seq(S)
        /\ Len(LastOf(a, n)) = IF Len(a) > n THEN n ELSE Len(a)
        /\ \A i \in 1 .. Len(LastOf(a, n)) : LastOf(a, n)[i] = a[Len(a) - Len(LastOf(a, n)) + i]
    BY <1>2, <1>3, LastOfFacts
  <2> QED  BY <1>4, <2>1, LenProperties
<1>6. Len(x) <= MaxPersist /\ Len(x) <= Len(q) + 1
  BY <1>2, <1>3, <1>5
<1>7. \A i \in 1 .. Len(x) : x[i] = a[Len(q) + 1 - Len(x) + i]
  BY SMTT(30), <1>2, <1>5
<1> QED  BY <1>1, <1>3, <1>5, <1>6, <1>7

\* An event that is stored is the last of its histories, and what stays before it stayed in order.
LEMMA SuffixGrows ==
    ASSUME NEW S, NEW a \in Seq(S), NEW b \in Seq(S), NEW e \in S, Suffix(a, b),
           NumPersist(e) \in 0 .. MaxPersist, MaxPersist \in Nat
    PROVE  Suffix(Stored(e, a), Append(b, e))
<1>1. PICK x, y, n : x = Stored(e, a) /\ y = Append(b, e) /\ n = Len(x)
  OBVIOUS
<1>2. x \in Seq(S) /\ n \in Nat /\ n <= Len(a) + 1 /\ \A i \in 1 .. n : x[i] = Append(a, e)[Len(a) + 1 - n + i]
  BY ZenonT(60), <1>1, StoredFacts, LenProperties
<1>3. /\ Len(y) = Len(b) + 1 /\ y[Len(b) + 1] = e /\ \A i \in 1 .. Len(b) : y[i] = b[i]
      /\ Append(a, e)[Len(a) + 1] = e /\ \A i \in 1 .. Len(a) : Append(a, e)[i] = a[i]
  BY <1>1, AppendProperties
<1>4. Len(a) \in Nat /\ Len(b) \in Nat /\ Len(a) <= Len(b) /\ \A i \in 1 .. Len(a) : a[i] = b[Len(b) - Len(a) + i]
  BY LenProperties DEF Suffix
<1>5. ASSUME NEW i \in 1 .. n PROVE x[i] = y[Len(y) - n + i]
  <2>1. CASE i = n
    BY <1>2, <1>3, <1>4, <2>1
  <2>2. CASE i # n
    <3>1. PICK j : j = Len(a) + 1 - n + i
      OBVIOUS
    <3>2. j \in 1 .. Len(a) /\ Len(b) - Len(a) + j \in 1 .. Len(b) /\ Len(b) - Len(a) + j = Len(y) - n + i
      BY <1>2, <1>3, <1>4, <2>2, <3>1
    <3>3. x[i] = a[j] /\ a[j] = b[Len(b) - Len(a) + j] /\ b[Len(b) - Len(a) + j] = y[Len(b) - Len(a) + j]
      BY <1>2, <1>3, <1>4, <3>1, <3>2
    <3> QED  BY <3>2, <3>3
  <2> QED  BY <2>1, <2>2
<1>6. n <= Len(y)
  BY <1>2, <1>3, <1>4
<1> QED  BY <1>1, <1>5, <1>6 DEF Suffix

LEMMA SuffixMeans ==
    ASSUME NEW S, NEW a \in Seq(S), NEW b \in Seq(S), Suffix(a, b)
    PROVE  IsSuffix(a, b)
<1>1. PICK x, y : x = Reverse(a) /\ y = Reverse(b)
  OBVIOUS
<1>2. Len(a) \in Nat /\ Len(b) \in Nat /\ Len(a) <= Len(b) /\ \A i \in 1 .. Len(a) : a[i] = b[Len(b) - Len(a) + i]
  BY LenProperties DEF Suffix
<1>3. x \in Seq(S) /\ y \in Seq(S) /\ Len(x) = Len(a) /\ Len(y) = Len(b)
  <2>1. (\A i \in 1 .. Len(a) : a[i] \in S) /\ (\A i \in 1 .. Len(b) : b[i] \in S)
    BY ElementOfSeq
  <2>2. (\A i \in 1 .. Len(a) : Len(a) - i + 1 \in 1 .. Len(a)) /\ (\A i \in 1 .. Len(b) : Len(b) - i + 1 \in 1 .. Len(b))
    BY <1>2
  <2>3. x \in [1 .. Len(a) -> S] /\ y \in [1 .. Len(b) -> S]
    BY <1>1, <2>1, <2>2 DEF Reverse
  <2>4. \A n \in Nat : \A f \in [1 .. n -> S] : f \in Seq(S) /\ Len(f) = n
    OBVIOUS
  <2> QED  BY <1>2, <2>3, <2>4
<1>4. \A i \in 1 .. Len(a) : x[i] = y[i]
  <2> SUFFICES ASSUME NEW i \in 1 .. Len(a) PROVE x[i] = y[i]
    OBVIOUS
  <2>1. x[i] = a[Len(a) - i + 1] /\ y[i] = b[Len(b) - i + 1]
    BY <1>1, <1>2 DEF Reverse
  <2>2. PICK j, m, n : j = m - i + 1 /\ m = Len(a) /\ n = Len(b)
    OBVIOUS
  <2>3. m \in Nat /\ n \in Nat /\ i \in 1 .. m /\ j = m - i + 1
    BY <1>2, <2>2
  <2>4. j \in 1 .. m /\ n - m + j = n - i + 1
    BY <2>3
  <2> QED  BY <1>2, <2>1, <2>2, <2>4
<1>5. SubSeq(x, 1, Len(x)) = SubSeq(y, 1, Len(x))
  <2>1. PICK n : n = Len(a)
    OBVIOUS
  <2>2. /\ n \in Nat /\ n = Len(x) /\ n <= Len(y)
        /\ \A i \in 1 .. n : x[i] = y[i] /\ x[i] \in S /\ y[i] \in S
    BY <1>2, <1>3, <1>4, <2>1, ElementOfSeq
  <2>3. PICK u, v : u = SubSeq(x, 1, n) /\ v = SubSeq(y, 1, n)
    OBVIOUS
  <2>4. /\ u \in Seq(S) /\ (Len(u) = IF 1 <= n THEN n - 1 + 1 ELSE 0) /\ \A i \in 1 .. n - 1 + 1 : u[i] = x[1 + i - 1]
        /\ v \in Seq(S) /\ (Len(v) = IF 1 <= n THEN n - 1 + 1 ELSE 0) /\ \A i \in 1 .. n - 1 + 1 : v[i] = y[1 + i - 1]
    BY <2>2, <2>3, SubSeqProperties
  <2>5. Len(u) = n /\ Len(v) = n /\ \A i \in 1 .. n : u[i] = v[i]
    <3>1. n \in Nat /\ n - 1 + 1 = n /\ (n < 1 => n = 0)
      BY <2>2
    <3>2. Len(u) = n /\ Len(v) = n
      BY <2>4, <3>1
    <3>3. ASSUME NEW i \in 1 .. n PROVE u[i] = v[i]
      <4>1. 1 + i - 1 = i
        BY <3>1
      <4>2. u[i] = x[i] /\ v[i] = y[i]
        BY <2>4, <3>1, <4>1
      <4> QED  BY <2>2, <4>2
    <3> QED  BY <3>2, <3>3
  <2> QED  BY <2>2, <2>3, <2>4, <2>5, SeqEqual
<1> QED  BY <1>1, <1>2, <1>3, <1>5 DEF IsSuffix, IsPrefix

-----------------------------------------------------------------------------
(* Types.                                                                  *)

LEMMA EventFacts ==
    /\ \A n \in 1 .. MaxEvents, t \in Types, scopes \in SUBSET Scopes, k \in Persists : Event(n, t, scopes, k) \in Events
    /\ \A e \in Events : /\ e.type \in Types /\ e.scopes \subseteq Scopes /\ e.persist \in Persists
                       /\ NumPersist(e) \in 0 .. MaxPersist
    /\ \A n, t, scopes, k : Event(n, t, scopes, k).type = t /\ Event(n, t, scopes, k).scopes = scopes
    /\ Idle.pc = "idle" /\ Idle.to = {}
<1>1. MaxPersist \in Nat /\ Persists \subseteq Nat
  BY BrokerAssumption
<1>2. \A e \in Events : NumPersist(e) \in 0 .. MaxPersist
  <2> SUFFICES ASSUME NEW e \in Events PROVE NumPersist(e) \in 0 .. MaxPersist
    OBVIOUS
  <2>1. e.persist \in Nat
    BY <1>1 DEF Events
  <2> QED  BY <1>1, <2>1 DEF NumPersist
<1> QED  BY <1>2 DEF Event, Events, Idle

\* Who does something has an event.
LEMMA ActiveFacts ==
    ASSUME BrokerTypeOK, NEW p \in Publishers, pub[p].pc # "idle"
    PROVE  pub[p] \in Active /\ pub[p].event \in Events /\ pub[p].to \subseteq Routes /\ pub[p].event.type \in Types
<1>1. pub[p] \in {Idle} \cup Active
  BY DEF BrokerTypeOK, Active
<1>2. pub[p] \in Active
  BY <1>1, EventFacts
<1> QED  BY <1>2, EventFacts DEF Active

LEMMA MatchingFacts ==
    \A e : \A r : r \in MatchingRoutes(e) <=>
        \/ r \in AllSubs[e.type]
        \/ \E s \in e.scopes : r \in ScopeSubs[e.type][s]
        \/ \E q \in Patterns : (\E s \in e.scopes : StarMatch(q, s)) /\ r \in StarSubs[e.type][q]
<1> SUFFICES ASSUME NEW e, NEW r
             PROVE  r \in MatchingRoutes(e) <=>
                      \/ r \in AllSubs[e.type]
                      \/ \E s \in e.scopes : r \in ScopeSubs[e.type][s]
                      \/ \E q \in Patterns : (\E s \in e.scopes : StarMatch(q, s)) /\ r \in StarSubs[e.type][q]
  OBVIOUS
<1>1. r \in UNION {ScopeSubs[e.type][s] : s \in e.scopes} <=> \E s \in e.scopes : r \in ScopeSubs[e.type][s]
  OBVIOUS
<1>2. PICK Q : Q = {x \in Patterns : \E s \in e.scopes : StarMatch(x, s)}
  OBVIOUS
<1>3. r \in UNION {StarSubs[e.type][q] : q \in Q} <=> \E q \in Q : r \in StarSubs[e.type][q]
  OBVIOUS
<1>4. \A q : q \in Q <=> q \in Patterns /\ \E s \in e.scopes : StarMatch(q, s)
  BY <1>2
<1>5. MatchingRoutes(e) =
        AllSubs[e.type] \cup (UNION {ScopeSubs[e.type][s] : s \in e.scopes}) \cup (UNION {StarSubs[e.type][q] : q \in Q})
  BY <1>2 DEF MatchingRoutes
<1>6. (\E q \in Q : r \in StarSubs[e.type][q]) <=>
        \E q \in Patterns : (\E s \in e.scopes : StarMatch(q, s)) /\ r \in StarSubs[e.type][q]
  BY <1>4, Zenon
<1> QED  BY <1>1, <1>3, <1>5, <1>6

LEMMA BrokerTypeInit == HistoryInit => HistoryTypeOK
<1> SUFFICES ASSUME HistoryInit PROVE HistoryTypeOK
  OBVIOUS
<1>1. 0 \in 0 .. MaxEvents /\ MaxPersist \in Nat
  BY BrokerAssumption
<1>2. \A S : <<>> \in Seq(S) /\ Len(<<>>) = 0
  BY EmptySeq
<1>3. BrokerTypeOK
  <2>1. PersistMap \in [Types -> [Scopes \cup {AnyScope} -> Seq(Events)]]
    BY <1>2 DEF HistoryInit, BrokerInit
  <2>2. \A t \in Types, s \in Scopes \cup {AnyScope} : Len(PersistMap[t][s]) <= MaxPersist
    <3>1. \A t \in Types, s \in Scopes \cup {AnyScope} : PersistMap[t][s] = <<>>
      BY DEF HistoryInit, BrokerInit
    <3> QED  BY <1>1, <1>2, <3>1
  <2>3. events \in 0 .. MaxEvents /\ Client \in BOOLEAN /\ received \in [Routes -> Seq(Events)]
    BY <1>1, <1>2 DEF HistoryInit, BrokerInit
  <2>4. pub \in [Publishers -> {Idle} \cup [pc : {"persist", "client", "match", "send"}, event : Events, to : SUBSET Routes]]
    BY DEF HistoryInit, BrokerInit
  <2>5. /\ AllSubs \in [Types -> SUBSET Routes]
        /\ ScopeSubs \in [Types -> [Scopes -> SUBSET Routes]]
        /\ StarSubs \in [Types -> [Patterns -> SUBSET Routes]]
    BY DEF HistoryInit, BrokerInit
  <2> QED  BY <2>1, <2>2, <2>3, <2>4, <2>5 DEF BrokerTypeOK
<1>4. stored \in [Types -> [AllScopes -> Seq(Events)]]
  BY <1>2 DEF HistoryInit, AllScopes
<1> QED  BY <1>3, <1>4 DEF HistoryInit, HistoryTypeOK

\* PersistEvent stores the event of p.
LEMMA HistoryStep ==
    ASSUME HistoryTypeOK, NEW p \in Publishers, PersistEvent(p)
    PROVE  LET e == pub[p].event IN
           /\ e \in Events /\ e.type \in Types
           /\ PersistMap' \in [Types -> [AllScopes -> Seq(Events)]]
           /\ \A t \in Types, s \in AllScopes :
                PersistMap'[t][s] = IF t = e.type /\ s \in e.scopes \cup {AnyScope}
                                    THEN Stored(e, PersistMap[t][s]) ELSE PersistMap[t][s]
<1> DEFINE e == pub[p].event
<1>1. e \in Events /\ e.type \in Types
  BY ActiveFacts DEF PersistEvent, HistoryTypeOK
<1>2. PersistMap \in [Types -> [AllScopes -> Seq(Events)]]
  BY DEF HistoryTypeOK, BrokerTypeOK, AllScopes
<1>3. PersistMap' = [PersistMap EXCEPT ![e.type] =
                       [s \in AllScopes |-> IF s \in e.scopes \cup {AnyScope} THEN Stored(e, PersistMap[e.type][s])
                                            ELSE PersistMap[e.type][s]]]
  BY <1>1, <1>2 DEF PersistEvent
<1>4. \A s \in AllScopes : Stored(e, PersistMap[e.type][s]) \in Seq(Events)
  <2> SUFFICES ASSUME NEW s \in AllScopes PROVE Stored(e, PersistMap[e.type][s]) \in Seq(Events)
    OBVIOUS
  <2>1. PICK q \in Seq(Events) : q = PersistMap[e.type][s]
    BY <1>1, <1>2
  <2>2. PICK x : x = e /\ x \in Events /\ NumPersist(x) \in 0 .. MaxPersist
    BY <1>1, EventFacts
  <2>3. Stored(x, q) \in Seq(Events)
    BY <2>2, StoredFacts, BrokerAssumption
  <2> QED  BY <2>1, <2>2, <2>3
<1> HIDE DEF e
<1>5. PersistMap' \in [Types -> [AllScopes -> Seq(Events)]]
  BY <1>1, <1>2, <1>3, <1>4
<1>6. \A t \in Types, s \in AllScopes :
        PersistMap'[t][s] = IF t = e.type /\ s \in e.scopes \cup {AnyScope}
                            THEN Stored(e, PersistMap[t][s]) ELSE PersistMap[t][s]
  BY <1>1, <1>2, <1>3
<1> QED  BY <1>1, <1>5, <1>6 DEF e

LEMMA BrokerTypeStep == HistoryTypeOK /\ [HistoryNext]_historyVars => HistoryTypeOK'
<1> SUFFICES ASSUME HistoryTypeOK, [HistoryNext]_historyVars PROVE HistoryTypeOK'
  OBVIOUS
<1> USE DEF subVars, brokerVars
<1>0. BrokerTypeOK
  BY DEF HistoryTypeOK
<1>1. CASE SetClient /\ UNCHANGED <<want, stored, late>>
  BY <1>1 DEF SetClient, HistoryTypeOK, BrokerTypeOK
<1>2. ASSUME NEW p \in Publishers, Publishes(p) PROVE HistoryTypeOK'
  <2>1. stored' \in [Types -> [AllScopes -> Seq(Events)]]
    <3>1. CASE pub[p].pc = "persist"
      <4>1. stored' = Grown(pub[p].event) /\ pub[p].event \in Events
        BY <1>0, <1>2, <3>1, ActiveFacts DEF Publishes
      <4>2. \A t \in Types, s \in AllScopes : stored[t][s] \in Seq(Events) /\ Append(stored[t][s], pub[p].event) \in Seq(Events)
        <5> SUFFICES ASSUME NEW t \in Types, NEW s \in AllScopes
                     PROVE  stored[t][s] \in Seq(Events) /\ Append(stored[t][s], pub[p].event) \in Seq(Events)
          OBVIOUS
        <5>1. stored[t][s] \in Seq(Events)
          BY DEF HistoryTypeOK
        <5> QED  BY <4>1, <5>1, AppendProperties
      <4> QED  BY <4>1, <4>2 DEF Grown, AllScopes
    <3>2. CASE pub[p].pc # "persist"
      BY <1>2, <3>2 DEF Publishes, HistoryTypeOK
    <3> QED  BY <3>1, <3>2
  <2>2. BrokerTypeOK'
    <3>1. ASSUME NEW e \in Events, events < MaxEvents, PublishBegin(p, e) PROVE BrokerTypeOK'
      <4>1. pub' \in [Publishers -> {Idle} \cup [pc : {"persist", "client", "match", "send"}, event : Events, to : SUBSET Routes]]
        BY <1>0, <3>1 DEF PublishBegin, BrokerTypeOK
      <4>2. events' \in 0 .. MaxEvents
        BY <1>0, <3>1, BrokerAssumption DEF PublishBegin, BrokerTypeOK
      <4> QED  BY <1>0, <3>1, <4>1, <4>2 DEF PublishBegin, BrokerTypeOK
    <3>2. CASE PersistEvent(p)
      <4>1. PICK e \in Events :
              /\ e.type \in Types /\ PersistMap' \in [Types -> [AllScopes -> Seq(Events)]]
              /\ \A t \in Types, s \in AllScopes :
                   PersistMap'[t][s] = IF t = e.type /\ s \in e.scopes \cup {AnyScope}
                                       THEN Stored(e, PersistMap[t][s]) ELSE PersistMap[t][s]
        BY <3>2, HistoryStep
      <4>2. \A t \in Types, s \in AllScopes : Len(PersistMap'[t][s]) <= MaxPersist
        <5> SUFFICES ASSUME NEW t \in Types, NEW s \in AllScopes PROVE Len(PersistMap'[t][s]) <= MaxPersist
          OBVIOUS
        <5>1. PICK q \in Seq(Events) : q = PersistMap[t][s] /\ Len(q) <= MaxPersist
          BY <1>0 DEF BrokerTypeOK, AllScopes
        <5>2. Len(Stored(e, q)) <= MaxPersist
          BY StoredFacts, EventFacts, BrokerAssumption
        <5> QED  BY <4>1, <5>1, <5>2
      <4>3. pub' \in [Publishers -> {Idle} \cup [pc : {"persist", "client", "match", "send"}, event : Events, to : SUBSET Routes]]
        BY <1>0, <3>2, ActiveFacts DEF PersistEvent, BrokerTypeOK, Active
      <4> QED  BY <1>0, <3>2, <4>1, <4>2, <4>3 DEF PersistEvent, BrokerTypeOK, AllScopes
    <3>3. CASE GetClient(p) \/ PublishEnd(p)
      <4>1. pub' \in [Publishers -> {Idle} \cup [pc : {"persist", "client", "match", "send"}, event : Events, to : SUBSET Routes]]
        <5>1. pub[p] \in Active
          BY <1>0, <3>3, ActiveFacts, EventFacts DEF GetClient, PublishEnd
        <5>2. [pub[p] EXCEPT !.pc = "match"] \in Active
          BY <5>1 DEF Active
        <5>3. PICK g \in {Idle} \cup Active : pub' = [pub EXCEPT ![p] = g]
          BY <3>3, <5>2 DEF GetClient, PublishEnd
        <5> QED  BY <1>0, <5>3 DEF BrokerTypeOK, Active
      <4> QED  BY <1>0, <3>3, <4>1 DEF GetClient, PublishEnd, BrokerTypeOK
    <3>4. CASE getMatchingRouteIds(p)
      <4>1. pub[p] \in Active /\ pub[p].event.type \in Types /\ pub[p].event.scopes \subseteq Scopes
        BY <1>0, <3>4, ActiveFacts, EventFacts DEF getMatchingRouteIds
      <4>2. MatchingRoutes(pub[p].event) \subseteq Routes
        <5>1. PICK e : e = pub[p].event /\ e.type \in Types /\ e.scopes \subseteq Scopes
          BY <4>1
        <5>2. AllSubs[e.type] \subseteq Routes
          BY <1>0, <5>1 DEF BrokerTypeOK
        <5>3. \A s \in e.scopes : ScopeSubs[e.type][s] \subseteq Routes
          BY <1>0, <5>1 DEF BrokerTypeOK
        <5>4. \A q \in Patterns : StarSubs[e.type][q] \subseteq Routes
          BY <1>0, <5>1 DEF BrokerTypeOK
        <5> QED  BY <5>1, <5>2, <5>3, <5>4, MatchingFacts
      <4>3. pub' \in [Publishers -> {Idle} \cup [pc : {"persist", "client", "match", "send"}, event : Events, to : SUBSET Routes]]
        BY <1>0, <3>4, <4>1, <4>2 DEF getMatchingRouteIds, BrokerTypeOK, Active
      <4> QED  BY <1>0, <3>4, <4>3 DEF getMatchingRouteIds, BrokerTypeOK
    <3>5. ASSUME NEW r \in Routes, SendEvent(p, r) PROVE BrokerTypeOK'
      <4>1. pub[p] \in Active /\ pub[p].event \in Events
        BY <1>0, <3>5, ActiveFacts DEF SendEvent
      <4>2. received' \in [Routes -> Seq(Events)]
        BY <1>0, <3>5, <4>1, AppendProperties DEF SendEvent, BrokerTypeOK
      <4>3. pub' \in [Publishers -> {Idle} \cup [pc : {"persist", "client", "match", "send"}, event : Events, to : SUBSET Routes]]
        BY <1>0, <3>5, <4>1 DEF SendEvent, BrokerTypeOK, Active
      <4> QED  BY <1>0, <3>5, <4>2, <4>3 DEF SendEvent, BrokerTypeOK
    <3>6. events \in Nat /\ (events < MaxEvents => events + 1 \in 1 .. MaxEvents)
      BY <1>0, BrokerAssumption DEF BrokerTypeOK
    <3> QED  BY <1>2, <3>1, <3>2, <3>3, <3>4, <3>5, <3>6, EventFacts DEF Publishes, Publish, PublishStep
  <2> QED  BY <1>2, <2>1, <2>2 DEF Publishes, HistoryTypeOK
<1>3. ASSUME NEW r \in Routes, Asks(r) PROVE HistoryTypeOK'
  <2>1. PICK t \in Types, all \in BOOLEAN, scopes \in SUBSET (Scopes \cup Patterns) :
          /\ SubscribeCommand(r, t, all, scopes)
          /\ want' = [want EXCEPT ![r][t] = IF all THEN {AnyScope} ELSE scopes]
          /\ late' = [late EXCEPT ![r] = IF @.type = t /\ ~all THEN NotLate ELSE @]
    BY <1>3 DEF Asks
  <2>2. want' \in [Routes -> [Types -> SUBSET (AllScopes \cup Patterns)]]
    BY <2>1 DEF HistoryTypeOK, AllScopes
  <2>3. late' \in [Routes -> [type : Types, read : SUBSET Events] \cup {NotLate}]
    BY <2>1 DEF HistoryTypeOK
  <2>4. AllSubs' \in [Types -> SUBSET Routes]
    BY <1>0, <2>1 DEF SubscribeCommand, Subscribe, BrokerTypeOK
  <2>5. ScopeSubs' \in [Types -> [Scopes -> SUBSET Routes]]
    BY <1>0, <2>1 DEF SubscribeCommand, Subscribe, Without, With, BrokerTypeOK
  <2>6. StarSubs' \in [Types -> [Patterns -> SUBSET Routes]]
    BY <1>0, <2>1 DEF SubscribeCommand, Subscribe, Without, With, BrokerTypeOK
  <2> QED  BY <1>0, <1>3, <2>1, <2>2, <2>3, <2>4, <2>5, <2>6 DEF Asks, SubscribeCommand, HistoryTypeOK, BrokerTypeOK
<1>4. ASSUME NEW r \in Routes, Leaves(r) PROVE HistoryTypeOK'
  <2>1. PICK types : /\ UnsubscribeCommand(r, types)
                     /\ want' = [want EXCEPT ![r] = [t \in Types |-> IF t \in types THEN {} ELSE @[t]]]
                     /\ late' = [late EXCEPT ![r] = IF @.type \in types THEN NotLate ELSE @]
    BY <1>4 DEF Leaves
  <2>2. want' \in [Routes -> [Types -> SUBSET (AllScopes \cup Patterns)]]
    BY <2>1 DEF HistoryTypeOK
  <2>3. late' \in [Routes -> [type : Types, read : SUBSET Events] \cup {NotLate}]
    BY <2>1 DEF HistoryTypeOK
  <2>4. PICK u : Unsubscribe(r, u) /\ UNCHANGED <<PersistMap, Client, pub, events, received>>
    BY <2>1 DEF UnsubscribeCommand, UnsubscribeAll
  <2>5. AllSubs' \in [Types -> SUBSET Routes]
    BY <1>0, <2>4 DEF Unsubscribe, BrokerTypeOK
  <2>6. ScopeSubs' \in [Types -> [Scopes -> SUBSET Routes]]
    BY <1>0, <2>4 DEF Unsubscribe, Without, BrokerTypeOK
  <2>7. StarSubs' \in [Types -> [Patterns -> SUBSET Routes]]
    BY <1>0, <2>4 DEF Unsubscribe, Without, BrokerTypeOK
  <2> QED  BY <1>0, <1>4, <2>2, <2>3, <2>4, <2>5, <2>6, <2>7 DEF Leaves, HistoryTypeOK, BrokerTypeOK
<1>5. ASSUME NEW r \in Routes, Reads(r) PROVE HistoryTypeOK'
  <2>1. PICK t \in Types : late' = [late EXCEPT ![r] = [type |-> t, read |-> ToSet(ReadEventHistory(t, AnyScope, MaxPersist))]]
    BY <1>5 DEF Reads
  <2>2. PICK q \in Seq(Events) : q = PersistMap[t][AnyScope]
    BY <1>0 DEF BrokerTypeOK
  <2>3. LastOf(q, MaxPersist) \in Seq(Events)
    BY LastOfFacts, BrokerAssumption
  <2>4. ToSet(LastOf(q, MaxPersist)) \subseteq Events
    BY <2>3, LenProperties, ElementOfSeq DEF ToSet
  <2>5. late' \in [Routes -> [type : Types, read : SUBSET Events] \cup {NotLate}]
    BY <2>1, <2>2, <2>4 DEF ReadEventHistory, HistoryTypeOK
  <2> QED  BY <1>0, <1>5, <2>5 DEF Reads, HistoryTypeOK, BrokerTypeOK
<1>6. CASE UNCHANGED historyVars
  BY <1>6 DEF historyVars, HistoryTypeOK, BrokerTypeOK
<1> QED  BY <1>1, <1>2, <1>3, <1>4, <1>5, <1>6 DEF HistoryNext

\* Types of the broker's state, and of what its users did; no history is longer than the limit.
THEOREM BrokerTypeCorrect == HistorySpec => []HistoryTypeOK
<1> QED  BY BrokerTypeInit, BrokerTypeStep, PTL DEF HistorySpec

-----------------------------------------------------------------------------
(* The invariant.                                                          *)

LEMMA InvInit == HistoryInit => HistoryInv
<1> SUFFICES ASSUME HistoryInit PROVE HistoryInv
  OBVIOUS
<1>1. HistoryTypeOK
  BY BrokerTypeInit
<1>2. SubsAreWants
  BY DEF SubsAreWants, HistoryInit, BrokerInit
<1>3. HistoriesAreSuffixes
  <2>1. \A t \in Types, s \in AllScopes : PersistMap[t][s] = <<>> /\ stored[t][s] = <<>>
    BY DEF HistoryInit, BrokerInit, AllScopes
  <2>2. Len(<<>>) = 0
    BY EmptySeq
  <2>3. Suffix(<<>>, <<>>) /\ 1 .. Len(<<>>) = {}
    BY <2>2 DEF Suffix
  <2> QED  BY <2>1, <2>3 DEF HistoriesAreSuffixes
<1>4. \A r \in Routes : late[r] = NotLate
  BY DEF HistoryInit
<1>5. WantsHaveClient
  BY DEF HistoryInit, WantsHaveClient
<1> QED  BY <1>1, <1>2, <1>3, <1>4, <1>5 DEF HistoryInv, LateAreSubscribed, NoEventMissed

LEMMA SubsStep == HistoryInv /\ [HistoryNext]_historyVars => SubsAreWants'
<1> SUFFICES ASSUME HistoryInv, [HistoryNext]_historyVars PROVE SubsAreWants'
  OBVIOUS
<1>0. BrokerTypeOK /\ HistoryTypeOK /\ SubsAreWants
  BY DEF HistoryInv, HistoryTypeOK
<1>1. ASSUME NEW q \in Routes, Asks(q) PROVE SubsAreWants'
  <2>1. PICK u \in Types, all \in BOOLEAN, scopes \in SUBSET (Scopes \cup Patterns) :
          /\ SubscribeCommand(q, u, all, scopes)
          /\ want' = [want EXCEPT ![q][u] = IF all THEN {AnyScope} ELSE scopes]
          /\ late' = [late EXCEPT ![q] = IF @.type = u /\ ~all THEN NotLate ELSE @]
    BY <1>1 DEF Asks
  <2>a. Subscribe(q, u, all, scopes)
    BY <2>1 DEF SubscribeCommand
  <2> SUFFICES ASSUME NEW r \in Routes, NEW t \in Types
               PROVE  /\ r \in AllSubs'[t] <=> AnyScope \in want'[r][t]
                      /\ \A s \in Scopes : r \in ScopeSubs'[t][s] <=> s \in want'[r][t]
                      /\ \A p \in Patterns : r \in StarSubs'[t][p] <=> p \in want'[r][t]
    BY DEF SubsAreWants
  <2>2. want'[r][t] = IF r = q /\ t = u THEN (IF all THEN {AnyScope} ELSE scopes) ELSE want[r][t]
    BY <1>0, <2>1 DEF HistoryTypeOK
  <2>3. r \in AllSubs'[t] <=> AnyScope \in want'[r][t]
    <3>1. r \in AllSubs'[t] <=> IF r = q /\ t = u THEN all ELSE r \in AllSubs[t]
      BY <1>0, <2>a DEF Subscribe, BrokerTypeOK
    <3> QED  BY <1>0, <2>1, <2>2, <3>1, BrokerAssumption DEF SubsAreWants
  <2>4. \A s \in Scopes : r \in ScopeSubs'[t][s] <=> s \in want'[r][t]
    <3>1. \A s \in Scopes : r \in ScopeSubs'[t][s] <=> IF r = q /\ t = u THEN ~all /\ s \in scopes ELSE r \in ScopeSubs[t][s]
      BY <1>0, <2>a DEF Subscribe, Without, With, BrokerTypeOK
    <3> QED  BY <1>0, <2>1, <2>2, <3>1, BrokerAssumption DEF SubsAreWants
  <2>5. \A p \in Patterns : r \in StarSubs'[t][p] <=> p \in want'[r][t]
    <3>1. \A p \in Patterns : r \in StarSubs'[t][p] <=> IF r = q /\ t = u THEN ~all /\ p \in scopes ELSE r \in StarSubs[t][p]
      BY <1>0, <2>a DEF Subscribe, Without, With, BrokerTypeOK
    <3> QED  BY <1>0, <2>1, <2>2, <3>1, BrokerAssumption DEF SubsAreWants
  <2> QED  BY <2>3, <2>4, <2>5
<1>2. ASSUME NEW q \in Routes, Leaves(q) PROVE SubsAreWants'
  <2>1. PICK types \in {{t} : t \in Types} \cup {Types} :
          UnsubscribeCommand(q, types) /\ want' = [want EXCEPT ![q] = [t \in Types |-> IF t \in types THEN {} ELSE @[t]]]
    BY <1>2 DEF Leaves
  <2>2. Unsubscribe(q, types)
    BY <2>1 DEF UnsubscribeCommand, UnsubscribeAll
  <2> SUFFICES ASSUME NEW r \in Routes, NEW t \in Types
               PROVE  /\ r \in AllSubs'[t] <=> AnyScope \in want'[r][t]
                      /\ \A s \in Scopes : r \in ScopeSubs'[t][s] <=> s \in want'[r][t]
                      /\ \A p \in Patterns : r \in StarSubs'[t][p] <=> p \in want'[r][t]
    BY DEF SubsAreWants
  <2>3. want'[r][t] = IF r = q /\ t \in types THEN {} ELSE want[r][t]
    BY <1>0, <2>1 DEF HistoryTypeOK
  <2>4. r \in AllSubs'[t] <=> r \in AllSubs[t] /\ ~(r = q /\ t \in types)
    BY <1>0, <2>2 DEF Unsubscribe, BrokerTypeOK
  <2>5. /\ \A s \in Scopes : r \in ScopeSubs'[t][s] <=> r \in ScopeSubs[t][s] /\ ~(r = q /\ t \in types)
        /\ \A p \in Patterns : r \in StarSubs'[t][p] <=> r \in StarSubs[t][p] /\ ~(r = q /\ t \in types)
    BY <1>0, <2>2 DEF Unsubscribe, Without, BrokerTypeOK
  <2> QED  BY <1>0, <2>3, <2>4, <2>5 DEF SubsAreWants
<1>3. ASSUME UNCHANGED <<AllSubs, ScopeSubs, StarSubs, want>> PROVE SubsAreWants'
  BY <1>0, <1>3 DEF SubsAreWants
<1>4. ASSUME NEW p \in Publishers, Publishes(p) PROVE UNCHANGED <<AllSubs, ScopeSubs, StarSubs, want>>
  BY <1>4 DEF Publishes, Publish, PublishStep, PublishBegin, PersistEvent, GetClient, getMatchingRouteIds, SendEvent,
     PublishEnd, subVars
<1> QED  BY <1>1, <1>2, <1>3, <1>4 DEF HistoryNext, SetClient, Reads, historyVars, brokerVars, subVars

LEMMA HistoriesStep == HistoryInv /\ [HistoryNext]_historyVars => HistoriesAreSuffixes'
<1> SUFFICES ASSUME HistoryInv, [HistoryNext]_historyVars PROVE HistoriesAreSuffixes'
  OBVIOUS
<1>0. BrokerTypeOK /\ HistoryTypeOK /\ HistoriesAreSuffixes
  BY DEF HistoryInv, HistoryTypeOK
<1>1. ASSUME NEW p \in Publishers, PersistEvent(p), stored' = Grown(pub[p].event) PROVE HistoriesAreSuffixes'
  <2>1. PICK e \in Events :
          /\ e = pub[p].event /\ e.type \in Types
          /\ \A t \in Types, s \in AllScopes :
               PersistMap'[t][s] = IF t = e.type /\ s \in e.scopes \cup {AnyScope}
                                   THEN Stored(e, PersistMap[t][s]) ELSE PersistMap[t][s]
    BY <1>0, <1>1, HistoryStep
  <2> SUFFICES ASSUME NEW t \in Types, NEW s \in AllScopes
               PROVE  /\ Suffix(PersistMap'[t][s], stored'[t][s])
                      /\ \A i \in 1 .. Len(PersistMap'[t][s]) : PersistMap'[t][s][i].type = t
    BY DEF HistoriesAreSuffixes, Suffix
  <2>2. PICK a \in Seq(Events), b \in Seq(Events) :
          /\ a = PersistMap[t][s] /\ b = stored[t][s] /\ Suffix(a, b)
          /\ \A i \in 1 .. Len(a) : a[i].type = t
    BY <1>0 DEF HistoryTypeOK, BrokerTypeOK, AllScopes, HistoriesAreSuffixes
  <2>3. stored'[t][s] = IF t = e.type /\ s \in e.scopes \cup {AnyScope} THEN Append(b, e) ELSE b
    BY <1>1, <2>1, <2>2 DEF Grown, AllScopes
  <2>4. CASE t = e.type /\ s \in e.scopes \cup {AnyScope}
    <3>1. PICK x : x = Stored(e, a) /\ x = PersistMap'[t][s]
      BY <2>1, <2>2, <2>4
    <3>2. NumPersist(e) \in 0 .. MaxPersist /\ MaxPersist \in Nat
      BY EventFacts, BrokerAssumption
    <3>3. Suffix(x, Append(b, e))
      BY <2>2, <3>1, <3>2, SuffixGrows
    <3>4. \A i \in 1 .. Len(x) : x[i].type = t
      <4>1. /\ x \in Seq(Events) /\ Len(x) <= Len(a) + 1
            /\ \A i \in 1 .. Len(x) : x[i] = Append(a, e)[Len(a) + 1 - Len(x) + i]
        <5>1. /\ Stored(e, a) \in Seq(Events) /\ Len(Stored(e, a)) <= Len(a) + 1
              /\ \A i \in 1 .. Len(Stored(e, a)) : Stored(e, a)[i] = Append(a, e)[Len(a) + 1 - Len(Stored(e, a)) + i]
          BY <3>2, StoredFacts
        <5> QED  BY <3>1, <5>1
      <4>2. PICK y, m, n : y = Append(a, e) /\ m = Len(a) /\ n = Len(x)
        OBVIOUS
      <4>3. /\ m \in Nat /\ n \in Nat /\ n <= m + 1
            /\ \A i \in 1 .. n : x[i] = y[m + 1 - n + i]
            /\ y[m + 1] = e /\ \A i \in 1 .. m : y[i] = a[i]
        <5>1. m \in Nat /\ Append(a, e)[m + 1] = e /\ \A i \in 1 .. m : Append(a, e)[i] = a[i]
          BY <4>2, LenProperties, AppendProperties
        <5>2. n \in Nat
          BY <4>1, <4>2, LenProperties
        <5> QED  BY <4>1, <4>2, <5>1, <5>2, Zenon
      <4>4. \A i \in 1 .. n : m + 1 - n + i \in 1 .. m + 1
        BY <4>3
      <4>5. \A i \in 1 .. m + 1 : y[i].type = t
        <5> SUFFICES ASSUME NEW i \in 1 .. m + 1 PROVE y[i].type = t
          OBVIOUS
        <5>1. i \in 1 .. m \/ i = m + 1
          BY <4>3
        <5> QED  BY <2>2, <2>4, <4>2, <4>3, <5>1
      <4> QED  BY ZenonT(60), <4>2, <4>3, <4>4, <4>5
    <3> QED  BY <2>3, <2>4, <3>1, <3>3, <3>4
  <2>5. CASE ~(t = e.type /\ s \in e.scopes \cup {AnyScope})
    BY <2>1, <2>2, <2>3, <2>5
  <2> QED  BY <2>4, <2>5
<1>2. ASSUME UNCHANGED <<PersistMap, stored>> PROVE HistoriesAreSuffixes'
  BY ZenonT(60), <1>0, <1>2 DEF HistoriesAreSuffixes, Suffix
<1>3. ASSUME NEW p \in Publishers, Publishes(p) PROVE HistoriesAreSuffixes'
  <2>1. CASE pub[p].pc = "persist"
    <3>1. PersistEvent(p)
      BY <1>3, <2>1, EventFacts DEF Publishes, Publish, PublishStep, PublishBegin, GetClient, getMatchingRouteIds, SendEvent, PublishEnd
    <3> QED  BY <1>1, <1>3, <2>1, <3>1 DEF Publishes
  <2>2. CASE pub[p].pc # "persist"
    <3>1. UNCHANGED <<PersistMap, stored>>
      BY <1>3, <2>2 DEF Publishes, Publish, PublishStep, PublishBegin, PersistEvent, GetClient, getMatchingRouteIds,
         SendEvent, PublishEnd
    <3> QED  BY <1>2, <3>1
  <2> QED  BY <2>1, <2>2
<1> QED  BY <1>2, <1>3 DEF HistoryNext, SetClient, Asks, Leaves, Reads, SubscribeCommand, UnsubscribeCommand, historyVars, brokerVars

LEMMA ClientStep == HistoryInv /\ [HistoryNext]_historyVars => WantsHaveClient' /\ (Client => Client')
<1> SUFFICES ASSUME HistoryInv, [HistoryNext]_historyVars PROVE WantsHaveClient' /\ (Client => Client')
  OBVIOUS
<1>0. WantsHaveClient
  BY DEF HistoryInv
<1>1. ASSUME NEW q \in Routes, Asks(q) \/ Leaves(q) PROVE Client /\ Client'
  BY <1>1 DEF Asks, Leaves, SubscribeCommand, UnsubscribeCommand
<1>2. ASSUME UNCHANGED want, Client' = Client \/ Client' PROVE WantsHaveClient' /\ (Client => Client')
  BY <1>0, <1>2 DEF WantsHaveClient
<1>3. ASSUME NEW p \in Publishers, Publishes(p) PROVE UNCHANGED <<Client, want>>
  BY <1>3 DEF Publishes, Publish, PublishStep, PublishBegin, PersistEvent, GetClient, getMatchingRouteIds, SendEvent, PublishEnd
<1>4. Client /\ Client' => WantsHaveClient'
  BY DEF WantsHaveClient
<1> QED  BY <1>1, <1>2, <1>3, <1>4 DEF HistoryNext, SetClient, Reads, historyVars, brokerVars

LEMMA LateStep == HistoryInv /\ [HistoryNext]_historyVars => LateAreSubscribed'
<1> SUFFICES ASSUME HistoryInv, [HistoryNext]_historyVars, NEW r \in Routes, late'[r] # NotLate
             PROVE  AnyScope \in want'[r][late'[r].type]
  BY DEF LateAreSubscribed
<1>0. HistoryTypeOK /\ LateAreSubscribed
  BY DEF HistoryInv
<1>1. ASSUME NEW q \in Routes, Asks(q) PROVE AnyScope \in want'[r][late'[r].type]
  <2>1. PICK u \in Types, all \in BOOLEAN, scopes \in SUBSET (Scopes \cup Patterns) :
          /\ SubscribeCommand(q, u, all, scopes)
          /\ want' = [want EXCEPT ![q][u] = IF all THEN {AnyScope} ELSE scopes]
          /\ late' = [late EXCEPT ![q] = IF @.type = u /\ ~all THEN NotLate ELSE @]
    BY <1>1 DEF Asks
  <2>2. late'[r] = late[r] /\ (r = q /\ late[r].type = u => all)
    BY <1>0, <2>1 DEF HistoryTypeOK
  <2>3. late[r].type \in Types /\ AnyScope \in want[r][late[r].type]
    BY <1>0, <2>2 DEF HistoryTypeOK, LateAreSubscribed
  <2>4. want'[r][late[r].type] = IF r = q /\ late[r].type = u THEN (IF all THEN {AnyScope} ELSE scopes) ELSE want[r][late[r].type]
    BY <1>0, <2>1, <2>2, <2>3 DEF HistoryTypeOK
  <2> QED  BY <2>2, <2>3, <2>4
<1>2. ASSUME NEW q \in Routes, Leaves(q) PROVE AnyScope \in want'[r][late'[r].type]
  <2>1. PICK types \in {{t} : t \in Types} \cup {Types} :
          /\ UnsubscribeCommand(q, types)
          /\ want' = [want EXCEPT ![q] = [t \in Types |-> IF t \in types THEN {} ELSE @[t]]]
          /\ late' = [late EXCEPT ![q] = IF @.type \in types THEN NotLate ELSE @]
    BY <1>2 DEF Leaves
  <2>2. late'[r] = late[r] /\ ~(r = q /\ late[r].type \in types)
    BY <1>0, <2>1 DEF HistoryTypeOK
  <2>3. late[r].type \in Types /\ AnyScope \in want[r][late[r].type]
    BY <1>0, <2>2 DEF HistoryTypeOK, LateAreSubscribed
  <2> QED  BY <1>0, <2>1, <2>2, <2>3 DEF HistoryTypeOK
<1>3. ASSUME NEW q \in Routes, Reads(q) PROVE AnyScope \in want'[r][late'[r].type]
  <2>1. PICK t \in Types : /\ AnyScope \in want[q][t]
                          /\ late' = [late EXCEPT ![q] = [type |-> t, read |-> ToSet(ReadEventHistory(t, AnyScope, MaxPersist))]]
    BY <1>3 DEF Reads
  <2>2. want' = want
    BY <1>3 DEF Reads
  <2>3. CASE r = q
    BY <1>0, <2>1, <2>2, <2>3 DEF HistoryTypeOK
  <2>4. CASE r # q
    BY <1>0, <2>1, <2>2, <2>4 DEF HistoryTypeOK, LateAreSubscribed
  <2> QED  BY <2>3, <2>4
<1>4. ASSUME UNCHANGED <<want, late>> PROVE AnyScope \in want'[r][late'[r].type]
  BY <1>0, <1>4 DEF LateAreSubscribed
<1> QED  BY <1>1, <1>2, <1>3, <1>4 DEF HistoryNext, Publishes, historyVars

\* An event is on its way to r, or has arrived there.
Reached(r, e) ==
    \/ e \in late[r].read \cup ToSet(received[r])
    \/ \E p \in Publishers : pub[p].event = e /\ (pub[p].pc \in {"client", "match"} \/ r \in pub[p].to)

LEMMA StoredElements ==
    ASSUME NEW S, NEW q \in Seq(S), NEW e \in S, NumPersist(e) \in 0 .. MaxPersist, MaxPersist \in Nat
    PROVE  ToSet(Stored(e, q)) \subseteq ToSet(q) \cup {e}
<1>1. PICK x, y, m, n : x = Stored(e, q) /\ y = Append(q, e) /\ m = Len(q) /\ n = Len(x)
  OBVIOUS
<1>2. /\ Stored(e, q) \in Seq(S) /\ Len(Stored(e, q)) <= Len(q) + 1
      /\ \A i \in 1 .. Len(Stored(e, q)) : Stored(e, q)[i] = Append(q, e)[Len(q) + 1 - Len(Stored(e, q)) + i]
  BY StoredFacts
<1>3. /\ x \in Seq(S) /\ m \in Nat /\ n \in Nat /\ n <= m + 1
      /\ \A i \in 1 .. n : x[i] = y[m + 1 - n + i]
      /\ y[m + 1] = e /\ (\A i \in 1 .. m : y[i] = q[i]) /\ DOMAIN x = 1 .. n /\ DOMAIN q = 1 .. m
  <2>1. Append(q, e)[Len(q) + 1] = e /\ \A i \in 1 .. Len(q) : Append(q, e)[i] = q[i]
    BY AppendProperties
  <2>2. x \in Seq(S) /\ n <= m + 1 /\ \A i \in 1 .. n : x[i] = y[m + 1 - n + i]
    BY <1>1, <1>2
  <2> QED  BY <1>1, <2>1, <2>2, LenProperties
<1>4. ASSUME NEW i \in 1 .. n PROVE x[i] \in ToSet(q) \cup {e}
  <2>1. PICK j : j = m + 1 - n + i
    OBVIOUS
  <2>2. j \in 1 .. m \/ j = m + 1
    BY <1>3, <2>1
  <2>3. x[i] = y[j]
    BY <1>3, <2>1
  <2> QED  BY <1>3, <2>2, <2>3 DEF ToSet
<1> QED  BY <1>1, <1>3, <1>4 DEF ToSet

LEMMA ReceivedGrows ==
    ASSUME BrokerTypeOK, NEW p \in Publishers, NEW q \in Routes, SendEvent(p, q)
    PROVE  /\ \A r \in Routes : ToSet(received[r]) \subseteq ToSet(received'[r])
           /\ pub[p].event \in ToSet(received'[q])
<1>1. PICK e \in Events : e = pub[p].event
  BY ActiveFacts DEF SendEvent
<1>2. ASSUME NEW s \in Seq(Events) PROVE ToSet(s) \subseteq ToSet(Append(s, e)) /\ e \in ToSet(Append(s, e))
  <2>1. PICK a, n : a = Append(s, e) /\ n = Len(s)
    OBVIOUS
  <2>2. /\ n \in Nat /\ DOMAIN s = 1 .. n /\ a \in Seq(Events) /\ Len(a) = n + 1 /\ a[n + 1] = e
        /\ \A i \in 1 .. n : a[i] = s[i]
    BY <2>1, LenProperties, AppendProperties
  <2>3. DOMAIN a = 1 .. n + 1
    BY <2>2, LenProperties
  <2> QED  BY <2>1, <2>2, <2>3 DEF ToSet
<1>3. \A r \in Routes : received[r] \in Seq(Events)
  BY DEF BrokerTypeOK
<1>4. \A r \in Routes : received'[r] = IF r = q THEN Append(received[r], e) ELSE received[r]
  BY <1>1 DEF SendEvent, BrokerTypeOK
<1> QED  BY <1>1, <1>2, <1>3, <1>4

LEMMA EventsStep == HistoryInv /\ [HistoryNext]_historyVars => NoEventMissed'
<1> SUFFICES ASSUME HistoryInv, [HistoryNext]_historyVars, NEW r \in Routes, late'[r] # NotLate,
                    NEW e \in ToSet(PersistMap'[late'[r].type][AnyScope])
             PROVE  Reached(r, e)'
  BY DEF NoEventMissed, Reached
<1>0. BrokerTypeOK /\ HistoryTypeOK /\ HistoryInv /\ MaxPersist \in Nat
  BY BrokerAssumption DEF HistoryInv, HistoryTypeOK
<1>1. CASE Reads(r)
  <2>1. PICK t \in Types : late' = [late EXCEPT ![r] = [type |-> t, read |-> ToSet(ReadEventHistory(t, AnyScope, MaxPersist))]]
    BY <1>1 DEF Reads
  <2>2. late'[r] = [type |-> t, read |-> ToSet(ReadEventHistory(t, AnyScope, MaxPersist))] /\ PersistMap' = PersistMap
    BY <1>0, <1>1, <2>1 DEF Reads, HistoryTypeOK, brokerVars
  <2>3. PICK q \in Seq(Events) : q = PersistMap[t][AnyScope] /\ Len(q) <= MaxPersist
    BY <1>0 DEF BrokerTypeOK
  <2>4. LastOf(q, MaxPersist) = q
    BY <1>0, <2>3, LenProperties DEF LastOf
  <2> QED  BY <2>2, <2>3, <2>4 DEF Reached, ReadEventHistory
<1>2. ASSUME late'[r] = late[r]
      PROVE  /\ late[r].type \in Types /\ AnyScope \in want[r][late[r].type]
             /\ Client /\ r \in AllSubs[late[r].type]
             /\ \A x \in ToSet(PersistMap[late[r].type][AnyScope]) : Reached(r, x) /\ x.type = late[r].type
  <2>1. late[r] # NotLate
    BY <1>2
  <2>2. late[r].type \in Types /\ AnyScope \in want[r][late[r].type]
    BY <1>0, <2>1 DEF HistoryTypeOK, HistoryInv, LateAreSubscribed
  <2>3. Client /\ r \in AllSubs[late[r].type]
    BY <1>0, <2>2 DEF HistoryInv, WantsHaveClient, SubsAreWants
  <2>4. \A x \in ToSet(PersistMap[late[r].type][AnyScope]) : Reached(r, x)
    BY <1>0, <2>1 DEF HistoryInv, NoEventMissed, Reached
  <2>5. PICK q \in Seq(Events) : q = PersistMap[late[r].type][AnyScope]
    BY <1>0, <2>2 DEF BrokerTypeOK
  <2>6. \A i \in 1 .. Len(q) : q[i].type = late[r].type
    BY <1>0, <2>2, <2>5 DEF HistoryInv, HistoriesAreSuffixes, AllScopes
  <2>7. \A x \in ToSet(q) : x.type = late[r].type
    BY <2>6, LenProperties DEF ToSet
  <2> QED  BY <2>2, <2>3, <2>4, <2>5, <2>7
<1>3. ASSUME late'[r] = late[r], UNCHANGED <<PersistMap, pub, received>> PROVE Reached(r, e)'
  BY <1>2, <1>3 DEF Reached
<1>4. ASSUME NEW p \in Publishers, Publishes(p) PROVE Reached(r, e)'
  <2>0. late' = late /\ late'[r] = late[r]
    BY <1>4 DEF Publishes
  <2>1. CASE PersistEvent(p)
    <3>1. /\ pub'[p].pc = "client" /\ pub'[p].event = pub[p].event /\ pub'[p].to = pub[p].to
          /\ \A q \in Publishers \ {p} : pub'[q] = pub[q]
      <4>1. pub[p] \in Active
        BY <1>0, <2>1, ActiveFacts DEF PersistEvent
      <4> QED  BY <1>0, <2>1, <4>1 DEF PersistEvent, BrokerTypeOK, Active
    <3>2. e \in ToSet(PersistMap[late[r].type][AnyScope]) \/ e = pub[p].event
      <4>1. PICK x \in Events :
              /\ x = pub[p].event
              /\ \A t \in Types, s \in AllScopes :
                   PersistMap'[t][s] = IF t = x.type /\ s \in x.scopes \cup {AnyScope}
                                       THEN Stored(x, PersistMap[t][s]) ELSE PersistMap[t][s]
        BY <1>0, <2>1, HistoryStep
      <4>2. PICK q \in Seq(Events) : q = PersistMap[late[r].type][AnyScope]
        BY <1>0, <1>2, <2>0 DEF BrokerTypeOK
      <4>3. PersistMap'[late[r].type][AnyScope] = Stored(x, q) \/ PersistMap'[late[r].type][AnyScope] = q
        BY <1>2, <2>0, <4>1, <4>2 DEF AllScopes
      <4>4. ToSet(Stored(x, q)) \subseteq ToSet(q) \cup {x}
        BY <1>0, EventFacts, StoredElements
      <4> QED  BY <2>0, <4>1, <4>2, <4>3, <4>4
    <3>3. CASE e = pub[p].event
      BY <3>1, <3>3 DEF Reached
    <3>4. CASE e \in ToSet(PersistMap[late[r].type][AnyScope])
      <4>1. Reached(r, e) /\ received' = received
        BY <1>2, <2>0, <2>1, <3>4 DEF PersistEvent
      <4> QED  BY <2>0, <3>1, <4>1 DEF Reached
    <3> QED  BY <3>2, <3>3, <3>4
  <2>2. ASSUME PersistMap' = PersistMap PROVE Reached(r, e) /\ e.type = late[r].type /\ r \in AllSubs[e.type] /\ Client
    BY <1>2, <2>0, <2>2
  <2>3. ASSUME PersistMap' = PersistMap, ToSet(received[r]) \subseteq ToSet(received'[r]),
               \A q \in Publishers \ {p} : pub'[q] = pub[q],
               pub[p].event = e /\ (pub[p].pc \in {"client", "match"} \/ r \in pub[p].to) => Reached(r, e)'
        PROVE  Reached(r, e)'
    BY <2>0, <2>2, <2>3 DEF Reached
  <2>4. ASSUME NEW x, PublishBegin(p, x) PROVE Reached(r, e)'
    <3>1. pub[p].pc = "idle" /\ pub[p].to = {}
      BY <2>4, EventFacts DEF PublishBegin
    <3> QED  BY <1>0, <2>3, <2>4, <3>1 DEF PublishBegin, BrokerTypeOK
  <2>5. CASE GetClient(p)
    <3>1. PersistMap' = PersistMap /\ received' = received /\ Client
      BY <2>2, <2>5 DEF GetClient
    <3>2. pub[p] \in Active
      BY <1>0, <2>5, ActiveFacts DEF GetClient
    <3>3. pub'[p].pc = "match" /\ pub'[p].event = pub[p].event /\ \A q \in Publishers \ {p} : pub'[q] = pub[q]
      BY <1>0, <2>5, <3>1, <3>2 DEF GetClient, BrokerTypeOK, Active
    <3>4. pub[p].event = e => Reached(r, e)'
      BY <3>3 DEF Reached
    <3> QED  BY <2>3, <3>1, <3>3, <3>4
  <2>6. CASE getMatchingRouteIds(p)
    <3>1. PersistMap' = PersistMap /\ received' = received
      BY <2>6 DEF getMatchingRouteIds
    <3>2. pub[p] \in Active
      BY <1>0, <2>6, ActiveFacts DEF getMatchingRouteIds
    <3>3. /\ pub'[p].to = MatchingRoutes(pub[p].event) /\ pub'[p].event = pub[p].event
          /\ \A q \in Publishers \ {p} : pub'[q] = pub[q]
      BY <1>0, <2>6, <3>2 DEF getMatchingRouteIds, BrokerTypeOK, Active
    <3>4. r \in MatchingRoutes(e)
      BY <2>2, <3>1, MatchingFacts
    <3>5. pub[p].event = e => Reached(r, e)'
      BY <3>3, <3>4 DEF Reached
    <3> QED  BY <2>3, <3>1, <3>3, <3>5
  <2>7. ASSUME NEW q \in Routes, SendEvent(p, q) PROVE Reached(r, e)'
    <3>1. PersistMap' = PersistMap /\ pub[p].pc = "send"
      BY <2>7 DEF SendEvent
    <3>2. pub[p] \in Active
      BY <1>0, <3>1, ActiveFacts
    <3>3. /\ pub'[p].to = pub[p].to \ {q} /\ pub'[p].event = pub[p].event
          /\ \A u \in Publishers \ {p} : pub'[u] = pub[u]
      BY <1>0, <2>7, <3>2 DEF SendEvent, BrokerTypeOK, Active
    <3>4. ToSet(received[r]) \subseteq ToSet(received'[r]) /\ pub[p].event \in ToSet(received'[q])
      BY <1>0, <2>7, ReceivedGrows
    <3>5. pub[p].event = e /\ r \in pub[p].to => Reached(r, e)'
      BY <3>3, <3>4 DEF Reached
    <3> QED  BY <2>3, <3>1, <3>3, <3>4, <3>5
  <2>8. CASE PublishEnd(p)
    <3>1. pub[p].pc = "send" /\ pub[p].to = {}
      BY <2>8 DEF PublishEnd
    <3> QED  BY <1>0, <2>3, <2>8, <3>1 DEF PublishEnd, BrokerTypeOK
  <2> QED  BY <1>4, <2>1, <2>4, <2>5, <2>6, <2>7, <2>8 DEF Publishes, Publish, PublishStep
<1>5. ASSUME NEW q \in Routes, Asks(q) \/ Leaves(q) PROVE Reached(r, e)'
  <2>1. UNCHANGED <<PersistMap, pub, received>>
    BY <1>5 DEF Asks, Leaves, SubscribeCommand, UnsubscribeCommand
  <2>2. late'[r] = late[r] \/ late'[r] = NotLate
    BY <1>0, <1>5 DEF Asks, Leaves, HistoryTypeOK
  <2> QED  BY <1>3, <2>1, <2>2
<1>6. ASSUME NEW q \in Routes \ {r}, Reads(q) PROVE Reached(r, e)'
  BY <1>0, <1>3, <1>6 DEF Reads, brokerVars, HistoryTypeOK
<1> QED  BY <1>1, <1>3, <1>4, <1>5, <1>6 DEF HistoryNext, SetClient, historyVars, brokerVars

LEMMA InvHolds == HistorySpec => []HistoryInv
<1>1. HistoryInv /\ [HistoryNext]_historyVars => HistoryInv'
  <2> SUFFICES ASSUME HistoryInv, [HistoryNext]_historyVars PROVE HistoryInv'
    OBVIOUS
  <2>1. HistoryTypeOK'
    BY BrokerTypeStep DEF HistoryInv
  <2>2. SubsAreWants' /\ WantsHaveClient' /\ HistoriesAreSuffixes' /\ LateAreSubscribed' /\ NoEventMissed'
    BY SubsStep, ClientStep, HistoriesStep, LateStep, EventsStep
  <2> QED  BY <2>1, <2>2 DEF HistoryInv
<1> QED  BY <1>1, InvInit, PTL DEF HistorySpec

-----------------------------------------------------------------------------
\* Whom an event goes to is decided by what each route asked for last (Subscribe unsubscribes first, and
\* files a route under all scopes, or under each scope or pattern; getMatchingRouteIds).
THEOREM SubscribersAreMatched == HistorySpec => []LastSubscriptionDecides
<1>1. HistoryInv => LastSubscriptionDecides
  <2> SUFFICES ASSUME HistoryInv, NEW t \in Types, NEW scopes \in SUBSET Scopes, NEW e, e = Event(1, t, scopes, 0)
               PROVE  MatchingRoutes(e) = {r \in Routes : Wants(r, e)}
    BY DEF LastSubscriptionDecides
  <2>1. e.type = t /\ e.scopes = scopes
    BY EventFacts
  <2>2. \A r : r \in MatchingRoutes(e) => r \in Routes
    <3>1. BrokerTypeOK
      BY DEF HistoryInv, HistoryTypeOK
    <3>2. /\ AllSubs[t] \subseteq Routes
          /\ \A s \in Scopes : ScopeSubs[t][s] \subseteq Routes
          /\ \A q \in Patterns : StarSubs[t][q] \subseteq Routes
      BY <3>1 DEF BrokerTypeOK
    <3> QED  BY <2>1, <3>2, MatchingFacts
  <2>3. ASSUME NEW r \in Routes PROVE r \in MatchingRoutes(e) <=> Wants(r, e)
    <3>1. /\ r \in AllSubs[t] <=> AnyScope \in want[r][t]
          /\ \A s \in Scopes : r \in ScopeSubs[t][s] <=> s \in want[r][t]
          /\ \A q \in Patterns : r \in StarSubs[t][q] <=> q \in want[r][t]
      BY DEF HistoryInv, SubsAreWants
    <3>2. r \in MatchingRoutes(e) <=>
            \/ AnyScope \in want[r][t]
            \/ \E s \in scopes : s \in want[r][t]
            \/ \E q \in Patterns : (\E s \in scopes : StarMatch(q, s)) /\ q \in want[r][t]
      BY <2>1, <3>1, MatchingFacts
    <3>3. Wants(r, e) <=>
            \/ AnyScope \in want[r][t]
            \/ \E s \in scopes : s \in want[r][t] \/ \E q \in Patterns : q \in want[r][t] /\ StarMatch(q, s)
      BY <2>1 DEF Wants
    <3> QED  BY <3>2, <3>3
  <2> QED  BY <2>2, <2>3
<1> QED  BY <1>1, InvHolds, PTL

\* The history of a type and scope is the newest of what was stored under it, in order and without a gap,
\* whatever sizes the events ask for (persistEvent appends, then cuts off the oldest).
THEOREM HistoriesAreNewest == HistorySpec => []HistoryIsNewest
<1>1. HistoryInv => HistoryIsNewest
  <2> SUFFICES ASSUME HistoryInv, NEW t \in Types, NEW s \in Scopes \cup {AnyScope} PROVE IsSuffix(PersistMap[t][s], stored[t][s])
    BY DEF HistoryIsNewest
  <2>1. PersistMap[t][s] \in Seq(Events) /\ stored[t][s] \in Seq(Events) /\ Suffix(PersistMap[t][s], stored[t][s])
    BY DEF HistoryInv, HistoryTypeOK, BrokerTypeOK, AllScopes, HistoriesAreSuffixes
  <2> QED  BY <2>1, SuffixMeans
<1> QED  BY <1>1, InvHolds, PTL

\* A route that subscribes to all scopes of a type and then reads the history has, or will be sent, every
\* event of the history: Publish stores an event before it looks up whom to send it to.
THEOREM LateSubscribersMissNothing == HistorySpec => []NoEventMissed
<1>1. HistoryInv => NoEventMissed
  BY DEF HistoryInv
<1> QED  BY <1>1, InvHolds, PTL
=============================================================================
