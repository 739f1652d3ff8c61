-------------------------- MODULE FileStoreHistory --------------------------
(***************************************************************************)
(* FileStore with two history variables, for what FlushCache and ListFiles *)
(* say about the time they ran.                                            *)
(***************************************************************************)
EXTENDS FileStore

VARIABLES
    owed,     \* the files that were dirty when the flush began, not yet cleared
    current   \* thread in ListFiles -> key -> what the file was since it began

hvars == <<vars, owed, current>>

Listing(t) == job[t] = "list"

\* Nobody is in the middle of an operation on k.
Settled(k) == \A t \in Threads : Pinned(t) => key[t] # k

HInit == Init /\ owed = {} /\ current = [t \in Threads |-> [k \in Keys |-> {}]]

\* A flush of an entry has failed, and FlushCache will return the error.
FlushFails(t) ==
    /\ Working(t, {"flush"}, "in") /\ FileOf(t) # NoFile /\ pc'[t] = "unlock"
    /\ todo'[t] # todo[t] \/ heap'[ent[t]].file # NoFile \/ db'[key[t]] # FileOf(t)

Observe ==
    /\ owed' = IF isFlushing' /\ ~isFlushing THEN {k \in Keys : Dirty(k) /\ Settled(k)}
               ELSE IF isFlushing' /\ ~\E t \in Threads : FlushFails(t) THEN {k \in owed : Dirty(k)'}
               ELSE {}
    /\ current' = [t \in Threads |-> [k \in Keys |->
                      IF Listing(t)' THEN (IF Listing(t) THEN current[t][k] ELSE {Content(k)})
                                            \cup {Content(k)'}
                      ELSE {}]]

HNext == Next /\ Observe
HSpec == HInit /\ [][HNext]_hvars
HFairSpec == HSpec /\ Fairness

\* A FlushCache that returns without an error has saved every file that was
\* dirty when it began, or somebody else has cleared it since.
FlushSavesAll ==
    [][\A t \in Threads :
          FinishMulti(t) /\ job[t] = "flush" => owed = {}]_hvars

\* ListFiles reports each file as it was at some moment of the call: "reads
\* still go to the DB -- unless items are in the cache".
ListedIsCurrent ==
    \A t \in Threads : Listing(t) /\ pc[t] = "next" /\ todo[t] = {} =>
        \A k \in Keys : listed[t][k] \in current[t][k]
=============================================================================
