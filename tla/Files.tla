------------------------------- MODULE Files -------------------------------
(***************************************************************************)
(* What a FileStore promises of its files together: each operation takes   *)
(* effect on one file in one step, on "content", which readers see; the    *)
(* copy that survives a crash, "durable", follows file by file when a flush*)
(* succeeds; the flush that fails after MaxFlushErrors others takes        *)
(* content back to it.  A file is abstracted to its size.                  *)
(***************************************************************************)
EXTENDS Integers

CONSTANTS Keys, WriteSize, MaxFlushErrors, NoFile

VARIABLES
    content, durable,   \* key -> size, or NoFile
    fails               \* key -> the flushes of the file that failed in a row

vars == <<content, durable, fails>>

Init ==
    /\ content = [k \in Keys |-> NoFile]
    /\ durable = content
    /\ fails = [k \in Keys |-> 0]

Put(k, c, d, n) ==
    /\ content' = [content EXCEPT ![k] = c]
    /\ durable' = [durable EXCEPT ![k] = d]
    /\ fails' = [fails EXCEPT ![k] = n]

Create(k) == content[k] = NoFile /\ Put(k, 0, 0, 0)
Remove(k) == Put(k, NoFile, NoFile, 0)
Append(k) == content[k] # NoFile /\ Put(k, content[k] + 1, durable[k], fails[k])

Replace(k) == content[k] # NoFile /\ Put(k, WriteSize, durable[k], fails[k])

\* A flush is complete, or complete but not reported, or fails.
Flush(k) ==
    \/ \E n \in {0, fails[k]} : Put(k, content[k], content[k], n)
    \/ fails[k] < MaxFlushErrors /\ Put(k, content[k], durable[k], fails[k] + 1)
    \/ fails[k] = MaxFlushErrors /\ Put(k, durable[k], durable[k], 0)

Crash ==
    /\ content' = durable
    /\ fails' = [k \in Keys |-> 0]
    /\ UNCHANGED durable

Next ==
    \/ \E k \in Keys : Create(k) \/ Remove(k) \/ Append(k) \/ Replace(k) \/ Flush(k)
    \/ Crash

Spec == Init /\ [][Next]_vars
=============================================================================
