---------------------------- MODULE FileContent ----------------------------
(***************************************************************************)
(* What pkg/filestore promises of one wave file, without its cache, parts  *)
(* or rows.  A file is a size and the bytes of its retained window: all of *)
(* them for a regular file, the last MaxSize for a circular one.  Two      *)
(* copies exist: "content" is what every reader sees, "durable" is what    *)
(* survives a crash.  A write changes content only; a flush makes the      *)
(* whole of content durable in one step; a crash, or the fourth flush to   *)
(* fail in a row, takes content back to durable.                           *)
(***************************************************************************)
EXTENDS Integers, Sequences

CONSTANTS
    FileOpts,    \* records [Circular, MaxSize, IJson]: the stored options
    Metas,       \* the values of a file's metadata
    Payloads,    \* the byte sequences a caller may write
    NoFile       \* the file does not exist

VARIABLES content, durable, attempts

vars == <<content, durable, attempts>>

MaxFlushErrors == 3

WindowStart(opts, size) ==
    IF opts.Circular /\ size > opts.MaxSize THEN size - opts.MaxSize ELSE 0

Window(opts, size) == WindowStart(opts, size) .. size - 1

Empty(opts, meta) == [Opts |-> opts, Size |-> 0, Meta |-> meta, data |-> <<>>]

\* The bytes of "data" laid over a file from offset "off".
Overlay(c, off, data) ==
    LET end  == off + Len(data)
        size == IF end > c.Size THEN end ELSE c.Size
    IN  [c EXCEPT !.Size = size,
                  !.data = [o \in Window(c.Opts, size) |->
                              IF o \in off .. end - 1 THEN data[o - off + 1]
                                                      ELSE c.data[o]]]

\* A file whose whole content is "data" (its tail, if that is too long).
Replaced(c, data) ==
    [c EXCEPT !.Size = Len(data),
              !.data = [o \in Window(c.Opts, Len(data)) |-> data[o + 1]]]

-----------------------------------------------------------------------------
Init == content = NoFile /\ durable = NoFile /\ attempts = 0

Create ==
    /\ content = NoFile
    /\ \E opts \in FileOpts, meta \in Metas : content' = Empty(opts, meta)
    /\ durable' = content'
    /\ attempts' = 0

Remove == content' = NoFile /\ durable' = NoFile /\ attempts' = 0

Put(off, data) ==
    /\ off <= content.Size
    /\ content' = Overlay(content, off, data)
    /\ UNCHANGED <<durable, attempts>>

Replace(data) ==
    /\ content' = Replaced(content, data)
    /\ UNCHANGED <<durable, attempts>>

SetMeta(meta) ==
    /\ content' = [content EXCEPT !.Meta = meta]
    /\ UNCHANGED <<durable, attempts>>

\* A flush attempt on content "c": it succeeds, is cancelled before or after
\* its commit, or fails, and the failure after MaxFlushErrors others gives up.
FlushOf(c) ==
    \/ content' = c /\ durable' = c /\ attempts' \in {0, attempts}
    \/ content' = c /\ UNCHANGED <<durable, attempts>>
    \/ /\ attempts < MaxFlushErrors
       /\ content' = c /\ attempts' = attempts + 1 /\ UNCHANGED durable
    \/ /\ attempts = MaxFlushErrors
       /\ content' = durable /\ attempts' = 0 /\ UNCHANGED durable

Crash == content' = durable /\ attempts' = 0 /\ UNCHANGED durable

Next ==
    \/ Create
    \/ /\ content # NoFile
       /\ \/ Remove
          \/ \E off \in 0 .. content.Size, data \in Payloads : Put(off, data)
          \/ \E data \in Payloads : Replace(data) \/ FlushOf(Replaced(content, data))
          \/ \E meta \in Metas : SetMeta(meta)
          \/ FlushOf(content)
    \/ Crash

Spec == Init /\ [][Next]_vars
=============================================================================
