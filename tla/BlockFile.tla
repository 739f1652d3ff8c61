----------------------------- MODULE BlockFile -----------------------------
(***************************************************************************)
(* One file of pkg/filestore: its rows in the database (db_wave_file and   *)
(* db_file_data) and its CacheEntry.  Every operation runs whole under the *)
(* entry's lock (module FileStore is about that lock), so an operation is  *)
(* one action here, with its partial failures and the crash of the process *)
(* between any two of them.                                                *)
(*                                                                         *)
(* A part is a function from 0..PartSize-1 to bytes: DataCacheEntry.Data   *)
(* has the capacity of a part and is zero past its length.  The integers   *)
(* that AppendIJson keeps in Meta come back from the row as float64, which *)
(* metaIncrement takes for 0: they are "ijson" here, forgotten on a load.  *)
(***************************************************************************)
EXTENDS Integers, Sequences, FiniteSetsExt, Functions

CONSTANTS
    PartSize,          \* partDataSize
    MakeOpts,          \* the options MakeFile is called with
    Uses(_),           \* options -> what is done with such a file: the metadata it is given (functions
                       \* from every key to a value or "absent"), the patches merged into it (the same
                       \* over some of the keys), the byte sequences written, a bound on its size, and
                       \* whether a database write may fail while its context lives
    Newline,           \* the byte that ends an ijson command
    HighCommands,      \* IJsonHighCommands
    LowCommands,       \* IJsonLowCommands
    StaleOffsets,      \* TRUE: WriteAt may start before a circular file's window
    CmdBound,          \* bound on the ijson commands counted in one cached Meta
    NoFile             \* no row, or a nil CacheEntry.File

ASSUME PartSizeAssumption == PartSize \in Nat \ {0}

VARIABLES
    dbFile,       \* the row of db_wave_file, or NoFile
    dbParts,      \* the rows of db_file_data: part index -> part
    file,         \* CacheEntry.File, or NoFile
    entries,      \* CacheEntry.DataEntries: part index -> part
    flushErrors,  \* CacheEntry.FlushErrors
    ijson         \* the counters in the cached Meta: [cmds, bytes]

dbVars    == <<dbFile, dbParts>>
cacheVars == <<file, entries, flushErrors, ijson>>
vars      == <<dbFile, dbParts, file, entries, flushErrors, ijson>>

Zero         == 0
EmptyPart    == [i \in 0 .. PartSize - 1 |-> Zero]
NoParts      == [p \in {} |-> EmptyPart]
NoCounters   == [cmds |-> 0, bytes |-> 0]
IJsonHighRatio == 3
IJsonLowRatio  == 1
MaxFlushErrors == 3

\* Part "p" of the parts "ps", zero-filled where there is no such part.
PartOr(ps, p) == IF p \in DOMAIN ps THEN ps[p] ELSE EmptyPart

\* The parts "over" laid on the parts "under".
Lay(over, under) ==
    [p \in DOMAIN over \cup DOMAIN under |-> IF p \in DOMAIN over THEN over[p] ELSE under[p]]

-----------------------------------------------------------------------------
(* Options and part arithmetic                                             *)

\* MakeFile's checks, and the size it stores for a circular file.
ValidOpts(opts) ==
    /\ opts.MaxSize >= 0
    /\ opts.Circular => opts.MaxSize > 0 /\ ~opts.IJson

RoundedOpts(opts) ==
    IF opts.Circular /\ opts.MaxSize % PartSize # 0
    THEN [opts EXCEPT !.MaxSize = (opts.MaxSize \div PartSize + 1) * PartSize]
    ELSE opts

\* The options of the files that there are.
StoredOpts == {RoundedOpts(o) : o \in {m \in MakeOpts : ValidOpts(m)}}

ASSUME OptsAssumption ==
    /\ MakeOpts \subseteq [Circular : BOOLEAN, MaxSize : Int, IJson : BOOLEAN]
    /\ Newline \in Int

\* A file is used as its options say, rounded or not; an ijson command is not
\* empty; and what a merge makes of a file's metadata is metadata.
ASSUME UsesAssumption ==
    \A opts \in MakeOpts :
        /\ Uses(RoundedOpts(opts)) = Uses(opts)
        /\ Uses(opts).size \in Nat
        /\ Uses(opts).payloads \subseteq Seq(Int)
        /\ opts.IJson => <<>> \notin Uses(opts).payloads
        /\ \A patch \in Uses(opts).patches, meta \in Uses(opts).metas :
              Lay(patch, meta) \in Uses(opts).metas

ASSUME NoFileAssumption ==
    \A opts \in StoredOpts :
        /\ NoFile \notin [Opts : {opts}, Size : 0 .. Uses(opts).size, Meta : Uses(opts).metas]
        /\ NoFile \notin [Opts : {opts}, Size : 0 .. Uses(opts).size, Meta : Uses(opts).metas,
                          data : UNION {[w -> Int] : w \in SUBSET (0 .. Uses(opts).size)}]

DataStartIdx(f) ==
    IF f.Opts.Circular /\ f.Size > f.Opts.MaxSize THEN f.Size - f.Opts.MaxSize ELSE 0

partIdxAtOffset(f, off) ==
    LET partIdx == off \div PartSize
    IN  IF f.Opts.Circular THEN partIdx % (f.Opts.MaxSize \div PartSize) ELSE partIdx

\* Mutant: the loop stops one part early when the range ends inside a part.
WholePartStarts(start, size) ==
    {k * PartSize : k \in {j \in start \div PartSize .. (start + size) \div PartSize :
                              (j + 1) * PartSize <= start + size}}

\* The starts of the parts that computePartMap visits for [start, start+size).
PartStarts(start, size) ==
    {k * PartSize : k \in {j \in start \div PartSize .. (start + size) \div PartSize :
                              j * PartSize < start + size}}

\* Part index -> bytes touched; where a long range laps the ring, the last lap.
computePartMap(f, start, size) ==
    LET starts    == PartStarts(start, size)
        idx(o)    == partIdxAtOffset(f, o)
        last(p)   == Max({o \in starts : idx(o) = p})
        from(o)   == IF start > o THEN start - o ELSE 0
        to(o)     == IF start + size < o + PartSize THEN start + size - o ELSE PartSize
    IN  [p \in {idx(o) : o \in starts} |-> to(last(p)) - from(last(p))]

\* Mutant: a part is loaded only when the write leaves it untouched.
untouchedParts(partMap) == {p \in DOMAIN partMap : partMap[p] = 0}

incompleteParts(partMap) == {p \in DOMAIN partMap : partMap[p] # PartSize}

\* loadDataPartsIntoCache: the parts wanted, from the rows unless cached.
WithParts(es, wanted) ==
    Lay(es, Restrict(dbParts, (wanted \ DOMAIN es) \cap DOMAIN dbParts))

-----------------------------------------------------------------------------
(* CacheEntry.writeAt: the entry after writing "data" at "off"             *)

\* The first offset that a write of "len" bytes at "off" keeps: a circular file
\* cuts the bytes before its window, then those that the same write would
\* overwrite.
KeptFrom(f, size, off, len) ==
    LET start == size - f.Opts.MaxSize
        cut   == IF f.Opts.Circular /\ off < start THEN start - off ELSE 0
        left  == len - cut
    IN  off + cut + (IF f.Opts.Circular /\ left > f.Opts.MaxSize THEN left - f.Opts.MaxSize ELSE 0)

BytesOf(f, from, last, p) == {o \in from .. last : partIdxAtOffset(f, o) = p}

\* Part "p" after the bytes from "from" on are written; at most one byte goes to
\* each place: the range is no longer than the ring.
PartWritten(f, old, from, off, data, p) ==
    [i \in 0 .. PartSize - 1 |->
        IF \E o \in BytesOf(f, from, off + Len(data) - 1, p) : o % PartSize = i
        THEN data[(CHOOSE o \in BytesOf(f, from, off + Len(data) - 1, p) : o % PartSize = i) - off + 1]
        ELSE PartOr(old, p)[i]]

Written(f, old, from, off, data) ==
    Lay([p \in {partIdxAtOffset(f, o) : o \in from .. off + Len(data) - 1} |->
            PartWritten(f, old, from, off, data, p)], old)

writeAt(f, es, off, data, replace) ==
    LET size0 == IF replace THEN 0 ELSE f.Size
        end   == off + Len(data)
        from  == KeptFrom(f, size0, off, Len(data))
        old   == IF replace THEN NoParts ELSE es
    IN  IF f.Opts.Circular /\ end <= size0 - f.Opts.MaxSize
        THEN [file |-> [f EXCEPT !.Size = size0], entries |-> es]
        ELSE [file    |-> [f EXCEPT !.Size = IF end > size0 \/ replace THEN end ELSE size0],
              entries |-> Written(f, old, from, off, data)]

-----------------------------------------------------------------------------
(* CacheEntry.readAt: <<offset, bytes>> for a request inside the file      *)

readAt(f, off, size) ==
    LET rows   == DOMAIN entries \cup DOMAIN dbParts
        n0     == IF off + size > f.Size THEN f.Size - off ELSE size
        real   == DataStartIdx(f)
        from   == IF f.Opts.Circular /\ off < real THEN real ELSE off
        n      == n0 - (from - off)
        loaded == Restrict(Lay(entries, dbParts), DOMAIN computePartMap(f, from, n) \cap rows)
    IN  IF f.Opts.Circular /\ n <= 0
        THEN <<real, <<>>>>
        ELSE <<from, [i \in 1 .. n |->
                        PartOr(loaded, partIdxAtOffset(f, from + i - 1))[(from + i - 1) % PartSize]]>>

-----------------------------------------------------------------------------
(* Operations                                                              *)

\* What loadFileForRead returns.
Loaded    == IF file # NoFile THEN file ELSE dbFile
LoadedIJson == IF file # NoFile THEN ijson ELSE NoCounters

Init ==
    /\ dbFile = NoFile /\ dbParts = NoParts
    /\ file = NoFile /\ entries = NoParts /\ flushErrors = 0 /\ ijson = NoCounters

Clear == file' = NoFile /\ entries' = NoParts /\ flushErrors' = 0 /\ ijson' = NoCounters

MakeFile(opts, meta) ==
    /\ ValidOpts(opts)
    /\ file = NoFile
    /\ dbFile = NoFile
    /\ dbFile' = [Opts |-> RoundedOpts(opts), Size |-> 0, Meta |-> meta]
    /\ UNCHANGED <<dbParts, cacheVars>>

DeleteFile ==
    /\ dbFile' = NoFile /\ dbParts' = NoParts
    /\ Clear

\* An operation that returns an error after loadFileIntoCache: WriteAt past
\* the end, an ijson operation on another file, a part that cannot be read.
FailAfterLoad ==
    /\ file = NoFile /\ dbFile # NoFile
    /\ file' = dbFile /\ ijson' = NoCounters
    /\ UNCHANGED <<dbVars, entries, flushErrors>>

WriteMeta(meta, merge) ==
    /\ Loaded # NoFile
    /\ file' = [Loaded EXCEPT !.Meta =
                  IF merge THEN Lay(meta, Loaded.Meta) ELSE meta]
    /\ ijson' = IF merge THEN LoadedIJson ELSE NoCounters
    /\ UNCHANGED <<dbVars, entries, flushErrors>>

\* Cache an entry after a write that needs the parts it covers only in part.
CacheWrite(f, es, off, data, replace) ==
    LET w == writeAt(f, es, off, data, replace)
    IN  /\ w.file.Size <= Uses(w.file.Opts).size
        /\ file' = w.file /\ entries' = w.entries

WriteAt(off, data) ==
    /\ Loaded # NoFile
    /\ off <= Loaded.Size
    /\ StaleOffsets \/ off >= DataStartIdx(Loaded)
    /\ LET wanted == incompleteParts(computePartMap(Loaded, off, Len(data)))
       IN  CacheWrite(Loaded, WithParts(entries, wanted), off, data, FALSE)
    /\ ijson' = LoadedIJson
    /\ UNCHANGED <<dbVars, flushErrors>>

AppendData(data) ==
    /\ Loaded # NoFile
    /\ LET off    == Loaded.Size
           wanted == incompleteParts(computePartMap(Loaded, off, Len(data)))
       IN  CacheWrite(Loaded, WithParts(entries, wanted), off, data, FALSE)
    /\ ijson' = LoadedIJson
    /\ UNCHANGED <<dbVars, flushErrors>>

\* The entry [f, es] stays in the cache.
Keep(f, es, counters) == file' = f /\ entries' = es /\ ijson' = counters

\* flushToDB on the entry [f, es]: it commits (and a context that expired
\* meanwhile keeps the entry), is cancelled, or fails; the fourth failure
\* drops the entry.
FlushToDB(f, es, counters, replace) ==
    \/ /\ dbFile # NoFile
       /\ dbFile'  = [dbFile EXCEPT !.Size = f.Size, !.Meta = f.Meta]
       /\ dbParts' = Lay(es, IF replace THEN NoParts ELSE dbParts)
       /\ \/ Clear
          \/ Keep(f, es, counters) /\ UNCHANGED flushErrors
    \/ Keep(f, es, counters) /\ UNCHANGED <<dbVars, flushErrors>>
    \/ /\ Uses(f.Opts).fails
       /\ flushErrors + 1 > MaxFlushErrors
       /\ Clear /\ UNCHANGED dbVars
    \/ /\ Uses(f.Opts).fails
       /\ flushErrors + 1 <= MaxFlushErrors
       /\ flushErrors' = flushErrors + 1
       /\ Keep(f, es, counters) /\ UNCHANGED dbVars

WriteFile(data) ==
    /\ Loaded # NoFile
    /\ LET w == writeAt(Loaded, entries, 0, data, TRUE)
       IN  /\ w.file.Size <= Uses(w.file.Opts).size
           /\ FlushToDB(w.file, w.entries, LoadedIJson, TRUE)

\* FlushCache on this key.
FlushEntry ==
    /\ file # NoFile
    /\ FlushToDB(file, entries, ijson, FALSE)

\* ijson.CompactIJson keeps the document and drops its history: which bytes
\* come out is left open.
Compact(f, es) == \E data \in Uses(f.Opts).payloads : CacheWrite(f, es, 0, data, TRUE)

CompactIJson ==
    /\ Loaded # NoFile
    /\ Loaded.Opts.IJson
    /\ Compact(Loaded, entries)
    /\ ijson' = LoadedIJson
    /\ UNCHANGED <<dbVars, flushErrors>>

ShouldCompact(c, size) ==
    \/ c.cmds > HighCommands
    \/ c.bytes >= IJsonHighRatio * size
    \/ c.cmds > LowCommands /\ c.bytes >= IJsonLowRatio * size

\* The command and its newline go into the cache; then the file may be
\* compacted in the same call, or the read that compaction needs may fail.
AppendIJson(data) ==
    /\ Loaded # NoFile
    /\ Loaded.Opts.IJson
    /\ LoadedIJson.cmds < CmdBound
    /\ LET off    == Loaded.Size
           wanted == incompleteParts(computePartMap(Loaded, off, Len(data)))
           cmd    == writeAt(Loaded, WithParts(entries, wanted), off, data, FALSE)
           line   == writeAt(cmd.file, cmd.entries, cmd.file.Size, <<Newline>>, FALSE)
           count  == [cmds  |-> LoadedIJson.cmds + 1,
                      bytes |-> LoadedIJson.bytes + Len(data) + 1]
       IN  /\ line.file.Size <= Uses(line.file.Opts).size
           /\ ijson' = IF off = 0 THEN LoadedIJson ELSE count
           /\ \/ file' = line.file /\ entries' = line.entries
              \/ /\ off # 0 /\ ShouldCompact(count, line.file.Size)
                 /\ Compact(line.file, line.entries)
    /\ UNCHANGED <<dbVars, flushErrors>>

\* The process ends; the next one starts with an empty cache.
Crash == Clear /\ UNCHANGED dbVars

Operation(use) ==
    \/ \E meta \in use.metas : WriteMeta(meta, FALSE)
    \/ \E patch \in use.patches : WriteMeta(patch, TRUE)
    \/ \E data \in use.payloads :
         \/ \E off \in 0 .. Loaded.Size : WriteAt(off, data)
         \/ AppendData(data)
         \/ WriteFile(data)
         \/ AppendIJson(data)
    \/ CompactIJson
    \/ FlushEntry

Next ==
    \/ \E opts \in MakeOpts : \E meta \in Uses(opts).metas : MakeFile(opts, meta)
    \/ DeleteFile
    \/ FailAfterLoad
    \/ Loaded # NoFile /\ Operation(Uses(Loaded.Opts))
    \/ Crash

Spec == Init /\ [][Next]_vars

-----------------------------------------------------------------------------
(* Properties                                                              *)

\* A file as FileContent has it: its fields and the bytes of its window.
View(f, parts) ==
    IF f = NoFile THEN NoFile
    ELSE [Opts |-> f.Opts, Size |-> f.Size, Meta |-> f.Meta,
          data |-> [o \in DataStartIdx(f) .. f.Size - 1 |->
                      PartOr(parts, partIdxAtOffset(f, o))[o % PartSize]]]

Content == View(Loaded, Lay(entries, dbParts))
Durable == View(dbFile, dbParts)

\* The cached entry and the rows have the shape the code gives them; a clean
\* entry holds nothing, and a dirty one has a row to be flushed to (deletion
\* is synchronous).
TypeOK ==
    /\ dbFile # NoFile => ValidOpts(dbFile.Opts) /\ dbFile.Size \in 0 .. Uses(dbFile.Opts).size
    /\ file # NoFile => dbFile # NoFile /\ file.Opts = dbFile.Opts /\ file.Size \in 0 .. Uses(file.Opts).size
    /\ file = NoFile => entries = NoParts /\ flushErrors = 0 /\ ijson = NoCounters
    /\ dbFile = NoFile => dbParts = NoParts
    /\ flushErrors \in 0 .. MaxFlushErrors

\* Every ReadAt inside the file returns the bytes of the window at the offset
\* it reports, although it fetches parts by computePartMap and stitches them.
ReadsMatchContent ==
    Loaded # NoFile =>
        \A off \in 0 .. Loaded.Size, size \in 0 .. Loaded.Size + 1 :
            LET r    == readAt(Loaded, off, size)
                end  == IF off + size > Loaded.Size THEN Loaded.Size ELSE off + size
                from == IF off < DataStartIdx(Loaded) THEN DataStartIdx(Loaded) ELSE off
            IN  /\ Len(r[2]) = IF end > from THEN end - from ELSE 0
                /\ r[2] # <<>> => r[1] = from
                /\ \A i \in DOMAIN r[2] : r[2][i] = Content.data[r[1] + i - 1]

\* Readers see exactly the writes made, a flush makes all of them durable at
\* once, and cached writes are lost only to a crash or a fourth failed flush.
Promise == INSTANCE FileContent
             WITH content <- Content, durable <- Durable, attempts <- flushErrors,
                  FileOpts <- StoredOpts,
                  Metas <- UNION {Uses(o).metas : o \in MakeOpts},
                  Payloads <- LET written == UNION {Uses(o).payloads : o \in MakeOpts}
                              IN  written \cup {d \o <<Newline>> : d \in written}
ImplementsFileContent == Promise!Spec

\* A write changes no byte it was not given: the bytes of the window outside
\* the written range stay ("the first byte of data we have" is DataStartIdx).
WriteKeepsOtherBytes ==
    [][Loaded # NoFile => \A off \in 0 .. Loaded.Size, data \in Uses(Loaded.Opts).payloads :
          WriteAt(off, data) =>
              \A o \in DOMAIN Content.data \cap DOMAIN Content'.data :
                  o \notin off .. off + Len(data) - 1 => Content'.data[o] = Content.data[o]]_vars
=============================================================================
