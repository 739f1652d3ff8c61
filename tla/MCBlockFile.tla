---------------------------- MODULE MCBlockFile ----------------------------
(* Small instances of BlockFile: parts of two bytes, a ring of two parts.  *)
EXTENDS BlockFile

\* Payloads whose neighbouring bytes differ, so that a byte out of place shows.
Pattern(b, n) == [i \in 1 .. n |-> 1 + ((b + i) % 2)]

MCRegular == [Circular |-> FALSE, MaxSize |-> 0, IJson |-> FALSE]
MCIJson   == [Circular |-> FALSE, MaxSize |-> 0, IJson |-> TRUE]
MCRing    == [Circular |-> TRUE, MaxSize |-> 3, IJson |-> FALSE]
MCBad     == [Circular |-> TRUE, MaxSize |-> 0, IJson |-> FALSE]

MCAllOpts  == {MCRegular, MCIJson, MCRing, MCBad}
MCRingOpts == {MCRing}

MCNoMetas == {[k \in {"k"} |-> "absent"]}

\* A regular file has metadata and flushes that fail, a ring is written past its second lap, and an
\* ijson file is compacted.
MCUses(opts) ==
    IF opts.Circular
    THEN [metas |-> MCNoMetas, patches |-> {}, size |-> 6, fails |-> FALSE,
          payloads |-> {Pattern(0, 1), Pattern(1, 2), Pattern(0, 5)}]
    ELSE IF opts.IJson
    THEN [metas |-> MCNoMetas, patches |-> {}, size |-> 4, fails |-> FALSE,
          payloads |-> {Pattern(0, 1), Pattern(1, 2)}]
    ELSE [metas |-> {[k |-> x, l |-> "v"] : x \in {"v", "absent"}},
          patches |-> {[k |-> x] : x \in {"v", "absent"}}, size |-> 3, fails |-> TRUE,
          payloads |-> {Pattern(0, 1), Pattern(1, 3)}]
=============================================================================
