---------------------------- MODULE MCFileStore ----------------------------
(* Small instances of FileStore: which operations meet, on how many files. *)
EXTENDS FileStoreHistory, TLC

CONSTANTS t0, t1, t2, k1, k2, e1, e2, e3

MCOneFile == SingleJobs \cup {"zone"}
MCLists   == {"make", "append", "list"}
MCLive    == {"make", "append", "flush", "list"}

MCSymmetry ==
    Permutations(Entries) \cup Permutations(Keys) \cup Permutations(Threads \ {Flusher})
=============================================================================
