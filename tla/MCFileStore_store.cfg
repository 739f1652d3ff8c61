SPECIFICATION HSpec
CONSTANTS
    t0 = t0
    t1 = t1
    t2 = t2
    k1 = k1
    k2 = k2
    e1 = e1
    e2 = e2
    e3 = e3
    Threads = {t0, t1, t2}
    Flusher = t0
    Keys = {k1}
    Entries = {e1, e2, e3}
    Jobs <- MCOneFile
    DbMayFail = TRUE
    MaxFlushErrors = 2
    SizeBound = 2
    WriteSize = 2
    NoEntry = NoEntry
    NoThread = NoThread
    NoKey = NoKey
    NoFile = NoFile
SYMMETRY MCSymmetry
INVARIANTS TypeOK OneThreadPerFile PinnedStaysCached DirtyStaysCached ReadsAreWhole
PROPERTIES ImplementsFiles
