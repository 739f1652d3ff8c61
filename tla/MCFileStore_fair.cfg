SPECIFICATION HFairSpec
CONSTANTS
    t0 = t0
    t1 = t1
    t2 = t2
    k1 = k1
    k2 = k2
    e1 = e1
    e2 = e2
    e3 = e3
    Threads = {t0, t1}
    Flusher = t0
    Keys = {k1, k2}
    Entries = {e1, e2, e3}
    Jobs <- MCLive
    DbMayFail = FALSE
    MaxFlushErrors = 1
    SizeBound = 1
    WriteSize = 1
    NoEntry = NoEntry
    NoThread = NoThread
    NoKey = NoKey
    NoFile = NoFile
PROPERTIES CallsReturn DirtyIsFlushed FlushSavesAll
