CONSTANTS
    w1 = w1
    w2 = w2
    w3 = w3
    t1 = t1
    t2 = t2
    t3 = t3
    t4 = t4
    t5 = t5
    b1 = b1
    b2 = b2
    b3 = b3
    b4 = b4
    b5 = b5
    win1 = win1
    win2 = win2
    win3 = win3
    c1 = c1
    c2 = c2
    NoOid = NoOid
    Workspace = {w1, w2, w3}
    Tab = {t1, t2, t3, t4, t5}
    Block = {b1, b2, b3, b4, b5}
    Window = {win1, win2, win3}
    Call = {c1, c2}
    MaxCalls = 2
    Graphs <- MCGraphs
SPECIFICATION FairSpec
INVARIANTS OnlyStaleWritesHarm AloneIsSound
PROPERTY CallsEnd
CHECK_DEADLOCK FALSE
