CONSTANTS
    q1 = q1
    q2 = q2
    s1 = s1
    Calls = {q1}
    Streams = {s1}
    Late = {q1, s1}
    Canceled = {s1}
    MaxItems = 2
    OutputChSize = 1
SPECIFICATION FairSpec
INVARIANTS InOrder EveryRequestAnswered
PROPERTIES EveryHandlerEnds
CHECK_DEADLOCK FALSE
