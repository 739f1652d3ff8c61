CONSTANTS
    r1 = r1
    c1 = c1
    c2 = c2
    s1 = s1
    NoId = NoId
    Nobody = Nobody
    Requests = {r1}
    Commands = {c1, c2}
    Streams = {s1}
    RespChSize = 1
    StreamChSize = 1
    InputChSize = 1
    OutputChSize = 1
    CtxDoneChSize = 1
    MaxResponses = 3
    MaxCalls = 2
    MayClose = TRUE
SPECIFICATION FairSpec
INVARIANTS OnlyWaitingRegistered NoGaps TimeoutIsEarned ServerSurvives
PROPERTIES CallsOfALiveClientReturn
CONSTRAINT Instance
CHECK_DEADLOCK FALSE
