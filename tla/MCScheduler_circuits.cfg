SPECIFICATION Spec
CONSTANTS
    u1 = u1
    c1 = c1
    c2 = c2
    r1 = r1
    r2 = r2
    r3 = r3
    r4 = r4
    Requests = {r1, r2}
    Users = {u1}
    NoUser = NoUser
    Carries <- MCSameUser
    Channels = {c1, c2}
    NoChannel = NoChannel
    ChannelLists <- MCDeletion
    FailureThreshold = 1
    SuccessThreshold = 2
    HalfOpenMaxAttempts = 1
    MaxRetries = 2
    FailureBound = 1
INVARIANTS TypeOK BreakerInv NeverSameChannelTwice
PROPERTIES EveryRequestAnswered
