CONSTANTS
    server = server
    w1 = w1
    w2 = w2
    s1 = s1
    wavesrv = wavesrv
    tab = tab
    host = host
    proc = proc
    i1 = i1
    NoId = NoId
    None = None
    WsConns = {w1, w2}
    Sockets = {s1}
    ServerConn = server
    RouteOf <- MCRouteOf
    Behind <- MCBehind
    Requests = {i1}
    Streams = {i1}
    MaxConns = 2
    MaxSays = 2
    InputChSize = 3
    ToRemoteChSize = 1
SPECIFICATION FairSpec
INVARIANTS TablesAreCurrent
PROPERTIES RouteIsKept RequestsAreAnswered
CHECK_DEADLOCK FALSE
