SPECIFICATION FairSpec
CONSTANTS
    c1 = c1  c2 = c2
    k1 = k1  k2 = k2  k3 = k3
    p1 = p1  p2 = p2  p3 = p3
    ssh = ssh  local = local
    None = None
    Nobody = Nobody
    Call <- MCCall
    Ctl <- MCCtl
    Proc <- MCProc
    Conn <- MCConn
    MaxEdits = 1
INVARIANTS OneShell Connected
PROPERTIES EndsQuiet
CHECK_DEADLOCK FALSE
