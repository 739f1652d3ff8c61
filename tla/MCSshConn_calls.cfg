SPECIFICATION FairConnSpec
CONSTANTS
    c1 = c1  c2 = c2
    x1 = x1  x2 = x2
    l1 = l1  l2 = l2
    s1 = s1  s2 = s2
    None = None
    Call <- MCCall
    Client <- MCClient
    Listener <- MCListener
    Sess <- MCSess
INVARIANTS SettledIsTrue
PROPERTIES OnlyCloseDisconnects EndsQuiet
CHECK_DEADLOCK FALSE
