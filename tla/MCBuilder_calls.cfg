SPECIFICATION FairBuilderSpec
CONSTANTS
    c1 = c1  c2 = c2  c3 = c3
    p1 = p1  p2 = p2  p3 = p3
    a1 = a1  a2 = a2
    None = None
    Call <- MCCall
    App <- MCApp
    Proc <- MCProc
INVARIANTS SettledIsTrue
PROPERTIES EndsQuiet
CHECK_DEADLOCK FALSE
