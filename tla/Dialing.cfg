SPECIFICATION FairSpec
CONSTANTS
    NodeA = a
    NodeB = b
    Nobody = Nobody
    Dialers = {a, b}
    Recognises = {a}
    MaxConn = 3
    MaxFault = 1
INVARIANT SettledAgree
PROPERTY EventuallySettled
CHECK_DEADLOCK FALSE
