SPECIFICATION FairSpec
CONSTANTS
    a = a  b = b  c = c  d = d  e = e
    Node = {a, b, c, d, e}
    NoNode = {a, b, c, d, e}
    Asker = a
    Target = d
    Peers <- Ring
    echoTTL = 3
    MaxFault = 2
INVARIANT ReportedPathIsReal
PROPERTIES PingAnswered FloodDies
CHECK_DEADLOCK FALSE
