SPECIFICATION LineSpec
CONSTANTS
    a = a  b = b  c = c  d = d
    Node = {a, b, c}
    NoNode = NoNode
    DefaultRoute = DefaultRoute
    Dest = {c, DefaultRoute}
    Exits = {c}
    Peers <- Line
    HopDist <- Hops
    Infinity = 5
    MaxInFlight = 1
    MaxDials = 3
    MaxChurn = 1
    Lossy <- FirstLink
    Mortal = {c}
INVARIANTS MetricNeverUnderestimates RoutesHaveSessions NeighborsAreDirect
PROPERTY HolddownProtects
