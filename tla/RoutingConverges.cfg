SPECIFICATION SpurSpec
CONSTANTS
    a = a  b = b  c = c  d = d
    Node = {a, b, c, d}
    NoNode = NoNode
    DefaultRoute = DefaultRoute
    Dest = {d}
    Exits = {}
    Peers <- Spur
    HopDist <- Hops
    Infinity = 5
    MaxInFlight = 1
    MaxDials = 2
    MaxChurn = 1
    Lossy <- NoLink
    Mortal = {d}
PROPERTIES NodeRoutesSwitchToShorter EventuallyConverged
