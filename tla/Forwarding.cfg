SPECIFICATION MCSpec
CONSTANTS
    a = a  b = b  c = c  d = d
    Node = {a, b, c, d}
    NoNode = NoNode
    Internet = Internet
    Resolver = Resolver
    Peers <- Spur
    Hosts = {a, b}
    Exits = {c}
    Clients = {a, d}
    MaxHop = 5
    ReplyHop = 4
    Address = {a, b, c, d}
    Plumbing <- Colliding
    Asker = b
    MaxTTL = 3
INVARIANTS TypeOK TransmissionsBounded AnswersComeHome HopsWithinTTL ReachIsReal
