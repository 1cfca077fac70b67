SPECIFICATION FairSpec
CONSTANTS
    Listener = {l1, l2}
    Heard = {x}
    Reached = {y}
    MaxSess = 2
    RecvCap = 1
    InCap = 1
    NoAddr = NoAddr
    NoListener = NoListener
CHECK_DEADLOCK FALSE
INVARIANTS TypeOK PeersAreRead
PROPERTY CloseEndsAll
