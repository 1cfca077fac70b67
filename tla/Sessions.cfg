SPECIFICATION FairSpec
CONSTANT MaxSess = 2
CHECK_DEADLOCK FALSE
INVARIANTS NoZombieSession LearnedRoutesOwned
PROPERTY PeerGoneRoutesGo
