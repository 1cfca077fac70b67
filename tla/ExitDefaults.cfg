SPECIFICATION FairSpec
CONSTANTS
    Caller = {c1}
    Timer = {t1, t2}
    Resolver = resolver
    Closer = closer
    NoTimer = NoTimer
INVARIANTS TypeOK NoOrphanDefaults
PROPERTY LostPathTearsDown
