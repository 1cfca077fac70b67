CONSTANTS
    p1 = p1  p2 = p2  p3 = p3
    Proc = {p1, p2, p3}
    Nobody = Nobody
    Path = {"home", "other"}
    PathOf <- MCPathOf
    Uses <- MCUses
    MaxFault = 1
    MaxSlip = 1
    MaxKill = 1
SPECIFICATION HostSpec
INVARIANT CleanExit
PROPERTIES OrderlyExitHeals GuestsTakeNothing StaleStateNeverBlocks
