SPECIFICATION RoutesSpec
CONSTANTS
    Holder = {h1, h2}
    Worker = {w, c}
    CloseWorker = c
    MaxSlips = 1
    MaxReverts = 2
    Hosts = 2
    Halves = 2
SYMMETRY Symmetry
INVARIANTS NeverOvercounted HolderKeepsPin NoOrphanRoute NeverCaptured
CHECK_DEADLOCK FALSE
