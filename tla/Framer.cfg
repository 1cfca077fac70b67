SPECIFICATION FairSpec
CONSTANTS
    Header = 2
    MaxFrame = 3
    Chunk = 4
    MaxBytes = 12
INVARIANT BufferBounded
PROPERTIES ImplementsDatagrams EventuallyReceived
CHECK_DEADLOCK FALSE
