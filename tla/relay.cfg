SPECIFICATION Spec
CONSTANTS
    MaxChunks = 2
    Kernel = 0
    HighWater = 1
INVARIANTS
    TypeOK
    NoTruncation
PROPERTIES
    ImplementsChannel
    EndIsHeard
    NothingLeaks
CHECK_DEADLOCK FALSE
