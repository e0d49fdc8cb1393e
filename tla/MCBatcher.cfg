SPECIFICATION FairSpec
CONSTANTS
    NResults = 7
    Slots = 2
    BatchSize = 3
    Timeout = 2
INVARIANTS
    EachResultOnce
    FlushedInTime
    CloseMeansFlushed
PROPERTIES
    CloseReachesQueue
    EveryResultHandedOver
