SPECIFICATION FairSpec
CONSTANTS
    NBatches = 4
    Offset <- MCOffset
    Capacity = 4
INVARIANTS
    ByteAccounting
    CapacityBound
    NoSilentLoss
    NoLostWakeup
    CountersAgree
PROPERTIES
    TakenInOrder
    ReturnsAfterShutdown
    LeavesQueueIfOutagesEnd
    ImplementsFifo
