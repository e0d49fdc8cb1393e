SPECIFICATION FairSpec
CONSTANTS
    p1 = p1
    p2 = p2
    Probes <- MCProbes
    NResults = 4
    HubSlots = 2
    SseSlots = 2
    MaxDrops = 1
INVARIANTS
    SnapshotCoversStream
    DrainedShowsLatest
PROPERTY
    PendingIsShown
