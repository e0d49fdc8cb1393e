SPECIFICATION MetricsSpec
CONSTANTS
    p1 = p1
    Probes <- MCProbes
    NBatches = 2
    Offset <- MCOffset
    Capacity = 2
    NResults = 1
    Families <- MCFamilies
    NoKey = NoKey
    ApiKey <- MCKey
    Headers <- MCHeaders
    Loads <- MCLoads
    Clock <- MCClock
    MaxLag = 1
INVARIANTS
    FamiliesAgree
    OnlyWithKey
PROPERTY
    CountersNeverFall
