CONSTANTS
    ip1 = ip1
    ip2 = ip2
    NoValue = NoValue
    NoCertificate = NoCertificate
    Statuses <- MCStatuses
    Addresses <- MCAddresses
    Days <- MCDays
    LongestGreeting = 6
    MaxGreetingBytes = 5
    Probes <- MCProbes
    Chunk = 3
    MaxLate = 1
SPECIFICATION Spec
INVARIANT GreetingJudgedWhole
INVARIANT WithinBudget
PROPERTY SlotsAreKept
