SPECIFICATION Spec
CONSTANTS
    ip1 = ip1
    ip2 = ip2
    NoAddress = NoAddress
    Garbage = Garbage
    NoValue = NoValue
    NoCertificate = NoCertificate
    Unreadable = Unreadable
    Statuses <- MCStatuses
    Addresses <- MCAddresses
    Days <- MCDays
    LongestGreeting = 6
    MaxGreetingBytes = 5
    Parse <- MCParse
    LocalAddresses <- MCLocalAddresses
    LargestDuration = 40000
    LargestShift = 4
    DefaultPort = 9115
    Situations <- MCSituations
    Outcomes <- MCOutcomes
INVARIANTS
    ListenersBind
    NoDeadProbe
    ResultsAreHonest
    ResultsReadBack
    ConsoleIsInert
    BackoffIsPaced
    FailsClosed
    OverridesAreHeard
PROPERTY
    HealthcheckAgrees
