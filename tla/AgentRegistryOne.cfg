SPECIFICATION Spec
CONSTANTS
    a1 = a1
    g1 = g1
    g2 = g2
    Agents <- OneAgent
    Gateways <- OneGateway
    Registry <- ListOne
    Timeout = 5
    Interval = 1
    MaxRetries = 2
    Word = 64
    MaxDelay = 1
    MaxClock = 19
    MaxFaults = 1
    CanStall <- OneGateway
INVARIANTS
    TypeOK
    EntryLifetime
    HeardEveryRound
PROPERTIES
    ListedAreRecent
    StoppedAreUnlisted
    NeverErasedByAge
