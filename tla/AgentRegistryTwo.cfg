SPECIFICATION Spec
CONSTANTS
    a1 = a1
    g1 = g1
    g2 = g2
    Agents <- OneAgent
    Gateways <- TwoGateways
    Registry <- ListTwo
    Timeout = 2
    Interval = 1
    MaxRetries = 2
    Word = 64
    MaxDelay = 0
    MaxClock = 6
    MaxFaults = 2
    CanStall <- NoStall
INVARIANTS
    HeardEveryRound
