SPECIFICATION FairSpec
CONSTANTS
    Requests = {r1, r2}
    Hosts = {h1}
    Connections = {c1, c2, c3}
    Free = Free
    NoHost = NoHost
    MaxRetries = 2
    MaxRedirects = 1
    MaxIdle = 1
    ParserLimit = 1
    MaxSize = 2
    MaxFaults = 2
INVARIANTS
    TypeOK
    OneHolder
    OwnAnswer
    SendsAreBounded
PROPERTIES
    RequestsEnd
