SPECIFICATION FairSpec
CONSTANTS
    w = w
    s = s
    Clients = {w, s}
    Waiting = {w}
    Slow = {s}
    KindsOf <- MCKindsOf
    Threads = 2
    MaxRequests = 2
INVARIANTS
    TypeOK
    HandledAreWhole
    AnswersInOrder
    WaitingAreServed
PROPERTIES
    RequestsEnd
    SessionsEnd
CHECK_DEADLOCK FALSE
