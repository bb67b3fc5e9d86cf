SPECIFICATION Spec
CONSTANTS
    r1 = r1
    r2 = r2
    ip1 = ip1
    ip2 = ip2
    Requests <- MCRequests
    Clients <- MCClients
    Messages <- MCMessages
    NoMessage = NoMessage
    NoPrincipal = NoPrincipal
    NoAnswer = NoAnswer
    Limit = 1
    Window = 2
    CleanupPeriod = 1
    Second = 1
    MaxTime = 3
INVARIANTS
    HandlersInPlace
    BeyondWithinLimit
PROPERTIES
    EveryRequestAnswered
CHECK_DEADLOCK FALSE
