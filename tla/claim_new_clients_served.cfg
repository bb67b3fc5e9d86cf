SPECIFICATION Spec
CONSTANTS
    ip1 = ip1
    ip2 = ip2
    Clients <- MCClients
    Limit = 2
    Window = 3
    CleanupPeriod = 2
    Second = 2
    MaxTime = 8
INVARIANTS
    NewClientsAreServed
