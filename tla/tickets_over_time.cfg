SPECIFICATION Spec
CONSTANTS
    t1 = t1
    t2 = t2
    Size = 2
    NewTickets <- MCNewTickets
    Tenants <- MCTenants
    NoTenant = NoTenant
    NoTimer = NoTimer
    NoReply = NoReply
    Approvals <- MCApprovals
    Hours = 2
INVARIANTS
    ViewsAgree
    NoBreachHidden
    TroubleHeard
PROPERTIES
    TimeNeverEases
