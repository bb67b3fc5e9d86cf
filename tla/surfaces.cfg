SPECIFICATION Spec
CONSTANTS
    Words <- MCWords
    MaxWords = 3
    Sources = {"body_tenant", "header_tenant", "untagged", "scalar", "broken"}
    NoReply = NoReply
INVARIANTS
    ApprovalStateAgrees
    SetupChangeIsHeld
    EvidenceScoped
CHECK_DEADLOCK FALSE
