SPECIFICATION Spec
CONSTANTS
    Kinds <- MCKinds
    MaxLines = 3
    Pending = Pending
    Failed = Failed
INVARIANTS
    ShownBeforeReturned
    ReturnsWhatWasSent
PROPERTIES
    StreamEnds
CHECK_DEADLOCK FALSE
