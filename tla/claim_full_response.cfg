SPECIFICATION Spec
CONSTANTS
    Kinds <- MCNumbered
    MaxLines = 2
    Pending = Pending
    Failed = Failed
PROPERTIES
    DeliversAnswer
CHECK_DEADLOCK FALSE
