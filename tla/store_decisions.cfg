SPECIFICATION Spec
CONSTANTS
    Clients = {"sendMessageStream", "sendMessage"}
    MaxCalls = 4
INVARIANTS
    TypeOK
    LoadingIsOneCall
    AnsweredOnce
    OneDecision
PROPERTIES
    DecisionHasObject
    LoadingEnds
