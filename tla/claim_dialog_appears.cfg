SPECIFICATION Spec
CONSTANTS
    Clients = {"sendMessageStream"}
    MaxCalls = 2
PROPERTIES
    DialogAppears
