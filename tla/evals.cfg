SPECIFICATION Spec
CONSTANTS
    Tools = {"read", "apply"}
    KeywordTools = {"apply"}
    MarkerTools = {}
    Entries <- MCEntries
    MaxPrompts = 10
INVARIANTS
    ScoresAreSound
    NoticeCostsGroundedness
    SummaryIsSound
CHECK_DEADLOCK FALSE
