SPECIFICATION Spec
CONSTANTS
    r1 = r1
    r2 = r2
    c1 = c1
    t1 = t1
    t2 = t2
    k1 = k1
    k2 = k2
    Keys <- MCKeys
    Requests = {r1}
    Conversations = {c1}
    Tenants = {t1, t2}
    DefaultTenant = t1
    LegacyRows <- MCNoLegacy
    FirstId = 1
    NoRow = NoRow
    NoRequest = NoRequest
    Inputs <- AllInputs
    Intents <- MCIntents
    General = "General"
    Tools <- MCTools
    KeywordTools <- MCKeywordTools
    MarkerTools <- MCMarkerTools
    BasePlan <- MCBasePlan
    ModelPlans <- MCModelPlans
    RagOutcomes <- AllRag
    ToolOutcomes <- AllResults
    ModelAnswers <- EveryAnswer
    HistoryWindow = 2
CHECK_DEADLOCK FALSE
INVARIANTS
    TypeOK
    EffectsAuthorised
    RefusedLeavesOnlyQuestion
    ReplySaysWhatIsHeld
    ToolFailureContained
PROPERTIES
    Governed
