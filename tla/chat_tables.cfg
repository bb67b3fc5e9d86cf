SPECIFICATION TableSpec
CONSTANTS
    r1 = r1
    r2 = r2
    c1 = c1
    t1 = t1
    t2 = t2
    k1 = k1
    k2 = k2
    Keys <- MCKeys
    Requests = {r1, r2}
    Conversations = {c1}
    Tenants = {t1, t2}
    DefaultTenant = t1
    LegacyRows <- MCLegacy
    FirstId = 3
    NoRow = NoRow
    NoRequest = NoRequest
    Inputs <- TableInputs
    Intents <- MCIntents
    General = "General"
    Tools <- MCTools
    KeywordTools <- MCKeywordTools
    MarkerTools <- MCMarkerTools
    BasePlan <- MCShortPlan
    ModelPlans <- MCNoPlans
    RagOutcomes <- NoRag
    ToolOutcomes <- OnlyData
    ModelAnswers <- PlainAnswer
    HistoryWindow = 3
CHECK_DEADLOCK FALSE
INVARIANTS
    HistoryScoped
    ReplyDurable
    EffectsAudited
PROPERTIES
    TableAppendOnly
    FollowUpSeesReplies
    EveryRequestEnds
