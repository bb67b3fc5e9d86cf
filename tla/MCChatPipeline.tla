--------------------------- MODULE MCChatPipeline ---------------------------
(***************************************************************************)
(* Values of ChatPipeline's constants for TLC.  Every cfg takes the same   *)
(* tools and intents and its own set of inputs and outcomes.               *)
(***************************************************************************)
EXTENDS ChatPipeline

CONSTANTS r1, r2, c1, t1, t2, k1, k2

MCIntents == {"Setup", "General"}
MCTools == {"get_current_setup", "suggest_setup_change", "apply_setup"}

\* "apply" is a keyword and a marker, "change" is a marker only.
MCKeywordTools == {"apply_setup"}
MCMarkerTools == {"apply_setup", "suggest_setup_change"}

MCBasePlan ==
    [ i \in MCIntents |->
        IF i = "Setup" THEN <<"get_current_setup", "suggest_setup_change">>
        ELSE <<>> ]

\* One tool is enough where the interleaving is the question.
MCShortPlan ==
    [ i \in MCIntents |-> IF i = "Setup" THEN <<"suggest_setup_change">> ELSE <<>> ]

\* The model may answer with a tool that is not in the list it was given, or with
\* one twice.
MCModelPlans == { <<"apply_setup">>,
                  <<"get_current_setup", "suggest_setup_change", "get_current_setup">> }
MCNoPlans == {}

MCKeys == {k1, k2}
MCNoLegacy == {}
MCLegacy == { [id |-> 1, conv |-> c1, role |-> "user"],
              [id |-> 2, conv |-> c1, role |-> "assistant"] }

-----------------------------------------------------------------------------
(* Inputs.                                                                  *)

Ask(tenant, critical, keyword, granted, caller) ==
    [ conv |-> c1, tenant |-> tenant, critical |-> critical, keyword |-> keyword,
      granted |-> granted, caller |-> caller, requireEvidence |-> TRUE ]

\* Everything the gate looks at, and messages only the model can classify.
AllInputs ==
    { Ask(t1, critical, keyword, granted, caller) :
        critical \in BOOLEAN, keyword \in {"Setup", "none"},
        granted \in BOOLEAN, caller \in Callers }

\* A granted critical change beside a question only the model can classify.
MixedInputs ==
    { Ask(t1, TRUE, "Setup", TRUE, "chief"), Ask(t1, FALSE, "none", FALSE, "staff") }

\* Small talk of two tenants under one conversation id.
TalkInputs == { Ask(t, FALSE, "General", FALSE, "staff") : t \in {t1, t2} }

\* The mixture meets the lock of SQLite, the small talk PostgreSQL's order of commits.
TableInputs == MixedInputs \cup TalkInputs
TableInit ==
    /\ Init
    /\ \A r \in Requests : input[r] \in IF serialWriters THEN MixedInputs ELSE TalkInputs
TableSpec == TableInit /\ [][Next]_vars /\ Fairness

-----------------------------------------------------------------------------
(* Outcomes.                                                                *)

NoRag == {"none"}
AllRag == RagResults
Result(form, values, nulls) == [form |-> form, values |-> values, nulls |-> nulls]
OnlyData == {Result("dict", {k1}, {})}
AllResults == {Result("dict", {k1}, {}), Result("dict", {k2}, {k1}),
               Result("scalar", {}, {}), Result("bare", {}, {})}
PlainAnswer == { {"prose"} }
EveryAnswer == { {"prose"}, {"advice"}, {"critical_advice"},
                 {"forbidden_advice"}, {"forbidden_prose"}, {} }
=============================================================================
