----------------------------- MODULE Guardrails -----------------------------
(***************************************************************************)
(* The pure decisions of the chat pipeline about texts: the approval guard *)
(* and the decision guard that rewrites answers.  Texts are abstracted to  *)
(* what these functions tell apart: a user message either contains an      *)
(* approval keyword or not, a tool is a name, an answer is the set of      *)
(* kinds of line it contains.                                              *)
(***************************************************************************)
EXTENDS Naturals, FiniteSets

CONSTANTS
    Tools,         \* tool names the planner can put in a plan
    KeywordTools,  \* those whose name contains one of CRITICAL_KEYWORDS
    MarkerTools    \* those whose name contains one of CRITICAL_TOOL_MARKERS

ASSUME ToolAssumption == /\ IsFiniteSet(Tools)
                         /\ KeywordTools \subseteq Tools
                         /\ MarkerTools \subseteq Tools

-----------------------------------------------------------------------------
(* Approval guard.                                                          *)

\* The message wins; otherwise any recommendation with a keyword in it.
\* `critical' stands for "message.lower() contains a CRITICAL_KEYWORD".
ApprovalRequired(critical, criticalRecommendation) ==
    critical \/ criticalRecommendation

\* Planned tool names are passed to the guard as the recommendations.
PreApprovalByMessage(critical, names) == critical  \* mutant: names not scanned

PreApproval(critical, names) ==
    ApprovalRequired(critical, names \cap KeywordTools # {})

-----------------------------------------------------------------------------
(* Answers.  A line starting with "recommend" or "suggest" is advice.       *)

AdviceLines ==
    { "advice",            \* no approval keyword in it
      "critical_advice",   \* an approval keyword, no forbidden phrase
      "forbidden_advice" } \* its keyword is in a forbidden phrase, such as
                           \* "Recommend: apply the setup"
ProseLines ==
    { "prose",             \* nothing the guards look for
      "forbidden_prose",   \* a forbidden phrase outside of advice
      "deferral",          \* "this requires crew chief approval"
      "notice",            \* "Tool execution was blocked because ..."
      "not_required" }     \* "Approval status: not_required."

AnswerLines == AdviceLines \cup ProseLines

\* Mutant: the phrase is cut out of advice and nothing put in its place.
SanitizeLineCutting(line) ==
    CASE line = "forbidden_advice" -> {"advice"}
      [] line = "forbidden_prose"  -> {"deferral"}
      [] OTHER                     -> {line}

\* RaceDecisionGuard.sanitize: the forbidden phrase, keyword included, gives
\* way to the deferral; the line stays where it was.
SanitizeLine(line) ==
    CASE line = "forbidden_advice" -> {"advice", "deferral"}
      [] line = "forbidden_prose"  -> {"deferral"}
      [] OTHER                     -> {line}

Sanitize(answer) == UNION { SanitizeLine(line) : line \in answer }

\* What _extract_recommendations keeps, and whether the guard finds a keyword
\* in the text of one of them.
Recommendations(answer) == answer \cap AdviceLines
CriticalRecommendation(answer) ==
    Recommendations(answer) \cap {"critical_advice", "forbidden_advice"} # {}

\* The text AnswerComposer returns when the model endpoint fails.
FallbackText == {"prose", "advice", "not_required"}

=============================================================================
