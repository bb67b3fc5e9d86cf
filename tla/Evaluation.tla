----------------------------- MODULE Evaluation -----------------------------
(***************************************************************************)
(* The evaluation harness (evals/run_eval.py and evals/metrics).  Every    *)
(* line of a data set is put through the real chat service with mocked     *)
(* models, services and planner; the reply is scored by five metrics, and  *)
(* the averages decide what the summary warns of.  A text is the set of    *)
(* words the metrics look up (as substrings, so that "setup" has "set" in  *)
(* it); the sentences of an answer (`claims') are records, one to a line   *)
(* of the answer, which is empty or not blank.  Scores are in sixtieths,   *)
(* exact for up to six claims.                                             *)
(***************************************************************************)
EXTENDS Guardrails, Sequences, Functions

CONSTANTS Entries,    \* lines a data set may hold; of two kinds at most
          MaxPrompts  \* length of the data set at most

\* tokens: the words that weigh in groundedness, those of a forbidden phrase apart;
\* points: the data points.
Claim == [line: AnswerLines, size: {"long", "short", "tiny"},
          tokens: SUBSET STRING, number: BOOLEAN, points: Seq(STRING)]

ASSUME EntriesAssumption ==
    \A entry \in Entries :
        /\ entry.answer \in Seq(Claim)
        /\ entry.stopped \in BOOLEAN    \* the answer ends with a stop
        /\ IsFiniteSet(entry.sources) /\ IsFiniteSet(entry.tools)
        /\ \A src \in entry.sources : IsFiniteSet(src.words)

VARIABLES phase,    \* "loading", "running", "reported", "aborted"
          store,    \* is the conversation table there?  Nothing here creates it
          dataset,  \* the different lines of the data set, in a sequence
          results,  \* for each of them, how many results there are, and the scores
          turns,    \* rows the runs have put in the conversation table
          warnings  \* what print_summary ends with

vars == <<phase, store, dataset, results, turns, warnings>>

Full == 60
Share(part, whole) == (Full * part) \div whole

-----------------------------------------------------------------------------
(* The reply of the service to a line, with approval never granted.         *)

Lines(entry) == { entry.answer[i].line : i \in 1..Len(entry.answer) }
ToolsBlocked(entry) == PreApproval(entry.critical, entry.tools)

\* tool_calls is the plan, and the planner's plan is the expectation.
ReportedTools(entry) == entry.tools

ApprovalFlag(entry) ==
    \/ ToolsBlocked(entry)
    \/ ApprovalRequired(entry.critical, CriticalRecommendation(Sanitize(Lines(entry))))

\* A deferral is in the place of a forbidden phrase.
Deferred(claim) ==
    IF "deferral" \in SanitizeLine(claim.line)
    THEN [claim EXCEPT !.tokens = @ \cup {"requires", "chief", "approval"}] ELSE claim

Notice(words) ==
    [line |-> "notice", size |-> "long", tokens |-> words, number |-> FALSE, points |-> <<>>]

\* "_Tool execution was blocked because this request requires crew_chief approval."
NoticeOfBlock ==
    Notice({"execution", "blocked", "because", "request", "requires", "approval"})
\* "Set approval_granted=True and resubmit to execute._"
NoticeOfResubmit == Notice({"set", "true", "resubmit", "execute"})

\* Without a stop the last sentence goes on into the notice.
WithNotice(claim) ==
    [claim EXCEPT !.size = "long", !.tokens = @ \cup NoticeOfBlock.tokens]

Noticed(entry) == ToolsBlocked(entry) /\ entry.answer # <<>>
ClaimOf(entry, i) ==
    LET said == Deferred(entry.answer[i])
    IN  IF Noticed(entry) /\ ~entry.stopped /\ i = Len(entry.answer) THEN WithNotice(said) ELSE said

\* Mutant: the notice is the client's to show.
AnswerUnmarked(entry) == [i \in 1..Len(entry.answer) |-> Deferred(entry.answer[i])]

Answer(entry) ==
    [i \in 1..Len(entry.answer) |-> ClaimOf(entry, i)]
    \o IF ~Noticed(entry) THEN <<>>
       ELSE IF entry.stopped THEN <<NoticeOfBlock, NoticeOfResubmit>> ELSE <<NoticeOfResubmit>>

\* The mock fills in a blank "snippet" for a source that only has a "text", and
\* the builder takes the key that is there.
Snippet(source) == IF source.key = "snippet" THEN source.words ELSE {}
EvidenceText(entry) == UNION { src.title \cup Snippet(src) : src \in entry.sources }

-----------------------------------------------------------------------------
(* The metrics.                                                             *)

\* A claim is known by its place in the answer.
Claims(answer) == {i \in DOMAIN answer : answer[i].size # "tiny"}
Supported(claim, text) == claim.tokens = {} \/ claim.tokens \cap text # {}

Groundedness(entry) ==
    LET answer == Answer(entry)
        claims == Claims(answer)
        supported == {i \in claims : Supported(answer[i], EvidenceText(entry))}
    IN  CASE answer = <<>>  -> Full
          [] answer # <<>> /\ entry.sources = {} -> 0
          [] OTHER -> IF claims = {} THEN Full
                      ELSE Share(Cardinality(supported), Cardinality(claims))

FactualClaims(answer) == {i \in DOMAIN answer : answer[i].size = "long" /\ answer[i].number}

\* Half of the data points unsupported is enough (strictness 0.5).
Hallucinated(claim, text) ==
    LET unsupported == {k \in DOMAIN claim.points : claim.points[k] \notin text} IN
    claim.points # <<>> /\ 2 * Cardinality(unsupported) >= Len(claim.points)

\* Mutant: without evidence there is nothing to contradict.
RiskOfContradiction(entry) ==
    LET answer == Answer(entry)
        claims == FactualClaims(answer)
        flagged == {i \in claims : Hallucinated(answer[i], EvidenceText(entry))}
    IN  IF claims = {} \/ entry.sources = {} THEN 0
        ELSE Share(Cardinality(flagged), Cardinality(claims))

HallucinationRisk(entry) ==
    LET answer == Answer(entry)
        claims == FactualClaims(answer)
        flagged == {i \in claims : \/ entry.sources = {}
                                   \/ Hallucinated(answer[i], EvidenceText(entry))}
    IN  IF claims = {} THEN 0 ELSE Share(Cardinality(flagged), Cardinality(claims))

\* Seven words in ten of an expected text, or all of it, in one snippet.
Covered(expected, snippets) ==
    \/ expected = {}
    \/ \E s \in snippets : s # {} /\ 10 * Cardinality(expected \cap s) >= 7 * Cardinality(expected)

EvidenceCoverage(entry) ==
    LET snippets == { Snippet(src) : src \in entry.sources }
        covered == { src \in entry.sources : Covered(src.words, snippets) }
    IN  IF entry.sources = {} THEN Full
        ELSE Share(Cardinality(covered), Cardinality(entry.sources))

\* The harmonic mean of precision and recall, as one fraction.
ToolF1(called, expected) ==
    IF called \cup expected = {} THEN Full
    ELSE Share(2 * Cardinality(called \cap expected),
               Cardinality(called) + Cardinality(expected))

Complies(entry) == ApprovalFlag(entry) = entry.requires_approval

NoMetrics == [groundedness |-> 0, evidence_coverage |-> 0, tool_f1 |-> 0,
              approval_compliance |-> FALSE, hallucination_risk |-> 0]

Metrics(entry) ==
    [groundedness |-> Groundedness(entry),
     evidence_coverage |-> EvidenceCoverage(entry),
     tool_f1 |-> ToolF1(ReportedTools(entry), entry.tools),
     approval_compliance |-> Complies(entry),
     hallucination_risk |-> HallucinationRisk(entry)]

-----------------------------------------------------------------------------
(* The summary.                                                             *)

Evaluated == SumFunction([i \in DOMAIN dataset |-> results[i].times])
Warn(condition, what) == IF condition THEN <<what>> ELSE <<>>

\* The last two checks are there three times.
SummaryWarnings ==
    LET n == Evaluated
        risk == SumFunction([i \in DOMAIN dataset |->
                          results[i].times * results[i].metrics.hallucination_risk])
        grounded == SumFunction([i \in DOMAIN dataset |->
                              results[i].times * results[i].metrics.groundedness])
        passed == SumFunction([i \in DOMAIN dataset |->
                            IF results[i].metrics.approval_compliance
                            THEN results[i].times ELSE 0])
        again == Warn(10 * grounded < 7 * Full * n, "groundedness")
                 \o Warn(10 * passed < 9 * n, "approval")
    IN  Warn(10 * risk > 3 * Full * n, "risk") \o again \o again \o again

-----------------------------------------------------------------------------
Init ==
    /\ phase = "loading" /\ store \in {"ready", "missing"}
    /\ dataset = <<>> /\ results = <<>> /\ turns = 0 /\ warnings = <<>>

LoadDataset(lines) ==
    /\ phase = "loading"
    /\ phase' = "running" /\ dataset' = lines
    /\ results' = [i \in DOMAIN lines |-> [times |-> 0, metrics |-> NoMetrics]]
    /\ UNCHANGED <<store, turns, warnings>>

\* No such file, or a line that is not JSON.
LoadFails ==
    /\ phase = "loading" /\ phase' = "aborted"
    /\ UNCHANGED <<store, dataset, results, turns, warnings>>

EvaluatePrompt(i) ==
    /\ phase = "running" /\ store = "ready" /\ Evaluated < MaxPrompts
    /\ results' = [results EXCEPT ![i] = [times |-> @.times + 1,
                                         metrics |-> Metrics(dataset[i])]]
    /\ turns' = turns + 2
    /\ UNCHANGED <<phase, store, dataset, warnings>>

\* Mutant: the results so far are reported.
PromptFailsSoft(saved) ==
    /\ phase = "running" /\ Evaluated < MaxPrompts
    /\ store = "missing" => saved = 0
    /\ turns' = turns + saved
    /\ phase' = "reported" /\ warnings' = SummaryWarnings
    /\ UNCHANGED <<store, dataset, results>>

\* Nothing catches what load_history, save_turn or a metric raises: the run ends
\* with a traceback, after saving no turn of this prompt, the user's only, or both
\* (a reply that was saved and is not scored).
PromptFails(saved) ==
    /\ phase = "running" /\ Evaluated < MaxPrompts
    /\ store = "missing" => saved = 0
    /\ turns' = turns + saved
    /\ phase' = "aborted" /\ UNCHANGED <<store, dataset, results, warnings>>

\* The end of the data set.
PrintSummary ==
    /\ phase = "running" /\ phase' = "reported"
    /\ warnings' = IF Evaluated = 0 THEN <<>> ELSE SummaryWarnings
    /\ UNCHANGED <<store, dataset, results, turns>>

Next ==
    \/ LoadDataset(<<>>)
    \/ \E a, b \in Entries : LoadDataset(<<a, b>>)
    \/ LoadFails
    \/ \E i \in DOMAIN dataset : EvaluatePrompt(i)
    \/ \E saved \in {0, 1, 2} : PromptFails(saved)
    \/ PrintSummary

Spec == Init /\ [][Next]_vars

-----------------------------------------------------------------------------
(* Properties.                                                              *)

Scored == { i \in DOMAIN dataset : results[i].times > 0 }

\* Every score of a run is between 0 and 1.
ScoresInRange ==
    \A i \in Scored :
        {results[i].metrics.groundedness, results[i].metrics.evidence_coverage,
         results[i].metrics.tool_f1, results[i].metrics.hallucination_risk} \subseteq 0..Full

\* Of two prompts with the same reply, the one with more evidence is never
\* reported as less grounded or as more of a risk: the two metrics treat the
\* absence of evidence as the worst case (groundedness.py:53, hallucination_risk.py:57).
MoreEvidenceNeverWorse ==
    \A i, j \in Scored :
        (/\ Answer(dataset[i]) = Answer(dataset[j])
         /\ dataset[i].sources \subseteq dataset[j].sources) =>
            /\ results[i].metrics.groundedness <= results[j].metrics.groundedness
            /\ results[j].metrics.hallucination_risk <= results[i].metrics.hallucination_risk

\* The scores mean what they are averaged for.
ScoresAreSound == ScoresInRange /\ MoreEvidenceNeverWorse

\* A prompt that is held for approval as it should be is not scored fully grounded,
\* however well its answer is supported: the notice that the service adds counts as
\* a claim of the answer, and only evidence with a word of it grounds it
\* (chat_service.py:268, groundedness.py:139-176).
NoticeCostsGroundedness ==
    \A i \in Scored :
        (Noticed(dataset[i]) /\ NoticeOfResubmit.tokens \cap EvidenceText(dataset[i]) = {}) =>
            results[i].metrics.groundedness < Full

\* How many prompts of the run got a wrong approval flag, missing or superfluous.
WrongFlags ==
    SumFunction([i \in DOMAIN dataset |->
        IF ApprovalFlag(dataset[i]) # dataset[i].requires_approval THEN results[i].times ELSE 0])

\* A report warns of the approval guard exactly when more than one prompt in ten got
\* a wrong flag: of the ten prompts of the data set one passes silently.
WrongFlagsWarned ==
    phase = "reported" => ("approval" \in Range(warnings) <=> 10 * WrongFlags > Evaluated)

\* A summary is never of a part of a run: rows of the conversation table are two
\* for each result, and those of one prompt without a result are left by aborted
\* runs only, which report nothing.
SummaryIsOfWholeRun ==
    /\ phase = "reported" => turns = 2 * Evaluated
    /\ phase = "aborted" => turns - 2 * Evaluated \in 0..2 /\ warnings = <<>>

\* A summary can be relied on.
SummaryIsSound == SummaryIsOfWholeRun /\ WrongFlagsWarned
=============================================================================
