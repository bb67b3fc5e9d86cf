---------------------------- MODULE ChatPipeline ----------------------------
(***************************************************************************)
(* ChatService.answer as concurrent coroutines over one conversation       *)
(* table.  An action is what the coroutine does between two awaits, so the *)
(* actions of different requests interleave as the event loop (or several  *)
(* replicas on one database) lets them.  The language model, RAG/CAG and   *)
(* the tool gateway answer with anything they can return, or fail.         *)
(***************************************************************************)
EXTENDS ConversationStore, Evidence, Sequences

CONSTANTS
    Inputs,         \* the requests and callers considered
    Intents,        \* the keys of INTENT_MAP
    General,        \* the intent that has no tools
    BasePlan,       \* [Intents -> Seq(Tools)]: INTENT_TOOL_MAPPING
    ModelPlans,     \* plans the language model may return
    RagOutcomes,    \* how RAG/CAG retrieval may end
    ToolOutcomes,   \* what a tool call that does not raise may return
    ModelAnswers,   \* answers the language model may return
    HistoryWindow   \* max_turns of the history: 10

\* critical: the message has an approval keyword; keyword: the intent its
\* keywords give, or "none"; caller: what the principal may do ("none" is
\* answer() called without one).
Callers == {"chief", "staff", "none"}

InputType ==
    [ conv: Conversations, tenant: Tenants, critical: BOOLEAN,
      keyword: Intents \cup {"none"}, granted: BOOLEAN, caller: Callers,
      requireEvidence: BOOLEAN ]

ASSUME PipelineAssumption ==
    /\ Inputs \subseteq InputType
    /\ "none" \notin Intents
    /\ General \in Intents
    /\ BasePlan \in [Intents -> Seq(Tools)]
    /\ BasePlan[General] = <<>>
    /\ ModelPlans \subseteq Seq(Tools)
    /\ RagOutcomes \subseteq RagResults
    /\ ToolOutcomes \subseteq ToolResults
    /\ ModelAnswers \subseteq SUBSET AnswerLines
    /\ HistoryWindow \in Nat \ {0}

VARIABLES
    input,     \* the request each coroutine serves; fixed from the start
    pc,        \* the await each coroutine is at
    history,   \* the turns it loaded
    intent,
    rag,
    plan,
    blocked,   \* tools_blocked
    tried,     \* how many tools of the plan it has called
    results,   \* accumulated: what each tool returned, or Absent
    place,     \* the place of its key in accumulated: a dict keeps a key where it
               \* was first put
    called,    \* <<r, t>>: tool t has acted for r, at the gateway
    draft,     \* the reply under construction
    status     \* how the request ended

localVars == <<history, intent, rag, plan, blocked, tried, results, place, draft>>
vars == <<storeVars, input, pc, localVars, called, status>>

Steps == {"load", "saveUser", "classify", "retrieve", "plan", "tools",
          "compose", "saveReply", "done"}
Statuses == {"running", "ok", "refused", "failed", "lost"}

Drafts == [ raw: SUBSET AnswerLines, text: SUBSET AnswerLines, packet: Packets,
            required: BOOLEAN, uncertain: BOOLEAN ]

NoResults == [t \in Tools |-> Absent]
NoPlaces == [t \in Tools |-> 0]

NoDraft == [ raw |-> {}, text |-> {},
             packet |-> EvidencePacket("none", NoResults, NoPlaces),
             required |-> FALSE, uncertain |-> FALSE ]

TypeOK ==
    /\ StoreTypeOK
    /\ input \in [Requests -> InputType]
    /\ pc \in [Requests -> Steps]
    /\ history \in [Requests -> SUBSET Row]
    /\ intent \in [Requests -> Intents]
    /\ rag \in [Requests -> RagResults]
    /\ plan \in [Requests -> Seq(Tools)]
    /\ blocked \in [Requests -> BOOLEAN]
    /\ tried \in [Requests -> Nat]
    /\ results \in [Requests -> [Tools -> ToolResults \cup {Absent}]]
    /\ place \in [Requests -> [Tools -> Nat]]
    /\ called \subseteq Requests \X Tools
    /\ draft \in [Requests -> Drafts]
    /\ status \in [Requests -> Statuses]

Init ==
    /\ StoreInit
    /\ input \in [Requests -> Inputs]
    /\ pc = [r \in Requests |-> "load"]
    /\ history = [r \in Requests |-> {}]
    /\ intent = [r \in Requests |-> General]
    /\ rag = [r \in Requests |-> "none"]
    /\ plan = [r \in Requests |-> <<>>]
    /\ blocked = [r \in Requests |-> FALSE]
    /\ tried = [r \in Requests |-> 0]
    /\ results = [r \in Requests |-> NoResults]
    /\ place = [r \in Requests |-> NoPlaces]
    /\ called = {}
    /\ draft = [r \in Requests |-> NoDraft]
    /\ status = [r \in Requests |-> "running"]

-----------------------------------------------------------------------------
Goto(r, step) == pc' = [pc EXCEPT ![r] = step]

End(r, how) ==
    /\ Goto(r, "done")
    /\ status' = [status EXCEPT ![r] = how]

\* Mutant: the message is not saved.
LoadHistoryOnly(r) ==
    /\ pc[r] = "load"
    /\ history' = [history EXCEPT ![r] =
                     LastTurns(input[r].conv, input[r].tenant, HistoryWindow)]
    /\ Goto(r, "classify")
    /\ UNCHANGED <<storeVars, input, intent, rag, plan, blocked, tried, results, place,
                   called, draft, status>>

\* The history is read before the message is saved.
LoadHistory(r) ==
    /\ pc[r] = "load"
    /\ history' = [history EXCEPT ![r] =
                     LastTurns(input[r].conv, input[r].tenant, HistoryWindow)]
    /\ BeginSave(r, input[r].conv, input[r].tenant, "user")
    /\ Goto(r, "saveUser")
    /\ UNCHANGED <<input, intent, rag, plan, blocked, tried, results, place, called,
                   draft, status>>

LoadFails(r) ==
    /\ pc[r] = "load"
    /\ End(r, "failed")
    /\ UNCHANGED <<storeVars, input, localVars, called>>

Insert(r) ==
    /\ InsertTurn(r)
    /\ UNCHANGED <<input, pc, localVars, called, status>>

CommitUserTurn(r) ==
    /\ pc[r] = "saveUser"
    /\ CommitTurn(r)
    /\ Goto(r, "classify")
    /\ UNCHANGED <<input, localVars, called, status>>

\* Mutant: the model's word is not looked up in INTENT_MAP.
UncheckedIntents(r) ==
    IF input[r].keyword # "none" THEN {input[r].keyword} ELSE Intents \cup {"none"}

IntentsOf(r) ==
    IF input[r].keyword # "none" THEN {input[r].keyword} ELSE Intents

\* Keywords decide; without one the model does, and General is the fallback.
Classify(r) ==
    /\ pc[r] = "classify"
    /\ \E i \in IntentsOf(r) : intent' = [intent EXCEPT ![r] = i]
    /\ Goto(r, "retrieve")
    /\ UNCHANGED <<storeVars, input, history, rag, plan, blocked, tried,
                   results, place, called, draft, status>>

Retrieve(r) ==
    /\ pc[r] = "retrieve"
    /\ \E outcome \in RagOutcomes : rag' = [rag EXCEPT ![r] = outcome]
    /\ Goto(r, "plan")
    /\ UNCHANGED <<storeVars, input, history, intent, plan, blocked, tried,
                   results, place, called, draft, status>>

\* The model's list, the base tools when its answer does not parse, nothing
\* when it holds no list; an intent without tools never asks the model.
PossiblePlans(i) ==
    IF BasePlan[i] = <<>> THEN {<<>>}
    ELSE ModelPlans \cup {BasePlan[i], <<>>}

PlanNames(p) == { p[k] : k \in DOMAIN p }

Required(r, p) == PreApproval(input[r].critical, PlanNames(p))

NeverRefused(r) == FALSE  \* mutant: the role is not validated

Refused(r) == input[r].granted /\ input[r].caller = "staff"

\* Tool planning, then the approval gate, with no await between them.
PlanAndGate(r) ==
    /\ pc[r] = "plan"
    /\ ~Refused(r)
    /\ \E p \in PossiblePlans(intent[r]) :
         LET withheld == Required(r, p) /\ ~input[r].granted
         IN  /\ plan' = [plan EXCEPT ![r] = p]
             /\ blocked' = [blocked EXCEPT ![r] = withheld]
             /\ Goto(r, IF p # <<>> /\ ~withheld THEN "tools" ELSE "compose")
    /\ UNCHANGED <<storeVars, input, history, intent, rag, tried, results, place,
                   called, draft, status>>

\* HTTP 403: a grant from someone who cannot give it.
Refuse(r) ==
    /\ pc[r] = "plan"
    /\ Refused(r)
    /\ End(r, "refused")
    /\ UNCHANGED <<storeVars, input, localVars, called>>

NextTool(r) == plan[r][tried[r] + 1]

\* Mutant: the loop index is not advanced.
SameTool(r) == Goto(r, "tools") /\ UNCHANGED tried

AfterTool(r) ==
    /\ tried' = [tried EXCEPT ![r] = @ + 1]
    /\ Goto(r, IF tried[r] + 1 = Len(plan[r]) THEN "compose" ELSE "tools")

\* accumulated[tool_name] = result
Record(r, outcome) ==
    /\ results' = [results EXCEPT ![r][NextTool(r)] = outcome]
    /\ place' = [place EXCEPT ![r][NextTool(r)] =
                   IF results[r][NextTool(r)] = Absent THEN tried[r] + 1 ELSE @]

CallTool(r) ==
    /\ pc[r] = "tools"
    /\ called' = called \cup {<<r, NextTool(r)>>}
    /\ \E outcome \in ToolOutcomes : Record(r, outcome)
    /\ AfterTool(r)
    /\ UNCHANGED <<storeVars, input, history, intent, rag, plan, blocked,
                   draft, status>>

\* The call raises; after a timeout the tool may have acted all the same.
\* The loop goes on with the next tool.
ToolFails(r) ==
    /\ pc[r] = "tools"
    /\ called' \in {called, called \cup {<<r, NextTool(r)>>}}
    /\ AfterTool(r)
    /\ UNCHANGED <<storeVars, input, history, intent, rag, plan, blocked,
                   results, place, draft, status>>

\* Evidence is built outside any try.
EvidenceFails(r) ==
    /\ pc[r] = "compose"
    /\ rag[r] = "malformed"
    /\ End(r, "failed")
    /\ UNCHANGED <<storeVars, input, localVars, called>>

\* What is saved and sent: a blocked request's answer, if there is one, ends
\* with the notice.
ReplyText(r, raw) ==
    Sanitize(raw) \cup IF blocked[r] /\ raw # {} THEN {"notice"} ELSE {}

\* The reply for one answer of the model: sanitised, checked for evidence, and
\* scanned once more for advice that needs approval.
Reply(r, raw) ==
    LET packet == EvidencePacket(rag[r], results[r], place[r])
    IN [ raw       |-> raw,
         text      |-> ReplyText(r, raw),
         packet    |-> packet,
         required  |-> \/ Required(r, plan[r])
                       \/ ApprovalRequired(input[r].critical,
                                           CriticalRecommendation(Sanitize(raw))),
         uncertain |-> \/ ~EvidencePassed(packet, input[r].requireEvidence)
                       \/ blocked[r] ]

Compose(r) ==
    /\ pc[r] = "compose"
    /\ rag[r] # "malformed"
    /\ \E raw \in ModelAnswers \cup {FallbackText} :
         draft' = [draft EXCEPT ![r] = Reply(r, raw)]
    /\ BeginSave(r, input[r].conv, input[r].tenant, "assistant")
    /\ Goto(r, "saveReply")
    /\ UNCHANGED <<input, history, intent, rag, plan, blocked, tried, results, place,
                   called, status>>

\* The reply is sent once its turn is committed.
CommitReply(r) ==
    /\ pc[r] = "saveReply"
    /\ CommitTurn(r)
    /\ End(r, "ok")
    /\ UNCHANGED <<input, localVars, called>>

\* save_turn raises, with the turn rolled back, or committed by a database
\* whose acknowledgement was lost.
SaveFails(r) ==
    /\ pc[r] \in {"saveUser", "saveReply"}
    /\ RollBack(r) \/ CommitTurn(r)
    /\ End(r, "failed")
    /\ UNCHANGED <<input, localVars, called>>

\* The process dies or the coroutine is cancelled; the database survives.
Lose(r) ==
    /\ pc[r] \notin {"load", "done"}
    /\ RollBack(r)
    /\ End(r, "lost")
    /\ UNCHANGED <<input, localVars, called>>

Proceed(r) ==
    \/ LoadHistory(r) \/ LoadFails(r) \/ Insert(r) \/ CommitUserTurn(r)
    \/ Classify(r) \/ Retrieve(r) \/ PlanAndGate(r) \/ Refuse(r)
    \/ CallTool(r) \/ ToolFails(r) \/ EvidenceFails(r) \/ Compose(r)
    \/ CommitReply(r) \/ SaveFails(r)

Next == \E r \in Requests : Proceed(r) \/ Lose(r)

\* Every await of a request that has begun ends: HTTP clients have timeouts and
\* the database answers or raises.  Nothing makes a request arrive or be lost.
Fairness == \A r \in Requests : WF_vars(pc[r] # "load" /\ Proceed(r))

Spec == Init /\ [][Next]_vars /\ Fairness

-----------------------------------------------------------------------------
(* Safety.                                                                  *)

Turn(r, role) == { row \in rows : row.author = r /\ row.role = role }

\* A tool has acted only for a request whose gate let it: not blocked, and
\* when the message or the tool is critical, with a grant that was not refused.
EffectsAuthorised ==
    \A e \in called :
        LET r == e[1] IN
        /\ ~blocked[r]
        /\ input[r].granted => input[r].caller # "staff"
        /\ input[r].critical \/ e[2] \in KeywordTools => input[r].granted

\* Whatever fails or dies afterwards, an effect at the gateway has its question
\* in the table: the user turn is committed before anything else is awaited.
EffectsAudited ==
    \A e \in called :
        \E row \in Turn(e[1], "user") : row.tenant = input[e[1]].tenant

\* An answered request left exactly its two turns, question before answer, in
\* the thread it was asked in, whatever was saved between them.
ReplyDurable ==
    \A r \in Requests : status[r] = "ok" =>
        \E q \in Turn(r, "user"), a \in Turn(r, "assistant") :
            /\ Turn(r, "user") = {q} /\ Turn(r, "assistant") = {a}
            /\ q.id < a.id
            /\ {q, a} \subseteq Thread(input[r].conv, input[r].tenant)

\* A refused request (403) has its question in the table but neither answer
\* nor effect, although the refusal comes four awaits after the question.
RefusedLeavesOnlyQuestion ==
    \A r \in Requests : status[r] = "refused" =>
        /\ Turn(r, "user") # {} /\ Turn(r, "assistant") = {}
        /\ \A t \in Tools : <<r, t>> \notin called

\* The history a request works with holds committed turns of its own tenant
\* and conversation, and never its own question.
HistoryScoped ==
    \A r \in Requests : \A row \in history[r] :
        /\ row \in rows
        /\ row.conv = input[r].conv
        /\ row.tenant = input[r].tenant
        /\ row.author # r

\* A blocked request that is answered says so in every place a client looks,
\* and nothing in its evidence comes from a tool.
BlockedIsVisible ==
    \A r \in Requests : status[r] = "ok" /\ blocked[r] =>
        /\ draft[r].required /\ draft[r].uncertain
        /\ draft[r].packet.raw = {}
        /\ draft[r].text # {} => "notice" \in draft[r].text

\* An answered request that was not blocked called every tool of its plan,
\* whichever of them failed.
WholePlanTried ==
    \A r \in Requests : status[r] = "ok" /\ ~blocked[r] =>
        tried[r] = Len(plan[r])

\* No fabricated evidence: a field in a reply comes from a tool of its plan that
\* acted for this very request.
EvidenceHasSource ==
    \A r \in Requests : \A field \in draft[r].packet.raw :
        field[2] \in PlanNames(plan[r]) /\ <<r, field[2]>> \in called

\* Critical advice of the model never goes out bare: either the reply requires
\* approval, or the sanitiser took the advice's keyword away, which hides it from
\* the approval scan that runs later, and left the deferral in its place.
CriticalAdviceIsHeld ==
    \A r \in Requests :
        status[r] = "ok" /\ CriticalRecommendation(draft[r].raw)
            => draft[r].required \/ "deferral" \in draft[r].text

\* A field that a tool returned is missing from a reply only because a tool whose
\* key came later returned the same one, which is there instead, or because some
\* result had neither of the keys the builder looks for, and then every field is
\* missing; and no key is there twice (evidence_planner.py:58-76).
FieldsAreMerged ==
    \A r \in Requests : status[r] = "ok" =>
        LET raw == draft[r].packet.raw
            told == {field \in Keys \X Tools : field[1] \in Fields(results[r][field[2]])}
        IN  /\ \A field \in told :
                  \/ \E t \in Tools : /\ <<field[1], t>> \in raw
                                      /\ place[r][t] >= place[r][field[2]]
                  \/ raw = {} /\ \E t \in Tools : results[r][t].form = "bare"
            /\ \A f, g \in raw : f[1] = g[1] => f = g

\* What a failing tool can do to a reply: it ends no loop, it leaves no evidence of
\* its own, and it takes none from the others.
ToolFailureContained == WholePlanTried /\ EvidenceHasSource /\ FieldsAreMerged

\* A reply says what was held back, of its tools and of its advice, although the
\* sanitiser, the checks and the notice each change what the next one reads.
ReplySaysWhatIsHeld == BlockedIsVisible /\ CriticalAdviceIsHeld

\* Committed turns are never lost or rewritten; with one writer at a time each
\* new one is also the newest, so a history once read stays a prefix.
TableAppendOnly ==
    [][ /\ rows \subseteq rows'
        /\ serialWriters => \A new \in rows' \ rows : \A old \in rows :
                               old.id < new.id ]_rows

\* A follow-up sees what it follows: at the load, both turns of every request
\* answered before it in its thread are in the history, unless the window is
\* full of newer turns.
FollowUpSeesReplies ==
    [][ \A r \in Requests : pc[r] = "load" /\ pc'[r] = "saveUser" =>
          \A row \in Thread(input[r].conv, input[r].tenant) :
             \/ row \in history'[r]
             \/ row.author \in Requests /\ status[row.author] # "ok"
             \/ Cardinality({ h \in history'[r] : h.id > row.id }) = HistoryWindow
      ]_vars

\* Every request that has begun ends: answered, refused, failed or lost.
EveryRequestEnds == \A r \in Requests : pc[r] # "load" ~> pc[r] = "done"

-----------------------------------------------------------------------------
(* The pipeline implements the governance promise.                          *)

MandateOf(r) == [ critical |-> input[r].critical, granted |-> input[r].granted,
                  mayGrant |-> input[r].caller # "staff" ]

\* The decision a request is under, from its step, tools_blocked and its grant.
DecisionAt(step, isBlocked, granted) ==
    CASE step = "done" -> "closed"
      [] step \in {"load", "saveUser", "classify", "retrieve", "plan"} -> "open"
      [] step \in {"tools", "compose", "saveReply"} /\ isBlocked -> "withheld"
      [] step \in {"tools", "compose", "saveReply"} /\ ~isBlocked /\ granted
           -> "approved"
      [] OTHER -> "free"

DecisionOf(r) == DecisionAt(pc[r], blocked[r], input[r].granted)

Gov == INSTANCE Governance WITH
          mandate   <- [r \in Requests |-> MandateOf(r)],
          decision  <- [r \in Requests |-> DecisionOf(r)],
          performed <- called

\* Decided once, tools only under the decision, nothing after the end.
Governed == Gov!Spec

=============================================================================
