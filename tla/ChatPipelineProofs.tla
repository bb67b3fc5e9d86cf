------------------------- MODULE ChatPipelineProofs -------------------------
(***************************************************************************)
(* Proofs about ChatPipeline for every set of requests, inputs, tools and  *)
(* outcomes: its types, the approval gate and the governance it implements, *)
(* what the conversation table holds of each request and what a history    *)
(* shows of it, and what a reply says.  The types need one fact that is not *)
(* a type: a request that is calling tools has one left to call, since it  *)
(* has called none before.                                                 *)
(***************************************************************************)
EXTENDS ChatPipeline, FiniteSetTheorems, NaturalsInduction, WellFoundedInduction, TLAPS

BeforeGate == {"load", "saveUser", "classify", "retrieve", "plan"}

\* No tool before the gate; in the tool loop the request is inside its plan.
ToolLeft ==
    \A r \in Requests :
        /\ pc[r] \in BeforeGate => tried[r] = 0
        /\ pc[r] = "tools" => tried[r] < Len(plan[r])

TypeInv == TypeOK /\ ToolLeft

-----------------------------------------------------------------------------
\* A reply is a draft whatever the model answered.
LEMMA ReplyType ==
    ASSUME TypeOK, NEW r \in Requests, NEW raw \in SUBSET AnswerLines
    PROVE  Reply(r, raw) \in Drafts
<1>1. EvidencePacket(rag[r], results[r], place[r]) \in Packets
  BY DEF EvidencePacket, Packets, Merged
<1>2. Sanitize(raw) \subseteq AnswerLines
  BY DEF Sanitize, SanitizeLine, AnswerLines, AdviceLines, ProseLines
<1>3. ReplyText(r, raw) \in SUBSET AnswerLines
  BY <1>2 DEF ReplyText, AnswerLines, ProseLines
<1>4. /\ Required(r, plan[r]) \in BOOLEAN
      /\ ApprovalRequired(input[r].critical,
                          CriticalRecommendation(Sanitize(raw))) \in BOOLEAN
      /\ EvidencePassed(EvidencePacket(rag[r], results[r], place[r]),
                        input[r].requireEvidence) \in BOOLEAN
      /\ blocked[r] \in BOOLEAN
  BY DEF TypeOK, InputType, Required, PreApproval, ApprovalRequired,
         CriticalRecommendation, EvidencePassed
<1>. QED
  BY <1>1, <1>3, <1>4, Zenon DEF Reply, Drafts

\* The pipeline starts in a typed state, over the rows that survived.
LEMMA InitTyped == Init => TypeInv
<1>. SUFFICES ASSUME Init PROVE TypeInv
  OBVIOUS
<1>1. StoreTypeOK
  BY StoreAssumption DEF Init, StoreInit, Migrated, StoreTypeOK, Row
<1>2. NoDraft \in Drafts
  <2>1. EvidencePacket("none", NoResults, NoPlaces) \in Packets
    BY DEF EvidencePacket, Packets, Merged
  <2>. QED
    BY <2>1 DEF NoDraft, Drafts
<1>. QED
  BY <1>1, <1>2, PipelineAssumption
  DEF Init, TypeInv, TypeOK, ToolLeft, BeforeGate, Steps, Statuses, RagResults, NoResults, NoPlaces

\* Beginning to save a turn keeps the table typed.
LEMMA BeginSaveTyped ==
    ASSUME TypeOK, NEW r \in Requests, NEW conv \in Conversations,
           NEW tenant \in Tenants, NEW role \in Roles,
           BeginSave(r, conv, tenant, role)
    PROVE  StoreTypeOK'
BY DEF TypeOK, StoreTypeOK, BeginSave, Row

\* Committing a turn keeps the table typed.
LEMMA CommitTyped ==
    ASSUME TypeOK, NEW r \in Requests, CommitTurn(r)
    PROVE  StoreTypeOK'
BY DEF TypeOK, StoreTypeOK, CommitTurn, Inserted, Saving

\* Undoing an open turn keeps the table typed.
LEMMA RollBackTyped ==
    ASSUME TypeOK, NEW r \in Requests, RollBack(r)
    PROVE  StoreTypeOK'
BY DEF TypeOK, StoreTypeOK, RollBack, Inserted, Saving, Row

\* Inserting a question or an answer keeps the table typed.
LEMMA InsertTyped ==
    ASSUME TypeOK, NEW r \in Requests, InsertTurn(r)
    PROVE  StoreTypeOK'
<1>1. \A row \in Row, n \in Nat : [row EXCEPT !.id = n] \in Row
  BY DEF Row
<1>2. open[r] \in Row
  BY DEF TypeOK, StoreTypeOK, InsertTurn, Saving
<1>3. [open[r] EXCEPT !.id = nextId] \in Row
  BY <1>1, <1>2, Zenon DEF TypeOK, StoreTypeOK
<1>4. open' = [open EXCEPT ![r] = [open[r] EXCEPT !.id = nextId]]
  BY Zenon DEF InsertTurn
<1>5. open' \in [Requests -> Row \cup {NoRow}]
  BY <1>3, <1>4, Zenon DEF TypeOK, StoreTypeOK
<1>. QED
  BY <1>5 DEF TypeOK, StoreTypeOK, InsertTurn

\* What a step of the tool loop does to the loop's own variables.
LEMMA AfterToolTyped ==
    ASSUME TypeInv, NEW r \in Requests, pc[r] = "tools", AfterTool(r),
           plan' = plan
    PROVE  /\ NextTool(r) \in Tools
           /\ tried' \in [Requests -> Nat]
           /\ pc' \in [Requests -> Steps]
           /\ ToolLeft'
<1>1. /\ tried[r] \in Nat /\ plan[r] \in Seq(Tools)
      /\ tried[r] < Len(plan[r])
  BY DEF TypeInv, TypeOK, ToolLeft
<1>2. NextTool(r) \in Tools
  BY <1>1 DEF NextTool
<1>3. tried' \in [Requests -> Nat] /\ pc' \in [Requests -> Steps]
  BY DEF TypeInv, TypeOK, AfterTool, Goto, Steps
<1>4. ASSUME NEW q \in Requests
      PROVE  /\ pc'[q] \in BeforeGate => tried'[q] = 0
             /\ pc'[q] = "tools" => tried'[q] < Len(plan'[q])
  <2>1. CASE q = r
    BY <1>1, <1>4, <2>1 DEF AfterTool, Goto, TypeInv, TypeOK, BeforeGate
  <2>2. CASE q # r
    BY <1>4, <2>2 DEF AfterTool, Goto, TypeInv, TypeOK, ToolLeft, BeforeGate
  <2>. QED
    BY <2>1, <2>2
<1>. QED
  BY <1>2, <1>3, <1>4 DEF ToolLeft

\* Every step of one request keeps the types.
LEMMA StepTyped ==
    ASSUME TypeInv, NEW r \in Requests, Proceed(r) \/ Lose(r)
    PROVE  TypeInv'
<1>. USE DEF TypeInv, TypeOK, Goto, End, Steps, Statuses, BeforeGate
<1>in. input[r] \in InputType
  OBVIOUS
<1>1. CASE LoadHistory(r)
  <2>1. StoreTypeOK'
    BY <1>1, <1>in, BeginSaveTyped DEF LoadHistory, InputType, Roles
  <2>2. LastTurns(input[r].conv, input[r].tenant, HistoryWindow) \subseteq Row
    BY DEF LastTurns, Thread, StoreTypeOK
  <2>. QED
    BY <1>1, <2>1, <2>2 DEF LoadHistory, ToolLeft
<1>2. CASE LoadFails(r)
  BY <1>2 DEF LoadFails, ToolLeft, storeVars, localVars, StoreTypeOK
<1>3. CASE Insert(r)
  <2>1. StoreTypeOK'
    BY <1>3, InsertTyped DEF Insert
  <2>. QED
    BY <1>3, <2>1 DEF Insert, ToolLeft, localVars
<1>4. CASE CommitUserTurn(r)
  <2>1. StoreTypeOK'
    BY <1>4, CommitTyped DEF CommitUserTurn
  <2>. QED
    BY <1>4, <2>1 DEF CommitUserTurn, ToolLeft, localVars
<1>5. CASE Classify(r)
  BY <1>5, <1>in DEF Classify, IntentsOf, InputType, ToolLeft, storeVars, StoreTypeOK
<1>6. CASE Retrieve(r)
  BY <1>6, PipelineAssumption DEF Retrieve, ToolLeft, storeVars, StoreTypeOK
<1>7. CASE PlanAndGate(r)
  <2>1. PICK p \in PossiblePlans(intent[r]) :
          LET withheld == Required(r, p) /\ ~input[r].granted
          IN  /\ plan' = [plan EXCEPT ![r] = p]
              /\ blocked' = [blocked EXCEPT ![r] = withheld]
              /\ Goto(r, IF p # <<>> /\ ~withheld THEN "tools" ELSE "compose")
    BY <1>7 DEF PlanAndGate
  <2>2. p \in Seq(Tools)
    BY PipelineAssumption DEF PossiblePlans
  <2>3. plan' \in [Requests -> Seq(Tools)]
    BY <2>1, <2>2
  <2>4. blocked' \in [Requests -> BOOLEAN]
    BY <2>1, <1>in DEF InputType, Required, PreApproval, ApprovalRequired
  <2>5. pc' \in [Requests -> Steps]
    BY <2>1
  <2>6. tried[r] = 0 /\ (p # <<>> => 0 < Len(p))
    BY <1>7, <2>2 DEF PlanAndGate, ToolLeft
  <2>7. ToolLeft'
    BY <1>7, <2>1, <2>6 DEF PlanAndGate, ToolLeft
  <2>. QED
    BY <1>7, <2>3, <2>4, <2>5, <2>7 DEF PlanAndGate, storeVars, StoreTypeOK
<1>8. CASE Refuse(r)
  BY <1>8 DEF Refuse, ToolLeft, storeVars, localVars, StoreTypeOK
<1>9. CASE CallTool(r)
  <2>1. /\ NextTool(r) \in Tools /\ ToolLeft'
        /\ tried' \in [Requests -> Nat] /\ pc' \in [Requests -> Steps]
    BY <1>9, AfterToolTyped DEF CallTool
  <2>2. PICK outcome \in ToolResults : Record(r, outcome)
    BY <1>9, PipelineAssumption DEF CallTool
  <2>3. results' \in [Requests -> [Tools -> ToolResults \cup {Absent}]]
    BY <2>1, <2>2 DEF Record
  <2>4. place' \in [Requests -> [Tools -> Nat]]
    BY <2>1, <2>2 DEF Record
  <2>5. called' \subseteq Requests \X Tools
    BY <1>9, <2>1 DEF CallTool
  <2>6. StoreTypeOK'
    BY <1>9 DEF CallTool, storeVars, StoreTypeOK
  <2>. QED
    BY <1>9, <2>1, <2>3, <2>4, <2>5, <2>6 DEF CallTool
<1>10. CASE ToolFails(r)
  <2>1. /\ NextTool(r) \in Tools /\ ToolLeft'
        /\ tried' \in [Requests -> Nat] /\ pc' \in [Requests -> Steps]
    BY <1>10, AfterToolTyped DEF ToolFails
  <2>2. called' \subseteq Requests \X Tools
    BY <1>10, <2>1 DEF ToolFails
  <2>3. StoreTypeOK'
    BY <1>10 DEF ToolFails, storeVars, StoreTypeOK
  <2>. QED
    BY <1>10, <2>1, <2>2, <2>3 DEF ToolFails
<1>11. CASE EvidenceFails(r)
  BY <1>11 DEF EvidenceFails, ToolLeft, storeVars, localVars, StoreTypeOK
<1>12. CASE Compose(r)
  <2>1. StoreTypeOK'
    BY <1>12, <1>in, BeginSaveTyped DEF Compose, InputType, Roles
  <2>2. \A raw \in ModelAnswers \cup {FallbackText} : Reply(r, raw) \in Drafts
    BY ReplyType, PipelineAssumption DEF FallbackText, AnswerLines, AdviceLines, ProseLines
  <2>3. draft' \in [Requests -> Drafts]
    BY <1>12, <2>2 DEF Compose
  <2>. QED
    BY <1>12, <2>1, <2>3 DEF Compose, ToolLeft
<1>13. CASE CommitReply(r)
  <2>1. StoreTypeOK'
    BY <1>13, CommitTyped DEF CommitReply
  <2>. QED
    BY <1>13, <2>1 DEF CommitReply, ToolLeft, localVars
<1>14. CASE SaveFails(r)
  <2>1. StoreTypeOK'
    BY <1>14, CommitTyped, RollBackTyped DEF SaveFails
  <2>. QED
    BY <1>14, <2>1 DEF SaveFails, ToolLeft, localVars
<1>15. CASE Lose(r)
  <2>1. StoreTypeOK'
    BY <1>15, RollBackTyped DEF Lose
  <2>. QED
    BY <1>15, <2>1 DEF Lose, ToolLeft, localVars
<1>. QED
  BY <1>1, <1>2, <1>3, <1>4, <1>5, <1>6, <1>7, <1>8, <1>9, <1>10, <1>11, <1>12,
     <1>13, <1>14, <1>15 DEF Proceed

\* The types and the loop bounds they rest on hold in every reachable state.
THEOREM Typed == Spec => []TypeInv
<1>1. TypeInv /\ [Next]_vars => TypeInv'
  <2>1. CASE UNCHANGED vars
    BY <2>1 DEF TypeInv, TypeOK, ToolLeft, StoreTypeOK, vars, storeVars, localVars
  <2>. QED
    BY <2>1, StepTyped DEF Next
<1>. QED
  BY InitTyped, <1>1, PTL DEF Spec

\* Types: every variable of the pipeline and of the table stays in its range.
THEOREM TypeCorrect == Spec => []TypeOK
BY Typed, PTL DEF TypeInv

-----------------------------------------------------------------------------
(* The approval gate.  EffectsAuthorised is not inductive: it says nothing  *)
(* of a request that is about to call a tool.                               *)

\* The gate let r through, and what it let through is what r is doing.
LetThrough(r) ==
    /\ ~blocked[r]
    /\ ~Refused(r)
    /\ Required(r, plan[r]) => input[r].granted

GateInv ==
    \A r \in Requests :
        /\ pc[r] \in BeforeGate => \A t \in Tools : <<r, t>> \notin called
        /\ pc[r] = "tools" => LetThrough(r)

SafeInv == TypeInv /\ GateInv /\ EffectsAuthorised

\* A step that calls no tool and decides nothing, and moves no request into the
\* tool loop or back before the gate.
LEMMA QuietStep ==
    ASSUME SafeInv,
           called' = called, blocked' = blocked, plan' = plan, input' = input,
           \A q \in Requests :
              \/ pc'[q] = pc[q]
              \/ /\ pc'[q] # "tools"
                 /\ pc'[q] \in BeforeGate => pc[q] \in BeforeGate
    PROVE  GateInv' /\ EffectsAuthorised'
BY DEF SafeInv, GateInv, EffectsAuthorised, LetThrough, Refused, Required

\* A tool of the plan acts for a request that was let through.
LEMMA EffectStep ==
    ASSUME SafeInv, NEW r \in Requests, pc[r] = "tools",
           called' \subseteq called \cup {<<r, NextTool(r)>>},
           AfterTool(r),
           blocked' = blocked, plan' = plan, input' = input
    PROVE  GateInv' /\ EffectsAuthorised'
<1>1. /\ tried[r] + 1 \in DOMAIN plan[r]
      /\ NextTool(r) \in PlanNames(plan[r])
  BY DEF SafeInv, TypeInv, TypeOK, ToolLeft, NextTool, PlanNames
<1>2. LetThrough(r)
  BY DEF SafeInv, GateInv
<1>3. /\ ~blocked[r]
      /\ input[r].granted => input[r].caller # "staff"
      /\ input[r].critical \/ NextTool(r) \in KeywordTools => input[r].granted
  BY <1>1, <1>2 DEF LetThrough, Refused, Required, PreApproval, ApprovalRequired
<1>4. EffectsAuthorised'
  <2>. SUFFICES ASSUME NEW e \in called'
                PROVE  /\ ~blocked[e[1]]
                       /\ input[e[1]].granted => input[e[1]].caller # "staff"
                       /\ input[e[1]].critical \/ e[2] \in KeywordTools
                            => input[e[1]].granted
    BY DEF EffectsAuthorised
  <2>1. CASE e \in called
    BY <2>1 DEF SafeInv, EffectsAuthorised
  <2>2. CASE e = <<r, NextTool(r)>>
    BY <2>2, <1>3
  <2>. QED
    BY <2>1, <2>2
<1>5. \A q \in Requests : /\ q # r => pc'[q] = pc[q]
                         /\ pc'[r] \in {"tools", "compose"}
  BY DEF AfterTool, Goto, SafeInv, TypeInv, TypeOK
<1>6. GateInv'
  <2>. SUFFICES ASSUME NEW q \in Requests
                PROVE  /\ pc'[q] \in BeforeGate =>
                             \A t \in Tools : <<q, t>> \notin called'
                       /\ pc'[q] = "tools" => LetThrough(q)'
    BY DEF GateInv
  <2>1. CASE q = r
    BY <2>1, <1>2, <1>5 DEF BeforeGate, LetThrough, Refused, Required
  <2>2. CASE q # r
    BY <2>2, <1>5 DEF SafeInv, GateInv, LetThrough, Refused, Required
  <2>. QED
    BY <2>1, <2>2
<1>. QED
  BY <1>4, <1>6

\* The gate itself: what it computes is what LetThrough asks for.
LEMMA GateStep ==
    ASSUME SafeInv, NEW r \in Requests, PlanAndGate(r)
    PROVE  GateInv' /\ EffectsAuthorised'
<1>1. PICK p \in PossiblePlans(intent[r]) :
        LET withheld == Required(r, p) /\ ~input[r].granted
        IN  /\ plan' = [plan EXCEPT ![r] = p]
            /\ blocked' = [blocked EXCEPT ![r] = withheld]
            /\ Goto(r, IF p # <<>> /\ ~withheld THEN "tools" ELSE "compose")
  BY DEF PlanAndGate
<1>2. /\ called' = called /\ input' = input
      /\ pc[r] = "plan" /\ ~Refused(r)
  BY DEF PlanAndGate
<1>3. /\ plan'[r] = p
      /\ blocked'[r] = (Required(r, p) /\ ~input[r].granted)
      /\ pc'[r] \in {"tools", "compose"}
      /\ pc'[r] = "tools" => ~(Required(r, p) /\ ~input[r].granted)
  BY <1>1, Zenon DEF Goto, SafeInv, TypeInv, TypeOK
<1>4. \A q \in Requests \ {r} :
        pc'[q] = pc[q] /\ plan'[q] = plan[q] /\ blocked'[q] = blocked[q]
  BY <1>1 DEF Goto, SafeInv, TypeInv, TypeOK
<1>5. \A t \in Tools : <<r, t>> \notin called
  BY <1>2 DEF SafeInv, GateInv, BeforeGate
<1>6. EffectsAuthorised'
  <2>. SUFFICES ASSUME NEW e \in called
                PROVE  /\ ~blocked'[e[1]]
                       /\ input[e[1]].granted => input[e[1]].caller # "staff"
                       /\ input[e[1]].critical \/ e[2] \in KeywordTools
                            => input[e[1]].granted
    BY <1>2 DEF EffectsAuthorised
  <2>1. e[1] \in Requests \ {r}
    BY <1>5 DEF SafeInv, TypeInv, TypeOK
  <2>. QED
    BY <2>1, <1>4 DEF SafeInv, EffectsAuthorised
<1>7. GateInv'
  <2>. SUFFICES ASSUME NEW q \in Requests
                PROVE  /\ pc'[q] \in BeforeGate =>
                             \A t \in Tools : <<q, t>> \notin called'
                       /\ pc'[q] = "tools" => LetThrough(q)'
    BY DEF GateInv
  <2>1. CASE q = r
    <3>1. pc'[r] = "tools" => LetThrough(r)'
      BY <1>2, <1>3, Zenon DEF LetThrough, Refused, Required
    <3>. QED
      BY <2>1, <3>1, <1>2, <1>5
  <2>2. CASE q # r
    BY <2>2, <1>2, <1>4 DEF SafeInv, GateInv, LetThrough, Refused, Required
  <2>. QED
    BY <2>1, <2>2
<1>. QED
  BY <1>6, <1>7

\* Every step of one request keeps the gate's invariant: the gate decides it,
\* only the tool loop uses it, and nothing else touches it.
LEMMA StepSafe ==
    ASSUME SafeInv, NEW r \in Requests, Proceed(r) \/ Lose(r)
    PROVE  SafeInv'
<1>1. TypeInv'
  BY StepTyped DEF SafeInv
<1>. USE DEF Goto, End, localVars
<1>ty. pc \in [Requests -> Steps]
  BY DEF SafeInv, TypeInv, TypeOK
<1>2. CASE LoadHistory(r) \/ LoadFails(r) \/ Insert(r) \/ CommitUserTurn(r)
  BY <1>2, <1>ty, <1>1, QuietStep
  DEF LoadHistory, LoadFails, Insert, CommitUserTurn, BeforeGate, SafeInv
<1>3. CASE Classify(r) \/ Retrieve(r) \/ Refuse(r) \/ EvidenceFails(r)
  BY <1>3, <1>ty, <1>1, QuietStep
  DEF Classify, Retrieve, Refuse, EvidenceFails, BeforeGate, SafeInv
<1>4. CASE Compose(r) \/ CommitReply(r) \/ SaveFails(r) \/ Lose(r)
  BY <1>4, <1>ty, <1>1, QuietStep
  DEF Compose, CommitReply, SaveFails, Lose, BeforeGate, SafeInv
<1>5. CASE PlanAndGate(r)
  BY <1>5, <1>1, GateStep DEF SafeInv
<1>6. CASE CallTool(r)
  BY <1>6, <1>1, EffectStep DEF CallTool, SafeInv
<1>7. CASE ToolFails(r)
  BY <1>7, <1>1, EffectStep DEF ToolFails, SafeInv
<1>. QED
  BY <1>2, <1>3, <1>4, <1>5, <1>6, <1>7 DEF Proceed

\* The gate's invariant holds in every reachable state.
THEOREM Safe == Spec => []SafeInv
<1>1. Init => SafeInv
  BY InitTyped DEF Init, SafeInv, GateInv, EffectsAuthorised, BeforeGate
<1>2. SafeInv /\ [Next]_vars => SafeInv'
  <2>1. CASE UNCHANGED vars
    BY <2>1 DEF SafeInv, TypeInv, TypeOK, ToolLeft, StoreTypeOK, GateInv,
       EffectsAuthorised, LetThrough, Refused, Required, vars, storeVars, localVars
  <2>. QED
    BY <2>1, StepSafe DEF Next
<1>. QED
  BY <1>1, <1>2, PTL DEF Spec

\* No tool acts for a blocked or refused request, and a critical one acts only
\* under a grant: the gate of chat_service.py:162-195, for any number of
\* concurrent requests, any plan and any failure.
THEOREM ApprovalGate == Spec => []EffectsAuthorised
BY Safe, PTL DEF SafeInv

-----------------------------------------------------------------------------
(* The pipeline implements Governance.                                      *)

\* The decision a request is under, step by step.
LEMMA DecisionValues ==
    ASSUME NEW step \in Steps, NEW b \in BOOLEAN, NEW g \in BOOLEAN
    PROVE  /\ step = "done" => DecisionAt(step, b, g) = "closed"
           /\ step # "done" => DecisionAt(step, b, g) # "closed"
           /\ step \in BeforeGate => DecisionAt(step, b, g) = "open"
           /\ step \in {"tools", "compose", "saveReply"} =>
                DecisionAt(step, b, g) =
                    IF b THEN "withheld" ELSE IF g THEN "approved" ELSE "free"
<1>1. CASE step = "done"
  BY <1>1, Zenon DEF DecisionAt, BeforeGate
<1>2. CASE step \in BeforeGate
  BY <1>2, Zenon DEF DecisionAt, BeforeGate
<1>3. CASE step \in {"tools", "compose", "saveReply"} /\ b
  BY <1>3, Zenon DEF DecisionAt, BeforeGate
<1>4. CASE step \in {"tools", "compose", "saveReply"} /\ ~b /\ g
  BY <1>4, Zenon DEF DecisionAt, BeforeGate
<1>5. CASE step \in {"tools", "compose", "saveReply"} /\ ~b /\ ~g
  BY <1>5, Zenon DEF DecisionAt, BeforeGate
<1>. QED
  BY <1>1, <1>2, <1>3, <1>4, <1>5 DEF Steps, BeforeGate

\* No request is under a decision before its plan is known.
LEMMA OpenBeforeGate ==
    ASSUME NEW step \in BeforeGate, NEW b, NEW g
    PROVE  DecisionAt(step, b, g) = "open"
BY Zenon DEF DecisionAt, BeforeGate

Mandate == [r \in Requests |-> MandateOf(r)]
Decision == [r \in Requests |-> DecisionOf(r)]

\* A step that leaves tools, plans and inputs alone and moves r on without a
\* decision, or to its end.
LEMMA QuietStepGoverned ==
    ASSUME SafeInv, TypeOK', NEW r \in Requests,
           called' = called, input' = input, blocked' = blocked,
           pc' = [pc EXCEPT ![r] = pc'[r]],
           \/ pc'[r] = pc[r]
           \/ pc[r] \in BeforeGate /\ pc'[r] \in BeforeGate
           \/ pc[r] = "compose" /\ pc'[r] = "saveReply"
           \/ pc[r] # "done" /\ pc'[r] = "done"
    PROVE  Gov!Next \/ UNCHANGED <<Mandate, Decision, called>>
<1>1. Mandate' = Mandate
  BY DEF Mandate, MandateOf
<1>2. /\ \A q \in Requests : /\ pc[q] \in Steps /\ pc'[q] \in Steps
                             /\ blocked[q] \in BOOLEAN
                             /\ input[q].granted \in BOOLEAN
      /\ \A q \in Requests \ {r} : pc'[q] = pc[q]
  BY DEF SafeInv, TypeInv, TypeOK, InputType
<1>3. \A q \in Requests \ {r} : DecisionOf(q)' = DecisionOf(q)
  BY <1>2 DEF DecisionOf
<1>4. CASE pc[r] # "done" /\ pc'[r] = "done"
  <2>1. DecisionOf(r)' = "closed" /\ DecisionOf(r) # "closed"
    BY <1>2, <1>4, DecisionValues DEF DecisionOf
  <2>2. Decision' = [Decision EXCEPT ![r] = "closed"]
    BY <1>3, <2>1 DEF Decision
  <2>3. Gov!Close(r)
    BY <1>1, <2>1, <2>2 DEF Gov!Close, Mandate, Decision
  <2>. QED
    BY <2>3 DEF Gov!Next
<1>5. CASE ~(pc[r] # "done" /\ pc'[r] = "done")
  <2>1. DecisionOf(r)' = DecisionOf(r)
    BY <1>2, <1>5, DecisionValues DEF DecisionOf
  <2>2. Decision' = Decision
    BY <1>3, <2>1 DEF Decision
  <2>. QED
    BY <1>1, <2>2
<1>. QED
  BY <1>4, <1>5

\* Planning decides the request, as its mandate allows.
LEMMA GateStepGoverned ==
    ASSUME SafeInv, TypeOK', NEW r \in Requests, PlanAndGate(r)
    PROVE  Gov!Decide(r)
<1>1. PICK p \in PossiblePlans(intent[r]) :
        LET withheld == Required(r, p) /\ ~input[r].granted
        IN  /\ plan' = [plan EXCEPT ![r] = p]
            /\ blocked' = [blocked EXCEPT ![r] = withheld]
            /\ Goto(r, IF p # <<>> /\ ~withheld THEN "tools" ELSE "compose")
  BY DEF PlanAndGate
<1>2. /\ called' = called /\ input' = input
      /\ pc[r] = "plan" /\ ~Refused(r)
  BY DEF PlanAndGate
<1>3. /\ blocked'[r] = (Required(r, p) /\ ~input[r].granted)
      /\ pc'[r] \in {"tools", "compose"}
      /\ \A q \in Requests \ {r} : pc'[q] = pc[q] /\ blocked'[q] = blocked[q]
  BY <1>1, Zenon DEF Goto, SafeInv, TypeInv, TypeOK
<1>4. /\ pc[r] \in Steps /\ blocked[r] \in BOOLEAN
      /\ pc'[r] \in Steps /\ blocked'[r] \in BOOLEAN
      /\ input[r].granted \in BOOLEAN /\ input[r].critical \in BOOLEAN
  BY DEF SafeInv, TypeInv, TypeOK, InputType
<1>5. DecisionOf(r) = "open"
  BY <1>2, <1>4, DecisionValues DEF DecisionOf, BeforeGate
<1>. DEFINE d == IF blocked'[r] THEN "withheld"
                 ELSE IF input[r].granted THEN "approved" ELSE "free"
<1>6. DecisionOf(r)' = d
  <2>1. DecisionOf(r)' = DecisionAt(pc'[r], blocked'[r], input[r].granted)
    BY <1>2, Zenon DEF DecisionOf
  <2>2. pc'[r] \in {"tools", "compose", "saveReply"}
    BY <1>3
  <2>3. DecisionAt(pc'[r], blocked'[r], input[r].granted) = d
    <3>1. ASSUME NEW b \in BOOLEAN, NEW g \in BOOLEAN
          PROVE  DecisionAt(pc'[r], b, g) =
                    IF b THEN "withheld" ELSE IF g THEN "approved" ELSE "free"
      BY <2>2, <1>4, DecisionValues
    <3>. QED
      BY <3>1, <1>4, Zenon
  <2>. QED
    BY <2>1, <2>3
<1>7. \A q \in Requests \ {r} : DecisionOf(q)' = DecisionOf(q)
  BY <1>2, <1>3 DEF DecisionOf
<1>8. Decision' = [Decision EXCEPT ![r] = d]
  BY <1>6, <1>7 DEF Decision
<1>9. /\ d = "free" => ~input[r].critical /\ ~input[r].granted
      /\ d = "approved" => input[r].granted /\ input[r].caller # "staff"
      /\ d = "withheld" => ~input[r].granted
      /\ d \in {"free", "approved", "withheld"}
  BY <1>2, <1>3, <1>4 DEF Refused, Required, PreApproval, ApprovalRequired
<1>10. Mandate' = Mandate /\ Mandate[r] = MandateOf(r) /\ Decision[r] = "open"
  BY <1>2, <1>5 DEF Mandate, MandateOf, Decision
<1>. QED
  BY <1>2, <1>8, <1>9, <1>10 DEF Gov!Decide, Mandate, Decision, MandateOf

\* A tool call, or a failed one, performs under a decision already taken.
LEMMA EffectStepGoverned ==
    ASSUME SafeInv, TypeOK', NEW r \in Requests, pc[r] = "tools",
           called' \in {called, called \cup {<<r, NextTool(r)>>}},
           AfterTool(r),
           input' = input, blocked' = blocked, plan' = plan
    PROVE  Gov!Next \/ UNCHANGED <<Mandate, Decision, called>>
<1>1. /\ NextTool(r) \in Tools
      /\ NextTool(r) \in PlanNames(plan[r])
  BY DEF SafeInv, TypeInv, TypeOK, ToolLeft, NextTool, PlanNames
<1>2. /\ \A q \in Requests : /\ pc[q] \in Steps /\ blocked[q] \in BOOLEAN
                             /\ input[q].granted \in BOOLEAN
      /\ \A q \in Requests \ {r} : pc'[q] = pc[q]
      /\ pc'[r] \in {"tools", "compose"}
  BY DEF SafeInv, TypeInv, TypeOK, InputType, AfterTool, Goto
<1>3. \A q \in Requests : DecisionOf(q)' = DecisionOf(q)
  BY <1>2, DecisionValues DEF DecisionOf, Steps
<1>4. Mandate' = Mandate /\ Decision' = Decision
  BY <1>3 DEF Mandate, MandateOf, Decision
<1>5. LetThrough(r)
  BY DEF SafeInv, GateInv
<1>6. \/ DecisionOf(r) = "free" /\ NextTool(r) \notin KeywordTools
      \/ DecisionOf(r) = "approved"
  <2>1. DecisionOf(r) = IF input[r].granted THEN "approved" ELSE "free"
    BY <1>2, <1>5, DecisionValues DEF DecisionOf, LetThrough
  <2>2. ~input[r].granted => NextTool(r) \notin KeywordTools
    BY <1>1, <1>5 DEF LetThrough, Required, PreApproval, ApprovalRequired
  <2>. QED
    BY <2>1, <2>2
<1>7. CASE called' = called \cup {<<r, NextTool(r)>>}
  <2>1. Gov!Perform(r, NextTool(r))
    BY <1>4, <1>6, <1>7 DEF Gov!Perform, Mandate, Decision
  <2>. QED
    BY <2>1, <1>1 DEF Gov!Next
<1>8. CASE called' = called
  BY <1>4, <1>8
<1>. QED
  BY <1>7, <1>8

\* Every step of a request is a step of the governance promise, or none.
LEMMA StepGoverned ==
    ASSUME SafeInv, TypeOK', NEW r \in Requests, Proceed(r) \/ Lose(r)
    PROVE  Gov!Next \/ UNCHANGED <<Mandate, Decision, called>>
<1>. USE DEF Goto, End, localVars
<1>ty. pc \in [Requests -> Steps]
  BY DEF SafeInv, TypeInv, TypeOK
<1>1. CASE LoadHistory(r) \/ LoadFails(r) \/ Insert(r) \/ CommitUserTurn(r)
  BY <1>1, <1>ty, QuietStepGoverned
  DEF LoadHistory, LoadFails, Insert, CommitUserTurn, BeforeGate
<1>2. CASE Classify(r) \/ Retrieve(r) \/ Refuse(r) \/ EvidenceFails(r)
  BY <1>2, <1>ty, QuietStepGoverned
  DEF Classify, Retrieve, Refuse, EvidenceFails, BeforeGate
<1>3. CASE Compose(r) \/ CommitReply(r) \/ SaveFails(r) \/ Lose(r)
  BY <1>3, <1>ty, QuietStepGoverned
  DEF Compose, CommitReply, SaveFails, Lose
<1>4. CASE PlanAndGate(r)
  BY <1>4, GateStepGoverned DEF Gov!Next
<1>5. CASE CallTool(r)
  BY <1>5, EffectStepGoverned DEF CallTool
<1>6. CASE ToolFails(r)
  BY <1>6, EffectStepGoverned DEF ToolFails
<1>. QED
  BY <1>1, <1>2, <1>3, <1>4, <1>5, <1>6 DEF Proceed

\* The pipeline implements the governance promise: a request is decided once,
\* tools act only under the decision, and nothing acts after the end.
THEOREM GovernanceImplemented == Spec => Governed
<1>1. Init => Gov!Init
  <2>. SUFFICES ASSUME Init PROVE Gov!Init
    OBVIOUS
  <2>1. \A r \in Requests : DecisionOf(r) = "open"
    <3>1. \A r \in Requests : pc[r] \in BeforeGate
      BY DEF Init, BeforeGate
    <3>. QED
      BY <3>1, OpenBeforeGate, Zenon DEF DecisionOf
  <2>2. \A r \in Requests : MandateOf(r) \in Gov!Mandates
    BY PipelineAssumption DEF Init, MandateOf, Gov!Mandates, InputType
  <2>. QED
    BY <2>1, <2>2 DEF Init, Gov!Init
<1>2. SafeInv /\ TypeOK' /\ [Next]_vars => [Gov!Next]_(Gov!govVars)
  <2>. SUFFICES ASSUME SafeInv, TypeOK', [Next]_vars
                PROVE  Gov!Next \/ UNCHANGED <<Mandate, Decision, called>>
    BY DEF Gov!govVars, Mandate, Decision
  <2>1. CASE UNCHANGED vars
    BY <2>1 DEF vars, storeVars, localVars, Mandate, MandateOf, Decision, DecisionOf
  <2>. QED
    BY <2>1, StepGoverned DEF Next
<1>3. SafeInv => TypeOK
  BY DEF SafeInv, TypeInv
<1>. QED
  BY <1>1, <1>2, <1>3, Safe, PTL DEF Spec, Gov!Spec, Governed

-----------------------------------------------------------------------------
(* What the conversation table holds of each request, for both databases.   *)

Working == {"classify", "retrieve", "plan", "tools", "compose", "saveReply"}

\* Ids grow: what an insert gets is above all that is committed, and with one
\* writer so is the id of the turn that holds the lock.
IdsGrow ==
    /\ nextId # 0
    /\ \A row \in rows : row.id < nextId
    /\ \A r \in Requests : Inserted(r) => open[r].id < nextId
    /\ serialWriters =>
          \A r \in Requests : Inserted(r) =>
              /\ \A row \in rows : row.id < open[r].id
              /\ \A q \in Requests : Inserted(q) => q = r

\* A turn belongs to its author's thread.
InThread(row, r) ==
    row.author = r /\ row.conv = input[r].conv /\ row.tenant = input[r].tenant

\* The turn a request is saving is its own, and the one its step is about.
OpenTurn(r) ==
    Saving(r) =>
        /\ InThread(open[r], r)
        /\ \/ pc[r] = "saveUser" /\ open[r].role = "user"
           \/ pc[r] = "saveReply" /\ open[r].role = "assistant"
        /\ pc[r] = "saveReply" /\ Inserted(r) =>
              \A q \in Turn(r, "user") : q.id < open[r].id

OnlyQuestion(r) ==
    /\ \E q \in rows : Turn(r, "user") = {q}
    /\ Turn(r, "assistant") = {}

QuestionAndAnswer(r) ==
    \E q, a \in rows : /\ Turn(r, "user") = {q} /\ Turn(r, "assistant") = {a}
                       /\ q.id < a.id

\* What the table holds of a request at each of its steps.
SavedTurns(r) ==
    /\ \A row \in rows : row.author = r => InThread(row, r)
    /\ pc[r] \in {"load", "saveUser"} => \A row \in rows : row.author # r
    /\ pc[r] \in Working => OnlyQuestion(r)
    /\ status[r] = "refused" =>
          pc[r] = "done" /\ OnlyQuestion(r) /\ \A t \in Tools : <<r, t>> \notin called
    /\ status[r] = "ok" => pc[r] = "done" /\ QuestionAndAnswer(r)
    /\ (\E t \in Tools : <<r, t>> \in called) => Turn(r, "user") # {}

ReadHistory(r) ==
    \A row \in history[r] :
        /\ row \in rows
        /\ row.conv = input[r].conv
        /\ row.tenant = input[r].tenant
        /\ row.author # r

Recorded(r) == OpenTurn(r) /\ SavedTurns(r) /\ ReadHistory(r)

TableInv == IdsGrow /\ \A r \in Requests : Recorded(r)

-----------------------------------------------------------------------------
\* A new row is its author's, so the table holds the same turns of the others.
LEMMA OthersTurns ==
    ASSUME NEW r \in Requests, NEW q \in Requests \ {r}, NEW row,
           row.author = r, rows' = rows \cup {row}, NEW role
    PROVE  Turn(q, role)' = Turn(q, role)
BY DEF Turn

\* A step of one request leaves what is recorded of the others.
LEMMA OthersRecorded ==
    ASSUME NEW r \in Requests, NEW q \in Requests \ {r}, Recorded(q),
           pc'[q] = pc[q], status'[q] = status[q], open'[q] = open[q],
           history'[q] = history[q], input' = input,
           \A t \in Tools : <<q, t>> \in called' <=> <<q, t>> \in called,
           \/ rows' = rows
           \/ open[r].author = r /\ rows' = rows \cup {open[r]}
    PROVE  Recorded(q)'
<1>1. \A role \in Roles : Turn(q, role)' = Turn(q, role)
  BY OthersTurns DEF Turn
<1>2. rows \subseteq rows' /\ \A row \in rows' : row.author = q => row \in rows
  OBVIOUS
<1>3. OpenTurn(q)'
  BY <1>1 DEF Recorded, OpenTurn, InThread, Saving, Inserted, Roles
<1>4. SavedTurns(q)'
  <2>1. OnlyQuestion(q) => OnlyQuestion(q)'
    BY <1>1, <1>2 DEF OnlyQuestion, Roles
  <2>2. QuestionAndAnswer(q) => QuestionAndAnswer(q)'
    BY <1>1, <1>2 DEF QuestionAndAnswer, Roles
  <2>. QED
    BY <1>1, <1>2, <2>1, <2>2 DEF Recorded, SavedTurns, InThread, Roles
<1>5. ReadHistory(q)'
  BY <1>2 DEF Recorded, ReadHistory
<1>. QED
  BY <1>3, <1>4, <1>5 DEF Recorded

-----------------------------------------------------------------------------
(* The steps of saving a turn.                                              *)

\* Opening a session gives no id.
LEMMA BeginIds ==
    ASSUME TypeOK, IdsGrow, NEW r \in Requests, NEW conv, NEW tenant, NEW role,
           BeginSave(r, conv, tenant, role)
    PROVE  IdsGrow'
BY DEF TypeOK, StoreTypeOK, IdsGrow, BeginSave, Inserted, Saving

\* An insert gets an id above all others, and takes the lock of SQLite.
LEMMA InsertIds ==
    ASSUME TypeOK, IdsGrow, NEW r \in Requests, InsertTurn(r)
    PROVE  IdsGrow'
<1>1. /\ open' = [open EXCEPT ![r] = [open[r] EXCEPT !.id = nextId]]
      /\ open[r] \in Row /\ nextId \in Nat
  BY DEF InsertTurn, Saving, TypeOK, StoreTypeOK
<1>2. open'[r].id = nextId /\ \A q \in Requests \ {r} : open'[q] = open[q]
  BY <1>1 DEF TypeOK, StoreTypeOK, Row
<1>3. /\ \A q \in Requests \ {r} : Inserted(q)' <=> Inserted(q)
      /\ serialWriters => \A q \in Requests : ~Inserted(q)
  BY <1>2 DEF Inserted, Saving, InsertTurn
<1>4. \A row \in rows : row.id \in Nat
  BY DEF TypeOK, StoreTypeOK, Row
<1>5. \A q \in Requests : Inserted(q) => open[q].id \in Nat
  BY DEF TypeOK, StoreTypeOK, Row, Inserted, Saving
<1>. QED
  BY <1>1, <1>2, <1>3, <1>4, <1>5 DEF IdsGrow, InsertTurn

\* A commit moves the turn, with its id, into the table.
LEMMA CommitIds ==
    ASSUME TypeOK, IdsGrow, NEW r \in Requests, CommitTurn(r)
    PROVE  IdsGrow'
<1>1. \A q \in Requests : Inserted(q)' => q # r /\ Inserted(q) /\ open'[q] = open[q]
  BY DEF CommitTurn, Inserted, Saving, TypeOK, StoreTypeOK
<1>. QED
  BY <1>1 DEF IdsGrow, CommitTurn

\* A rollback gives the id back only where nobody can have got a later one.
LEMMA RollBackIds ==
    ASSUME TypeOK, IdsGrow, NEW r \in Requests, RollBack(r)
    PROVE  IdsGrow'
<1>1. \A q \in Requests : Inserted(q)' => q # r /\ Inserted(q) /\ open'[q] = open[q]
  BY DEF RollBack, Inserted, Saving, TypeOK, StoreTypeOK
<1>2. rows' = rows
  BY DEF RollBack
<1>3. CASE serialWriters /\ Inserted(r)
  BY <1>1, <1>2, <1>3 DEF IdsGrow, RollBack, Inserted
<1>4. CASE ~(serialWriters /\ Inserted(r))
  BY <1>1, <1>2, <1>4 DEF IdsGrow, RollBack
<1>. QED
  BY <1>3, <1>4

\* A step that touches no table: it moves a request on, or ends it other than by
\* an answer, a refusal excepted that has called nothing.
LEMMA QuietRecorded ==
    ASSUME TableInv, TypeOK, NEW r \in Requests, UNCHANGED <<storeVars, input, history>>,
           \/ pc[r] = "load" /\ pc'[r] = "done"
           \/ pc[r] \in Working \ {"saveReply"} /\ pc'[r] \in (Working \ {"saveReply"}) \cup {"done"},
           \/ status'[r] = status[r]
           \/ status'[r] = "failed"
           \/ status'[r] = "refused" /\ pc[r] = "plan" /\ pc'[r] = "done"
                 /\ \A t \in Tools : <<r, t>> \notin called',
           (\E t \in Tools : <<r, t>> \in called') =>
              pc[r] = "tools" \/ \E t \in Tools : <<r, t>> \in called
    PROVE  IdsGrow' /\ Recorded(r)'
<1>1. IdsGrow'
  BY DEF TableInv, IdsGrow, Inserted, Saving, storeVars
<1>2. OpenTurn(r)'
  BY DEF TableInv, Recorded, OpenTurn, Working, Saving, storeVars
<1>3. ReadHistory(r)'
  BY DEF TableInv, Recorded, ReadHistory, storeVars
<1>4. \A role \in Roles : Turn(r, role)' = Turn(r, role)
  BY DEF Turn, storeVars
<1>5. SavedTurns(r)'
  BY <1>4
  DEF TableInv, Recorded, SavedTurns, InThread, OnlyQuestion, Working, Roles, storeVars
<1>. QED
  BY <1>1, <1>2, <1>3, <1>5 DEF Recorded

\* The question is read for and stamped; its thread is what the history holds.
LEMMA LoadRecorded ==
    ASSUME TableInv, TypeOK, NEW r \in Requests, LoadHistory(r)
    PROVE  IdsGrow' /\ Recorded(r)'
<1>1. IdsGrow'
  BY BeginIds DEF LoadHistory, TableInv
<1>2. /\ pc[r] = "load" /\ pc'[r] = "saveUser"
      /\ UNCHANGED <<rows, input, called, status>>
      /\ history'[r] = LastTurns(input[r].conv, input[r].tenant, HistoryWindow)
  BY DEF LoadHistory, BeginSave, Goto, TypeOK
<1>3. /\ open'[r].author = r /\ open'[r].role = "user" /\ open'[r].id = 0
      /\ open'[r].conv = input[r].conv /\ open'[r].tenant = input[r].tenant
  BY DEF LoadHistory, BeginSave, TypeOK, StoreTypeOK
<1>4. OpenTurn(r)'
  BY <1>2, <1>3 DEF OpenTurn, InThread
<1>5. SavedTurns(r)'
  BY <1>2 DEF TableInv, Recorded, SavedTurns, InThread, Turn, Working
<1>6. \A row \in rows : row.author # r
  BY <1>2 DEF TableInv, Recorded, SavedTurns
<1>7. ReadHistory(r)'
  BY <1>2, <1>6 DEF ReadHistory, LastTurns, Thread
<1>. QED
  BY <1>1, <1>4, <1>5, <1>7 DEF Recorded

\* The answer is stamped while the question is all the table holds.
LEMMA ComposeRecorded ==
    ASSUME TableInv, TypeOK, NEW r \in Requests, Compose(r)
    PROVE  IdsGrow' /\ Recorded(r)'
<1>1. IdsGrow'
  BY BeginIds DEF Compose, TableInv
<1>2. /\ pc[r] = "compose" /\ pc'[r] = "saveReply"
      /\ UNCHANGED <<rows, input, called, status, history>>
  BY DEF Compose, BeginSave, Goto, TypeOK
<1>3. /\ open'[r].author = r /\ open'[r].role = "assistant" /\ open'[r].id = 0
      /\ open'[r].conv = input[r].conv /\ open'[r].tenant = input[r].tenant
  BY DEF Compose, BeginSave, TypeOK, StoreTypeOK
<1>4. OpenTurn(r)'
  BY <1>2, <1>3 DEF OpenTurn, InThread, Inserted
<1>5. SavedTurns(r)' /\ ReadHistory(r)'
  BY <1>2
  DEF TableInv, Recorded, SavedTurns, ReadHistory, InThread, OnlyQuestion, Turn, Working
<1>. QED
  BY <1>1, <1>4, <1>5 DEF Recorded

\* An insert gives the open turn an id above that of the question.
LEMMA InsertRecorded ==
    ASSUME TableInv, TypeOK, NEW r \in Requests, Insert(r)
    PROVE  IdsGrow' /\ Recorded(r)'
<1>1. IdsGrow'
  BY InsertIds DEF Insert, TableInv
<1>2. UNCHANGED <<rows, input, pc, history, called, status>>
  BY DEF Insert, InsertTurn, localVars
<1>3. /\ open' = [open EXCEPT ![r] = [open[r] EXCEPT !.id = nextId]]
      /\ open[r] \in Row /\ Saving(r)
  BY DEF Insert, InsertTurn, Saving, TypeOK, StoreTypeOK
<1>4. /\ open'[r].id = nextId /\ open'[r].author = open[r].author
      /\ open'[r].conv = open[r].conv /\ open'[r].tenant = open[r].tenant
      /\ open'[r].role = open[r].role
  BY <1>3 DEF TypeOK, StoreTypeOK, Row
<1>5. \A row \in rows : row.id < nextId
  BY DEF TableInv, IdsGrow
<1>6. OpenTurn(r)
  BY DEF TableInv, Recorded
<1>7. \A q \in Turn(r, "user")' : q.id < open'[r].id
  BY <1>2, <1>4, <1>5 DEF Turn
<1>8. OpenTurn(r)'
  BY <1>2, <1>3, <1>4, <1>6, <1>7 DEF OpenTurn, InThread
<1>9. SavedTurns(r)' /\ ReadHistory(r)'
  BY <1>2
  DEF TableInv, Recorded, SavedTurns, ReadHistory, InThread, OnlyQuestion,
      QuestionAndAnswer, Turn
<1>. QED
  BY <1>1, <1>8, <1>9 DEF Recorded

\* What a commit makes of the author's turns.
LEMMA CommittedTurns ==
    ASSUME TableInv, TypeOK, NEW r \in Requests, CommitTurn(r)
    PROVE  /\ pc[r] = "saveUser" => OnlyQuestion(r)'
           /\ pc[r] = "saveReply" => QuestionAndAnswer(r)'
           /\ pc[r] \in {"saveUser", "saveReply"}
           /\ Turn(r, "user")' # {}
           /\ ~Saving(r)'
           /\ InThread(open[r], r)
<1>1. Saving(r) /\ Inserted(r) /\ rows' = rows \cup {open[r]} /\ ~Saving(r)'
  BY DEF CommitTurn, Inserted, Saving, TypeOK, StoreTypeOK
<1>2. /\ InThread(open[r], r)
      /\ \/ pc[r] = "saveUser" /\ open[r].role = "user"
         \/ pc[r] = "saveReply" /\ open[r].role = "assistant"
      /\ pc[r] = "saveReply" => \A q \in Turn(r, "user") : q.id < open[r].id
  BY <1>1 DEF TableInv, Recorded, OpenTurn
<1>3. CASE pc[r] = "saveUser"
  <2>1. \A row \in rows : row.author # r
    BY <1>3 DEF TableInv, Recorded, SavedTurns
  <2>2. Turn(r, "user")' = {open[r]} /\ Turn(r, "assistant")' = {}
    BY <1>1, <1>2, <1>3, <2>1 DEF Turn, InThread
  <2>. QED
    BY <1>1, <1>2, <1>3, <2>2 DEF OnlyQuestion
<1>4. CASE pc[r] = "saveReply"
  <2>1. PICK q \in rows : Turn(r, "user") = {q} /\ Turn(r, "assistant") = {}
    BY <1>4 DEF TableInv, Recorded, SavedTurns, OnlyQuestion, Working
  <2>2. Turn(r, "user")' = {q} /\ Turn(r, "assistant")' = {open[r]}
    BY <1>1, <1>2, <1>4, <2>1 DEF Turn, InThread
  <2>3. q.id < open[r].id
    BY <1>2, <1>4, <2>1
  <2>. QED
    BY <1>1, <1>2, <1>4, <2>2, <2>3 DEF QuestionAndAnswer
<1>. QED
  BY <1>1, <1>2, <1>3, <1>4

\* A commit, and what the request does with it: it goes on after its question,
\* answers after its reply, or fails because it was told otherwise.
LEMMA CommitRecorded ==
    ASSUME TableInv, TypeOK, NEW r \in Requests,
           CommitTurn(r), UNCHANGED <<input, history, called>>,
           \/ pc[r] = "saveUser" /\ pc'[r] = "classify" /\ status'[r] = status[r]
           \/ pc[r] = "saveReply" /\ pc'[r] = "done" /\ status'[r] = "ok"
           \/ pc'[r] = "done" /\ status'[r] = "failed"
    PROVE  IdsGrow' /\ Recorded(r)'
<1>1. IdsGrow'
  BY CommitIds DEF TableInv
<1>2. /\ rows' = rows \cup {open[r]} /\ ~Saving(r)'
      /\ InThread(open[r], r)
      /\ Turn(r, "user")' # {}
      /\ pc[r] = "saveUser" => OnlyQuestion(r)'
      /\ pc[r] = "saveReply" => QuestionAndAnswer(r)'
      /\ pc[r] \in {"saveUser", "saveReply"}
  BY CommittedTurns DEF CommitTurn
<1>3. SavedTurns(r)
  BY DEF TableInv, Recorded
<1>4. status[r] \notin {"ok", "refused"}
  BY <1>2, <1>3 DEF SavedTurns
<1>5. SavedTurns(r)'
  <2>1. \A row \in rows' : row.author = r => InThread(row, r)'
    BY <1>2, <1>3 DEF SavedTurns, InThread
  <2>. QED
    BY <1>2, <1>4, <2>1 DEF SavedTurns, Working
<1>6. OpenTurn(r)'
  BY <1>2 DEF OpenTurn
<1>7. ReadHistory(r)'
  BY <1>2 DEF TableInv, Recorded, ReadHistory
<1>. QED
  BY <1>1, <1>5, <1>6, <1>7 DEF Recorded

\* A rollback leaves the table to those who committed.
LEMMA RollBackRecorded ==
    ASSUME TableInv, TypeOK, NEW r \in Requests,
           RollBack(r), UNCHANGED <<input, history, called>>,
           pc'[r] = "done", status'[r] \in {"failed", "lost"}
    PROVE  IdsGrow' /\ Recorded(r)'
<1>1. IdsGrow'
  BY RollBackIds DEF TableInv
<1>2. rows' = rows /\ ~Saving(r)'
  BY DEF RollBack, Saving, TypeOK, StoreTypeOK
<1>3. OpenTurn(r)' /\ ReadHistory(r)'
  BY <1>2 DEF OpenTurn, TableInv, Recorded, ReadHistory
<1>4. SavedTurns(r)'
  BY <1>2 DEF TableInv, Recorded, SavedTurns, InThread, Turn, Working
<1>. QED
  BY <1>1, <1>3, <1>4 DEF Recorded

-----------------------------------------------------------------------------
(* All steps.                                                               *)

\* The frame of a step: nothing of another request moves, and the table gets at
\* most the turn that the request was saving.
LEMMA StepFrame ==
    ASSUME TypeInv, NEW r \in Requests, Proceed(r) \/ Lose(r)
    PROVE  /\ input' = input
           /\ \A q \in Requests \ {r} :
                 /\ pc'[q] = pc[q] /\ status'[q] = status[q]
                 /\ open'[q] = open[q] /\ history'[q] = history[q]
                 /\ \A t \in Tools : <<q, t>> \in called' <=> <<q, t>> \in called
           /\ rows' = rows \/ CommitTurn(r)
<1>. USE DEF TypeInv, TypeOK, StoreTypeOK, Goto, End, localVars, storeVars
<1>1. CASE LoadHistory(r) \/ Compose(r)
  BY <1>1 DEF LoadHistory, Compose, BeginSave
<1>2. CASE LoadFails(r) \/ Classify(r) \/ Retrieve(r) \/ Refuse(r) \/ EvidenceFails(r)
  BY <1>2 DEF LoadFails, Classify, Retrieve, Refuse, EvidenceFails
<1>3. CASE PlanAndGate(r)
  BY <1>3 DEF PlanAndGate
<1>4. CASE Insert(r)
  BY <1>4 DEF Insert, InsertTurn
<1>5. CASE CommitUserTurn(r) \/ CommitReply(r)
  BY <1>5 DEF CommitUserTurn, CommitReply, CommitTurn
<1>6. CASE SaveFails(r) \/ Lose(r)
  BY <1>6 DEF SaveFails, Lose, CommitTurn, RollBack
<1>7. CASE CallTool(r) \/ ToolFails(r)
  BY <1>7 DEF CallTool, ToolFails, AfterTool
<1>. QED
  BY <1>1, <1>2, <1>3, <1>4, <1>5, <1>6, <1>7 DEF Proceed

\* Every step keeps what is recorded of the request that takes it.
LEMMA OwnRecorded ==
    ASSUME TableInv, SafeInv, NEW r \in Requests, Proceed(r) \/ Lose(r)
    PROVE  IdsGrow' /\ Recorded(r)'
<1>. USE DEF SafeInv, TypeInv, TypeOK, Goto, End, localVars
<1>1. CASE LoadHistory(r)
  BY <1>1, LoadRecorded
<1>2. CASE Compose(r)
  BY <1>2, ComposeRecorded
<1>3. CASE Insert(r)
  BY <1>3, InsertRecorded
<1>4. CASE CommitUserTurn(r)
  BY <1>4, CommitRecorded DEF CommitUserTurn
<1>5. CASE CommitReply(r)
  BY <1>5, CommitRecorded DEF CommitReply
<1>6. CASE SaveFails(r)
  BY <1>6, CommitRecorded, RollBackRecorded DEF SaveFails
<1>7. CASE Lose(r)
  BY <1>7, RollBackRecorded DEF Lose
<1>8. CASE LoadFails(r) \/ Classify(r) \/ Retrieve(r) \/ EvidenceFails(r)
  BY <1>8, QuietRecorded DEF LoadFails, Classify, Retrieve, EvidenceFails, Working
<1>9. CASE PlanAndGate(r)
  BY <1>9, QuietRecorded DEF PlanAndGate, Working
<1>10. CASE Refuse(r)
  <2>1. \A t \in Tools : <<r, t>> \notin called
    BY <1>10 DEF Refuse, GateInv, BeforeGate
  <2>. QED
    BY <1>10, <2>1, QuietRecorded DEF Refuse, Working
<1>11. CASE CallTool(r) \/ ToolFails(r)
  BY <1>11, QuietRecorded DEF CallTool, ToolFails, AfterTool, Working
<1>. QED
  BY <1>1, <1>2, <1>3, <1>4, <1>5, <1>6, <1>7, <1>8, <1>9, <1>10, <1>11 DEF Proceed

\* Every step of one request keeps the invariant of the table.
LEMMA StepRecorded ==
    ASSUME TableInv, SafeInv, NEW r \in Requests, Proceed(r) \/ Lose(r)
    PROVE  TableInv'
<1>1. IdsGrow' /\ Recorded(r)'
  BY OwnRecorded
<1>2. ASSUME NEW q \in Requests \ {r} PROVE Recorded(q)'
  <2>1. \/ rows' = rows
        \/ open[r].author = r /\ rows' = rows \cup {open[r]}
    <3>1. CASE CommitTurn(r)
      BY <3>1, CommittedTurns DEF CommitTurn, InThread, SafeInv, TypeInv
    <3>. QED
      BY <3>1, StepFrame DEF SafeInv
  <2>2. /\ pc'[q] = pc[q] /\ status'[q] = status[q] /\ open'[q] = open[q]
        /\ history'[q] = history[q] /\ input' = input
        /\ \A t \in Tools : <<q, t>> \in called' <=> <<q, t>> \in called
    BY StepFrame, Zenon DEF SafeInv
  <2>3. Recorded(q)
    BY DEF TableInv
  <2>. QED
    BY <2>1, <2>2, <2>3, OthersRecorded, Zenon
<1>. QED
  BY <1>1, <1>2 DEF TableInv

\* The rows that survived are nobody's, and below the next id.
LEMMA InitRecorded == Init => TableInv
<1>. SUFFICES ASSUME Init PROVE TableInv
  OBVIOUS
<1>1. rows = Migrated(LegacyRows) /\ nextId = FirstId
      /\ \A r \in Requests : open[r] = NoRow
  BY DEF Init, StoreInit
<1>2. \A row \in rows : row.author = NoRequest /\ row.id < nextId
  BY <1>1, StoreAssumption DEF Migrated
<1>3. IdsGrow
  BY <1>1, <1>2, StoreAssumption DEF IdsGrow, Inserted, Saving
<1>4. \A r \in Requests : Recorded(r)
  BY <1>1, <1>2, StoreAssumption
  DEF Init, Recorded, OpenTurn, SavedTurns, ReadHistory, Saving, Working, Turn
<1>. QED
  BY <1>3, <1>4 DEF TableInv

\* The table's invariant holds in every reachable state.
THEOREM TableHolds == Spec => [](TableInv /\ SafeInv)
<1>1. TableInv /\ SafeInv /\ [Next]_vars => TableInv'
  <2>1. CASE UNCHANGED vars
    BY <2>1
    DEF TableInv, IdsGrow, Recorded, OpenTurn, SavedTurns, ReadHistory, InThread,
        OnlyQuestion, QuestionAndAnswer, Turn, Inserted, Saving, vars, storeVars, localVars
  <2>. QED
    BY <2>1, StepRecorded DEF Next
<1>. QED
  BY InitRecorded, Safe, <1>1, PTL DEF Spec

\* An effect at the gateway has its question in the table, whatever fails or dies
\* afterwards: the user turn is committed before the plan is made
\* (chat_service.py:133-140).
THEOREM EffectsAreAudited == Spec => []EffectsAudited
<1>1. TableInv /\ SafeInv => EffectsAudited
  <2>. SUFFICES ASSUME TableInv, SafeInv, NEW e \in called
                PROVE  \E row \in Turn(e[1], "user") : row.tenant = input[e[1]].tenant
    BY DEF EffectsAudited
  <2>1. PICK r \in Requests, t \in Tools : e = <<r, t>>
    BY DEF SafeInv, TypeInv, TypeOK
  <2>2. SavedTurns(r) /\ e[1] = r
    BY <2>1 DEF TableInv, Recorded
  <2>. QED
    BY <2>1, <2>2 DEF SavedTurns, InThread, Turn
<1>. QED
  BY TableHolds, <1>1, PTL

\* A 403 leaves the question, no answer and no effect, whatever other requests
\* save meanwhile.
THEOREM RefusalsLeaveOnlyQuestion == Spec => []RefusedLeavesOnlyQuestion
<1>1. TableInv => RefusedLeavesOnlyQuestion
  BY DEF TableInv, Recorded, SavedTurns, OnlyQuestion, RefusedLeavesOnlyQuestion
<1>. QED
  BY TableHolds, <1>1, PTL

\* An answered request left exactly its two turns, question before answer, in its
\* own thread, on either database and with any number of writers.
THEOREM RepliesAreDurable == Spec => []ReplyDurable
<1>1. TableInv => ReplyDurable
  <2>. SUFFICES ASSUME TableInv, NEW r \in Requests, status[r] = "ok"
                PROVE  \E q \in Turn(r, "user"), a \in Turn(r, "assistant") :
                         /\ Turn(r, "user") = {q} /\ Turn(r, "assistant") = {a}
                         /\ q.id < a.id
                         /\ {q, a} \subseteq Thread(input[r].conv, input[r].tenant)
    BY DEF ReplyDurable
  <2>1. PICK q \in rows, a \in rows :
          Turn(r, "user") = {q} /\ Turn(r, "assistant") = {a} /\ q.id < a.id
    BY DEF TableInv, Recorded, SavedTurns, QuestionAndAnswer
  <2>2. InThread(q, r) /\ InThread(a, r)
    BY <2>1 DEF TableInv, Recorded, SavedTurns, Turn
  <2>. QED
    BY <2>1, <2>2 DEF InThread, Thread
<1>. QED
  BY TableHolds, <1>1, PTL

\* A history holds committed turns of its own tenant and conversation, never its
\* own question (conversation_store.py:131-145).
THEOREM HistoriesAreScoped == Spec => []HistoryScoped
<1>1. TableInv => HistoryScoped
  BY DEF TableInv, Recorded, ReadHistory, HistoryScoped
<1>. QED
  BY TableHolds, <1>1, PTL

\* Committed turns are never lost or rewritten, and SQLite commits them in the
\* order of their ids although it gives ids back.
THEOREM TableOnlyGrows == Spec => TableAppendOnly
<1>1. TableInv /\ SafeInv /\ [Next]_vars =>
        [ /\ rows \subseteq rows'
          /\ serialWriters => \A new \in rows' \ rows : \A old \in rows :
                                 old.id < new.id ]_rows
  <2>. SUFFICES ASSUME TableInv, SafeInv, [Next]_vars, rows' # rows
                PROVE  /\ rows \subseteq rows'
                       /\ serialWriters => \A new \in rows' \ rows : \A old \in rows :
                                              old.id < new.id
    OBVIOUS
  <2>1. PICK r \in Requests : Proceed(r) \/ Lose(r)
    BY DEF Next, vars, storeVars
  <2>2. CommitTurn(r)
    BY <2>1, StepFrame DEF SafeInv
  <2>. QED
    BY <2>2 DEF CommitTurn, TableInv, IdsGrow
<1>. QED
  BY TableHolds, <1>1, PTL DEF Spec, TableAppendOnly

-----------------------------------------------------------------------------
(* The window of the history.  Ids tell committed rows apart, and those that *)
(* are about to be committed, so a row outside the window has exactly        *)
(* HistoryWindow newer ones inside it.                                       *)

IdsDistinct ==
    /\ IsFiniteSet(rows)
    /\ \A a, b \in rows : a.id = b.id => a = b
    /\ \A r \in Requests : Inserted(r) => \A row \in rows : row.id # open[r].id
    /\ \A q, r \in Requests :
          Inserted(q) /\ Inserted(r) /\ open[q].id = open[r].id => q = r

\* What a step does to the turn it is saving: it commits it, inserts it, or gives
\* it no id that it had not before.
LEMMA OpenChange ==
    ASSUME TypeInv, NEW r \in Requests, Proceed(r) \/ Lose(r)
    PROVE  \/ CommitTurn(r)
           \/ rows' = rows /\ InsertTurn(r)
           \/ rows' = rows /\ (Inserted(r)' => Inserted(r) /\ open'[r] = open[r])
<1>. USE DEF TypeInv, TypeOK, StoreTypeOK, localVars, storeVars, Inserted, Saving
<1>1. CASE LoadHistory(r) \/ Compose(r)
  BY <1>1 DEF LoadHistory, Compose, BeginSave
<1>2. CASE LoadFails(r) \/ Classify(r) \/ Retrieve(r) \/ Refuse(r) \/ EvidenceFails(r)
  BY <1>2 DEF LoadFails, Classify, Retrieve, Refuse, EvidenceFails
<1>3. CASE PlanAndGate(r) \/ CallTool(r) \/ ToolFails(r)
  BY <1>3 DEF PlanAndGate, CallTool, ToolFails
<1>4. CASE Insert(r)
  BY <1>4 DEF Insert, InsertTurn
<1>5. CASE CommitUserTurn(r) \/ CommitReply(r)
  BY <1>5 DEF CommitUserTurn, CommitReply
<1>6. CASE SaveFails(r) \/ Lose(r)
  BY <1>6 DEF SaveFails, Lose, RollBack
<1>. QED
  BY <1>1, <1>2, <1>3, <1>4, <1>5, <1>6 DEF Proceed

\* No step makes two turns of one id, although SQLite gives an id back.
LEMMA StepDistinct ==
    ASSUME TableInv, SafeInv, IdsDistinct, NEW r \in Requests, Proceed(r) \/ Lose(r)
    PROVE  IdsDistinct'
<1>1. \A q \in Requests \ {r} : open'[q] = open[q] /\ (Inserted(q)' <=> Inserted(q))
  BY StepFrame DEF SafeInv, Inserted, Saving
<1>2. CASE CommitTurn(r)
  <2>1. rows' = rows \cup {open[r]} /\ Inserted(r) /\ ~Inserted(r)'
    BY <1>2 DEF CommitTurn, Inserted, Saving, SafeInv, TypeInv, TypeOK, StoreTypeOK
  <2>2. IsFiniteSet(rows')
    BY <2>1, FS_AddElement DEF IdsDistinct
  <2>. QED
    BY <1>1, <2>1, <2>2 DEF IdsDistinct
<1>3. CASE rows' = rows /\ InsertTurn(r)
  <2>1. open'[r].id = nextId
    BY <1>3 DEF InsertTurn, Saving, SafeInv, TypeInv, TypeOK, StoreTypeOK, Row
  <2>2. /\ \A row \in rows : row.id # nextId
        /\ \A q \in Requests : Inserted(q) => open[q].id # nextId
    BY DEF TableInv, IdsGrow, SafeInv, TypeInv, TypeOK, StoreTypeOK
  <2>. QED
    BY <1>1, <1>3, <2>1, <2>2 DEF IdsDistinct
<1>4. CASE rows' = rows /\ (Inserted(r)' => Inserted(r) /\ open'[r] = open[r])
  BY <1>1, <1>4 DEF IdsDistinct
<1>. QED
  BY <1>2, <1>3, <1>4, OpenChange DEF SafeInv

\* The rows that survived are as many as before the migration, at most.
LEMMA InitDistinct == Init => IdsDistinct
<1>. SUFFICES ASSUME Init PROVE IdsDistinct
  OBVIOUS
<1>1. rows = Migrated(LegacyRows) /\ \A r \in Requests : ~Inserted(r)
  BY DEF Init, StoreInit, Inserted, Saving
<1>2. IsFiniteSet(rows)
  <2>. DEFINE row(l) == [ id |-> l.id, conv |-> l.conv, tenant |-> DefaultTenant,
                          role |-> l.role, author |-> NoRequest, ts |-> 0 ]
              f == [l \in LegacyRows |-> row(l)]
  <2>1. f \in Surjection(LegacyRows, rows)
    BY <1>1 DEF Surjection, Migrated
  <2>. HIDE DEF f
  <2>. QED
    BY <2>1, FS_Surjection, StoreAssumption
<1>3. \A a, b \in rows : a.id = b.id => a = b
  BY <1>1, StoreAssumption DEF Migrated
<1>. QED
  BY <1>1, <1>2, <1>3 DEF IdsDistinct

\* Ids stay distinct in every reachable state.
THEOREM IdsStayDistinct == Spec => [](TableInv /\ SafeInv /\ IdsDistinct)
<1>1. TableInv /\ SafeInv /\ IdsDistinct /\ [Next]_vars => IdsDistinct'
  <2>1. CASE UNCHANGED vars
    BY <2>1 DEF IdsDistinct, Inserted, Saving, vars, storeVars
  <2>. QED
    BY <2>1, StepDistinct DEF Next
<1>. QED
  BY InitDistinct, TableHolds, <1>1, PTL DEF Spec

\* How many of a set of rows are newer than one.
Newer(T, row) == { h \in T : h.id > row.id }

\* Of rows with different ids, n are among the n newest, if there are n.
LEMMA NewestOf ==
    ASSUME NEW T, IsFiniteSet(T), \A h \in T : h.id \in Nat,
           \A a, b \in T : a.id = b.id => a = b,
           NEW n \in Nat, n <= Cardinality(T)
    PROVE  Cardinality({ h \in T : Cardinality(Newer(T, h)) < n }) = n
<1>1. Cardinality(T) \in Nat
  BY FS_CardinalityType
<1>2. \A h : /\ Newer(T, h) \subseteq T /\ IsFiniteSet(Newer(T, h))
             /\ Cardinality(Newer(T, h)) \in Nat
  BY FS_Subset, FS_CardinalityType DEF Newer
<1>3. \A h \in T : Cardinality(Newer(T, h)) \in 0 .. Cardinality(T) - 1
  <2>. SUFFICES ASSUME NEW h \in T
                PROVE  Cardinality(Newer(T, h)) \in 0 .. Cardinality(T) - 1
    OBVIOUS
  <2>1. Newer(T, h) # T
    BY DEF Newer
  <2>2. Newer(T, h) \in SUBSET T
    BY <1>2
  <2>3. /\ Cardinality(Newer(T, h)) <= Cardinality(T)
        /\ Cardinality(Newer(T, h)) # Cardinality(T)
    BY <2>1, <2>2, FS_Subset
  <2>. QED
    BY <1>1, <1>2, <2>3
<1>4. \A a, b \in T : a.id < b.id => Cardinality(Newer(T, b)) < Cardinality(Newer(T, a))
  <2>. SUFFICES ASSUME NEW a \in T, NEW b \in T, a.id < b.id
                PROVE  Cardinality(Newer(T, b)) < Cardinality(Newer(T, a))
    OBVIOUS
  <2>1. Newer(T, b) \subseteq Newer(T, a) /\ Newer(T, b) # Newer(T, a)
    BY DEF Newer
  <2>2. Newer(T, b) \in SUBSET Newer(T, a)
    BY <2>1
  <2>3. /\ Cardinality(Newer(T, b)) <= Cardinality(Newer(T, a))
        /\ Cardinality(Newer(T, b)) # Cardinality(Newer(T, a))
    BY <1>2, <2>1, <2>2, FS_Subset
  <2>. QED
    BY <1>2, <2>3
<1>5. \A a, b \in T : Cardinality(Newer(T, a)) = Cardinality(Newer(T, b)) => a = b
  <2>. SUFFICES ASSUME NEW a \in T, NEW b \in T,
                       Cardinality(Newer(T, a)) = Cardinality(Newer(T, b)), a.id # b.id
                PROVE  FALSE
    OBVIOUS
  <2>1. a.id < b.id \/ b.id < a.id
    OBVIOUS
  <2>. QED
    BY <1>2, <1>4, <2>1
<1>. DEFINE rankOf == [h \in T |-> Cardinality(Newer(T, h))]
<1>6. \A k \in 0 .. Cardinality(T) - 1 : \E h \in T : Cardinality(Newer(T, h)) = k
  <2>. DEFINE P == 0 .. Cardinality(T) - 1
  <2>1. rankOf \in Injection(T, P)
    BY <1>3, <1>5 DEF Injection, IsInjective
  <2>2. IsFiniteSet(P) /\ Cardinality(P) = Cardinality(T)
    <3>1. \A c \in Nat : IsFiniteSet(0 .. c - 1) /\ Cardinality(0 .. c - 1) = c
      BY FS_Interval
    <3>. QED
      BY <1>1, <3>1, Zenon
  <2>3. rankOf \in Surjection(T, P)
    BY <2>1, <2>2, FS_Injection
  <2>. QED
    BY <2>3 DEF Surjection
<1>. DEFINE Last == { h \in T : Cardinality(Newer(T, h)) < n }
            Q == 0 .. n - 1
            placed == [h \in Last |-> Cardinality(Newer(T, h))]
<1>7. IsFiniteSet(Q) /\ Cardinality(Q) = n
  BY FS_Interval
<1>8. placed \in Injection(Last, Q)
  BY <1>2, <1>5 DEF Injection, IsInjective
<1>9. placed \in Surjection(Last, Q)
  <2>1. \A k \in Q : \E h \in Last : placed[h] = k
    BY <1>1, <1>6
  <2>. QED
    BY <1>8, <2>1 DEF Surjection, Injection
<1>. HIDE DEF placed, Last, Q
<1>10. Cardinality(Last) = Cardinality(Q)
  BY <1>7, <1>8, <1>9, FS_Injection
<1>. QED
  BY <1>7, <1>10 DEF Last

\* What is outside the window is older than all of it, and the window is full.
LEMMA WindowIsFull ==
    ASSUME TypeOK, IdsDistinct, NEW conv, NEW tenant, NEW row \in Thread(conv, tenant),
           row \notin LastTurns(conv, tenant, HistoryWindow)
    PROVE  Cardinality({ h \in LastTurns(conv, tenant, HistoryWindow) : h.id > row.id })
              = HistoryWindow
<1>. DEFINE T == Thread(conv, tenant)
            W == LastTurns(conv, tenant, HistoryWindow)
<1>1. /\ T \subseteq rows /\ IsFiniteSet(T)
      /\ \A h \in T : h.id \in Nat
      /\ \A a, b \in T : a.id = b.id => a = b
  BY FS_Subset DEF IdsDistinct, Thread, TypeOK, StoreTypeOK, Row
<1>2. W = { h \in T : Cardinality(Newer(T, h)) < HistoryWindow }
  BY DEF LastTurns, Newer
<1>3. row \in T /\ HistoryWindow \in Nat
  BY PipelineAssumption
<1>. HIDE DEF T, W
<1>4. \A h \in T : /\ Newer(T, h) \subseteq T /\ IsFiniteSet(Newer(T, h))
                   /\ Cardinality(Newer(T, h)) \in Nat
                   /\ Cardinality(Newer(T, h)) <= Cardinality(T)
  BY <1>1, FS_Subset, FS_CardinalityType DEF Newer
<1>5. ~(Cardinality(Newer(T, row)) < HistoryWindow)
  BY <1>2, <1>3 DEF W
<1>6. \A h \in W : h.id > row.id
  <2>. SUFFICES ASSUME NEW h \in W, ~(h.id > row.id) PROVE FALSE
    OBVIOUS
  <2>1. h \in T /\ Cardinality(Newer(T, h)) < HistoryWindow
    BY <1>2
  <2>2. Newer(T, row) \in SUBSET Newer(T, h)
    BY <1>1, <1>3, <2>1 DEF Newer
  <2>3. Cardinality(Newer(T, row)) <= Cardinality(Newer(T, h))
    BY <1>4, <2>1, <2>2, FS_Subset
  <2>. QED
    BY <1>3, <1>4, <1>5, <2>1, <2>3
<1>7. { h \in W : h.id > row.id } = W
  BY <1>6
<1>8. Cardinality(T) \in Nat
  BY <1>1, FS_CardinalityType
<1>9. HistoryWindow <= Cardinality(T)
  BY <1>3, <1>4, <1>5, <1>8
<1>10. Cardinality(W) = HistoryWindow
  BY <1>1, <1>2, <1>3, <1>9, NewestOf
<1>. QED
  BY <1>7, <1>10 DEF W

\* A follow-up sees what it follows (conversation_store.py:131-145): whatever of
\* its thread is committed when the history is loaded is in it, unless the window
\* is full of newer turns, for any window, any ids and either database.
THEOREM FollowUpsSeeReplies == Spec => FollowUpSeesReplies
<1>1. TableInv /\ SafeInv /\ IdsDistinct /\ [Next]_vars =>
        [ \A r \in Requests : pc[r] = "load" /\ pc'[r] = "saveUser" =>
            \A row \in Thread(input[r].conv, input[r].tenant) :
               \/ row \in history'[r]
               \/ row.author \in Requests /\ status[row.author] # "ok"
               \/ Cardinality({ h \in history'[r] : h.id > row.id }) = HistoryWindow ]_vars
  <2>. SUFFICES ASSUME TableInv, SafeInv, IdsDistinct, [Next]_vars,
                       NEW r \in Requests, pc[r] = "load", pc'[r] = "saveUser",
                       NEW row \in Thread(input[r].conv, input[r].tenant),
                       row \notin history'[r]
                PROVE  Cardinality({ h \in history'[r] : h.id > row.id }) = HistoryWindow
    OBVIOUS
  <2>1. PICK q \in Requests : Proceed(q) \/ Lose(q)
    BY DEF Next, vars
  <2>2. q = r
    BY <2>1, StepFrame DEF SafeInv
  <2>3. LoadHistory(r)
    <3>. USE DEF Goto, End, localVars, SafeInv, TypeInv, TypeOK
    <3>1. CASE Insert(r)
      BY <3>1 DEF Insert
    <3>2. CASE ~Insert(r)
      BY <2>1, <2>2, <3>2
      DEF Proceed, Lose, LoadFails, CommitUserTurn, Classify, Retrieve, PlanAndGate,
          Refuse, CallTool, ToolFails, EvidenceFails, Compose, CommitReply, SaveFails
    <3>. QED
      BY <3>1, <3>2
  <2>4. history'[r] = LastTurns(input[r].conv, input[r].tenant, HistoryWindow)
    BY <2>3 DEF LoadHistory, SafeInv, TypeInv, TypeOK
  <2>. QED
    BY <2>4, WindowIsFull DEF SafeInv, TypeInv
<1>. QED
  BY IdsStayDistinct, <1>1, PTL DEF Spec, FollowUpSeesReplies

-----------------------------------------------------------------------------
(* What a reply says and what it rests on, for every plan, result,          *)
(* retrieval and answer of the model.                                       *)

\* The draft is the reply to what the model said, and still would be.
Composed(r) == draft[r] = Reply(r, draft[r].raw)

\* A result was left by a tool of the plan that acted for this request.
ResultsHaveSource(r) ==
    \A t \in Tools : results[r][t] # Absent =>
        t \in PlanNames(plan[r]) /\ <<r, t>> \in called

\* The tools that returned something have places of their own, in the order in which
\* they first did.
PlacesApart(r) ==
    \A t \in Tools : results[r][t] # Absent =>
        /\ place[r][t] \in 1 .. tried[r]
        /\ \A u \in Tools : results[r][u] # Absent /\ place[r][u] = place[r][t] => u = t

\* What a request holds from the gate on: a blocked one has no results, another
\* leaves the tool loop when it has tried its whole plan, and the draft is of the
\* plan, the results and the retrieval that the request still has.
Held(r) ==
    /\ pc[r] \in BeforeGate => ~blocked[r] /\ results[r] = NoResults
    /\ blocked[r] => Required(r, plan[r]) /\ results[r] = NoResults
    /\ ResultsHaveSource(r)
    /\ PlacesApart(r)
    /\ (pc[r] \in {"compose", "saveReply"} \/ status[r] = "ok") /\ ~blocked[r] =>
          tried[r] = Len(plan[r])
    /\ pc[r] \in BeforeGate \cup {"tools", "compose"} => draft[r] = NoDraft
    /\ draft[r] = NoDraft \/ Composed(r)
    /\ pc[r] = "saveReply" \/ status[r] = "ok" => Composed(r)
    /\ status[r] = "ok" => pc[r] = "done"

ReplyInv == \A r \in Requests : Held(r)

-----------------------------------------------------------------------------
\* A step of one request leaves what is held of the others.
LEMMA OthersHeld ==
    ASSUME NEW q \in Requests, Held(q), called \subseteq called', input' = input,
           pc'[q] = pc[q], blocked'[q] = blocked[q], results'[q] = results[q] /\ place'[q] = place[q],
           rag'[q] = rag[q], plan'[q] = plan[q], tried'[q] = tried[q],
           draft'[q] = draft[q], status'[q] = status[q]
    PROVE  Held(q)'
<1>1. \A raw : Reply(q, raw)' = Reply(q, raw)
  BY DEF Reply, ReplyText, Required
<1>2. Composed(q)' <=> Composed(q)
  BY <1>1 DEF Composed
<1>. QED
  BY <1>2 DEF Held, ResultsHaveSource, PlacesApart, Required

\* The frame of a step: nothing of another request moves.
LEMMA OthersFrame ==
    ASSUME TypeInv, NEW r \in Requests, Proceed(r) \/ Lose(r),
           NEW q \in Requests \ {r}
    PROVE  /\ called \subseteq called' /\ input' = input
           /\ pc'[q] = pc[q] /\ blocked'[q] = blocked[q] /\ results'[q] = results[q] /\ place'[q] = place[q]
           /\ rag'[q] = rag[q] /\ plan'[q] = plan[q] /\ tried'[q] = tried[q]
           /\ draft'[q] = draft[q] /\ status'[q] = status[q]
<1>. USE DEF TypeInv, TypeOK, Goto, End, localVars
<1>1. CASE LoadHistory(r) \/ Compose(r)
  BY <1>1 DEF LoadHistory, Compose
<1>2. CASE LoadFails(r) \/ Classify(r) \/ Retrieve(r) \/ Refuse(r) \/ EvidenceFails(r)
  BY <1>2 DEF LoadFails, Classify, Retrieve, Refuse, EvidenceFails
<1>3. CASE PlanAndGate(r)
  BY <1>3 DEF PlanAndGate
<1>4. CASE Insert(r) \/ CommitUserTurn(r) \/ CommitReply(r) \/ SaveFails(r) \/ Lose(r)
  BY <1>4 DEF Insert, CommitUserTurn, CommitReply, SaveFails, Lose
<1>5. CASE CallTool(r)
  <2>1. PICK outcome \in ToolOutcomes : Record(r, outcome)
    BY <1>5 DEF CallTool
  <2>2. results'[q] = results[q] /\ place'[q] = place[q]
    BY <2>1 DEF Record
  <2>. QED
    BY <1>5, <2>2 DEF CallTool, AfterTool
<1>6. CASE ToolFails(r)
  BY <1>6 DEF ToolFails, AfterTool
<1>. QED
  BY <1>1, <1>2, <1>3, <1>4, <1>5, <1>6 DEF Proceed

\* A step that leaves plan, results and draft as they are.
LEMMA QuietHeld ==
    ASSUME NEW r \in Requests, Held(r),
           UNCHANGED <<input, plan, blocked, tried, results, place, called, draft>>,
           pc[r] \notin BeforeGate => rag' = rag,
           \/ pc'[r] = pc[r] /\ status'[r] = status[r]
           \/ pc[r] \in BeforeGate /\ pc'[r] \in BeforeGate /\ status'[r] = status[r]
           \/ pc'[r] = "done" /\ status'[r] \in {"refused", "failed", "lost"}
           \/ pc[r] = "saveReply" /\ pc'[r] = "done" /\ status'[r] = "ok"
    PROVE  Held(r)'
<1>1. Composed(r) /\ rag' = rag => Composed(r)'
  BY DEF Composed, Reply, ReplyText, Required
<1>2. Composed(r) /\ rag' # rag => draft[r] = NoDraft
  BY DEF Held
<1>. QED
  BY <1>1, <1>2 DEF Held, ResultsHaveSource, PlacesApart, Required, BeforeGate

\* The gate: a plan without results yet, and blocked by what it requires.
LEMMA GateHeld ==
    ASSUME TypeInv, NEW r \in Requests, Held(r), PlanAndGate(r)
    PROVE  Held(r)'
<1>1. PICK p \in PossiblePlans(intent[r]) :
        LET withheld == Required(r, p) /\ ~input[r].granted
        IN  /\ plan' = [plan EXCEPT ![r] = p]
            /\ blocked' = [blocked EXCEPT ![r] = withheld]
            /\ Goto(r, IF p # <<>> /\ ~withheld THEN "tools" ELSE "compose")
  BY DEF PlanAndGate
<1>2. /\ pc[r] = "plan" /\ draft[r] = NoDraft /\ results[r] = NoResults /\ tried[r] = 0
      /\ status[r] # "ok"
      /\ UNCHANGED <<results, place, called, draft, status, tried, input>>
  BY DEF PlanAndGate, Held, BeforeGate, TypeInv, ToolLeft
<1>3. /\ plan'[r] = p
      /\ blocked'[r] = (Required(r, p) /\ ~input[r].granted)
      /\ pc'[r] \in {"tools", "compose"}
      /\ pc'[r] = "compose" => p = <<>> \/ blocked'[r]
  BY <1>1, Zenon DEF Goto, TypeInv, TypeOK
<1>4. blocked'[r] => Required(r, plan[r])'
  BY <1>2, <1>3, Zenon DEF Required
<1>5. pc'[r] = "compose" /\ ~blocked'[r] => tried'[r] = Len(plan'[r])
  BY <1>2, <1>3
<1>6. \A t \in Tools : results'[r][t] = Absent
  BY <1>2 DEF NoResults
<1>. QED
  BY <1>2, <1>3, <1>4, <1>5, <1>6 DEF Held, ResultsHaveSource, PlacesApart, BeforeGate

\* The key of a tool that returns for the first time comes after all the others.
LEMMA ToolPlaces ==
    ASSUME TypeInv, NEW r \in Requests, PlacesApart(r), CallTool(r) \/ ToolFails(r)
    PROVE  PlacesApart(r)'
<1>1. /\ tried[r] \in Nat /\ tried'[r] = tried[r] + 1
      /\ NextTool(r) \in Tools
  BY AfterToolTyped DEF CallTool, ToolFails, AfterTool, TypeInv, TypeOK
<1>2. CASE ToolFails(r)
  BY <1>1, <1>2 DEF ToolFails, PlacesApart
<1>3. CASE CallTool(r)
  <2>. DEFINE n == NextTool(r)
  <2>1. PICK outcome \in ToolOutcomes : Record(r, outcome)
    BY <1>3 DEF CallTool
  <2>2. /\ \A t \in Tools \ {n} : /\ results'[r][t] = results[r][t]
                                /\ place'[r][t] = place[r][t]
        /\ results[r][n] # Absent => place'[r][n] = place[r][n]
        /\ results[r][n] = Absent => place'[r][n] = tried[r] + 1
    BY <1>1, <2>1 DEF Record, TypeInv, TypeOK
  <2>. QED
    BY <1>1, <2>2 DEF PlacesApart
<1>. QED
  BY <1>2, <1>3

\* A tool acts or fails: at most the result of the tool itself is new.
LEMMA ToolHeld ==
    ASSUME SafeInv, NEW r \in Requests, Held(r), CallTool(r) \/ ToolFails(r)
    PROVE  Held(r)'
<1>1. /\ pc[r] = "tools" /\ AfterTool(r)
      /\ UNCHANGED <<input, plan, blocked, draft, status, rag>>
  BY DEF CallTool, ToolFails
<1>2. /\ ~blocked[r] /\ draft[r] = NoDraft /\ status[r] # "ok"
      /\ tried[r] \in Nat /\ plan[r] \in Seq(Tools) /\ tried[r] < Len(plan[r])
  BY <1>1 DEF SafeInv, GateInv, LetThrough, Held, TypeInv, TypeOK, ToolLeft
<1>3. /\ pc'[r] \in {"tools", "compose"}
      /\ pc'[r] = "compose" => tried'[r] = Len(plan'[r])
  BY <1>1, <1>2 DEF AfterTool, Goto, SafeInv, TypeInv, TypeOK
<1>4. NextTool(r) \in PlanNames(plan[r])
  BY <1>2 DEF NextTool, PlanNames
<1>5. called \subseteq called'
  BY DEF CallTool, ToolFails
<1>6. ResultsHaveSource(r)'
  <2>1. CASE CallTool(r)
    <3>1. /\ <<r, NextTool(r)>> \in called'
          /\ \A t \in Tools \ {NextTool(r)} : results'[r][t] = results[r][t]
      BY <2>1 DEF CallTool, Record, SafeInv, TypeInv, TypeOK
    <3>. QED
      BY <3>1, <1>1, <1>4, <1>5 DEF Held, ResultsHaveSource, PlacesApart
  <2>2. CASE ToolFails(r)
    BY <2>2, <1>1, <1>5 DEF ToolFails, Held, ResultsHaveSource, PlacesApart
  <2>. QED
    BY <2>1, <2>2
<1>7. PlacesApart(r)'
  BY <1>2, ToolPlaces DEF SafeInv, Held
<1>. QED
  BY <1>1, <1>2, <1>3, <1>6, <1>7 DEF Held, BeforeGate

\* The reply is made of what the request holds, and the turn is stamped.
LEMMA ComposeHeld ==
    ASSUME TypeInv, NEW r \in Requests, Held(r), Compose(r)
    PROVE  Held(r)'
<1>1. PICK raw \in ModelAnswers \cup {FallbackText} :
        draft' = [draft EXCEPT ![r] = Reply(r, raw)]
  BY DEF Compose
<1>2. /\ pc[r] = "compose" /\ pc'[r] = "saveReply" /\ status[r] # "ok"
      /\ UNCHANGED <<input, plan, blocked, tried, results, place, called, rag, status>>
  BY DEF Compose, Goto, TypeInv, TypeOK, Held
<1>3. draft'[r] = Reply(r, raw) /\ Reply(r, raw).raw = raw
  BY <1>1 DEF TypeInv, TypeOK, Reply
<1>4. Reply(r, raw)' = Reply(r, raw)
  BY <1>2 DEF Reply, ReplyText, Required
<1>5. Composed(r)'
  BY <1>3, <1>4 DEF Composed
<1>. QED
  BY <1>2, <1>5 DEF Held, ResultsHaveSource, PlacesApart, Required, BeforeGate

\* Every step of one request keeps what is held of it.
LEMMA OwnHeld ==
    ASSUME SafeInv, NEW r \in Requests, Held(r), Proceed(r) \/ Lose(r)
    PROVE  Held(r)'
<1>. USE DEF SafeInv, TypeInv, TypeOK, Goto, End, localVars
<1>1. CASE LoadHistory(r) \/ LoadFails(r) \/ Insert(r) \/ CommitUserTurn(r)
  BY <1>1, QuietHeld DEF LoadHistory, LoadFails, Insert, CommitUserTurn, BeforeGate
<1>2. CASE Classify(r) \/ Retrieve(r) \/ Refuse(r) \/ EvidenceFails(r)
  BY <1>2, QuietHeld DEF Classify, Retrieve, Refuse, EvidenceFails, BeforeGate
<1>3. CASE CommitReply(r) \/ SaveFails(r) \/ Lose(r)
  BY <1>3, QuietHeld DEF CommitReply, SaveFails, Lose, BeforeGate
<1>4. CASE PlanAndGate(r)
  BY <1>4, GateHeld
<1>5. CASE CallTool(r) \/ ToolFails(r)
  BY <1>5, ToolHeld
<1>6. CASE Compose(r)
  BY <1>6, ComposeHeld
<1>. QED
  BY <1>1, <1>2, <1>3, <1>4, <1>5, <1>6 DEF Proceed

\* A request starts with nothing; an empty set of results gives no evidence.
LEMMA InitHeld == Init => ReplyInv
BY DEF Init, ReplyInv, Held, ResultsHaveSource, PlacesApart, BeforeGate, NoResults

\* What requests hold, in every reachable state.
THEOREM ReplyHolds == Spec => [](ReplyInv /\ SafeInv)
<1>1. ReplyInv /\ SafeInv /\ [Next]_vars => ReplyInv'
  <2>. SUFFICES ASSUME ReplyInv, SafeInv, [Next]_vars PROVE ReplyInv'
    OBVIOUS
  <2>1. CASE UNCHANGED vars
    BY <2>1, OthersHeld DEF ReplyInv, vars, localVars
  <2>2. ASSUME NEW r \in Requests, Proceed(r) \/ Lose(r), NEW q \in Requests
        PROVE  Held(q)'
    <3>1. CASE q = r
      BY <3>1, <2>2, OwnHeld DEF ReplyInv
    <3>2. CASE q # r
      BY <3>2, <2>2, OthersFrame, OthersHeld DEF ReplyInv, SafeInv
    <3>. QED
      BY <3>1, <3>2
  <2>. QED
    BY <2>1, <2>2 DEF Next, ReplyInv
<1>. QED
  BY InitHeld, Safe, <1>1, PTL DEF Spec

-----------------------------------------------------------------------------
(* What follows for replies.                                                *)

\* The sanitiser keeps critical advice that has no forbidden phrase, and puts the
\* deferral in the place of what it takes away.
LEMMA AdviceLeavesTrace ==
    ASSUME NEW raw, CriticalRecommendation(raw)
    PROVE  CriticalRecommendation(Sanitize(raw)) \/ "deferral" \in Sanitize(raw)
<1>1. CASE "critical_advice" \in raw
  <2>1. "critical_advice" \in Sanitize(raw)
    <3>1. SanitizeLine("critical_advice") = {"critical_advice"}
      BY DEF SanitizeLine
    <3>. QED
      BY <1>1, <3>1 DEF Sanitize
  <2>. QED
    BY <2>1 DEF CriticalRecommendation, Recommendations, AdviceLines
<1>2. CASE "forbidden_advice" \in raw
  <2>1. SanitizeLine("forbidden_advice") = {"advice", "deferral"}
    BY DEF SanitizeLine
  <2>. QED
    BY <1>2, <2>1 DEF Sanitize
<1>. QED
  BY <1>1, <1>2 DEF CriticalRecommendation, Recommendations

\* Without results there is no tool data.
LEMMA NothingFromNothing == \A places : Merged(NoResults, places) = {}
BY DEF Merged, NoResults, Absent, Fields

\* What a composed draft consists of.
LEMMA ComposedParts ==
    ASSUME NEW r \in Requests, Composed(r)
    PROVE  /\ draft[r].text = ReplyText(r, draft[r].raw)
           /\ draft[r].packet.raw = Merged(results[r], place[r])
           /\ draft[r].required =
                 \/ Required(r, plan[r])
                 \/ ApprovalRequired(input[r].critical,
                                     CriticalRecommendation(Sanitize(draft[r].raw)))
           /\ blocked[r] => draft[r].uncertain
<1>. DEFINE raw == draft[r].raw
            reply == Reply(r, raw)
<1>1. /\ reply.text = ReplyText(r, raw)
      /\ reply.packet = EvidencePacket(rag[r], results[r], place[r])
      /\ reply.required = (\/ Required(r, plan[r])
                           \/ ApprovalRequired(input[r].critical,
                                               CriticalRecommendation(Sanitize(raw))))
      /\ reply.uncertain = (\/ ~EvidencePassed(EvidencePacket(rag[r], results[r], place[r]),
                                               input[r].requireEvidence)
                            \/ blocked[r])
  BY Zenon DEF Reply
<1>2. EvidencePacket(rag[r], results[r], place[r]).raw = Merged(results[r], place[r])
  BY DEF EvidencePacket
<1>3. draft[r] = reply
  BY DEF Composed
<1>. QED
  BY <1>1, <1>2, <1>3, Zenon

\* A reply says what was held back, of its tools and of its advice
\* (chat_service.py:230-278): a blocked one in its flags and its text, and no
\* critical advice of the model is left without approval or deferral.
THEOREM RepliesSayWhatIsHeld == Spec => []ReplySaysWhatIsHeld
<1>1. ReplyInv => ReplySaysWhatIsHeld
  <2>. SUFFICES ASSUME ReplyInv, NEW r \in Requests, status[r] = "ok"
                PROVE  /\ blocked[r] =>
                            /\ draft[r].required /\ draft[r].uncertain
                            /\ draft[r].packet.raw = {}
                            /\ draft[r].text # {} => "notice" \in draft[r].text
                       /\ CriticalRecommendation(draft[r].raw)
                            => draft[r].required \/ "deferral" \in draft[r].text
    BY DEF ReplySaysWhatIsHeld, BlockedIsVisible, CriticalAdviceIsHeld
  <2>1. /\ Composed(r)
        /\ blocked[r] => Required(r, plan[r]) /\ results[r] = NoResults
    BY DEF ReplyInv, Held
  <2>2. blocked[r] => draft[r].packet.raw = {}
    BY <2>1, ComposedParts, NothingFromNothing
  <2>3. blocked[r] /\ draft[r].text # {} => "notice" \in draft[r].text
    BY <2>1, ComposedParts DEF ReplyText, Sanitize
  <2>4. CriticalRecommendation(draft[r].raw)
          => draft[r].required \/ "deferral" \in draft[r].text
    BY <2>1, ComposedParts, AdviceLeavesTrace DEF ReplyText, ApprovalRequired
  <2>. QED
    BY <2>1, <2>2, <2>3, <2>4, ComposedParts
<1>. QED
  BY ReplyHolds, <1>1, PTL

\* "Less than" on the naturals, as the relation the library proves well-founded.
Smaller == { p \in Nat \X Nat : p[1] < p[2] }

LEMMA SmallerWellFounded == IsWellFoundedOn(Smaller, Nat)
BY NatLessThanWellFounded DEF OpToRel, Smaller

\* A set of naturals that are not above n and not none has a greatest one.
LEMMA Greatest ==
    ASSUME NEW n \in Nat, NEW S, S \subseteq 0 .. n, S # {}
    PROVE  \E x \in S : \A y \in S : y <= x
<1>. DEFINE gaps == {n - x : x \in S}
<1>1. gaps \subseteq Nat /\ gaps # {}
  <2>1. \A x \in S : n - x \in Nat
    OBVIOUS
  <2>2. PICK x \in S : TRUE
    OBVIOUS
  <2>3. n - x \in gaps
    BY <2>2
  <2>. QED
    BY <2>1, <2>3
<1>2. PICK g \in gaps : \A h \in gaps : <<h, g>> \notin Smaller
  BY <1>1, SmallerWellFounded, WFMin
<1>3. PICK x \in S : g = n - x
  OBVIOUS
<1>4. ASSUME NEW y \in S, y > x PROVE FALSE
  <2>1. n - y \in gaps /\ n - y < n - x /\ n - y \in Nat /\ n - x \in Nat
    BY <1>4
  <2>. QED
    BY <1>2, <1>3, <2>1 DEF Smaller
<1>. QED
  BY <1>4

\* FieldsAreMerged of one request and some merged fields.
KeysKept(r, raw) ==
    LET told == {field \in Keys \X Tools : field[1] \in Fields(results[r][field[2]])}
    IN  /\ \A field \in told :
              \/ \E t \in Tools : /\ <<field[1], t>> \in raw
                                  /\ place[r][t] >= place[r][field[2]]
              \/ raw = {} /\ \E t \in Tools : results[r][t].form = "bare"
        /\ \A f, g \in raw : f[1] = g[1] => f = g

\* Of the tools that gave a key the one with the last place keeps it.
LEMMA MergeKeepsKeys ==
    ASSUME TypeOK, NEW r \in Requests, PlacesApart(r)
    PROVE  KeysKept(r, Merged(results[r], place[r]))
<1>. DEFINE raw == Merged(results[r], place[r])
            Gave(k) == {t \in Tools : k \in Fields(results[r][t])}
<1>0. /\ tried[r] \in Nat /\ place[r] \in [Tools -> Nat]
      /\ \A k : \A t \in Gave(k) : results[r][t] # Absent /\ place[r][t] \in 1 .. tried[r]
  BY DEF TypeOK, PlacesApart, Fields, Absent
<1>1. ASSUME NEW k \in Keys, NEW t \in Gave(k), IsAccumulated(results[r])
      PROVE  \E u \in Tools : <<k, u>> \in raw /\ place[r][u] >= place[r][t]
  <2>. DEFINE S == {place[r][u] : u \in Gave(k)}
  <2>1. S \subseteq 0 .. tried[r] /\ S # {}
    BY <1>0
  <2>2. PICK x \in S : \A y \in S : y <= x
    BY <1>0, <2>1, Greatest
  <2>3. PICK u \in Gave(k) : x = place[r][u]
    OBVIOUS
  <2>4. \A v \in Gave(k) : place[r][v] <= place[r][u]
    BY <2>2, <2>3
  <2>5. <<k, u>> \in raw
    BY <1>1, <2>4 DEF Merged
  <2>. QED
    BY <1>0, <2>4, <2>5
<1>2. ASSUME NEW f \in raw, NEW g \in raw, f[1] = g[1]
      PROVE  f = g
  <2>1. /\ f \in Keys \X Tools /\ g \in Keys \X Tools
        /\ f[2] \in Gave(f[1]) /\ g[2] \in Gave(f[1])
        /\ place[r][f[2]] <= place[r][g[2]] /\ place[r][g[2]] <= place[r][f[2]]
    BY <1>2 DEF Merged
  <2>2. place[r][f[2]] = place[r][g[2]]
    BY <1>0, <2>1
  <2>3. f[2] = g[2]
    BY <1>0, <2>1, <2>2 DEF PlacesApart
  <2>. QED
    BY <1>2, <2>1, <2>3
<1>3. ASSUME ~IsAccumulated(results[r])
      PROVE  raw = {} /\ \E t \in Tools : results[r][t].form = "bare"
  BY <1>3 DEF Merged, IsAccumulated
<1>. QED
  BY <1>1, <1>2, <1>3 DEF KeysKept

\* What a failing tool can do to a reply (chat_service.py:197-213,
\* evidence_planner.py:58-90): the loop tries the whole plan, no tool is evidence
\* that did not act for the request, and a field gives way to its own key only.
THEOREM ToolFailuresAreContained == Spec => []ToolFailureContained
<1>1. ReplyInv => WholePlanTried
  BY DEF ReplyInv, Held, WholePlanTried
<1>2. ReplyInv => EvidenceHasSource
  <2>. SUFFICES ASSUME ReplyInv, NEW r \in Requests, NEW field \in draft[r].packet.raw
                PROVE  field[2] \in PlanNames(plan[r]) /\ <<r, field[2]>> \in called
    BY DEF EvidenceHasSource
  <2>1. draft[r].packet.raw \subseteq Merged(results[r], place[r])
    <3>1. CASE Composed(r)
      BY <3>1, ComposedParts
    <3>2. CASE draft[r] = NoDraft
      BY <3>2, NothingFromNothing DEF NoDraft, EvidencePacket
    <3>. QED
      BY <3>1, <3>2 DEF ReplyInv, Held
  <2>2. field[2] \in Tools /\ results[r][field[2]] # Absent
    BY <2>1 DEF Merged, Fields, Absent
  <2>. QED
    BY <2>2 DEF ReplyInv, Held, ResultsHaveSource
<1>3. TypeOK /\ ReplyInv => FieldsAreMerged
  <2>. SUFFICES ASSUME TypeOK, ReplyInv, NEW r \in Requests, status[r] = "ok"
                PROVE  KeysKept(r, draft[r].packet.raw)
    BY Zenon DEF FieldsAreMerged, KeysKept
  <2>1. draft[r].packet.raw = Merged(results[r], place[r])
    BY ComposedParts DEF ReplyInv, Held
  <2>2. PlacesApart(r)
    BY DEF ReplyInv, Held
  <2>. QED
    BY <2>1, <2>2, MergeKeepsKeys
<1>4. ReplyInv /\ SafeInv => ToolFailureContained
  BY <1>1, <1>2, <1>3 DEF ToolFailureContained, SafeInv, TypeInv
<1>. QED
  BY ReplyHolds, <1>4, PTL
=============================================================================
