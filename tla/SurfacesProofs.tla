--------------------------- MODULE SurfacesProofs ---------------------------
(***************************************************************************)
(* What the surfaces say of approval, proved for questions of any words.   *)
(* An answer is given once and stays, so each property is inductive: the   *)
(* first step has an answer of each kind to look at, the others have none. *)
(***************************************************************************)
EXTENDS Surfaces, TLAPS

-----------------------------------------------------------------------------
(* Lemmas about single answers                                              *)

\* The safety policy's markers are in the names of the flagged workflows' tools
\* and in no others.
LEMMA MarkersMatch ==
    \A q : ToolOf[Workflow(q)] \in MarkedTools <=> DispatchFlags(q)
<1>1. TAKE q
<1>2. Workflow(q) \in {"setup", "parts", "simulation", "reporting", "telemetry"}
  BY DEF Workflow
<1> QED
  BY <1>2 DEF ToolOf, MarkedTools, DispatchFlags

\* What a proposal says of approval is what it was given.
LEMMA ProposedSays ==
    \A tool, gated : Proposed(tool, gated).approval_required = gated
  BY DEF Proposed

\* The legacy head needs approval whenever a call of it does.
LEMMA LegacyChatHead ==
    ASSUME NEW m, NEW c \in LegacyChat(m).calls, c.approval_required
    PROVE  NeedsApproval(m)
<1>1. LegacyChat(m).calls =
        {Proposed(t, NeedsApproval(m) /\ t = Approved) : t \in ClassifyLegacy(m).tools}
  BY DEF LegacyChat
<1>2. PICK t \in ClassifyLegacy(m).tools : c = Proposed(t, NeedsApproval(m) /\ t = Approved)
  BY <1>1
<1>3. c.approval_required = (NeedsApproval(m) /\ t = Approved)
  BY <1>2, ProposedSays
<1> QED
  BY <1>3

\* So does the plan of the legacy command centre, by its intent alone.
LEMMA LegacyCenterHead ==
    ASSUME NEW m, NEW c \in LegacyCommandCenter(m).calls, c.approval_required
    PROVE  NeedsApproval(m)
<1> DEFINE more == {Proposed("race_command_center.context.read", FALSE),
                    Proposed("rag_cag.retrieve", FALSE), Proposed("mcp_gateway.dispatch", FALSE),
                    Proposed("agent_orchestrator.plan", ClassifyLegacy(m).approval_required)}
<1>1. LegacyCommandCenter(m).calls = LegacyChat(m).calls \cup more
  BY DEF LegacyCommandCenter, LegacyChat
<1>2. CASE c \in LegacyChat(m).calls
  BY <1>2, LegacyChatHead
<1>3. CASE c \in more
  <2>1. c.approval_required = FALSE \/ c.approval_required = ClassifyLegacy(m).approval_required
    BY <1>3, ProposedSays
  <2> QED
    BY <2>1 DEF NeedsApproval
<1> QED
  BY <1>1, <1>2, <1>3

\* What the head of a legacy answer covers: its calls, its text and its advice.
Covered(answer) ==
    (\/ \E c \in answer.calls : c.approval_required
     \/ answer.says = "required"
     \/ answer.advice # {}) => answer.status # "not_required"

\* The head of a legacy chat answer covers its text, its calls and its advice.
LEMMA ChatCovered ==
    ASSUME NEW m
    PROVE  Covered(LegacyChat(m))
<1>1. LegacyChat(m).status = "not_required" => ~NeedsApproval(m)
  BY DEF LegacyChat
<1>2. LegacyChat(m).says = "required" => NeedsApproval(m)
  BY DEF LegacyChat, NeedsApproval
<1>3. LegacyAdvice(m) # {} => ClassifyLegacy(m).approval_required
  BY DEF LegacyAdvice, ClassifyLegacy, LegacyIntent
<1>4. LegacyChat(m).advice # {} => NeedsApproval(m)
  BY <1>3 DEF LegacyChat, NeedsApproval
<1> QED
  BY <1>1, <1>2, <1>4, LegacyChatHead DEF Covered

\* The head of a legacy command centre answer covers them too.
LEMMA CenterCovered ==
    ASSUME NEW m
    PROVE  Covered(LegacyCommandCenter(m))
<1>1. /\ LegacyCommandCenter(m).status = LegacyChat(m).status
      /\ LegacyCommandCenter(m).says = LegacyChat(m).says
      /\ LegacyCommandCenter(m).advice = LegacyChat(m).advice
  BY DEF LegacyCommandCenter, LegacyChat
<1>2. LegacyChat(m).status = "not_required" => ~NeedsApproval(m)
  BY DEF LegacyChat
<1> QED
  BY <1>1, <1>2, ChatCovered, LegacyCenterHead DEF Covered

\* So do the heads of the tool, the setup and the report answers.
LEMMA OthersCovered ==
    /\ \A execute, hasToken \in BOOLEAN : Covered(LegacyTool(execute, hasToken))
    /\ Covered(LegacySetup)
    /\ \A tool : Covered(LegacyReport(tool))
<1>1. ASSUME NEW execute \in BOOLEAN, NEW hasToken \in BOOLEAN
      PROVE  Covered(LegacyTool(execute, hasToken))
  <2>1. CASE execute /\ ~hasToken
    BY <2>1 DEF Covered, LegacyTool
  <2>2. CASE ~(execute /\ ~hasToken)
    <3>1. \A c \in LegacyTool(execute, hasToken).calls :
             c.approval_required = (execute /\ ~hasToken)
      BY DEF LegacyTool
    <3>2. /\ LegacyTool(execute, hasToken).says = "not_required"
          /\ LegacyTool(execute, hasToken).advice = {}
      BY DEF LegacyTool
    <3> QED
      BY <2>2, <3>1, <3>2 DEF Covered
  <2> QED
    BY <2>1, <2>2
<1>2. Covered(LegacySetup)
  BY DEF Covered, LegacySetup
<1>3. ASSUME NEW tool PROVE Covered(LegacyReport(tool))
  BY ProposedSays DEF Covered, LegacyReport
<1> QED
  BY <1>1, <1>2, <1>3

\* The command centre's advice is gated where its head is, but for two words.
LEMMA CenterAdvice ==
    ASSUME NEW q, ~Approval(q), ~Has(q, {"tire pressure", "balance"})
    PROVE  /\ GatedAdvice(q) = {}
           /\ "orchestrator.request_human_approval" \notin Downstream(Intent(q))
<1>1. Intent(q) # "setup_recommendation"
  BY DEF Intent, Approval, RequiresApproval, Has
<1>2. Intent(q) # "part_design"
  BY DEF Intent, Approval, Blocked, DispatchFlags, Workflow, Has
<1> QED
  BY <1>1, <1>2 DEF GatedAdvice, Downstream

\* A call of the command centre is marked only under a head that asks.
LEMMA CenterCalls ==
    ASSUME NEW q, NEW c \in Calls(q), c.approval_required
    PROVE  Approval(q)
<1>1. DispatchFlags(q) => Approval(q)
  BY DEF Approval, Blocked
<1> QED
  BY <1>1 DEF Calls

-----------------------------------------------------------------------------
(* Lemmas about the steps                                                   *)

\* An answer is the command centre's, a legacy one that covers what is in it,
\* or the chat's.
LEMMA FirstAnswer ==
    ASSUME Next
    PROVE  \/ \E rag \in RagResults, hasRequestId \in BOOLEAN : Route(rag, hasRequestId)
           \/ \E surface, answer : /\ surface # "command_center" /\ Covered(answer)
                                   /\ LegacyAnswer(surface, answer)
           \/ AskChat
<1>1. CASE LegacyAnswer("legacy", LegacyChat(query))
  BY <1>1, ChatCovered
<1>2. CASE LegacyAnswer("legacy_command_center", LegacyCommandCenter(query))
  BY <1>2, CenterCovered
<1>3. CASE \E execute, hasToken \in BOOLEAN :
             LegacyAnswer("legacy_tool", LegacyTool(execute, hasToken))
  BY <1>3, OthersCovered
<1>4. CASE LegacyAnswer("legacy_setup", LegacySetup)
  BY <1>4, OthersCovered
<1>5. CASE \E tool \in LegacyReports : LegacyAnswer("legacy_report", LegacyReport(tool))
  BY <1>5, OthersCovered
<1> QED
  BY <1>1, <1>2, <1>3, <1>4, <1>5 DEF Next

\* Whatever is answered, the head covers the calls.
LEMMA HeadStep ==
    ASSUME HeadCoversCalls, [Next]_vars
    PROVE  HeadCoversCalls'
<1>1. CASE UNCHANGED vars
  BY <1>1 DEF vars, HeadCoversCalls
<1>2. CASE Next
  <2>1. ASSUME NEW rag, NEW hasRequestId, Route(rag, hasRequestId)
        PROVE  HeadCoversCalls'
    <3>1. /\ reply'.required = Approval(query)
          /\ reply'.says = Approval(query)
          /\ reply'.calls = Calls(query)
      BY <2>1 DEF Route
    <3> QED
      BY <3>1, CenterCalls DEF HeadCoversCalls
  <2>2. ASSUME NEW surface, NEW answer, Covered(answer), LegacyAnswer(surface, answer)
        PROVE  HeadCoversCalls'
    <3>1. /\ reply'.required = (answer.status # "not_required")
          /\ reply'.says = (answer.says = "required")
          /\ reply'.calls = answer.calls
      BY <2>2 DEF LegacyAnswer
    <3> QED
      BY <2>2, <3>1 DEF HeadCoversCalls, Covered
  <2>3. ASSUME AskChat PROVE HeadCoversCalls'
    <3>1. /\ reply'.required = ChatRequires(query)
          /\ reply'.says = ChatRequires(query)
          /\ reply'.calls = {}
      BY <2>3 DEF AskChat
    <3> QED
      BY <3>1 DEF HeadCoversCalls
  <2> QED
    BY <1>2, <2>1, <2>2, <2>3, FirstAnswer
<1> QED
  BY <1>1, <1>2

\* Whatever is answered, the head covers the advice.
LEMMA AdviceStep ==
    ASSUME AdviceNeedsHead, [Next]_vars
    PROVE  AdviceNeedsHead'
<1>1. CASE UNCHANGED vars
  BY <1>1 DEF vars, AdviceNeedsHead
<1>2. CASE Next
  <2>1. ASSUME NEW rag, NEW hasRequestId, Route(rag, hasRequestId)
        PROVE  AdviceNeedsHead'
    <3>1. /\ reply'.required = Approval(query)
          /\ reply'.of = "command_center"
          /\ reply'.advice = GatedAdvice(query)
          /\ reply'.downstream = Downstream(Intent(query))
      BY <2>1 DEF Route
    <3>2. query' = query
      BY <1>2 DEF Next
    <3> QED
      BY <3>1, <3>2, CenterAdvice DEF AdviceNeedsHead
  <2>2. ASSUME NEW surface, NEW answer, surface # "command_center", Covered(answer),
               LegacyAnswer(surface, answer)
        PROVE  AdviceNeedsHead'
    <3>1. /\ reply'.required = (answer.status # "not_required")
          /\ reply'.of = surface
          /\ reply'.advice = answer.advice
      BY <2>2 DEF LegacyAnswer
    <3> QED
      BY <2>2, <3>1 DEF AdviceNeedsHead, Covered
  <2>3. ASSUME AskChat PROVE AdviceNeedsHead'
    <3>1. reply'.of = "chat" /\ reply'.advice = {}
      BY <2>3 DEF AskChat
    <3> QED
      BY <3>1 DEF AdviceNeedsHead
  <2> QED
    BY <1>2, <2>1, <2>2, <2>3, FirstAnswer
<1> QED
  BY <1>1, <1>2

\* Whatever is answered, policy and dispatch agree on it.
LEMMA PolicyStep ==
    ASSUME PolicyMatchesDispatch, [Next]_vars
    PROVE  PolicyMatchesDispatch'
<1>1. CASE UNCHANGED vars
  BY <1>1 DEF vars, PolicyMatchesDispatch
<1>2. CASE Next
  <2>1. ASSUME NEW rag, NEW hasRequestId, Route(rag, hasRequestId)
        PROVE  PolicyMatchesDispatch'
    <3> DEFINE call == [tool |-> ToolOf[Workflow(query)], approval_required |-> DispatchFlags(query)]
    <3>1. reply'.calls = Calls(query) /\ query' = query
      BY <1>2, <2>1 DEF Route, Next
    <3>2. call \in Calls(query)
      BY DEF Calls
    <3>3. call.tool = ToolOf[Workflow(query)] /\ call.approval_required = DispatchFlags(query)
      OBVIOUS
    <3>4. ASSUME NEW c \in Calls(query), c.tool \in MarkedTools, c.approval_required
          PROVE  DispatchFlags(query)
      BY <3>4 DEF Calls, MarkedTools
    <3> QED
      BY <3>1, <3>2, <3>3, <3>4, MarkersMatch DEF PolicyMatchesDispatch
  <2>2. ASSUME NEW surface, NEW answer, surface # "command_center",
               LegacyAnswer(surface, answer)
        PROVE  PolicyMatchesDispatch'
    <3>1. reply'.of = surface
      BY <2>2 DEF LegacyAnswer
    <3> QED
      BY <2>2, <3>1 DEF PolicyMatchesDispatch
  <2>3. ASSUME AskChat PROVE PolicyMatchesDispatch'
    <3>1. reply'.of = "chat"
      BY <2>3 DEF AskChat
    <3> QED
      BY <3>1 DEF PolicyMatchesDispatch
  <2> QED
    BY <1>2, <2>1, <2>2, <2>3, FirstAnswer
<1> QED
  BY <1>1, <1>2

\* Whatever is answered, its evidence is of the caller.
LEMMA EvidenceStep ==
    ASSUME EvidenceScoped, [Next]_vars
    PROVE  EvidenceScoped'
<1>1. CASE UNCHANGED vars
  BY <1>1 DEF vars, EvidenceScoped
<1>2. CASE Next
  <2>1. ASSUME NEW rag, NEW hasRequestId, Route(rag, hasRequestId)
        PROVE  EvidenceScoped'
    <3> DEFINE tenant == TenantOf(hasRequestId)
    <3>1. /\ reply'.tenant = tenant /\ reply'.rag = rag
          /\ reply'.citations = Citations(rag, tenant)
      BY <2>1 DEF Route
    <3>2. tenant \in {"body_tenant", "header_tenant"}
      BY DEF TenantOf
    <3>3. CASE rag \cap {"error", "broken"} # {} \/ Readable(rag, tenant) = {}
      <4>1. Citations(rag, tenant) = {"fallback"}
        BY <3>3 DEF Citations
      <4>2. rag \cap {"error", "broken"} = {} => rag \cap {tenant, "untagged"} = {}
        BY <3>3 DEF Readable
      <4> QED
        BY <3>1, <4>1, <4>2 DEF EvidenceScoped
    <3>4. CASE ~(rag \cap {"error", "broken"} # {} \/ Readable(rag, tenant) = {})
      <4>1. Citations(rag, tenant) = rag \cap {tenant, "untagged"}
        BY <3>4 DEF Citations, Readable
      <4>2. rag \cap {tenant, "untagged"} # {}
        BY <3>4 DEF Readable
      <4> QED
        BY <3>1, <3>2, <4>1, <4>2 DEF EvidenceScoped
    <3> QED
      BY <3>3, <3>4
  <2>2. ASSUME NEW surface, NEW answer, surface # "command_center",
               LegacyAnswer(surface, answer)
        PROVE  EvidenceScoped'
    <3>1. reply'.of = surface
      BY <2>2 DEF LegacyAnswer
    <3> QED
      BY <2>2, <3>1 DEF EvidenceScoped
  <2>3. ASSUME AskChat PROVE EvidenceScoped'
    <3>1. reply'.of = "chat"
      BY <2>3 DEF AskChat
    <3> QED
      BY <3>1 DEF EvidenceScoped
  <2> QED
    BY <1>2, <2>1, <2>2, <2>3, FirstAnswer
<1> QED
  BY <1>1, <1>2

\* The phrase of a change of the setup holds the shorter word of the lists.
Held == Closed(query) /\ SetupChangeIsHeld

\* Whatever is answered, a change of the setup is held.
LEMMA SetupStep ==
    ASSUME Held, [Next]_vars
    PROVE  Held'
<1>1. CASE UNCHANGED vars
  BY <1>1 DEF vars, Held, Closed, SetupChangeIsHeld
<1>2. CASE Next
  <2>1. query' = query /\ Closed(query)'
    BY <1>2 DEF Next, Held, Closed
  <2>2. "cambiar setup" \in query => "setup" \in query
    <3>1. <<"cambiar setup", "setup">> \in Contained
      BY DEF Contained
    <3> QED
      BY <3>1 DEF Held, Closed
  <2>3. "setup" \in query => Approval(query) /\ NeedsApproval(query)
    BY DEF Approval, RequiresApproval, Has, NeedsApproval, RequiresHuman
  <2>4. "cambiar setup" \in query => ChatRequires(query)
    BY DEF ChatRequires, Has
  <2>5. ASSUME NEW rag, NEW hasRequestId, Route(rag, hasRequestId)
        PROVE  SetupChangeIsHeld'
    <3>1. reply'.required = Approval(query)
      BY <2>5 DEF Route
    <3> QED
      BY <3>1, <2>1, <2>2, <2>3 DEF SetupChangeIsHeld
  <2>6. ASSUME AskChat PROVE SetupChangeIsHeld'
    <3>1. reply'.required = ChatRequires(query)
      BY <2>6 DEF AskChat
    <3> QED
      BY <3>1, <2>1, <2>4 DEF SetupChangeIsHeld
  <2>7. ASSUME NEW surface, NEW answer, LegacyAnswer(surface, answer),
               surface \in {"legacy", "legacy_command_center"} =>
                   answer.status = LegacyChat(query).status,
               surface \notin {"command_center", "chat"}
        PROVE  SetupChangeIsHeld'
    <3>1. reply'.required = (answer.status # "not_required") /\ reply'.of = surface
      BY <2>7 DEF LegacyAnswer
    <3>2. NeedsApproval(query) => LegacyChat(query).status = "required"
      BY DEF LegacyChat
    <3> QED
      BY <2>7, <3>1, <3>2, <2>1, <2>2, <2>3 DEF SetupChangeIsHeld
  <2>8. LegacyCommandCenter(query).status = LegacyChat(query).status
    BY DEF LegacyCommandCenter, LegacyChat
  <2>9. SetupChangeIsHeld'
    BY <1>2, <2>5, <2>6, <2>7, <2>8 DEF Next
  <2> QED
    BY <2>1, <2>9 DEF Held
<1> QED
  BY <1>1, <1>2

-----------------------------------------------------------------------------
(* Theorems                                                                 *)

\* Before the first question nothing is answered.
LEMMA NothingSaid ==
    ASSUME Init
    PROVE  /\ HeadCoversCalls /\ AdviceNeedsHead /\ PolicyMatchesDispatch
           /\ EvidenceScoped /\ Held
<1>1. Closed(query)
  BY DEF Init, Queries
<1> QED
  BY <1>1 DEF Init, HeadCoversCalls, AdviceNeedsHead, PolicyMatchesDispatch, EvidenceScoped,
              Held, SetupChangeIsHeld

\* At every surface a call that needs approval makes the answer need it, whatever
\* the question's words are.
THEOREM HeadCovers == Spec => []HeadCoversCalls
  BY NothingSaid, HeadStep, PTL DEF Spec

\* So does advice, but for the two words of the command centre.
THEOREM AdviceIsHeld == Spec => []AdviceNeedsHead
  BY NothingSaid, AdviceStep, PTL DEF Spec

\* The policy's markers and the dispatcher's flags never disagree.
THEOREM PolicyAgrees == Spec => []PolicyMatchesDispatch
  BY NothingSaid, PolicyStep, PTL DEF Spec

\* One approval state in all parts of an answer, at every surface.
THEOREM StateAgrees == Spec => []ApprovalStateAgrees
  BY HeadCovers, AdviceIsHeld, PolicyAgrees, PTL DEF ApprovalStateAgrees

\* No surface lets the phrase for a change of the setup pass.
THEOREM SetupIsHeld == Spec => []SetupChangeIsHeld
<1>1. Held => SetupChangeIsHeld
  BY DEF Held
<1> QED
  BY <1>1, NothingSaid, SetupStep, PTL DEF Spec

\* Citations are the tenant's, nobody's, or the one fallback.
THEOREM EvidenceIsScoped == Spec => []EvidenceScoped
  BY NothingSaid, EvidenceStep, PTL DEF Spec
=============================================================================
