------------------------------ MODULE Surfaces ------------------------------
(***************************************************************************)
(* One question, put to any of the surfaces that answer it with proposals: *)
(* the command centre, the legacy endpoints and the chat's approval guard. *)
(* Each has its own list of the words that need a crew chief, and none has *)
(* any state: the question stays, and the answers to it are compared.      *)
(***************************************************************************)
EXTENDS Naturals, CommandCenter, LegacySurface

CONSTANTS
    Words,          \* the words of the questions
    MaxWords,       \* bound on how many of them are in one
    Sources,        \* what retrieval may come back with, by kind
    NoReply

ASSUME WordsAssumption == IsFiniteSet(Words) /\ MaxWords \in Nat
ASSUME SourcesAssumption ==
    Sources \subseteq {"body_tenant", "header_tenant", "untagged", "scalar", "broken"}

VARIABLES query, reply

vars == <<query, reply>>

\* A text that has a longer word in it has the shorter one too.
Contained == {<<"cambiar setup", "setup">>, <<"part design", "part">>,
              <<"part design", "design">>, <<"brake bias", "brake">>,
              <<"telemetry", "telemet">>, <<"degradation", "degrad">>}
Closed(q) == \A c \in Contained : c[1] \in q => c[2] \in q
Queries == {q \in {{}} \cup {{f[n] : n \in 1 .. MaxWords} : f \in [1 .. MaxWords -> Words]} :
               Closed(q)}

\* An error, or up to two kinds of source.
RagResults == {{}, {"error"}} \cup {{a, b} : a, b \in Sources}

\* The chat's ApprovalGuard on the message alone.
ChatRequires(q) ==
    Has(q, {"mapping", "tire pressure", "suspension", "traction control", "apply", "approve",
            "cambiar setup"})

Route(rag, hasRequestId) ==
    LET tenant == TenantOf(hasRequestId) IN
    reply' = [of |-> "command_center", required |-> Approval(query),
              says |-> Approval(query),
              calls |-> Calls(query), advice |-> GatedAdvice(query),
              downstream |-> Downstream(Intent(query)),
              tenant |-> tenant, rag |-> rag, citations |-> Citations(rag, tenant)]

LegacyAnswer(surface, answer) ==
    reply' = [of |-> surface, required |-> answer.status # "not_required",
              says |-> answer.says = "required",
              calls |-> answer.calls, advice |-> answer.advice]

AskChat == reply' = [of |-> "chat", required |-> ChatRequires(query),
                     says |-> ChatRequires(query), calls |-> {}, advice |-> {}]

Init == query \in Queries /\ reply = NoReply

Next ==
    /\ \/ \E rag \in RagResults, hasRequestId \in BOOLEAN : Route(rag, hasRequestId)
       \/ LegacyAnswer("legacy", LegacyChat(query))
       \/ LegacyAnswer("legacy_command_center", LegacyCommandCenter(query))
       \/ \E execute, hasToken \in BOOLEAN :
             LegacyAnswer("legacy_tool", LegacyTool(execute, hasToken))
       \/ LegacyAnswer("legacy_setup", LegacySetup)
       \/ \E tool \in LegacyReports : LegacyAnswer("legacy_report", LegacyReport(tool))
       \/ AskChat
    /\ reply = NoReply
    /\ UNCHANGED query

Spec == Init /\ [][Next]_vars

-----------------------------------------------------------------------------
(* Properties *)

\* Nobody who reads the head of an answer misses a call in it: one that needs
\* approval makes the answer need it, at every surface, and so does a text that
\* says so.
HeadCoversCalls ==
    reply # NoReply =>
        /\ (\E c \in reply.calls : c.approval_required) => reply.required
        /\ reply.says => reply.required

\* Advice that needs approval makes the answer need it, and so does a downstream
\* request for a human's approval: except at the command centre, for questions of
\* tire pressure or balance that say nothing else of the car.  There the list of
\* the intents has words that the list of approvals has not.
AdviceNeedsHead ==
    reply # NoReply =>
        \/ reply.required
        \/ /\ reply.advice = {}
           /\ reply.of = "command_center"
              => "orchestrator.request_human_approval" \notin reply.downstream
        \/ reply.of = "command_center" /\ Has(query, {"tire pressure", "balance"})

\* The two ways to tell that a tool is critical agree, of which one is a list of
\* workflows and the other a list of markers in names: the safety policy blocks
\* what the dispatcher flags, and nothing that it does not.
PolicyMatchesDispatch ==
    (reply # NoReply /\ reply.of = "command_center") =>
        /\ ToolOf[Workflow(query)] \in MarkedTools <=> DispatchFlags(query)
        /\ DispatchFlags(query) <=> \E c \in reply.calls :
               c.tool \in MarkedTools /\ c.approval_required

\* One approval state in all parts of an answer, at every surface: calls, text,
\* advice and downstream requests do not outdo the head, and the two lists of
\* critical tools are one.
ApprovalStateAgrees == HeadCoversCalls /\ AdviceNeedsHead /\ PolicyMatchesDispatch

\* No surface lets a change of the setup pass, whatever else the question says and
\* whatever intent that makes it: the one phrase that all the lists are about.
SetupChangeIsHeld ==
    (reply # NoReply /\ "cambiar setup" \in query
       /\ reply.of \in {"command_center", "legacy", "legacy_command_center", "chat"})
    => reply.required

\* Evidence is the tenant's that the answer is for or nobody's, the fallback is
\* never beside a source, and a source is lost only when retrieval fails or
\* another source cannot be read.
EvidenceScoped ==
    (reply # NoReply /\ reply.of = "command_center") =>
        /\ reply.citations # {}
        /\ reply.citations \subseteq {reply.tenant, "untagged", "fallback"}
        /\ "fallback" \in reply.citations => reply.citations = {"fallback"}
        /\ reply.rag \cap {"error", "broken"} = {} =>
              reply.rag \cap {reply.tenant, "untagged"} \subseteq reply.citations
=============================================================================
