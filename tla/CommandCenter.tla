--------------------------- MODULE CommandCenter ---------------------------
(***************************************************************************)
(* What the command centre makes of a query: its intent, the agent it      *)
(* dispatches to, whether it needs approval, and the evidence it cites     *)
(* (services/command_center_service.py, agent_dispatch_service.py,         *)
(* knowledge_service.py, guardrails/safety_policy.py).                     *)
(*                                                                         *)
(* A query is the set of the listed words that its lower-case text         *)
(* contains; the order of the tests below is the code's.                   *)
(***************************************************************************)
EXTENDS FiniteSets

Has(query, words) == query \cap words # {}

Intent(query) ==
    IF Has(query, {"setup", "wing", "suspension", "brake", "tire pressure", "balance"})
    THEN "setup_recommendation"
    ELSE IF Has(query, {"part", "component", "design", "cooling"}) THEN "part_design"
    ELSE IF Has(query, {"telemetry", "degradation", "lap", "delta", "stint"}) THEN "telemetry"
    ELSE "command_center_chat"

RequiresApproval(query) ==
    Has(query, {"setup", "wing", "suspension", "brake", "part design", "increase", "decrease"})

\* The dispatcher; telemetry is also what is left.
Workflow(query) ==
    IF Has(query, {"setup", "wing", "suspension", "rebound", "damper"}) THEN "setup"
    ELSE IF Has(query, {"part", "component", "cooling", "brake", "design"}) THEN "parts"
    ELSE IF Has(query, {"simulate", "simulation", "forecast", "predict"}) THEN "simulation"
    ELSE IF Has(query, {"report", "summary", "crew chief", "brief"}) THEN "reporting"
    ELSE "telemetry"

ToolOf == [setup |-> "setup.recommend", parts |-> "parts.cad_review",
           simulation |-> "simulation.run", reporting |-> "reporting.session_summary",
           telemetry |-> "telemetry.compare"]

DispatchFlags(query) == Workflow(query) \in {"setup", "parts", "simulation"}

\* The tools of the dispatcher whose name has one of CRITICAL_TOOL_MARKERS in it.
MarkedTools == {"setup.recommend", "parts.cad_review", "simulation.run"}

\* check_tool_call: nothing is granted here.
Blocked(query) == DispatchFlags(query) \/ ToolOf[Workflow(query)] \in MarkedTools

\* Mutant: the plan of the dispatcher is not asked.
ApprovalByQuery(query) == RequiresApproval(query)

Approval(query) == RequiresApproval(query) \/ Blocked(query)

Downstream(intent) ==
    CASE intent = "setup_recommendation"
            -> {"telemetry.compare", "orchestrator.request_human_approval"}
      [] intent = "part_design" -> {"rag_cag.retrieve", "orchestrator.request_human_approval"}
      [] intent = "telemetry" -> {"telemetry.fetch", "reporting.session_summary"}
      [] OTHER -> {"rag_cag.retrieve", "reporting.session_summary"}

\* The recommendations that say they need approval.
GatedAdvice(query) ==
    (CASE Intent(query) = "setup_recommendation" -> {"setup_change"}
       [] Intent(query) = "part_design" -> {"part_design"}
       [] OTHER -> {})
    \cup (IF Approval(query) THEN {"approval_gate"} ELSE {})

Calls(query) ==
    {[tool |-> "race_command_center.context.read", approval_required |-> FALSE],
     [tool |-> "rag_cag.retrieve", approval_required |-> FALSE],
     [tool |-> "agent_orchestrator.plan", approval_required |-> Approval(query)],
     [tool |-> "mcp_gateway.dispatch", approval_required |-> Approval(query)]}
    \cup {[tool |-> ToolOf[Workflow(query)], approval_required |-> DispatchFlags(query)]}

-----------------------------------------------------------------------------
(* Evidence *)

\* A source is known by the tenant it names, if it names one; two more kinds are
\* no dictionary at all, and one with a field that cannot be converted.
Readable(sources, tenant) == sources \cap {tenant, "untagged"}

\* Mutant: the tenant of a source is not compared.
CitationsOfAll(rag, tenant) ==
    IF rag \cap {"error", "broken"} # {} \/ rag \subseteq {"scalar"} THEN {"fallback"}
    ELSE rag \ {"scalar"}

\* An error, one broken source or nothing to cite makes the fallback the only
\* citation.
Citations(rag, tenant) ==
    IF rag \cap {"error", "broken"} # {} \/ Readable(rag, tenant) = {} THEN {"fallback"}
    ELSE Readable(rag, tenant)

\* The context of the body is taken only if it has a request id.
TenantOf(hasRequestId) == IF hasRequestId THEN "body_tenant" ELSE "header_tenant"
=============================================================================
