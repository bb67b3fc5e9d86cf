--------------------------- MODULE LegacySurface ---------------------------
(***************************************************************************)
(* The endpoints of the prototype (services/legacy_surface_service.py).    *)
(* They propose and never run a tool; a message is the set of the listed   *)
(* words it contains, as for the command centre; "(o)" stands for an o     *)
(* with an accent.                                                         *)
(***************************************************************************)
LOCAL Mentions(message, words) == message \cap words # {}

Approved == "orchestrator.approval"
LegacyIntent(name, tools, gated) == [name |-> name, tools |-> tools, approval_required |-> gated]

ClassifyLegacy(m) ==
    IF Mentions(m, {"pieza", "disen", "refrigeraci", "freno"})
    THEN LegacyIntent("part_design", {"rag.query", "skills.part_design", Approved}, TRUE)
    ELSE IF Mentions(m, {"patron", "similar", "sesiones anteriores", "spin"})
    THEN LegacyIntent("pattern_discovery", {"patterns.search", "rag.query"}, FALSE)
    ELSE IF Mentions(m, {"informe", "pre-gp", "pregp", "crew chief", "anomal"})
    THEN LegacyIntent("crew_chief_report",
                      {"telemetry.analyze", "rag.query", "reports.generate"}, FALSE)
    ELSE IF Mentions(m, {"setup", "rebote", "click", "neum", "degrad", "clasificaci"})
    THEN LegacyIntent("setup_recommendation",
                      {"rag.query", "telemetry.analyze", Approved}, TRUE)
    ELSE IF Mentions(m, {"fp1", "fp2", "telemet", "curva", "mapa motor", "tanda"})
    THEN LegacyIntent("telemetry_analysis", {"telemetry.compare", "rag.query"}, FALSE)
    ELSE IF Mentions(m, {"adr", "arquitectura", "kafka", "redpanda"})
    THEN LegacyIntent("documentation", {"rag.query", "documentation.generate"}, FALSE)
    ELSE LegacyIntent("general_race_copilot", {"rag.query"}, FALSE)

\* Mutant: a setup is left to the classifier.
RequiresHumanByPlace(m) ==
    Mentions(m, {"rebote", "suspensi(o)n", "mapa motor", "despliegue", "kubernetes", "github",
            "producci(o)n"})

RequiresHuman(m) ==
    Mentions(m, {"setup", "rebote", "suspensi(o)n", "brake bias", "mapa motor", "despliegue",
            "kubernetes", "github", "producci(o)n"})

NeedsApproval(m) == ClassifyLegacy(m).approval_required \/ RequiresHuman(m)

Proposed(tool, gated) == [tool |-> tool, status |-> "proposed", approval_required |-> gated]

LegacyAdvice(m) ==
    CASE ClassifyLegacy(m).name = "setup_recommendation" -> {"setup_change"}
      [] ClassifyLegacy(m).name = "part_design" -> {"part_design"}
      [] OTHER -> {}

\* approval_status, what the message says of it, the calls and the advice that
\* needs approval.
LegacyChat(m) ==
    [status |-> IF NeedsApproval(m) THEN "required" ELSE "not_required",
     says |-> IF RequiresHuman(m) THEN "required" ELSE "not_required",
     calls |-> {Proposed(t, NeedsApproval(m) /\ t = Approved) : t \in ClassifyLegacy(m).tools},
     advice |-> LegacyAdvice(m)]

\* The plan asks the intent and not the words of approval.
LegacyCommandCenter(m) ==
    [LegacyChat(m) EXCEPT !.calls = @ \cup
        {Proposed("race_command_center.context.read", FALSE),
         Proposed("rag_cag.retrieve", FALSE), Proposed("mcp_gateway.dispatch", FALSE),
         Proposed("agent_orchestrator.plan", ClassifyLegacy(m).approval_required)}]

LegacyTool(execute, hasToken) ==
    LET blocked == execute /\ ~hasToken IN
    [status |-> IF blocked THEN "blocked" ELSE "not_required",
     says |-> "not_required", advice |-> {},
     calls |-> {[tool |-> "asked", status |-> IF blocked THEN "blocked" ELSE "proposed",
                 approval_required |-> blocked]}]

LegacySetup ==
    [status |-> "required", says |-> "not_required", advice |-> {"setup_change"},
     calls |-> {Proposed("telemetry.compare", FALSE),
                Proposed("orchestrator.request_human_approval", TRUE)}]

\* Analyses and reports propose the one tool they are named for.
LegacyReport(tool) ==
    [status |-> "not_required", says |-> "not_required", advice |-> {},
     calls |-> {Proposed(tool, FALSE)}]
LegacyReports == {"telemetry.compare", "telemetry.analyze", "patterns.search",
                  "reports.crew_chief.generate"}
=============================================================================
