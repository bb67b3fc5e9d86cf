---------------------------- MODULE MCTicketing ----------------------------
(***************************************************************************)
(* Two tickets for TLC.  The first is of every severity, queue and tier at *)
(* the ends of the scales of weights, with or without a timer that passes  *)
(* both of its limits exactly; the second stands for what it is compared   *)
(* with: a foreign one, an old one, and one that breaches later.           *)
(***************************************************************************)
EXTENDS Ticketing

CONSTANTS t1, t2

MCTenants == {t1, t2}

New(tenant, severity, queue, tier, age, sla, blocked) ==
    [tenant_id |-> tenant, severity |-> severity, queue |-> queue,
     customer_tier |-> tier, lifecycle_state |-> "new", age_hours |-> age,
     sla |-> sla, blocked |-> blocked]

\* Ages at which a weight is gained and at which it is capped; timers that reach
\* 60 and 0 exactly, and that pass them.
MCNewTickets ==
    {New(t1, "low", "backlog", "standard", 3, m, FALSE) : m \in {120, 60}}
    \cup {New(t1, "critical", "vip", "standard", 3, m, FALSE) : m \in {120, NoTimer}}
    \cup {New(t2, "high", "general", "enterprise", 62, 59, FALSE),
          New(NoTenant, "medium", "incident", "premium", 59, 121, TRUE)}

\* None, some, a grant nobody required, and the two sides of the rounding.
MCApprovals ==
    {[granted |-> 0, open |-> 0, spare |-> 1], [granted |-> 2, open |-> 1, spare |-> 1],
     [granted |-> 199, open |-> 1, spare |-> 0], [granted |-> 200, open |-> 1, spare |-> 0]}

=============================================================================
