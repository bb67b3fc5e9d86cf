----------------------------- MODULE Ticketing -----------------------------
(***************************************************************************)
(* The services over a list of tickets: the smart queue                    *)
(* (services/smart_queue_service.py), the war room                         *)
(* (services/sla_war_room_service.py), the ticket copilot                  *)
(* (services/ticket_copilot_service.py) and the statistics                 *)
(* (services/observability_service.py).                                    *)
(*                                                                         *)
(* None of them keeps anything: a call answers for the tickets it is sent. *)
(* The tickets are the ticket system's.  They age, their timers run and    *)
(* they are worked on between the calls, which is when the four services,  *)
(* each with its own classifier and its own table of advice, are compared. *)
(***************************************************************************)
EXTENDS Integers, FiniteSets, Sequences

CONSTANTS
    Size,           \* how many tickets a request lists
    NewTickets,     \* the tickets a behaviour may begin with
    Tenants,        \* the tenants that ask
    NoTenant, NoTimer, NoReply,
    Approvals,      \* the approval events of a tenant, counted by kind
    Hours           \* bound on the time that passes

ASSUME SizeAssumption == Size \in Nat
ASSUME TimerAssumption == NoTimer \notin Int

VARIABLES tickets, hours, reply

vars == <<tickets, hours, reply>>

\* A ticket is known by its place in the request.
Ids == 1 .. Size

Lifecycles == {"new", "in_progress", "waiting_customer", "waiting_third_party",
               "resolved", "closed"}
Finished(t) == t.lifecycle_state \in {"resolved", "closed"}

\* What a service reads of a request: the tenant's tickets and those of none.
Scoped(tenant) == {i \in Ids : tickets[i].tenant_id \in {NoTenant, tenant}}

Times == Int \cup {NoTimer}
Ticket ==
    [tenant_id : Tenants \cup {NoTenant},
     severity : {"low", "medium", "high", "critical"},
     queue : {"general", "support", "incident", "vip", "backlog"},
     customer_tier : {"standard", "premium", "enterprise"},
     lifecycle_state : Lifecycles,
     age_hours : Nat, sla : Times, blocked : BOOLEAN]

ASSUME TicketsAssumption == NewTickets \subseteq Ticket
ASSUME ApprovalsAssumption == Approvals \subseteq [granted : Nat, open : Nat, spare : Nat]

-----------------------------------------------------------------------------
(* The smart queue *)

Assess(t) ==
    IF Finished(t) THEN "paused"
    ELSE IF t.sla = NoTimer THEN "healthy"
    ELSE IF t.sla < 0 THEN "breached"
    ELSE IF t.sla <= 60 THEN "at_risk" ELSE "healthy"

SeverityWeight == [low |-> 10, medium |-> 20, high |-> 32, critical |-> 44]
TierWeight == [standard |-> 0, premium |-> 6, enterprise |-> 12]
QueueWeight == [general |-> 0, support |-> 6, incident |-> 14, vip |-> 18, backlog |-> -4]
LifecycleWeight == [new |-> 5, in_progress |-> 12, waiting_customer |-> -3,
                    waiting_third_party |-> 2]

SlaWeight == [breached |-> 40, at_risk |-> 22, healthy |-> 4]

\* Mutant: the weight of the age is cut to a day instead of capped.
AgeWeightWrapped(t) == (t.age_hours \div 4) % 16
AgeWeight(t) == IF t.age_hours \div 4 > 15 THEN 15 ELSE t.age_hours \div 4

Score(t) ==
    IF Assess(t) = "paused" THEN -100
    ELSE SeverityWeight[t.severity] + TierWeight[t.customer_tier] + QueueWeight[t.queue]
         + LifecycleWeight[t.lifecycle_state] + AgeWeight(t)
         + (IF t.blocked THEN 8 ELSE 0) + SlaWeight[Assess(t)]

Band(t) ==
    IF Assess(t) = "paused" THEN "paused"
    ELSE IF Score(t) >= 80 THEN "critical"
    ELSE IF Score(t) >= 55 THEN "high"
    ELSE IF Score(t) >= 30 THEN "medium" ELSE "low"

SlaPriority == [breached |-> 3, at_risk |-> 2, healthy |-> 1, paused |-> 0]
SeverityRank == [low |-> 1, medium |-> 2, high |-> 3, critical |-> 4]

\* Mutant: the score decides before the state of the timer.
ScoreFirst(t) == <<Score(t), SlaPriority[Assess(t)], SeverityRank[t.severity], t.age_hours>>
SortKey(t) == <<SlaPriority[Assess(t)], Score(t), SeverityRank[t.severity], t.age_hours>>

Below(k, l) == \E n \in 1 .. 4 : k[n] < l[n] /\ \A m \in 1 .. n - 1 : k[m] = l[m]

\* The sort is stable, and stays so when it is reversed.
Before(i, j) ==
    \/ Below(SortKey(tickets[j]), SortKey(tickets[i]))
    \/ SortKey(tickets[i]) = SortKey(tickets[j]) /\ i < j

RecommendedAction(t) ==
    IF Assess(t) = "breached" THEN "escalate"
    ELSE IF Assess(t) = "at_risk" THEN "handle_next"
    ELSE IF t.lifecycle_state = "waiting_customer" THEN "follow_up"
    ELSE IF t.lifecycle_state = "waiting_third_party" THEN "chase"
    ELSE IF t.lifecycle_state = "new" THEN "triage" ELSE "continue"

Active(tenant) == {i \in Scoped(tenant) : ~Finished(tickets[i])}

\* The best n of the active tickets, best first.
Ranking(tenant, n) ==
    LET place(i) == 1 + Cardinality({j \in Active(tenant) : Before(j, i)})
        shown == {i \in Active(tenant) : place(i) <= n}
    IN  [k \in 1 .. Cardinality(shown) |-> CHOOSE i \in shown : place(i) = k]

SmartQueue(tenant, max_items) ==
    /\ reply' = [of |-> "queue", tenant |-> tenant,
                 ranked |-> Ranking(tenant, max_items),
                 active |-> Cardinality(Active(tenant))]
    /\ UNCHANGED <<tickets, hours>>

-----------------------------------------------------------------------------
(* The war room *)

\* Mutant: the hour before the end of the timer begins a minute later.
StatusForShortHour(t) ==
    CASE Finished(t) -> "paused"
      [] ~Finished(t) /\ t.sla = NoTimer -> "healthy"
      [] ~Finished(t) /\ t.sla # NoTimer /\ t.sla < 0 -> "breached"
      [] ~Finished(t) /\ t.sla # NoTimer /\ t.sla \in 0 .. 59 -> "at_risk"
      [] OTHER -> "healthy"

StatusFor(t) ==
    CASE Finished(t) -> "paused"
      [] ~Finished(t) /\ t.sla = NoTimer -> "healthy"
      [] ~Finished(t) /\ t.sla # NoTimer /\ t.sla < 0 -> "breached"
      [] ~Finished(t) /\ t.sla # NoTimer /\ t.sla \in 0 .. 60 -> "at_risk"
      [] OTHER -> "healthy"

\* Everything else, finished tickets too, is in the healthy cohort.
Cohorts(tenant) ==
    LET with(s) == {i \in Scoped(tenant) : StatusFor(tickets[i]) = s}
    IN  [breached |-> with("breached"), at_risk |-> with("at_risk"),
         healthy |-> Scoped(tenant) \ (with("breached") \cup with("at_risk"))]

WarRoom(tenant) ==
    LET c == Cohorts(tenant) IN
    /\ reply' = [of |-> "war_room", tenant |-> tenant, cohorts |-> c,
                 escalation_needed |-> c.breached # {} \/ c.at_risk # {}]
    /\ UNCHANGED <<tickets, hours>>

-----------------------------------------------------------------------------
(* The ticket copilot *)

NextActions(t) ==
    (IF Assess(t) = "breached" THEN {"escalate"}
     ELSE IF Assess(t) = "at_risk" THEN {"prioritize"} ELSE {})
    \cup (IF t.lifecycle_state = "waiting_customer" THEN {"request_details", "remind"}
          ELSE IF t.lifecycle_state = "waiting_third_party" THEN {"chase"}
          ELSE IF t.lifecycle_state = "new" THEN {"assign"} ELSE {"diagnose"})
    \cup (IF t.severity \in {"high", "critical"} THEN {"senior_agent"} ELSE {})

EscalationHints(t) ==
    (IF Assess(t) = "breached" THEN {"escalate", "notify_commander"}
     ELSE IF Assess(t) = "at_risk" THEN {"warn_assignee", "prepare"} ELSE {})
    \cup (IF t.severity = "critical" /\ Assess(t) # "paused" THEN {"senior_reviewer"} ELSE {})

\* A ticket of another tenant is summarised as the caller's.
Copilot(tenant, i) ==
    LET t == [tickets[i] EXCEPT !.tenant_id = IF @ = NoTenant THEN @ ELSE tenant] IN
    /\ reply' = [of |-> "copilot", ticket |-> i, sla_status |-> Assess(t),
                 queue_band |-> Band(t), actions |-> NextActions(t),
                 hints |-> EscalationHints(t)]
    /\ UNCHANGED <<tickets, hours>>

-----------------------------------------------------------------------------
(* The statistics *)

SlaStatusOf(t) ==
    IF Finished(t) THEN "paused"
    ELSE IF t.sla = NoTimer \/ t.sla > 60 THEN "healthy"
    ELSE IF t.sla < 0 THEN "breached" ELSE "at_risk"

\* round(n / d, 2) in hundredths; no half is met with the bounds.
Hundredths(n, d) == (200 * n + d) \div (2 * d)

Health(tenant) ==
    LET count(s) == Cardinality({i \in Scoped(tenant) : SlaStatusOf(tickets[i]) = s})
        total == Cardinality(Scoped(tenant))
    IN  [total |-> total, healthy |-> count("healthy"), at_risk |-> count("at_risk"),
         breached |-> count("breached"),
         health_score |-> IF total = 0 THEN 100
                          ELSE Hundredths(2 * count("healthy") + count("at_risk"), 2 * total)]

SlaSignals(h) ==
    (IF h.breached > 0 THEN {"sla_breach"} ELSE {})
    \cup (IF h.at_risk > 0 THEN {"sla_risk"} ELSE {})
    \cup (IF h.breached + h.at_risk = 0 THEN {"sla_health"} ELSE {})

SlaHealth(tenant) ==
    /\ reply' = [of |-> "health", tenant |-> tenant, metrics |-> Health(tenant),
                 signals |-> SlaSignals(Health(tenant))]
    /\ UNCHANGED <<tickets, hours>>

\* Of the approval events a.granted are required and granted, a.open are
\* required and not, and a.spare are granted without having been required.
\* Mutant: a grant that nobody required is set against the required ones.
ApprovalMetricsOfAll(a) ==
    LET required == a.granted + a.open
        blocked == required - (a.granted + a.spare)
    IN  [required |-> required, blocked |-> blocked,
         blocked_rate |-> IF required = 0 THEN 0 ELSE Hundredths(blocked, required)]

ApprovalMetrics(a) ==
    LET required == a.granted + a.open
    IN  [required |-> required, blocked |-> a.open,
         blocked_rate |-> IF required = 0 THEN 0 ELSE Hundredths(a.open, required)]

ApprovalReport(a) ==
    LET m == ApprovalMetrics(a) IN
    /\ reply' = [of |-> "approvals", events |-> a, metrics |-> m,
                 blockage |-> m.blocked_rate > 0,     \* the signal
                 review |-> m.blocked # 0]            \* the recommendation
    /\ UNCHANGED <<tickets, hours>>

\* The three reports combined, of which any may be missing something to say.
ImprovementReport(tenant, grounded, a) ==
    LET signals == (IF Health(tenant).health_score < 80 THEN {"sla_health"} ELSE {})
                   \cup (IF ~grounded THEN {"groundedness"} ELSE {})
                   \cup (IF ApprovalMetrics(a).blocked_rate > 0 THEN {"approvals"} ELSE {})
    IN  /\ reply' = [of |-> "improvement", tenant |-> tenant, events |-> a,
                     signals |-> IF signals = {} THEN {"improvement"} ELSE signals]
        /\ UNCHANGED <<tickets, hours>>

-----------------------------------------------------------------------------
(* The ticket system *)

\* An hour: ages grow and timers run.
Hour ==
    /\ hours < Hours
    /\ hours' = hours + 1
    /\ tickets' = [i \in Ids |->
           [tickets[i] EXCEPT !.age_hours = @ + 1,
                              !.sla = IF @ = NoTimer THEN @ ELSE @ - 60]]
    /\ reply' = NoReply

\* A ticket moves on.
Work(i) ==
    /\ ~Finished(tickets[i])
    /\ \E s \in Lifecycles : tickets' = [tickets EXCEPT ![i].lifecycle_state = s]
    /\ reply' = NoReply
    /\ UNCHANGED hours

-----------------------------------------------------------------------------

Init ==
    /\ tickets \in [Ids -> NewTickets]
    /\ hours = 0
    /\ reply = NoReply

Next ==
    \/ \E tenant \in Tenants :
          \/ \E n \in Ids : SmartQueue(tenant, n)
          \/ WarRoom(tenant)
          \/ SlaHealth(tenant)
          \/ \E i \in Ids : Copilot(tenant, i)
    \/ \E a \in Approvals :
          \/ ApprovalReport(a)
          \/ \E tenant \in Tenants, grounded \in BOOLEAN : ImprovementReport(tenant, grounded, a)
    \/ Hour
    \/ \E i \in Ids : Work(i)

Spec == Init /\ [][Next]_vars

-----------------------------------------------------------------------------
(* Properties *)

\* The three classifiers of three files agree: what the war room shows as
\* breached or at risk is what the report counts, and the two count as healthy
\* the same tickets but for the finished ones.
CohortsAgree ==
    (reply # NoReply /\ reply.of = "war_room") =>
        LET h == Health(reply.tenant)
            finished == {i \in Scoped(reply.tenant) : Finished(tickets[i])}
        IN  /\ Cardinality(reply.cohorts.breached) = h.breached
            /\ Cardinality(reply.cohorts.at_risk) = h.at_risk
            /\ Cardinality(reply.cohorts.healthy) = h.healthy + Cardinality(finished)
            /\ reply.escalation_needed <=> "sla_health" \notin SlaSignals(h)

\* The two tables of advice agree: the copilot says to escalate exactly the
\* tickets that the queue says to escalate and the war room shows as breached.
AdviceAgrees ==
    (reply # NoReply /\ reply.of = "copilot") =>
        LET t == tickets[reply.ticket] IN
        /\ "escalate" \in reply.actions <=> RecommendedAction(t) = "escalate"
        /\ "escalate" \in reply.hints <=> StatusFor(t) = "breached"
        /\ "prioritize" \in reply.actions <=> RecommendedAction(t) = "handle_next"

\* Queue, war room, copilot and statistics tell one story of a ticket.
ViewsAgree == CohortsAgree /\ AdviceAgrees

\* No list is so short that it hides a breach: a ticket left out of the queue is
\* in no worse a state than any that is shown, and the breached ones lead.
BreachesLead ==
    (reply # NoReply /\ reply.of = "queue") =>
        LET state(i) == SlaPriority[StatusFor(tickets[i])]
            shown == {reply.ranked[k] : k \in DOMAIN reply.ranked}
        IN  /\ \A i \in Active(reply.tenant) \ shown, j \in shown : state(i) <= state(j)
            /\ \A k \in DOMAIN reply.ranked, l \in DOMAIN reply.ranked :
                  k < l => state(reply.ranked[k]) >= state(reply.ranked[l])

\* A breach never looks minor, whatever lowers its score (the backlog, a customer
\* who has to answer): it is at least of the medium band, and of the high band
\* when the ticket is critical.
BreachIsNeverMinor ==
    (reply # NoReply /\ reply.of = "copilot" /\ reply.sla_status = "breached") =>
        /\ reply.queue_band # "low"
        /\ tickets[reply.ticket].severity = "critical" => reply.queue_band \in {"high", "critical"}

\* Neither the cut of the queue nor the sum of the weights hides a breach.
NoBreachHidden == BreachesLead /\ BreachIsNeverMinor

\* Trouble is heard through the averages.  A blocked approval is signalled by the
\* report, and by the report that combines them, unless more than 200 were
\* required: above that one blocked approval rounds to none.  A breach lowers the
\* health of up to four tickets below what is reported as healthy.
TroubleHeard ==
    /\ (reply # NoReply /\ reply.of = "approvals") =>
          /\ reply.blockage => reply.review
          /\ reply.review /\ reply.metrics.required <= 200 => reply.blockage
    /\ (reply # NoReply /\ reply.of = "improvement") =>
          /\ reply.events.open > 0 /\ reply.events.granted < 200 => "approvals" \in reply.signals
          /\ (\E i \in Scoped(reply.tenant) : StatusFor(tickets[i]) = "breached")
                 /\ Cardinality(Scoped(reply.tenant)) <= 4
             => "sla_health" \in reply.signals

\* The passing of time alone never makes a ticket look better, whatever timers end
\* and whatever weights meet their cap meanwhile: it lowers no ticket's place in the
\* order of the queue, and it raises no tenant's health score.
TimeNeverEases ==
    [][hours' # hours =>
        /\ \A i \in Ids : ~Below(SortKey(tickets'[i]), SortKey(tickets[i]))
        /\ \A tenant \in Tenants :
              Health(tenant)'.health_score <= Health(tenant).health_score]_vars

=============================================================================
