-------------------------- MODULE TicketingProofs --------------------------
(***************************************************************************)
(* What the four services say of the same tickets, for any number of       *)
(* tickets, any ages and timers and any list of approvals.                 *)
(***************************************************************************)
EXTENDS Ticketing, FiniteSetTheorems, TLAPS

\* The tickets are tickets: what ages or is worked on stays one.
Listed == tickets \in [Ids -> Ticket]

-----------------------------------------------------------------------------
(* One ticket *)

\* The classifier that is written three times is one.
LEMMA OneClassifier ==
    ASSUME NEW t \in Ticket
    PROVE  /\ StatusFor(t) = Assess(t) /\ SlaStatusOf(t) = Assess(t)
           /\ Assess(t) \in {"breached", "at_risk", "healthy", "paused"}
           /\ Assess(t) = "paused" <=> Finished(t)
<1>1. t.sla = NoTimer \/ (t.sla # NoTimer /\ t.sla \in Int)
    BY TimerAssumption DEF Ticket, Times
<1>2. StatusFor(t) = Assess(t)
    BY <1>1 DEF StatusFor, Assess
<1> QED
    BY <1>1, <1>2 DEF SlaStatusOf, Assess

\* The weights and their sum are numbers; those of a breached ticket add up.
LEMMA Scores ==
    ASSUME NEW t \in Ticket
    PROVE  /\ Score(t) \in Int /\ AgeWeight(t) \in 0 .. 15
           /\ Assess(t) = "breached" => Score(t) >= 43
           /\ Assess(t) = "breached" /\ t.severity = "critical" => Score(t) >= 77
<1>1. AgeWeight(t) \in 0 .. 15
    BY DEF AgeWeight, Ticket
<1>2. /\ SeverityWeight[t.severity] \in 10 .. 44 /\ TierWeight[t.customer_tier] \in 0 .. 12
      /\ QueueWeight[t.queue] \in -4 .. 18
      /\ t.severity = "critical" => SeverityWeight[t.severity] = 44
    BY DEF Ticket, SeverityWeight, TierWeight, QueueWeight
<1>3. ~Finished(t) => LifecycleWeight[t.lifecycle_state] \in -3 .. 12
    BY DEF Ticket, Lifecycles, Finished, LifecycleWeight
<1>4. Assess(t) # "paused" => SlaWeight[Assess(t)] \in 4 .. 40
    BY OneClassifier DEF SlaWeight
<1>5. Assess(t) = "breached" => SlaWeight[Assess(t)] = 40
    BY DEF SlaWeight
<1>6. Assess(t) = "paused" <=> Finished(t)
    BY OneClassifier
<1>7. CASE Finished(t)
    BY <1>1, <1>6, <1>7 DEF Score
<1>8. CASE ~Finished(t)
    <2> DEFINE a == SeverityWeight[t.severity]
               b == TierWeight[t.customer_tier]
               c == QueueWeight[t.queue]
               d == LifecycleWeight[t.lifecycle_state]
               e == AgeWeight(t)
               f == IF t.blocked THEN 8 ELSE 0
               g == SlaWeight[Assess(t)]
    <2>1. Score(t) = a + b + c + d + e + f + g
        BY <1>6, <1>8 DEF Score
    <2>2. /\ a \in 10 .. 44 /\ b \in 0 .. 12 /\ c \in -4 .. 18 /\ d \in -3 .. 12
          /\ e \in 0 .. 15 /\ f \in 0 .. 8 /\ g \in 4 .. 40
        BY <1>1, <1>2, <1>3, <1>4, <1>6, <1>8
    <2>3. /\ Assess(t) = "breached" => g = 40
          /\ t.severity = "critical" => a = 44
        BY <1>2, <1>5
    <2> HIDE DEF a, b, c, d, e, f, g
    <2> QED
        BY <1>1, <2>1, <2>2, <2>3
<1> QED
    BY <1>7, <1>8

-----------------------------------------------------------------------------
(* The order of the queue *)

Keys == Int \X Int \X Int \X Int

\* The order of two keys, written out.
LEMMA KeyOrder ==
    ASSUME NEW k \in Keys, NEW l \in Keys
    PROVE  Below(k, l) <=>
              \/ k[1] < l[1]
              \/ k[1] = l[1] /\ k[2] < l[2]
              \/ k[1] = l[1] /\ k[2] = l[2] /\ k[3] < l[3]
              \/ k[1] = l[1] /\ k[2] = l[2] /\ k[3] = l[3] /\ k[4] < l[4]
<1>1. ASSUME NEW n \in 1 .. 4
      PROVE  (\A m \in 1 .. n - 1 : k[m] = l[m]) <=>
                /\ n > 1 => k[1] = l[1]
                /\ n > 2 => k[2] = l[2]
                /\ n > 3 => k[3] = l[3]
    <2>1. 1 .. n - 1 = {m \in {1, 2, 3} : m < n}
        OBVIOUS
    <2> QED
        BY <2>1
<1>2. 1 .. 4 = {1, 2, 3, 4}
    OBVIOUS
<1> QED
    BY <1>1, <1>2 DEF Below

LEMMA KeyType ==
    ASSUME NEW t \in Ticket
    PROVE  /\ SortKey(t) \in Keys
           /\ SortKey(t)[1] = SlaPriority[Assess(t)] /\ SortKey(t)[2] = Score(t)
           /\ SortKey(t)[3] = SeverityRank[t.severity] /\ SortKey(t)[4] = t.age_hours
<1>1. SlaPriority[Assess(t)] \in Int
    BY OneClassifier DEF SlaPriority
<1>2. SeverityRank[t.severity] \in Int /\ t.age_hours \in Int
    BY DEF Ticket, SeverityRank
<1> QED
    BY <1>1, <1>2, Scores DEF SortKey, Keys

\* The keys are linearly ordered.
LEMMA KeysAreOrdered ==
    /\ \A k \in Keys : ~Below(k, k)
    /\ \A k, l \in Keys : Below(k, l) \/ Below(l, k) \/ k = l
    /\ \A k, l, m \in Keys : Below(k, l) /\ Below(l, m) => Below(k, m)
<1>1. ASSUME NEW k \in Keys
      PROVE  ~Below(k, k) /\ k[1] \in Int /\ k[2] \in Int /\ k[3] \in Int /\ k[4] \in Int
    <2>1. k[1] \in Int /\ k[2] \in Int /\ k[3] \in Int /\ k[4] \in Int
        BY DEF Keys
    <2> QED
        BY <2>1, KeyOrder
<1>2. ASSUME NEW k \in Keys, NEW l \in Keys
      PROVE  Below(k, l) \/ Below(l, k) \/ k = l
    <2>1. k[1] = l[1] /\ k[2] = l[2] /\ k[3] = l[3] /\ k[4] = l[4] => k = l
        BY DEF Keys
    <2> QED
        BY <1>1, <2>1, KeyOrder
<1>3. ASSUME NEW k \in Keys, NEW l \in Keys, NEW m \in Keys, Below(k, l), Below(l, m)
      PROVE  Below(k, m)
    BY <1>1, <1>3, KeyOrder
<1> QED
    BY <1>1, <1>2, <1>3

\* So are the tickets, places deciding between equal keys; the state leads.
LEMMA TicketsAreOrdered ==
    ASSUME Listed
    PROVE  /\ \A i \in Ids : ~Before(i, i)
           /\ \A i, j \in Ids : Before(i, j) \/ Before(j, i) \/ i = j
           /\ \A i, j, k \in Ids : Before(i, j) /\ Before(j, k) => Before(i, k)
           /\ \A i, j \in Ids : Before(i, j) =>
                 SlaPriority[StatusFor(tickets[j])] <= SlaPriority[StatusFor(tickets[i])]
<1>1. \A i \in Ids : SortKey(tickets[i]) \in Keys /\ i \in Int
    BY KeyType, SizeAssumption DEF Listed, Ids
<1>2. \A i \in Ids : ~Before(i, i)
    BY <1>1, KeysAreOrdered DEF Before
<1>3. \A i, j \in Ids : Before(i, j) \/ Before(j, i) \/ i = j
    BY <1>1, KeysAreOrdered DEF Before
<1>4. ASSUME NEW i \in Ids, NEW j \in Ids, NEW k \in Ids, Before(i, j), Before(j, k)
      PROVE  Before(i, k)
    BY <1>1, <1>4, KeysAreOrdered DEF Before
<1>5. ASSUME NEW i \in Ids, NEW j \in Ids, Before(i, j)
      PROVE  SlaPriority[StatusFor(tickets[j])] <= SlaPriority[StatusFor(tickets[i])]
    <2>1. tickets[i] \in Ticket /\ tickets[j] \in Ticket
        BY DEF Listed
    <2>2. /\ SortKey(tickets[i])[1] = SlaPriority[StatusFor(tickets[i])]
          /\ SortKey(tickets[j])[1] = SlaPriority[StatusFor(tickets[j])]
        BY <2>1, KeyType, OneClassifier
    <2>3. SortKey(tickets[j])[1] <= SortKey(tickets[i])[1]
        <3>1. SortKey(tickets[i])[1] \in Int /\ SortKey(tickets[j])[1] \in Int
            BY <1>1 DEF Keys
        <3>2. CASE Below(SortKey(tickets[j]), SortKey(tickets[i]))
            BY <3>1, <3>2, <1>1, KeyOrder
        <3>3. CASE SortKey(tickets[i]) = SortKey(tickets[j])
            BY <3>1, <3>3
        <3> QED
            BY <1>5, <3>2, <3>3 DEF Before
    <2> QED
        BY <2>2, <2>3
<1> QED
    BY <1>2, <1>3, <1>4, <1>5
-----------------------------------------------------------------------------
(* The list of the queue *)

LEMMA ScopesAreFinite ==
    ASSUME NEW tenant
    PROVE  /\ IsFiniteSet(Scoped(tenant)) /\ Scoped(tenant) \subseteq Ids
           /\ IsFiniteSet(Active(tenant)) /\ Active(tenant) \subseteq Scoped(tenant)
<1>1. IsFiniteSet(Ids)
    BY FS_Interval, SizeAssumption DEF Ids
<1>2. Scoped(tenant) \subseteq Ids /\ Active(tenant) \subseteq Scoped(tenant)
    BY DEF Scoped, Active
<1> QED
    BY <1>1, <1>2, FS_Subset

\* The place of a ticket in the queue, as Ranking has it.
Place(tenant, i) == 1 + Cardinality({j \in Active(tenant) : Before(j, i)})
Shown(tenant, n) == {i \in Active(tenant) : Place(tenant, i) <= n}

\* Places grow in the order and each of them is taken.
LEMMA Places ==
    ASSUME Listed, NEW tenant
    PROVE  /\ \A i \in Active(tenant) : Place(tenant, i) \in 1 .. Cardinality(Active(tenant))
           /\ \A i, j \in Active(tenant) :
                 Before(i, j) => Place(tenant, i) < Place(tenant, j)
           /\ \A k \in 1 .. Cardinality(Active(tenant)) :
                 \E i \in Active(tenant) : Place(tenant, i) = k
<1> DEFINE A == Active(tenant)
           ahead(i) == {j \in A : Before(j, i)}
<1>1. IsFiniteSet(A) /\ A \subseteq Ids /\ Cardinality(A) \in Nat
    BY ScopesAreFinite, FS_CardinalityType
<1> HIDE DEF A
<1>2. \A i : ahead(i) \subseteq A /\ IsFiniteSet(ahead(i)) /\ Cardinality(ahead(i)) \in Nat
    BY <1>1, FS_Subset, FS_CardinalityType
<1>3. \A i : Place(tenant, i) = 1 + Cardinality(ahead(i))
    BY DEF Place, A
<1>4. ASSUME NEW i \in A
      PROVE  Place(tenant, i) \in 1 .. Cardinality(A)
    <2>1. ahead(i) # A
        BY <1>1, TicketsAreOrdered
    <2>2. ahead(i) \in SUBSET A
        BY <1>2
    <2> HIDE DEF ahead
    <2>3. Cardinality(ahead(i)) <= Cardinality(A) /\ Cardinality(ahead(i)) # Cardinality(A)
        BY <1>1, <2>1, <2>2, FS_Subset
    <2> QED
        BY <1>1, <1>2, <1>3, <2>3
<1>5. ASSUME NEW i \in A, NEW j \in A, Before(i, j)
      PROVE  Place(tenant, i) < Place(tenant, j)
    <2>1. ahead(i) \subseteq ahead(j) /\ ahead(i) # ahead(j)
        BY <1>1, <1>5, TicketsAreOrdered
    <2>2. ahead(i) \in SUBSET ahead(j) /\ IsFiniteSet(ahead(j))
        BY <1>2, <2>1
    <2> HIDE DEF ahead
    <2>3. Cardinality(ahead(i)) <= Cardinality(ahead(j))
          /\ Cardinality(ahead(i)) # Cardinality(ahead(j))
        BY <2>1, <2>2, FS_Subset
    <2> QED
        BY <1>2, <1>3, <2>3
<1>6. ASSUME NEW k \in 1 .. Cardinality(A)
      PROVE  \E i \in A : Place(tenant, i) = k
    <2> DEFINE place == [i \in A |-> Place(tenant, i)]
               T == 1 .. Cardinality(A)
    <2>1. place \in [A -> T]
        BY <1>4
    <2>2. \A i, j \in A : place[i] = place[j] => i = j
        BY <1>1, <1>4, <1>5, TicketsAreOrdered
    <2>3. place \in Injection(A, T)
        BY <2>1, <2>2 DEF Injection, IsInjective
    <2>4. IsFiniteSet(T) /\ Cardinality(T) = Cardinality(A)
        BY <1>1, FS_Interval
    <2>5. place \in Surjection(A, T)
        BY <2>3, <2>4, FS_Injection
    <2> QED
        BY <2>5, <1>6 DEF Surjection
<1> QED
    BY <1>4, <1>5, <1>6 DEF A

\* The k-th of the list is the ticket of place k, and no more than n are shown.
LEMMA RankingIsByPlace ==
    ASSUME Listed, NEW tenant, NEW n \in Nat
    PROVE  /\ Ranking(tenant, n) \in [1 .. Cardinality(Shown(tenant, n)) -> Active(tenant)]
           /\ \A k \in 1 .. Cardinality(Shown(tenant, n)) :
                 Place(tenant, Ranking(tenant, n)[k]) = k
           /\ Cardinality(Shown(tenant, n)) \in Nat
<1> DEFINE A == Active(tenant)
           S == Shown(tenant, n)
<1>1. IsFiniteSet(A) /\ S \subseteq A /\ A \subseteq Ids
    BY ScopesAreFinite DEF Shown
<1>2. IsFiniteSet(S) /\ Cardinality(S) \in Nat /\ Cardinality(S) <= Cardinality(A)
      /\ Cardinality(A) \in Nat
    BY <1>1, FS_Subset, FS_CardinalityType
<1>3. Cardinality(S) <= n
    <2> DEFINE place == [i \in S |-> Place(tenant, i)]
               T == 1 .. n
    <2>1. place \in [S -> T]
        BY <1>1, <1>2, Places DEF Shown
    <2>2. \A i, j \in S : place[i] = place[j] => i = j
        BY <1>1, <1>2, Places, TicketsAreOrdered
    <2>3. place \in Injection(S, T)
        BY <2>1, <2>2 DEF Injection, IsInjective
    <2>4. IsFiniteSet(T) /\ Cardinality(T) = n
        BY FS_Interval
    <2> QED
        BY <2>3, <2>4, FS_Injection
<1>4. ASSUME NEW k \in 1 .. Cardinality(S)
      PROVE  \E i \in S : Place(tenant, i) = k
    BY <1>2, <1>3, Places DEF Shown
<1>5. Ranking(tenant, n) =
          [k \in 1 .. Cardinality(S) |-> CHOOSE i \in S : Place(tenant, i) = k]
    BY DEF Ranking, Shown, Place
<1> QED
    BY <1>1, <1>2, <1>4, <1>5

-----------------------------------------------------------------------------
(* The tickets and the answers *)

\* One of the services answers, for the tickets as they are.
Service ==
    \/ \E tenant \in Tenants :
          \/ \E n \in Ids : SmartQueue(tenant, n)
          \/ WarRoom(tenant)
          \/ SlaHealth(tenant)
          \/ \E i \in Ids : Copilot(tenant, i)
    \/ \E a \in Approvals :
          \/ ApprovalReport(a)
          \/ \E tenant \in Tenants, grounded \in BOOLEAN : ImprovementReport(tenant, grounded, a)

LEMMA Steps ==
    ASSUME Next
    PROVE  \/ Service /\ UNCHANGED <<tickets, hours>>
           \/ reply' = NoReply
<1>1. CASE Service
    BY <1>1 DEF Service, SmartQueue, WarRoom, SlaHealth, Copilot, ApprovalReport,
                ImprovementReport
<1>2. CASE Hour \/ \E i \in Ids : Work(i)
    BY <1>2 DEF Hour, Work
<1> QED
    BY <1>1, <1>2 DEF Next, Service

LEMMA NextListed == Listed /\ [Next]_vars => Listed'
<1> SUFFICES ASSUME Listed, [Next]_vars PROVE Listed'
    OBVIOUS
<1>1. CASE Hour
    <2>1. ASSUME NEW i \in Ids
          PROVE  [tickets[i] EXCEPT !.age_hours = @ + 1,
                                    !.sla = IF @ = NoTimer THEN @ ELSE @ - 60] \in Ticket
        <3>1. tickets[i] \in Ticket
            BY DEF Listed
        <3>2. (IF tickets[i].sla = NoTimer THEN tickets[i].sla ELSE tickets[i].sla - 60) \in Times
            BY <3>1 DEF Ticket, Times
        <3>3. tickets[i].age_hours + 1 \in Nat
            BY <3>1 DEF Ticket
        <3> QED
            BY <3>1, <3>2, <3>3 DEF Ticket
    <2> QED
        BY <1>1, <2>1 DEF Hour, Listed
<1>2. ASSUME NEW i \in Ids, Work(i)
      PROVE  Listed'
    <2>1. PICK s \in Lifecycles : tickets' = [tickets EXCEPT ![i].lifecycle_state = s]
        BY <1>2 DEF Work
    <2>2. [tickets[i] EXCEPT !.lifecycle_state = s] \in Ticket
        BY DEF Listed, Ticket
    <2> QED
        BY <2>1, <2>2 DEF Listed
<1>3. CASE UNCHANGED tickets
    BY <1>3 DEF Listed
<1>4. Service => UNCHANGED tickets
    BY DEF Service, SmartQueue, WarRoom, SlaHealth, Copilot, ApprovalReport,
           ImprovementReport
<1> QED
    BY <1>1, <1>2, <1>3, <1>4 DEF Next, Service, vars

\* The tickets stay tickets, however they age and are worked on.
THEOREM TicketsStayListed == Spec => []Listed
<1>1. Init => Listed
    BY TicketsAssumption DEF Init, Listed
<1> QED
    BY <1>1, NextListed, PTL DEF Spec

\* With the tickets unchanged, so is what a service reads of them.
LEMMA SameTickets ==
    ASSUME UNCHANGED tickets, NEW tenant
    PROVE  /\ Scoped(tenant)' = Scoped(tenant)
           /\ Active(tenant)' = Active(tenant)
BY DEF Scoped, Active

-----------------------------------------------------------------------------
(* One story of a ticket *)

\* The war room's cohorts are the counts of the health report.
LEMMA WarRoomAgrees ==
    ASSUME Listed, NEW tenant \in Tenants, WarRoom(tenant)
    PROVE  CohortsAgree'
<1> DEFINE S == Scoped(tenant)
           with(s) == {i \in S : SlaStatusOf(tickets[i]) = s}
           finished == {i \in S : Finished(tickets[i])}
           c == Cohorts(tenant)
<1>1. UNCHANGED tickets /\ S' = S
    BY SameTickets DEF WarRoom
<1>2. /\ reply'.tenant = tenant /\ reply'.cohorts = c
      /\ reply'.escalation_needed = (c.breached # {} \/ c.at_risk # {})
    BY DEF WarRoom
<1>3. \A i \in S : tickets[i] \in Ticket
    BY ScopesAreFinite DEF Listed
<1>4. /\ c.breached = with("breached") /\ c.at_risk = with("at_risk")
      /\ c.healthy = S \ (with("breached") \cup with("at_risk"))
    BY <1>3, OneClassifier DEF Cohorts
<1>5. c.healthy = with("healthy") \cup finished /\ with("healthy") \cap finished = {}
    BY <1>3, <1>4, OneClassifier DEF SlaStatusOf
<1>6. IsFiniteSet(S) /\ \A s : IsFiniteSet(with(s)) /\ Cardinality(with(s)) \in Nat
      /\ IsFiniteSet(finished) /\ Cardinality(finished) \in Nat
    BY ScopesAreFinite, FS_Subset, FS_CardinalityType
<1>7. Cardinality(c.healthy) = Cardinality(with("healthy")) + Cardinality(finished)
    <2> DEFINE W == with("healthy")
    <2>1. /\ IsFiniteSet(W) /\ Cardinality(W) \in Nat
          /\ IsFiniteSet(finished) /\ Cardinality(finished) \in Nat
        BY <1>6
    <2>2. c.healthy = W \cup finished /\ W \cap finished = {}
        BY <1>5
    <2> HIDE DEF W, with, finished, c, S
    <2>3. Cardinality(W \cap finished) = 0
        BY <2>2, FS_EmptySet
    <2>4. Cardinality(W \cup finished) =
              Cardinality(W) + Cardinality(finished) - Cardinality(W \cap finished)
        BY <2>1, FS_Union, Zenon
    <2>5. Cardinality(c.healthy) = Cardinality(W) + Cardinality(finished)
        BY <2>1, <2>2, <2>3, <2>4
    <2> QED
        BY <2>5 DEF W
<1>8. /\ Health(tenant)'.breached = Cardinality(with("breached"))
      /\ Health(tenant)'.at_risk = Cardinality(with("at_risk"))
      /\ Health(tenant)'.healthy = Cardinality(with("healthy"))
    <2>1. \A s : {i \in S' : SlaStatusOf(tickets[i])' = s} = with(s)
        BY <1>1 DEF SlaStatusOf, Finished
    <2> QED
        BY <2>1 DEF Health
<1>9. {i \in S' : Finished(tickets[i])'} = finished
    BY <1>1 DEF Finished
<1>10. (c.breached # {} \/ c.at_risk # {}) <=>
          "sla_health" \notin SlaSignals(Health(tenant))'
    <2> DEFINE h == Health(tenant)'
    <2>1. \A s : Cardinality(with(s)) \in Nat /\ (Cardinality(with(s)) = 0 <=> with(s) = {})
        BY <1>6, FS_EmptySet
    <2>2. h.breached \in Nat /\ h.at_risk \in Nat
        BY <1>8, <2>1
    <2>3. (h.breached = 0 <=> c.breached = {}) /\ (h.at_risk = 0 <=> c.at_risk = {})
        BY <1>4, <1>8, <2>1
    <2>4. SlaSignals(Health(tenant))' = SlaSignals(h)
        BY DEF SlaSignals
    <2> HIDE DEF h
    <2>5. "sla_health" \in SlaSignals(h) <=> h.breached + h.at_risk = 0
        BY DEF SlaSignals
    <2> QED
        BY <2>2, <2>3, <2>4, <2>5
<1> QED
    BY <1>2, <1>4, <1>7, <1>8, <1>9, <1>10 DEF CohortsAgree

\* The copilot's advice is the queue's and the war room's.
LEMMA CopilotAgrees ==
    ASSUME Listed, NEW tenant \in Tenants, NEW i \in Ids, Copilot(tenant, i)
    PROVE  AdviceAgrees' /\ BreachIsNeverMinor'
<1> DEFINE t == [tickets[i] EXCEPT !.tenant_id = IF @ = NoTenant THEN @ ELSE tenant]
<1>1. /\ reply'.ticket = i /\ reply'.sla_status = Assess(t) /\ reply'.queue_band = Band(t)
      /\ reply'.actions = NextActions(t) /\ reply'.hints = EscalationHints(t)
      /\ tickets' = tickets
    BY DEF Copilot
<1>2. t \in Ticket /\ tickets[i] \in Ticket
    BY DEF Listed, Ticket
<1>3. /\ Assess(t) = Assess(tickets[i]) /\ t.severity = tickets[i].severity
      /\ t.lifecycle_state = tickets[i].lifecycle_state
    BY <1>2 DEF Assess, Finished, Ticket
<1>4. StatusFor(tickets[i]) = Assess(t)
    BY <1>2, <1>3, OneClassifier
<1> HIDE DEF t
<1>5. /\ "escalate" \in NextActions(t) <=> Assess(t) = "breached"
      /\ "prioritize" \in NextActions(t) <=> Assess(t) = "at_risk"
      /\ "escalate" \in EscalationHints(t) <=> Assess(t) = "breached"
    BY DEF NextActions, EscalationHints
<1>6. /\ RecommendedAction(tickets[i]) = "escalate" <=> Assess(t) = "breached"
      /\ RecommendedAction(tickets[i]) = "handle_next" <=> Assess(t) = "at_risk"
    BY <1>3 DEF RecommendedAction
<1>7. AdviceAgrees'
    <2>1. /\ RecommendedAction(tickets[i])' = RecommendedAction(tickets[i])
          /\ StatusFor(tickets[i])' = StatusFor(tickets[i])
        BY <1>1 DEF RecommendedAction, StatusFor, Assess, Finished
    <2> QED
        BY <1>1, <1>4, <1>5, <1>6, <2>1 DEF AdviceAgrees
<1>8. Assess(t) = "breached" =>
         /\ Band(t) # "low"
         /\ t.severity = "critical" => Band(t) \in {"high", "critical"}
    BY <1>2, Scores DEF Band
<1> QED
    BY <1>1, <1>3, <1>7, <1>8 DEF BreachIsNeverMinor


\* Queue, war room, copilot and statistics tell one story of every ticket, though
\* each classifies it and advises on it by itself.
THEOREM OneStoryOfATicket == Spec => []ViewsAgree
<1>1. Init => ViewsAgree
    BY DEF Init, ViewsAgree, CohortsAgree, AdviceAgrees
<1>2. Listed /\ ViewsAgree /\ [Next]_vars => ViewsAgree'
    <2> SUFFICES ASSUME Listed, ViewsAgree, [Next]_vars PROVE ViewsAgree'
        OBVIOUS
    <2>1. CASE UNCHANGED vars
        <3>1. UNCHANGED <<tickets, reply>>
            BY <2>1 DEF vars
        <3>2. CohortsAgree' <=> CohortsAgree
            BY <3>1 DEF CohortsAgree, Health, Scoped, SlaStatusOf, SlaSignals, Finished
        <3>3. AdviceAgrees' <=> AdviceAgrees
            BY <3>1 DEF AdviceAgrees, RecommendedAction, StatusFor, Assess, Finished
        <3> QED
            BY <3>2, <3>3 DEF ViewsAgree
    <2>2. CASE reply' = NoReply
        BY <2>2 DEF ViewsAgree, CohortsAgree, AdviceAgrees
    <2>3. ASSUME NEW tenant \in Tenants, WarRoom(tenant)
          PROVE  ViewsAgree'
        <3>1. reply'.of = "war_room"
            BY <2>3 DEF WarRoom
        <3> QED
            BY <2>3, <3>1, WarRoomAgrees DEF ViewsAgree, AdviceAgrees
    <2>4. ASSUME NEW tenant \in Tenants, NEW i \in Ids, Copilot(tenant, i)
          PROVE  ViewsAgree'
        <3>1. reply'.of = "copilot"
            BY <2>4 DEF Copilot
        <3> QED
            BY <2>4, <3>1, CopilotAgrees DEF ViewsAgree, CohortsAgree
    <2>5. ASSUME NEW tenant \in Tenants,
                 SlaHealth(tenant) \/ \E n \in Ids : SmartQueue(tenant, n)
          PROVE  ViewsAgree'
        <3>1. reply'.of \in {"health", "queue"}
            BY <2>5 DEF SlaHealth, SmartQueue
        <3> QED
            BY <3>1 DEF ViewsAgree, CohortsAgree, AdviceAgrees
    <2>6. ASSUME NEW a \in Approvals,
                 \/ ApprovalReport(a)
                 \/ \E tenant \in Tenants, grounded \in BOOLEAN :
                       ImprovementReport(tenant, grounded, a)
          PROVE  ViewsAgree'
        <3>1. reply'.of \in {"approvals", "improvement"}
            BY <2>6 DEF ApprovalReport, ImprovementReport
        <3> QED
            BY <3>1 DEF ViewsAgree, CohortsAgree, AdviceAgrees
    <2> QED
        BY <2>1, <2>2, <2>3, <2>4, <2>5, <2>6, Steps DEF Service
<1> QED
    BY <1>1, <1>2, TicketsStayListed, PTL DEF Spec

-----------------------------------------------------------------------------
(* No breach is hidden *)

\* Who is left out of the queue comes after all that is shown.
LEMMA QueueLeadsWithBreaches ==
    ASSUME Listed, NEW tenant \in Tenants, NEW n \in Ids, SmartQueue(tenant, n)
    PROVE  BreachesLead'
<1> DEFINE R == Ranking(tenant, n)
           K == 1 .. Cardinality(Shown(tenant, n))
           A == Active(tenant)
           state(i) == SlaPriority[StatusFor(tickets[i])]
<1>1. reply'.tenant = tenant /\ reply'.ranked = R /\ UNCHANGED tickets
    BY DEF SmartQueue
<1>2. /\ R \in [K -> A] /\ Cardinality(Shown(tenant, n)) \in Nat
      /\ \A k \in K : Place(tenant, R[k]) = k
    BY RankingIsByPlace, SizeAssumption DEF Ids
<1>3. A \subseteq Ids
    BY ScopesAreFinite
<1>4. \A i \in A : Place(tenant, i) \in Nat
    BY Places, ScopesAreFinite, FS_CardinalityType
<1>5. ASSUME NEW i \in A, NEW j \in A, Place(tenant, i) < Place(tenant, j)
      PROVE  state(j) <= state(i)
    <2>1. ~Before(j, i) /\ i # j
        BY <1>4, <1>5, Places
    <2> QED
        BY <1>3, <2>1, TicketsAreOrdered
<1>6. ASSUME NEW i \in A, NEW j \in A, Place(tenant, i) = Place(tenant, j)
      PROVE  i = j
    BY <1>3, <1>4, <1>6, Places, TicketsAreOrdered
<1>7. ASSUME NEW k \in K, NEW l \in K, k < l
      PROVE  state(R[k]) >= state(R[l])
    <2>1. R[k] \in A /\ R[l] \in A /\ Place(tenant, R[k]) = k /\ Place(tenant, R[l]) = l
        BY <1>2
    <2>2. state(R[l]) <= state(R[k])
        BY <1>5, <1>7, <2>1
    <2> QED
        BY <2>2
<1>8. ASSUME NEW i \in A, \A m \in K : R[m] # i, NEW k \in K
      PROVE  state(i) <= state(R[k])
    <2>1. R[k] \in A /\ Place(tenant, R[k]) = k
        BY <1>2
    <2>2. Place(tenant, i) \notin K
        <3> SUFFICES ASSUME Place(tenant, i) \in K PROVE FALSE
            OBVIOUS
        <3>1. R[Place(tenant, i)] \in A
              /\ Place(tenant, R[Place(tenant, i)]) = Place(tenant, i)
            BY <1>2
        <3> QED
            BY <1>6, <1>8, <3>1
    <2>3. Place(tenant, i) \in 1 .. Cardinality(A)
        BY Places
    <2>4. Place(tenant, R[k]) < Place(tenant, i)
        BY <1>2, <2>1, <2>2, <2>3, <1>4
    <2> QED
        BY <1>5, <2>1, <2>4
<1>9. Active(tenant)' = A /\ \A i : SlaPriority[StatusFor(tickets[i])'] = state(i)
    BY <1>1, SameTickets DEF StatusFor, Finished
<1>10. DOMAIN R = K
    BY <1>2
<1> QED
    BY <1>1, <1>7, <1>8, <1>9, <1>10 DEF BreachesLead

\* No cut of the queue and no sum of its weights makes a breach look minor.
THEOREM BreachesAreShown == Spec => []NoBreachHidden
<1>1. Init => NoBreachHidden
    BY DEF Init, NoBreachHidden, BreachesLead, BreachIsNeverMinor
<1>2. Listed /\ NoBreachHidden /\ [Next]_vars => NoBreachHidden'
    <2> SUFFICES ASSUME Listed, NoBreachHidden, [Next]_vars PROVE NoBreachHidden'
        OBVIOUS
    <2>1. CASE UNCHANGED vars
        <3>1. UNCHANGED <<tickets, reply>>
            BY <2>1 DEF vars
        <3>2. \A tenant : Active(tenant)' = Active(tenant)
            BY <3>1 DEF Active, Scoped, Finished
        <3>3. \A i : StatusFor(tickets[i])' = StatusFor(tickets[i])
            BY <3>1 DEF StatusFor, Finished
        <3>4. BreachesLead' <=> BreachesLead
            BY <3>1, <3>2, <3>3 DEF BreachesLead
        <3> QED
            BY <3>1, <3>4 DEF NoBreachHidden, BreachIsNeverMinor
    <2>2. CASE reply' = NoReply
        BY <2>2 DEF NoBreachHidden, BreachesLead, BreachIsNeverMinor
    <2>3. ASSUME NEW tenant \in Tenants, NEW n \in Ids, SmartQueue(tenant, n)
          PROVE  NoBreachHidden'
        <3>1. reply'.of = "queue"
            BY <2>3 DEF SmartQueue
        <3> QED
            BY <2>3, <3>1, QueueLeadsWithBreaches DEF NoBreachHidden, BreachIsNeverMinor
    <2>4. ASSUME NEW tenant \in Tenants, NEW i \in Ids, Copilot(tenant, i)
          PROVE  NoBreachHidden'
        <3>1. reply'.of = "copilot"
            BY <2>4 DEF Copilot
        <3> QED
            BY <2>4, <3>1, CopilotAgrees DEF NoBreachHidden, BreachesLead
    <2>5. ASSUME NEW tenant \in Tenants, WarRoom(tenant) \/ SlaHealth(tenant)
          PROVE  NoBreachHidden'
        <3>1. reply'.of \in {"war_room", "health"}
            BY <2>5 DEF WarRoom, SlaHealth
        <3> QED
            BY <3>1 DEF NoBreachHidden, BreachesLead, BreachIsNeverMinor
    <2>6. ASSUME NEW a \in Approvals,
                 \/ ApprovalReport(a)
                 \/ \E tenant \in Tenants, grounded \in BOOLEAN :
                       ImprovementReport(tenant, grounded, a)
          PROVE  NoBreachHidden'
        <3>1. reply'.of \in {"approvals", "improvement"}
            BY <2>6 DEF ApprovalReport, ImprovementReport
        <3> QED
            BY <3>1 DEF NoBreachHidden, BreachesLead, BreachIsNeverMinor
    <2> QED
        BY <2>1, <2>2, <2>3, <2>4, <2>5, <2>6, Steps DEF Service
<1> QED
    BY <1>1, <1>2, TicketsStayListed, PTL DEF Spec

-----------------------------------------------------------------------------
(* Rounding *)

LEMMA Division ==
    ASSUME NEW x \in Nat, NEW d \in Nat \ {0}
    PROVE  /\ x \div d \in Nat
           /\ d * (x \div d) <= x /\ x < d * (x \div d) + d
OBVIOUS

LEMMA DivisionGrows ==
    ASSUME NEW x \in Nat, NEW y \in Nat, NEW d \in Nat \ {0}, x <= y
    PROVE  x \div d <= y \div d
<1> DEFINE p == x \div d
           q == y \div d
<1>1. /\ p \in Nat /\ d * p <= x
      /\ q \in Nat /\ y < d * q + d
    BY Division
<1> HIDE DEF p, q
<1>2. d * p < d * q + d
    BY <1>1
<1>3. ASSUME q < p
      PROVE  FALSE
    <2>1. PICK e \in Nat : p = q + 1 + e
        <3>1. p - (q + 1) \in Nat /\ p = q + 1 + (p - (q + 1))
            BY <1>1, <1>3
        <3> QED
            BY <3>1
    <2>2. d * p = d * q + d + d * e /\ d * e \in Nat /\ d * q \in Nat
        BY <1>1, <2>1
    <2> QED
        BY <1>2, <2>2
<1>4. p <= q
    BY <1>1, <1>3
<1> QED
    BY <1>4 DEF p, q

LEMMA DivisionVanishes ==
    ASSUME NEW x \in Nat, NEW d \in Nat \ {0}
    PROVE  x \div d > 0 <=> x >= d
<1>1. /\ x \div d \in Nat
      /\ d * (x \div d) <= x /\ x < d * (x \div d) + d
    BY Division
<1>2. x >= d => x \div d # 0
    BY <1>1
<1>3. x \div d > 0 => x >= d
    <2>1. d \div d = 1
        OBVIOUS
    <2>2. ASSUME x < d PROVE x \div d = 0
        BY <2>2, <1>1
    <2> QED
        BY <1>1, <2>2
<1> QED
    BY <1>1, <1>2, <1>3

-----------------------------------------------------------------------------
(* Trouble is heard *)

\* One blocked approval of up to 200 does not round to none.
LEMMA BlockageIsHeard ==
    ASSUME NEW a \in Approvals
    PROVE  LET m == ApprovalMetrics(a) IN
           /\ m.required = a.granted + a.open /\ m.blocked = a.open
           /\ a.granted \in Nat /\ a.open \in Nat
           /\ m.blocked_rate > 0 => a.open # 0
           /\ a.open # 0 /\ a.granted <= 199 * a.open => m.blocked_rate > 0
<1>1. a.granted \in Nat /\ a.open \in Nat
    BY ApprovalsAssumption
<1> DEFINE g == a.granted
           o == a.open
           rate == IF g + o = 0 THEN 0 ELSE Hundredths(o, g + o)
<1>2. /\ ApprovalMetrics(a).required = g + o /\ ApprovalMetrics(a).blocked = o
      /\ ApprovalMetrics(a).blocked_rate = rate
    BY DEF ApprovalMetrics
<1>3. CASE g + o = 0
    BY <1>1, <1>2, <1>3
<1>4. CASE g + o # 0
    <2>1. rate = (200 * o + (g + o)) \div (2 * (g + o))
        BY <1>4 DEF Hundredths
    <2>2. 200 * o + (g + o) \in Nat /\ 2 * (g + o) \in Nat \ {0}
        BY <1>1, <1>4
    <2>3. rate > 0 <=> 200 * o + (g + o) >= 2 * (g + o)
        BY <2>1, <2>2, DivisionVanishes
    <2> QED
        BY <1>1, <1>2, <1>4, <2>3
<1> QED
    BY <1>3, <1>4

\* A breach among up to four tickets lowers their health.
LEMMA BreachIsHeard ==
    ASSUME Listed, NEW tenant, Cardinality(Scoped(tenant)) <= 4,
           NEW i \in Scoped(tenant), StatusFor(tickets[i]) = "breached"
    PROVE  Health(tenant).health_score < 80
<1> DEFINE S == Scoped(tenant)
           H == {j \in S : SlaStatusOf(tickets[j]) = "healthy"}
           R == {j \in S : SlaStatusOf(tickets[j]) = "at_risk"}
           h == Cardinality(H)
           r == Cardinality(R)
           n == Cardinality(S)
<1>1. SlaStatusOf(tickets[i]) = "breached"
    BY ScopesAreFinite, OneClassifier DEF Listed
<1>2. /\ IsFiniteSet(S) /\ H \cap R = {} /\ H \cup R \subseteq S \ {i}
      /\ H \subseteq S /\ R \subseteq S
    BY <1>1, ScopesAreFinite
<1>3. Health(tenant).health_score =
          IF n = 0 THEN 100 ELSE Hundredths(2 * h + r, 2 * n)
    BY DEF Health
<1>4. i \in S
    OBVIOUS
<1> HIDE DEF S, H, R
<1>5. h \in Nat /\ r \in Nat /\ n \in Nat /\ IsFiniteSet(H) /\ IsFiniteSet(R)
    BY <1>2, FS_Subset, FS_CardinalityType
<1>6. IsFiniteSet(S \ {i}) /\ Cardinality(S \ {i}) = n - 1
    BY <1>2, <1>4, FS_RemoveElement
<1>7. Cardinality(H \cup R) = h + r - Cardinality(H \cap R)
    BY <1>5, FS_Union, Zenon
<1>8. Cardinality(H \cap R) = 0
    BY <1>2, FS_EmptySet
<1>9. Cardinality(H \cup R) <= n - 1
    BY <1>2, <1>6, FS_Subset
<1>10. h + r <= n - 1
    BY <1>5, <1>7, <1>8, <1>9
<1>11. n <= 4
    BY DEF S
<1> HIDE DEF h, r, n
<1>12. n \in {1, 2, 3, 4} /\ 2 * h + r \in 0 .. 2 * n - 2
    BY <1>5, <1>10, <1>11
<1>13. Hundredths(2 * h + r, 2 * n) < 80
    <2>1. \A x \in 0 .. 0 : (200 * x + 2) \div 4 < 80
        OBVIOUS
    <2>2. \A x \in 0 .. 2 : (200 * x + 4) \div 8 < 80
        OBVIOUS
    <2>3. \A x \in 0 .. 4 : (200 * x + 6) \div 12 < 80
        OBVIOUS
    <2>4. \A x \in 0 .. 6 : (200 * x + 8) \div 16 < 80
        OBVIOUS
    <2> QED
        BY <1>12, <2>1, <2>2, <2>3, <2>4 DEF Hundredths
<1> QED
    BY <1>3, <1>12, <1>13

\* What TroubleHeard says of an answer holds of the answers of both reports.
LEMMA ReportsAreHeard ==
    ASSUME Listed, NEW a \in Approvals,
           \/ ApprovalReport(a)
           \/ \E tenant \in Tenants, grounded \in BOOLEAN : ImprovementReport(tenant, grounded, a)
    PROVE  TroubleHeard'
<1> DEFINE m == ApprovalMetrics(a)
<1>1. CASE ApprovalReport(a)
    <2>1. /\ reply'.of = "approvals" /\ reply'.metrics = m
          /\ reply'.blockage = (m.blocked_rate > 0) /\ reply'.review = (m.blocked # 0)
        BY <1>1 DEF ApprovalReport
    <2> HIDE DEF m
    <2>2. /\ m.required = a.granted + a.open /\ m.blocked = a.open
          /\ a.granted \in Nat /\ a.open \in Nat
          /\ m.blocked_rate > 0 => a.open # 0
          /\ a.open # 0 /\ a.granted <= 199 * a.open => m.blocked_rate > 0
        BY BlockageIsHeard DEF m
    <2>3. a.open # 0 /\ a.granted + a.open <= 200 => a.granted <= 199 * a.open
        BY <2>2
    <2> QED
        BY <2>1, <2>2, <2>3 DEF TroubleHeard
<1>2. ASSUME NEW tenant \in Tenants, NEW grounded \in BOOLEAN,
             ImprovementReport(tenant, grounded, a)
      PROVE  TroubleHeard'
    <2> DEFINE heard == (IF Health(tenant).health_score < 80 THEN {"sla_health"} ELSE {})
                        \cup (IF ~grounded THEN {"groundedness"} ELSE {})
                        \cup (IF m.blocked_rate > 0 THEN {"approvals"} ELSE {})
    <2>1. /\ reply'.of = "improvement" /\ reply'.tenant = tenant /\ reply'.events = a
          /\ reply'.signals = IF heard = {} THEN {"improvement"} ELSE heard
          /\ UNCHANGED tickets
        BY <1>2 DEF ImprovementReport
    <2>2. a.open > 0 /\ a.granted < 200 => "approvals" \in heard
        <3> SUFFICES ASSUME a.open > 0, a.granted < 200 PROVE m.blocked_rate > 0
            OBVIOUS
        <3>1. a.open \in Nat /\ a.granted \in Nat
            BY ApprovalsAssumption
        <3>2. a.open # 0 /\ a.granted <= 199 * a.open
            BY <3>1
        <3> QED
            BY <3>2, BlockageIsHeard
    <2>3. ASSUME NEW i \in Scoped(tenant), StatusFor(tickets[i]) = "breached",
                 Cardinality(Scoped(tenant)) <= 4
          PROVE  "sla_health" \in heard
        BY <2>3, BreachIsHeard
    <2>4. /\ Scoped(tenant)' = Scoped(tenant)
          /\ \A i : StatusFor(tickets[i])' = StatusFor(tickets[i])
        BY <2>1, SameTickets DEF StatusFor, Finished
    <2> HIDE DEF heard
    <2>5. \A x \in heard : x \in reply'.signals
        BY <2>1
    <2> QED
        BY <2>1, <2>2, <2>3, <2>4, <2>5 DEF TroubleHeard
<1> QED
    BY <1>1, <1>2

\* A blocked approval and a breach are heard through averages and rounding.
THEOREM TroubleIsHeard == Spec => []TroubleHeard
<1>1. Init => TroubleHeard
    BY DEF Init, TroubleHeard
<1>2. Listed /\ TroubleHeard /\ [Next]_vars => TroubleHeard'
    <2> SUFFICES ASSUME Listed, TroubleHeard, [Next]_vars PROVE TroubleHeard'
        OBVIOUS
    <2>1. CASE UNCHANGED vars
        <3>1. UNCHANGED <<tickets, reply>>
            BY <2>1 DEF vars
        <3>2. /\ \A tenant : Scoped(tenant)' = Scoped(tenant)
              /\ \A i : StatusFor(tickets[i])' = StatusFor(tickets[i])
            BY <3>1 DEF Scoped, StatusFor, Finished
        <3> QED
            BY <3>1, <3>2 DEF TroubleHeard
    <2>2. CASE reply' = NoReply
        BY <2>2 DEF TroubleHeard
    <2>3. ASSUME NEW tenant \in Tenants,
                 \/ WarRoom(tenant) \/ SlaHealth(tenant)
                 \/ \E n \in Ids : SmartQueue(tenant, n)
                 \/ \E i \in Ids : Copilot(tenant, i)
          PROVE  TroubleHeard'
        <3>1. reply'.of \in {"war_room", "health"} \/ reply'.of \in {"queue", "copilot"}
            <4>1. WarRoom(tenant) \/ SlaHealth(tenant) => reply'.of \in {"war_room", "health"}
                BY DEF WarRoom, SlaHealth
            <4>2. \A n : SmartQueue(tenant, n) => reply'.of = "queue"
                BY DEF SmartQueue
            <4>3. \A i : Copilot(tenant, i) => reply'.of = "copilot"
                BY DEF Copilot
            <4> QED
                BY <2>3, <4>1, <4>2, <4>3
        <3> QED
            BY <3>1 DEF TroubleHeard
    <2> QED
        BY <2>1, <2>2, <2>3, ReportsAreHeard, Steps DEF Service
<1> QED
    BY <1>1, <1>2, TicketsStayListed, PTL DEF Spec

-----------------------------------------------------------------------------
(* Time never eases *)

\* An hour later a ticket is in no better state and has no lower score.
LEMMA AnHourLater ==
    ASSUME NEW t \in Ticket, NEW u \in Ticket,
           u = [t EXCEPT !.age_hours = @ + 1, !.sla = IF @ = NoTimer THEN @ ELSE @ - 60]
    PROVE  /\ Finished(u) <=> Finished(t)
           /\ Assess(t) = "breached" => Assess(u) = "breached"
           /\ Assess(t) = "at_risk" => Assess(u) \in {"at_risk", "breached"}
           /\ ~Below(SortKey(u), SortKey(t))
<1>1. /\ u.severity = t.severity /\ u.queue = t.queue /\ u.customer_tier = t.customer_tier
      /\ u.lifecycle_state = t.lifecycle_state /\ u.blocked = t.blocked
      /\ u.age_hours = t.age_hours + 1 /\ t.age_hours \in Nat
      /\ t.sla = NoTimer => u.sla = NoTimer
      /\ t.sla # NoTimer => u.sla = t.sla - 60 /\ t.sla \in Int /\ u.sla \in Int
    BY DEF Ticket, Times
<1>2. u.sla = NoTimer <=> t.sla = NoTimer
    BY <1>1, TimerAssumption
<1>3. Finished(u) <=> Finished(t)
    BY <1>1 DEF Finished
<1>4. /\ Assess(t) = "breached" => Assess(u) = "breached"
      /\ Assess(t) = "at_risk" => Assess(u) \in {"at_risk", "breached"}
      /\ Assess(t) = "paused" <=> Assess(u) = "paused"
    <2>1. CASE Finished(t)
        BY <1>3, <2>1 DEF Assess
    <2>2. CASE ~Finished(t) /\ t.sla = NoTimer
        BY <1>2, <1>3, <2>2 DEF Assess
    <2>3. CASE ~Finished(t) /\ t.sla # NoTimer
        <3>1. u.sla = t.sla - 60 /\ t.sla \in Int /\ u.sla # NoTimer /\ ~Finished(u)
            BY <1>1, <1>2, <1>3, <2>3
        <3>2. /\ Assess(t) = IF t.sla < 0 THEN "breached"
                              ELSE IF t.sla <= 60 THEN "at_risk" ELSE "healthy"
              /\ Assess(u) = IF u.sla < 0 THEN "breached"
                              ELSE IF u.sla <= 60 THEN "at_risk" ELSE "healthy"
            BY <2>3, <3>1 DEF Assess
        <3> QED
            BY <3>1, <3>2
    <2> QED
        BY <2>1, <2>2, <2>3
<1>5. AgeWeight(t) <= AgeWeight(u)
    <2>1. t.age_hours \div 4 <= (t.age_hours + 1) \div 4
        BY <1>1
    <2> QED
        BY <1>1, <2>1 DEF AgeWeight
<1>6. Assess(t) = Assess(u) => Score(t) <= Score(u)
    <2>1. CASE Assess(t) = "paused"
        BY <2>1, <1>4 DEF Score
    <2>2. ASSUME Assess(t) # "paused", Assess(t) = Assess(u)
          PROVE  Score(t) <= Score(u)
        <3> DEFINE rest == SeverityWeight[t.severity] + TierWeight[t.customer_tier]
                           + QueueWeight[t.queue] + LifecycleWeight[t.lifecycle_state]
                   added == (IF t.blocked THEN 8 ELSE 0)
                   sla == SlaWeight[Assess(t)]
        <3>1. Score(t) = rest + AgeWeight(t) + added + sla
            BY <2>2 DEF Score
        <3>2. Score(u) = rest + AgeWeight(u) + added + sla
            BY <1>1, <2>2 DEF Score
        <3>3. rest \in Int /\ added \in Int /\ sla \in Int
            <4>1. /\ SeverityWeight[t.severity] \in Int /\ TierWeight[t.customer_tier] \in Int
                  /\ QueueWeight[t.queue] \in Int
                BY DEF Ticket, SeverityWeight, TierWeight, QueueWeight
            <4>2. LifecycleWeight[t.lifecycle_state] \in Int
                BY <2>2, OneClassifier DEF Ticket, Lifecycles, Finished, LifecycleWeight
            <4>3. sla \in Int
                BY <2>2, OneClassifier DEF SlaWeight
            <4> QED
                BY <4>1, <4>2, <4>3
        <3> HIDE DEF rest, added, sla
        <3>4. AgeWeight(t) \in Int /\ AgeWeight(u) \in Int
            BY Scores
        <3> QED
            BY <1>5, <3>1, <3>2, <3>3, <3>4
    <2> QED
        BY <2>1, <2>2
<1>7. SlaPriority[Assess(t)] < SlaPriority[Assess(u)] \/ Assess(t) = Assess(u)
    BY <1>4, OneClassifier DEF SlaPriority
<1>8. ~Below(SortKey(u), SortKey(t))
    <2>1. \A k \in Keys : k[1] \in Int /\ k[2] \in Int /\ k[3] \in Int /\ k[4] \in Int
        BY DEF Keys
    <2>2. /\ SortKey(t) \in Keys /\ SortKey(u) \in Keys
          /\ SortKey(t)[1] = SlaPriority[Assess(t)] /\ SortKey(u)[1] = SlaPriority[Assess(u)]
          /\ SortKey(t)[2] = Score(t) /\ SortKey(u)[2] = Score(u)
          /\ SortKey(t)[3] = SortKey(u)[3]
          /\ SortKey(t)[4] = t.age_hours /\ SortKey(u)[4] = u.age_hours
        <3>1. SortKey(t) \in Keys /\ SortKey(u) \in Keys
            BY KeyType
        <3>2. SortKey(t)[3] = SeverityRank[t.severity] /\ SortKey(u)[3] = SeverityRank[t.severity]
            BY <1>1, KeyType
        <3> QED
            BY <3>1, <3>2, KeyType
    <2> QED
        BY <1>1, <1>6, <1>7, <2>1, <2>2, KeyOrder
<1> QED
    BY <1>3, <1>4, <1>8

\* What Hour does to each ticket.
LEMMA HourOfTicket ==
    ASSUME Listed, Hour, NEW i \in Ids
    PROVE  /\ tickets[i] \in Ticket /\ tickets'[i] \in Ticket
           /\ tickets'[i] = [tickets[i] EXCEPT !.age_hours = @ + 1,
                                               !.sla = IF @ = NoTimer THEN @ ELSE @ - 60]
<1>1. Listed'
    BY NextListed DEF Next
<1> QED
    BY <1>1 DEF Hour, Listed

\* The health of a tenant's tickets is a sum that an hour does not raise.
LEMMA HealthFalls ==
    ASSUME Listed, Hour, NEW tenant
    PROVE  Health(tenant)'.health_score <= Health(tenant).health_score
<1> DEFINE S == Scoped(tenant)
           with(s) == {i \in S : SlaStatusOf(tickets[i]) = s}
           H == with("healthy")
           R == with("at_risk")
           n == Cardinality(S)
           sum(h, r) == IF n = 0 THEN 100 ELSE Hundredths(2 * h + r, 2 * n)
<1>1. S' = S
    <2>1. \A i \in Ids : tickets'[i].tenant_id = tickets[i].tenant_id
        BY HourOfTicket DEF Ticket
    <2> QED
        BY <2>1 DEF Scoped
<1>2. ASSUME NEW i \in S
      PROVE  /\ SlaStatusOf(tickets[i]) = Assess(tickets[i])
             /\ SlaStatusOf(tickets[i])' = Assess(tickets'[i])
             /\ Assess(tickets[i]) = "breached" => Assess(tickets'[i]) = "breached"
             /\ Assess(tickets[i]) = "at_risk" => Assess(tickets'[i]) \in {"at_risk", "breached"}
             /\ Assess(tickets[i]) = "paused" => Assess(tickets'[i]) = "paused"
             /\ Assess(tickets[i]) \in {"breached", "at_risk", "healthy", "paused"}
    <2>1. i \in Ids
        BY ScopesAreFinite
    <2>2. tickets[i] \in Ticket /\ tickets'[i] \in Ticket
        BY <2>1, HourOfTicket
    <2>3. SlaStatusOf(tickets[i])' = SlaStatusOf(tickets'[i])
        BY DEF SlaStatusOf, Finished
    <2>4. /\ SlaStatusOf(tickets'[i]) = Assess(tickets'[i])
          /\ Assess(tickets'[i]) = "paused" <=> Finished(tickets'[i])
        BY <2>2, OneClassifier
    <2> QED
        BY <2>1, <2>2, <2>3, <2>4, HourOfTicket, AnHourLater, OneClassifier
<1>3. H' \subseteq H /\ H' \cup R' \subseteq H \cup R /\ H \cap R = {} /\ H' \cap R' = {}
    BY <1>1, <1>2
<1>4. IsFiniteSet(H) /\ IsFiniteSet(R)
    BY ScopesAreFinite, FS_Subset
<1>5. /\ Health(tenant).health_score = sum(Cardinality(H), Cardinality(R))
      /\ Health(tenant)'.health_score = sum(Cardinality(H'), Cardinality(R'))
    BY <1>1 DEF Health
<1>6. n \in Nat
    BY ScopesAreFinite, FS_CardinalityType
<1> HIDE DEF S, with, H, R, n
<1>7. IsFiniteSet(H \cup R) /\ IsFiniteSet(H') /\ IsFiniteSet(R')
    <2>1. IsFiniteSet(H \cup R)
        BY <1>4, FS_Union
    <2>2. H' \in SUBSET (H \cup R) /\ R' \in SUBSET (H \cup R)
        BY <1>3
    <2> QED
        BY <2>1, <2>2, FS_Subset
<1>8. PICK h, r, h2, r2 : /\ h = Cardinality(H) /\ r = Cardinality(R)
                          /\ h2 = Cardinality(H') /\ r2 = Cardinality(R')
    OBVIOUS
<1>9. h \in Nat /\ r \in Nat /\ h2 \in Nat /\ r2 \in Nat
    BY <1>4, <1>7, <1>8, FS_CardinalityType
<1>10. h2 <= h
    BY <1>3, <1>4, <1>8, FS_Subset
<1>11. h2 + r2 <= h + r
    <2>1. Cardinality(H \cap R) = 0 /\ Cardinality(H' \cap R') = 0
        BY <1>3, FS_EmptySet
    <2>2. Cardinality(H \cup R) = Cardinality(H) + Cardinality(R) - Cardinality(H \cap R)
        BY <1>4, FS_Union, Zenon
    <2>3. Cardinality(H' \cup R') = Cardinality(H') + Cardinality(R') - Cardinality(H' \cap R')
        BY <1>7, FS_Union, Zenon
    <2>4. Cardinality(H' \cup R') <= Cardinality(H \cup R)
        BY <1>3, <1>7, FS_Subset
    <2> QED
        BY <1>8, <1>9, <2>1, <2>2, <2>3, <2>4
<1>12. sum(h2, r2) <= sum(h, r)
    <2>1. CASE n = 0
        BY <2>1
    <2>2. CASE n # 0
        <3>1. 2 * h2 + r2 <= 2 * h + r
            BY <1>9, <1>10, <1>11
        <3> DEFINE x == 200 * (2 * h2 + r2) + 2 * n
                   y == 200 * (2 * h + r) + 2 * n
                   d == 2 * (2 * n)
        <3>2. x \in Nat /\ y \in Nat /\ d \in Nat \ {0} /\ x <= y
            BY <1>6, <1>9, <2>2, <3>1
        <3>3. sum(h2, r2) = x \div d /\ sum(h, r) = y \div d
            BY <2>2 DEF Hundredths
        <3> HIDE DEF x, y, d
        <3> QED
            BY <3>2, <3>3, DivisionGrows
    <2> QED
        BY <2>1, <2>2
<1> QED
    BY <1>5, <1>8, <1>12

\* Waiting alone lowers no ticket in the queue and raises no tenant's health.
THEOREM WaitingNeverEases == Spec => TimeNeverEases
<1>1. Listed /\ [Next]_vars =>
         [hours' # hours =>
            /\ \A i \in Ids : ~Below(SortKey(tickets'[i]), SortKey(tickets[i]))
            /\ \A tenant \in Tenants :
                  Health(tenant)'.health_score <= Health(tenant).health_score]_vars
    <2> SUFFICES ASSUME Listed, Next, hours' # hours
                 PROVE  /\ \A i \in Ids : ~Below(SortKey(tickets'[i]), SortKey(tickets[i]))
                        /\ \A tenant \in Tenants :
                              Health(tenant)'.health_score <= Health(tenant).health_score
        OBVIOUS
    <2>1. Hour
        <3>1. Service => UNCHANGED hours
            BY DEF Service, SmartQueue, WarRoom, SlaHealth, Copilot, ApprovalReport,
                   ImprovementReport
        <3>2. \A i : Work(i) => UNCHANGED hours
            BY DEF Work
        <3> QED
            BY <3>1, <3>2 DEF Next, Service
    <2> QED
        BY <2>1, HourOfTicket, AnHourLater, HealthFalls
<1> QED
    BY <1>1, TicketsStayListed, PTL DEF Spec, TimeNeverEases
=============================================================================
