-------------------------- MODULE RateLimitProofs --------------------------
(***************************************************************************)
(* The rate limiter's promises, for any number of clients and any limit,   *)
(* window, cleanup period and clock resolution.                            *)
(***************************************************************************)
EXTENDS RateLimit, FiniteSetTheorems, WellFoundedInduction, TLAPS

\* The bucket of a client holds every admission its window still counts, no
\* admission that was not made, and never more than Limit.
BucketOf(c) ==
    /\ InWindow(log[c]) \subseteq buckets[c]
    /\ buckets[c] \subseteq log[c]
    /\ Cardinality(buckets[c]) <= Limit

\* Admissions are numbered apart, and there are finitely many.
LogOf(c) ==
    /\ IsFiniteSet(log[c])
    /\ \A a \in log[c] : a.n < served[c]

\* What a list still holds when the promised time has come.
StillHeld(c) == { a \in buckets[c] : a.t > promise[c] - Window }

PromiseOf(c) == promise[c] # 0 => Cardinality(StillHeld(c)) < Limit

\* A client that was served keeps an entry under its key, and no key is without.
RememberedOf(c) ==
    /\ log[c] # {} => buckets[c] # {} /\ c \in known
    /\ c \in known => buckets[c] # {}

Inductive ==
    /\ TypeOK
    /\ \A c \in Clients : BucketOf(c) /\ LogOf(c) /\ PromiseOf(c) /\ RememberedOf(c)
    /\ LimitedForOwnCalls
    /\ OldClientsKeepService

-----------------------------------------------------------------------------
(* Arithmetic, finite sets.                                                 *)

\* Whole seconds plus one are longer than the time they were rounded from.
LEMMA RoundUp ==
    ASSUME NEW x \in Nat, NEW s \in Nat \ {0}
    PROVE  ((x \div s) + 1) \in Nat /\ ((x \div s) + 1) * s > x
  <1> DEFINE q == x \div s
  <1>1. q \in Int /\ x % s \in 0 .. (s - 1)
    OBVIOUS
  <1>2. x = s * q + (x % s)
    OBVIOUS
  <1>3. q >= 0
    BY <1>1, <1>2, SMT
  <1>4. (q + 1) * s = s * q + s
    BY <1>1, SMT
  <1>5. QED
    BY <1>1, <1>2, <1>3, <1>4, SMT

\* "Less than" on the naturals, as the relation the library proves well-founded.
Below == { p \in Nat \X Nat : p[1] < p[2] }

\* The library's theorem about that relation, with the definition of Below.
LEMMA BelowWellFounded == IsWellFoundedOn(Below, Nat)
  BY NatLessThanWellFounded DEF OpToRel, Below

\* A set of times that is not empty has a least one.
LEMMA LeastTime ==
    ASSUME NEW T, T \subseteq Nat, T # {}
    PROVE  \E x \in T : \A y \in T : x <= y
  <1>1. PICK x \in T : \A y \in T : <<y, x>> \notin Below
    BY BelowWellFounded, WFMin
  <1>2. ASSUME NEW y \in T, y < x PROVE FALSE
    <2>1. <<y, x>> \in Below
      BY <1>2 DEF Below
    <2>2. QED
      BY <2>1, <1>1
  <1>3. QED
    BY <1>1, <1>2

\* A part of a finite set is finite and no larger.
LEMMA PartOf ==
    ASSUME NEW S, NEW T, IsFiniteSet(S), T \subseteq S
    PROVE  /\ IsFiniteSet(T)
           /\ Cardinality(T) \in Nat /\ Cardinality(S) \in Nat
           /\ Cardinality(T) <= Cardinality(S)
  BY FS_Subset, FS_CardinalityType

\* Dropping an element makes a finite set smaller.
LEMMA Smaller ==
    ASSUME NEW S, NEW T, NEW x \in S, IsFiniteSet(S), T \subseteq S, x \notin T
    PROVE  Cardinality(T) < Cardinality(S)
  <1>1. Cardinality(S) # Cardinality(T)
    BY FS_Subset
  <1>2. QED
    BY <1>1, PartOf

-----------------------------------------------------------------------------
(* The pruned list.                                                         *)

\* Pruning keeps a bucket finite and within the limit.
LEMMA RecentFinite ==
    ASSUME Inductive, NEW c \in Clients
    PROVE  /\ Recent(c) \subseteq buckets[c]
           /\ Recent(c) \subseteq Admission
           /\ IsFiniteSet(buckets[c])
           /\ IsFiniteSet(Recent(c))
           /\ Cardinality(Recent(c)) \in Nat
           /\ Cardinality(Recent(c)) <= Limit
  <1>1. Recent(c) \subseteq buckets[c] /\ buckets[c] \subseteq Admission
    BY DEF Inductive, TypeOK, Recent, InWindow
  <1>2. IsFiniteSet(buckets[c]) /\ Cardinality(buckets[c]) <= Limit
    BY PartOf DEF Inductive, BucketOf, LogOf
  <1>3. QED
    BY <1>1, <1>2, PartOf, RateAssumption

\* A full list has an oldest entry, one the window counts.
LEMMA OldestOfFull ==
    ASSUME Inductive, NEW c \in Clients, Cardinality(Recent(c)) >= Limit
    PROVE  Oldest(c) \in Recent(c)
  <1> DEFINE T == { a.t : a \in Recent(c) }
  <1>1. Recent(c) # {} /\ T \subseteq Nat
    BY RecentFinite, FS_EmptySet, RateAssumption DEF Admission
  <1>2. PICK x \in T : \A y \in T : x <= y
    BY <1>1, LeastTime
  <1>3. \E a \in Recent(c) : \A b \in Recent(c) : a.t <= b.t
    BY <1>2
  <1>4. QED
    BY <1>3 DEF Oldest

\* What a Retry-After of at least a second promises, when the list is full.
LEMMA PromiseKept ==
    ASSUME Inductive, NEW c \in Clients, Cardinality(Recent(c)) >= Limit
    PROVE  /\ RetryAfter(c) \in Nat
           /\ now + RetryAfter(c) * Second \in Nat
           /\ now + RetryAfter(c) * Second >= Oldest(c).t + Window
  <1> DEFINE o == Oldest(c)
             x == Window - (now - o.t)
  <1>1. o \in Recent(c) /\ o.t \in Nat /\ now \in Nat
    BY OldestOfFull, RecentFinite DEF Admission, Inductive, TypeOK
  <1>2. x \in Nat
    BY <1>1, RateAssumption DEF Recent, InWindow
  <1>3. RetryAfter(c) = (x \div Second) + 1
    BY DEF RetryAfter
  <1>4. RetryAfter(c) \in Nat /\ RetryAfter(c) * Second > x
    BY <1>2, <1>3, RoundUp, RateAssumption
  <1>5. RetryAfter(c) * Second \in Nat
    BY <1>4, RateAssumption, SMT
  <1>6. QED
    BY <1>1, <1>4, <1>5, RateAssumption

-----------------------------------------------------------------------------
(* Types.                                                                   *)

\* The cleanup keeps the types of what it writes.
LEMMA CleanupTyped ==
    ASSUME TypeOK, Cleanup
    PROVE  isDefault' \in BOOLEAN /\ lastCleanup' \in Nat /\ KeysAfterCleanup \subseteq Clients
  BY DEF TypeOK, Cleanup, IsDefaultAfterCleanup, KeysAfterCleanup, KeptKeys

\* Every step keeps the types: a Retry-After is a number of seconds because
\* the oldest entry that counts lies within the window.
LEMMA StepTyped ==
    ASSUME Inductive, [Next]_vars
    PROVE  TypeOK'
  <1> USE DEF Inductive
  <1>1. ASSUME NEW c \in Clients, Admit(c) PROVE TypeOK'
    <2> DEFINE a == [n |-> served[c], t |-> now]
    <2>1. a \in Admission
      BY DEF TypeOK, Admission
    <2>2. buckets' \in [Clients -> SUBSET Admission]
      BY <1>1, <2>1, RecentFinite DEF Admit, TypeOK
    <2>3. log' \in [Clients -> SUBSET Admission]
      BY <1>1, <2>1 DEF Admit, TypeOK
    <2>4. known' \subseteq Clients /\ lastCleanup' \in Nat /\ isDefault' \in BOOLEAN
      BY <1>1, CleanupTyped DEF Admit
    <2>5. /\ served' \in [Clients -> Nat] /\ promise' \in [Clients -> Nat] /\ now' \in Nat
          /\ last' \in [client: Clients \cup {"none"}, outcome: Outcomes, at: Nat]
      BY <1>1 DEF Admit, TypeOK, Outcomes
    <2>6. QED
      BY <2>2, <2>3, <2>4, <2>5 DEF TypeOK
  <1>2. ASSUME NEW c \in Clients, Refuse(c) PROVE TypeOK'
    <2>1. now + RetryAfter(c) * Second \in Nat
      BY <1>2, PromiseKept DEF Refuse
    <2>2. known' \subseteq Clients /\ lastCleanup' \in Nat /\ isDefault' \in BOOLEAN
      BY <1>2, CleanupTyped DEF Refuse
    <2>3. QED
      BY <1>2, <2>1, <2>2 DEF Refuse, TypeOK, Outcomes
  <1>3. ASSUME NEW c \in Clients, Fail(c) PROVE TypeOK'
    BY <1>3, CleanupTyped DEF Fail, TypeOK, Outcomes
  <1>4. CASE Tick
    BY <1>4 DEF Tick, TypeOK
  <1>5. CASE Restart
    BY <1>5 DEF Restart, TypeOK, Outcomes
  <1>6. CASE UNCHANGED vars
    BY <1>6 DEF vars, TypeOK
  <1>7. QED
    BY <1>1, <1>2, <1>3, <1>4, <1>5, <1>6 DEF Next, Dispatch

-----------------------------------------------------------------------------
(* The inductive invariant.                                                 *)

ClientInvariant(c) == BucketOf(c) /\ LogOf(c) /\ PromiseOf(c) /\ RememberedOf(c)

\* A new middleware has served nobody.
LEMMA InitInductive == Init => Inductive
  <1> SUFFICES ASSUME Init PROVE Inductive
    OBVIOUS
  <1>1. TypeOK
    BY DEF Init, TypeOK, Outcomes
  <1>2. IsFiniteSet({}) /\ Cardinality({}) = 0
    BY FS_EmptySet
  <1>3. ASSUME NEW c \in Clients PROVE ClientInvariant(c)
    <2>1. log[c] = {} /\ buckets[c] = {} /\ promise[c] = 0 /\ known = {}
      BY <1>3 DEF Init
    <2>2. QED
      BY <1>2, <2>1, RateAssumption
      DEF ClientInvariant, BucketOf, LogOf, PromiseOf, RememberedOf, InWindow
  <1>4. LimitedForOwnCalls /\ OldClientsKeepService
    BY DEF Init, LimitedForOwnCalls, OldClientsKeepService
  <1>5. QED
    BY <1>1, <1>3, <1>4 DEF Inductive, ClientInvariant

\* Time passing and other clients' requests leave a client's promises intact:
\* the window only moves forwards.
LEMMA ClientKept ==
    ASSUME Inductive, NEW c \in Clients, now' \in Nat, now' >= now,
           buckets'[c] = buckets[c], log'[c] = log[c],
           served'[c] = served[c], promise'[c] = promise[c],
           c \in known <=> c \in known'
    PROVE  ClientInvariant(c)'
  <1>1. InWindow(log[c])' \subseteq InWindow(log[c])
    <2>1. log[c] \subseteq Admission /\ now \in Nat
      BY DEF Inductive, TypeOK
    <2>2. QED
      BY <2>1, RateAssumption DEF InWindow, Admission
  <1>2. BucketOf(c)'
    BY <1>1 DEF BucketOf, Inductive
  <1>3. LogOf(c)' /\ PromiseOf(c)' /\ RememberedOf(c)'
    BY DEF LogOf, PromiseOf, RememberedOf, StillHeld, Inductive
  <1>4. QED
    BY <1>2, <1>3 DEF ClientInvariant

\* The cleanup keeps the key of every client with an entry.
LEMMA KeyKept ==
    ASSUME NEW c, c \in known, buckets[c] # {}
    PROVE  c \in KeysAfterCleanup
  BY DEF KeysAfterCleanup, KeptKeys

\* The client that is let in.
LEMMA AdmittedKept ==
    ASSUME Inductive, NEW c \in Clients, Admit(c)
    PROVE  ClientInvariant(c)'
  <1> DEFINE a == [n |-> served[c], t |-> now]
  <1>1. /\ buckets'[c] = Recent(c) \cup {a} /\ log'[c] = log[c] \cup {a}
        /\ served'[c] = served[c] + 1 /\ promise'[c] = 0 /\ now' = now
        /\ c \in known' /\ Cardinality(Recent(c)) < Limit
    BY DEF Admit, Inductive, TypeOK
  <1>2. BucketOf(c)'
    <2>1. InWindow(log[c]) \subseteq Recent(c)
      BY DEF Inductive, BucketOf, Recent, InWindow
    <2>2. InWindow(log[c])' \subseteq buckets'[c]
      BY <1>1, <2>1 DEF InWindow
    <2>3. buckets'[c] \subseteq log'[c]
      BY <1>1, RecentFinite DEF Inductive, BucketOf
    <2>4. IsFiniteSet(Recent(c)) /\ Cardinality(Recent(c)) \in Nat
      BY RecentFinite
    <2>5. Cardinality(Recent(c) \cup {a}) \in {Cardinality(Recent(c)), Cardinality(Recent(c)) + 1}
      BY <2>4, FS_AddElement
    <2>6. Cardinality(buckets'[c]) <= Limit
      BY <1>1, <2>4, <2>5, RateAssumption
    <2>7. QED
      BY <2>2, <2>3, <2>6 DEF BucketOf
  <1>3. LogOf(c)'
    <2>1. IsFiniteSet(log'[c])
      <3>1. IsFiniteSet(log[c])
        BY DEF Inductive, LogOf
      <3>2. IsFiniteSet(log[c] \cup {a})
        BY <3>1, FS_AddElement
      <3>3. QED
        BY <1>1, <3>2
    <2>2. \A b \in log'[c] : b.n < served'[c]
      BY <1>1 DEF Inductive, LogOf, TypeOK, Admission
    <2>3. QED
      BY <2>1, <2>2 DEF LogOf
  <1>4. PromiseOf(c)' /\ RememberedOf(c)'
    BY <1>1 DEF PromiseOf, RememberedOf
  <1>5. QED
    BY <1>2, <1>3, <1>4 DEF ClientInvariant

\* The client that is told to come back: when the promised time has come its
\* oldest entry, at least, has left the list.
LEMMA RefusedKept ==
    ASSUME Inductive, NEW c \in Clients, Refuse(c)
    PROVE  ClientInvariant(c)'
  <1> DEFINE p == now + RetryAfter(c) * Second
             held == { a \in buckets[c] : a.t > p - Window }
  <1>1. /\ buckets' = buckets /\ log' = log /\ served' = served /\ now' = now
        /\ promise'[c] = p /\ c \in known' /\ Cardinality(Recent(c)) >= Limit
    BY DEF Refuse, Inductive, TypeOK
  <1>2. BucketOf(c)' /\ LogOf(c)'
    BY <1>1 DEF Inductive, BucketOf, LogOf, InWindow
  <1>3. PromiseOf(c)'
    <2>1. Oldest(c) \in buckets[c] /\ Oldest(c).t \in Nat
      BY <1>1, OldestOfFull, RecentFinite DEF Admission
    <2>2. p \in Nat /\ p >= Oldest(c).t + Window
      BY <1>1, PromiseKept
    <2>3. Oldest(c) \notin held
      BY <2>1, <2>2, RateAssumption
    <2>4. Cardinality(held) < Cardinality(buckets[c])
      BY <2>1, <2>3, RecentFinite, Smaller
    <2>5. Cardinality(held) \in Nat /\ Cardinality(buckets[c]) \in Nat
      BY RecentFinite, PartOf
    <2>6. Cardinality(buckets[c]) <= Limit
      BY DEF Inductive, BucketOf
    <2>7. StillHeld(c)' = held
      BY <1>1 DEF StillHeld
    <2>8. QED
      BY <2>4, <2>5, <2>6, <2>7, RateAssumption DEF PromiseOf
  <1>4. RememberedOf(c)'
    BY <1>1, OldestOfFull, RecentFinite DEF Inductive, RememberedOf
  <1>5. QED
    BY <1>2, <1>3, <1>4 DEF ClientInvariant

\* What the last dispatch did to its client, for each of its outcomes.
LEMMA OutcomeKept ==
    ASSUME Inductive, NEW c \in Clients, Dispatch(c)
    PROVE  LimitedForOwnCalls' /\ OldClientsKeepService'
  <1>1. CASE Admit(c)
    BY <1>1 DEF Admit, LimitedForOwnCalls, OldClientsKeepService
  <1>2. CASE Refuse(c)
    <2> DEFINE young == { a \in log[c] : a.t > now - Window }
    <2>1. /\ last' = [client |-> c, outcome |-> "limited", at |-> now] /\ log' = log
          /\ Cardinality(Recent(c)) >= Limit
      BY <1>2 DEF Refuse
    <2>2. Recent(c) \subseteq young /\ IsFiniteSet(young)
      <3>1. IsFiniteSet(log[c]) /\ buckets[c] \subseteq log[c]
        BY DEF Inductive, LogOf, BucketOf
      <3>2. QED
        BY <3>1, PartOf DEF Recent, InWindow
    <2>3. /\ Cardinality(Recent(c)) <= Cardinality(young)
          /\ Cardinality(young) \in Nat /\ Cardinality(Recent(c)) \in Nat
      BY <2>2, PartOf
    <2>4. Cardinality(young) >= Limit
      BY <2>1, <2>3, RateAssumption
    <2>5. QED
      BY <2>1, <2>4 DEF LimitedForOwnCalls, OldClientsKeepService
  <1>3. CASE Fail(c)
    <2>1. c \notin KeysAfterCleanup
      BY <1>3 DEF Fail, CanLookUp
    <2>2. log[c] = {}
      BY <2>1, KeyKept DEF Inductive, RememberedOf
    <2>3. QED
      BY <1>3, <2>2 DEF Fail, LimitedForOwnCalls, OldClientsKeepService
  <1>4. QED
    BY <1>1, <1>2, <1>3 DEF Dispatch

\* A dispatch keeps the invariant of its own client and of every other one.
LEMMA DispatchKeepsClients ==
    ASSUME Inductive, NEW c \in Clients, Dispatch(c), NEW d \in Clients
    PROVE  ClientInvariant(d)'
  <1>1. CASE Admit(c) /\ d = c
    BY <1>1, AdmittedKept
  <1>2. CASE Refuse(c) /\ d = c
    BY <1>2, RefusedKept
  <1>3. CASE Fail(c) \/ d # c
    <2>1. /\ buckets'[d] = buckets[d] /\ log'[d] = log[d]
          /\ served'[d] = served[d] /\ promise'[d] = promise[d] /\ now' = now
      BY <1>3 DEF Dispatch, Admit, Refuse, Fail, Inductive, TypeOK
    <2>2. now' \in Nat /\ now' >= now
      BY <2>1 DEF Inductive, TypeOK
    <2>3. d \in known <=> d \in known'
      <3>1. known' \ {c} = KeysAfterCleanup \ {c} \/ (Fail(c) /\ known' = KeysAfterCleanup)
        BY DEF Dispatch, Admit, Refuse, Fail
      <3>2. Fail(c) /\ d = c => d \notin known
        BY KeyKept DEF Fail, CanLookUp, Inductive, RememberedOf
      <3>3. d \in KeysAfterCleanup <=> d \in known
        BY KeyKept DEF KeysAfterCleanup, KeptKeys, Inductive, RememberedOf
      <3>4. QED
        BY <1>3, <3>1, <3>2, <3>3 DEF Fail
    <2>4. QED
      BY <2>1, <2>2, <2>3, ClientKept
  <1>4. QED
    BY <1>1, <1>2, <1>3 DEF Dispatch

\* Every step keeps the invariant.
LEMMA StepInductive ==
    ASSUME Inductive, [Next]_vars
    PROVE  Inductive'
  <1>1. TypeOK'
    BY StepTyped
  <1>2. ASSUME NEW c \in Clients, Dispatch(c) PROVE Inductive'
    BY <1>1, <1>2, OutcomeKept, DispatchKeepsClients DEF Inductive, ClientInvariant
  <1>3. CASE Tick
    <2>1. ASSUME NEW d \in Clients PROVE ClientInvariant(d)'
      BY <1>3, <2>1, ClientKept DEF Tick, Inductive, TypeOK
    <2>2. LimitedForOwnCalls' /\ OldClientsKeepService'
      BY <1>3 DEF Tick, Inductive, LimitedForOwnCalls, OldClientsKeepService
    <2>3. QED
      BY <1>1, <2>1, <2>2 DEF Inductive, ClientInvariant
  <1>4. CASE Restart
    <2>1. ASSUME NEW d \in Clients PROVE ClientInvariant(d)'
      <3>1. log'[d] = {} /\ buckets'[d] = {} /\ promise'[d] = 0 /\ known' = {}
        BY <1>4, <2>1 DEF Restart
      <3>2. IsFiniteSet({}) /\ Cardinality({}) = 0
        BY FS_EmptySet
      <3>3. QED
        BY <3>1, <3>2, RateAssumption
        DEF ClientInvariant, BucketOf, LogOf, PromiseOf, RememberedOf, InWindow
    <2>2. LimitedForOwnCalls' /\ OldClientsKeepService'
      BY <1>4 DEF Restart, LimitedForOwnCalls, OldClientsKeepService
    <2>3. QED
      BY <1>1, <2>1, <2>2 DEF Inductive, ClientInvariant
  <1>5. CASE UNCHANGED vars
    <2>1. ASSUME NEW d \in Clients PROVE ClientInvariant(d)'
      BY <1>5, <2>1, ClientKept DEF vars, Inductive, TypeOK
    <2>2. LimitedForOwnCalls' /\ OldClientsKeepService'
      BY <1>5 DEF vars, Inductive, LimitedForOwnCalls, OldClientsKeepService
    <2>3. QED
      BY <1>1, <2>1, <2>2 DEF Inductive, ClientInvariant
  <1>6. QED
    BY <1>2, <1>3, <1>4, <1>5 DEF Next

\* The inductive invariant holds in every reachable state.
THEOREM Invariant == Spec => []Inductive
  BY InitInductive, StepInductive, PTL DEF Spec

-----------------------------------------------------------------------------
(* What it gives.                                                           *)

\* The list of a client holds all that its window counts, so the window never
\* holds more than Limit admissions.
LEMMA WindowBounded == Inductive => SlidingWindow
  <1> SUFFICES ASSUME Inductive, NEW c \in Clients
               PROVE  Cardinality(InWindow(log[c])) <= Limit
    BY DEF SlidingWindow
  <1>1. InWindow(log[c]) \subseteq buckets[c] /\ Cardinality(buckets[c]) <= Limit
    BY DEF Inductive, BucketOf
  <1>2. QED
    BY <1>1, RecentFinite, PartOf, RateAssumption

\* When the promised time has come the pruned list is part of what was to be
\* left of it.
LEMMA PlaceIsFree == Inductive => RetryAfterHonoured
  <1> SUFFICES ASSUME Inductive, NEW c \in Clients, promise[c] # 0, now >= promise[c]
               PROVE  Cardinality(Recent(c)) < Limit
    BY DEF RetryAfterHonoured
  <1>1. Recent(c) \subseteq StillHeld(c)
    BY RateAssumption DEF Recent, InWindow, StillHeld, Inductive, TypeOK, Admission
  <1>2. IsFiniteSet(StillHeld(c))
    BY RecentFinite, PartOf DEF StillHeld
  <1>3. Cardinality(StillHeld(c)) < Limit
    BY DEF Inductive, PromiseOf
  <1>4. QED
    BY <1>1, <1>2, <1>3, PartOf, RateAssumption

\* rate_limit.py keeps its types, Retry-After included.
THEOREM RateTypes == Spec => []TypeOK
  BY Invariant, PTL DEF Inductive

\* However many clients send however many requests, no window of any client
\* holds more than Limit requests that were let through, and a client is limited
\* for its own recent admissions only.
THEOREM WindowHolds == Spec => []WindowExact
  <1>1. Inductive => LimitedForOwnCalls
    BY DEF Inductive
  <1>2. Inductive => WindowExact
    BY <1>1, WindowBounded DEF WindowExact
  <1>3. QED
    BY <1>2, Invariant, PTL

\* A client that waits as long as Retry-After said finds a place.
THEOREM RetryAfterIsEnough == Spec => []RetryAfterHonoured
  BY Invariant, PlaceIsFree, PTL

\* A client that was let through once never meets the KeyError.
THEOREM ServedStayServed == Spec => []OldClientsKeepService
  BY Invariant, PTL DEF Inductive
\* No cleanup ever makes the table of clients smaller.
THEOREM NothingIsCleanedUp == Spec => ClientsAccumulate
  <1>1. ASSUME Inductive, [Next]_vars PROVE [known \subseteq known' \/ Restart]_vars
    <2>1. KeysAfterCleanup = known
      BY <1>1 DEF Inductive, TypeOK, RememberedOf, KeysAfterCleanup, KeptKeys
    <2>2. QED
      BY <1>1, <2>1 DEF Next, Dispatch, Admit, Refuse, Fail, Tick, vars
  <1>2. QED
    BY <1>1, Invariant, PTL DEF Spec, ClientsAccumulate
=============================================================================
