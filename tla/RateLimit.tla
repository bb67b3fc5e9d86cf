----------------------------- MODULE RateLimit -----------------------------
(***************************************************************************)
(* RateLimitMiddleware: one process, a list of admission times per client  *)
(* address.  dispatch has no await before call_next, so a dispatch is one  *)
(* step; the clock moves between them.  A bucket is the set of its         *)
(* admissions, numbered so that two at one instant stay two; its list is   *)
(* in time order, so its first element is the one with the least time.     *)
(***************************************************************************)
EXTENDS Integers, FiniteSets

CONSTANTS
    Clients,        \* client addresses; "unknown" is one of them
    Limit,          \* calls_per_minute
    Window,         \* window_seconds, in ticks
    CleanupPeriod,  \* 300 seconds, in ticks
    Second,         \* ticks in a second
    MaxTime         \* bound: the clock stops here

ASSUME RateAssumption ==
    /\ Limit \in Nat \ {0}
    /\ Window \in Nat \ {0}
    /\ CleanupPeriod \in Nat
    /\ Second \in Nat \ {0}
    /\ MaxTime \in Nat

VARIABLES
    now,          \* time.monotonic()
    buckets,      \* [Clients -> set of admissions]
    known,        \* the keys of _buckets
    isDefault,    \* _buckets is still a defaultdict
    lastCleanup,
    served,       \* number of admissions of each client: numbers the next one
    log,          \* every admission of this process (for the properties)
    promise,      \* when a limited client was told to come back, or 0
    last          \* the client, outcome and time of the last dispatch

vars == <<now, buckets, known, isDefault, lastCleanup, served, log, promise, last>>

Admission == [n: Nat, t: Nat]
Outcomes == {"none", "admitted", "limited", "error"}

TypeOK ==
    /\ now \in Nat
    /\ buckets \in [Clients -> SUBSET Admission]
    /\ known \subseteq Clients
    /\ isDefault \in BOOLEAN
    /\ lastCleanup \in Nat
    /\ served \in [Clients -> Nat]
    /\ log \in [Clients -> SUBSET Admission]
    /\ promise \in [Clients -> Nat]
    /\ last \in [client: Clients \cup {"none"}, outcome: Outcomes, at: Nat]

\* A fresh middleware, at start.
Init ==
    /\ buckets = [c \in Clients |-> {}]
    /\ known = {}
    /\ isDefault = TRUE
    /\ served = [c \in Clients |-> 0]
    /\ log = [c \in Clients |-> {}]
    /\ promise = [c \in Clients |-> 0]
    /\ last = [client |-> "none", outcome |-> "none", at |-> 0]
    /\ now = 0
    /\ lastCleanup = 0

-----------------------------------------------------------------------------
\* The admissions of a set that the window still holds.
InWindow(admissions) == { a \in admissions : a.t > now - Window }

\* Mutant: an entry leaves the bucket one tick early.
RecentTooShort(c) == { a \in buckets[c] : a.t > now - Window + 1 }

Recent(c) == InWindow(buckets[c])

CleanupDue == now - lastCleanup > CleanupPeriod

\* The comprehension keeps the keys with a non-empty list, in a plain dict.
KeptKeys == { c \in known : buckets[c] # {} }

\* Mutant: the cleanup drops the clients with nothing in the window.
KeysAfterPruning == IF CleanupDue THEN { c \in known : Recent(c) # {} } ELSE known

KeysAfterCleanup == IF CleanupDue THEN KeptKeys ELSE known
IsDefaultAfterCleanup == isDefault /\ ~CleanupDue

Cleanup ==
    /\ isDefault' = IsDefaultAfterCleanup
    /\ lastCleanup' = IF CleanupDue THEN now ELSE lastCleanup

\* Looking a client up: a defaultdict makes the missing key, a dict raises.
CanLookUp(c) == c \in KeysAfterCleanup \/ IsDefaultAfterCleanup

Admit(c) ==
    /\ CanLookUp(c)
    /\ Cardinality(Recent(c)) < Limit
    /\ LET a == [n |-> served[c], t |-> now]
       IN  /\ buckets' = [buckets EXCEPT ![c] = Recent(c) \cup {a}]
           /\ log' = [log EXCEPT ![c] = @ \cup {a}]
    /\ known' = KeysAfterCleanup \cup {c}
    /\ served' = [served EXCEPT ![c] = @ + 1]
    /\ promise' = [promise EXCEPT ![c] = 0]
    /\ last' = [client |-> c, outcome |-> "admitted", at |-> now]
    /\ Cleanup
    /\ UNCHANGED now

\* bucket[0]
Oldest(c) == CHOOSE a \in Recent(c) : \A b \in Recent(c) : a.t <= b.t

\* Mutant: the seconds are not rounded up.
RetryAfterFloor(c) == (Window - (now - Oldest(c).t)) \div Second

\* Mutant: the subtraction is the wrong way round.
RetryAfterReversed(c) == (((now - Oldest(c).t) - Window) \div Second) + 1

\* int(window - (now - oldest)) + 1, in seconds
RetryAfter(c) == ((Window - (now - Oldest(c).t)) \div Second) + 1

\* HTTP 429.  The pruned list is not stored; the key was made if need be.
Refuse(c) ==
    /\ CanLookUp(c)
    /\ Cardinality(Recent(c)) >= Limit
    /\ known' = KeysAfterCleanup \cup {c}
    /\ promise' = [promise EXCEPT ![c] = now + RetryAfter(c) * Second]
    /\ last' = [client |-> c, outcome |-> "limited", at |-> now]
    /\ Cleanup
    /\ UNCHANGED <<now, buckets, served, log>>

\* KeyError: the middleware raises and the client gets a 500.
Fail(c) ==
    /\ ~CanLookUp(c)
    /\ known' = KeysAfterCleanup
    /\ last' = [client |-> c, outcome |-> "error", at |-> now]
    /\ Cleanup
    /\ UNCHANGED <<now, buckets, served, log, promise>>

Tick ==
    /\ now < MaxTime
    /\ now' = now + 1
    /\ UNCHANGED <<buckets, known, isDefault, lastCleanup, served, log, promise, last>>

\* The buckets live in the process: a restart forgets them all.
Restart ==
    /\ buckets' = [c \in Clients |-> {}]
    /\ known' = {}
    /\ isDefault' = TRUE
    /\ served' = [c \in Clients |-> 0]
    /\ log' = [c \in Clients |-> {}]
    /\ promise' = [c \in Clients |-> 0]
    /\ last' = [client |-> "none", outcome |-> "none", at |-> 0]
    /\ lastCleanup' = now
    /\ UNCHANGED now

Dispatch(c) == Admit(c) \/ Refuse(c) \/ Fail(c)

Next == Tick \/ Restart \/ \E c \in Clients : Dispatch(c)

Spec == Init /\ [][Next]_vars

-----------------------------------------------------------------------------
(* Properties.                                                              *)

\* However the requests of a client are spread, any window holds at most Limit
\* of those that were let through: the pruned list loses no admission that
\* still counts.
SlidingWindow == \A c \in Clients : Cardinality(InWindow(log[c])) <= Limit

\* A client that waits as long as Retry-After said, and sends nothing in
\* between, has a free place.
RetryAfterHonoured ==
    \A c \in Clients :
        promise[c] # 0 /\ now >= promise[c] => Cardinality(Recent(c)) < Limit

\* Nobody is limited for what other clients sent, for requests that were
\* themselves limited, or for admissions the window has passed: when a client
\* was limited, Limit of its own admissions were younger than the window.
LimitedForOwnCalls ==
    last.outcome = "limited" =>
        Cardinality({ a \in log[last.client] : a.t > last.at - Window }) >= Limit

\* The window is exact, on both sides: nobody gets more than Limit into one, and
\* nobody is limited for less.
WindowExact == SlidingWindow /\ LimitedForOwnCalls

\* A client that was let through once is never met by the KeyError, however
\* long it was silent and however often the cleanup ran.
OldClientsKeepService ==
    last.outcome = "error" => log[last.client] = {}

\* The cleanup forgets no client, so the table of addresses only grows until
\* the process restarts: what the cleanup is there for never happens.
ClientsAccumulate == [][ known \subseteq known' \/ Restart ]_vars

\* "Sliding-window per-IP rate limiting" and the test that lets every request
\* under the limit through: once a cleanup has run, a client not seen before
\* gets an error instead.
NewClientsAreServed == last.outcome # "error"
=============================================================================
