------------------------------ MODULE Gateway ------------------------------
(***************************************************************************)
(* The way of a request through the application (main.py): CORS, the rate  *)
(* limiter, the token check, the meters and the handler, each of which may *)
(* let other requests run before it calls the next.  The limiter is the    *)
(* module RateLimit, whose variables these are too.                        *)
(***************************************************************************)
EXTENDS Integers, FiniteSets

CONSTANTS
    Requests, Messages, NoMessage, NoPrincipal, NoAnswer,
    Clients, Limit, Window, CleanupPeriod, Second, MaxTime

VARIABLES
    process,     \* "down", "serving" or "stopped"
    wired,       \* app.dependency_overrides has the services
    authEnabled, \* INSFORGE_AUTH_ENABLED, which is read once
    msg, stage,
    status,      \* the code of the answer and the layer that gave it
    since,       \* when a request got beyond the limiter (for the properties)
    principal,   \* whom a handler runs for
    timed,       \* observations of _REQUEST_LATENCY
    counted,     \* _REQUEST_COUNT
    now, buckets, known, isDefault, lastCleanup, served, log, promise, last

limiter == <<now, buckets, known, isDefault, lastCleanup, served, log, promise, last>>
meters == <<timed, counted>>
vars == <<process, wired, authEnabled, msg, stage, status, since, principal, meters, limiter>>

L == INSTANCE RateLimit

\* What the layers read of a request.  An "api" path asks for a principal and a
\* context, a "page" is the front end's, a "probe" is skipped by two layers.
Message ==
    [client : Clients, preflight : BOOLEAN,
     path : {"probe", "docs", "api", "page", "unknown"},
     token : {"none", "bad", "empty", "good"},  \* "empty": it verifies, and its payload is {}
     proxied : BOOLEAN,                        \* X-Principal-ID is there
     scope : {"none", "valid", "invalid"}]     \* X-Approval-Scope

ASSUME MessageAssumption == Messages \subseteq Message
ASSUME LimiterAssumption ==
    /\ Limit \in Nat \ {0} /\ Window \in Nat \ {0} /\ Second \in Nat \ {0}
    /\ CleanupPeriod \in Nat /\ MaxTime \in Nat
ASSUME AnswerAssumption == NoAnswer \notin {"cors", "limiter", "auth", "routes"} \X Nat

-----------------------------------------------------------------------------
(* The application *)

\* The tables are made, which may fail, and the services wired; then it serves.
Start ==
    /\ process = "down"
    /\ \/ process' = "serving" /\ wired' = TRUE
       \/ process' = "stopped" /\ UNCHANGED wired
    /\ UNCHANGED <<authEnabled, msg, stage, status, since, principal, meters, limiter>>

InFlight(r) == stage[r] \in {"limiter", "auth", "routing", "handler"}

\* The server lets its requests end before the application is told to.
Stop ==
    /\ process = "serving" /\ \A r \in Requests : ~InFlight(r)
    /\ process' = "stopped" /\ wired' = FALSE
    /\ UNCHANGED <<authEnabled, msg, stage, status, since, principal, meters, limiter>>

-----------------------------------------------------------------------------
(* The layers *)

Answer(r, layer, code) ==
    /\ stage' = [stage EXCEPT ![r] = "answered"]
    /\ status' = [status EXCEPT ![r] = <<layer, code>>]

Pass(r, next) == stage' = [stage EXCEPT ![r] = next] /\ UNCHANGED status

\* CORS answers a preflight itself.
Arrive(r, m) ==
    /\ process = "serving" /\ stage[r] = "away"
    /\ msg' = [msg EXCEPT ![r] = m]
    /\ IF m.preflight THEN Answer(r, "cors", 200) ELSE Pass(r, "limiter")
    /\ UNCHANGED <<process, wired, authEnabled, since, principal, meters, limiter>>

\* Mutant: the limiter skips what the token check skips.
SkipsLimiterAsBypass(m) == m.path \in {"probe", "docs"}

SkipsLimiter(m) == m.path = "probe"

\* Mutant: an exception of the limiter ends in nothing.
RateLimitUncaught(r) ==
    /\ stage[r] = "limiter"
    /\ \/ SkipsLimiter(msg[r]) /\ Pass(r, "auth") /\ UNCHANGED limiter
       \/ ~SkipsLimiter(msg[r]) /\ L!Admit(msg[r].client) /\ Pass(r, "auth")
       \/ ~SkipsLimiter(msg[r]) /\ L!Refuse(msg[r].client) /\ Answer(r, "limiter", 429)
    /\ since' = [since EXCEPT ![r] = IF stage'[r] = "auth" THEN now ELSE @]
    /\ UNCHANGED <<process, wired, authEnabled, msg, principal, meters>>

RateLimit(r) ==
    /\ stage[r] = "limiter"
    /\ \/ SkipsLimiter(msg[r]) /\ Pass(r, "auth") /\ UNCHANGED limiter
       \/ ~SkipsLimiter(msg[r]) /\ L!Admit(msg[r].client) /\ Pass(r, "auth")
       \/ ~SkipsLimiter(msg[r]) /\ L!Refuse(msg[r].client) /\ Answer(r, "limiter", 429)
       \/ ~SkipsLimiter(msg[r]) /\ L!Fail(msg[r].client) /\ Answer(r, "limiter", 500)
    /\ since' = [since EXCEPT ![r] = IF stage'[r] = "auth" THEN now ELSE @]
    /\ UNCHANGED <<process, wired, authEnabled, msg, principal, meters>>

\* Mutant: a proxy's word is taken for a token.
LetInProxied(m) ==
    ~authEnabled \/ m.path \in {"probe", "docs"} \/ m.token \in {"empty", "good"} \/ m.proxied

LetIn(m) == ~authEnabled \/ m.path \in {"probe", "docs"} \/ m.token \in {"empty", "good"}

Authenticate(r) ==
    /\ stage[r] = "auth"
    /\ IF LetIn(msg[r]) THEN Pass(r, "routing") ELSE Answer(r, "auth", 401)
    /\ UNCHANGED <<process, wired, authEnabled, msg, since, principal, meters, limiter>>

\* The claims are those of a token that was checked; a dict without any is passed
\* over like a missing one.
HasClaims(m) == authEnabled /\ m.path \notin {"probe", "docs"} /\ m.token = "good"

CurrentPrincipal(m) ==
    IF HasClaims(m) THEN "token" ELSE IF m.proxied THEN "proxy" ELSE "system-local-dev"

\* An exception passes the meters: it is timed and not counted, and becomes a 500
\* outside of all the layers.
Raise(r) == Answer(r, "routes", 500) /\ timed' = timed + 1 /\ UNCHANGED counted

Respond(r, code) == Answer(r, "routes", code) /\ timed' = timed + 1 /\ counted' = counted + 1

\* The handler's parameters: its service, its principal and its context, of which
\* the approval scope must be one of the four.
Enter(r) ==
    /\ stage[r] = "routing"
    /\ IF msg[r].path # "api"
       THEN Respond(r, IF msg[r].path = "unknown" THEN 404 ELSE 200) /\ UNCHANGED principal
       ELSE IF ~wired \/ msg[r].scope = "invalid" THEN Raise(r) /\ UNCHANGED principal
       ELSE /\ Pass(r, "handler") /\ UNCHANGED meters
            /\ principal' = [principal EXCEPT ![r] = CurrentPrincipal(msg[r])]
    /\ UNCHANGED <<process, wired, authEnabled, msg, since, limiter>>

Finish(r) ==
    /\ stage[r] = "handler"
    /\ (\E code \in {200, 403, 422} : Respond(r, code)) \/ Raise(r)
    /\ UNCHANGED <<process, wired, authEnabled, msg, since, principal, limiter>>

Tick ==
    /\ process = "serving" /\ L!Tick
    /\ UNCHANGED <<process, wired, authEnabled, msg, stage, status, since, principal, meters>>

-----------------------------------------------------------------------------

Init ==
    /\ process = "down" /\ wired = FALSE /\ authEnabled \in BOOLEAN
    /\ msg = [r \in Requests |-> NoMessage]
    /\ stage = [r \in Requests |-> "away"]
    /\ status = [r \in Requests |-> NoAnswer]
    /\ since = [r \in Requests |-> -Window]
    /\ principal = [r \in Requests |-> NoPrincipal]
    /\ timed = 0 /\ counted = 0
    /\ L!Init

Step(r) == RateLimit(r) \/ Authenticate(r) \/ Enter(r) \/ Finish(r)

Next ==
    \/ Start \/ Stop \/ Tick
    \/ \E r \in Requests : Step(r) \/ \E m \in Messages : Arrive(r, m)

\* The event loop takes up every request again, and every call that a handler
\* waits for has a timeout.
Spec == Init /\ [][Next]_vars /\ \A r \in Requests : WF_vars(Step(r))

-----------------------------------------------------------------------------
(* Properties *)

\* Every variable has its type; who has not been answered has no status, and a
\* process that is not serving has no request under way.
TypeOK ==
    /\ process \in {"down", "serving", "stopped"} /\ wired \in BOOLEAN
    /\ msg \in [Requests -> Messages \cup {NoMessage}]
    /\ stage \in [Requests -> {"away", "limiter", "auth", "routing", "handler", "answered"}]
    /\ principal \in [Requests -> {"token", "proxy", "system-local-dev", NoPrincipal}]
    /\ timed \in Nat /\ counted \in 0 .. timed
    /\ \A r \in Requests : stage[r] = "answered" <=> status[r] # NoAnswer
    /\ process # "serving" => \A r \in Requests : ~InFlight(r)

\* When tokens are asked for, nobody's handler runs without one that was checked,
\* and what it claims wins over every header.  Only a token that claims nothing
\* leaves the choice to the headers and, without them, to the developer's own
\* principal, an admin, which the docstring excludes (auth_deps.py:53-54, 92-94).
PrincipalIsTokens ==
    \A r \in Requests : principal[r] # NoPrincipal /\ authEnabled =>
        \/ principal[r] = "token" /\ msg[r].token = "good"
        \/ principal[r] = "proxy" /\ msg[r].token = "empty" /\ msg[r].proxied
        \/ principal[r] = "system-local-dev" /\ msg[r].token = "empty" /\ ~msg[r].proxied

\* Layers cannot be played off against each other: in no window do more than
\* Limit of a client's requests get beyond the limiter, but for the probes, though
\* each stops at every layer for others to overtake it, and whether or not they
\* have a token.
BeyondWithinLimit ==
    \A c \in Clients :
        Cardinality({r \in Requests : /\ since[r] > now - Window
                                      /\ msg[r].client = c /\ msg[r].path # "probe"}) <= Limit

\* No request is handled by a service that was not wired, from the start of the
\* process to its end.
ServedByWired == \A r \in Requests : InFlight(r) => wired

\* A handler runs in its place: for whom the token names, if it names anyone, over
\* the services that the start of the process wired.
HandlersInPlace == PrincipalIsTokens /\ ServedByWired

\* Whoever gets in is answered: an exception of any layer too.
EveryRequestAnswered ==
    \A r \in Requests : (stage[r] = "limiter") ~> (stage[r] = "answered")

=============================================================================
