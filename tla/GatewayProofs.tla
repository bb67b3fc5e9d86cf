--------------------------- MODULE GatewayProofs ---------------------------
(***************************************************************************)
(* The application's promises for any number of requests, whatever they    *)
(* say, and the composition with the rate limiter: what the limiter's own  *)
(* proofs say of it holds between the other layers too.                    *)
(***************************************************************************)
EXTENDS Gateway, FiniteSetTheorems, TLAPS

-----------------------------------------------------------------------------
(* The inductive invariant.                                                 *)

Stages == {"away", "limiter", "auth", "routing", "handler", "answered"}
Layers == {"cors", "limiter", "auth", "routes"}
Codes == {200, 401, 403, 404, 422, 429, 500}

Typed ==
    /\ process \in {"down", "serving", "stopped"} /\ wired \in BOOLEAN
    /\ authEnabled \in BOOLEAN
    /\ msg \in [Requests -> Messages \cup {NoMessage}]
    /\ stage \in [Requests -> Stages]
    /\ status \in [Requests -> (Layers \X Codes) \cup {NoAnswer}]
    /\ since \in [Requests -> Int]
    /\ principal \in [Requests -> {"token", "proxy", "system-local-dev", NoPrincipal}]

\* The principal that a message calls for, when tokens are asked for.
Rightful(who, m) ==
    \/ who = "token" /\ m.token = "good"
    \/ who = "proxy" /\ m.token = "empty" /\ m.proxied
    \/ who = "system-local-dev" /\ m.token = "empty" /\ ~m.proxied

\* Whom a handler ran for is whom its message called for, or tokens are not asked for.
PrincipalOf(r) ==
    principal[r] # NoPrincipal =>
        /\ stage[r] \in {"handler", "answered"}
        /\ authEnabled => Rightful(principal[r], msg[r])

\* What a request has behind it where it is.
Way(r) ==
    /\ stage[r] = "answered" <=> status[r] # NoAnswer
    /\ stage[r] # "away" => msg[r] \in Messages
    /\ stage[r] \in {"away", "limiter"} => since[r] = -Window
    /\ stage[r] = "routing" => LetIn(msg[r])
    /\ InFlight(r) => process = "serving"
    /\ PrincipalOf(r)

Inv ==
    /\ Typed
    /\ process = "serving" => wired
    /\ \A r \in Requests : Way(r)

\* The invariant holds before the application starts.
LEMMA InitInv == Init => Inv
<1> SUFFICES ASSUME Init PROVE Inv
  OBVIOUS
<1>1. Typed
  <2>1. -Window \in Int
    BY LimiterAssumption
  <2>2. since \in [Requests -> Int]
    BY <2>1 DEF Init
  <2>3. stage \in [Requests -> Stages]
    BY DEF Init, Stages
  <2>4. /\ msg \in [Requests -> Messages \cup {NoMessage}]
        /\ status \in [Requests -> (Layers \X Codes) \cup {NoAnswer}]
        /\ principal \in [Requests -> {"token", "proxy", "system-local-dev", NoPrincipal}]
    BY DEF Init
  <2> QED
    BY <2>2, <2>3, <2>4 DEF Init, Typed
<1>2. ASSUME NEW r \in Requests PROVE Way(r)
  BY <1>2 DEF Init, Way, PrincipalOf, InFlight
<1> QED
  BY <1>1, <1>2 DEF Inv, Init

-----------------------------------------------------------------------------
(* Steps                                                                    *)

\* A request that a step is not about is where it was.
LEMMA OthersKept ==
    ASSUME Inv, NEW q \in Requests,
           stage'[q] = stage[q], status'[q] = status[q], since'[q] = since[q],
           msg'[q] = msg[q], principal'[q] = principal[q],
           authEnabled' = authEnabled, process' = process
    PROVE  Way(q)'
<1>1. Way(q)
  BY DEF Inv
<1> QED
  BY <1>1 DEF Way, PrincipalOf, Rightful, LetIn, InFlight

\* Starting, and stopping, keep the invariant: no request is under way then.
LEMMA StartInv ==
    ASSUME Inv, Start \/ Stop
    PROVE  Inv'
<1>1. UNCHANGED <<authEnabled, msg, stage, status, since, principal>>
  BY DEF Start, Stop, meters
<1>2. Typed'
  BY <1>1 DEF Inv, Typed, Start, Stop
<1>3. (process = "serving" => wired)'
  BY DEF Inv, Typed, Start, Stop
<1>4. ASSUME NEW r \in Requests PROVE Way(r)'
  <2>1. Way(r) /\ ~InFlight(r)
    BY DEF Inv, Way, Start, Stop
  <2> QED
    BY <1>1, <2>1 DEF Way, PrincipalOf, Rightful, LetIn, InFlight
<1> QED
  BY <1>2, <1>3, <1>4 DEF Inv

\* The requests of a step of the layers: one moves on, the others stay.
LEMMA ArriveInv ==
    ASSUME Inv, NEW r \in Requests, NEW m \in Messages, Arrive(r, m)
    PROVE  Inv'
<1>1. /\ UNCHANGED <<process, wired, authEnabled, since, principal>>
      /\ msg' = [msg EXCEPT ![r] = m]
      /\ process = "serving" /\ stage[r] = "away"
  BY DEF Arrive
<1>2. \/ /\ stage' = [stage EXCEPT ![r] = "answered"]
         /\ status' = [status EXCEPT ![r] = <<"cors", 200>>]
      \/ stage' = [stage EXCEPT ![r] = "limiter"] /\ UNCHANGED status
  BY DEF Arrive, Answer, Pass
<1>3. Typed'
  BY <1>1, <1>2 DEF Inv, Typed, Stages, Layers, Codes
<1>4. ASSUME NEW q \in Requests, q # r PROVE Way(q)'
  BY <1>1, <1>2, <1>4, OthersKept DEF Inv, Typed
<1>5. Way(r)'
  <2>1. Way(r)
    BY DEF Inv
  <2>2. <<"cors", 200>> # NoAnswer
    BY AnswerAssumption
  <2>3. msg'[r] = m
    BY <1>1 DEF Inv, Typed
  <2>4. CASE /\ stage' = [stage EXCEPT ![r] = "answered"]
             /\ status' = [status EXCEPT ![r] = <<"cors", 200>>]
    <3>1. stage'[r] = "answered" /\ status'[r] = <<"cors", 200>>
      BY <2>4 DEF Inv, Typed
    <3> QED
      BY <1>1, <2>1, <2>2, <2>3, <3>1 DEF Way, PrincipalOf, Rightful, InFlight
  <2>5. CASE stage' = [stage EXCEPT ![r] = "limiter"] /\ UNCHANGED status
    <3>1. stage'[r] = "limiter" /\ status'[r] = status[r]
      BY <2>5 DEF Inv, Typed
    <3> QED
      BY <1>1, <2>1, <2>3, <3>1 DEF Way, PrincipalOf, Rightful, InFlight
  <2> QED
    BY <1>2, <2>4, <2>5
<1> QED
  BY <1>1, <1>3, <1>4, <1>5 DEF Inv

\* What an answer does, and that no code of a layer is the absence of one.
LEMMA Answered ==
    ASSUME Inv, NEW r \in Requests, NEW layer \in Layers, NEW code \in Codes,
           Answer(r, layer, code)
    PROVE  /\ stage'[r] = "answered" /\ status'[r] = <<layer, code>> /\ status'[r] # NoAnswer
           /\ \A q \in Requests \ {r} : stage'[q] = stage[q] /\ status'[q] = status[q]
           /\ stage' \in [Requests -> Stages]
           /\ status' \in [Requests -> (Layers \X Codes) \cup {NoAnswer}]
<1>1. <<layer, code>> # NoAnswer
  BY AnswerAssumption DEF Layers, Codes
<1> QED
  BY <1>1 DEF Answer, Inv, Typed, Stages

\* A request that is let on changes its own stage and no answer.
LEMMA Passed ==
    ASSUME Inv, NEW r \in Requests, NEW next \in Stages, Pass(r, next)
    PROVE  /\ stage'[r] = next /\ UNCHANGED status
           /\ \A q \in Requests \ {r} : stage'[q] = stage[q]
           /\ stage' \in [Requests -> Stages]
  BY DEF Pass, Inv, Typed

\* Whatever the limiter does with a request, the invariant stays.
LEMMA LimiterInv ==
    ASSUME Inv, now \in Int, NEW r \in Requests, RateLimit(r)
    PROVE  Inv'
<1>1. /\ UNCHANGED <<process, wired, authEnabled, msg, principal>>
      /\ since' = [since EXCEPT ![r] = IF stage'[r] = "auth" THEN now ELSE @]
      /\ stage[r] = "limiter"
  BY DEF RateLimit
<1>2. Pass(r, "auth") \/ Answer(r, "limiter", 429) \/ Answer(r, "limiter", 500)
  BY DEF RateLimit
<1>3. /\ stage'[r] \in {"auth", "answered"}
      /\ stage'[r] = "answered" <=> status'[r] # NoAnswer
      /\ \A q \in Requests \ {r} : stage'[q] = stage[q] /\ status'[q] = status[q]
      /\ stage' \in [Requests -> Stages]
      /\ status' \in [Requests -> (Layers \X Codes) \cup {NoAnswer}]
  <2>1. status[r] = NoAnswer
    BY <1>1 DEF Inv, Way
  <2>2. CASE Pass(r, "auth")
    BY <2>1, <2>2, Passed DEF Stages, Inv, Typed
  <2>3. CASE Answer(r, "limiter", 429)
    BY <2>3, Answered DEF Layers, Codes
  <2>4. CASE Answer(r, "limiter", 500)
    BY <2>4, Answered DEF Layers, Codes
  <2> QED
    BY <1>2, <2>2, <2>3, <2>4
<1>4. Typed'
  BY <1>1, <1>3 DEF Inv, Typed
<1>5. ASSUME NEW q \in Requests, q # r PROVE Way(q)'
  BY <1>1, <1>3, <1>5, OthersKept DEF Inv, Typed
<1>6. Way(r)'
  BY <1>1, <1>3 DEF Inv, Way, PrincipalOf, Rightful, InFlight
<1> QED
  BY <1>1, <1>4, <1>5, <1>6 DEF Inv

\* Whatever the token check does with a request, the invariant stays.
LEMMA AuthenticateInv ==
    ASSUME Inv, NEW r \in Requests, Authenticate(r)
    PROVE  Inv'
<1>1. /\ UNCHANGED <<process, wired, authEnabled, msg, since, principal>>
      /\ stage[r] = "auth"
  BY DEF Authenticate
<1>2. \/ LetIn(msg[r]) /\ Pass(r, "routing")
      \/ Answer(r, "auth", 401)
  BY DEF Authenticate
<1>3. /\ \/ stage'[r] = "routing" /\ LetIn(msg[r])
         \/ stage'[r] = "answered"
      /\ stage'[r] = "answered" <=> status'[r] # NoAnswer
      /\ \A q \in Requests \ {r} : stage'[q] = stage[q] /\ status'[q] = status[q]
      /\ stage' \in [Requests -> Stages]
      /\ status' \in [Requests -> (Layers \X Codes) \cup {NoAnswer}]
  <2>1. status[r] = NoAnswer
    BY <1>1 DEF Inv, Way
  <2>2. CASE LetIn(msg[r]) /\ Pass(r, "routing")
    BY <2>1, <2>2, Passed DEF Stages, Inv, Typed
  <2>3. CASE Answer(r, "auth", 401)
    BY <2>3, Answered DEF Layers, Codes
  <2> QED
    BY <1>2, <2>2, <2>3
<1>4. Typed'
  BY <1>1, <1>3 DEF Inv, Typed
<1>5. ASSUME NEW q \in Requests, q # r PROVE Way(q)'
  BY <1>1, <1>3, <1>5, OthersKept DEF Inv, Typed
<1>6. Way(r)'
  <2>1. LetIn(msg[r]) => LetIn(msg[r])'
    BY <1>1 DEF LetIn
  <2> QED
    BY <1>1, <1>3, <2>1 DEF Inv, Way, PrincipalOf, Rightful, InFlight
<1> QED
  BY <1>1, <1>4, <1>5, <1>6 DEF Inv

\* A request that the token check let in runs for whom its message calls for.
LEMMA PrincipalRight ==
    ASSUME NEW m, LetIn(m), m.path = "api", m.proxied \in BOOLEAN
    PROVE  /\ CurrentPrincipal(m) \in {"token", "proxy", "system-local-dev"}
           /\ authEnabled => Rightful(CurrentPrincipal(m), m)
  BY DEF LetIn, CurrentPrincipal, HasClaims, Rightful

\* Finding a handler keeps the invariant; the principal is the one its message calls for.
LEMMA EnterInv ==
    ASSUME Inv, NEW r \in Requests, Enter(r)
    PROVE  Inv'
<1>1. /\ UNCHANGED <<process, wired, authEnabled, msg, since>>
      /\ stage[r] = "routing"
  BY DEF Enter
<1>2. \/ /\ UNCHANGED principal
         /\ Answer(r, "routes", 404) \/ Answer(r, "routes", 200) \/ Answer(r, "routes", 500)
      \/ /\ Pass(r, "handler") /\ msg[r].path = "api"
         /\ principal' = [principal EXCEPT ![r] = CurrentPrincipal(msg[r])]
  BY DEF Enter, Respond, Raise
<1>3. status[r] = NoAnswer /\ Way(r) /\ principal[r] = NoPrincipal
  BY <1>1 DEF Inv, Way, PrincipalOf
<1>4. CASE /\ UNCHANGED principal
           /\ Answer(r, "routes", 404) \/ Answer(r, "routes", 200) \/ Answer(r, "routes", 500)
  <2>1. /\ stage'[r] = "answered" /\ status'[r] # NoAnswer
        /\ \A q \in Requests \ {r} : stage'[q] = stage[q] /\ status'[q] = status[q]
        /\ stage' \in [Requests -> Stages]
        /\ status' \in [Requests -> (Layers \X Codes) \cup {NoAnswer}]
    <3>1. CASE Answer(r, "routes", 404)
      BY <3>1, Answered DEF Layers, Codes
    <3>2. CASE Answer(r, "routes", 200)
      BY <3>2, Answered DEF Layers, Codes
    <3>3. CASE Answer(r, "routes", 500)
      BY <3>3, Answered DEF Layers, Codes
    <3> QED
      BY <1>4, <3>1, <3>2, <3>3
  <2>2. Typed'
    BY <1>1, <1>4, <2>1 DEF Inv, Typed
  <2>3. ASSUME NEW q \in Requests, q # r PROVE Way(q)'
    BY <1>1, <1>4, <2>1, <2>3, OthersKept
  <2>4. Way(r)'
    BY <1>1, <1>3, <1>4, <2>1 DEF Way, PrincipalOf, Rightful, InFlight
  <2> QED
    BY <1>1, <2>2, <2>3, <2>4 DEF Inv
<1>5. CASE /\ Pass(r, "handler") /\ msg[r].path = "api"
           /\ principal' = [principal EXCEPT ![r] = CurrentPrincipal(msg[r])]
  <2>1. /\ stage'[r] = "handler" /\ UNCHANGED status
        /\ \A q \in Requests \ {r} : stage'[q] = stage[q]
        /\ stage' \in [Requests -> Stages]
    BY <1>5, Passed DEF Stages
  <2>2. /\ CurrentPrincipal(msg[r]) \in {"token", "proxy", "system-local-dev"}
        /\ authEnabled => Rightful(CurrentPrincipal(msg[r]), msg[r])
    <3>1. LetIn(msg[r]) /\ msg[r].proxied \in BOOLEAN
      BY <1>1, <1>3, MessageAssumption DEF Way, Message
    <3> QED
      BY <1>5, <3>1, PrincipalRight
  <2>3. /\ principal' \in [Requests -> {"token", "proxy", "system-local-dev", NoPrincipal}]
        /\ principal'[r] = CurrentPrincipal(msg[r])
        /\ \A q \in Requests \ {r} : principal'[q] = principal[q]
    BY <1>5, <2>2 DEF Inv, Typed
  <2>4. Typed'
    BY <1>1, <2>1, <2>3 DEF Inv, Typed
  <2>5. ASSUME NEW q \in Requests, q # r PROVE Way(q)'
    BY <1>1, <2>1, <2>3, <2>5, OthersKept
  <2>6. Way(r)'
    BY <1>1, <1>3, <2>1, <2>2, <2>3 DEF Way, PrincipalOf, Rightful, InFlight
  <2> QED
    BY <1>1, <2>4, <2>5, <2>6 DEF Inv
<1> QED
  BY <1>2, <1>4, <1>5

\* A handler that ends keeps the invariant.
LEMMA FinishInv ==
    ASSUME Inv, NEW r \in Requests, Finish(r)
    PROVE  Inv'
<1>1. /\ UNCHANGED <<process, wired, authEnabled, msg, since, principal>>
      /\ stage[r] = "handler"
  BY DEF Finish
<1>2. PICK code \in {200, 403, 422, 500} : Answer(r, "routes", code)
  BY DEF Finish, Respond, Raise
<1>3. /\ stage'[r] = "answered" /\ status'[r] # NoAnswer
      /\ \A q \in Requests \ {r} : stage'[q] = stage[q] /\ status'[q] = status[q]
      /\ stage' \in [Requests -> Stages]
      /\ status' \in [Requests -> (Layers \X Codes) \cup {NoAnswer}]
  <2>1. code \in Codes /\ "routes" \in Layers
    BY DEF Codes, Layers
  <2> QED
    BY <1>2, <2>1, Answered
<1>4. Typed'
  BY <1>1, <1>3 DEF Inv, Typed
<1>5. ASSUME NEW q \in Requests, q # r PROVE Way(q)'
  BY <1>1, <1>3, <1>5, OthersKept
<1>6. Way(r)'
  BY <1>1, <1>3 DEF Inv, Way, PrincipalOf, Rightful, InFlight
<1> QED
  BY <1>1, <1>4, <1>5, <1>6 DEF Inv

\* The clock touches no request.
LEMMA TickInv ==
    ASSUME Inv, Tick
    PROVE  Inv'
<1>1. UNCHANGED <<process, wired, authEnabled, msg, stage, status, since, principal>>
  BY DEF Tick, meters
<1>2. Typed'
  BY <1>1 DEF Inv, Typed
<1>3. ASSUME NEW r \in Requests PROVE Way(r)'
  BY <1>1, OthersKept
<1> QED
  BY <1>1, <1>2, <1>3 DEF Inv

\* Every step of the application keeps the invariant.
LEMMA StepInv ==
    ASSUME Inv, now \in Int, [Next]_vars
    PROVE  Inv'
<1>1. CASE UNCHANGED vars
  <2>1. UNCHANGED <<process, wired, authEnabled, msg, stage, status, since, principal>>
    BY <1>1 DEF vars
  <2>2. ASSUME NEW r \in Requests PROVE Way(r)'
    BY <2>1, OthersKept
  <2> QED
    BY <2>1, <2>2 DEF Inv, Typed
<1>2. CASE Next
  <2>1. ASSUME NEW r \in Requests, Step(r) PROVE Inv'
    BY <2>1, LimiterInv, AuthenticateInv, EnterInv, FinishInv DEF Step
  <2> QED
    BY <1>2, <2>1, StartInv, ArriveInv, TickInv DEF Next
<1> QED
  BY <1>1, <1>2

-----------------------------------------------------------------------------
(* The composition.  LP is the limiter with its proofs.                     *)

LP == INSTANCE RateLimitProofs

\* The two instances of RateLimit count with the same operator.
LEMMA SameCardinality ==
    \A S : /\ L!Cardinality(S) = LP!Cardinality(S)
           /\ LP!Cardinality(S) = Cardinality(S)
  BY DEF L!Cardinality, LP!Cardinality, Cardinality

\* The two instances of RateLimit keep the same recent requests of a client.
LEMMA SameRecent ==
    ASSUME NEW c
    PROVE  L!Recent(c) = LP!Recent(c)
  BY DEF L!Recent, LP!Recent, L!InWindow, LP!InWindow

\* The two instances of RateLimit clean up alike.
LEMMA SameCleanup ==
    /\ L!Cleanup <=> LP!Cleanup
    /\ L!KeysAfterCleanup = LP!KeysAfterCleanup
    /\ \A c : L!CanLookUp(c) <=> LP!CanLookUp(c)
<1>1. L!KeysAfterCleanup = LP!KeysAfterCleanup
  BY DEF L!KeysAfterCleanup, LP!KeysAfterCleanup, L!CleanupDue, LP!CleanupDue,
         L!KeptKeys, LP!KeptKeys
<1>2. L!IsDefaultAfterCleanup <=> LP!IsDefaultAfterCleanup
  BY DEF L!IsDefaultAfterCleanup, LP!IsDefaultAfterCleanup, L!CleanupDue, LP!CleanupDue
<1>3. L!IsDefaultAfterCleanup = LP!IsDefaultAfterCleanup
  BY DEF L!IsDefaultAfterCleanup, LP!IsDefaultAfterCleanup, L!CleanupDue, LP!CleanupDue
<1> QED
  BY <1>1, <1>2, <1>3 DEF L!Cleanup, LP!Cleanup, L!CanLookUp, LP!CanLookUp,
                         L!CleanupDue, LP!CleanupDue

\* The two instances of RateLimit promise by the same oldest request.
LEMMA SameOldest ==
    ASSUME NEW c
    PROVE  L!RetryAfter(c) = LP!RetryAfter(c)
  BY SameRecent DEF L!RetryAfter, LP!RetryAfter, L!Oldest, LP!Oldest

\* The two instances of RateLimit take the same steps.
LEMMA SameDispatch ==
    ASSUME NEW c
    PROVE  /\ L!Admit(c) => LP!Admit(c)
           /\ L!Refuse(c) => LP!Refuse(c)
           /\ L!Fail(c) => LP!Fail(c)
<1>1. ASSUME L!Admit(c) PROVE LP!Admit(c)
  BY <1>1, SameCardinality, SameRecent, SameCleanup DEF L!Admit, LP!Admit
<1>2. ASSUME L!Refuse(c) PROVE LP!Refuse(c)
  BY <1>2, SameCardinality, SameRecent, SameCleanup, SameOldest DEF L!Refuse, LP!Refuse
<1>3. ASSUME L!Fail(c) PROVE LP!Fail(c)
  BY <1>3, SameCleanup DEF L!Fail, LP!Fail
<1> QED
  BY <1>1, <1>2, <1>3

\* A request under way is one of the messages, so its client is one of the clients.
LEMMA ClientOf ==
    ASSUME Inv, NEW r \in Requests, stage[r] # "away"
    PROVE  msg[r] \in Message /\ msg[r].client \in Clients
<1>1. msg[r] \in Message
  BY MessageAssumption DEF Inv, Way
<1> QED
  BY <1>1 DEF Message

\* Every step of the application is one of the limiter's or leaves it alone.
LEMMA LimiterStep ==
    ASSUME Inv, [Next]_vars
    PROVE  [LP!Next]_LP!vars
<1>1. UNCHANGED limiter => UNCHANGED LP!vars
  BY DEF limiter, LP!vars
<1>2. ASSUME NEW r \in Requests, RateLimit(r) PROVE [LP!Next]_LP!vars
  <2>1. msg[r].client \in Clients
    BY <1>2, ClientOf DEF RateLimit
  <2>2. CASE UNCHANGED limiter
    BY <1>1, <2>2
  <2>3. CASE L!Admit(msg[r].client) \/ L!Refuse(msg[r].client) \/ L!Fail(msg[r].client)
    BY <2>1, <2>3, SameDispatch DEF LP!Next, LP!Dispatch
  <2> QED
    BY <1>2, <2>2, <2>3 DEF RateLimit
<1>3. ASSUME Tick PROVE [LP!Next]_LP!vars
  BY <1>3 DEF Tick, L!Tick, LP!Tick, LP!Next
<1>4. ASSUME NEW r \in Requests, Authenticate(r) \/ Enter(r) \/ Finish(r)
      PROVE  [LP!Next]_LP!vars
  BY <1>1, <1>4 DEF Authenticate, Enter, Finish
<1>5. ASSUME NEW r \in Requests, NEW m \in Messages, Arrive(r, m) PROVE [LP!Next]_LP!vars
  BY <1>1, <1>5 DEF Arrive
<1>6. ASSUME Start \/ Stop PROVE [LP!Next]_LP!vars
  BY <1>1, <1>6 DEF Start, Stop
<1>7. CASE UNCHANGED vars
  BY <1>1, <1>7 DEF vars
<1>8. CASE Next
  <2>1. ASSUME NEW r \in Requests, Step(r) PROVE [LP!Next]_LP!vars
    BY <2>1, <1>2, <1>4 DEF Step
  <2> QED
    BY <1>8, <2>1, <1>3, <1>5, <1>6 DEF Next
<1> QED
  BY <1>7, <1>8

\* The limiter of the application starts as the limiter alone.
LEMMA LimiterInit == Init => LP!Init
  BY DEF Init, L!Init, LP!Init

\* The assumptions of the application are those of the limiter.
LEMMA Constants == LP!RateAssumption
  BY LimiterAssumption DEF LP!RateAssumption

\* The layers and the limiter keep what they promise together.
Both == Inv /\ LP!Inductive

\* The invariants of the application and of the limiter hold at the start.
LEMMA BothInit == Init => Both
  BY Constants, InitInv, LimiterInit, LP!InitInductive DEF Both

\* Every step keeps the invariants of the application and of the limiter.
LEMMA BothStep == Both /\ [Next]_vars => Both'
<1> SUFFICES ASSUME Both, [Next]_vars PROVE Both'
  OBVIOUS
<1>1. now \in Int
  BY DEF Both, LP!Inductive, LP!TypeOK
<1>2. LP!Inductive'
  BY Constants, LimiterStep, LP!StepInductive DEF Both
<1> QED
  BY <1>1, <1>2, StepInv DEF Both

\* The invariants of the application and of the limiter hold always.
LEMMA BothHold == Spec => []Both
  BY BothInit, BothStep, PTL DEF Spec

-----------------------------------------------------------------------------
(* Counting: who got beyond the limiter is as many as it admitted.          *)

Beyond(c, k) ==
    {r \in Requests : since[r] > k /\ msg[r].client = c /\ msg[r].path # "probe"}
Logged(c, k) == {a \in log[c] : a.t > k}

Even(c, k) ==
    /\ IsFiniteSet(Beyond(c, k)) /\ IsFiniteSet(Logged(c, k))
    /\ Cardinality(Beyond(c, k)) = Cardinality(Logged(c, k))

Counts == \A c \in Clients, k \in Int : k >= -Window => Even(c, k)

\* At the start nobody has got beyond the limiter and nothing is logged.
LEMMA CountsInit == Init => Counts
<1> SUFFICES ASSUME Init, NEW c \in Clients, NEW k \in Int, k >= -Window
             PROVE  Even(c, k)
  BY DEF Counts
<1>1. Beyond(c, k) = {}
  BY LimiterAssumption DEF Init, Beyond
<1>2. Logged(c, k) = {}
  BY DEF Init, L!Init, Logged
<1> QED
  BY <1>1, <1>2, FS_EmptySet DEF Even

\* A step after which nobody is newly beyond, and nothing newly admitted.
LEMMA EvenKept ==
    ASSUME NEW c, NEW k, Even(c, k), log' = log, Beyond(c, k)' = Beyond(c, k)
    PROVE  Even(c, k)'
<1>1. Logged(c, k)' = Logged(c, k)
  BY DEF Logged
<1> QED
  BY <1>1 DEF Even

\* A request that is let on is one more in the log and one more beyond the limiter.
LEMMA AdmitCounts ==
    ASSUME Both, Counts, NEW r \in Requests, RateLimit(r), msg[r].path # "probe",
           L!Admit(msg[r].client), Pass(r, "auth"),
           NEW c \in Clients, NEW k \in Int, k >= -Window
    PROVE  Even(c, k)'
<1> DEFINE d == msg[r].client
           a == [n |-> served[d], t |-> now]
<1>1. /\ since' = [since EXCEPT ![r] = now] /\ UNCHANGED msg
      /\ since[r] = -Window
  <2>1. stage'[r] = "auth"
    BY Passed DEF Both, Stages
  <2> QED
    BY <2>1 DEF RateLimit, Both, Inv, Way
<1>2. /\ d \in Clients /\ now \in Nat
      /\ log' = [log EXCEPT ![d] = @ \cup {a}]
      /\ log \in [Clients -> SUBSET LP!Admission]
  BY ClientOf DEF Both, RateLimit, L!Admit, LP!Inductive, LP!TypeOK
<1>3. a \notin log[d]
  <2>1. \A b \in log[d] : b.n < served[d]
    BY <1>2 DEF Both, LP!Inductive, LP!LogOf
  <2>2. served[d] \in Nat
    BY <1>2 DEF Both, LP!Inductive, LP!TypeOK
  <2> QED
    BY <2>1, <2>2
<1>4. Even(c, k) /\ r \notin Beyond(c, k) /\ since \in [Requests -> Int]
  <2>1. since \in [Requests -> Int]
    BY DEF Both, Inv, Typed
  <2> QED
    BY <1>1, <2>1, LimiterAssumption DEF Counts, Beyond
<1>5. CASE c = d /\ k < now
  <2>1. Beyond(c, k)' = Beyond(c, k) \cup {r}
    BY <1>1, <1>2, <1>4, <1>5 DEF Beyond
  <2>2. Logged(c, k)' = Logged(c, k) \cup {a} /\ a \notin Logged(c, k)
    BY <1>2, <1>3, <1>5 DEF Logged
  <2>3. /\ IsFiniteSet(Beyond(c, k) \cup {r})
        /\ Cardinality(Beyond(c, k) \cup {r}) = Cardinality(Beyond(c, k)) + 1
    BY <1>4, FS_AddElement DEF Even
  <2>4. /\ IsFiniteSet(Logged(c, k) \cup {a})
        /\ Cardinality(Logged(c, k) \cup {a}) = Cardinality(Logged(c, k)) + 1
    BY <1>4, <2>2, FS_AddElement DEF Even
  <2> QED
    BY <1>4, <2>1, <2>2, <2>3, <2>4 DEF Even
<1>6. CASE ~(c = d /\ k < now)
  <2>1. Beyond(c, k)' = Beyond(c, k)
    BY <1>1, <1>2, <1>4, <1>6 DEF Beyond
  <2>2. Logged(c, k)' = Logged(c, k)
    BY <1>2, <1>6 DEF Logged
  <2> QED
    BY <1>4, <2>1, <2>2 DEF Even
<1> QED
  BY <1>5, <1>6

\* A probe gets beyond without being counted, a refused request does not get there.
LEMMA OtherLimits ==
    ASSUME Both, NEW r \in Requests, RateLimit(r),
           ~(msg[r].path # "probe" /\ L!Admit(msg[r].client) /\ Pass(r, "auth")),
           NEW c \in Clients, NEW k \in Int, k >= -Window
    PROVE  log' = log /\ Beyond(c, k)' = Beyond(c, k)
<1>1. /\ since \in [Requests -> Int] /\ since[r] = -Window /\ UNCHANGED msg
      /\ since' = [since EXCEPT ![r] = IF stage'[r] = "auth" THEN now ELSE @]
  BY DEF RateLimit, Both, Inv, Typed, Way
<1>2. CASE SkipsLimiter(msg[r]) /\ UNCHANGED limiter
  BY <1>1, <1>2, LimiterAssumption DEF SkipsLimiter, limiter, Beyond
<1>3. CASE /\ L!Refuse(msg[r].client) \/ L!Fail(msg[r].client)
           /\ Answer(r, "limiter", 429) \/ Answer(r, "limiter", 500)
  <2>1. stage'[r] = "answered"
    BY <1>3, Answered DEF Both, Layers, Codes
  <2>2. since' = since
    BY <1>1, <2>1
  <2>3. log' = log
    BY <1>3 DEF L!Refuse, L!Fail
  <2> QED
    BY <1>1, <2>2, <2>3 DEF Beyond
<1> QED
  BY <1>2, <1>3 DEF RateLimit, SkipsLimiter

\* A request that arrives is not beyond yet.
LEMMA ArriveCounts ==
    ASSUME Both, NEW r \in Requests, NEW m \in Messages, Arrive(r, m),
           NEW c \in Clients, NEW k \in Int, k >= -Window
    PROVE  log' = log /\ Beyond(c, k)' = Beyond(c, k)
<1>1. /\ UNCHANGED <<since, limiter>> /\ msg' = [msg EXCEPT ![r] = m]
      /\ since[r] = -Window /\ msg \in [Requests -> Messages \cup {NoMessage}]
  BY DEF Arrive, Both, Inv, Way, Typed
<1>2. ~(since[r] > k)
  BY <1>1, LimiterAssumption
<1> QED
  BY <1>1, <1>2 DEF Beyond, limiter

\* Requests beyond the limiter and entries of its log stay as many.
LEMMA CountsStep == Both /\ Counts /\ [Next]_vars => Counts'
<1> SUFFICES ASSUME Both, Counts, [Next]_vars, NEW c \in Clients, NEW k \in Int, k >= -Window
             PROVE  Even(c, k)'
  BY DEF Counts
<1>1. Even(c, k)
  BY DEF Counts
<1>2. ASSUME NEW r \in Requests, RateLimit(r) PROVE Even(c, k)'
  BY <1>1, <1>2, AdmitCounts, OtherLimits, EvenKept
<1>3. ASSUME NEW r \in Requests, NEW m \in Messages, Arrive(r, m) PROVE Even(c, k)'
  BY <1>1, <1>3, ArriveCounts, EvenKept
<1>4. CASE UNCHANGED <<since, msg, log>>
  BY <1>1, <1>4, EvenKept DEF Beyond
<1>5. ASSUME NEW r \in Requests, Authenticate(r) \/ Enter(r) \/ Finish(r)
      PROVE  UNCHANGED <<since, msg, log>>
  BY <1>5 DEF Authenticate, Enter, Finish, limiter
<1>6. ASSUME Start \/ Stop \/ Tick PROVE UNCHANGED <<since, msg, log>>
  BY <1>6 DEF Start, Stop, Tick, L!Tick, limiter
<1>7. UNCHANGED vars => UNCHANGED <<since, msg, log>>
  BY DEF vars, limiter
<1> QED
  BY <1>2, <1>3, <1>4, <1>5, <1>6, <1>7 DEF Next, Step

\* What bounds the log bounds the requests beyond the limiter.
LEMMA CountsGive == Both /\ Counts => BeyondWithinLimit
<1> SUFFICES ASSUME Both, Counts, NEW c \in Clients
             PROVE  Cardinality(Beyond(c, now - Window)) <= Limit
  BY DEF BeyondWithinLimit, Beyond
<1>1. now - Window \in Int /\ now - Window >= -Window
  BY LimiterAssumption DEF Both, LP!Inductive, LP!TypeOK
<1>2. Cardinality(Beyond(c, now - Window)) = Cardinality(Logged(c, now - Window))
  BY <1>1 DEF Counts, Even
<1>3. Logged(c, now - Window) = LP!InWindow(log[c])
  BY DEF Logged, LP!InWindow
<1>4. LP!Cardinality(LP!InWindow(log[c])) <= Limit
  BY Constants, LP!WindowBounded DEF Both, LP!SlidingWindow
<1> QED
  BY <1>2, <1>3, <1>4, SameCardinality

-----------------------------------------------------------------------------
(* Theorems                                                                 *)

\* Every step of a request moves the timer at least as far as the counter.
Metered == timed \in Nat /\ counted \in 0 .. timed

\* Both move together, or the timer alone.
Observed == timed' = timed + 1 /\ counted' \in {counted, counted + 1}

\* Only what the routes end moves the meters, and no counter overtakes the timer.
LEMMA MeteredStep == Metered /\ [Next]_vars => Metered'
<1> SUFFICES ASSUME Metered, [Next]_vars PROVE Metered'
  OBVIOUS
<1>1. CASE UNCHANGED meters
  BY <1>1 DEF Metered, meters
<1>2. CASE Observed
  BY <1>2 DEF Metered, Observed
<1>3. ASSUME NEW r \in Requests, Enter(r) PROVE UNCHANGED meters \/ Observed
  BY <1>3 DEF Enter, Respond, Raise, Observed
<1>4. ASSUME NEW r \in Requests, Finish(r) PROVE Observed
  BY <1>4 DEF Finish, Respond, Raise, Observed
<1>5. ASSUME NEW r \in Requests, RateLimit(r) \/ Authenticate(r) PROVE UNCHANGED meters
  BY <1>5 DEF RateLimit, Authenticate
<1>6. ASSUME NEW r \in Requests, NEW m \in Messages, Arrive(r, m) PROVE UNCHANGED meters
  BY <1>6 DEF Arrive
<1>7. Start \/ Stop \/ Tick \/ UNCHANGED vars => UNCHANGED meters
  BY DEF Start, Stop, Tick, vars
<1> QED
  BY <1>1, <1>2, <1>3, <1>4, <1>5, <1>6, <1>7 DEF Next, Step

\* The types, what an answer is, and that a process that stopped has left no request.
THEOREM GatewayTypes == Spec => []TypeOK
<1>1. Inv /\ Metered => TypeOK
  BY DEF Inv, Typed, Metered, Way, InFlight, Stages, TypeOK
<1>3. Init => Metered
  BY DEF Init, Metered
<1>2. Both => Inv
  BY DEF Both
<1> QED
  BY <1>1, <1>2, <1>3, BothHold, MeteredStep, PTL DEF Spec

\* Every behaviour of the application is one of the limiter alone: no layer and no
\* interleaving with them disturbs it.
THEOREM LimiterComposed == Spec => LP!Spec
<1>1. Both /\ [Next]_vars => [LP!Next]_LP!vars
  BY LimiterStep DEF Both
<1> QED
  BY <1>1, BothHold, LimiterInit, PTL DEF Spec, LP!Spec

\* In no window do more than Limit of a client's requests get beyond the limiter.
THEOREM BeyondHolds == Spec => []BeyondWithinLimit
  BY BothHold, CountsInit, CountsStep, CountsGive, PTL DEF Spec

\* A handler runs for the subject of a checked token whenever tokens are asked for,
\* unless the token names nobody.
THEOREM PrincipalHolds == Spec => []PrincipalIsTokens
<1>1. Both => PrincipalIsTokens
  BY DEF Both, Inv, Way, PrincipalOf, Rightful, PrincipalIsTokens
<1> QED
  BY <1>1, BothHold, PTL

\* No request is under way in a process whose services are not wired, and so each
\* handler runs in its place.
THEOREM HandlersHold == Spec => []HandlersInPlace
<1>1. Both => ServedByWired
  BY DEF Both, Inv, Way, ServedByWired
<1> QED
  BY <1>1, BothHold, PrincipalHolds, PTL DEF HandlersInPlace
=============================================================================
