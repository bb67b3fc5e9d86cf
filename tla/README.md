# Verification of the Race AI Copilot

TLA+ models of the Race AI Copilot, the TLC runs that check them and the TLAPS
proofs about them.  Paths below are relative to the repository root;
`B` stands for `backend/src/race_ai_copilot`.

## 1. Inventory

The copilot is a FastAPI service with a React client.  A request passes CORS, the
rate limiter, authentication and a metrics middleware, gets a principal and a
tenant, and runs one service.  Only three parts keep state: the conversation table,
the rate limiter's table of addresses and the client's chat store.  The rest is
sequential code over its arguments.

| Component | State | Operations | Interacts with | What makes it correct |
|---|---|---|---|---|
| Chat pipeline, `B/services/chat_service.py` | locals of one coroutine per request | `answer`: load, save, classify, retrieve, plan, gate, call tools, evidence, compose, guard, save, reply | store, guardrails, language model, RAG/CAG, tool gateway | no tool acts without its approval; a refusal leaves no effect; replies say what was withheld; every request ends |
| Conversation store, `B/conversation_store.py` | table `conversation_turns` (SQLite or PostgreSQL) | `init_conversation_db`, `save_turn`, `load_history` | pipeline | histories stay in their tenant and conversation, contain what was answered before, and lose nothing committed |
| Guardrails, `B/guardrails/` | none | `ApprovalGuard`, `EvidenceRequiredGuard`, `RaceDecisionGuard`, `SafetyPolicy` | pipeline, command centre | critical requests, tools and advice are recognised; ungrounded answers are flagged |
| Evidence builder, planner, classifier, composer, `B/reasoning/` | none | `build`, `plan`, `classify`, `compose` | pipeline, language model | evidence comes from tools that ran; a failing model yields a known plan and text |
| Rate limiter, `B/rate_limit.py` | list of times per address, time of the last cleanup | `dispatch` | gateway | the window is exact; Retry-After suffices; nobody pays for others |
| Gateway, `B/main.py`, `B/insforge_auth.py`, `B/auth_deps.py` | wired services, two meters | start and end of the application, middleware order, token check, principal, request context | all routers, rate limiter | whoever acts was authenticated; the limit holds through the layers; every request is answered |
| Command centre, `B/services/command_center_service.py`, `knowledge_service.py`, `agent_dispatch_service.py`, `B/contracts.py` | none | `route` | safety policy | one approval state in all parts of a response |
| Ticketing, `B/services/smart_queue_service.py`, `sla_war_room_service.py`, `ticket_copilot_service.py` | none; the tickets are sent with every call | scoring, ranking, cohorts, drafts | statistics | three classifiers tell one story of a ticket; no breach is hidden; waiting does not demote |
| Statistics, `B/services/observability_service.py` | none | SLA health, approvals, groundedness, the combined report | ticketing | counts agree with the war room; trouble is heard through averages and rounding |
| Legacy surface, `B/services/legacy_surface_service.py` | none | older endpoints | command centre | the older contract states the same approvals in status, text, calls and advice |
| Evaluation harness, `evals/run_eval.py`, `evals/metrics/` | the results of a run | load, evaluate, five metrics, summary | the real chat pipeline with mocked clients, its database | a score says something of the service; a summary is of a whole run |
| Event stream, `B/services/ui_adapter_service.py`, `frontend/src/api/chat.ts` | the client's buffer and text | events on the server, parsing on the client | chat route, chat store | what the call returns does not depend on where the connection is cut, and it ends |
| Chat store, `frontend/src/stores/useChatStore.ts`, `api/chat.ts` | messages, conversation id, pending response, loading flag | send, approve, reject, clear | stream route | one request and one decision at a time, whatever the user does meanwhile; a grant never goes back to an older question |
| Language model client, templates, settings, shims | none | HTTP, file and text handling | | |

The hard behaviours: coroutines of one conversation interleave at eight awaits; every
await may fail, time out after having acted, or be the last thing a process does; SQLite
has one writer at a time while PostgreSQL commits ids out of order; several guards read
each other's output, so their order matters; the limiter works with fractions of seconds
and replaces its own table after five minutes; the client can be cleared or can approve
while a reply is in flight; a stream is handed over in pieces of any size; and what one
answer says of its approval is computed in several places from lists of words that
differ.  `PROJECT.json` lists each hazard at its line with the properties aimed at it.

## 2. The modules

| Module | Models | Role |
|---|---|---|
| `Guardrails` | the approval guard and the guard that rewrites answers | constant-level operators |
| `Evidence` | the evidence builder and the evidence guard | EXTENDS `Guardrails`, constant-level operators |
| `ConversationStore` | the table and its sessions | state and sub-actions, conjoined into the pipeline's actions |
| `Governance` | the promise about approvals, without any pipeline | abstract specification |
| `ChatPipeline` | `ChatService.answer` | EXTENDS the store and `Evidence`, INSTANCEs `Governance` |
| `ChatPipelineProofs` | | theorems about `ChatPipeline`: types, gate and refinement; what the table holds of each request; what a reply says and rests on |
| `RateLimit` | `RateLimitMiddleware` | a specification of its own |
| `RateLimitProofs` | | theorems about `RateLimit` |
| `ChatStore` | the client's chat store, with the functions of `api/chat.ts` and the dialog | a specification of its own |
| `ChatStoreProofs` | | theorems about `ChatStore` |
| `AnswerDelivery` | the promise of `sendMessageStream` | abstract specification |
| `EventStream` | the events of an answer and the client that reads them | INSTANCEs `AnswerDelivery` |
| `EventStreamProofs` | | theorems about `EventStream`, with the refinement of `AnswerDelivery` |
| `CommandCenter` | the command centre with dispatch, policy and knowledge | constant-level operators |
| `LegacySurface` | the older endpoints | constant-level operators |
| `Surfaces` | one question put to every surface | EXTENDS the two above |
| `SurfacesProofs` | | theorems about `Surfaces` |
| `Gateway` | the application around the routers | INSTANCEs `RateLimit`, whose variables it has |
| `GatewayProofs` | | theorems about `Gateway`, on those of `RateLimitProofs` |
| `Ticketing` | queue, war room, copilot and statistics over ageing tickets | a specification of its own |
| `TicketingProofs` | | theorems about `Ticketing` |
| `Evaluation` | the evaluation harness | EXTENDS `Guardrails` |
| `EvaluationProofs` | | theorems about `Evaluation` |
| `MCChatPipeline`, `MCRateLimit`, `MCChatStore`, `MCEventStream`, `MCSurfaces`, `MCGateway`, `MCTicketing`, `MCEvaluation` | | instances for TLC |

### ChatPipeline and ConversationStore

`Requests` is the set of coroutines.  `pc[r]` is the await that request `r` is at,
and an action is everything `answer` does between two awaits, so any two requests
interleave exactly where the event loop, or two replicas on one database, would let
them.  `input[r]` is the request with its caller, fixed from the start: the message
is abstracted to whether it has an approval keyword (`critical`) and which intent
its keywords give (`keyword`).

| Action | Code in `answer` |
|---|---|
| `LoadHistory`, `LoadFails` | `load_history`, then the user turn is stamped |
| `Insert` | the `INSERT` of an open turn: it gets its id, and in SQLite the write lock |
| `CommitUserTurn` | `db.commit()` of the user turn |
| `Classify` | `classify`: keywords, else the model, else General |
| `Retrieve` | `search_context`, whose errors are swallowed |
| `PlanAndGate`, `Refuse` | `plan`, the pre-execution check, the role check (HTTP 403), `tools_blocked` |
| `CallTool`, `ToolFails` | one iteration of the tool loop |
| `EvidenceFails` | `EvidenceBuilder.build` raising on a malformed body |
| `Compose` | evidence, prompt, answer, sanitising, evidence check, second approval check, notice; then the reply's turn is stamped |
| `CommitReply` | `db.commit()` of the reply and the response |
| `SaveFails` | `save_turn` raising, whether or not the database kept the turn |
| `Lose` | the process or the coroutine ends between two awaits |

A turn is saved in three steps because the code takes its timestamp, its id and its
commit at three moments.  `rows` holds what is committed; `open[r]` is the turn a
session has not committed.  A crash discards `open[r]` and keeps `rows`: there is no
other durable state, so a restart is `Lose` for every running request.  Rows of
before the tenant column (`LegacyRows`) start with the default tenant.  The database is
chosen once, by its URL: `serialWriters` is whether it is SQLite.

`called` is not a variable of the program: it records at the tool gateway which
tools acted, and a failed call may be in it, because a timeout says nothing about
what the other side did.  `author` of a row is likewise for the properties only.

An answer of the model is the set of kinds of line in it; a guard maps kinds to
kinds.

`accumulated` of the code is a dict from tool names to results: `results` is its values
and `place` the order of its keys, since a key stays where it was first put when a plan
names a tool twice (`Record`).  `Evidence` says what the builder makes of it.  A result is
a dict with some of `Keys`, each with a value or a null, something that is no dict, or a
body with neither key the builder looks for.  The dicts are merged into one, so that of
tools with the same key the last one's value is the one that is left (`Merged`).  A field
of the evidence is a pair of a key and the tool its value came from.

### Governance

A request has a mandate (critical, granted, may grant).  It is decided once: free,
approved or withheld; tools perform only when free and not keyword tools, or when
approved; a closed request performs nothing.  `ChatPipeline!Governed` is this
specification with `decision` computed from `pc`, `blocked` and the grant
(`DecisionAt`) and `performed` being `called`.

### RateLimit

`dispatch` has no await before it passes the request on, so a dispatch is one
action: `Admit`, `Refuse` (429) or `Fail` (the `KeyError`).  `Tick` is the clock,
`Restart` a new process.  A bucket is the set of its admissions, numbered so that
two at the same instant stay two.  `Second` is the number of ticks in a second, so
that Retry-After, which is whole seconds, is rounded as the code rounds it.
A limit of 0 is excluded by `RateAssumption` (the code would index an empty list).
`log`, `promise` and `last` are for the properties.

### ChatStore

JavaScript runs a store function up to its next `await`, and each has one: the
request.  So `sendMessage` is `Ask` and then `Answered` or `SendFailed`,
`approveAction` is `Approve` (or `ApproveNothing`, when no question is on the screen
and it throws before the request) and then `ApprovedAnswered` or `ApprovedFailed`;
`rejectAction` and `clearMessages` are `Reject` and `Clear`.  In between the user may
do whatever the page lets him, and pieces of text arrive (`Token`).  `calls` holds the
requests in flight with what was read before the await; `decisions` is for the
properties only.  A text is the number of its question, the preview the set of
questions whose text is in it.

`api/chat.ts` has two functions with the type of a response, and `Clients` says which of
them the store is given.  The store calls `sendMessageStream`, whose events carry the text
only: the conversation is the one the request had, if any, and no approval is required
(`Received`).  `sendMessage` returns what the backend says.  With the first alone the
dialog never opens, which `claim_dialog_appears` shows, and the approval code of the store
is never run; `store_decisions` has each response come from either, so that this code is
checked for what it does beside the client there is.  What the backend does with a
request is `needs`, chosen when it is asked, and a new conversation for a request without
one.

Nothing keeps the user off the page while the dialog is open: it covers the page for the
pointer, holds no focus, and `sendMessage` asks for the loading flag only.  So `Ask` and
`Clear` do not look at the dialog, and `Approve` does not look at the loading flag.
`decisions` records of each decision whether a request was in flight (`during`), and
`Undisturbed` is that no approval was given beside one.

### EventStream and AnswerDelivery

`ChatStore` takes a request to the stream route as one answer; `EventStream` is the
inside of it.  The server's generator is `Yield`, one event at a time
(`UIAdapterService.stream_events`, and the same events in `B/routers/ui.py`); `wire` is
what the connection has not handed over, `Read(n)` one turn of the client's loop with
the next `n` pieces, `Return` the end of the loop and `Fail` an answer that is not ok or
a connection that breaks, which rejects the pending read.  A piece is a field name, a
line of the answer or the end of a line, so that a cut may separate what `buffer` has to
put together again.  The client splits what it has at the ends of lines; `Take` says the
same of one piece, `Taken` of all that arrived at once: a line that ends is read,
anything else is kept for later.  What `JSON.parse` makes of a line is its kind: the
seven kinds are the seven ways through `Data`.

`AnswerDelivery` is the promise of the comment at `api/chat.ts:21-25`: one result, the
full answer or a failure.  The full answer is `Full(answer)`, every line that is not blank
as it stands; the client does not keep this promise, which `claim_full_response` shows.
What does hold is about the connection: `Stream(answer)` is all events one after the
other, and `InOnePiece` is what the client makes of it at once.  Where the server filters
the lines and keeps their order, `InOrder` gives a set of places as a sequence (the k-th
is the place that k of them are not beyond), which can be reasoned about for answers of
any length.

### CommandCenter, LegacySurface and Surfaces

A query is the set of the listed words its text contains; `Words` has one word for
each combination of lists a word can be in, and `Contained` closes a query under the
words that are part of longer ones.  Each classifier is the `if` chain of the code, in
its order.  `Surfaces` puts one question to `Route` (the command centre, with every
result of retrieval and with or without a context in the body), to each legacy
endpoint (`LegacyAnswer`) and to the chat's `ApprovalGuard` (`AskChat`).  A reply is
compared by its parts: `required` is the head, `says` the text, then the calls, the
advice and the downstream requests, each with its own flag.  There is nothing between
two questions, so one question is the whole behaviour.

### Gateway

A request is `away`, then at the limiter, the token check, routing and the handler, each
of which is an action (`RateLimit`, `Authenticate`, `Enter`, `Finish`), because each
layer awaits the next; CORS answers a preflight by itself (`Arrive`).  `Start` and
`Stop` are the two halves of `lifespan`, and `Start` may fail at the database.
`RateLimit` conjoins `L!Admit`, `L!Refuse` or `L!Fail` of the limiter's own module.  A
token is missing, bad, good, or "empty": it verifies and claims nothing.  The token
check lets an empty one in, but the principal is then taken from the headers or is the
local developer's (`HasClaims`, `auth_deps.py:53-54`).  `Raise` is an exception that
passes the meters on its way out, `Respond` an answer through them.  `since` records
when a request got beyond the limiter, for the properties only.

### Ticketing

The tickets are sent with each call and kept by nobody, so they are the ticket
system's: `Hour` lets them age and their timers run, `Work` moves one on.  Between such
steps `SmartQueue`, `WarRoom`, `Copilot`, `SlaHealth`, `ApprovalReport` and
`ImprovementReport` answer for the tickets as they are.  The classifier is there three
times (`Assess`, `StatusFor`, `SlaStatusOf`), because the code has it three times,
written three ways.  `Ranking` is a sort with a limit, defined by the place of each
ticket in the order `Before`.

### Evaluation

`LoadDataset`, `EvaluatePrompt`, `PromptFails` and `PrintSummary` are the steps of
`main`.  The harness runs the real service, so the reply is computed with the operators
of `Guardrails`; around it are the mocks, of which the planner and the composer are
given the expectation.  A claim is a record of what the metrics look at (its words, its
length, its numbers), a source the words under its one key.  A text is split into claims
after its stops, so that it matters whether the answer ends with one (`stopped`): the
notice of a blocked reply is two claims of its own then (`NoticeOfBlock`,
`NoticeOfResubmit`), and without a stop the last claim goes on into the first of them
(`WithNotice`).  An exception ends the run; it may leave none, one or both turns of its
prompt in the table (`PromptFails`), the last when a metric raises after the reply.
`results` counts the prompts of each of two kinds instead of listing them: the averages
do not depend on their order.  `Evaluated` and the averages are sums over the data set
(`SumFunction`).

## 3. The runs

`CHECK_DEADLOCK FALSE` where the system is meant to stop: in the chat configurations
(each coroutine ends), `event_stream` (a call returns), `surfaces` (a question is
answered), `gateway` (two requests, each answered, and an application that ends) and
`evals` (a run reports or aborts).  The others are checked for deadlock.

| Run | Question |
|---|---|
| `chat_gate` | One request, all inputs, three tools whose payloads have two keys, plans that name a tool twice, every retrieval and answer |
| `chat_tables` | Two requests under one conversation id over two legacy rows; of two tenants on PostgreSQL with concurrent transactions, or on SQLite one granted and critical and one that only the model can classify; failures and losses at every await; liveness |
| `rate_window` | Two addresses, limit 2, window 3 ticks, 2 ticks a second, cleanup after more than 2 ticks, clock to 8 |
| `store_decisions` | Four requests, responses of both functions, the user free behind the dialog; everything in flight, and liveness |
| `event_stream` | Every answer of up to three lines of seven kinds, cut into pieces everywhere, broken everywhere; liveness |
| `surfaces` | Every question of up to three of 26 words, at every surface, with every result of retrieval |
| `gateway` | Two requests of one address or two, ten kinds of request, with and without tokens asked for, which are missing, bad, empty or good; the limiter inside, its clock and the cleanup; liveness |
| `tickets_over_time` | Two tickets of two tenants or none, two hours, every change of state, every report |
| `evals` | Data sets of up to ten prompts of two of 44 kinds, failing at any prompt |

Why the bounds suffice.  `chat_gate`: the gate and the reply are computed from one
request's own variables, so one request with all of its data shows what they can do;
three tools are a neutral one, one with a marker only and one with both lists' words.
Two keys are the least that can be equal or not, and the plan of three has a tool
before, between and after itself.  `chat_tables`: two tenants and two requests are the
least that can mix; the window of 3 is smaller than the four new rows plus the legacy
rows, so it cuts.  SQLite's lock is met by the requests with effects, PostgreSQL's order
of commits by small talk of two tenants, each in its own initial states (`TableInit`).
One tool is in a plan, because here it is the interleaving of effects, saves and
failures that is asked about.  `rate_window`: a window that does not divide into seconds
(rounding), a limit above one (an oldest entry among several), a clock more than twice
the window, and several cleanups.  The store: four requests (`MaxCalls`) are a question
with its approval and a second question with its own, in either order, the second asked
behind the dialog of the first or not; every action is enabled within them.
`event_stream`: three lines are the least in which an answer in JSON has a line before
and a line after it.  `surfaces`: an answer is a chain of tests of lists, so that two
words decide between two lists and a third is what neither knows; the theorems of
section 4 are for any number of words.  `gateway`: two requests are the least that can
overtake each other, with a limit of one; the clock outlasts the window.
`tickets_over_time`: an order is a comparison of two; the ages and timers are such that
an hour gains a weight, meets its cap, and lets a timer reach and pass 60 and 0.
`evals`: comparisons are of two entries, and one wrong flag is silent from ten prompts
on.  `claim_full_response` needs one line that is a number beside one that is text.

What the properties say.  A property with parts is the conjunction of definitions of its
own, named in brackets.  The type invariants (`TypeOK`) are checked for the pipeline, the
limiter and the store, and proved for these and the gateway.

* `EffectsAuthorised`: no tool acts for a blocked request, under a grant its caller
  may not give, or, for a critical message or a tool with a keyword, without a grant.
* `EffectsAudited`: whatever dies, an effect has its question in the table.
* `RefusedLeavesOnlyQuestion`: a 403 leaves the question, no answer and no effect.
* `ReplySaysWhatIsHeld`: a blocked reply requires approval, is uncertain, has the notice
  and no tool data (`BlockedIsVisible`), and critical advice of the model never goes out
  bare (`CriticalAdviceIsHeld`).
* `ToolFailureContained`: a failing tool neither ends the loop (`WholePlanTried`) nor
  leaves evidence (`EvidenceHasSource`).  A field that a tool returned is missing from the
  reply only because a tool whose key came later returned the same one, or because some
  result was malformed, and then every field is missing (`FieldsAreMerged`): tools with
  equal keys do overwrite each other's data, and a malformed result loses everybody's.
* `HistoryScoped`, `FollowUpSeesReplies`: a history holds committed turns of its own
  thread, not its own question, and both turns of each request answered before it
  unless newer turns fill the window.
* `ReplyDurable`, `TableAppendOnly`: an answered request left exactly its two turns in
  order; nothing committed is lost; with one writer ids are committed in order.
* `EveryRequestEnds`: a request that has begun is answered, refused, failed or lost.
* `Governed`: the refinement above.

* `WindowExact`: the window holds at most the limit (`SlidingWindow`), and who is
  limited has filled it himself (`LimitedForOwnCalls`).
* `RetryAfterHonoured`: who waits as told and sends nothing meanwhile has a place.
* `OldClientsKeepService`: the cleanup drops no client that was served.  Indeed it drops
  none at all, so that the table of addresses only grows: `ClientsAccumulate`, which is
  proved and not in a run.

* `LoadingIsOneCall`: unless an approval is given beside a request, the loading flag, the
  only guard against duplicate sends, is up exactly while the one request is in flight
  (`OneCallWhileLoading`), and the preview is that request's (`PreviewIsOfCall`).  With
  such an approval there are two requests, and the flag falls with the first that ends;
  even then it is never up while nothing is in flight.
* `OneDecision`, `AnsweredOnce`: no response is decided twice; no question is answered
  twice but after an approval, unless one was given beside a request.
* `DecisionHasObject`: an open dialog has a response to show (`DialogHasResponse`, with
  the same exception: the approved request takes away the response that came meanwhile).
  Without an exception, a grant goes to the question the dialog was about or to a newer
  one on the screen, asked behind the dialog, and never to an older one
  (`GrantsShownOrNewer`).  That it goes to the one shown is not so: see below.
* `LoadingEnds`: waiting ends.

* `ReturnsWhatWasSent`, `StreamEnds`: what is returned is what the client makes of the
  stream in one piece, wherever it was cut, and the full answer if no line of it is JSON;
  every call ends.
* `ShownBeforeReturned`: what the call has collected is always the end of what the user
  was shown, so that the final message takes nothing back.

* `ApprovalStateAgrees`: whoever reads only the head of an answer misses no call or text
  (`HeadCoversCalls`) and, with two exceptions, no advice (`AdviceNeedsHead`) that needs
  approval; the markers of the safety policy and the dispatcher's flags agree
  (`PolicyMatchesDispatch`).
* `SetupChangeIsHeld`: the one phrase all the lists know is held everywhere.
* `EvidenceScoped`: citations are the answering tenant's or nobody's, and the fallback
  is never beside one.

* `HandlersInPlace`: with tokens asked for, a handler runs for the subject of a checked
  token, whatever the headers say; only under a checked token that claims nothing it
  runs for whom the headers name or, without them, for the local developer
  (`PrincipalIsTokens`); no request is under way before the services are wired or after
  (`ServedByWired`).
* `BeyondWithinLimit`: in no window do more than the limit of a client's requests get
  beyond the limiter, whatever overtakes what.
* `EveryRequestAnswered`: also when the limiter raises.

* `ViewsAgree`: queue, war room, copilot and statistics tell one story of a ticket, in
  their classes (`CohortsAgree`) and in their advice (`AdviceAgrees`).
* `NoBreachHidden`: no cut of the queue (`BreachesLead`) and no combination of weights
  (`BreachIsNeverMinor`) makes a breach look minor.
* `TroubleHeard`: averages and rounding hide no blocked approval of up to 200 and no
  breach of up to four tickets.
* `TimeNeverEases`: waiting alone lowers no ticket in the queue and raises no tenant's
  health.

* `ScoresAreSound`: every score is in its range (`ScoresInRange`), and with the same
  reply more evidence never scores worse (`MoreEvidenceNeverWorse`).
* `NoticeCostsGroundedness`: a prompt that is held for approval, as it should be, is not
  scored fully grounded, however well its answer is supported, unless the evidence happens
  to have a word of the notice in it.
* `SummaryIsSound`: a summary is never of a part of a run, and the conversation table
  holds two rows for each result and up to two more of an aborted run
  (`SummaryIsOfWholeRun`); of wrong approval flags a report warns exactly when more than
  one prompt in ten has one (`WrongFlagsWarned`).

Fairness.  `Fairness` of the pipeline is weak fairness of each request's steps once it
has begun: the clients have timeouts (`B/clients`, `B/llm`), the database answers or
raises, and the event loop runs every ready coroutine.  Nothing makes a request arrive
or be lost, and no particular outcome is fair: a tool may fail for ever.  The limiter
has only safety properties.  In the store only the end of a request is fair: the backend
answers or fails (`EveryRequestEnds`), or the connection breaks; the client sets no
timeout of its own.  The user need not do anything.  In the stream the request is
answered or refused, the generator goes on (`Yield`), and so does the client's loop
(`Read`, `Return`): three loops without a condition to wait for.  In the gateway each
request's `Step` is fair, since the event loop takes up every request again and what a
handler waits for has a timeout; nothing makes a request arrive or the clock go on.
Tickets, surfaces and evaluation have safety properties only.

### Claims the code does not keep

Each of these runs checks one sentence of the repository and finds a counterexample;
`PROJECT.json` quotes the sentences under `findings`.

| Run | What happens |
|---|---|
| `claim_dialog_appears` | the stream carries no approval, so the dialog never opens and nothing is ever granted |
| `claim_full_response` | a line that is a number is taken for JSON without an answer, and dropped |
| `claim_new_clients_served` | after the first cleanup a new address raises `KeyError` |

Other disagreements between the code and what is written about it were met while
modelling.  They have no run of their own; where a property is near, it states what
does hold.

* Pipeline.  A result with neither key the builder looks for drops the data of every
  tool (`B/reasoning/evidence_planner.py:63`; the loop means to go on,
  `B/services/chat_service.py:110`), and equal keys overwrite each other
  (`evidence_planner.py:73`), which the mock of the evaluation provokes with every two
  tools (`evals/run_eval.py:106`); `FieldsAreMerged`.  The sanitiser removes the keyword
  that the approval scan after it looks for (`chat_service.py:232`, against
  `docs/paper-integration.md:30`); `CriticalAdviceIsHeld`.  `suggest_setup_change` is
  critical for the safety policy and not for the chat gate (`chat_service.py:167`,
  `B/guardrails/safety_policy.py:97`).  Evidence that counts for nothing (nulls, bare
  strings) passes the evidence guard (`B/guardrails/evidence_required_guard.py:40`).
  The fallback text says "not_required" in replies that require approval
  (`B/reasoning/composer.py:77`).  Turns are stamped before they get their ids, so the
  history, which is ordered by id, need not be chronological
  (`B/conversation_store.py:108`).
* Client.  The stream carries no conversation id (`api/chat.ts:100`), so that the store
  keeps none and every question opens a new conversation, against "Store conversation ID for
  follow-up" (`useChatStore.ts:117`).  "Re-send the original request with approval granted"
  (`:176`) takes the last question on the screen, so that one asked behind the open dialog
  is sent with the grant for another; `DecisionHasObject` says how far this goes.  "Guard:
  prevent duplicate sends" (`:90`) is of `sendMessage` only: an approval may make a second
  request beside one in flight (`:177`); `LoadingIsOneCall`.  The answer to a question that
  was cleared away appears on the empty screen, and a conversation id that it carries is
  stored (`:118`, `:123`).
* Stream.  Beside numbers, a boolean, a list or an object in a line of its own is dropped,
  an object with an answer replaces what came before it, a line that reads `[DONE]` is
  skipped, quotes around a line are lost, and so are blank lines and line breaks.
* Surfaces.  Of "tire pressure" and "balance" the command centre gives advice that
  requires approval under a head that does not (`command_center_service.py:150` and
  `:159`); `AdviceNeedsHead` excepts the two.  The legacy text says "not_required" of
  "pieza" where its status says otherwise (`legacy_surface_service.py:94`, `:99`), and
  the legacy plan call goes by the intent alone (`:145`), so that of "mapa motor" it
  needs no approval where the answer does.  One source that cannot be converted loses
  all the citations (`knowledge_service.py:63`).
* Gateway.  "Total HTTP requests" (`main.py:185`) counts neither what CORS, the limiter
  or the token check answer nor a request whose handler raises.  With tokens asked for,
  "the JWT path will always resolve" (`auth_deps.py:92-94`), but not for a token with an
  empty payload; `PrincipalIsTokens`.  A request whose token is refused has used up a
  place of its address's window.  The pages of the front end are behind the token check,
  the API's documentation is behind the limiter.
* Tickets.  Resolved tickets are in no class of the health report but in its total, so
  that to resolve one may lower the score (`observability_service.py:24`).  "Maintain
  current operational controls." is never recommended, since the reports put in their
  place always have a recommendation (`:132`).  One blocked approval of more than 200
  rounds to none (`:80`).  The war room counts finished tickets as healthy.
* Evaluation.  "Verify the right tools were called" (`evals/README.md:11`, and the
  threshold at `:74`): the planner is given the expectation (`run_eval.py:222`), so that
  tool F1 is always 1.  A warning is printed up to three times (`:408-437`).  A source with
  only a "text" gets a blank snippet (`:90`).  One wrong approval flag in ten prompts is
  not warned of (`:413`), though the target is 1.0 (`evals/README.md:73`).  The harness
  needs a database that exists already, and leaves two rows in it for each prompt.

## 4. What is proved

For every value of the constants that satisfies the named assumptions
(`StoreAssumption`, `NoRowAssumption`, `ToolAssumption`, `PipelineAssumption`,
`KeysAssumption`, `RateAssumption`, `ClientsAssumption`, `MaxCallsAssumption`,
`WordsAssumption`, `SourcesAssumption`, `MessageAssumption`, `LimiterAssumption`,
`AnswerAssumption`, `SizeAssumption`, `TimerAssumption`, `TicketsAssumption`,
`ApprovalsAssumption`, `KindsAssumption`, `EntriesAssumption`), which TLC evaluates on
the values of every run.

`ChatPipelineProofs`:

* `TypeCorrect`: `Spec => []TypeOK`.  The inductive invariant `TypeInv` adds to the
  types that a request in the tool loop has a tool left to call: without it
  `NextTool` could leave the plan.
* `ApprovalGate`: `Spec => []EffectsAuthorised`.  The property alone is not
  inductive: nothing in it says why a request in the tool loop may call.  `SafeInv`
  adds that a request past the gate and in the loop is let through, for every tool
  of its plan.  `GateStep` establishes this at `PlanAndGate`, `EffectStep` uses it,
  and `QuietStep` covers the other actions, which touch neither side.
* `GovernanceImplemented`: `Spec => Governed`.  Initial states map to initial states,
  `PlanAndGate` to `Decide`, `CallTool` and `ToolFails` to `Perform` (or a stutter),
  the endings to `Close` and the rest to stutters; `SafeInv` supplies that what is
  performed was decided.

The same module, about the table, for any requests, threads and legacy rows and for both
databases:

* `EffectsAreAudited`, `RefusalsLeaveOnlyQuestion`, `RepliesAreDurable`,
  `HistoriesAreScoped` and `TableOnlyGrows`, from the invariant `TableInv`
  (`TableHolds`).  None is inductive alone: that an answered request left exactly two
  turns needs to know what every earlier step left.  `SavedTurns` says so for each step:
  nothing of its own up to the first commit, then only the question, then question and
  answer.  `OpenTurn` says of the uncommitted turn that it is its request's own and the
  one its step is about, `IdsGrow` that an insert's id is above all that is committed,
  and, with one writer, that only one turn has an id and it is the newest.  `SafeInv` of
  the gate supplies that a refused request called nothing.

* `FollowUpsSeeReplies`: `Spec => FollowUpSeesReplies`, a property of the step that
  loads the history.  `RepliesAreDurable` has both turns in the table; what could hide
  them is the window.  `IdsDistinct` adds to `TableInv` that ids tell rows apart, those
  about to be committed included, also where SQLite gives the id of a lost turn again
  (`IdsStayDistinct`).  Then of rows with different ids there are n newest, if there are
  n at all (`NewestOf`: how many rows are newer is an injection into as many places), so
  that a row outside the window has exactly `HistoryWindow` newer ones in it
  (`WindowIsFull`).

The same module, about replies, for any plan, result, retrieval and answer of the model:

* `RepliesSayWhatIsHeld` and `ToolFailuresAreContained`, from the invariant `ReplyInv`
  (`ReplyHolds`).  A reply is composed at one step and returned at a later one; `Held`
  says that it is still the reply to what its request holds (`Composed`), that a blocked
  request has no results, that a result was left by a tool of the plan that acted
  (`ResultsHaveSource`), that two tools with results have different places
  (`PlacesApart`, kept by `ToolPlaces`), and that the loop is left only when the plan is
  through.  What remains is about the operators of `Guardrails` and `Evidence`:
  `MergeKeepsKeys` has that of the tools that gave a key there is one with the greatest
  place (`Greatest`, from the well-foundedness of the naturals), whose value is left.

`RateLimitProofs`:

* `RateTypes`, `WindowHolds`, `RetryAfterIsEnough`, `ServedStayServed`: all properties
  of the limiter that the run checks; and `NothingIsCleanedUp` (`ClientsAccumulate`).
  The window alone is not inductive, for an admission is counted in the bucket and
  not in the log.  `Inductive` says of each client that its bucket contains what the
  window still counts of the log (`BucketOf`), that numbers are fresh and the log is
  finite (`LogOf`), that fewer than the limit of the bucket's entries survive the
  promised time (`PromiseOf`), and that a key stands for a non-empty bucket
  (`RememberedOf`).  That a full bucket has an oldest entry rests on the well-ordering
  of the naturals (`LeastTime`), and that whole seconds plus one exceed the time they
  round on `RoundUp`.

`ChatStoreProofs`:

* `Types`, and `DecidedAtMostOnce`: behind `OneDecision` stands `DecisionsInv`: decided
  responses belong to requests that have ended, and the one in the dialog is not among
  them; so a response that arrives, whose request has not, is new.
* `OneRequestAtATime`, from `DialogInv` and `Waiting` (`DialogAlways`).  What holds unless
  an approval was given beside a request is carried backwards by `StillUndisturbed`: a
  decision is never taken back.
* `DecisionsHaveObjects`.  `DialogInv` has the first half.  `approveAction` looks for the
  last question, so the second half (`GrantsGoForward`) needs `NewestInv`: if a
  question is left on the screen, the last one is that of the dialog or a newer one.  Of
  the dialog alone this is not inductive; it is said of requests in flight too, whose
  responses may get there.
* `AnsweredAtMostOnce`.  `AnswersInv` says, while undisturbed, that what is in flight, and
  what the dialog would send, is still unanswered (`Unanswered`), and that a new question
  has a number which no message has yet.

`SurfacesProofs`, for questions of any number of words:

* `StateAgrees` (from `HeadCovers`, `AdviceIsHeld` and `PolicyAgrees`), `SetupIsHeld`,
  `EvidenceIsScoped`: all properties of `Surfaces`.  A state is a question with at most one
  answer, so each is inductive once the answers are analysed: `FirstAnswer` reduces
  those of the legacy endpoints to one fact about each (`LegacyChatHead`,
  `CenterCovered`, `OthersCovered`), `CenterCalls` and `CenterAdvice` are the command
  centre's.  `SetupIsHeld` needs that the question is closed under the words that are
  part of others (`Held`): "cambiar setup" is in the list of the command centre only as
  "setup".

`GatewayProofs`, for any number of requests:

* `GatewayTypes`, `HandlersHold`.  `Inv` says for each stage what has
  been established on the way there (`Way`): who is in routing was let in, who runs has
  a principal that is right for its message (`Rightful`), and nobody is under way unless the
  application serves and is wired.
* `LimiterComposed`: every behaviour of `Gateway` is one of `RateLimit` alone
  (`LP!Spec`), with all other steps as stutters, so its theorems hold inside.
* `BeyondHolds`.  `Inv` and the limiter's own `Inductive` are kept together (`Both`).
  `Counts` says that of any time on as many requests of a client are beyond the limiter
  as its `log` has entries; with `RateLimitProofs` bounding the log by the window, the
  limit follows.

`TicketingProofs`, for any number of tickets, any ages, timers and approvals:

* `OneStoryOfATicket`, `BreachesAreShown`, `TroubleIsHeard`, `WaitingNeverEases`: all
  properties of `Ticketing`.  A reply is computed from the tickets as they are, so the
  only invariant needed is that they stay tickets (`Listed`); the work is in the
  operators.  `OneClassifier`: the classifier written three times is one.  `Scores`
  bounds the sum of the weights.  `KeysAreOrdered` and `TicketsAreOrdered`: the sort key
  orders the tickets linearly, state first.  `Places`: then each place from 1 to the
  number of active tickets is taken exactly once (an injection between finite sets of one
  size), so that `RankingIsByPlace` and what is left out comes after all that is shown.
  `BreachIsHeard` and `BlockageIsHeard` compute through the rounding of `Hundredths`;
  `AnHourLater` compares a ticket with itself an hour on, and `HealthFalls` sums that up:
  the healthy shrink, so do the healthy and those at risk together, and division is
  monotone (`DivisionGrows`).

`EvaluationProofs`, for data sets of any entries, answers and sources:

* `ScoresMeanWhatTheyAverage`, `HeldPromptsScoreLess`, `SummariesAreSound`: all
  properties of `Evaluation`.  The invariant `RunInv` (`RunHolds`) says that the scores of
  a line that was evaluated are `Metrics` of that line, that there are two rows for each
  result until a prompt fails and at most two more then, and that the warnings are those of
  the results; without it nothing ties a result to the line it is about.  Each score is a
  share of a finite set of claims or sources (`GroundednessIsShare`, `RiskIsShare`,
  `CoverageIsShare`), and more evidence supports a larger part (`MoreEvidence`,
  `SharesGrow`).  `AnswerShape` says what the claims of a blocked reply are, with and
  without a last stop, and `Notices` that the last one is never too short to count; so one
  claim is unsupported, and the share is not full.  Sums over a data set of any length are
  unfolded one line at a time (`SumUnfolds`), which gives that they grow with their parts
  (`SumsGrow`) and that the right and the wrong flags add up to the results (`SumsAdd`);
  that fewer than nine in ten are right is then that more than one in ten is wrong
  (`NineOfTen`).

`EventStreamProofs`, for answers of any number of lines, cut and broken anywhere:

* `ClientFollowsStream`: `Spec => []Inv`.  That what is shown ends with what is returned
  is not inductive, and neither is the refinement: both speak of the client, and what a
  step does to it depends on what is on the wire and in the buffer.  `Inv` says that
  there is a number of pieces which the client has taken: answer, preview and buffer are
  what they make (`ClientBy`), and the wire holds exactly the pieces that follow.
  `OneEvent` is the server's step, `OnePiece` the client's (the four places in an event
  of a line and the six of the end, of which only the end of a line of data does
  anything), and `TakenBy` carries it over any number of pieces that arrive at once.
* Behind it, about the operators: `PlacesInOrder` (the places of a finite set, in order,
  grow by the last one), `NextChunk` and `OneChunk` (between a chunk and the next there
  are blank lines only, so each appends one word, replaces everything or does nothing),
  and `ByAll`: by the last chunk the client has `Meaning`, which is that said of the lines
  without a stream.
* `ShownWhatIsReturned`: `Spec => []ShownBeforeReturned`, since appending one token to
  both keeps a suffix (`SuffixGrows`, `ShownEndsWithFull`).
* `ReturnIsWhatWasSent`: `Spec => []ReturnsWhatWasSent`.  `Inv` has that who returns has
  taken every piece, and so has `Meaning`.  `Stream` is all pieces of the events
  (`StreamIsPieces`), so that the stream in one piece makes the same (`OnePieceMeans`),
  and of lines that are no JSON `Meaning` is `Full` (`PlainMeans`).
* `StreamDelivers`: the refinement of `AnswerDelivery`, assuming that no kind of line is
  JSON (`Kinds` are "text", "null" and "blank").  `claim_full_response` shows that it
  does not hold otherwise.  `Return` maps to `Deliver`, where `Inv` supplies that
  everything was yielded and read; `Fail` maps to `Fail`, and the rest to stutters.

How data of any length is reasoned about.  The theorems of the library about induction
take an operator as a parameter, which the provers cannot instantiate.  `Counting` (a set
with zero and with the successor of each of its naturals has them all) and `OneByOne`
(the same for the subsets of a finite set) state them of sets instead, from the
well-foundedness of the naturals; recursive functions, the sums of `SumFunction` and the
places of `InOrder` are unfolded with them.  The models avoid folds and filters of
sequences, which the provers take as opaque.

Only model-checked: liveness (`EveryRequestEnds`, `LoadingEnds`, `StreamEnds`,
`EveryRequestAnswered`), which under fairness is outside what the installed provers can
do, and that the claims fail.  Every safety invariant, action property and refinement
that a passing run checks is proved.

## 5. Abstractions and what is left out

* Texts are kinds of line; keyword lists are the sets `KeywordTools` and
  `MarkerTools` and the flag `critical`.
* A value of a payload is known by its key and its tool, and one tool called twice under
  one name keeps the later result, as in the code.
* The connection pool has no limit, and a database error does not say which.
* The streaming form of the composer, which no caller uses, is left out.
* The limiter's use of "unknown" for a missing address is left out; "unknown" is one of
  the clients.
* A question is the set of the listed words it contains; "(o)" in a word stands for an o
  with an accent.  Words that no list has decide nothing.
* A connection that breaks rejects the client's pending read, as browsers do; it is not
  taken for the end of the stream.
* Rates are exact in hundredths and scores in sixtieths, where the code has floats; the
  bounds meet no half that would be rounded to even.  The theorems about `Hundredths`,
  which rounds halves up, do not depend on it: they compare (any rounding is monotone) or
  ask for 1/200, which as a float rounds to 0.01, and for values far below 0.80.
* Titles, wording, confidence, risk levels and similar tickets are left out.
* Not modelled: `SafetyPolicy.check` (no code calls it); the request and response in the
  form of OpenWebUI, which rename fields (a request without messages is a validation
  error there); telemetry export and static files; the language model client, prompts,
  templates and settings; deployment files and the built client.

## 6. Plan

What remains: `ChatStore` composed with the pipeline's gate, to ask whether the tools
that a granted request runs are those that were shown, since the plan is made anew; and
the theorems about it.
