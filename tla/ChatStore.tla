----------------------------- MODULE ChatStore -----------------------------
(***************************************************************************)
(* The chat store of the browser client (stores/useChatStore.ts), what the *)
(* functions of api/chat.ts return to it and the controls that call it.    *)
(*                                                                         *)
(* JavaScript runs the store's functions to their next await, so a send is *)
(* two steps, the request and its outcome, with anything the user does and *)
(* any piece of the streamed answer in between.  A request is numbered by  *)
(* the call that makes it, a question by the call that first asks it, and  *)
(* a conversation by the call the backend opened it for.  The visible text *)
(* of a message is the question it asks or answers.                        *)
(***************************************************************************)
EXTENDS Naturals, Sequences

CONSTANTS
    Clients,    \* the functions of api/chat.ts whose responses the store is given:
                \* it calls sendMessageStream; sendMessage has the same type
    MaxCalls    \* bound on the requests of a behaviour

ASSUME ClientsAssumption == Clients \subseteq {"sendMessageStream", "sendMessage"}
ASSUME MaxCallsAssumption == MaxCalls \in Nat

VARIABLES
    messages, conversationId, isLoading, error, streamingContent,
    approvalModalOpen, pendingResponse,
    calls,      \* the requests in flight, by number
    lastCall,   \* the number of the latest request
    decisions   \* history: the responses the user has decided on, in order, and
                \* whether a request was in flight then

store == <<messages, conversationId, isLoading, error, streamingContent,
           approvalModalOpen, pendingResponse>>
vars == <<store, calls, lastCall, decisions>>

CallIds == 1 .. MaxCalls
NoConversation == 0
NoQuestion == 0
NoResponse == [id |-> 0, of |-> NoQuestion, conversation_id |-> NoConversation,
               approval_required |-> FALSE]

\* Only the note of a rejection is about no question.
Message == {m \in [role : {"user", "assistant"}, of : 0 .. MaxCalls, granted : BOOLEAN] :
               m.of = NoQuestion => m.role = "assistant"}
Request == [of : CallIds, conversation_id : 0 .. MaxCalls, granted : BOOLEAN,
            needs : BOOLEAN]   \* whether the backend will ask for an approval
Response == [id : CallIds, of : CallIds, conversation_id : 0 .. MaxCalls,
             approval_required : BOOLEAN]

\* pendingResponse holds only what has to be approved.
Pending == {r \in Response : r.approval_required}

InFlight == DOMAIN calls

Init ==
    /\ messages = <<>>
    /\ conversationId = NoConversation
    /\ isLoading = FALSE
    /\ error = FALSE
    /\ streamingContent = {}
    /\ approvalModalOpen = FALSE
    /\ pendingResponse = NoResponse
    /\ calls = <<>>
    /\ lastCall = 0
    /\ decisions = <<>>

-----------------------------------------------------------------------------
(* The clients *)

\* What the backend answers: in the conversation of the request, or in a new one.
Answer(c) ==
    [id |-> c, of |-> calls[c].of,
     conversation_id |-> IF calls[c].conversation_id = NoConversation
                            THEN c ELSE calls[c].conversation_id,
     approval_required |-> calls[c].needs]

\* What a client makes of it.  The stream carries the text only: the rest is
\* filled in, the conversation from the request and the approval with false.
Received(client, c) ==
    IF client = "sendMessage" THEN Answer(c)
    ELSE [Answer(c) EXCEPT !.conversation_id = calls[c].conversation_id,
                           !.approval_required = FALSE]

Responses(c) == {Received(client, c) : client \in Clients}

Begin(request) ==
    /\ lastCall' = lastCall + 1
    /\ calls' = [c \in InFlight \cup {lastCall + 1} |->
                    IF c = lastCall + 1 THEN request ELSE calls[c]]

Without(c) == [d \in InFlight \ {c} |-> calls[d]]

-----------------------------------------------------------------------------
(* The controls *)

\* ApprovalModal renders nothing without a pending response.  It covers the page
\* for the pointer, but keeps no focus: the page behind it answers the keyboard.
DialogShown == approvalModalOpen /\ pendingResponse # NoResponse

\* addMessage
Added(role, of, granted) ==
    messages' = Append(messages, [role |-> role, of |-> of, granted |-> granted])

StartLoading ==
    /\ isLoading' = TRUE
    /\ error' = FALSE
    /\ streamingContent' = {}

StopLoading ==
    /\ isLoading' = FALSE
    /\ streamingContent' = {}

\* sendMessage up to its await, from ChatInput or a suggestion.
Ask ==
    /\ ~isLoading
    /\ lastCall < MaxCalls
    /\ Added("user", lastCall + 1, FALSE)
    /\ StartLoading
    /\ \E needs \in BOOLEAN :
          Begin([of |-> lastCall + 1, conversation_id |-> conversationId,
                 granted |-> FALSE, needs |-> needs])
    /\ UNCHANGED <<conversationId, approvalModalOpen, pendingResponse, decisions>>

\* onToken: a piece of the answer arrives.
Token(c) ==
    /\ streamingContent' = streamingContent \cup {calls[c].of}
    /\ UNCHANGED <<messages, conversationId, isLoading, error, approvalModalOpen,
                   pendingResponse, calls, lastCall, decisions>>

\* The conversation is stored only by a request that was made without one.
KeepConversation(c, response) ==
    IF calls[c].conversation_id = NoConversation /\ response.conversation_id # NoConversation
       THEN conversationId' = response.conversation_id
       ELSE UNCHANGED conversationId

\* Mutant: the dialog opens for every response.
AnsweredAlwaysAsks(c) ==
    /\ ~calls[c].granted
    /\ \E response \in Responses(c) :
          /\ KeepConversation(c, response)
          /\ approvalModalOpen' = TRUE
          /\ pendingResponse' = response
    /\ Added("assistant", calls[c].of, FALSE)
    /\ StopLoading
    /\ calls' = Without(c)
    /\ UNCHANGED <<error, lastCall, decisions>>

\* sendMessage from its await on, with a response.
Answered(c) ==
    /\ ~calls[c].granted
    /\ \E response \in Responses(c) :
          /\ KeepConversation(c, response)
          /\ IF response.approval_required
                THEN approvalModalOpen' = TRUE /\ pendingResponse' = response
                ELSE UNCHANGED <<approvalModalOpen, pendingResponse>>
    /\ Added("assistant", calls[c].of, FALSE)
    /\ StopLoading
    /\ calls' = Without(c)
    /\ UNCHANGED <<error, lastCall, decisions>>

\* Mutant: there is no finally block.
SendFailedStillLoading(c) ==
    /\ ~calls[c].granted
    /\ error' = TRUE
    /\ calls' = Without(c)
    /\ UNCHANGED <<messages, conversationId, isLoading, streamingContent,
                   approvalModalOpen, pendingResponse, lastCall, decisions>>

\* sendMessage from its await on, with an exception.
SendFailed(c) ==
    /\ ~calls[c].granted
    /\ error' = TRUE
    /\ StopLoading
    /\ calls' = Without(c)
    /\ UNCHANGED <<messages, conversationId, approvalModalOpen, pendingResponse,
                   lastCall, decisions>>

Asked(ms) == {i \in DOMAIN ms : ms[i].role = "user"}
\* Mutant: the list is not reversed before the search.
Earliest(ms, i) == i \in Asked(ms) /\ \A j \in Asked(ms) : i <= j
Latest(ms, i) == i \in Asked(ms) /\ \A j \in Asked(ms) : j <= i

Decided(choice) ==
    decisions' = Append(decisions, [response |-> pendingResponse.id, choice |-> choice,
                                    during |-> InFlight # {}])

\* Mutant: the dialog stays open until the request has ended.
ApproveLeavingOpen ==
    /\ DialogShown
    /\ lastCall < MaxCalls
    /\ StartLoading
    /\ \E i \in Asked(messages) :
          /\ Latest(messages, i)
          /\ Begin([of |-> messages[i].of, conversation_id |-> conversationId,
                    granted |-> TRUE, needs |-> FALSE])
    /\ Decided("approve")
    /\ UNCHANGED <<messages, conversationId, approvalModalOpen, pendingResponse>>

\* approveAction up to its await: the last question on the screen goes again.
Approve ==
    /\ DialogShown
    /\ lastCall < MaxCalls
    /\ approvalModalOpen' = FALSE
    /\ StartLoading
    /\ \E i \in Asked(messages) :
          /\ Latest(messages, i)
          /\ Begin([of |-> messages[i].of, conversation_id |-> conversationId,
                    granted |-> TRUE, needs |-> FALSE])
    /\ Decided("approve")
    /\ UNCHANGED <<messages, conversationId, pendingResponse>>

\* approveAction without a question on the screen: it throws, catches and ends.
ApproveNothing ==
    /\ DialogShown
    /\ Asked(messages) = {}
    /\ approvalModalOpen' = FALSE
    /\ pendingResponse' = NoResponse
    /\ error' = TRUE
    /\ StopLoading
    /\ Decided("approve")
    /\ UNCHANGED <<messages, conversationId, calls, lastCall>>

\* approveAction from its await on.
ApprovedAnswered(c) ==
    /\ calls[c].granted
    /\ Added("assistant", calls[c].of, TRUE)
    /\ pendingResponse' = NoResponse
    /\ StopLoading
    /\ calls' = Without(c)
    /\ UNCHANGED <<conversationId, error, approvalModalOpen, lastCall, decisions>>

ApprovedFailed(c) ==
    /\ calls[c].granted
    /\ error' = TRUE
    /\ pendingResponse' = NoResponse
    /\ StopLoading
    /\ calls' = Without(c)
    /\ UNCHANGED <<messages, conversationId, approvalModalOpen, lastCall, decisions>>

\* rejectAction, by the button or by the backdrop.
Reject ==
    /\ DialogShown
    /\ Added("assistant", NoQuestion, FALSE)
    /\ approvalModalOpen' = FALSE
    /\ pendingResponse' = NoResponse
    /\ Decided("reject")
    /\ UNCHANGED <<conversationId, isLoading, error, streamingContent, calls, lastCall>>

\* Mutant: clearing resets the loading flag as well.
ClearAndStop ==
    /\ messages' = <<>>
    /\ conversationId' = NoConversation
    /\ error' = FALSE
    /\ StopLoading
    /\ UNCHANGED <<approvalModalOpen, pendingResponse, calls, lastCall, decisions>>

\* clearMessages: no request is cancelled and no flag but the error is reset.
Clear ==
    /\ messages' = <<>>
    /\ conversationId' = NoConversation
    /\ error' = FALSE
    /\ streamingContent' = {}
    /\ UNCHANGED <<isLoading, approvalModalOpen, pendingResponse, calls, lastCall, decisions>>

End(c) == c \in InFlight /\ (\/ Answered(c)
                             \/ SendFailed(c)
                             \/ ApprovedAnswered(c)
                             \/ ApprovedFailed(c))

Next ==
    \/ Ask
    \/ Approve
    \/ ApproveNothing
    \/ Reject
    \/ Clear
    \/ \E c \in InFlight : Token(c)
    \/ \E c \in InFlight : End(c)

\* Every request ends: the backend answers or fails, or the connection breaks.
Fairness == \A c \in CallIds : WF_vars(End(c))

Spec == Init /\ [][Next]_vars /\ Fairness
-----------------------------------------------------------------------------
(* Properties *)

\* The type invariant of the store and of the requests in flight.
TypeOK ==
    /\ messages \in Seq(Message)
    /\ conversationId \in 0 .. MaxCalls
    /\ isLoading \in BOOLEAN
    /\ error \in BOOLEAN
    /\ streamingContent \subseteq CallIds
    /\ approvalModalOpen \in BOOLEAN
    /\ pendingResponse \in Pending \cup {NoResponse}
    /\ lastCall \in 0 .. MaxCalls
    /\ InFlight \subseteq 1 .. lastCall
    /\ \A c \in InFlight : calls[c] \in Request
    /\ decisions \in Seq([response : CallIds, choice : {"approve", "reject"},
                         during : BOOLEAN])

\* No approval was given while a request was in flight.  approveAction does not ask
\* for the loading flag, so that one given behind a question asked meanwhile makes
\* a second request beside the first.
Undisturbed ==
    \A i \in DOMAIN decisions : decisions[i].choice = "approve" => ~decisions[i].during

\* The loading flag, which is all that guards against duplicate sends, is set
\* exactly while a request is in flight, and that request is the only one.
OneCallWhileLoading ==
    /\ isLoading <=> InFlight # {}
    /\ \A c, d \in InFlight : c = d

\* The preview shows the answer under way and nothing else.
PreviewIsOfCall == streamingContent \subseteq {calls[c].of : c \in InFlight}

\* What the page shows of loading is about one request, and the one under way;
\* an approval given beside a request breaks that, but even then nobody waits for
\* nothing.
LoadingIsOneCall ==
    /\ Undisturbed => OneCallWhileLoading /\ PreviewIsOfCall
    /\ isLoading => InFlight # {}

\* An open dialog has a response to show, so that no decision is lost.
DialogHasResponse == approvalModalOpen => pendingResponse # NoResponse

\* No response is decided twice: neither approved again nor approved after it
\* was rejected.
OneDecision ==
    \A i, j \in DOMAIN decisions :
        decisions[i].response = decisions[j].response => i = j

\* A question has at most one answer, and one more after an approval.
AnsweredOnce ==
    Undisturbed =>
        \A i, j \in DOMAIN messages :
            /\ messages[i].role = "assistant"
            /\ messages[i].of # NoQuestion
            /\ messages[i] = messages[j]
            => i = j

Granted == {c \in InFlight : calls[c].granted}

\* A grant goes to the question the dialog was about, or to one that was asked after
\* it, behind the open dialog, and is on the screen; never to one asked before.
GrantsShownOrNewer ==
    [][\A c \in Granted' \ InFlight :
          LET of == calls'[c].of IN
          /\ of = pendingResponse.of \/ of > pendingResponse.id
          /\ \E i \in Asked(messages) : messages[i].of = of]_vars

\* What a decision is about: the dialog is not empty, and a grant never goes back to
\* a question older than the one the dialog showed.
DecisionHasObject == [](Undisturbed => DialogHasResponse) /\ GrantsShownOrNewer

\* The questions, not approvals, that the step answers.
AnsweredNow ==
    {c \in InFlight \ DOMAIN calls' : ~calls[c].granted /\ Len(messages') > Len(messages)}

\* An answer that the backend marks as requiring approval opens the dialog:
\* "Approval modal appears when response requires Crew Chief approval".
DialogAppears ==
    [][\A c \in AnsweredNow : Answer(c).approval_required => DialogShown']_vars

\* A request that is being waited for ends the waiting.
LoadingEnds == isLoading ~> ~isLoading
=============================================================================
