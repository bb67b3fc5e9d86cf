--------------------------- MODULE ChatStoreProofs ---------------------------
(***************************************************************************)
(* Theorems about the chat store, for every number of requests and         *)
(* whichever client's responses it is given.                               *)
(***************************************************************************)
EXTENDS ChatStore, TLAPS

-----------------------------------------------------------------------------
(* The requests in flight *)

\* Begin adds one request, under the next number.
LEMMA BeginAdds ==
    ASSUME NEW request, Begin(request)
    PROVE  /\ lastCall' = lastCall + 1
           /\ DOMAIN calls' = InFlight \cup {lastCall + 1}
           /\ calls'[lastCall + 1] = request
           /\ \A c \in InFlight : c # lastCall + 1 => calls'[c] = calls[c]
BY DEF Begin, InFlight

\* Without removes one request.
LEMMA WithoutRemoves ==
    ASSUME NEW c, calls' = Without(c)
    PROVE  /\ DOMAIN calls' = InFlight \ {c}
           /\ \A d \in InFlight \ {c} : calls'[d] = calls[d]
BY DEF Without, InFlight

\* What a client returns is a response, with the request's number.
LEMMA ReceivedType ==
    ASSUME TypeOK, NEW c \in InFlight, NEW response \in Responses(c)
    PROVE  response \in Response /\ response.id = c /\ response.of = calls[c].of
<1>1. c \in CallIds /\ calls[c] \in Request
    BY MaxCallsAssumption DEF TypeOK, CallIds, InFlight
<1>2. Answer(c) \in Response /\ Answer(c).id = c /\ Answer(c).of = calls[c].of
    BY <1>1, MaxCallsAssumption DEF Answer, Response, Request, NoConversation, CallIds
<1>3. PICK client : response = Received(client, c)
    BY DEF Responses
<1>4. CASE client = "sendMessage"
    BY <1>2, <1>3, <1>4 DEF Received
<1>5. CASE client # "sendMessage"
    <2>1. response = [Answer(c) EXCEPT !.conversation_id = calls[c].conversation_id,
                                       !.approval_required = FALSE]
        BY <1>3, <1>5 DEF Received
    <2> QED
        BY <1>1, <1>2, <2>1 DEF Response, Request
<1> QED
    BY <1>4, <1>5

-----------------------------------------------------------------------------
(* Types *)

\* What the user may have decided.
Decisions == Seq([response : CallIds, choice : {"approve", "reject"}, during : BOOLEAN])

\* The first state has the declared types.
LEMMA InitTypes == Init => TypeOK
<1> SUFFICES ASSUME Init
             PROVE  TypeOK
    OBVIOUS
<1>1. InFlight = {}
    BY DEF Init, InFlight
<1>2. messages \in Seq(Message)
    BY DEF Init
<1>3. decisions \in Decisions
    BY DEF Init, Decisions
<1>4. /\ isLoading \in BOOLEAN
      /\ error \in BOOLEAN
      /\ streamingContent \subseteq CallIds
      /\ approvalModalOpen \in BOOLEAN
      /\ pendingResponse \in Pending \cup {NoResponse}
    BY DEF Init
<1>5. conversationId \in 0 .. MaxCalls /\ lastCall \in 0 .. MaxCalls
    BY MaxCallsAssumption DEF Init, NoConversation
<1> QED
    BY <1>1, <1>2, <1>3, <1>4, <1>5 DEF TypeOK, Decisions

\* Appending a message of the right type keeps the list typed.
LEMMA AddedType ==
    ASSUME messages \in Seq(Message), NEW role \in {"user", "assistant"},
           NEW of \in 0 .. MaxCalls, NEW granted \in BOOLEAN, Added(role, of, granted),
           of = NoQuestion => role = "assistant"
    PROVE  messages' \in Seq(Message)
BY DEF Added, Message

\* A decision is about a response that has a number.
LEMMA DecidedType ==
    ASSUME TypeOK, DialogShown, NEW choice \in {"approve", "reject"}, Decided(choice)
    PROVE  decisions' \in Decisions
BY DEF TypeOK, DialogShown, Decided, Pending, Response, Decisions

\* Beginning a request keeps the numbers and the requests typed.
LEMMA BeginType ==
    ASSUME TypeOK, lastCall < MaxCalls, NEW request \in Request, Begin(request)
    PROVE  /\ lastCall' \in 0 .. MaxCalls
           /\ InFlight' \subseteq 1 .. lastCall'
           /\ \A c \in InFlight' : calls'[c] \in Request
BY BeginAdds, MaxCallsAssumption DEF TypeOK, InFlight

\* Ending a request keeps the requests typed.
LEMMA WithoutType ==
    ASSUME TypeOK, NEW c, calls' = Without(c), UNCHANGED lastCall
    PROVE  /\ InFlight' \subseteq 1 .. lastCall'
           /\ \A d \in InFlight' : calls'[d] \in Request
BY WithoutRemoves DEF TypeOK, InFlight

\* A request is about a question that has a number.
LEMMA QuestionNumber ==
    ASSUME TypeOK, NEW c \in InFlight
    PROVE  calls[c].of \in CallIds /\ calls[c].of \in 0 .. MaxCalls
<1>1. calls[c] \in Request
    BY DEF TypeOK
<1>2. \A request \in Request : request.of \in CallIds
    BY DEF Request
<1>3. CallIds \subseteq 0 .. MaxCalls
    BY MaxCallsAssumption DEF CallIds
<1> QED
    BY <1>1, <1>2, <1>3

\* Every step keeps the types.
LEMMA NextTypes == TypeOK /\ [Next]_vars => TypeOK'
<1> SUFFICES ASSUME TypeOK, [Next]_vars
             PROVE  TypeOK'
    OBVIOUS
<1> USE MaxCallsAssumption
<1>1. CASE Ask
    <2>1. PICK needs \in BOOLEAN :
              Begin([of |-> lastCall + 1, conversation_id |-> conversationId,
                     granted |-> FALSE, needs |-> needs])
        BY <1>1 DEF Ask
    <2>2. [of |-> lastCall + 1, conversation_id |-> conversationId,
           granted |-> FALSE, needs |-> needs] \in Request
        BY <1>1 DEF Ask, TypeOK, Request, CallIds
    <2>3. messages' \in Seq(Message)
        <3>1. messages \in Seq(Message) /\ Added("user", lastCall + 1, FALSE)
            BY <1>1 DEF Ask, TypeOK
        <3>2. lastCall + 1 \in 0 .. MaxCalls /\ lastCall + 1 # NoQuestion
            BY <1>1 DEF Ask, TypeOK, NoQuestion
        <3> QED
            BY <3>1, <3>2, AddedType
    <2>4. /\ lastCall' \in 0 .. MaxCalls
          /\ InFlight' \subseteq 1 .. lastCall'
          /\ \A c \in InFlight' : calls'[c] \in Request
        BY <1>1, <2>1, <2>2, BeginType DEF Ask
    <2> QED
        BY <1>1, <2>3, <2>4 DEF Ask, StartLoading, TypeOK
<1>2. CASE Approve
    <2>1. PICK i \in Asked(messages) :
              Begin([of |-> messages[i].of, conversation_id |-> conversationId,
                     granted |-> TRUE, needs |-> FALSE])
        BY <1>2 DEF Approve
    <2>2. messages[i] \in Message /\ messages[i].role = "user"
        BY DEF TypeOK, Asked
    <2>3. messages[i].of \in CallIds
        BY <2>2 DEF Message, CallIds, NoQuestion
    <2>4. [of |-> messages[i].of, conversation_id |-> conversationId,
           granted |-> TRUE, needs |-> FALSE] \in Request
        BY <2>3 DEF TypeOK, Request
    <2> QED
        <3>1. /\ lastCall' \in 0 .. MaxCalls
              /\ InFlight' \subseteq 1 .. lastCall'
              /\ \A c \in InFlight' : calls'[c] \in Request
            BY <1>2, <2>1, <2>4, BeginType DEF Approve
        <3>2. decisions' \in Decisions
            BY <1>2, DecidedType DEF Approve
        <3> QED
            BY <1>2, <3>1, <3>2 DEF Approve, StartLoading, TypeOK, Decisions
<1>3. CASE ApproveNothing
    <2>1. decisions' \in Decisions
        BY <1>3, DecidedType DEF ApproveNothing
    <2>2. /\ InFlight' \subseteq 1 .. lastCall'
          /\ \A c \in InFlight' : calls'[c] \in Request
        BY <1>3 DEF ApproveNothing, TypeOK, InFlight
    <2> QED
        BY <1>3, <2>1, <2>2 DEF ApproveNothing, StopLoading, TypeOK, Decisions
<1>4. CASE Reject
    <2>1. messages' \in Seq(Message)
        <3>1. messages \in Seq(Message) /\ Added("assistant", NoQuestion, FALSE)
            BY <1>4 DEF Reject, TypeOK
        <3>2. NoQuestion \in 0 .. MaxCalls
            BY DEF NoQuestion
        <3> QED
            BY <3>1, <3>2, AddedType
    <2>2. decisions' \in Decisions
        BY <1>4, DecidedType DEF Reject
    <2>3. /\ InFlight' \subseteq 1 .. lastCall'
          /\ \A c \in InFlight' : calls'[c] \in Request
        BY <1>4 DEF Reject, TypeOK, InFlight
    <2> QED
        BY <1>4, <2>1, <2>2, <2>3 DEF Reject, TypeOK, Decisions
<1>5. CASE Clear
    <2>1. messages' \in Seq(Message)
        BY <1>5 DEF Clear
    <2>2. /\ InFlight' \subseteq 1 .. lastCall'
          /\ \A c \in InFlight' : calls'[c] \in Request
        BY <1>5 DEF Clear, TypeOK, InFlight
    <2>3. conversationId' \in 0 .. MaxCalls
        BY <1>5 DEF Clear, NoConversation
    <2> QED
        BY <1>5, <2>1, <2>2, <2>3 DEF Clear, TypeOK
<1>6. ASSUME NEW c \in InFlight, Token(c)
      PROVE  TypeOK'
    <2>1. calls[c].of \in CallIds
        BY QuestionNumber
    <2> QED
        BY <1>6, <2>1 DEF Token, TypeOK, InFlight
<1>7. ASSUME NEW c \in InFlight, Answered(c)
      PROVE  TypeOK'
    <2>1. calls[c].of \in 0 .. MaxCalls
        BY QuestionNumber
    <2>2. messages' \in Seq(Message)
        BY <1>7, <2>1, AddedType DEF Answered, TypeOK
    <2>3. PICK response \in Response :
              /\ KeepConversation(c, response)
              /\ IF response.approval_required
                    THEN approvalModalOpen' = TRUE /\ pendingResponse' = response
                    ELSE UNCHANGED <<approvalModalOpen, pendingResponse>>
        BY <1>7, ReceivedType DEF Answered
    <2>4. pendingResponse' \in Pending \cup {NoResponse} /\ approvalModalOpen' \in BOOLEAN
        BY <2>3 DEF TypeOK, Pending
    <2>5. conversationId' \in 0 .. MaxCalls
        BY <2>3 DEF KeepConversation, TypeOK, Response
    <2> QED
        BY <1>7, <2>2, <2>4, <2>5, WithoutType DEF Answered, StopLoading, TypeOK
<1>8. ASSUME NEW c \in InFlight, SendFailed(c)
      PROVE  TypeOK'
    BY <1>8, WithoutType DEF SendFailed, StopLoading, TypeOK
<1>9. ASSUME NEW c \in InFlight, ApprovedAnswered(c)
      PROVE  TypeOK'
    <2>1. calls[c].of \in 0 .. MaxCalls
        BY QuestionNumber
    <2>2. messages' \in Seq(Message)
        BY <1>9, <2>1, AddedType DEF ApprovedAnswered, TypeOK
    <2> QED
        BY <1>9, <2>2, WithoutType DEF ApprovedAnswered, StopLoading, TypeOK
<1>10. ASSUME NEW c \in InFlight, ApprovedFailed(c)
       PROVE  TypeOK'
    BY <1>10, WithoutType DEF ApprovedFailed, StopLoading, TypeOK
<1>11. CASE UNCHANGED vars
    BY <1>11 DEF vars, store, TypeOK, InFlight
<1> QED
    BY <1>1, <1>2, <1>3, <1>4, <1>5, <1>6, <1>7, <1>8, <1>9, <1>10, <1>11 DEF Next, End

\* The store and its requests keep their types.
THEOREM Types == Spec => []TypeOK
BY InitTypes, NextTypes, PTL DEF Spec

-----------------------------------------------------------------------------
(* Decisions *)

\* The invariant behind OneDecision: the decided responses belong to requests
\* that have ended, and so does the one in the dialog, which is not among them.
Ended == (1 .. lastCall) \ InFlight

DecisionsInv ==
    /\ OneDecision
    /\ \A i \in DOMAIN decisions : decisions[i].response \in Ended
    /\ DialogShown =>
          /\ pendingResponse.id \in Ended
          /\ \A i \in DOMAIN decisions : decisions[i].response # pendingResponse.id

\* Deciding on the response in the dialog is a first decision.
LEMMA DecidedOnce ==
    ASSUME TypeOK, DecisionsInv, DialogShown, NEW choice \in {"approve", "reject"},
           Decided(choice)
    PROVE  /\ OneDecision'
           /\ \A i \in DOMAIN decisions' : decisions'[i].response \in Ended
<1> DEFINE D == [response |-> pendingResponse.id, choice |-> choice,
                 during |-> InFlight # {}]
<1>1. /\ decisions' = Append(decisions, D)
      /\ decisions \in Decisions
    BY DEF Decided, TypeOK, Decisions
<1>2. /\ DOMAIN decisions' = 1 .. Len(decisions) + 1
      /\ DOMAIN decisions = 1 .. Len(decisions)
      /\ Len(decisions) \in Nat
      /\ \A i \in 1 .. Len(decisions) : decisions'[i] = decisions[i]
      /\ decisions'[Len(decisions) + 1] = D
    BY <1>1 DEF Decisions
<1>3. D.response = pendingResponse.id
    OBVIOUS
<1> HIDE DEF D
<1> QED
    BY <1>2, <1>3 DEF DecisionsInv, OneDecision

\* A new request is under a number that nothing has ended under.
LEMMA EndedByBegin ==
    ASSUME TypeOK, NEW request, Begin(request)
    PROVE  Ended' = Ended
BY BeginAdds, MaxCallsAssumption DEF Ended, InFlight, TypeOK

\* A request that ends joins those that have ended.
LEMMA EndedByWithout ==
    ASSUME TypeOK, NEW c \in InFlight, calls' = Without(c), UNCHANGED lastCall
    PROVE  Ended' = Ended \cup {c} /\ c \notin Ended
BY WithoutRemoves, MaxCallsAssumption DEF Ended, InFlight, TypeOK

\* Every step keeps the invariant on decisions.
LEMMA NextDecisions == TypeOK /\ DecisionsInv /\ [Next]_vars => DecisionsInv'
<1> SUFFICES ASSUME TypeOK, DecisionsInv, [Next]_vars
             PROVE  DecisionsInv'
    OBVIOUS
<1>1. CASE Ask
    <2>1. Ended' = Ended
        BY <1>1, EndedByBegin DEF Ask
    <2> QED
        BY <1>1, <2>1 DEF Ask, DecisionsInv, OneDecision, DialogShown
<1>2. CASE Approve
    <2>1. Ended' = Ended
        BY <1>2, EndedByBegin DEF Approve
    <2>2. OneDecision' /\ \A i \in DOMAIN decisions' : decisions'[i].response \in Ended
        BY <1>2, DecidedOnce DEF Approve
    <2> QED
        BY <1>2, <2>1, <2>2 DEF Approve, DecisionsInv, DialogShown
<1>3. CASE ApproveNothing
    <2>1. Ended' = Ended
        BY <1>3 DEF ApproveNothing, Ended, InFlight
    <2>2. OneDecision' /\ \A i \in DOMAIN decisions' : decisions'[i].response \in Ended
        BY <1>3, DecidedOnce DEF ApproveNothing
    <2> QED
        BY <1>3, <2>1, <2>2 DEF ApproveNothing, DecisionsInv, DialogShown
<1>4. CASE Reject
    <2>1. Ended' = Ended
        BY <1>4 DEF Reject, Ended, InFlight
    <2>2. OneDecision' /\ \A i \in DOMAIN decisions' : decisions'[i].response \in Ended
        BY <1>4, DecidedOnce DEF Reject
    <2> QED
        BY <1>4, <2>1, <2>2 DEF Reject, DecisionsInv, DialogShown
<1>5. CASE Clear
    BY <1>5 DEF Clear, DecisionsInv, OneDecision, DialogShown, Ended, InFlight
<1>6. ASSUME NEW c \in InFlight, Token(c)
      PROVE  DecisionsInv'
    BY <1>6 DEF Token, DecisionsInv, OneDecision, DialogShown, Ended, InFlight
<1>7. ASSUME NEW c \in InFlight, Answered(c)
      PROVE  DecisionsInv'
    <2>1. Ended' = Ended \cup {c} /\ c \notin Ended
        BY <1>7, EndedByWithout DEF Answered
    <2>2. PICK response \in Responses(c) :
              IF response.approval_required
                 THEN approvalModalOpen' = TRUE /\ pendingResponse' = response
                 ELSE UNCHANGED <<approvalModalOpen, pendingResponse>>
        BY <1>7 DEF Answered
    <2>3. response.id = c
        BY ReceivedType
    <2> QED
        BY <1>7, <2>1, <2>2, <2>3 DEF Answered, DecisionsInv, OneDecision, DialogShown
<1>8. ASSUME NEW c \in InFlight, SendFailed(c)
      PROVE  DecisionsInv'
    <2>1. Ended' = Ended \cup {c}
        BY <1>8, EndedByWithout DEF SendFailed
    <2> QED
        BY <1>8, <2>1 DEF SendFailed, DecisionsInv, OneDecision, DialogShown
<1>9. ASSUME NEW c \in InFlight, ApprovedAnswered(c) \/ ApprovedFailed(c)
      PROVE  DecisionsInv'
    <2>1. /\ Ended' = Ended \cup {c}
          /\ ~DialogShown'
          /\ UNCHANGED decisions
        BY <1>9, EndedByWithout DEF ApprovedAnswered, ApprovedFailed, DialogShown
    <2> QED
        BY <2>1 DEF DecisionsInv, OneDecision
<1>10. CASE UNCHANGED vars
    BY <1>10 DEF vars, store, DecisionsInv, OneDecision, DialogShown, Ended, InFlight
<1> QED
    BY <1>1, <1>2, <1>3, <1>4, <1>5, <1>6, <1>7, <1>8, <1>9, <1>10 DEF Next, End

\* No response is approved twice, or approved once it was rejected, not even when
\* the user asks and clears behind the dialog: a second approval would execute a
\* critical action again.
THEOREM DecidedAtMostOnce == Spec => []OneDecision
<1>1. Init => DecisionsInv
    BY DEF Init, DecisionsInv, OneDecision, DialogShown
<1>2. DecisionsInv => OneDecision
    BY DEF DecisionsInv
<1> QED
    BY <1>1, <1>2, NextDecisions, Types, PTL DEF Spec

-----------------------------------------------------------------------------
(* Nobody waits for nothing *)

\* The loading flag is set by what begins a request and reset by what ends one.
Waiting == isLoading => InFlight # {}

\* Every step keeps it.
LEMMA NextWaiting == TypeOK /\ Waiting /\ [Next]_vars => Waiting'
<1> SUFFICES ASSUME TypeOK, Waiting, [Next]_vars
             PROVE  Waiting'
    OBVIOUS
<1>1. ASSUME Ask \/ Approve
      PROVE  Waiting'
    <2>1. PICK request : Begin(request)
        BY <1>1 DEF Ask, Approve
    <2> QED
        BY <2>1, BeginAdds DEF Waiting, InFlight
<1>2. CASE Reject \/ Clear \/ \E c \in InFlight : Token(c)
    BY <1>2 DEF Reject, Clear, Token, Waiting, InFlight
<1>3. CASE ApproveNothing
    BY <1>3 DEF ApproveNothing, StopLoading, Waiting
<1>4. ASSUME NEW c \in InFlight, End(c)
      PROVE  Waiting'
    BY <1>4 DEF End, Answered, SendFailed, ApprovedAnswered, ApprovedFailed, StopLoading,
       Waiting
<1>5. CASE UNCHANGED vars
    BY <1>5 DEF vars, store, Waiting, InFlight
<1> QED
    BY <1>1, <1>2, <1>3, <1>4, <1>5 DEF Next

-----------------------------------------------------------------------------
(* One request at a time, as long as no approval is given beside a request *)

\* What has disturbed the store has done so for good, and an approval that does not
\* was given with nothing in flight.
LEMMA StillUndisturbed ==
    ASSUME TypeOK, [Next]_vars, Undisturbed'
    PROVE  Undisturbed /\ (Approve \/ ApproveNothing => InFlight = {})
<1>1. decisions \in Decisions
    BY DEF TypeOK, Decisions
<1>2. ASSUME NEW choice, Decided(choice)
      PROVE  /\ Undisturbed
             /\ choice = "approve" => InFlight = {}
    <2> DEFINE D == [response |-> pendingResponse.id, choice |-> choice,
                     during |-> InFlight # {}]
    <2>1. decisions' = Append(decisions, D)
        BY <1>2 DEF Decided
    <2>2. /\ DOMAIN decisions' = 1 .. Len(decisions) + 1
          /\ DOMAIN decisions = 1 .. Len(decisions)
          /\ Len(decisions) \in Nat
          /\ \A i \in 1 .. Len(decisions) : decisions'[i] = decisions[i]
          /\ decisions'[Len(decisions) + 1] = D
        BY <1>1, <2>1 DEF Decisions
    <2>3. D.choice = choice /\ (D.during <=> InFlight # {})
        OBVIOUS
    <2> HIDE DEF D
    <2>4. \A i \in DOMAIN decisions : i \in DOMAIN decisions' /\ decisions'[i] = decisions[i]
        BY <2>2
    <2>5. Undisturbed
        BY <2>4 DEF Undisturbed
    <2>6. choice = "approve" => ~D.during
        BY <2>2, <2>3 DEF Undisturbed
    <2> QED
        BY <2>3, <2>5, <2>6
<1>3. Approve \/ ApproveNothing => InFlight = {}
    BY <1>2 DEF Approve, ApproveNothing
<1>4. CASE Approve \/ ApproveNothing \/ Reject
    BY <1>2, <1>3, <1>4 DEF Approve, ApproveNothing, Reject
<1>5. CASE UNCHANGED decisions
    BY <1>3, <1>5 DEF Undisturbed
<1>6. ASSUME NEW c \in InFlight, Token(c) \/ End(c)
      PROVE  UNCHANGED decisions
    BY <1>6 DEF Token, End, Answered, SendFailed, ApprovedAnswered, ApprovedFailed
<1>7. CASE Ask \/ Clear \/ UNCHANGED vars
    BY <1>5, <1>7 DEF Ask, Clear, vars
<1> QED
    BY <1>3, <1>4, <1>5, <1>6, <1>7 DEF Next

\* The invariant behind OneRequestAtATime.  An approval under way has closed the
\* dialog, which nothing opens before it ends.
DialogInv ==
    Undisturbed =>
        /\ OneCallWhileLoading
        /\ PreviewIsOfCall
        /\ DialogHasResponse
        /\ \A c \in InFlight : calls[c].granted => ~approvalModalOpen

\* When the only request ends, nothing is in flight.
LEMMA LastEnds ==
    ASSUME OneCallWhileLoading, NEW c \in InFlight, calls' = Without(c)
    PROVE  DOMAIN calls' = {}
BY WithoutRemoves DEF OneCallWhileLoading

\* When the first begins, it is the only one.
LEMMA FirstBegins ==
    ASSUME InFlight = {}, NEW request, Begin(request)
    PROVE  InFlight' = {lastCall + 1} /\ calls'[lastCall + 1] = request
BY BeginAdds DEF InFlight

\* Every step keeps the invariant.
LEMMA NextDialog == TypeOK /\ DialogInv /\ [Next]_vars => DialogInv'
<1> SUFFICES ASSUME TypeOK, DialogInv, [Next]_vars, Undisturbed'
             PROVE  /\ OneCallWhileLoading'
                    /\ PreviewIsOfCall'
                    /\ DialogHasResponse'
                    /\ \A c \in InFlight' : calls'[c].granted => ~approvalModalOpen'
    BY DEF DialogInv
<1>0. /\ OneCallWhileLoading
      /\ PreviewIsOfCall
      /\ DialogHasResponse
      /\ \A c \in InFlight : calls[c].granted => ~approvalModalOpen
    BY StillUndisturbed DEF DialogInv
<1> USE DEF OneCallWhileLoading, PreviewIsOfCall, DialogHasResponse
<1>1. CASE Ask
    <2>1. PICK request : Begin(request) /\ ~request.granted
        BY <1>1 DEF Ask
    <2>2. InFlight' = {lastCall + 1} /\ calls'[lastCall + 1] = request
        BY <1>0, <1>1, <2>1, FirstBegins DEF Ask
    <2> QED
        BY <1>0, <1>1, <2>1, <2>2 DEF Ask, StartLoading
<1>2. CASE Approve
    <2>1. PICK request : Begin(request)
        BY <1>2 DEF Approve
    <2>2. InFlight' = {lastCall + 1}
        BY <1>2, <2>1, FirstBegins, StillUndisturbed
    <2> QED
        BY <1>2, <2>2 DEF Approve, StartLoading
<1>3. CASE ApproveNothing
    <2>1. InFlight' = {}
        BY <1>3, StillUndisturbed DEF ApproveNothing, InFlight
    <2> QED
        BY <1>3, <2>1 DEF ApproveNothing, StopLoading
<1>4. CASE Reject
    BY <1>0, <1>4 DEF Reject, InFlight
<1>5. CASE Clear
    BY <1>0, <1>5 DEF Clear, InFlight
<1>6. ASSUME NEW c \in InFlight, Token(c)
      PROVE  /\ OneCallWhileLoading'
             /\ PreviewIsOfCall'
             /\ DialogHasResponse'
             /\ \A d \in InFlight' : calls'[d].granted => ~approvalModalOpen'
    BY <1>0, <1>6 DEF Token, InFlight
<1>7. ASSUME NEW c \in InFlight, Answered(c)
      PROVE  /\ OneCallWhileLoading'
             /\ PreviewIsOfCall'
             /\ DialogHasResponse'
             /\ InFlight' = {}
    <2>1. InFlight' = {}
        BY <1>0, <1>7, LastEnds DEF Answered, InFlight
    <2>2. PICK response \in Responses(c) :
              IF response.approval_required
                 THEN approvalModalOpen' = TRUE /\ pendingResponse' = response
                 ELSE UNCHANGED <<approvalModalOpen, pendingResponse>>
        BY <1>7 DEF Answered
    <2>3. response # NoResponse
        <3>1. response.id = c
            BY <2>2, ReceivedType
        <3>2. c # 0
            BY DEF TypeOK
        <3> QED
            BY <3>1, <3>2 DEF NoResponse
    <2> QED
        BY <1>0, <1>7, <2>1, <2>2, <2>3 DEF Answered, StopLoading
<1>8. ASSUME NEW c \in InFlight, SendFailed(c)
      PROVE  /\ OneCallWhileLoading'
             /\ PreviewIsOfCall'
             /\ DialogHasResponse'
             /\ InFlight' = {}
    <2>1. InFlight' = {}
        BY <1>0, <1>8, LastEnds DEF SendFailed, InFlight
    <2> QED
        BY <1>0, <1>8, <2>1 DEF SendFailed, StopLoading
<1>9. ASSUME NEW c \in InFlight, ApprovedAnswered(c) \/ ApprovedFailed(c)
      PROVE  /\ OneCallWhileLoading'
             /\ PreviewIsOfCall'
             /\ DialogHasResponse'
             /\ InFlight' = {}
    <2>1. InFlight' = {}
        BY <1>0, <1>9, LastEnds DEF ApprovedAnswered, ApprovedFailed, InFlight
    <2>2. ~approvalModalOpen'
        BY <1>0, <1>9 DEF ApprovedAnswered, ApprovedFailed
    <2> QED
        BY <1>9, <2>1, <2>2 DEF ApprovedAnswered, ApprovedFailed, StopLoading
<1>10. CASE UNCHANGED vars
    BY <1>0, <1>10 DEF vars, store, InFlight
<1> QED
    BY <1>1, <1>2, <1>3, <1>4, <1>5, <1>6, <1>7, <1>8, <1>9, <1>10 DEF Next, End

\* Both invariants hold from the start.
LEMMA DialogAlways == Spec => [](DialogInv /\ Waiting)
<1>1. Init => DialogInv /\ Waiting
    BY DEF Init, DialogInv, OneCallWhileLoading, PreviewIsOfCall, DialogHasResponse, InFlight,
       Waiting
<1> QED
    BY <1>1, NextDialog, NextWaiting, Types, PTL DEF Spec

\* One request at a time, and loading exactly as long, through answers, rejections,
\* clears, questions behind the dialog and every approval that is not given beside a
\* request; the preview never shows the text of another request; and whatever was
\* approved beside what, the page does not wait when nothing is under way.
THEOREM OneRequestAtATime == Spec => []LoadingIsOneCall
<1>1. DialogInv /\ Waiting => LoadingIsOneCall
    BY DEF DialogInv, Waiting, LoadingIsOneCall
<1> QED
    BY <1>1, DialogAlways, PTL

-----------------------------------------------------------------------------
(* What a grant is for *)

\* If a question is left on the screen, the last one is q or was asked after q.
NewestFrom(ms, q) == \A i \in Asked(ms) : Latest(ms, i) => q <= ms[i].of

\* The invariant behind GrantsShownOrNewer.  The dialog alone would not do: that
\* nothing older is last follows from what was true of the request.
NewestInv ==
    /\ \A c \in InFlight : ~calls[c].granted => calls[c].of = c /\ NewestFrom(messages, c)
    /\ pendingResponse # NoResponse =>
          /\ pendingResponse.of = pendingResponse.id
          /\ pendingResponse.id <= lastCall
          /\ NewestFrom(messages, pendingResponse.id)

\* An assistant's message leaves the questions alone.
LEMMA AnswerKeepsQuestions ==
    ASSUME messages \in Seq(Message), NEW of, NEW granted, Added("assistant", of, granted),
           NEW q, NewestFrom(messages, q)
    PROVE  NewestFrom(messages', q)
<1> DEFINE m == [role |-> "assistant", of |-> of, granted |-> granted]
<1>1. /\ DOMAIN messages' = 1 .. Len(messages) + 1
      /\ DOMAIN messages = 1 .. Len(messages)
      /\ Len(messages) \in Nat
      /\ \A i \in 1 .. Len(messages) : messages'[i] = messages[i]
      /\ messages'[Len(messages) + 1] = m
    BY DEF Added
<1>2. m.role # "user"
    OBVIOUS
<1> HIDE DEF m
<1>3. Asked(messages') = Asked(messages) /\ \A i \in Asked(messages) : messages'[i] = messages[i]
    BY <1>1, <1>2 DEF Asked
<1> QED
    BY <1>3 DEF NewestFrom, Latest

\* A new question is the last one, and newer than all before it.
LEMMA QuestionIsLast ==
    ASSUME messages \in Seq(Message), NEW of \in Nat, Added("user", of, FALSE),
           NEW q \in Nat, q <= of
    PROVE  NewestFrom(messages', q)
<1> DEFINE m == [role |-> "user", of |-> of, granted |-> FALSE]
<1>1. /\ DOMAIN messages' = 1 .. Len(messages) + 1
      /\ Len(messages) \in Nat
      /\ messages'[Len(messages) + 1] = m
    BY DEF Added
<1>2. m.role = "user" /\ m.of = of
    OBVIOUS
<1> HIDE DEF m
<1>3. \A i \in Asked(messages') : Latest(messages', i) => i = Len(messages) + 1
    BY <1>1, <1>2 DEF Asked, Latest
<1> QED
    BY <1>1, <1>2, <1>3 DEF NewestFrom

\* Every step keeps the invariant.
LEMMA NextNewest == TypeOK /\ NewestInv /\ [Next]_vars => NewestInv'
<1> SUFFICES ASSUME TypeOK, NewestInv, [Next]_vars
             PROVE  NewestInv'
    OBVIOUS
<1>0. /\ messages \in Seq(Message) /\ lastCall \in Nat
      /\ \A c \in InFlight : c \in Nat /\ c <= lastCall
      /\ pendingResponse # NoResponse => pendingResponse.id \in Nat
    BY MaxCallsAssumption DEF TypeOK, Pending, Response, CallIds
<1>1. CASE Ask
    <2>1. PICK request : /\ Begin(request)
                         /\ request.of = lastCall + 1 /\ ~request.granted
        BY <1>1 DEF Ask
    <2>2. /\ lastCall' = lastCall + 1
          /\ InFlight' = InFlight \cup {lastCall + 1}
          /\ calls'[lastCall + 1] = request
          /\ \A c \in InFlight : c # lastCall + 1 => calls'[c] = calls[c]
        BY <2>1, BeginAdds DEF InFlight
    <2>3. ASSUME NEW q \in Nat, q <= lastCall + 1
          PROVE  NewestFrom(messages', q)
        <3>1. Added("user", lastCall + 1, FALSE)
            BY <1>1 DEF Ask
        <3>2. lastCall + 1 \in Nat
            BY <1>0
        <3> QED
            BY <1>0, <2>3, <3>1, <3>2, QuestionIsLast
    <2>4. ASSUME NEW c \in InFlight', ~calls'[c].granted
          PROVE  calls'[c].of = c /\ NewestFrom(messages', c)
        <3>1. CASE c = lastCall + 1
            BY <1>0, <2>1, <2>2, <2>3, <3>1
        <3>2. CASE c # lastCall + 1
            BY <1>0, <2>2, <2>3, <2>4, <3>2 DEF NewestInv
        <3> QED
            BY <3>1, <3>2
    <2>5. pendingResponse' = pendingResponse
        BY <1>1 DEF Ask
    <2> QED
        BY <1>0, <2>2, <2>3, <2>4, <2>5 DEF NewestInv
<1>2. CASE Approve
    <2>1. PICK request : Begin(request) /\ request.granted
        BY <1>2 DEF Approve
    <2>2. /\ lastCall' = lastCall + 1
          /\ InFlight' = InFlight \cup {lastCall + 1}
          /\ calls'[lastCall + 1] = request
          /\ \A c \in InFlight : c # lastCall + 1 => calls'[c] = calls[c]
        BY <2>1, BeginAdds DEF InFlight
    <2>3. UNCHANGED <<messages, pendingResponse>>
        BY <1>2 DEF Approve
    <2>4. lastCall + 1 \notin InFlight
        BY <1>0
    <2> QED
        BY <1>0, <2>1, <2>2, <2>3, <2>4 DEF NewestInv
<1>3. CASE ApproveNothing
    BY <1>3 DEF ApproveNothing, NewestInv, InFlight
<1>4. CASE Reject
    <2>1. \A q : NewestFrom(messages, q) => NewestFrom(messages', q)
        BY <1>0, <1>4, AnswerKeepsQuestions DEF Reject
    <2> QED
        BY <1>4, <2>1 DEF Reject, NewestInv, InFlight
<1>5. CASE Clear
    <2>1. Asked(messages') = {}
        BY <1>5 DEF Clear, Asked
    <2>2. \A q : NewestFrom(messages', q)
        BY <2>1 DEF NewestFrom
    <2> QED
        BY <1>5, <2>2 DEF Clear, NewestInv, InFlight
<1>6. ASSUME NEW c \in InFlight, Token(c)
      PROVE  NewestInv'
    BY <1>6 DEF Token, NewestInv, InFlight
<1>7. ASSUME NEW c \in InFlight, Answered(c)
      PROVE  NewestInv'
    <2>1. \A q : NewestFrom(messages, q) => NewestFrom(messages', q)
        BY <1>0, <1>7, AnswerKeepsQuestions DEF Answered
    <2>2. /\ InFlight' = InFlight \ {c} /\ \A d \in InFlight' : calls'[d] = calls[d]
          /\ lastCall' = lastCall
        BY <1>7, WithoutRemoves DEF Answered, InFlight
    <2>3. PICK response \in Responses(c) :
              pendingResponse' = response \/ pendingResponse' = pendingResponse
        BY <1>7 DEF Answered
    <2>4. response.id = c /\ response.of = c /\ c <= lastCall /\ NewestFrom(messages', c)
        BY <1>0, <1>7, <2>1, ReceivedType DEF Answered, NewestInv
    <2> QED
        BY <2>1, <2>2, <2>3, <2>4 DEF NewestInv
<1>8. ASSUME NEW c \in InFlight, SendFailed(c)
      PROVE  NewestInv'
    <2>1. InFlight' = InFlight \ {c} /\ \A d \in InFlight' : calls'[d] = calls[d]
        BY <1>8, WithoutRemoves DEF SendFailed, InFlight
    <2> QED
        BY <1>8, <2>1 DEF SendFailed, NewestInv
<1>9. ASSUME NEW c \in InFlight, ApprovedAnswered(c) \/ ApprovedFailed(c)
      PROVE  NewestInv'
    <2>1. InFlight' = InFlight \ {c} /\ \A d \in InFlight' : calls'[d] = calls[d]
        BY <1>9, WithoutRemoves DEF ApprovedAnswered, ApprovedFailed, InFlight
    <2>2. \A q : NewestFrom(messages, q) => NewestFrom(messages', q)
        BY <1>0, <1>9, AnswerKeepsQuestions DEF ApprovedAnswered, ApprovedFailed
    <2>3. pendingResponse' = NoResponse
        BY <1>9 DEF ApprovedAnswered, ApprovedFailed
    <2> QED
        BY <2>1, <2>2, <2>3 DEF NewestInv
<1>10. CASE UNCHANGED vars
    BY <1>10 DEF vars, store, NewestInv, InFlight
<1> QED
    BY <1>1, <1>2, <1>3, <1>4, <1>5, <1>6, <1>7, <1>8, <1>9, <1>10 DEF Next, End

\* The invariant holds from the start.
LEMMA NewestAlways == Spec => []NewestInv
<1>1. Init => NewestInv
    BY DEF Init, NewestInv, InFlight
<1> QED
    BY <1>1, NextNewest, Types, PTL DEF Spec

\* A grant is for the question the dialog was about or for one asked behind the open
\* dialog, and it is for one on the screen: the code looks for the last question, so
\* that no answer, clear or rejection in between turns it back to an older one.
LEMMA GrantsGoForward == Spec => GrantsShownOrNewer
<1> DEFINE Shown == \A c \in Granted' \ InFlight :
                       LET of == calls'[c].of IN
                       /\ of = pendingResponse.of \/ of > pendingResponse.id
                       /\ \E i \in Asked(messages) : messages[i].of = of
<1>1. TypeOK /\ NewestInv /\ [Next]_vars => [Shown]_vars
    <2> SUFFICES ASSUME TypeOK, NewestInv, Next
                 PROVE  Shown
        OBVIOUS
    <2>1. CASE Ask
        <3>1. PICK request : Begin(request) /\ ~request.granted
            BY <2>1 DEF Ask
        <3>2. DOMAIN calls' = InFlight \cup {lastCall + 1} /\ calls'[lastCall + 1] = request
            BY <3>1, BeginAdds
        <3> QED
            BY <3>1, <3>2 DEF Granted, InFlight
    <2>2. CASE Approve
        <3>1. PICK i \in Asked(messages) :
                  /\ Latest(messages, i)
                  /\ Begin([of |-> messages[i].of, conversation_id |-> conversationId,
                            granted |-> TRUE, needs |-> FALSE])
            BY <2>2 DEF Approve
        <3>2. /\ pendingResponse.of = pendingResponse.id
              /\ pendingResponse.id <= messages[i].of
            BY <2>2, <3>1 DEF Approve, DialogShown, NewestInv, NewestFrom
        <3>3. pendingResponse.id \in Nat /\ messages[i].of \in Nat
            <4>1. pendingResponse.id \in Nat
                BY <2>2, MaxCallsAssumption DEF Approve, DialogShown, TypeOK, Pending,
                   Response, CallIds
            <4>2. messages[i] \in Message
                BY DEF TypeOK, Asked
            <4> QED
                BY <4>1, <4>2, MaxCallsAssumption DEF Message
        <3>4. /\ DOMAIN calls' = InFlight \cup {lastCall + 1}
              /\ calls'[lastCall + 1].of = messages[i].of
            BY <3>1, BeginAdds
        <3> QED
            BY <3>1, <3>2, <3>3, <3>4 DEF Granted, InFlight
    <2>3. CASE ApproveNothing \/ Reject \/ Clear \/ \E c \in InFlight : Token(c)
        BY <2>3 DEF ApproveNothing, Reject, Clear, Token, Granted, InFlight
    <2>4. ASSUME NEW c \in InFlight, End(c)
          PROVE  Shown
        <3>1. calls' = Without(c)
            BY <2>4 DEF End, Answered, SendFailed, ApprovedAnswered, ApprovedFailed
        <3> QED
            BY <3>1, WithoutRemoves DEF Granted, InFlight
    <2> QED
        BY <2>1, <2>2, <2>3, <2>4 DEF Next
<1> QED
    BY <1>1, NewestAlways, Types, PTL DEF Spec, GrantsShownOrNewer

\* A decision has an object: the dialog is not empty unless an approval was given
\* beside a request, and a grant never goes back to a question older than the one the
\* dialog showed, whatever was asked, answered or cleared behind it.
THEOREM DecisionsHaveObjects == Spec => DecisionHasObject
<1>1. DialogInv => (Undisturbed => DialogHasResponse)
    BY DEF DialogInv
<1> QED
    BY <1>1, DialogAlways, GrantsGoForward, PTL DEF DecisionHasObject
-----------------------------------------------------------------------------
(* Answers on the screen *)

\* AnsweredOnce of an undisturbed store.
OnceEach ==
    \A i, j \in DOMAIN messages :
        /\ messages[i].role = "assistant"
        /\ messages[i].of # NoQuestion
        /\ messages[i] = messages[j]
        => i = j

Answering(message, q) == message.role = "assistant" /\ message.of = q

HasAnswer(ms, q) == \E i \in DOMAIN ms : Answering(ms[i], q)
HasApproved(ms, q) == \E i \in DOMAIN ms : Answering(ms[i], q) /\ ms[i].granted

\* What a request with or without the approval would answer is still unanswered.
Unanswered(ms, request) ==
    IF request.granted THEN ~HasApproved(ms, request.of) ELSE ~HasAnswer(ms, request.of)

\* Neither q nor any question after it has been approved.
NoneApprovedFrom(ms, q) ==
    \A i \in DOMAIN ms : ms[i].role = "assistant" /\ ms[i].granted => ms[i].of < q

\* What is in flight, and what the dialog could send, has not been answered yet.  The
\* dialog could send any question that is not older than its own.
AnswersNow ==
    /\ OnceEach
    /\ \A i \in DOMAIN messages : messages[i].of <= lastCall
    /\ \A c \in InFlight :
          /\ calls[c].of <= lastCall
          /\ Unanswered(messages, calls[c])
          /\ ~calls[c].granted => NoneApprovedFrom(messages, calls[c].of)
    /\ approvalModalOpen => NoneApprovedFrom(messages, pendingResponse.of)

\* The invariant behind AnsweredOnce.
AnswersInv == Undisturbed => AnswersNow

\* A message is added at the end of the list.
LEMMA AddedMessage ==
    ASSUME messages \in Seq(Message), NEW m, messages' = Append(messages, m)
    PROVE  /\ DOMAIN messages' = DOMAIN messages \cup {Len(messages) + 1}
           /\ \A i \in DOMAIN messages : messages'[i] = messages[i]
           /\ messages'[Len(messages) + 1] = m
OBVIOUS

\* It adds at most the answer that it is.
LEMMA AddedAnswers ==
    ASSUME messages \in Seq(Message), NEW m, messages' = Append(messages, m)
    PROVE  /\ \A q : HasAnswer(messages', q) => HasAnswer(messages, q) \/ Answering(m, q)
           /\ \A q : HasApproved(messages', q) =>
                 HasApproved(messages, q) \/ (Answering(m, q) /\ m.granted)
           /\ ~m.granted =>
                 \A q : NoneApprovedFrom(messages, q) => NoneApprovedFrom(messages', q)
BY AddedMessage DEF HasAnswer, HasApproved, NoneApprovedFrom

\* One that is not the second answer of its kind keeps OnceEach.
LEMMA AddedOnce ==
    ASSUME messages \in Seq(Message), NEW m, messages' = Append(messages, m), OnceEach,
           m.role # "assistant" \/ m.of = NoQuestion \/ Unanswered(messages, m)
    PROVE  OnceEach'
<1>1. /\ DOMAIN messages' = DOMAIN messages \cup {Len(messages) + 1}
      /\ \A i \in DOMAIN messages : messages'[i] = messages[i]
      /\ messages'[Len(messages) + 1] = m
    BY AddedMessage
<1>2. SUFFICES ASSUME NEW i \in DOMAIN messages', NEW j \in DOMAIN messages',
                      messages'[i].role = "assistant", messages'[i].of # NoQuestion,
                      messages'[i] = messages'[j]
               PROVE  i = j
    BY DEF OnceEach
<1>3. ASSUME NEW k \in DOMAIN messages, messages[k] = m,
             m.role = "assistant", m.of # NoQuestion
      PROVE  FALSE
    BY <1>3 DEF Unanswered, HasAnswer, HasApproved, Answering
<1>4. CASE i \in DOMAIN messages /\ j \in DOMAIN messages
    BY <1>1, <1>2, <1>4 DEF OnceEach
<1>5. CASE i \in DOMAIN messages /\ j = Len(messages) + 1
    BY <1>1, <1>2, <1>3, <1>5
<1>6. CASE i = Len(messages) + 1 /\ j \in DOMAIN messages
    BY <1>1, <1>2, <1>3, <1>6
<1> QED
    BY <1>1, <1>4, <1>5, <1>6

\* Numbers of questions and requests are numbers.
LEMMA Numbers ==
    ASSUME TypeOK
    PROVE  /\ messages \in Seq(Message) /\ lastCall \in Nat
           /\ \A i \in DOMAIN messages : messages[i].of \in Nat /\ messages[i].granted \in BOOLEAN
           /\ \A c \in InFlight : calls[c].of \in Nat \ {NoQuestion} /\ calls[c].granted \in BOOLEAN
           /\ pendingResponse.of \in Nat
<1>1. \A m \in Message : m.of \in Nat /\ m.granted \in BOOLEAN
    BY MaxCallsAssumption DEF Message
<1>2. pendingResponse.of \in Nat
    BY MaxCallsAssumption DEF TypeOK, Pending, Response, NoResponse, CallIds, NoQuestion
<1>3. \A c \in InFlight : calls[c].of \in Nat \ {NoQuestion} /\ calls[c].granted \in BOOLEAN
    BY MaxCallsAssumption DEF TypeOK, Request, CallIds, NoQuestion
<1> QED
    BY <1>1, <1>2, <1>3, MaxCallsAssumption DEF TypeOK

\* A new question is under a number that nothing has been answered for.
LEMMA AskAnswers ==
    ASSUME TypeOK, AnswersNow, OneCallWhileLoading, Ask
    PROVE  AnswersNow'
<1>1. PICK m : /\ messages' = Append(messages, m)
               /\ m.role = "user" /\ m.of = lastCall + 1 /\ ~m.granted
    BY DEF Ask, Added
<1>2. PICK request : /\ Begin(request)
                     /\ request.of = lastCall + 1 /\ ~request.granted
    BY DEF Ask
<1>3. lastCall' = lastCall + 1 /\ InFlight' = {lastCall + 1} /\ calls'[lastCall + 1] = request
    BY <1>2, BeginAdds, FirstBegins DEF Ask, OneCallWhileLoading
<1>4. \A i \in DOMAIN messages' : messages'[i].of <= lastCall'
    BY <1>1, <1>3, AddedMessage, Numbers DEF AnswersNow
<1>5. ~HasAnswer(messages', lastCall + 1)
    <2>1. ~HasAnswer(messages, lastCall + 1)
        BY Numbers DEF AnswersNow, HasAnswer, Answering
    <2> QED
        BY <2>1, <1>1, AddedAnswers, Numbers DEF Answering
<1>6. OnceEach'
    BY <1>1, AddedOnce, Numbers DEF AnswersNow
<1>7. NoneApprovedFrom(messages', lastCall + 1)
    <2>1. NoneApprovedFrom(messages, lastCall + 1)
        BY Numbers DEF AnswersNow, NoneApprovedFrom
    <2> QED
        BY <2>1, <1>1, AddedAnswers, Numbers
<1>8. approvalModalOpen' => NoneApprovedFrom(messages', pendingResponse'.of)
    BY <1>1, AddedAnswers, Numbers DEF Ask, AnswersNow
<1>9. lastCall + 1 <= lastCall + 1
    BY Numbers
<1> QED
    BY <1>2, <1>3, <1>4, <1>5, <1>6, <1>7, <1>8, <1>9 DEF AnswersNow, Unanswered

\* The question sent again is not older than the dialog's, and none of those has been
\* approved before.
LEMMA ApproveAnswers ==
    ASSUME TypeOK, AnswersNow, NewestInv, InFlight = {}, Approve
    PROVE  AnswersNow'
<1>1. PICK i \in Asked(messages) :
          /\ Latest(messages, i)
          /\ Begin([of |-> messages[i].of, conversation_id |-> conversationId,
                    granted |-> TRUE, needs |-> FALSE])
    BY DEF Approve
<1>2. i \in DOMAIN messages
    BY DEF Asked
<1>3. PICK request : Begin(request) /\ request.granted /\ request.of = messages[i].of
    BY <1>1
<1>4. lastCall' = lastCall + 1 /\ InFlight' = {lastCall + 1} /\ calls'[lastCall + 1] = request
    BY <1>3, BeginAdds, FirstBegins
<1>5. UNCHANGED messages /\ ~approvalModalOpen'
    BY DEF Approve
<1>6. pendingResponse.of <= messages[i].of
    BY <1>1 DEF Approve, DialogShown, NewestInv, NewestFrom
<1>7. ~HasApproved(messages, messages[i].of)
    <2>1. NoneApprovedFrom(messages, pendingResponse.of)
        BY DEF Approve, DialogShown, AnswersNow
    <2> QED
        BY <1>2, <1>6, <2>1, Numbers DEF NoneApprovedFrom, HasApproved, Answering
<1>8. messages[i].of <= lastCall' /\ \A j \in DOMAIN messages : messages[j].of <= lastCall'
    BY <1>2, <1>4, Numbers DEF AnswersNow
<1>9. OnceEach'
    BY <1>5 DEF AnswersNow, OnceEach
<1> QED
    BY <1>3, <1>4, <1>5, <1>7, <1>8, <1>9 DEF AnswersNow, Unanswered

\* An answer is the first of its kind to its question; if it opens the dialog, no
\* question that the dialog could send has an approved answer.
LEMMA AnswerAnswers ==
    ASSUME TypeOK, AnswersNow, OneCallWhileLoading, NEW c \in InFlight, Answered(c)
    PROVE  AnswersNow'
<1>1. PICK m : /\ messages' = Append(messages, m)
               /\ m.of = calls[c].of /\ ~m.granted /\ ~calls[c].granted
    <2> DEFINE m == [role |-> "assistant", of |-> calls[c].of, granted |-> FALSE]
    <2>1. messages' = Append(messages, m) /\ ~calls[c].granted
        BY DEF Answered, Added
    <2> QED
        BY <2>1
<1>2. calls' = Without(c) /\ UNCHANGED lastCall
    BY DEF Answered
<1>3. InFlight' = {}
    BY <1>2, LastEnds DEF InFlight
<1>4. Unanswered(messages, m)
    BY <1>1 DEF AnswersNow, Unanswered
<1>5. OnceEach'
    BY <1>1, <1>4, AddedOnce, Numbers DEF AnswersNow
<1>6. \A i \in DOMAIN messages' : messages'[i].of <= lastCall'
    BY <1>1, <1>2, AddedMessage, Numbers DEF AnswersNow
<1>7. PICK response \in Responses(c) :
          IF response.approval_required
             THEN approvalModalOpen' = TRUE /\ pendingResponse' = response
             ELSE UNCHANGED <<approvalModalOpen, pendingResponse>>
    BY DEF Answered
<1>8. response.of = calls[c].of
    BY <1>7, ReceivedType
<1>9. /\ NoneApprovedFrom(messages', calls[c].of)
      /\ approvalModalOpen => NoneApprovedFrom(messages', pendingResponse.of)
    BY <1>1, AddedAnswers, Numbers DEF AnswersNow
<1> QED
    BY <1>3, <1>5, <1>6, <1>7, <1>8, <1>9 DEF AnswersNow

\* The answer to what was approved is the first of its kind.
LEMMA ApprovedAnswers ==
    ASSUME TypeOK, AnswersNow, OneCallWhileLoading, NEW c \in InFlight, ApprovedAnswered(c),
           ~approvalModalOpen
    PROVE  AnswersNow'
<1>1. PICK m : /\ messages' = Append(messages, m)
               /\ m.of = calls[c].of /\ m.granted /\ calls[c].granted
    <2> DEFINE m == [role |-> "assistant", of |-> calls[c].of, granted |-> TRUE]
    <2>1. messages' = Append(messages, m) /\ calls[c].granted
        BY DEF ApprovedAnswered, Added
    <2> QED
        BY <2>1
<1>2. calls' = Without(c) /\ UNCHANGED lastCall /\ ~approvalModalOpen'
    BY DEF ApprovedAnswered
<1>3. InFlight' = {}
    BY <1>2, LastEnds DEF InFlight
<1>4. Unanswered(messages, m)
    BY <1>1 DEF AnswersNow, Unanswered
<1>5. OnceEach'
    BY <1>1, <1>4, AddedOnce, Numbers DEF AnswersNow
<1>6. \A i \in DOMAIN messages' : messages'[i].of <= lastCall'
    BY <1>1, <1>2, AddedMessage, Numbers DEF AnswersNow
<1> QED
    BY <1>2, <1>3, <1>5, <1>6 DEF AnswersNow

\* The note of a rejection is about no question.
LEMMA RejectAnswers ==
    ASSUME TypeOK, AnswersNow, Reject
    PROVE  AnswersNow'
<1>1. PICK m : messages' = Append(messages, m) /\ m.of = NoQuestion /\ ~m.granted
    BY DEF Reject, Added
<1>2. InFlight' = InFlight /\ UNCHANGED <<calls, lastCall>> /\ ~approvalModalOpen'
    BY DEF Reject, InFlight
<1>3. OnceEach'
    BY <1>1, AddedOnce, Numbers DEF AnswersNow
<1>4. \A i \in DOMAIN messages' : messages'[i].of <= lastCall'
    BY <1>1, <1>2, AddedMessage, Numbers DEF AnswersNow, NoQuestion
<1>5. ASSUME NEW c \in InFlight
      PROVE  Unanswered(messages', calls[c])
    <2>1. calls[c].of # NoQuestion /\ Unanswered(messages, calls[c])
        BY Numbers DEF AnswersNow
    <2> QED
        BY <1>1, <2>1, AddedAnswers, Numbers DEF Unanswered, Answering
<1>6. \A q : NoneApprovedFrom(messages, q) => NoneApprovedFrom(messages', q)
    BY <1>1, AddedAnswers, Numbers
<1> QED
    BY <1>2, <1>3, <1>4, <1>5, <1>6 DEF AnswersNow

\* Every step keeps the invariant.
LEMMA NextAnswers ==
    TypeOK /\ DialogInv /\ NewestInv /\ AnswersInv /\ [Next]_vars => AnswersInv'
<1> SUFFICES ASSUME TypeOK, DialogInv, NewestInv, AnswersInv, [Next]_vars, Undisturbed'
             PROVE  AnswersNow'
    BY DEF AnswersInv
<1>0. /\ AnswersNow
      /\ OneCallWhileLoading
      /\ \A c \in InFlight : calls[c].granted => ~approvalModalOpen
      /\ Approve \/ ApproveNothing => InFlight = {}
    BY StillUndisturbed DEF AnswersInv, DialogInv
<1>1. CASE Ask \/ Approve
    BY <1>0, <1>1, AskAnswers, ApproveAnswers
<1>2. CASE ApproveNothing
    BY <1>0, <1>2 DEF ApproveNothing, AnswersNow, OnceEach, InFlight
<1>3. CASE Reject
    BY <1>0, <1>3, RejectAnswers
<1>4. CASE Clear
    <2>1. DOMAIN messages' = {} /\ UNCHANGED <<calls, lastCall, approvalModalOpen, pendingResponse>>
        BY <1>4 DEF Clear
    <2> QED
        BY <1>0, <2>1 DEF AnswersNow, OnceEach, HasAnswer, HasApproved, Unanswered,
           NoneApprovedFrom, InFlight
<1>5. ASSUME NEW c \in InFlight, Token(c)
      PROVE  AnswersNow'
    BY <1>0, <1>5 DEF Token, AnswersNow, OnceEach, InFlight
<1>6. ASSUME NEW c \in InFlight, Answered(c)
      PROVE  AnswersNow'
    BY <1>0, <1>6, AnswerAnswers
<1>7. ASSUME NEW c \in InFlight, ApprovedAnswered(c)
      PROVE  AnswersNow'
    <2>1. ~approvalModalOpen
        BY <1>0, <1>7 DEF ApprovedAnswered
    <2> QED
        BY <1>0, <1>7, <2>1, ApprovedAnswers
<1>8. ASSUME NEW c \in InFlight, SendFailed(c) \/ ApprovedFailed(c)
      PROVE  AnswersNow'
    <2>1. /\ UNCHANGED <<messages, lastCall, approvalModalOpen>> /\ calls' = Without(c)
          /\ approvalModalOpen => UNCHANGED pendingResponse
        BY <1>0, <1>8 DEF SendFailed, ApprovedFailed
    <2>2. InFlight' = {}
        BY <1>0, <2>1, LastEnds DEF InFlight
    <2> QED
        BY <1>0, <2>1, <2>2 DEF AnswersNow, OnceEach
<1>9. CASE UNCHANGED vars
    BY <1>0, <1>9 DEF vars, store, AnswersNow, OnceEach, InFlight
<1> QED
    BY <1>1, <1>2, <1>3, <1>4, <1>5, <1>6, <1>7, <1>8, <1>9 DEF Next, End

\* No question is answered twice on the screen but by the request that was sent
\* again with its approval: neither a late answer nor a second approval adds one,
\* as long as no approval is given beside a request.
THEOREM AnsweredAtMostOnce == Spec => []AnsweredOnce
<1>1. Init => AnswersInv
    <2> SUFFICES ASSUME Init PROVE AnswersInv
        OBVIOUS
    <2>1. DOMAIN messages = {} /\ DOMAIN calls = {} /\ ~approvalModalOpen
        BY DEF Init
    <2> QED
        BY <2>1 DEF AnswersInv, AnswersNow, OnceEach, InFlight
<1>2. AnswersInv => AnsweredOnce
    BY DEF AnswersInv, AnswersNow, OnceEach, AnsweredOnce
<1> QED
    BY <1>1, <1>2, NextAnswers, NewestAlways, DialogAlways, Types, PTL DEF Spec
=============================================================================
