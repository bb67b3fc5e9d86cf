---------------------------- MODULE EventStream ----------------------------
(***************************************************************************)
(* An answer on its way to the browser: the server cuts it into events     *)
(* (services/ui_adapter_service.py, routers/chat.py), the connection hands *)
(* them over in pieces of any size or breaks, and the client puts them     *)
(* together again (frontend src/api/chat.ts).                              *)
(*                                                                         *)
(* A line of the answer is known by its place and its kind, which is what  *)
(* JSON.parse makes of it: "text" is no JSON, "string" a quoted string,    *)
(* "value" a number, a boolean, a list or an object that says nothing,     *)
(* "null" the null, "answer" an object with an answer in it, "done" the    *)
(* word that ends a stream; "blank" is a line of white space.              *)
(***************************************************************************)
EXTENDS Naturals, SequencesExt

CONSTANTS Kinds, MaxLines,      \* bound on the lines of an answer
          Pending, Failed

ASSUME KindsAssumption ==
    /\ Kinds \subseteq {"text", "string", "value", "null", "answer", "done", "blank"}
    /\ MaxLines \in Nat

VARIABLES answer,       \* the lines of the answer, each with its kind
          phase,        \* "asked", "streaming", "returned" or "failed"
          sent,         \* how many events the server has yielded
          wire,         \* the pieces that are under way
          buffer,       \* the pieces of a line that has not ended
          fullAnswer,   \* what sendMessageStream will return
          preview       \* the tokens handed to onToken

vars == <<answer, phase, sent, wire, buffer, fullAnswer, preview>>

Answers == UNION {[1 .. n -> Kinds] : n \in 0 .. MaxLines}

-----------------------------------------------------------------------------
(* The server *)

NewLine == <<"\n">>

\* An event that carries the line of a place; the place 0 is the whole answer.
DataEvent(i) == <<<<"data: ">>, <<"line", i>>, NewLine, NewLine>>

DoneEvent == <<<<"event: done">>, NewLine, <<"data: ">>, <<"[DONE]">>, NewLine, NewLine>>

\* A set of places as a sequence: the place that k of them are not beyond is the k-th.
Ranked(S, k) == {i \in S : Cardinality({j \in S : j <= i}) = k}
InOrder(S) == [k \in 1 .. Cardinality(S) |-> CHOOSE i \in Ranked(S, k) : TRUE]

\* The places of the lines that are sent: the blank ones are not, unless there
\* is nothing else.
Chunks(lines) ==
    LET said == {i \in DOMAIN lines : lines[i] # "blank"}
    IN  IF said = {} THEN <<0>> ELSE InOrder(said)

Events(lines) == [k \in DOMAIN Chunks(lines) |-> DataEvent(Chunks(lines)[k])] \o <<DoneEvent>>

\* The events as the connection carries them, one after the other.
Stream(lines) ==
    LET upTo[k \in 0 .. Len(Events(lines))] ==
            IF k = 0 THEN <<>> ELSE upTo[k - 1] \o Events(lines)[k]
    IN  upTo[Len(Events(lines))]

Ask ==
    /\ phase = "asked"
    /\ phase' = "streaming"
    /\ UNCHANGED <<answer, sent, wire, buffer, fullAnswer, preview>>

Yield ==
    /\ phase = "streaming" /\ sent < Len(Events(answer))
    /\ sent' = sent + 1
    /\ wire' = wire \o Events(answer)[sent + 1]
    /\ UNCHANGED <<answer, phase, buffer, fullAnswer, preview>>

-----------------------------------------------------------------------------
(* The client *)

\* What the client has made of the stream so far: the answer, what it has shown,
\* and the rest, a line that has not ended.
Say(got, token) ==
    [full |-> Append(got.full, token), shown |-> Append(got.shown, token), rest |-> got.rest]
Replace(got, token) ==
    [full |-> <<token>>, shown |-> Append(got.shown, token), rest |-> got.rest]

KindAt(i) == IF i = 0 THEN "blank" ELSE answer[i]

\* Mutant: what was shown of an answer in JSON is not shown again.
DataUnseen(got, i) ==
    CASE KindAt(i) \in {"text", "null"} -> Say(got, <<"line", i>>)
      [] KindAt(i) = "string" -> Say(got, <<"parsed", i>>)
      [] KindAt(i) = "answer" -> [got EXCEPT !.full = <<<<"parsed", i>>>>]
      [] OTHER -> got

\* null.answer throws, so that a null is kept as it is; white space adds no token.
Data(got, i) ==
    CASE KindAt(i) \in {"text", "null"} -> Say(got, <<"line", i>>)
      [] KindAt(i) = "string" -> Say(got, <<"parsed", i>>)
      [] KindAt(i) = "answer" -> Replace(got, <<"parsed", i>>)
      [] OTHER -> got

\* A line that ended: one of data is taken apart, every other one is passed over.
Line(got, line) ==
    IF Len(line) = 2 /\ line[1] = <<"data: ">> /\ line[2] # <<"[DONE]">>
    THEN Data(got, line[2][2]) ELSE got

\* One more piece: the end of a line has the line read, and anything else is
\* kept until then.
Take(got, piece) ==
    IF piece = NewLine THEN Line([got EXCEPT !.rest = <<>>], got.rest)
    ELSE [got EXCEPT !.rest = Append(@, piece)]

Taken(got, pieces) ==
    LET after[k \in 0 .. Len(pieces)] ==
            IF k = 0 THEN got ELSE Take(after[k - 1], pieces[k])
    IN  after[Len(pieces)]

\* Mutant: what has not ended is read as a line, and nothing is kept.
ReadUnbuffered(n) ==
    /\ phase = "streaming" /\ n \in 1 .. Len(wire)
    /\ LET begun == [full |-> fullAnswer, shown |-> preview, rest |-> <<>>]
           taken == Taken(begun, SubSeq(wire, 1, n))
           got == Line(taken, taken.rest)
       IN  fullAnswer' = got.full /\ preview' = got.shown
    /\ buffer' = <<>>
    /\ wire' = SubSeq(wire, n + 1, Len(wire))
    /\ UNCHANGED <<answer, phase, sent>>

\* The next n pieces arrive.
Read(n) ==
    /\ phase = "streaming" /\ n \in 1 .. Len(wire)
    /\ LET begun == [full |-> fullAnswer, shown |-> preview, rest |-> buffer]
           got == Taken(begun, SubSeq(wire, 1, n))
       IN  fullAnswer' = got.full /\ preview' = got.shown /\ buffer' = got.rest
    /\ wire' = SubSeq(wire, n + 1, Len(wire))
    /\ UNCHANGED <<answer, phase, sent>>

\* Mutant: the end is what is left in the buffer.
ReturnWithRest ==
    /\ phase = "streaming" /\ sent = Len(Events(answer)) /\ wire = <<>> /\ buffer # <<>>
    /\ phase' = "returned"
    /\ UNCHANGED <<answer, sent, wire, buffer, fullAnswer, preview>>

\* The end of the stream, not the done event, ends the call.
Return ==
    /\ phase = "streaming" /\ sent = Len(Events(answer)) /\ wire = <<>>
    /\ phase' = "returned"
    /\ UNCHANGED <<answer, sent, wire, buffer, fullAnswer, preview>>

\* A status that is not ok, a connection that breaks, or the reader's abort.
Fail ==
    /\ phase \in {"asked", "streaming"}
    /\ phase' = "failed"
    /\ wire' = <<>>
    /\ UNCHANGED <<answer, sent, buffer, fullAnswer, preview>>

-----------------------------------------------------------------------------

Init ==
    /\ answer \in Answers
    /\ phase = "asked"
    /\ sent = 0
    /\ wire = <<>> /\ buffer = <<>>
    /\ fullAnswer = <<>> /\ preview = <<>>

Next == Ask \/ Yield \/ (\E n \in 1 .. Len(wire) : Read(n)) \/ Return \/ Fail

\* The request is answered or refused in the end, the server's loop goes on, and
\* so does the client's.
Fairness ==
    /\ WF_vars(Ask) /\ WF_vars(Yield) /\ WF_vars(Return)
    /\ WF_vars(\E n \in 1 .. Len(wire) : Read(n))

Spec == Init /\ [][Next]_vars /\ Fairness

-----------------------------------------------------------------------------
(* Properties *)

\* The full answer: every line that is not blank, as it stands.
Full(lines) ==
    LET said == {i \in DOMAIN lines : lines[i] # "blank"}
    IN  [k \in 1 .. Cardinality(said) |-> <<"line", InOrder(said)[k]>>]

\* The call delivers the full answer or fails: it "returns the full response when
\* the stream completes" (api/chat.ts:21-25).
Delivery == INSTANCE AnswerDelivery
                WITH Results <- {Full(a) : a \in Answers},
                     full <- Full(answer),
                     result <- CASE phase = "returned" -> fullAnswer
                                 [] phase = "failed" -> Failed
                                 [] OTHER -> Pending
DeliversAnswer == Delivery!Spec

\* What the client makes of the stream when it arrives in one piece.
InOnePiece == Taken([full |-> <<>>, shown |-> <<>>, rest |-> <<>>], Stream(answer))

\* What the client takes a line for is lost (numbers, and all that came before an
\* answer in JSON), but nothing is lost to the connection: the result is that of the
\* stream in one piece, wherever it is cut (the loop of api/chat.ts:55-95 and its
\* buffer), and of lines that are no JSON it is the full answer.
ReturnsWhatWasSent ==
    phase = "returned" =>
        /\ fullAnswer = InOnePiece.full
        /\ (\A i \in DOMAIN answer : answer[i] \in {"text", "null", "blank"})
               => fullAnswer = Full(answer)

\* What the reader has been shown ends with what will be returned, at every
\* moment: the message that replaces the preview takes nothing back at its end.
ShownBeforeReturned == IsSuffix(fullAnswer, preview)

\* A call that was made ends.
StreamEnds == (phase = "asked") ~> (phase \in {"returned", "failed"})

=============================================================================
