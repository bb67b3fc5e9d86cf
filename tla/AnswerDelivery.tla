--------------------------- MODULE AnswerDelivery ---------------------------
(***************************************************************************)
(* What a caller of sendMessageStream is promised (frontend                *)
(* src/api/chat.ts:21-25): one result, which is the full answer or a       *)
(* failure, and no answer that is short of a part.                         *)
(***************************************************************************)
CONSTANTS Results, Pending, Failed

VARIABLES full,     \* the result that the full answer makes
          result

Init == full \in Results /\ result = Pending

Deliver == result = Pending /\ result' = full /\ UNCHANGED full
Fail == result = Pending /\ result' = Failed /\ UNCHANGED full

Next == Deliver \/ Fail
Spec == Init /\ [][Next]_<<full, result>>
=============================================================================
