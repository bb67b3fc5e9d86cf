----------------------------- MODULE Governance -----------------------------
(***************************************************************************)
(* What the copilot promises about approvals, with no pipeline in it: a    *)
(* request is decided once, tools act only under that decision, and        *)
(* nothing acts for a request that has been closed.  A request arrives     *)
(* with a mandate that never changes: whether its message is critical,     *)
(* whether it carries a grant, and whether its caller may grant.           *)
(***************************************************************************)
EXTENDS Naturals, FiniteSets

CONSTANTS Requests, Tools, KeywordTools

VARIABLES
    mandate,    \* [Requests -> Mandates]
    decision,   \* [Requests -> Decisions]
    performed   \* <<r, t>>: tool t has acted for request r

govVars == <<mandate, decision, performed>>

Mandates == [critical: BOOLEAN, granted: BOOLEAN, mayGrant: BOOLEAN]

\* "free": no approval needed; "approved": granted by someone who may;
\* "withheld": needed and not granted; "closed": answered, refused or lost.
Decisions == {"open", "free", "approved", "withheld", "closed"}

Init ==
    /\ mandate \in [Requests -> Mandates]
    /\ decision = [r \in Requests |-> "open"]
    /\ performed = {}

Decide(r) ==
    /\ decision[r] = "open"
    /\ \E d \in {"free", "approved", "withheld"} :
         /\ d = "free" => ~mandate[r].critical /\ ~mandate[r].granted
         /\ d = "approved" => mandate[r].granted /\ mandate[r].mayGrant
         /\ d = "withheld" => ~mandate[r].granted
         /\ decision' = [decision EXCEPT ![r] = d]
    /\ UNCHANGED <<mandate, performed>>

Perform(r, t) ==
    /\ \/ decision[r] = "free" /\ t \notin KeywordTools
       \/ decision[r] = "approved"
    /\ performed' = performed \cup {<<r, t>>}
    /\ UNCHANGED <<mandate, decision>>

Close(r) ==
    /\ decision[r] # "closed"
    /\ decision' = [decision EXCEPT ![r] = "closed"]
    /\ UNCHANGED <<mandate, performed>>

Next == \E r \in Requests :
           \/ Decide(r)
           \/ \E t \in Tools : Perform(r, t)
           \/ Close(r)

Spec == Init /\ [][Next]_govVars
=============================================================================
