------------------------------ MODULE Evidence ------------------------------
(***************************************************************************)
(* The evidence builder and the evidence guard.  A tool's payload is a     *)
(* dict from Keys to values or nulls; what counts is which keys it has,    *)
(* because the builder merges the payloads of all tools into one dict.     *)
(***************************************************************************)
EXTENDS Guardrails

CONSTANT Keys   \* the keys that payloads of tools have

ASSUME KeysAssumption == IsFiniteSet(Keys)

\* What RAG/CAG retrieval ends with: nothing (an error or an empty body), a
\* body with no hits, dict hits, hits that are bare strings, or a body the
\* builder raises on.
RagResults == {"none", "empty", "sources", "strings", "malformed"}

\* What a tool call that did not raise returns: a dict under "data" or "result",
\* something there that is no dict, or a body with neither key.
ToolResults ==
    { result \in [ form: {"dict", "scalar", "bare"}, values: SUBSET Keys, nulls: SUBSET Keys ] :
        /\ result.values \cap result.nulls = {}
        /\ result.form # "dict" => result.values = {} /\ result.nulls = {} }

\* No result of a tool was recorded.
Absent == [ form |-> "absent", values |-> {}, nulls |-> {} ]

Fields(result) == result.values \cup result.nulls

\* EvidenceBuilder takes the results for the accumulated form only when every
\* one of them has the key; otherwise it looks for "data" among tool names.
IsAccumulated(results) == \A t \in Tools : results[t].form # "bare"

\* Mutant: the first tool to give a key keeps it, and the others are dropped with
\* all that they gave.
MergedWhole(results, place) ==
    { field \in Keys \X Tools :
        /\ IsAccumulated(results)
        /\ field[1] \in Fields(results[field[2]])
        /\ \A t \in Tools : Fields(results[t]) # {} => place[field[2]] <= place[t] }

\* all_data.update(payload), in the order of the places: of the tools that gave a
\* key the last one's value stays, and the others' are overwritten.
Merged(results, place) ==
    { field \in Keys \X Tools :
        /\ IsAccumulated(results)
        /\ field[1] \in Fields(results[field[2]])
        /\ \A t \in Tools : field[1] \in Fields(results[t]) => place[t] <= place[field[2]] }

EvidencePacket(rag, results, place) ==
    LET raw == Merged(results, place)
    IN  [ sources  |-> rag = "sources",
          raw      |-> raw,
          strings  |-> rag = "strings",
          grounded |-> \/ rag = "sources"
                       \/ \E field \in raw : field[1] \in results[field[2]].values ]

Packets == [ sources: BOOLEAN, raw: SUBSET (Keys \X Tools),
             strings: BOOLEAN, grounded: BOOLEAN ]

\* EvidenceRequiredGuard on a packet.
EvidencePresent(packet) ==
    packet.sources \/ packet.strings \/ packet.raw # {}

EvidencePassed(packet, requireEvidence) ==
    requireEvidence => EvidencePresent(packet)
=============================================================================
