--------------------------- MODULE MCEventStream ---------------------------
(***************************************************************************)
(* Answers of up to three lines for TLC.  Kinds that the client treats     *)
(* alike ("done" and "value", "null" and "text") are all there.            *)
(***************************************************************************)
EXTENDS EventStream

MCKinds == {"text", "string", "value", "null", "answer", "done", "blank"}

\* Prose with a line that is a number.
MCNumbered == {"text", "value"}
=============================================================================
