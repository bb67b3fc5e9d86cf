----------------------------- MODULE MCSurfaces -----------------------------
(***************************************************************************)
(* Questions of up to three words for TLC, one word for each combination   *)
(* of lists that a word is in.                                             *)
(***************************************************************************)
EXTENDS Surfaces

MCWords == {"setup", "cambiar setup", "wing", "suspension", "brake", "brake bias",
            "tire pressure", "rebound", "part", "design", "part design", "increase",
            "simulate", "report", "crew chief", "telemetry", "telemet", "degradation",
            "degrad", "mapping", "pieza", "patron", "rebote", "mapa motor", "github", "adr"}
=============================================================================
