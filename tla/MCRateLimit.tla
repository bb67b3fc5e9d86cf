---------------------------- MODULE MCRateLimit ----------------------------
(***************************************************************************)
(* Values of RateLimit's constants for TLC.  Two requests in a window of   *)
(* three ticks, two ticks to a second and a cleanup after more than two:   *)
(* a full window, a Retry-After that has to be rounded, a silence longer   *)
(* than the window and two cleanups fit in MaxTime.  The addresses are     *)
(* interchangeable.                                                        *)
(***************************************************************************)
EXTENDS RateLimit, TLC

CONSTANTS ip1, ip2

MCClients == {ip1, ip2}
MCSymmetry == Permutations(MCClients)
=============================================================================
