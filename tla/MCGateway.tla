----------------------------- MODULE MCGateway -----------------------------
(***************************************************************************)
(* Two requests of one client or of two for TLC, one call in a window of   *)
(* two ticks: a full window, its end and a cleanup are all met.            *)
(***************************************************************************)
EXTENDS Gateway

CONSTANTS r1, r2, ip1, ip2

MCRequests == {r1, r2}
MCClients == {ip1, ip2}

MCMessage(client, path, token, proxied, scope) ==
    [client |-> client, preflight |-> FALSE, path |-> path, token |-> token,
     proxied |-> proxied, scope |-> scope]

MCMessages ==
    {MCMessage(ip1, "api", "good", TRUE, "valid"), MCMessage(ip1, "api", "bad", TRUE, "none"),
     MCMessage(ip1, "docs", "none", FALSE, "none"), MCMessage(ip1, "probe", "none", FALSE, "none"),
     MCMessage(ip2, "api", "none", FALSE, "none"), MCMessage(ip2, "api", "good", FALSE, "invalid"),
     MCMessage(ip1, "api", "empty", TRUE, "none"), MCMessage(ip2, "api", "empty", FALSE, "none"),
     MCMessage(ip2, "unknown", "good", FALSE, "none"),
     [MCMessage(ip1, "page", "none", FALSE, "none") EXCEPT !.preflight = TRUE]}
=============================================================================
