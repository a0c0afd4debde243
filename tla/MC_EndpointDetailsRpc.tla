------------------------- MODULE MC_EndpointDetailsRpc -------------------------
(* Two ports and two hosts with an agent on each.  Device d1 names p1     *)
(* alone; the truncated device dx starts both port ids.                   *)
EXTENDS EndpointDetailsRpc, TLC

CONSTANTS p1, p2, h1, h2, d1, dx, a1, a2

MCMatchOf == (d1 :> {p1}) @@ (dx :> {p1, p2})

MCAgentHost == (a1 :> h1) @@ (a2 :> h2)
=============================================================================
