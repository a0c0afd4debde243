--------------------------- MODULE MC_ImplicitSubnet ---------------------------
EXTENDS ImplicitSubnet, TLC

CONSTANTS la, lb, g1, g2, g3, c1, c2

(* Two PTGs on la, one on lb, a pool of two CIDRs *)
MCPtgL2p == (g1 :> la) @@ (g2 :> la) @@ (g3 :> lb)
MCPool == <<c1, c2>>
====
