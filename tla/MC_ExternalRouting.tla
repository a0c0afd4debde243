-------------------------- MODULE MC_ExternalRouting --------------------------
(* Segments (two, or three for the identical-route check) and two L3Ps. *)
(* d1 overlaps l1's pool; e2's cidr overlaps l2's pool; gin and gin2 are *)
(* in every segment's cidr, gout in none.  A request carries at most two *)
(* routes.  The managed segments have gateway gin; which of them have     *)
(* cidr_exposed is set by the cfg.                                        *)
EXTENDS ExternalRouting, Naturals, TLC

CONSTANTS e1, e2, e3, l1, l2, dflt, d1, d2, gin, gin2, gout

MCInCidr == [e \in Segments |-> {gin, gin2}]

MCGw == [e \in Managed |-> gin]

MCPoolOverlap == (l1 :> {d1}) @@ (l2 :> {})

MCCidrOverlap == (l1 :> {}) @@ (l2 :> {e2})

MCRoutes == {[dest |-> dflt, nh |-> gin], [dest |-> d1, nh |-> gin],
             [dest |-> d2, nh |-> NONE], [dest |-> d2, nh |-> gout],
             [dest |-> d2, nh |-> gin2]}

MCRouteSets == {s \in SUBSET MCRoutes : Cardinality(s) <= 2}

(* With a route to d2 whose explicit next hop is the gateway, next to    *)
(* the gateway-less one                                                   *)
MCRouteSetsGwHop ==
    {s \in SUBSET (MCRoutes \cup {[dest |-> d2, nh |-> gin]}) : Cardinality(s) <= 2}
=============================================================================
