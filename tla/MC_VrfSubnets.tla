---------------------------- MODULE MC_VrfSubnets ----------------------------
(* Two tenant networks and up to two external ones, a subnet on each,    *)
(* two routers, one subnetpool; the cfgs give one or two VRFs.           *)
EXTENDS VrfSubnets, TLC

CONSTANTS n1, n2, e1, e2, s1, s2, x1, x2

MCSubnetNet == [s \in Subnets |-> ((s1 :> n1) @@ (s2 :> n2) @@ (x1 :> e1)
                                      @@ (x2 :> e2))[s]]

(* Routers are only compared for equality. *)
RouterSymmetry == Permutations(Routers)
=============================================================================
