--------------------------- MODULE MC_ApicL2Policy ---------------------------
(* Two L2Ps, one subnet on each network, two gateway IPs. *)
EXTENDS ApicL2Policy, TLC

CONSTANTS l1, l2, s1, s2

MCSubnetL2p == [s \in Subnets |-> IF s = s1 THEN l1 ELSE l2]

=============================================================================
