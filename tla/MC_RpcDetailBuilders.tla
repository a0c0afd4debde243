------------------------- MODULE MC_RpcDetailBuilders -------------------------
(* Two addresses and a CIDR holding one of them, two MACs and subnets,  *)
(* one external network; up to two rows per query.                       *)
EXTENDS RpcDetailBuilders

CONSTANTS x1, x2, c1, s1, s2

MCMembers == c1 :> {x2}

(* s1 is an IPv4 subnet, s2 an IPv6 one *)
MCSubnetVersion == (s1 :> 4) @@ (s2 :> 6)

(* An empty, a zero, a valid and an unparsable DHCP option value *)
MCOptValues == {"", "0", "1400", "mtu"}
MCIntOf == ("0" :> 0) @@ ("1400" :> 1400)
=============================================================================
