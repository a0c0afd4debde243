---------------------------- MODULE MC_Validator ----------------------------
(* Five AIM objects over three resource types and two tenants:            *)
(*   epg  network, tenant ta, not derived (a leaked object)               *)
(*   vrf  network, tenant tb, not derived, monitored (an operator's)      *)
(*   bind port,    tenant tb, derived, a port binding                     *)
(*   l3p  l3_policy, tenant ta, derived, of an unsupported type           *)
(*   bd   network, tenant ta, derived and monitored (a pre-existing BD    *)
(*        a network uses, test_unrouted_network_preexisting_bd)           *)
EXTENDS Validator, TLC

CONSTANTS epg, vrf, bind, l3p, bd, ta, tb

MCTypeOf == (epg :> "network") @@ (vrf :> "network")
              @@ (bind :> "port") @@ (l3p :> "l3_policy")
              @@ (bd :> "network")

MCTenantOf == (epg :> ta) @@ (vrf :> tb) @@ (bind :> tb)
                @@ (l3p :> ta) @@ (bd :> ta)
=============================================================================
