------------------------------ MODULE VrfSubnets ------------------------------
(***************************************************************************)
(* The VRF subnets an Opflex agent is given (rpc.py): get_vrf_details and  *)
(* request_vrf_details answer for a VRF with _get_vrf_details, and         *)
(* _request_endpoint_details gives an endpoint the subnets of its          *)
(* network's VRF, both through _query_vrf_subnets.  That query returns the *)
(* prefixes of the subnetpools whose address scope maps to the VRF, or,   *)
(* when there are none, the CIDRs of the subnets on the networks mapped to *)
(* the VRF; to either it adds the no-NAT CIDRs of those subnets' networks *)
(* and of the external networks they are routed to                       *)
(* (_query_endpoint_ext_net_info, _query_no_nat_cidrs_extension).         *)
(*                                                                         *)
(* The database tables the queries join are the variables; Init gives    *)
(* every content of them within the bounds, and the queries are           *)
(* operators.  A CIDR is named by what it belongs to: <<"prefix", p>> for *)
(* a subnetpool's prefix, <<"cidr", s>> for a subnet's, <<"nonat", n>>    *)
(* for a network's no-NAT CIDR.  A dict keyed by network id is the set of *)
(* its keys.                                                               *)
(***************************************************************************)
EXTENDS FiniteSets

CONSTANTS
    Nets,         \* network ids
    Subnets,      \* subnet ids
    SubnetNet,    \* [Subnets -> Nets]: Subnet.network_id
    ExtSubnets,   \* the subnets of the external networks
    Routers,      \* router ids
    Pools,        \* subnetpool ids
    Vrfs,         \* the VRFs, "<tenant> <name>" in a vrf_id
    NONE

ASSUME SubnetNet \in [Subnets -> Nets] /\ ExtSubnets \subseteq Subnets

ExtNets == {SubnetNet[s] : s \in ExtSubnets}

VARIABLES
    netVrf,   \* [Nets -> Vrfs]: NetworkMapping.vrf_tenant_name/vrf_name
    noNat,    \* the networks with a NetworkExtensionNoNatCidrsDb row
    subPool,  \* [Subnets -> Pools \cup {NONE}]: Subnet.subnetpool_id
    poolVrf,  \* [Pools -> Vrfs \cup {NONE}]: the AddressScopeMapping VRF
              \* of SubnetPool.address_scope_id (NONE: no mapping)
    gw,       \* [Routers -> ExtSubnets \cup {NONE}]: the subnet of the IP of
              \* Router.gw_port_id (NONE: no gateway)
    intf,     \* [Routers -> SUBSET Subnets]: the subnets of the IPs of the
              \* router's router_interface RouterPorts
    epSubs    \* the subnets of the endpoint port's fixed IPs

vars == <<netVrf, noNat, subPool, poolVrf, gw, intf, epSubs>>

-----------------------------------------------------------------------------
(* The RouterPort rows the join of _query_endpoint_ext_net_info keeps.    *)
(* Its ON clause is `RouterPort.router_id == Router.id and                 *)
(* RouterPort.port_type == DEVICE_OWNER_ROUTER_INTF`: Python's `and`       *)
(* returns its first operand, a comparison whose truth value is False, so *)
(* the port_type condition never reaches SQL and the router's gateway      *)
(* RouterPort is joined too.                                                *)
RouterPortSubnets(r) == intf[r] \cup {gw[r]}

(* _query_endpoint_ext_net_info(session, subnet_ids): the networks of the *)
(* gateway ports of the routers having a joined RouterPort with an IP on  *)
(* one of the subnets ({} for no subnets).                                 *)
QueryEndpointExtNetInfo(subs) ==
    IF subs = {} THEN {}
    ELSE {SubnetNet[gw[r]] :
            r \in {q \in Routers : gw[q] # NONE /\ RouterPortSubnets(q) \cap subs # {}}}

(* _query_no_nat_cidrs_extension(session, net_ids) *)
QueryNoNatCidrsExtension(nets) == {<<"nonat", n>> : n \in nets \cap noNat}

(* `if not ext_net_info:` an empty dict, like None, is queried again over *)
(* the subnets found.                                                     *)
ExtNetsOf(extNetInfo, subs) ==
    IF extNetInfo = {} THEN QueryEndpointExtNetInfo(subs) ELSE extNetInfo

(* _query_vrf_subnets(session, vrf_tenant_name, vrf_name, ext_net_info):  *)
(* the scoped answer when some subnetpool prefix maps to the VRF (a pool  *)
(* always has a prefix), else the unscoped one.                           *)
QueryVrfSubnets(v, extNetInfo) ==
    LET pools == {p \in Pools : poolVrf[p] = v}
        scoped == {s \in Subnets : subPool[s] \in pools}
        unscoped == {s \in Subnets : netVrf[SubnetNet[s]] = v}
    IN IF pools # {}
       THEN {<<"prefix", p>> : p \in pools} \cup
            QueryNoNatCidrsExtension({SubnetNet[s] : s \in scoped}
                                     \cup ExtNetsOf(extNetInfo, scoped))
       ELSE {<<"cidr", s>> : s \in unscoped} \cup
            QueryNoNatCidrsExtension({SubnetNet[s] : s \in unscoped}
                                     \cup ExtNetsOf(extNetInfo, unscoped))

(* vrf_id.split(' ') yields the tenant and the VRF name *)
SplitsInTwo(vrfId) == vrfId \in Vrfs

(* _get_vrf_details(context, vrf_id): the id split into tenant and name  *)
(* and the subnets queried in a reader transaction                        *)
GetVrfDetailsTx(vrfId) ==
    [l3_policy_id |-> vrfId, vrf_subnets |-> QueryVrfSubnets(vrfId, {})]

(* get_vrf_details: no vrf_id returns None; the ValueError of an id that  *)
(* does not split in two is logged and answered with                      *)
(* {'l3_policy_id': vrf_id}.                                               *)
GetVrfDetails(vrfId) ==
    CASE vrfId = NONE -> NONE
      [] ~SplitsInTwo(vrfId) -> [l3_policy_id |-> vrfId, vrf_subnets |-> NONE]
      [] OTHER -> GetVrfDetailsTx(vrfId)

(* request_vrf_details hands its arguments to get_vrf_details *)
RequestVrfDetails(vrfId) == GetVrfDetails(vrfId)

(* _request_endpoint_details: ext_net_info is queried over the set of    *)
(* the subnets of the port's fixed IPs ...                                *)
EndpointExtNetInfo(subs) == QueryEndpointExtNetInfo(subs)

(* ... and handed to the VRF subnets query of the network's VRF.         *)
EndpointVrfSubnets(subs) ==
    QueryVrfSubnets(netVrf[SubnetNet[CHOOSE s \in subs : TRUE]],
                    EndpointExtNetInfo(subs))

-----------------------------------------------------------------------------
(* The database contents the code can meet.  A router's interfaces are on *)
(* networks of one VRF.  As the comment of _query_vrf_subnets says, a VRF *)
(* mapped from address scopes holds no unscoped subnet: the subnets on   *)
(* its networks come from pools of those scopes.  The endpoint's fixed    *)
(* IPs are on one network.                                                *)
Init ==
    /\ netVrf \in [Nets -> Vrfs]
    /\ noNat \in SUBSET Nets
    /\ subPool \in [Subnets -> Pools \cup {NONE}]
    /\ poolVrf \in [Pools -> Vrfs \cup {NONE}]
    /\ gw \in [Routers -> ExtSubnets \cup {NONE}]
    /\ intf \in [Routers -> SUBSET (Subnets \ ExtSubnets)]
    /\ epSubs \in {ss \in SUBSET Subnets :
                     ss # {} /\ \A s, t \in ss : SubnetNet[s] = SubnetNet[t]}
    /\ \A r \in Routers : \A s, t \in intf[r] :
         netVrf[SubnetNet[s]] = netVrf[SubnetNet[t]]
    /\ \A s \in Subnets :
         (\E p \in Pools : poolVrf[p] = netVrf[SubnetNet[s]])
            => subPool[s] # NONE /\ poolVrf[subPool[s]] = netVrf[SubnetNet[s]]

Next == UNCHANGED vars

Spec == Init /\ [][Next]_vars

-----------------------------------------------------------------------------
TypeOK ==
    /\ netVrf \in [Nets -> Vrfs] /\ noNat \subseteq Nets
    /\ subPool \in [Subnets -> Pools \cup {NONE}]
    /\ poolVrf \in [Pools -> Vrfs \cup {NONE}]
    /\ gw \in [Routers -> ExtSubnets \cup {NONE}]
    /\ intf \in [Routers -> SUBSET Subnets]
    /\ epSubs \subseteq Subnets

(* "the external networks to which the port's subnets are routed" (the   *)
(* comment above the ext_net_info query in _request_endpoint_details):    *)
(* exactly the gateway networks of the routers with an interface on one  *)
(* of the port's subnets.                                                 *)
ExtNetsAreRoutedTo ==
    EndpointExtNetInfo(epSubs) =
        {SubnetNet[gw[r]] : r \in {q \in Routers : gw[q] # NONE /\ intf[q] \cap epSubs # {}}}

(* An endpoint's Neutron details carry the same vrf_subnets as            *)
(* request_vrf_details returns for the VRF of its network: both are           *)
(* _query_vrf_subnets of that VRF, the endpoint's passing in the          *)
(* ext_net_info already queried for the port.                             *)
EndpointVrfSubnetsAsVrfDetails ==
    EndpointVrfSubnets(epSubs) =
        RequestVrfDetails(netVrf[SubnetNet[CHOOSE s \in epSubs : TRUE]]).vrf_subnets
=============================================================================
