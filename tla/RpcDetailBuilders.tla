--------------------------- MODULE RpcDetailBuilders ---------------------------
(***************************************************************************)
(* The builders that turn the rows read by _request_endpoint_details into  *)
(* the GBP details of an endpoint (rpc.py _build_fixed_ips, _build_aaps,   *)
(* _build_fips, _build_host_snat_ips, _build_ipms) and the subnets of    *)
(* its Neutron details (_build_subnet_details), as operators, and          *)
(* reference definitions of what they promise.  Addresses and CIDRs are   *)
(* model values; a CIDR denotes the set of addresses Members gives it (a  *)
(* host address, /32 or /128, is an address).  Dicts are functions, and   *)
(* the loops that fill them are folds over the query's rows in order.     *)
(***************************************************************************)
EXTENDS Naturals, SequencesExt

CONSTANTS
    Addrs,        \* IP addresses
    Cidrs,        \* CIDRs that are not host addresses
    Members,      \* [Cidrs -> SUBSET Addrs]
    Macs,
    Subnets,
    Nets,         \* external networks
    NONE

ASSUME Members \in [Cidrs -> SUBSET Addrs] /\ Addrs \cap Cidrs = {}

(* The NAT types of an external network in ext_net_info; "none" is a net *)
(* that is not in it.                                                    *)
NatTypes == {"none", "distributed", "edge"}

-----------------------------------------------------------------------------
(* _build_fixed_ips: one entry per address, the first row's subnet wins  *)
(* over the duplicates the DNS and route joins produce.                   *)
BuildFixedIps(ipInfo) ==
    FoldLeft(LAMBDA acc, row : IF row.ip \in DOMAIN acc THEN acc
                               ELSE (row.ip :> row.subnet) @@ acc,
             <<>>, ipInfo)

(* Mutated: an owned address inside a CIDR overwrites an entry already   *)
(* made for it.                                                           *)
AapStepOverwriting(aaps, allowed, owned) ==
    LET ip == allowed.ip
        base == (ip :> [mac |-> allowed.mac, active |-> FALSE]) @@ aaps
    IN IF ip \in Cidrs
       THEN LET new == {x \in owned : x \in Members[ip]}
            IN [x \in new |-> [mac |-> allowed.mac, active |-> TRUE]] @@ base
       ELSE IF ip \in owned THEN [base EXCEPT ![ip].active = TRUE] ELSE base

(* One iteration of the loop of _build_aaps: the pair itself (never       *)
(* active if it is a CIDR); for a CIDR, the owned addresses in it that    *)
(* have no entry yet, marked active; for an owned address, its own entry  *)
(* marked active.                                                          *)
AapStep(aaps, allowed, owned) ==
    LET ip == allowed.ip
        base == (ip :> [mac |-> allowed.mac, active |-> FALSE]) @@ aaps
    IN IF ip \in Cidrs
       THEN LET new == {x \in owned : x \in Members[ip] /\ x \notin DOMAIN base}
            IN [x \in new |-> [mac |-> allowed.mac, active |-> TRUE]] @@ base
       ELSE IF ip \in owned THEN [base EXCEPT ![ip].active = TRUE] ELSE base

(* _build_aaps: with active_active_aap the owned addresses are ignored *)
BuildAaps(aapInfo, ownedIps, activeActive) ==
    LET owned == IF activeActive THEN {} ELSE ownedIps
    IN FoldLeft(LAMBDA acc, allowed : AapStep(acc, allowed, owned), <<>>, aapInfo)

(* An external network with a DN and distributed NAT *)
Distributed(ext, n) == ext[n] = "distributed"

(* _build_fips: a floating IP names its external network (ext_net_id)    *)
(* only when that network does distributed NAT.                           *)
BuildFips(fipInfo, ext) ==
    {[fixed |-> f.fixed, net |-> f.net,
      extNet |-> IF Distributed(ext, f.net) THEN f.net ELSE NONE] : f \in fipInfo}

(* Mutated: only the fixed IPs are considered, not the active AAPs *)
BuildHostSnatIpsFixedOnly(fixedIps, aaps, fips, ext, snatInfo, allocated) ==
    LET ips == DOMAIN fixedIps
        fipFixed(n) == {f.fixed : f \in {g \in fips : g.extNet = n}}
    IN {n \in {m \in Nets : ext[m] # "none"} :
          /\ \E ip \in ips : ip \notin fipFixed(n)
          /\ n \in snatInfo \/ n \in allocated}

(* _build_host_snat_ips: an external network needs a host SNAT IP when   *)
(* one of the endpoint's addresses (fixed IPs and active AAPs) has no     *)
(* distributed floating IP on it; the existing SNAT port of the host is   *)
(* used, or get_or_allocate_snat_ip allocates one (allocated: the nets    *)
(* where that succeeds).                                                  *)
BuildHostSnatIps(fixedIps, aaps, fips, ext, snatInfo, allocated) ==
    LET ips == DOMAIN fixedIps \cup {k \in DOMAIN aaps : aaps[k].active}
        fipFixed(n) == {f.fixed : f \in {g \in fips : g.extNet = n}}
    IN {n \in {m \in Nets : ext[m] # "none"} :
          /\ \E ip \in ips : ip \notin fipFixed(n)
          /\ n \in snatInfo \/ n \in allocated}

(* Mutated: the host SNAT filter of the IP mappings is dropped *)
BuildIpmsAllDistributed(hostSnat, ext) == {n \in Nets : Distributed(ext, n)}

(* _build_ipms: an IP mapping for each distributed-NAT external network  *)
(* that got a host SNAT IP                                                *)
BuildIpms(hostSnat, ext) == {n \in hostSnat : Distributed(ext, n)}

(* The part of _build_endpoint_gbp_details these builders make up: the  *)
(* AAPs and floating IPs feed the host SNAT IPs, which feed the IP       *)
(* mappings.                                                              *)
GbpDetails(e) ==
    LET fixedIps == BuildFixedIps(e.ipInfo)
        aaps == BuildAaps(e.aapInfo, e.owned, e.activeActive)
        fips == BuildFips(e.fipInfo, e.ext)
        hostSnat == BuildHostSnatIps(fixedIps, aaps, fips, e.ext, e.snat, e.alloc)
    IN [fixedIps |-> fixedIps, aaps |-> aaps, fips |-> fips,
        hostSnat |-> hostSnat, ipms |-> BuildIpms(hostSnat, e.ext)]

-----------------------------------------------------------------------------
CONSTANTS
    DnsServers,     \* DNS nameserver addresses
    Gateways,       \* the gateway_ip values a subnet can have
    SubnetVersion   \* [Subnets -> {4, 6}]: ip_version of each subnet

ASSUME SubnetVersion \in [Subnets -> {4, 6}] /\ Gateways \subseteq Addrs

(* neutron_lib constants IPV4_ANY_CIDR and IPV4_METADATA_CIDR *)
AnyCidr == "0.0.0.0/0"
MetadataCidr == "169.254.169.254/16"

NoSubnet == [order |-> <<>>, dns |-> [s \in Subnets |-> <<>>],
             routes |-> [s \in Subnets |-> {}]]

(* The first loop of _build_subnet_details, one ip_info row: a subnet    *)
(* enters the dict at its first row; a DNS server is appended unless     *)
(* already listed; a route joins the subnet's set.                       *)
SubnetRowStep(acc, ip) ==
    LET s == ip.subnet IN
    [order |-> IF s \in Range(acc.order) THEN acc.order ELSE Append(acc.order, s),
     dns |-> IF ip.dns # NONE /\ ip.dns \notin Range(acc.dns[s])
             THEN [acc.dns EXCEPT ![s] = Append(@, ip.dns)] ELSE acc.dns,
     routes |-> IF ip.route # NONE
                THEN [acc.routes EXCEPT ![s] = @ \cup {ip.route}] ELSE acc.routes]

(* dhcp_ports of one subnet: the MACs in the order the dict got them, and *)
(* each MAC's addresses in row order                                      *)
DhcpPorts(s, dhcpInfo) ==
    FoldLeft(LAMBDA acc, ip :
               IF ip.subnet # s THEN acc
               ELSE IF ip.mac \in DOMAIN acc.ips
               THEN [acc EXCEPT !.ips[ip.mac] = Append(@, ip.ip)]
               ELSE [keys |-> Append(acc.keys, ip.mac),
                     ips |-> (ip.mac :> <<ip.ip>>) @@ acc.ips],
             [keys |-> <<>>, ips |-> <<>>], dhcpInfo)

(* Mutated: the metadata route test reads the default routes after the   *)
(* gateway's default route was added.                                     *)
HostRoutesAfterGateway(routes, gw, v4, ports, metadataOpt) ==
    LET defaults == {r \in routes : r[1] = AnyCidr}
        withGw == IF defaults = {} /\ gw # NONE
                  THEN routes \cup {<<AnyCidr, gw>>} ELSE routes
        metadata == {r \in withGw : r[1] = MetadataCidr}
    IN IF ~v4 THEN routes
       ELSE IF /\ metadata = {} /\ ports.keys # <<>>
               /\ ~metadataOpt \/ {r \in withGw : r[1] = AnyCidr} = {}
       THEN withGw \cup {<<MetadataCidr, h>> : h \in Range(ports.ips[ports.keys[1]])}
       ELSE withGw

(* The routes of an IPv4 subnet: the gateway's default route when none  *)
(* is given; the metadata route via each address of the first DHCP port  *)
(* when none is given, there is a DHCP port, and enable_metadata_opt is  *)
(* off or no default route was given.                                    *)
HostRoutes(routes, gw, v4, ports, metadataOpt) ==
    LET defaults == {r \in routes : r[1] = AnyCidr}
        metadata == {r \in routes : r[1] = MetadataCidr}
        withGw == IF defaults = {} /\ gw # NONE
                  THEN routes \cup {<<AnyCidr, gw>>} ELSE routes
    IN IF ~v4 THEN routes
       ELSE IF /\ metadata = {} /\ ports.keys # <<>>
               /\ ~metadataOpt \/ defaults = {}
       THEN withGw \cup {<<MetadataCidr, h>> : h \in Range(ports.ips[ports.keys[1]])}
       ELSE withGw

(* _build_subnet_details: per subnet, in the order of its first row, the *)
(* DHCP server addresses and ports, the host routes, and the subnet's    *)
(* DNS servers or else the DHCP server addresses (list(set): any order)  *)
BuildSubnetDetails(n) ==
    LET acc == FoldLeft(SubnetRowStep, NoSubnet, n.ipInfo)
        ports(s) == DhcpPorts(s, n.dhcpInfo)
        dhcpIps(s) == {d.ip : d \in {r \in Range(n.dhcpInfo) : r.subnet = s}}
        detail(s) ==
          [dhcpIps |-> dhcpIps(s), ports |-> ports(s),
           dns |-> IF acc.dns[s] # <<>> THEN acc.dns[s] ELSE SetToSeq(dhcpIps(s)),
           routes |-> HostRoutes(acc.routes[s], n.gateway[s],
                                 SubnetVersion[s] = 4, ports(s), n.metadataOpt)]
    IN [i \in DOMAIN acc.order |-> [id |-> acc.order[i]] @@ detail(acc.order[i])]

-----------------------------------------------------------------------------
(* The port-level fields of _build_endpoint_gbp_details.  DHCP option     *)
(* values are strings; IntOf is int() on the ones that parse.             *)
CONSTANTS
    OptValues,         \* extra_dhcp_opts values, "" included
    IntOf,             \* [the values of OptValues that int() accepts -> Nat]
    Mtus,              \* the net_mtu values
    PromiscuousTypes,  \* constants.PROMISCUOUS_TYPES
    Owners,            \* device_owner values
    SecurityGroups,
    QosPolicies

ASSUME "" \in OptValues /\ DOMAIN IntOf \subseteq OptValues \ {""}

(* Python's truth value of an option value, None or a string *)
Truthy(v) == v \notin {NONE, ""}

(* _get_interface_mtu: with advertise_mtu, the value of option          *)
(* interface-mtu, or of option 26 when that one is None or empty; a      *)
(* value int() refuses falls through to the network's MTU.  The caller   *)
(* sets interface_mtu only when the result is truthy.                    *)
InterfaceMtu(p) ==
    LET opt == IF Truthy(p.mtuOpt) THEN p.mtuOpt ELSE p.opt26
    IN IF ~p.advertiseMtu THEN NONE
       ELSE IF Truthy(opt) /\ opt \in DOMAIN IntOf THEN IntOf[opt]
       ELSE p.netMtu

(* _get_promiscuous_mode: a promiscuous device owner, a port name with   *)
(* PROMISCUOUS_SUFFIX, or port security explicitly False (not None)       *)
PromiscuousMode(p) ==
    p.owner \in PromiscuousTypes \/ p.promSuffix \/ p.psec = FALSE

(* The security_group field: set only when the port has SGs and its      *)
(* vif_details do not have both port_filter and ovs_hybrid_plug (a legacy *)
(* VM using iptables)                                                     *)
HasSecurityGroup(p) ==
    p.sgs # {} /\ ~(p.vif # NONE /\ p.vif.portFilter /\ p.vif.hybridPlug)

(* _query_endpoint_trunk_info: Trunk outer-joined with its SubPorts, so  *)
(* a trunk without subports is one row with no subport                    *)
TrunkInfoRows(t) ==
    IF t = NONE THEN <<>>
    ELSE IF t.subports = {} THEN <<[master |-> t.master, subport |-> NONE]>>
    ELSE [i \in 1..Cardinality(t.subports) |->
            [master |-> t.master, subport |-> SetToSeq(t.subports)[i]]]

(* _build_endpoint_trunk_details: nothing without trunk rows; else the   *)
(* port's trunk (as parent or as subport), the first row's master port,  *)
(* and the rows that name a subport                                       *)
TrunkDetails(p) ==
    LET rows == TrunkInfoRows(p.trunk) IN
    IF rows = <<>> THEN NONE
    ELSE [trunkId |-> IF p.trunkId # NONE THEN p.trunkId ELSE p.subportTrunkId,
          master |-> rows[1].master,
          subports |-> SelectSeq(rows, LAMBDA r : r.subport # NONE)]

(* _build_sg_details: the port's SGs in their tenants' policy spaces,    *)
(* then the default and the system SG of the common tenant                *)
SgDetails(p) == SetToSeq(p.sgs) \o <<"default", "system">>

(* The port fields of the details: interface_mtu present only when       *)
(* truthy                                                                 *)
PortDetails(p) ==
    LET mtu == InterfaceMtu(p) IN
    [mtu |-> IF mtu \in {NONE, 0} THEN NONE ELSE mtu,
     promiscuous |-> PromiscuousMode(p),
     securityGroup |-> IF HasSecurityGroup(p) THEN SgDetails(p) ELSE NONE,
     qos |-> IF p.qos = <<>> THEN NONE ELSE p.qos[1],
     trunk |-> TrunkDetails(p)]

-----------------------------------------------------------------------------
CONSTANT MaxRows   \* bound on the rows of each query

(* The rows the queries can return for one endpoint *)
Endpoints ==
    [ipInfo : BoundedSeq([ip : Addrs, subnet : Subnets], MaxRows),
     aapInfo : BoundedSeq([ip : Addrs \cup Cidrs, mac : Macs], MaxRows),
     owned : SUBSET Addrs,
     activeActive : BOOLEAN,
     fipInfo : SUBSET [fixed : Addrs, net : Nets],
     ext : [Nets -> NatTypes],
     snat : SUBSET Nets,
     alloc : SUBSET Nets]

(* The ip_info rows (IP allocations joined with DNS servers and routes)  *)
(* and dhcp_ip_info rows (DHCP ports' addresses) of an endpoint's        *)
(* subnets, and the options the subnet details depend on                  *)
SubnetInputs ==
    [ipInfo : BoundedSeq([subnet : Subnets, dns : DnsServers \cup {NONE},
                          route : ({AnyCidr, MetadataCidr} \X Addrs) \cup {NONE}],
                         MaxRows),
     dhcpInfo : BoundedSeq([subnet : Subnets, ip : Addrs, mac : Macs], MaxRows),
     gateway : [Subnets -> Gateways \cup {NONE}],
     metadataOpt : BOOLEAN]

(* The port_info, sg_info, qos_info and extra DHCP option fields the     *)
(* port builders read, and the trunk the trunk query joins; Macs stand   *)
(* for port ids and Subnets for trunk ids.                                *)
PortInputs ==
    [advertiseMtu : BOOLEAN, mtuOpt : OptValues \cup {NONE},
     opt26 : OptValues \cup {NONE}, netMtu : Mtus,
     owner : Owners, promSuffix : BOOLEAN, psec : {TRUE, FALSE, NONE},
     sgs : SUBSET SecurityGroups, qos : BoundedSeq(QosPolicies, 1), vif : [portFilter : BOOLEAN, hybridPlug : BOOLEAN] \cup {NONE},
     trunkId : Subnets \cup {NONE}, subportTrunkId : Subnets \cup {NONE},
     trunk : {NONE} \cup {t \in [master : Macs, subports : SUBSET Macs] :
                             t.master \notin t.subports}]

VARIABLES
    ep,   \* the endpoint whose GBP details are built
    sn,   \* the subnet rows whose subnet details are built
    pi    \* the port rows whose port fields are built

(* The builders read disjoint rows: each initial state varies one input  *)
(* and leaves the others empty.                                          *)
NoEndpoint == [ipInfo |-> <<>>, aapInfo |-> <<>>, owned |-> {},
               activeActive |-> FALSE, fipInfo |-> {},
               ext |-> [n \in Nets |-> "none"], snat |-> {}, alloc |-> {}]
NoSubnetRows == [ipInfo |-> <<>>, dhcpInfo |-> <<>>,
                 gateway |-> [s \in Subnets |-> NONE], metadataOpt |-> FALSE]
NoPort == [advertiseMtu |-> FALSE, mtuOpt |-> NONE, opt26 |-> NONE,
           netMtu |-> CHOOSE m \in Mtus : TRUE, owner |-> CHOOSE o \in Owners : TRUE,
           promSuffix |-> FALSE, psec |-> NONE, sgs |-> {}, qos |-> <<>>,
           vif |-> NONE, trunkId |-> NONE, subportTrunkId |-> NONE, trunk |-> NONE]

Init ==
    \/ ep = NoEndpoint /\ sn = NoSubnetRows /\ pi \in PortInputs
    \/ ep \in Endpoints /\ sn = NoSubnetRows /\ pi = NoPort
    \/ ep = NoEndpoint /\ sn \in SubnetInputs /\ pi = NoPort

(* The builders are pure: the inputs stay as they are. *)
Next == UNCHANGED <<ep, sn, pi>>

Spec == Init /\ [][Next]_<<ep, sn, pi>>

-----------------------------------------------------------------------------
(* The allowed address pairs _build_aaps promises: one entry per pair and *)
(* per owned address inside a CIDR pair; an entry is active exactly when   *)
(* its address is owned and active_active_aap is off, so a CIDR never is;  *)
(* an address keeps the MAC of its last explicit pair, else that of the    *)
(* first CIDR pair containing it.                                          *)
AapsRef(e) ==
    LET s == e.aapInfo
        owned == IF e.activeActive THEN {} ELSE e.owned
        pairs == {s[i].ip : i \in DOMAIN s}
        covered == {x \in owned \ pairs :
                      \E c \in pairs \cap Cidrs : x \in Members[c]}
        mac(k) == IF k \in pairs
                  THEN s[SelectLastInSeq(s, LAMBDA p : p.ip = k)].mac
                  ELSE s[SelectInSeq(s, LAMBDA p : p.ip \in Cidrs
                                                   /\ k \in Members[p.ip])].mac
    IN [k \in pairs \cup covered |-> [mac |-> mac(k), active |-> k \in owned]]

(* Types, and IP mappings only for networks with a host SNAT IP *)
TypeOK ==
    /\ ep \in Endpoints /\ sn \in SubnetInputs /\ pi \in PortInputs
    /\ PortDetails(pi).mtu \in Nat \cup {NONE}
    /\ PortDetails(pi).securityGroup \in Seq(SecurityGroups \cup {"default", "system"}) \cup {NONE}
    /\ GbpDetails(ep).hostSnat \subseteq Nets
    /\ GbpDetails(ep).ipms \subseteq GbpDetails(ep).hostSnat

(* _build_aaps builds the pairs of AapsRef, whatever the order of the    *)
(* rows: CIDRs are never active and owned addresses inside them are.      *)
AapsActiveExactlyOwned == GbpDetails(ep).aaps = AapsRef(ep)

(* The endpoint's own addresses: its fixed IPs and the owned addresses   *)
(* its pairs cover                                                        *)
EndpointAddrs(e) ==
    LET owned == IF e.activeActive THEN {} ELSE e.owned
        pairs == {e.aapInfo[i].ip : i \in 1..Len(e.aapInfo)}
    IN {e.ipInfo[i].ip : i \in 1..Len(e.ipInfo)}
       \cup {x \in owned : x \in pairs \/ \E c \in pairs \cap Cidrs : x \in Members[c]}

(* Host SNAT (the builders together): an external network gets a host   *)
(* SNAT IP exactly when one of the endpoint's addresses has no           *)
(* distributed floating IP on it and the host has or gets an SNAT IP     *)
(* there.                                                                  *)
HostSnatForUnmappedAddrs ==
    GbpDetails(ep).hostSnat =
      {n \in Nets :
         /\ ep.ext[n] # "none"
         /\ \E x \in EndpointAddrs(ep) :
              ~(Distributed(ep.ext, n) /\ \E f \in ep.fipInfo : f.fixed = x /\ f.net = n)
         /\ n \in ep.snat \cup ep.alloc}

(* The distinct elements of q other than NONE, in the order of their    *)
(* first occurrence                                                      *)
IsFirstOccurrenceOrder(t, q) ==
    /\ Range(t) = Range(q) \ {NONE}
    /\ IsInjective(t)
    /\ \A i, j \in DOMAIN t :
         i < j => SelectInSeq(q, LAMBDA x : x = t[i]) < SelectInSeq(q, LAMBDA x : x = t[j])

(* The host routes a subnet is promised: the routes given for it; for    *)
(* IPv4, a default route via the gateway unless one is given, and unless *)
(* a metadata route is given, one via each address of the DHCP port of   *)
(* the subnet's first dhcp_ip_info row, except when enable_metadata_opt  *)
(* is on and a default route is given.                                   *)
HostRoutesRef(n, s) ==
    LET given == {r.route : r \in {x \in Range(n.ipInfo) : x.subnet = s}} \ {NONE}
        hasDefault == \E r \in given : r[1] = AnyCidr
        hasMetadata == \E r \in given : r[1] = MetadataCidr
        dhcp == {d \in Range(n.dhcpInfo) : d.subnet = s}
        firstMac == n.dhcpInfo[SelectInSeq(n.dhcpInfo, LAMBDA d : d.subnet = s)].mac
        v4 == SubnetVersion[s] = 4
    IN given
       \cup {<<AnyCidr, g>> : g \in IF v4 /\ ~hasDefault THEN {n.gateway[s]} \ {NONE}
                                  ELSE {}}
       \cup {<<MetadataCidr, d.ip>> :
               d \in IF v4 /\ ~hasMetadata /\ ~(n.metadataOpt /\ hasDefault)
                     THEN {x \in dhcp : x.mac = firstMac} ELSE {}}

(* _build_subnet_details lists each subnet of the rows once, in the     *)
(* order of its first row, with the promised host routes, its DNS        *)
(* servers deduplicated in their order, or else its DHCP server          *)
(* addresses, each once.                                                 *)
SubnetDetailsAsPromised ==
    LET b == BuildSubnetDetails(sn) IN
    /\ IsFirstOccurrenceOrder([i \in DOMAIN b |-> b[i].id],
                              [i \in DOMAIN sn.ipInfo |-> sn.ipInfo[i].subnet])
    /\ \A i \in DOMAIN b :
         LET s == b[i].id
             rows == SelectSeq(sn.ipInfo, LAMBDA r : r.subnet = s)
             dns == [k \in DOMAIN rows |-> rows[k].dns]
         IN /\ b[i].routes = HostRoutesRef(sn, s)
            /\ IF Range(dns) \ {NONE} # {}
               THEN IsFirstOccurrenceOrder(b[i].dns, dns)
               ELSE Range(b[i].dns) = b[i].dhcpIps /\ IsInjective(b[i].dns)

=============================================================================
