---------------------------- MODULE ExternalRouting ----------------------------
(***************************************************************************)
(* External segments and the L3 policies attached to them, in the GBP     *)
(* service plugin (plugin.py): create/update/delete_external_segment with *)
(* _validate_routes, and create/update/delete_l3_policy with              *)
(* _validate_l3p_es.  Both validators use _validate_identical_external_   *)
(* routes, which rejects two segments of one L3P routing the same         *)
(* destination.  Each request is one writer transaction (serial); a       *)
(* refused request changes nothing.  Destinations, next hops and pools    *)
(* are model values with the overlap relations as constants.             *)
(* The policy driver is the APIC mapping driver (apic_mapping.py): its    *)
(* precommits refuse a segment shared by two L3Ps, and its postcommits    *)
(* keep, per segment, an External Routed Network on APIC bound to the     *)
(* L3P's VRF and holding the segment's static routes.                     *)
(***************************************************************************)
EXTENDS FiniteSets

CONSTANTS
    Segments,     \* external segment UUIDs
    L3Ps,         \* l3 policy UUIDs
    Dests,        \* route destinations (networks)
    Dflt,         \* 0.0.0.0/0 (and ::/0), in Dests
    NextHops,     \* route next hops, NONE included
    InCidr,       \* [Segments -> SUBSET NextHops]: next hops in the segment's cidr
    PoolOverlap,  \* [L3Ps -> SUBSET Dests]: destinations overlapping the L3P's ip_pool
    CidrOverlap,  \* [L3Ps -> SUBSET Segments]: segments whose cidr overlaps it
    RouteSets,    \* the external_routes values requests carry
    Managed,      \* segments whose name is in apic_manager.ext_net_dict
    Exposed,      \* managed segments whose ext_info has cidr_exposed
    Gw,           \* [Managed -> NextHops]: ext_info['gateway_ip']
    NONE

Route == [dest : Dests, nh : NextHops]

ASSUME /\ Dflt \in Dests /\ NONE \in NextHops
       /\ RouteSets \subseteq SUBSET Route
       /\ Managed \subseteq Segments /\ Exposed \subseteq Managed
       /\ Gw \in [Managed -> NextHops \ {NONE}]

(* The address an L3P asks for on a segment: ADDRESS_NOT_SPECIFIED, one  *)
(* in the segment's cidr, or one outside it                              *)
AddrKinds == {"unspecified", "in", "out"}

VARIABLES
    routes,   \* [Segments -> SUBSET Route \cup {NONE}], NONE if no segment
    l3pEs,    \* [L3Ps -> SUBSET Segments \cup {NONE}], NONE if no L3P
    vrf,      \* the L3Ps whose APIC context (VRF) exists
    ctx,      \* [Segments -> L3Ps \cup {NONE}]: the VRF the segment's
              \* External Routed Network is attached to, NONE if none
    static,   \* [Segments -> SUBSET (Dests \X NextHops)]: its static
              \* routes, as (destination, next hop) on APIC
    stale     \* the segments an update_l3_policy_postcommit that raised
              \* left unplugged although the DB attaches them

vars == <<routes, l3pEs, vrf, ctx, static, stale>>
apic == <<vrf, ctx, static, stale>>

-----------------------------------------------------------------------------
DestsOf(rs) == {r.dest : r \in rs}

(* The destinations checked against a pool: default routes discarded *)
NonDefault(ds) == ds \ {Dflt}

(* The L3Ps attached to a segment (es['l3_policies']) *)
L3PsOf(e) == {l \in L3Ps : l3pEs[l] # NONE /\ e \in l3pEs[l]}

(* _validate_identical_external_routes(es_list): the routes of            *)
(* es_list[0] against those of the others; fewer than two is fine.        *)
IdenticalExternalRoute(first, others) ==
    \E o \in others : DestsOf(first) \cap DestsOf(routes[o]) # {}

(* Mutated: added routes are not checked against the L3Ps' pools *)
ValidRoutesNoPoolCheck(e, cur, orig) ==
    LET added == cur \ orig IN
    \/ added = {}
    \/ /\ \A l \in L3PsOf(e) : ~IdenticalExternalRoute(cur, l3pEs[l] \ {e})
       /\ \A r \in added : r.nh = NONE \/ r.nh \in InCidr[e]

(* _validate_routes(current, original): the routes added by the request   *)
(* (all of them on create) must not overlap the ip_pool of an L3P of the   *)
(* segment, default routes aside; the segment and each L3P's other        *)
(* segments must not share a destination; next hops must be in the       *)
(* segment's cidr.                                                        *)
ValidRoutes(e, cur, orig) ==
    LET added == cur \ orig IN
    \/ added = {}
    \/ /\ \A l \in L3PsOf(e) :
            /\ NonDefault(DestsOf(added)) \cap PoolOverlap[l] = {}
            /\ ~IdenticalExternalRoute(cur, l3pEs[l] \ {e})
       /\ \A r \in added : r.nh = NONE \/ r.nh \in InCidr[e]

(* _validate_l3p_es(current, original) for L3P l with segments ess, of    *)
(* which orig were there before, addresses addr, and first the segment   *)
(* the DB returns first: each added segment's routes (default aside) and *)
(* cidr must not overlap the pool and its addresses must be in its cidr;  *)
(* then the identical-route check runs over all of ess.                   *)
ValidL3pEs(l, ess, orig, addr, first) ==
    LET added == ess \ orig IN
    \/ added = {}
    \/ /\ \A e \in added :
            /\ NonDefault(DestsOf(routes[e])) \cap PoolOverlap[l] = {}
            /\ e \notin CidrOverlap[l]
            /\ addr[e] # "out"
       /\ ~IdenticalExternalRoute(routes[first], ess \ {first})

-----------------------------------------------------------------------------
(* The next hop put on APIC: nexthop(h), the segment's default gateway   *)
(* when the route has none                                                *)
Hop(e, nh) == IF nh = NONE THEN Gw[e] ELSE nh

Resolved(e, rs) == {<<r.dest, Hop(e, r.nh)>> : r \in rs}

(* _check_l3p_es, the driver's precommit: no segment of the L3P is used  *)
(* by another L3P.                                                        *)
OnlyL3pOfEs(l, ess) == \A e \in ess : L3PsOf(e) \subseteq {l}

(* _plug_l3p_to_es raises NoAddressConfiguredOnExternalSegment: no       *)
(* address was given and ext_info has no cidr_exposed.                    *)
PlugFails(e, addr) ==
    e \in Managed /\ addr[e] = "unspecified" /\ e \notin Exposed

(* _plug_l3p_to_es over the segments P: an unmanaged one is skipped with *)
(* a warning; for a managed one the External Routed Network is attached  *)
(* to l's VRF and a static route is ensured for each of its routes.      *)
PlugL3pToEs(l, P) ==
    /\ ctx' = [e \in Segments |-> IF e \in P \cap Managed THEN l ELSE ctx[e]]
    /\ static' = [e \in Segments |->
                    IF e \in P \cap Managed
                    THEN static[e] \cup Resolved(e, routes[e]) ELSE static[e]]

(* _plug_l3p_to_es on P, then _unplug_l3p_from_es on U:                   *)
(* delete_external_routed_network, managed or not                         *)
PlugUnplug(l, P, U) ==
    /\ ctx' = [e \in Segments |-> IF e \in U THEN NONE
                                  ELSE IF e \in P \cap Managed THEN l ELSE ctx[e]]
    /\ static' = [e \in Segments |->
                    IF e \in U THEN {}
                    ELSE IF e \in P \cap Managed
                    THEN static[e] \cup Resolved(e, routes[e]) ELSE static[e]]

(* create_l3_policy_postcommit: ensure_context_enforced, then a plug of   *)
(* each of its segments                                                   *)
CreateL3PolicyPostcommit(l, ess) ==
    /\ vrf' = vrf \cup {l}
    /\ PlugL3pToEs(l, ess)

(* delete_l3_policy_postcommit: ensure_context_deleted, then an unplug of *)
(* each of its segments                                                   *)
DeleteL3PolicyPostcommit(l, ess) ==
    /\ vrf' = vrf \ {l}
    /\ PlugUnplug(l, {}, ess)

(* update_external_segment_postcommit on a managed segment whose routes  *)
(* changed: a removed route whose destination is gone deletes the static *)
(* route with all its hops, otherwise only its next hop; then the added  *)
(* routes are ensured.  Both sides compare (destination, nexthop) as      *)
(* given, before nexthop() resolves a missing hop to the gateway.        *)
RoutesOnApic(e, cur, orig) ==
    LET removed == orig \ cur
        newDests == DestsOf(cur)
        gone == DestsOf(removed) \ newDests
        hopsDeleted == Resolved(e, {r \in removed : r.dest \in newDests})
    IN {p \in static[e] : p[1] \notin gone /\ p \notin hopsDeleted}
       \cup Resolved(e, cur \ orig)

-----------------------------------------------------------------------------
(* create_external_segment: a new segment has no L3P yet.  The driver's  *)
(* postcommit puts nothing on APIC.  A model value stands for a fresh     *)
(* UUID each time it is created, and the APIC name is derived from the    *)
(* UUID, so the new segment starts with no APIC objects: what a deleted   *)
(* segment left under its own name is never read again.                   *)
CreateExternalSegment(e) ==
    /\ routes[e] = NONE
    /\ \E rs \in RouteSets :
         /\ ValidRoutes(e, rs, {})
         /\ routes' = [routes EXCEPT ![e] = rs]
    /\ ctx' = [ctx EXCEPT ![e] = NONE]
    /\ static' = [static EXCEPT ![e] = {}]
    /\ stale' = stale \ {e}
    /\ UNCHANGED <<l3pEs, vrf>>

(* update_external_segment, then update_external_segment_postcommit,     *)
(* which returns early for a segment not in ext_net_dict                  *)
UpdateExternalSegment(e) ==
    /\ routes[e] # NONE
    /\ \E rs \in RouteSets \ {routes[e]} :
         /\ ValidRoutes(e, rs, routes[e])
         /\ routes' = [routes EXCEPT ![e] = rs]
         /\ static' = [static EXCEPT ![e] =
                          IF e \in Managed THEN RoutesOnApic(e, rs, routes[e]) ELSE @]
    /\ UNCHANGED <<l3pEs, vrf, ctx, stale>>

(* Mutated: the in-use check is dropped *)
DeleteExternalSegmentInUse(e) ==
    /\ routes[e] # NONE
    /\ routes' = [routes EXCEPT ![e] = NONE]
    /\ UNCHANGED <<l3pEs, apic>>

(* delete_external_segment: refused while an L3P uses it (NAT pools and   *)
(* external policies are not modelled); the postcommit does nothing.     *)
DeleteExternalSegment(e) ==
    /\ routes[e] # NONE
    /\ L3PsOf(e) = {}
    /\ routes' = [routes EXCEPT ![e] = NONE]
    /\ UNCHANGED <<l3pEs, apic>>

(* The segment sets an L3P request may name: existing segments (the DB   *)
(* layer rejects others)                                                  *)
Existing == {e \in Segments : routes[e] # NONE}

(* The segment the DB returns first, for the identical-route check *)
FirstOf(ess) == IF ess = {} THEN {NONE} ELSE ess

(* create_l3_policy: _validate_l3p_es and _check_l3p_es in the           *)
(* transaction; the postcommit enforces the VRF and plugs each segment.   *)
(* When a plug raises, create_l3_policy deletes the L3P:                 *)
(* delete_l3_policy_postcommit deletes the VRF and the External Routed   *)
(* Network of every one of its segments.                                 *)
CreateL3Policy(l) ==
    /\ l3pEs[l] = NONE
    /\ \E ess \in SUBSET Existing :
       \E addr \in [ess -> AddrKinds], first \in FirstOf(ess) :
         /\ ValidL3pEs(l, ess, {}, addr, first)
         /\ OnlyL3pOfEs(l, ess)
         /\ \/ /\ \A e \in ess : ~PlugFails(e, addr)
               /\ l3pEs' = [l3pEs EXCEPT ![l] = ess]
               /\ CreateL3PolicyPostcommit(l, ess)
            \/ /\ \E e \in ess : PlugFails(e, addr)
               /\ DeleteL3PolicyPostcommit(l, ess)
               /\ UNCHANGED l3pEs
         /\ stale' = stale \ ess
    /\ UNCHANGED routes

(* update_l3_policy: the checks of create, then                           *)
(* update_l3_policy_postcommit plugs the added segments and those whose  *)
(* address changed (mod), then unplugs the removed ones.  A plug that     *)
(* raises ends the postcommit after the plugs done so far, in the order  *)
(* the DB returned them; the update has committed and is not undone.     *)
UpdateL3Policy(l) ==
    /\ l3pEs[l] # NONE
    /\ \E ess \in SUBSET Existing \ {l3pEs[l]} :
       \E addr \in [ess -> AddrKinds], first \in FirstOf(ess),
         mod \in SUBSET (ess \cap l3pEs[l]) :
         LET added == (ess \ l3pEs[l]) \cup mod
             removed == l3pEs[l] \ ess
         IN /\ ValidL3pEs(l, ess, l3pEs[l], addr, first)
            /\ OnlyL3pOfEs(l, ess)
            /\ l3pEs' = [l3pEs EXCEPT ![l] = ess]
            /\ \/ /\ \A e \in added : ~PlugFails(e, addr)
                  /\ PlugUnplug(l, added, removed)
                  /\ stale' = stale \ (added \cup removed)
               \/ /\ \E e \in added : PlugFails(e, addr)
                  /\ \E P \in SUBSET {e \in added : ~PlugFails(e, addr)} :
                       /\ PlugL3pToEs(l, P)
                       /\ stale' = (stale \ P) \cup (added \ P)
    /\ UNCHANGED <<routes, vrf>>

(* delete_l3_policy, then delete_l3_policy_postcommit: the VRF and the    *)
(* External Routed Network of each of its segments are deleted.           *)
DeleteL3Policy(l) ==
    /\ l3pEs[l] # NONE
    /\ l3pEs' = [l3pEs EXCEPT ![l] = NONE]
    /\ DeleteL3PolicyPostcommit(l, l3pEs[l])
    /\ stale' = stale \ l3pEs[l]
    /\ UNCHANGED routes

Init ==
    /\ routes = [e \in Segments |-> NONE]
    /\ l3pEs = [l \in L3Ps |-> NONE]
    /\ vrf = {}
    /\ ctx = [e \in Segments |-> NONE]
    /\ static = [e \in Segments |-> {}]
    /\ stale = {}

Next ==
    \/ \E e \in Segments :
         CreateExternalSegment(e) \/ UpdateExternalSegment(e) \/ DeleteExternalSegment(e)
    \/ \E l \in L3Ps : CreateL3Policy(l) \/ UpdateL3Policy(l) \/ DeleteL3Policy(l)

Spec == Init /\ [][Next]_vars

-----------------------------------------------------------------------------
(* Types, and every segment an L3P names exists *)
TypeOK ==
    /\ \A e \in Segments : routes[e] = NONE \/ routes[e] \in RouteSets
    /\ \A l \in L3Ps : l3pEs[l] = NONE \/ l3pEs[l] \subseteq {e \in Segments : routes[e] # NONE}
    /\ vrf \subseteq L3Ps /\ stale \subseteq Segments
    /\ ctx \in [Segments -> L3Ps \cup {NONE}]
    /\ static \in [Segments -> SUBSET (Dests \X NextHops)]

(* The routes of an L3P's segments never overlap its ip_pool, default     *)
(* routes aside, whether the segment was attached before or after its      *)
(* routes were set: _validate_l3p_es checks one order, _validate_routes   *)
(* the other.                                                             *)
RoutesOutsideL3PPools ==
    \A l \in L3Ps : l3pEs[l] # NONE =>
      \A e \in l3pEs[l] : NonDefault({r.dest : r \in routes[e]}) \cap PoolOverlap[l] = {}

(* No two segments of one L3P route the same destination: the rule       *)
(* IdenticalExternalRoute enforces.                                       *)
NoIdenticalRoutes ==
    \A l \in L3Ps : l3pEs[l] # NONE =>
      \A e1, e2 \in l3pEs[l] :
        e1 # e2 => {r.dest : r \in routes[e1]} \cap {r.dest : r \in routes[e2]} = {}

(* APIC mirrors the DB outside what a raising postcommit left behind: an  *)
(* L3P's VRF exists exactly while the L3P does, and every managed         *)
(* segment an L3P uses, unless a failed update left it unplugged, has its *)
(* External Routed Network on that VRF holding one static route per DB   *)
(* route, missing next hops resolved to the gateway.  _plug_l3p_to_es,    *)
(* the route diff of update_external_segment_postcommit, the plug/unplug *)
(* sequence of update_l3_policy_postcommit and create_l3_policy's        *)
(* compensating delete keep it together.                                  *)
ApicRoutedNetworksMirrorDb ==
    \A l \in L3Ps :
        /\ l \in vrf <=> l3pEs[l] # NONE
        /\ l3pEs[l] # NONE =>
             \A e \in (l3pEs[l] \cap Managed) \ stale :
                 ctx[e] = l /\ static[e] = Resolved(e, routes[e])
=============================================================================
