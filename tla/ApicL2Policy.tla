----------------------------- MODULE ApicL2Policy -----------------------------
(***************************************************************************)
(* The L2 policies of the APIC mapping policy driver                       *)
(* (src/gbpservice/neutron/services/grouppolicy/drivers/cisco/apic/        *)
(* apic_mapping.py) under GroupPolicyPlugin.create_l2_policy and           *)
(* delete_l2_policy (.../grouppolicy/plugin.py).  An L2P is a bridge      *)
(* domain (BD) on the APIC with a shadow EPG and a service contract, and  *)
(* the BD carries the gateway of every subnet of the L2P's network; the    *)
(* subnet hooks process_subnet_added, _changed and _deleted keep those     *)
(* gateways, all through _manage_l2p_subnets.                               *)
(*                                                                         *)
(* create_l2_policy_postcommit reads the network's subnets and then writes *)
(* the BD, shadow EPG and those subnets in one APIC transaction: the read  *)
(* and the write are two steps, and the hooks of other requests and a     *)
(* concurrent delete_l2_policy may run between them.  Whether an APIC     *)
(* transaction an exception leaves is committed is up to apicapi, which is *)
(* not in this repository: both outcomes are allowed.                      *)
(***************************************************************************)
CONSTANTS
    L2Ps,       \* l2_policy UUIDs, each with its own network
    Subnets,    \* subnet UUIDs
    SubnetL2p,  \* [Subnets -> L2Ps]: the L2P of the subnet's network
    Gateways,   \* gateway IPs a subnet may have
    DeleteMayFail, \* whether delete_l2_policy_postcommit may raise
    Serial,     \* whether requests and subnet changes come one at a time
    NONE

ASSUME SubnetL2p \in [Subnets -> L2Ps] /\ DeleteMayFail \in BOOLEAN
ASSUME Serial \in BOOLEAN

VARIABLES
    db,      \* the committed l2_policy rows
    gw,      \* [Subnets -> Gateways \cup {NONE}]: the subnet's gateway_ip
             \* (NONE: no such subnet)
    bd,      \* the L2Ps whose BD is on the APIC
    shadow,  \* the L2Ps whose shadow EPG and service contract are on the APIC
    bdSubs,  \* [L2Ps -> SUBSET (Subnets \X Gateways)]: the BD's subnets
    pc,      \* [L2Ps -> step of the create_l2_policy request for the L2P]
    read,    \* [L2Ps -> the subnets its create postcommit has read]
    dpc      \* [L2Ps -> step of a user's delete_l2_policy request]

vars == <<db, gw, bd, shadow, bdSubs, pc, read, dpc>>

Pcs == {"init", "post", "apic", "done", "comp", "comp_post", "failed"}
DPcs == {"none", "post", "done"}

(* _gateway_ip of each subnet, as the BD subnet names it *)
GatewayIps(subs) == {<<s, gw[s]>> : s \in subs}

(* The subnets of the L2P's network: core_plugin.get_subnets *)
NetSubnets(l) == {s \in Subnets : SubnetL2p[s] = l /\ gw[s] # NONE}

(* _manage_l2p_subnets(l2p_id, added, removed): the gateways of the added *)
(* subnets created and those of the removed ones deleted on the BD in one  *)
(* APIC transaction                                                        *)
ManageL2pSubnets(l, added, removed) ==
    [bdSubs EXCEPT ![l] = (@ \cup added) \ removed]

(* _configure_shadow_epg: the shadow EPG on the BD, the service contract  *)
(* it provides and the contract's DHCP, DNS and ARP filter subjects       *)
(* (_associate_service_filter; the filters are per tenant and stay).     *)
ConfigureShadowEpg(l) == shadow \cup {l}

(* _delete_shadow_epg: the shadow EPG and the service contract *)
DeleteShadowEpg(l) == shadow \ {l}

(* delete_l2_policy_postcommit's APIC transaction: delete_bd_on_apic, with *)
(* the subnets under the BD, and _delete_shadow_epg                         *)
DeleteBd(l) ==
    /\ bd' = bd \ {l}
    /\ shadow' = DeleteShadowEpg(l)
    /\ bdSubs' = [bdSubs EXCEPT ![l] = {}]

(* The create, and a user's delete, of the L2P between their steps *)
CreateBusy(l) == pc[l] \in {"post", "apic", "comp", "comp_post"}
DeleteBusy(l) == dpc[l] = "post"
Idle(l) == ~CreateBusy(l) /\ ~DeleteBusy(l)

(* A new request or subnet change may start: always, or with Serial only *)
(* when no request is between its steps                                   *)
MayStart == ~Serial \/ \A l \in L2Ps : Idle(l)

-----------------------------------------------------------------------------
(* create_l2_policy: the writer transaction inserts the row (the           *)
(* precommit's _reject_non_shared_net_on_shared_l2p is inherited code not  *)
(* in this repository).                                                    *)
CreateL2Policy(l) ==
    /\ pc[l] = "init" /\ MayStart
    /\ db' = db \cup {l}
    /\ pc' = [pc EXCEPT ![l] = "post"]
    /\ UNCHANGED <<gw, bd, shadow, bdSubs, read, dpc>>

(* create_l2_policy_postcommit, up to "Add existing subnets": the          *)
(* get_subnets of the L2P's network                                       *)
CreateL2PolicyPostcommitRead(l) ==
    /\ pc[l] = "post"
    /\ read' = [read EXCEPT ![l] = GatewayIps(NetSubnets(l))]
    /\ pc' = [pc EXCEPT ![l] = "apic"]
    /\ UNCHANGED <<db, gw, bd, shadow, bdSubs, dpc>>

(* ... and its APIC transaction: ensure_bd_created_on_apic,               *)
(* _configure_shadow_epg and _manage_l2p_subnets with the subnets read.    *)
(* It either commits, or raises (an APIC or plugin call fails), with or    *)
(* without its writes, and the plugin calls delete_l2_policy.              *)
CreateL2PolicyPostcommit(l) ==
    /\ pc[l] = "apic"
    /\ \/ /\ bd' = bd \cup {l}
          /\ shadow' = ConfigureShadowEpg(l)
          /\ bdSubs' = ManageL2pSubnets(l, read[l], {})
          /\ pc' = [pc EXCEPT ![l] = "done"]
       \/ /\ \/ /\ bd' = bd \cup {l}
                /\ shadow' = ConfigureShadowEpg(l)
                /\ bdSubs' = ManageL2pSubnets(l, read[l], {})
             \/ UNCHANGED <<bd, shadow, bdSubs>>
          /\ pc' = [pc EXCEPT ![l] = "comp"]
    /\ UNCHANGED <<db, gw, read, dpc>>

(* delete_l2_policy, called by save_and_reraise_exception: its writer     *)
(* transaction deletes the row; when another request has deleted it,      *)
(* get_l2_policy raises L2PolicyNotFound and the create ends there.       *)
CompensateDeleteL2Policy(l) ==
    /\ pc[l] = "comp"
    /\ IF l \in db
       THEN /\ db' = db \ {l}
            /\ pc' = [pc EXCEPT ![l] = "comp_post"]
       ELSE /\ pc' = [pc EXCEPT ![l] = "failed"]
            /\ UNCHANGED db
    /\ UNCHANGED <<gw, bd, shadow, bdSubs, read, dpc>>

(* ... and delete_l2_policy_postcommit, whose exception is logged and      *)
(* swallowed; the create's exception then reaches the client.              *)
CompensateDeleteL2PolicyPostcommit(l) ==
    /\ pc[l] = "comp_post"
    /\ \/ DeleteBd(l)
       \/ DeleteMayFail /\ UNCHANGED <<bd, shadow, bdSubs>>
    /\ pc' = [pc EXCEPT ![l] = "failed"]
    /\ UNCHANGED <<db, gw, read, dpc>>

(* A user's delete_l2_policy: the writer transaction deletes the row ...  *)
DeleteL2Policy(l) ==
    /\ l \in db /\ dpc[l] = "none" /\ MayStart
    /\ db' = db \ {l}
    /\ dpc' = [dpc EXCEPT ![l] = "post"]
    /\ UNCHANGED <<gw, bd, shadow, bdSubs, pc, read>>

(* ... and delete_l2_policy_postcommit, whose exception is logged.         *)
DeleteL2PolicyPostcommit(l) ==
    /\ dpc[l] = "post"
    /\ \/ DeleteBd(l)
       \/ DeleteMayFail /\ UNCHANGED <<bd, shadow, bdSubs>>
    /\ dpc' = [dpc EXCEPT ![l] = "done"]
    /\ UNCHANGED <<db, gw, pc, read>>

(* A subnet is created, and process_subnet_added(subnet): when its        *)
(* network belongs to an L2P, _sync_epg_subnets (no PTGs here) and         *)
(* _manage_l2p_subnets(l2p, [subnet], []).                                 *)
ProcessSubnetAdded(s, g) ==
    /\ gw[s] = NONE /\ MayStart
    /\ gw' = [gw EXCEPT ![s] = g]
    /\ bdSubs' = IF SubnetL2p[s] \in db
                 THEN ManageL2pSubnets(SubnetL2p[s], {<<s, g>>}, {})
                 ELSE bdSubs
    /\ UNCHANGED <<db, bd, shadow, pc, read, dpc>>

(* A subnet's gateway_ip is updated, and process_subnet_changed(old, new): *)
(* _manage_l2p_subnets(l2p, [new], [old]) when the gateway changed.        *)
ProcessSubnetChanged(s, g) ==
    /\ gw[s] \notin {NONE, g} /\ MayStart
    /\ gw' = [gw EXCEPT ![s] = g]
    /\ bdSubs' = IF SubnetL2p[s] \in db
                 THEN ManageL2pSubnets(SubnetL2p[s], {<<s, g>>}, {<<s, gw[s]>>})
                 ELSE bdSubs
    /\ UNCHANGED <<db, bd, shadow, pc, read, dpc>>

(* A subnet is deleted, and process_subnet_deleted(subnet):               *)
(* _manage_l2p_subnets(l2p, [], [subnet]).                                 *)
ProcessSubnetDeleted(s) ==
    /\ gw[s] # NONE /\ MayStart
    /\ gw' = [gw EXCEPT ![s] = NONE]
    /\ bdSubs' = IF SubnetL2p[s] \in db
                 THEN ManageL2pSubnets(SubnetL2p[s], {}, {<<s, gw[s]>>})
                 ELSE bdSubs
    /\ UNCHANGED <<db, bd, shadow, pc, read, dpc>>

Init ==
    /\ db = {}
    /\ gw \in [Subnets -> Gateways \cup {NONE}]
    /\ bd = {} /\ shadow = {}
    /\ bdSubs = [l \in L2Ps |-> {}]
    /\ pc = [l \in L2Ps |-> "init"]
    /\ read = [l \in L2Ps |-> {}]
    /\ dpc = [l \in L2Ps |-> "none"]

Next ==
    \/ \E l \in L2Ps :
         \/ CreateL2Policy(l) \/ CreateL2PolicyPostcommitRead(l)
         \/ CreateL2PolicyPostcommit(l)
         \/ CompensateDeleteL2Policy(l) \/ CompensateDeleteL2PolicyPostcommit(l)
         \/ DeleteL2Policy(l) \/ DeleteL2PolicyPostcommit(l)
    \/ \E s \in Subnets, g \in Gateways :
         ProcessSubnetAdded(s, g) \/ ProcessSubnetChanged(s, g)
    \/ \E s \in Subnets : ProcessSubnetDeleted(s)

Spec == Init /\ [][Next]_vars

-----------------------------------------------------------------------------
TypeOK ==
    /\ db \subseteq L2Ps /\ bd \subseteq L2Ps /\ shadow \subseteq L2Ps
    /\ gw \in [Subnets -> Gateways \cup {NONE}]
    /\ bdSubs \in [L2Ps -> SUBSET (Subnets \X Gateways)]
    /\ read \in [L2Ps -> SUBSET (Subnets \X Gateways)]
    /\ pc \in [L2Ps -> Pcs] /\ dpc \in [L2Ps -> DPcs]

(* Whenever no request of an L2P is in flight, the APIC has its BD and    *)
(* shadow EPG exactly when the row exists, and the BD carries the gateway *)
(* of each subnet of its network and no other: the subnets the create     *)
(* postcommit read, and the hook calls since, add up to the network.       *)
BdMirrorsSubnetsWhenIdle ==
    \A l \in L2Ps : Idle(l) =>
        /\ (l \in bd) = (l \in db)
        /\ (l \in shadow) = (l \in db)
        /\ bdSubs[l] = IF l \in db THEN GatewayIps(NetSubnets(l)) ELSE {}
=============================================================================
