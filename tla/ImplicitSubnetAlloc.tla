------------------------- MODULE ImplicitSubnetAlloc -------------------------
(***************************************************************************)
(* What the implicit subnet allocation of the APIC mapping driver promises *)
(* (the docstring of _use_implicit_subnet: "The first PTG of a given BD    *)
(* will allocate a new subnet from the L3P.  Any subsequent PTG in the     *)
(* same BD will use the same subnet"), with each PTG's postcommit one      *)
(* atomic step:                                                            *)
(*   - a PTG whose network already has subnets takes them;                 *)
(*   - the first PTG of an L2P puts one pool CIDR the network does not     *)
(*     have on it, and every PTG of the L2P gets the network's subnets;    *)
(*   - a PTG gives up (NoSubnetAvailable) only for an L2P with no implicit *)
(*     subnet and only when every CIDR of the pool is on some network of   *)
(*     the L3P.                                                            *)
(* Nothing is promised about CIDRs of the other L2Ps' networks.  Subnets   *)
(* created on a network directly are the environment, as in               *)
(* ImplicitSubnet, which is checked to implement this specification.       *)
(***************************************************************************)
EXTENDS Naturals, Sequences

CONSTANTS L2Ps, PTGs, PtgL2p, Pool, MaxUserSubnets, NONE

Cidrs == {Pool[i] : i \in 1..Len(Pool)}

VARIABLES netSubs, implicit, ptgSubs, pc, userSubs

avars == <<netSubs, implicit, ptgSubs, pc, userSubs>>

(* The L2P's PTGs that exist get subs added to their subnets *)
Synced(l, subs) ==
    [g \in PTGs |-> IF PtgL2p[g] = l /\ ptgSubs[g] # NONE
                    THEN ptgSubs[g] \cup subs ELSE ptgSubs[g]]

(* The CIDRs on some network of the L3P *)
InUse == UNION {netSubs[l] : l \in L2Ps}

CreatePtg(g) ==
    /\ pc[g] = "init"
    /\ pc' = [pc EXCEPT ![g] = "wait"]
    /\ ptgSubs' = [ptgSubs EXCEPT ![g] = {}]
    /\ UNCHANGED <<netSubs, implicit, userSubs>>

JoinSubnets(g) ==
    /\ pc[g] = "wait" /\ netSubs[PtgL2p[g]] # {}
    /\ ptgSubs' = [ptgSubs EXCEPT ![g] = @ \cup netSubs[PtgL2p[g]]]
    /\ pc' = [pc EXCEPT ![g] = "done"]
    /\ UNCHANGED <<netSubs, implicit, userSubs>>

Allocate(g, c) ==
    LET l == PtgL2p[g] IN
    /\ pc[g] = "wait" /\ implicit[l] = {}
    /\ c \in Cidrs \ netSubs[l]
    /\ netSubs' = [netSubs EXCEPT ![l] = @ \cup {c}]
    /\ implicit' = [implicit EXCEPT ![l] = {c}]
    /\ ptgSubs' = [Synced(l, netSubs[l] \cup {c}) EXCEPT ![g] = @ \cup {c}]
    /\ pc' = [pc EXCEPT ![g] = "done"]
    /\ UNCHANGED userSubs

GiveUp(g) ==
    /\ pc[g] = "wait" /\ implicit[PtgL2p[g]] = {}
    /\ Cidrs \subseteq InUse
    /\ ptgSubs' = [ptgSubs EXCEPT ![g] = NONE]
    /\ pc' = [pc EXCEPT ![g] = "failed"]
    /\ UNCHANGED <<netSubs, implicit, userSubs>>

UserSubnet(l, c) ==
    /\ userSubs < MaxUserSubnets /\ c \notin netSubs[l]
    /\ netSubs' = [netSubs EXCEPT ![l] = @ \cup {c}]
    /\ ptgSubs' = Synced(l, netSubs[l] \cup {c})
    /\ userSubs' = userSubs + 1
    /\ UNCHANGED <<implicit, pc>>

AInit ==
    /\ netSubs = [l \in L2Ps |-> {}] /\ implicit = [l \in L2Ps |-> {}]
    /\ ptgSubs = [g \in PTGs |-> NONE] /\ pc = [g \in PTGs |-> "init"]
    /\ userSubs = 0

(* A PTG's postcommit, as one step *)
Settle(g) == JoinSubnets(g) \/ (\E c \in Cidrs : Allocate(g, c)) \/ GiveUp(g)

ANext ==
    \/ \E g \in PTGs : CreatePtg(g) \/ Settle(g)
    \/ \E l \in L2Ps, c \in Cidrs : UserSubnet(l, c)

(* Every PTG's postcommit that can settle does *)
AllocSpec == AInit /\ [][ANext]_avars /\ \A g \in PTGs : WF_avars(Settle(g))
=============================================================================
