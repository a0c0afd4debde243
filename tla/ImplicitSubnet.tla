---------------------------- MODULE ImplicitSubnet ----------------------------
(***************************************************************************)
(* Implicit subnet allocation of the APIC mapping driver                   *)
(* (apic_mapping.py _use_implicit_subnet, _internal_use_implicit_subnet,   *)
(* _sync_epg_subnets, process_subnet_added).  The L2Ps all belong to one  *)
(* L3P, whose ip_pool is cut into the CIDRs of Pool, in the order          *)
(* pool.subnet(prefix) yields them; CIDRs of one prefix length overlap     *)
(* only when equal.  Each PTG create runs its postcommit in its own       *)
(* request: under the external lock named after its L2P it reads the      *)
(* network's subnets, reuses them, or walks Pool for a CIDR no PTG of the  *)
(* L3P uses and creates a subnet with it.  The core plugin refuses a       *)
(* subnet overlapping one of the same network (BadRequest); subnets       *)
(* created on the network directly are the environment.                   *)
(***************************************************************************)
EXTENDS Naturals, Sequences, FiniteSets

CONSTANTS
    L2Ps,            \* the L2Ps of the L3P, each with its own network
    PTGs,            \* the PTGs that get created
    PtgL2p,          \* [PTGs -> L2Ps]: l2_policy_id of each PTG
    Pool,            \* the pool's CIDRs, in allocation order
    MaxUserSubnets,  \* bound on subnets created on the networks directly
    NONE

Cidrs == {Pool[i] : i \in 1..Len(Pool)}

ASSUME PtgL2p \in [PTGs -> L2Ps] /\ MaxUserSubnets \in Nat

VARIABLES
    netSubs,    \* [L2Ps -> SUBSET Cidrs]: subnets of the L2P's network
    implicit,   \* [L2Ps -> SUBSET Cidrs]: those _internal_use_implicit_subnet made
    ptgSubs,    \* [PTGs -> SUBSET Cidrs \cup {NONE}]: a PTG's subnets, NONE if no PTG
    lock,       \* [L2Ps -> PTGs \cup {NONE}]: holder of lockutils.lock(l2p_id)
    pc,         \* [PTGs -> {"init","wait","scan","done","failed"}]
    seen,       \* [PTGs -> SUBSET Cidrs]: the PTG subnets read for the overlap check
    idx,        \* [PTGs -> Nat]: position in pool.subnet(...)
    userSubs    \* subnets created directly so far

vars == <<netSubs, implicit, ptgSubs, lock, pc, seen, idx, userSubs>>

-----------------------------------------------------------------------------
(* _get_l2p_subnets: the subnets of the L2P's network *)
L2pSubnets(l) == netSubs[l]

(* Mutated: the new subnet is not synced to the L2P's PTGs *)
SyncEpgSubnetsSkipped(l, subs) == ptgSubs

(* _sync_epg_subnets(l2p), run by process_subnet_added: every PTG of the  *)
(* L2P gets every subnet of its network.                                  *)
SyncEpgSubnets(l, subs) ==
    [g \in PTGs |-> IF PtgL2p[g] = l /\ ptgSubs[g] # NONE
                    THEN ptgSubs[g] \cup subs ELSE ptgSubs[g]]

(* The subnets of the PTGs of all the L2Ps of the L3P *)
L3pPtgSubnets == UNION {ptgSubs[g] : g \in {h \in PTGs : ptgSubs[h] # NONE}}

(* create_policy_target_group: the PTG row commits with no subnets (the  *)
(* precommit refuses explicit ones); its postcommit is pending.          *)
CreatePtg(g) ==
    /\ pc[g] = "init"
    /\ pc' = [pc EXCEPT ![g] = "wait"]
    /\ ptgSubs' = [ptgSubs EXCEPT ![g] = {}]
    /\ UNCHANGED <<netSubs, implicit, lock, seen, idx, userSubs>>

(* Mutated: the lock is taken whether or not another request holds it *)
UseImplicitSubnetUnlocked(g) ==
    LET l == PtgL2p[g] IN
    /\ pc[g] = "wait"
    /\ IF netSubs[l] # {}
       THEN /\ ptgSubs' = [ptgSubs EXCEPT ![g] = @ \cup netSubs[l]]
            /\ pc' = [pc EXCEPT ![g] = "done"]
            /\ UNCHANGED <<lock, seen, idx>>
       ELSE /\ lock' = [lock EXCEPT ![l] = g]
            /\ seen' = [seen EXCEPT ![g] = L3pPtgSubnets]
            /\ idx' = [idx EXCEPT ![g] = 1]
            /\ pc' = [pc EXCEPT ![g] = "scan"]
            /\ UNCHANGED ptgSubs
    /\ UNCHANGED <<netSubs, implicit, userSubs>>

(* _use_implicit_subnet (force_add is never set): under the L2P's lock,  *)
(* the network's subnets are added to the PTG if there are any; else     *)
(* _internal_use_implicit_subnet reads the subnets of the L3P's PTGs and *)
(* starts on the pool.                                                    *)
UseImplicitSubnet(g) ==
    LET l == PtgL2p[g] IN
    /\ pc[g] = "wait"
    /\ lock[l] = NONE
    /\ IF L2pSubnets(l) # {}
       THEN /\ ptgSubs' = [ptgSubs EXCEPT ![g] = @ \cup L2pSubnets(l)]
            /\ pc' = [pc EXCEPT ![g] = "done"]
            /\ UNCHANGED <<lock, seen, idx>>
       ELSE /\ lock' = [lock EXCEPT ![l] = g]
            /\ seen' = [seen EXCEPT ![g] = L3pPtgSubnets]
            /\ idx' = [idx EXCEPT ![g] = 1]
            /\ pc' = [pc EXCEPT ![g] = "scan"]
            /\ UNCHANGED ptgSubs
    /\ UNCHANGED <<netSubs, implicit, userSubs>>

(* _validate_subnet_overlap_for_l3p refuses the CIDR: try the next one *)
SkipOverlapping(g) ==
    /\ pc[g] = "scan" /\ idx[g] <= Len(Pool)
    /\ Pool[idx[g]] \in seen[g]
    /\ idx' = [idx EXCEPT ![g] = @ + 1]
    /\ UNCHANGED <<netSubs, implicit, ptgSubs, lock, pc, seen, userSubs>>


(* _create_subnet raises BadRequest (overlap inside the network): the    *)
(* exception is swallowed and the next CIDR tried.                        *)
CreateSubnetRefused(g) ==
    /\ pc[g] = "scan" /\ idx[g] <= Len(Pool)
    /\ Pool[idx[g]] \notin seen[g]
    /\ Pool[idx[g]] \in netSubs[PtgL2p[g]]
    /\ idx' = [idx EXCEPT ![g] = @ + 1]
    /\ UNCHANGED <<netSubs, implicit, ptgSubs, lock, pc, seen, userSubs>>

(* _create_subnet succeeds: the subnet is on the network, the core       *)
(* plugin's notification syncs it to the L2P's PTGs (the requesting one  *)
(* included, whose list also gets it appended), the lock is released.    *)
CreateSubnet(g) ==
    LET l == PtgL2p[g]
        c == Pool[idx[g]]
        subs == netSubs[l] \cup {c}
    IN /\ pc[g] = "scan" /\ idx[g] <= Len(Pool)
       /\ c \notin seen[g] \cup netSubs[l]
       /\ netSubs' = [netSubs EXCEPT ![l] = subs]
       /\ implicit' = [implicit EXCEPT ![l] = @ \cup {c}]
       /\ ptgSubs' = [SyncEpgSubnets(l, subs) EXCEPT ![g] = @ \cup {c}]
       /\ lock' = [lock EXCEPT ![l] = NONE]
       /\ pc' = [pc EXCEPT ![g] = "done"]
       /\ UNCHANGED <<seen, idx, userSubs>>

(* Mutated: the lock is left held when the pool is exhausted *)
NoSubnetAvailableKeepingLock(g) ==
    /\ pc[g] = "scan" /\ idx[g] > Len(Pool)
    /\ ptgSubs' = [ptgSubs EXCEPT ![g] = NONE]
    /\ pc' = [pc EXCEPT ![g] = "failed"]
    /\ UNCHANGED <<netSubs, implicit, lock, seen, idx, userSubs>>


(* The pool is exhausted: NoSubnetAvailable leaves the with-block, which *)
(* releases the lock, and the failed postcommit makes the plugin delete   *)
(* the PTG.                                                                *)
NoSubnetAvailable(g) ==
    /\ pc[g] = "scan" /\ idx[g] > Len(Pool)
    /\ ptgSubs' = [ptgSubs EXCEPT ![g] = NONE]
    /\ lock' = [lock EXCEPT ![PtgL2p[g]] = NONE]
    /\ pc' = [pc EXCEPT ![g] = "failed"]
    /\ UNCHANGED <<netSubs, implicit, seen, idx, userSubs>>

(* A subnet created on an L2P's network through the core API:           *)
(* process_subnet_added syncs it to the L2P's PTGs.                      *)
CreateUserSubnet(l, c) ==
    /\ userSubs < MaxUserSubnets
    /\ c \notin netSubs[l]
    /\ netSubs' = [netSubs EXCEPT ![l] = @ \cup {c}]
    /\ ptgSubs' = SyncEpgSubnets(l, netSubs[l] \cup {c})
    /\ userSubs' = userSubs + 1
    /\ UNCHANGED <<implicit, lock, pc, seen, idx>>

-----------------------------------------------------------------------------
Init ==
    /\ netSubs = [l \in L2Ps |-> {}]
    /\ implicit = [l \in L2Ps |-> {}]
    /\ ptgSubs = [g \in PTGs |-> NONE]
    /\ lock = [l \in L2Ps |-> NONE]
    /\ pc = [g \in PTGs |-> "init"]
    /\ seen = [g \in PTGs |-> {}]
    /\ idx = [g \in PTGs |-> 0]
    /\ userSubs = 0

(* The steps of one PTG's postcommit *)
Postcommit(g) ==
    \/ UseImplicitSubnet(g)
    \/ SkipOverlapping(g)
    \/ CreateSubnetRefused(g)
    \/ CreateSubnet(g)
    \/ NoSubnetAvailable(g)

Next ==
    \/ \E g \in PTGs : CreatePtg(g) \/ Postcommit(g)
    \/ \E l \in L2Ps, c \in Cidrs : CreateUserSubnet(l, c)

(* A postcommit runs to completion in its request thread, and a lock     *)
(* holder always reaches the end of its with-block.                       *)
Fairness == \A g \in PTGs : WF_vars(Postcommit(g))

Spec == Init /\ [][Next]_vars /\ Fairness

-----------------------------------------------------------------------------
(* Types, and a lock is held only by a PTG of its L2P that is scanning *)
TypeOK ==
    /\ \A l \in L2Ps : implicit[l] \subseteq netSubs[l] /\ netSubs[l] \subseteq Cidrs
    /\ \A g \in PTGs : ptgSubs[g] = NONE \/ ptgSubs[g] \subseteq Cidrs
    /\ pc \in [PTGs -> {"init", "wait", "scan", "done", "failed"}]
    /\ \A l \in L2Ps : lock[l] # NONE =>
         PtgL2p[lock[l]] = l /\ pc[lock[l]] = "scan"
    /\ userSubs <= MaxUserSubnets


(* A PTG whose postcommit finished has exactly the subnets of its L2P's  *)
(* network, whichever request or API call created them.                  *)
PtgHasL2pSubnets ==
    \A g \in PTGs : pc[g] = "done" => ptgSubs[g] = netSubs[PtgL2p[g]]


(* The check of _internal_use_implicit_subnet: no two L2Ps of one L3P    *)
(* (one VRF) get overlapping subnets.                                    *)
NoOverlapInL3p ==
    \A l1, l2 \in L2Ps : l1 # l2 => netSubs[l1] \cap netSubs[l2] = {}

-----------------------------------------------------------------------------
(* The refinement mapping: a PTG scanning the pool under the L2P's lock   *)
(* has not settled yet; the lock, the overlap list read and the pool      *)
(* position are hidden.                                                   *)
AbsPc == [g \in PTGs |-> IF pc[g] = "scan" THEN "wait" ELSE pc[g]]

Alloc == INSTANCE ImplicitSubnetAlloc WITH pc <- AbsPc

(* The per-L2P lock makes each postcommit of _use_implicit_subnet one     *)
(* atomic allocation (ImplicitSubnetAlloc): the first PTG of an L2P puts  *)
(* one new pool CIDR on its network, a later one takes the network's      *)
(* subnets, NoSubnetAvailable is raised only when every pool CIDR is on   *)
(* some network of the L3P, and every postcommit settles.                 *)
ImplementsAlloc == Alloc!AllocSpec
====
