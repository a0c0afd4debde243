---------------------------- MODULE MC_GbpPlugin ----------------------------
(* One UUID per resource type of the links, two API workers; the cfgs   *)
(* give one or two tenants.                                              *)
EXTENDS GbpPlugin, FiniteSets, TLC

CONSTANTS l3p, l2p, ptg, pt, nsp, pc, pr, pa, prs, prs2, es, np

KindOfUuid == (l3p :> "l3_policy") @@ (l2p :> "l2_policy")
              @@ (ptg :> "policy_target_group") @@ (pt :> "policy_target")
              @@ (pc :> "policy_classifier") @@ (pr :> "policy_rule")
              @@ (nsp :> "network_service_policy") @@ (pa :> "policy_action")
              @@ (prs :> "policy_rule_set") @@ (prs2 :> "policy_rule_set")
              @@ (es :> "external_segment") @@ (np :> "nat_pool")

MCKindOf == [id \in Ids |-> KindOfUuid[id]]

(* Bound on the rows committed or being inserted at once: the chains are  *)
(* independent, and four rows hold the whole l3_policy chain.            *)
MaxLiveRows == 4

(* The rows committed or being inserted *)
LiveIds ==
    {id \in Ids : db[id] # NONE}
    \cup {req[w].id : w \in {v \in Workers : req[v].pc = "create_tx"}}

LiveRowsBound == Cardinality(LiveIds) <= MaxLiveRows

(* The link chains: no link joins two of them, so a state with rows of   *)
(* two chains only interleaves steps that share no row.                   *)
Chains == {{l3p, l2p, ptg, pt, nsp}, {pc, pr, pa, prs, prs2}, {es, np}}

(* LiveRowsBound, with the live rows all in one chain *)
OneChainLive ==
    LiveRowsBound /\ \E ch \in Chains : LiveIds \subseteq ch

(* Tenants are only compared for equality. *)
TenantSymmetry == Permutations(Tenants)

(* Nor are API workers, and no property names one. *)
WorkerSymmetry == Permutations(Tenants) \cup Permutations(Workers)
=============================================================================
