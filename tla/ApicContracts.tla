----------------------------- MODULE ApicContracts -----------------------------
(***************************************************************************)
(* How the APIC mapping driver (apic_mapping.py) mirrors policy target    *)
(* groups and external policies, with the policy rule sets they provide   *)
(* and consume, onto APIC EPGs and external EPGs.  A GBP request commits  *)
(* its writer transaction (plugin.py) and runs the driver's postcommit    *)
(* after it, outside the transaction; the postcommit applies to APIC the  *)
(* difference between the request's original and current resource.       *)
(* Postcommits of requests in flight at once run in any order.  APIC      *)
(* objects are records of the contracts related to them; Managed are the  *)
(* external segments apic_manager.ext_net_dict knows.  Policy rules map   *)
(* to APIC filters (a reverse one when the classifier has a port range)   *)
(* and rule sets to contracts whose subject lists the rules' filters in   *)
(* the directions of their classifiers; a classifier is the direction and *)
(* port range a rule's policy_classifier_id gives it.                     *)
(***************************************************************************)
EXTENDS Naturals, FiniteSets

CONSTANTS
    PTGs, EPs,        \* policy target groups, external policies
    Prs,              \* policy rule sets (contracts)
    Rules,            \* policy rules
    Segs,             \* external segments
    Managed,          \* the segments with an entry in ext_net_dict
    MaxInFlight,      \* bound on the requests committed whose postcommit has not run
    NONE

ASSUME Managed \subseteq Segs /\ MaxInFlight \in Nat \ {0}

(* The provided and consumed rule sets of a PTG, and of an EPG *)
Contracts == [prov : SUBSET Prs, cons : SUBSET Prs]
EpRecs == [segs : SUBSET Segs, prov : SUBSET Prs, cons : SUBSET Prs]
NoContracts == [prov |-> {}, cons |-> {}]

(* GP_DIRECTION_IN, GP_DIRECTION_OUT, GP_DIRECTION_BI *)
Dirs == {"in", "out", "bi"}
Classifiers == [dir : Dirs, ranged : BOOLEAN]

(* A rule's filter, and the reverse filter (REVERSE_PREFIX) *)
FilterKinds == {"fwd", "rev"}
Subjects == [in : SUBSET (Rules \X FilterKinds), out : SUBSET (Rules \X FilterKinds)]

VARIABLES
    ptg,       \* [PTGs -> Contracts \cup {NONE}]: the DB rows
    ep,        \* [EPs -> EpRecs \cup {NONE}]
    epg,       \* [PTGs -> Contracts \cup {NONE}]: the APIC EPGs
    extEpg,    \* [EPs -> [Segs -> Contracts \cup {NONE}]]: the external EPGs
    rule,      \* [Rules -> Classifiers \cup {NONE}]: policy rule rows
    prs,       \* [Prs -> SUBSET Rules \cup {NONE}]: rule set rows, their policy_rules
    filters,   \* [Rules -> SUBSET FilterKinds]: the tenant filters on APIC
    contract,  \* [Prs -> Subjects \cup {NONE}]: the contracts on APIC
    pending    \* postcommits still to run

vars == <<ptg, ep, epg, extEpg, rule, prs, filters, contract, pending>>
db == <<ptg, ep, rule, prs>>
apic == <<epg, extEpg, filters, contract>>

-----------------------------------------------------------------------------
(* set_contract_for_epg / unset_contract_for_epg, as one application of  *)
(* the added and removed provided and consumed sets                        *)
SetContracts(c, addP, addC, remP, remC) ==
    [prov |-> (c.prov \ remP) \cup addP, cons |-> (c.cons \ remC) \cup addC]

(* A relation written under an object that is not on APIC: whether APIC  *)
(* creates the parent or drops the relation is up to apicapi and APIC,    *)
(* so either may happen.                                                  *)
Relate(c, addP, addC, remP, remC) ==
    IF c # NONE THEN {SetContracts(c, addP, addC, remP, remC)}
    ELSE {NONE, SetContracts(NoContracts, addP, addC, remP, remC)}

(* ensure_epg_created / ensure_external_epg_created keep what exists *)
Ensure(c) == IF c = NONE THEN NoContracts ELSE c

(* _manage_ptg_policy_rule_sets(ptg, added_provided, added_consumed,     *)
(* removed_provided, removed_consumed)                                     *)
ManagePtgPolicyRuleSets(c, orig, cur) ==
    Relate(c, cur.prov \ orig.prov, cur.cons \ orig.cons,
              orig.prov \ cur.prov, orig.cons \ cur.cons)

(* _manage_ep_policy_rule_sets(es, ep, added_provided, added_consumed,  *)
(* removed_provided, removed_consumed) on one segment's external EPG      *)
ManageEpPolicyRuleSets(c, orig, cur) ==
    Relate(c, cur.prov \ orig.prov, cur.cons \ orig.cons,
              orig.prov \ cur.prov, orig.cons \ cur.cons)

(* _plug_externa_policy_to_segment: on each segment ext_net_dict knows   *)
(* (others are skipped with a warning), the external EPG is ensured and   *)
(* the given rule sets set on it.                                          *)
PlugExternalPolicyToSegment(x, segs, prov, cons) ==
    [s \in Segs |-> IF s \in segs \cap Managed
                    THEN SetContracts(Ensure(extEpg[x][s]), prov, cons, {}, {})
                    ELSE extEpg[x][s]]

(* _unplug_external_policy_from_segment: ensure_external_epg_deleted on  *)
(* each managed segment                                                    *)
UnplugExternalPolicyFromSegment(x, segs) ==
    [s \in Segs |-> IF s \in segs \cap Managed THEN NONE ELSE extEpg[x][s]]

(* create_policy_rule_postcommit for an allow action: the rule's filter,  *)
(* and the reverse filter (sToPort / sFromPort) when the classifier has a *)
(* port range                                                             *)
RuleFilters(c) == {"fwd"} \cup (IF c.ranged THEN {"rev"} ELSE {})

(* _manage_policy_rule_set_rules: for each rule, read with the classifier *)
(* its policy_classifier_id names now, an in-direction (bi or in) rule's  *)
(* filter goes in the subject's in-filters and its reverse filter in the  *)
(* out-filters; an out-direction (bi or out) rule the other way round.     *)
ManagePolicyRuleSetRules(rules) ==
    LET inDir  == {q \in rules : rule[q].dir \in {"bi", "in"}}
        outDir == {q \in rules : rule[q].dir \in {"bi", "out"}}
    IN [in  |-> {<<r, "fwd">> : r \in inDir}
                \cup {<<r, "rev">> : r \in {q \in outDir : rule[q].ranged}},
        out |-> {<<r, "fwd">> : r \in outDir}
                \cup {<<r, "rev">> : r \in {q \in inDir : rule[q].ranged}}]

(* A request commits: the new row, and its postcommit queued with the    *)
(* original and current resource of its context.                          *)
Commit(kind, obj, orig, cur) ==
    /\ Cardinality(pending) < MaxInFlight
    /\ pending' = pending \cup {[kind |-> kind, obj |-> obj, orig |-> orig, cur |-> cur]}

CreatePolicyTargetGroup(g) ==
    /\ ptg[g] = NONE
    /\ \E c \in Contracts :
         /\ ptg' = [ptg EXCEPT ![g] = c]
         /\ Commit("create", g, NoContracts, c)
    /\ UNCHANGED <<ep, rule, prs, apic>>

UpdatePolicyTargetGroup(g) ==
    /\ ptg[g] # NONE
    /\ \E c \in Contracts \ {ptg[g]} :
         /\ ptg' = [ptg EXCEPT ![g] = c]
         /\ Commit("update", g, ptg[g], c)
    /\ UNCHANGED <<ep, rule, prs, apic>>

DeletePolicyTargetGroup(g) ==
    /\ ptg[g] # NONE
    /\ ptg' = [ptg EXCEPT ![g] = NONE]
    /\ Commit("delete", g, ptg[g], ptg[g])
    /\ UNCHANGED <<ep, rule, prs, apic>>

CreateExternalPolicy(x) ==
    /\ ep[x] = NONE
    /\ \E r \in EpRecs :
         /\ ep' = [ep EXCEPT ![x] = r]
         /\ Commit("create", x, [segs |-> {}, prov |-> {}, cons |-> {}], r)
    /\ UNCHANGED <<ptg, rule, prs, apic>>

UpdateExternalPolicy(x) ==
    /\ ep[x] # NONE
    /\ \E r \in EpRecs \ {ep[x]} :
         /\ ep' = [ep EXCEPT ![x] = r]
         /\ Commit("update", x, ep[x], r)
    /\ UNCHANGED <<ptg, rule, prs, apic>>

DeleteExternalPolicy(x) ==
    /\ ep[x] # NONE
    /\ ep' = [ep EXCEPT ![x] = NONE]
    /\ Commit("delete", x, ep[x], ep[x])
    /\ UNCHANGED <<ptg, rule, prs, apic>>

(* create_policy_rule: the row with its classifier *)
CreatePolicyRule(r) ==
    /\ rule[r] = NONE
    /\ \E c \in Classifiers :
         /\ rule' = [rule EXCEPT ![r] = c]
         /\ Commit("create", r, c, c)
    /\ UNCHANGED <<ptg, ep, prs, apic>>

(* update_policy_rule: another classifier.  update_policy_rule_precommit *)
(* is pass: PolicyRuleUpdateNotSupportedOnApicDriver is never raised.    *)
UpdatePolicyRule(r) ==
    /\ rule[r] # NONE
    /\ \E c \in Classifiers \ {rule[r]} :
         /\ rule' = [rule EXCEPT ![r] = c]
         /\ Commit("update", r, rule[r], c)
    /\ UNCHANGED <<ptg, ep, prs, apic>>

(* delete_policy_rule, of a rule no rule set lists: the GBP database     *)
(* layer, not part of this repository, owns the check for rules in use. *)
DeletePolicyRule(r) ==
    /\ rule[r] # NONE
    /\ \A p \in Prs : prs[p] # NONE => r \notin prs[p]
    /\ rule' = [rule EXCEPT ![r] = NONE]
    /\ Commit("delete", r, rule[r], rule[r])
    /\ UNCHANGED <<ptg, ep, prs, apic>>

(* create_policy_rule_set over existing rules; precommit is pass *)
CreatePolicyRuleSet(p) ==
    /\ prs[p] = NONE
    /\ \E rs \in SUBSET {r \in Rules : rule[r] # NONE} :
         /\ prs' = [prs EXCEPT ![p] = rs]
         /\ Commit("create", p, [rules |-> rs], [rules |-> rs])
    /\ UNCHANGED <<ptg, ep, rule, apic>>

(* delete_policy_rule_set: one writer transaction, the postcommit after *)
DeletePolicyRuleSet(p) ==
    /\ prs[p] # NONE
    /\ prs' = [prs EXCEPT ![p] = NONE]
    /\ Commit("delete", p, [rules |-> prs[p]], [rules |-> prs[p]])
    /\ UNCHANGED <<ptg, ep, rule, apic>>

-----------------------------------------------------------------------------
(* A postcommit has run *)
Done(req) ==
    /\ pending' = pending \ {req}
    /\ UNCHANGED db

(* create_policy_target_group_postcommit: ensure_epg_created, then the   *)
(* current rule sets set on it                                             *)
CreatePtgPostcommit(req) ==
    /\ req.kind = "create" /\ req.obj \in PTGs
    /\ epg' = [epg EXCEPT ![req.obj] =
                 SetContracts(Ensure(@), req.cur.prov, req.cur.cons, {}, {})]
    /\ UNCHANGED <<extEpg, filters, contract>>
    /\ Done(req)

(* update_policy_target_group_postcommit: the rule sets added and removed *)
(* between context.original and context.current                           *)
UpdatePtgPostcommit(req) ==
    /\ req.kind = "update" /\ req.obj \in PTGs
    /\ \E c \in ManagePtgPolicyRuleSets(epg[req.obj], req.orig, req.cur) :
         epg' = [epg EXCEPT ![req.obj] = c]
    /\ UNCHANGED <<extEpg, filters, contract>>
    /\ Done(req)

(* delete_policy_target_group_postcommit: delete_epg_for_network *)
DeletePtgPostcommit(req) ==
    /\ req.kind = "delete" /\ req.obj \in PTGs
    /\ epg' = [epg EXCEPT ![req.obj] = NONE]
    /\ UNCHANGED <<extEpg, filters, contract>>
    /\ Done(req)

(* create_external_policy_postcommit plugs the policy into its segments *)
CreateEpPostcommit(req) ==
    /\ req.kind = "create" /\ req.obj \in EPs
    /\ extEpg' = [extEpg EXCEPT ![req.obj] =
                    PlugExternalPolicyToSegment(req.obj, req.cur.segs,
                                                req.cur.prov, req.cur.cons)]
    /\ UNCHANGED <<epg, filters, contract>>
    /\ Done(req)

(* update_external_policy_postcommit, for one segment: removed segments  *)
(* are unplugged, added ones plugged with the current rule sets, and on  *)
(* the others (delta_segments, whether ext_net_dict knows them or not)    *)
(* the rule sets added and removed are applied.                           *)
EpSegmentAfterUpdate(x, orig, cur, s) ==
    LET added == cur.segs \ orig.segs
        removed == orig.segs \ cur.segs
    IN IF s \in removed \cap Managed THEN {NONE}
       ELSE IF s \in added \cap Managed
       THEN {SetContracts(Ensure(extEpg[x][s]), cur.prov, cur.cons, {}, {})}
       ELSE IF s \in cur.segs \ added
       THEN ManageEpPolicyRuleSets(extEpg[x][s], orig, cur)
       ELSE {extEpg[x][s]}

UpdateEpPostcommit(req) ==
    /\ req.kind = "update" /\ req.obj \in EPs
    /\ \E f \in [Segs -> Contracts \cup {NONE}] :
         /\ \A s \in Segs : f[s] \in EpSegmentAfterUpdate(req.obj, req.orig, req.cur, s)
         /\ extEpg' = [extEpg EXCEPT ![req.obj] = f]
    /\ UNCHANGED <<epg, filters, contract>>
    /\ Done(req)

(* delete_external_policy_postcommit unplugs it from all its segments *)
DeleteEpPostcommit(req) ==
    /\ req.kind = "delete" /\ req.obj \in EPs
    /\ extEpg' = [extEpg EXCEPT ![req.obj] =
                    UnplugExternalPolicyFromSegment(req.obj, req.cur.segs)]
    /\ UNCHANGED <<epg, filters, contract>>
    /\ Done(req)

(* create_policy_rule_postcommit: the filter and reverse filter *)
CreateRulePostcommit(req) ==
    /\ req.kind = "create" /\ req.obj \in Rules
    /\ filters' = [filters EXCEPT ![req.obj] = RuleFilters(req.cur)]
    /\ UNCHANGED <<epg, extEpg, contract>>
    /\ Done(req)

(* update_policy_rule_postcommit: delete_policy_rule_postcommit, then    *)
(* create_policy_rule_postcommit; the contract subjects of the rule sets *)
(* listing the rule are left as they are.                                *)
UpdateRulePostcommit(req) ==
    /\ req.kind = "update" /\ req.obj \in Rules
    /\ filters' = [filters EXCEPT ![req.obj] = RuleFilters(req.cur)]
    /\ UNCHANGED <<epg, extEpg, contract>>
    /\ Done(req)

(* delete_policy_rule_postcommit: delete_tenant_filter, both names *)
DeleteRulePostcommit(req) ==
    /\ req.kind = "delete" /\ req.obj \in Rules
    /\ filters' = [filters EXCEPT ![req.obj] = {}]
    /\ UNCHANGED <<epg, extEpg, contract>>
    /\ Done(req)

(* create_policy_rule_set_postcommit: create_contract, then                 *)
(* _apply_policy_rule_set_rules on the rules get_policy_rules finds now     *)
(* (rule sets have no parent here)                                          *)
CreatePrsPostcommit(req) ==
    /\ req.kind = "create" /\ req.obj \in Prs
    /\ contract' = [contract EXCEPT ![req.obj] =
          ManagePolicyRuleSetRules({r \in req.cur.rules : rule[r] # NONE})]
    /\ UNCHANGED <<epg, extEpg, filters>>
    /\ Done(req)

(* delete_policy_rule_set_postcommit: delete_contract *)
DeletePrsPostcommit(req) ==
    /\ req.kind = "delete" /\ req.obj \in Prs
    /\ contract' = [contract EXCEPT ![req.obj] = NONE]
    /\ UNCHANGED <<epg, extEpg, filters>>
    /\ Done(req)

-----------------------------------------------------------------------------
Init ==
    /\ ptg = [g \in PTGs |-> NONE]
    /\ ep = [x \in EPs |-> NONE]
    /\ epg = [g \in PTGs |-> NONE]
    /\ extEpg = [x \in EPs |-> [s \in Segs |-> NONE]]
    /\ rule = [r \in Rules |-> NONE]
    /\ prs = [p \in Prs |-> NONE]
    /\ filters = [r \in Rules |-> {}]
    /\ contract = [p \in Prs |-> NONE]
    /\ pending = {}

Postcommit(req) ==
    \/ CreatePtgPostcommit(req) \/ UpdatePtgPostcommit(req) \/ DeletePtgPostcommit(req)
    \/ CreateEpPostcommit(req) \/ UpdateEpPostcommit(req) \/ DeleteEpPostcommit(req)
    \/ CreateRulePostcommit(req) \/ UpdateRulePostcommit(req) \/ DeleteRulePostcommit(req)
    \/ CreatePrsPostcommit(req) \/ DeletePrsPostcommit(req)

Next ==
    \/ \E g \in PTGs :
         \/ CreatePolicyTargetGroup(g) \/ UpdatePolicyTargetGroup(g)
         \/ DeletePolicyTargetGroup(g)
    \/ \E x \in EPs :
         \/ CreateExternalPolicy(x) \/ UpdateExternalPolicy(x)
         \/ DeleteExternalPolicy(x)
    \/ \E r \in Rules :
         \/ CreatePolicyRule(r) \/ UpdatePolicyRule(r) \/ DeletePolicyRule(r)
    \/ \E p \in Prs : CreatePolicyRuleSet(p) \/ DeletePolicyRuleSet(p)
    \/ \E req \in pending : Postcommit(req)

Spec == Init /\ [][Next]_vars

-----------------------------------------------------------------------------
TypeOK ==
    /\ \A g \in PTGs : ptg[g] \in Contracts \cup {NONE} /\ epg[g] \in Contracts \cup {NONE}
    /\ \A x \in EPs : ep[x] \in EpRecs \cup {NONE}
    /\ \A x \in EPs, s \in Segs :
         extEpg[x][s] \in Contracts \cup {NONE}
    /\ \A r \in Rules : rule[r] \in Classifiers \cup {NONE} /\ filters[r] \subseteq FilterKinds
    /\ \A p \in Prs : prs[p] \in SUBSET Rules \cup {NONE} /\ contract[p] \in Subjects \cup {NONE}

(* The contracts an external policy's EPG on a segment should have *)
ExpectedExtEpg(x, s) ==
    IF ep[x] # NONE /\ s \in ep[x].segs
    THEN [prov |-> ep[x].prov, cons |-> ep[x].cons] ELSE NONE

(* Once every postcommit has run, APIC has an EPG for each PTG with its  *)
(* provided and consumed rule sets, none for a deleted one, and for each  *)
(* external policy an external EPG on each of its managed segments with   *)
(* its rule sets: the diffs the update postcommits apply add up to the   *)
(* database's state.                                                       *)
ApicMirrorsDbWhenIdle ==
    pending = {} =>
      /\ \A g \in PTGs : epg[g] = ptg[g]
      /\ \A x \in EPs, s \in Managed : extEpg[x][s] = ExpectedExtEpg(x, s)

(* Once every postcommit has run, each rule set's contract subject is     *)
(* what _manage_policy_rule_set_rules gives for the rules' classifiers now, *)
(* and every filter it names is on APIC: a rule's classifier may change    *)
(* direction or port range after a rule set lists it, and the contract    *)
(* must follow (PolicyRuleUpdateNotSupportedOnApicDriver exists for the   *)
(* case the driver cannot follow).                                         *)
SubjectsMatchRulesWhenIdle ==
    pending = {} =>
      \A p \in Prs : prs[p] # NONE =>
          /\ contract[p] = ManagePolicyRuleSetRules(prs[p])
          /\ \A x \in contract[p].in \cup contract[p].out : x[2] \in filters[x[1]]
====
