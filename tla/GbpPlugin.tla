------------------------------ MODULE GbpPlugin ------------------------------
(***************************************************************************)
(* GroupPolicyPlugin request handlers                                      *)
(* (src/gbpservice/neutron/services/grouppolicy/plugin.py) for the         *)
(* resources on these links of the usage graph                           *)
(*   l3_policy <- l2_policy <- policy_target_group <- policy_target        *)
(*   network_service_policy <- policy_target_group                         *)
(*   policy_classifier <- policy_rule -> policy_action                     *)
(*   policy_rule <- policy_rule_set (policy_rules), and a rule set's       *)
(*   parent_id naming another rule set                                     *)
(*   external_segment <- nat_pool                                          *)
(* Each API worker serves one request at a time.  A create or update is a  *)
(* writer transaction (read at begin, written at commit) followed by the   *)
(* postcommit driver call; a failed create postcommit is compensated by    *)
(* calling delete_<resource>.  delete_policy_target_group is the           *)
(* multi-transaction sequence of the code.  Port binding is done by Nova   *)
(* and the L2 agents, outside the plugin.                                  *)
(***************************************************************************)
EXTENDS Naturals, FiniteSets

CONSTANTS
    Tenants,    \* project ids
    Ids,        \* resource UUIDs
    KindOf,     \* [Ids -> Kinds]: the resource type a UUID names
    Workers,    \* API workers serving requests concurrently
    NONE,       \* an unset attribute / a missing row
    Isolation   \* "snapshot": REPEATABLE READ transactions may overlap;
                \* "serial": writer transactions never overlap

Kinds == {"l3_policy", "l2_policy", "policy_target_group", "policy_target",
          "network_service_policy", "policy_classifier", "policy_rule",
          "policy_action", "policy_rule_set", "external_segment", "nat_pool"}

ASSUME KindOf \in [Ids -> Kinds] /\ Isolation \in {"snapshot", "serial"}

(* usage_graph: the types each type links through its attributes         *)
(* (l3_policy_id, l2_policy_id, network_service_policy_id,                *)
(* policy_target_group_id, policy_classifier_id, policy_actions,          *)
(* policy_rules, parent_id, external_segment_id); the types without one   *)
(* are roots here.                                                         *)
Links == [l2_policy |-> {"l3_policy"},
          policy_target_group |-> {"l2_policy", "network_service_policy"},
          policy_target |-> {"policy_target_group"},
          policy_rule |-> {"policy_classifier", "policy_action"},
          policy_rule_set |-> {"policy_rule", "policy_rule_set"},
          nat_pool |-> {"external_segment"}]

LinkKinds == [k \in Kinds |-> IF k \in DOMAIN Links THEN Links[k] ELSE {}]

(* A row links one row of each linked type, except that                  *)
(* network_service_policy_id and parent_id may be None, and               *)
(* policy_actions and policy_rules are lists.                             *)
LinkShape(k, refs) ==
    \A lk \in LinkKinds[k] :
        LET n == Cardinality({x \in refs : KindOf[x] = lk}) IN
        /\ lk \notin {"network_service_policy", "policy_action",
                      "policy_rule", "policy_rule_set"} => n >= 1
        /\ lk \notin {"policy_action", "policy_rule"} => n <= 1

(* policy_target has no 'shared' attribute: primary.get('shared') is None *)
Shareable(k) == k # "policy_target"

Row == [tenant: Tenants, shared: BOOLEAN, ref: SUBSET Ids]

Pcs == {"idle", "create_tx", "create_post", "create_failed", "update_tx",
        "ptg_update", "ptg_delete_pts"}

VARIABLES
    db,      \* [Ids -> Row \cup {NONE}]: the committed rows
    bound,   \* the policy targets whose Neutron port is bound to a host
    req      \* [Workers -> request state of the worker]

vars == <<db, bound, req>>

Idle == [pc |-> "idle", id |-> NONE, row |-> NONE, comp |-> FALSE,
         pts |-> {}]

(* The resources linking id in database state d *)
Children(d, id) == {c \in Ids : d[c] # NONE /\ id \in d[c].ref}

TxOpen(w) == req[w].pc \in {"create_tx", "update_tx"}

(* A worker may open a writer transaction; under "serial" only when no    *)
(* other transaction is open.                                             *)
CanBegin(w) ==
    Isolation = "snapshot" \/ \A v \in Workers \ {w} : ~TxOpen(v)

(* _verify_sharing_consistency with is_admin False, mutated: no tenant    *)
SharingConsistentNoTenant(obj, parent) ==
    ~parent.shared => ~obj.shared

(* _verify_sharing_consistency(primary=obj, reference=parent), non-admin *)
SharingConsistent(obj, parent) ==
    ~parent.shared => (~obj.shared /\ obj.tenant = parent.tenant)

(* _validate_shared_create: every linked resource exists (else           *)
(* GbpResourceNotFound) and every link is consistent                      *)
ValidSharedCreate(obj) ==
    \A x \in obj.ref : db[x] # NONE /\ SharingConsistent(obj, db[x])

(* The linking rows _validate_<type>_unshare of id's type reads: all of   *)
(* them, except that _validate_policy_rule_set_unshare reads only the     *)
(* providing and consuming PTGs and external policies, never the child    *)
(* rule sets whose parent_id is the rule set.                             *)
UnshareChecked(id) ==
    {c \in Children(db, id) :
        ~(KindOf[id] = "policy_rule_set" /\ KindOf[c] = "policy_rule_set")}

(* _check_shared_or_different_tenant over those rows                      *)
ValidUnshare(id, obj) ==
    \A c \in UnshareChecked(id) : ~db[c].shared /\ db[c].tenant = obj.tenant

(* The UUIDs a request holds *)
Held(w) == {req[w].id} \cup req[w].pts \cup
           (IF req[w].row = NONE THEN {} ELSE req[w].row.ref)

(* A UUID no row and no request holds is as good as a newly generated one *)
Fresh(id) == db[id] = NONE /\ \A v \in Workers : id \notin Held(v)

-----------------------------------------------------------------------------
(* delete_policy_target_group, first transaction (read only): get the    *)
(* group, refuse with PolicyTargetGroupInUse when the port of one of its  *)
(* policy targets is bound, run the precommit.                            *)
PtgDeleteBegin(w, id, comp) ==
    /\ IF Children(db, id) \cap bound # {}
       THEN req' = [req EXCEPT ![w] = Idle]
       ELSE req' = [req EXCEPT ![w] = [Idle EXCEPT !.pc = "ptg_update",
                       !.id = id, !.comp = comp, !.pts = Children(db, id)]]
    /\ UNCHANGED <<db, bound>>

(* delete_<resource>, mutated: the policy target's port stays bound *)
DeleteRowKeepsPort(w, id) ==
    /\ CanBegin(w)
    /\ IF Children(db, id) = {}
       THEN db' = [db EXCEPT ![id] = NONE]
       ELSE UNCHANGED db
    /\ req' = [req EXCEPT ![w] = Idle]
    /\ UNCHANGED bound

(* delete_<resource> for the other types: one writer transaction (get,   *)
(* precommit, DB delete, which the DB layer refuses while other rows link *)
(* the row), then the postcommit, whose failure is only logged; the       *)
(* driver's postcommit deletes a policy target's port.                    *)
DeleteRow(w, id) ==
    /\ CanBegin(w)
    /\ IF Children(db, id) = {}
       THEN /\ db' = [db EXCEPT ![id] = NONE]
            /\ bound' = bound \ {id}
       ELSE UNCHANGED <<db, bound>>
    /\ req' = [req EXCEPT ![w] = Idle]

(* delete_<resource>(context, id), called by a client or as the           *)
(* compensation of a failed create (comp): get raises NotFound when the   *)
(* row is gone.                                                           *)
StartDelete(w, id, comp) ==
    \/ /\ db[id] = NONE
       /\ req' = [req EXCEPT ![w] = Idle]
       /\ UNCHANGED <<db, bound>>
    \/ /\ db[id] # NONE
       /\ KindOf[id] = "policy_target_group"
       /\ PtgDeleteBegin(w, id, comp)
    \/ /\ db[id] # NONE
       /\ KindOf[id] # "policy_target_group"
       /\ DeleteRow(w, id)

(* create_<resource>: in the writer transaction the row is built and      *)
(* _validate_shared_create reads the link; the insert happens at commit.  *)
CreateBegin(w, k) ==
    /\ req[w].pc = "idle"
    /\ CanBegin(w)
    /\ \E id \in Ids, t \in Tenants, sh \in BOOLEAN,
         refs \in SUBSET {x \in Ids : KindOf[x] \in LinkKinds[k]} :
         LET obj == [tenant |-> t, shared |-> sh, ref |-> refs] IN
         /\ KindOf[id] = k
         /\ Fresh(id)
         /\ sh => Shareable(k)
         /\ LinkShape(k, refs)
         /\ ValidSharedCreate(obj)
         /\ req' = [req EXCEPT ![w] = [Idle EXCEPT !.pc = "create_tx",
                                         !.id = id, !.row = obj]]
    /\ UNCHANGED <<db, bound>>

(* Commit of the create transaction: the foreign key on a link fails     *)
(* the insert when the linked row was deleted since the transaction read. *)
CreateCommit(w) ==
    /\ req[w].pc = "create_tx"
    /\ LET r == req[w].row IN
       IF \A x \in r.ref : db[x] # NONE
       THEN /\ db' = [db EXCEPT ![req[w].id] = r]
            /\ req' = [req EXCEPT ![w].pc = "create_post"]
       ELSE /\ req' = [req EXCEPT ![w] = Idle]
            /\ UNCHANGED db
    /\ UNCHANGED bound

(* create_<resource>_postcommit succeeds and the request returns, or it  *)
(* raises and the handler goes on to its compensation.                    *)
CreatePostcommit(w) ==
    /\ req[w].pc = "create_post"
    /\ \/ req' = [req EXCEPT ![w] = Idle]
       \/ req' = [req EXCEPT ![w].pc = "create_failed", ![w].comp = TRUE]
    /\ UNCHANGED <<db, bound>>

(* save_and_reraise_exception: delete_<resource>(context, result['id']),  *)
(* then the postcommit's exception (or the delete's) reaches the client.  *)
Compensate(w) ==
    /\ req[w].pc = "create_failed"
    /\ StartDelete(w, req[w].id, TRUE)

(* update_<resource> flipping 'shared': original = get (NotFound), then  *)
(* _validate_shared_update: _validate_shared_create(updated), and as      *)
(* 'shared' changes, _validate_<resource>_unshare.  Written at commit.    *)
UpdateBegin(w, k) ==
    /\ req[w].pc = "idle"
    /\ CanBegin(w)
    /\ \E id \in Ids :
         /\ KindOf[id] = k
         /\ db[id] # NONE
         /\ Shareable(KindOf[id])
         /\ LET upd == [db[id] EXCEPT !.shared = ~@] IN
            /\ ValidSharedCreate(upd)
            /\ ValidUnshare(id, upd)
            /\ req' = [req EXCEPT ![w] = [Idle EXCEPT !.pc = "update_tx",
                                            !.id = id, !.row = upd]]
    /\ UNCHANGED <<db, bound>>

(* Commit of the update: the UPDATE applies to the current row; a row     *)
(* deleted meanwhile fails the flush.  The postcommit has no effect on    *)
(* the modelled state.                                                    *)
UpdateCommit(w) ==
    /\ req[w].pc = "update_tx"
    /\ LET id == req[w].id IN
       IF db[id] # NONE
       THEN db' = [db EXCEPT ![id].shared = req[w].row.shared]
       ELSE UNCHANGED db
    /\ req' = [req EXCEPT ![w] = Idle]
    /\ UNCHANGED bound

(* A client calls delete_<resource> *)
DeleteRequest(w, k) ==
    /\ req[w].pc = "idle"
    /\ \E id \in Ids : KindOf[id] = k /\ db[id] # NONE /\ StartDelete(w, id, FALSE)

(* delete_policy_target_group, after its first transaction: the call to   *)
(* update_policy_target_group that clears the PRSs (NotFound, or          *)
(* _validate_shared_create failing, ends the request), then               *)
(* get_policy_targets(context, {'id': pt_ids}) reads the PTs still there. *)
PtgUpdate(w) ==
    /\ req[w].pc = "ptg_update"
    /\ CanBegin(w)
    /\ LET id == req[w].id IN
       IF db[id] # NONE /\ ValidSharedCreate(db[id])
       THEN req' = [req EXCEPT ![w].pc = "ptg_delete_pts",
                      ![w].pts = {p \in @ : db[p] # NONE}]
       ELSE req' = [req EXCEPT ![w] = Idle]
    /\ UNCHANGED <<db, bound>>

(* delete_policy_target_group: self.delete_policy_target(context, pt_id)  *)
(* for each PT read; each is its own transaction, a PT deleted meanwhile  *)
(* raises NotFound out of the group's deletion.                           *)
PtgDeletePt(w) ==
    /\ req[w].pc = "ptg_delete_pts"
    /\ CanBegin(w)
    /\ \E p \in req[w].pts :
         IF db[p] # NONE
         THEN /\ db' = [db EXCEPT ![p] = NONE]
              /\ bound' = bound \ {p}
              /\ req' = [req EXCEPT ![w].pts = @ \ {p}]
         ELSE /\ req' = [req EXCEPT ![w] = Idle]
              /\ UNCHANGED <<db, bound>>

(* delete_policy_target_group: super().delete_policy_target_group in its  *)
(* own transaction (refused while PTs link the group), then the           *)
(* postcommit, whose failure is only logged.                              *)
PtgDbDelete(w) ==
    /\ req[w].pc = "ptg_delete_pts"
    /\ req[w].pts = {}
    /\ CanBegin(w)
    /\ LET id == req[w].id IN
       IF db[id] # NONE /\ Children(db, id) = {}
       THEN db' = [db EXCEPT ![id] = NONE]
       ELSE UNCHANGED db
    /\ req' = [req EXCEPT ![w] = Idle]
    /\ UNCHANGED bound

(* Nova binds the port of a policy target to a host, or unbinds it *)
BindPort ==
    /\ \E p \in Ids :
         /\ KindOf[p] = "policy_target" /\ db[p] # NONE /\ p \notin bound
         /\ bound' = bound \cup {p}
    /\ UNCHANGED <<db, req>>

UnbindPort ==
    /\ \E p \in bound : bound' = bound \ {p}
    /\ UNCHANGED <<db, req>>

-----------------------------------------------------------------------------
(* The API operations.  Each handler of a type is the shared step above    *)
(* applied to that type; its commit, postcommit, compensation and delete   *)
(* sequence continue in the worker's request state.                        *)
CreateL3Policy(w) == CreateBegin(w, "l3_policy")
UpdateL3Policy(w) == UpdateBegin(w, "l3_policy")
DeleteL3Policy(w) == DeleteRequest(w, "l3_policy")
CreateL2Policy(w) == CreateBegin(w, "l2_policy")
UpdateL2Policy(w) == UpdateBegin(w, "l2_policy")
DeleteL2Policy(w) == DeleteRequest(w, "l2_policy")
CreatePolicyTargetGroup(w) == CreateBegin(w, "policy_target_group")
UpdatePolicyTargetGroup(w) == UpdateBegin(w, "policy_target_group")
DeletePolicyTargetGroup(w) == DeleteRequest(w, "policy_target_group")
CreatePolicyTarget(w) == CreateBegin(w, "policy_target")
DeletePolicyTarget(w) == DeleteRequest(w, "policy_target")
CreatePolicyClassifier(w) == CreateBegin(w, "policy_classifier")
UpdatePolicyClassifier(w) == UpdateBegin(w, "policy_classifier")
DeletePolicyClassifier(w) == DeleteRequest(w, "policy_classifier")
CreatePolicyRule(w) == CreateBegin(w, "policy_rule")
UpdatePolicyRule(w) == UpdateBegin(w, "policy_rule")
DeletePolicyRule(w) == DeleteRequest(w, "policy_rule")
CreateExternalSegment(w) == CreateBegin(w, "external_segment")
UpdateExternalSegment(w) == UpdateBegin(w, "external_segment")
DeleteExternalSegment(w) == DeleteRequest(w, "external_segment")
CreateNetworkServicePolicy(w) == CreateBegin(w, "network_service_policy")
UpdateNetworkServicePolicy(w) == UpdateBegin(w, "network_service_policy")
DeleteNetworkServicePolicy(w) == DeleteRequest(w, "network_service_policy")
CreatePolicyAction(w) == CreateBegin(w, "policy_action")
UpdatePolicyAction(w) == UpdateBegin(w, "policy_action")
DeletePolicyAction(w) == DeleteRequest(w, "policy_action")
CreatePolicyRuleSet(w) == CreateBegin(w, "policy_rule_set")
UpdatePolicyRuleSet(w) == UpdateBegin(w, "policy_rule_set")
DeletePolicyRuleSet(w) == DeleteRequest(w, "policy_rule_set")
CreateNatPool(w) == CreateBegin(w, "nat_pool")
UpdateNatPool(w) == UpdateBegin(w, "nat_pool")
DeleteNatPool(w) == DeleteRequest(w, "nat_pool")

Init ==
    /\ db = [id \in Ids |-> NONE]
    /\ bound = {}
    /\ req = [w \in Workers |-> Idle]

Next ==
    \/ \E w \in Workers :
         \/ CreateL3Policy(w) \/ UpdateL3Policy(w) \/ DeleteL3Policy(w)
         \/ CreateL2Policy(w) \/ UpdateL2Policy(w) \/ DeleteL2Policy(w)
         \/ CreatePolicyTargetGroup(w) \/ UpdatePolicyTargetGroup(w)
         \/ DeletePolicyTargetGroup(w)
         \/ CreatePolicyTarget(w) \/ DeletePolicyTarget(w)
         \/ CreatePolicyClassifier(w) \/ UpdatePolicyClassifier(w)
         \/ DeletePolicyClassifier(w)
         \/ CreatePolicyRule(w) \/ UpdatePolicyRule(w) \/ DeletePolicyRule(w)
         \/ CreateExternalSegment(w) \/ UpdateExternalSegment(w)
         \/ DeleteExternalSegment(w)
         \/ CreateNatPool(w) \/ UpdateNatPool(w) \/ DeleteNatPool(w)
         \/ CreateNetworkServicePolicy(w) \/ UpdateNetworkServicePolicy(w)
         \/ DeleteNetworkServicePolicy(w)
         \/ CreatePolicyAction(w) \/ UpdatePolicyAction(w)
         \/ DeletePolicyAction(w)
         \/ CreatePolicyRuleSet(w) \/ UpdatePolicyRuleSet(w)
         \/ DeletePolicyRuleSet(w)
         \/ CreateCommit(w) \/ CreatePostcommit(w) \/ Compensate(w)
         \/ UpdateCommit(w)
         \/ PtgUpdate(w) \/ PtgDeletePt(w) \/ PtgDbDelete(w)
    \/ BindPort
    \/ UnbindPort

Spec == Init /\ [][Next]_vars

-----------------------------------------------------------------------------
(* Types, and the shareable and bound-port rules of the rows *)
TypeOK ==
    /\ db \in [Ids -> Row \cup {NONE}]
    /\ \A id \in Ids : db[id] # NONE /\ db[id].shared => Shareable(KindOf[id])
    /\ bound \subseteq {p \in Ids : KindOf[p] = "policy_target" /\ db[p] # NONE}
    /\ \A w \in Workers : req[w].pc \in Pcs /\ req[w].pts \subseteq Ids

(* plugin.py lines 86-89: a shared resource never links a non-shared one, *)
(* and a non-shared resource is only linked by resources of its own       *)
(* tenant.  Kept jointly by _validate_shared_create on create/update and  *)
(* _validate_<resource>_unshare on the linked resource.                  *)
SharingConsistency ==
    \A c, p \in Ids :
        db[c] # NONE /\ db[p] # NONE /\ p \in db[c].ref /\ ~db[p].shared
            => ~db[c].shared /\ db[c].tenant = db[p].tenant

(* When a create whose postcommit failed has run its compensating         *)
(* delete_<resource>, the row is gone: the client, which gets the error,  *)
(* never finds the resource in the database.                              *)
FailedCreateRolledBack ==
    [][\A w \in Workers :
         (req[w].comp /\ req'[w].pc = "idle") => db'[req[w].id] = NONE]_vars

(* delete_policy_target_group deletes only policy targets whose port is  *)
(* not bound ("Delete the PTG's PTs, which should not be in-use").        *)
PtgDeleteSparesBoundTargets ==
    [][\A w \in Workers : \A p \in req[w].pts :
         (req[w].pc = "ptg_delete_pts" /\ db[p] # NONE /\ db'[p] = NONE
            /\ p \notin req'[w].pts) => p \notin bound]_vars

=============================================================================
