-------------------------- MODULE Ml2PlusAddressScope --------------------------
(***************************************************************************)
(* Ml2PlusPlugin.create_address_scope and delete_address_scope             *)
(* (src/gbpservice/neutron/plugins/ml2plus/plugin.py) with the apic_aim    *)
(* extension driver's process_create_address_scope                         *)
(* (.../drivers/apic_aim/extension_driver.py), which maps a scope created  *)
(* with a VRF DN onto that VRF.  A create is a writer transaction (the     *)
(* scope row, the extension's check of the VRF's mappings and its mapping  *)
(* insert, the precommit), then the postcommit; a MechanismDriverError in  *)
(* the postcommit is compensated by delete_address_scope.  Under           *)
(* REPEATABLE READ the extension reads the mappings on the transaction's   *)
(* snapshot and the rows are written at commit.                            *)
(***************************************************************************)
EXTENDS Naturals

CONSTANTS
    Scopes,     \* address scope UUIDs
    Vrfs,       \* VRF DNs that VRF.from_dn parses
    BadDn,      \* a DN that VRF.from_dn refuses
    Workers,    \* API workers
    NONE,
    Isolation   \* "snapshot" or "serial", as in GbpPlugin

IpVersions == {4, 6}

ASSUME BadDn \notin Vrfs /\ Isolation \in {"snapshot", "serial"}

Mapping == [vrf: Vrfs, owned: BOOLEAN]

VARIABLES
    scope,      \* [Scopes -> ip_version \cup {NONE}]: address scope rows
    mapping,    \* [Scopes -> Mapping \cup {NONE}]: the scopes' VRF mappings
    req         \* [Workers -> request state]

vars == <<scope, mapping, req>>

Idle == [pc |-> "idle", id |-> NONE, ver |-> NONE, map |-> NONE]

TxOpen(w) == req[w].pc = "create_tx"

CanBegin(w) ==
    Isolation = "snapshot" \/ \A v \in Workers \ {w} : ~TxOpen(v)

Fresh(id) == scope[id] = NONE /\ \A v \in Workers : req[v].id # id

(* _get_address_scope_mappings_for_vrf: the mappings onto vrf *)
MappingsForVrf(vrf) ==
    {s \in Scopes : mapping[s] # NONE /\ mapping[s].vrf = vrf}

(* process_create_address_scope, when a VRF DN is given: the mappings of *)
(* the VRF are read and one of the same ip_version refuses the create;   *)
(* vrf_owned is taken from the last mapping read (False when none).       *)
(* Returns the mapping to add, or NONE for InvalidInput.                  *)
ProcessCreateAddressScope(vrf, ver) ==
    LET ms == MappingsForVrf(vrf) IN
    IF \E s \in ms : scope[s] = ver THEN NONE
    ELSE [vrf |-> vrf,
          owned |-> IF ms = {} THEN FALSE
                    ELSE mapping[CHOOSE s \in ms : TRUE].owned]

(* create_address_scope: _ensure_tenant, then the writer transaction.    *)
(* Without a DN the extension adds no mapping; a DN VRF.from_dn refuses  *)
(* or a VRF already in use for the version raises InvalidInput, which    *)
(* rolls the transaction back.                                            *)
CreateAddressScope(w) ==
    /\ req[w].pc = "idle"
    /\ CanBegin(w)
    /\ \E id \in Scopes, ver \in IpVersions, dn \in Vrfs \cup {BadDn, NONE} :
         /\ Fresh(id)
         /\ \/ /\ dn = NONE
               /\ req' = [req EXCEPT ![w] = [pc |-> "create_tx", id |-> id,
                                             ver |-> ver, map |-> NONE]]
            \/ /\ dn = BadDn
               /\ UNCHANGED req
            \/ /\ dn \in Vrfs
               /\ LET m == ProcessCreateAddressScope(dn, ver) IN
                  IF m = NONE THEN UNCHANGED req
                  ELSE req' = [req EXCEPT ![w] = [pc |-> "create_tx",
                                   id |-> id, ver |-> ver, map |-> m]]
    /\ UNCHANGED <<scope, mapping>>

(* Commit: the scope row and its mapping (_add_address_scope_mapping)    *)
(* are inserted together; no unique key spans a VRF and a version.        *)
CreateCommit(w) ==
    /\ req[w].pc = "create_tx"
    /\ scope' = [scope EXCEPT ![req[w].id] = req[w].ver]
    /\ mapping' = [mapping EXCEPT ![req[w].id] = req[w].map]
    /\ req' = [req EXCEPT ![w].pc = "create_post"]

(* create_address_scope_postcommit returns, or raises                    *)
(* MechanismDriverError and the handler deletes the scope                *)
CreatePostcommit(w) ==
    /\ req[w].pc = "create_post"
    /\ \/ req' = [req EXCEPT ![w] = Idle]
       \/ req' = [req EXCEPT ![w].pc = "create_failed"]
    /\ UNCHANGED <<scope, mapping>>

(* delete_address_scope(context, id): one writer transaction (get, which *)
(* raises NotFound for a gone scope; delete precommit, in which the      *)
(* mechanism driver drops the scope's mapping; the DB delete), then the  *)
(* postcommit.  Serving the compensation or a client's request.          *)
DeleteScope(w, id) ==
    /\ CanBegin(w)
    /\ IF scope[id] # NONE
       THEN /\ scope' = [scope EXCEPT ![id] = NONE]
            /\ mapping' = [mapping EXCEPT ![id] = NONE]
       ELSE UNCHANGED <<scope, mapping>>
    /\ req' = [req EXCEPT ![w] = Idle]

Compensate(w) ==
    /\ req[w].pc = "create_failed"
    /\ DeleteScope(w, req[w].id)

DeleteAddressScope(w) ==
    /\ req[w].pc = "idle"
    /\ \E id \in Scopes : scope[id] # NONE /\ DeleteScope(w, id)

Init ==
    /\ scope = [s \in Scopes |-> NONE]
    /\ mapping = [s \in Scopes |-> NONE]
    /\ req = [w \in Workers |-> Idle]

Next ==
    \E w \in Workers :
        \/ CreateAddressScope(w) \/ CreateCommit(w) \/ CreatePostcommit(w)
        \/ Compensate(w) \/ DeleteAddressScope(w)

Spec == Init /\ [][Next]_vars

-----------------------------------------------------------------------------
TypeOK ==
    /\ scope \in [Scopes -> IpVersions \cup {NONE}]
    /\ mapping \in [Scopes -> Mapping \cup {NONE}]
    /\ \A s \in Scopes : mapping[s] # NONE => scope[s] # NONE

(* extension_driver.py lines 322-332: "Check if another address scope    *)
(* already maps to this VRF": a VRF carries at most one address scope of *)
(* each IP version, the other create failing with 'VRF ... is already in *)
(* use by address-scope ...'.                                             *)
VrfUniquePerVersion ==
    \A s, t \in Scopes :
        /\ s # t /\ mapping[s] # NONE /\ mapping[t] # NONE
        /\ mapping[s].vrf = mapping[t].vrf
        => scope[s] # scope[t]
=============================================================================
