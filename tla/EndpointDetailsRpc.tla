--------------------------- MODULE EndpointDetailsRpc ---------------------------
(***************************************************************************)
(* The request_endpoint_details RPC handler of the apic_aim mechanism      *)
(* driver (rpc.py request_endpoint_details and _request_endpoint_details) *)
(* serving opflex agents, against the port-binding changes Nova and ML2    *)
(* make at the same time.  The handler loops: a read-only transaction      *)
(* queries the port's binding rows; an unbound port is bound outside the   *)
(* transaction by ML2's get_bound_port_context and the query is retried.   *)
(* The endpoint's device names its port by an id prefix, so a device can   *)
(* match several ports; a port in live migration has a second (inactive)   *)
(* binding row for the destination host.                                   *)
(***************************************************************************)
EXTENDS Naturals, FiniteSets

CONSTANTS
    Ports,       \* port UUIDs
    Hosts,       \* compute hosts
    Devices,     \* device names agents ask about
    MatchOf,     \* [Devices -> SUBSET Ports]: ports whose id starts with it
    Agents,      \* opflex agents, one request in flight each
    AgentHost,   \* [Agents -> Hosts]
    MaxChanges,  \* bound on the binding changes made by Nova and ML2 users
    NONE

ASSUME /\ MatchOf \in [Devices -> SUBSET Ports]
       /\ AgentHost \in [Agents -> Hosts]
       /\ MaxChanges \in Nat

(* portbindings.VIF_TYPE_UNBOUND, VIF_TYPE_BINDING_FAILED and a bound type *)
VifTypes == {"unbound", "binding_failed", "ovs"}
Bound == {"ovs"}

(* The ml2_port_bindings state of a port: the active binding's host and   *)
(* vif_type, and the destination host of a live migration (NONE if none). *)
Binding == [host : Hosts \cup {NONE}, vif : VifTypes, dest : Hosts \cup {NONE}]

(* What the agent gets back: "none" (request_endpoint_details returns     *)
(* None), "empty" (the response without neutron_details), "error" (the    *)
(* {'device': device} of the exception handler) or "details".            *)
Replies == {"none", "empty", "error", "details"}

VARIABLES
    binding,   \* [Ports -> Binding \cup {NONE}], NONE for a deleted port
    req,       \* [Agents -> request state of the agent's handler]
    reply,     \* [Agents -> the last reply: kind and the port it describes]
    changes    \* binding changes made so far by the environment

vars == <<binding, req, reply, changes>>

Idle == [pc |-> "idle", dev |-> NONE, port |-> NONE]

-----------------------------------------------------------------------------
(* The rows of _query_endpoint_port_info for a port: PortBinding is outer *)
(* joined, one row per binding, the active one and a migration's inactive *)
(* one (bound on the destination host).                                   *)
PortRows(p) ==
    LET b == binding[p] IN
    {[port |-> p, host |-> b.host, vif |-> b.vif]}
    \cup {[port |-> p, host |-> h, vif |-> "ovs"] : h \in {b.dest} \ {NONE}}

(* _query_endpoint_port_info(session, port_id): Port.id.startswith(port_id) *)
Rows(dev) ==
    UNION {PortRows(p) : p \in {q \in MatchOf[dev] : binding[q] # NONE}}

(* Several rows: keep those whose host is the requesting host *)
Selected(rows, h) ==
    IF Cardinality(rows) > 1 THEN {r \in rows : r.host = h} ELSE rows

(* Mutated: the bound row's host is not compared with the requester's *)
QueryResultNoHostCheck(dev, h) ==
    LET rows == Rows(dev)
        sel == Selected(rows, h)
        info == CHOOSE r \in sel : TRUE
    IN IF rows = {} \/ Cardinality(sel) > 1 THEN "empty"
       ELSE IF sel = {} THEN "error"
       ELSE IF info.vif \notin Bound THEN "bind"
       ELSE "details"

(* The outcome of one pass of the read-only transaction of the loop: no  *)
(* row, or several rows on this host, return the bare response;           *)
(* port_infos[0] of an emptied list raises; an unbound port goes to       *)
(* binding; a port bound elsewhere returns the bare response; otherwise   *)
(* the queries run and the loop is left.                                  *)
QueryResult(dev, h) ==
    LET rows == Rows(dev)
        sel == Selected(rows, h)
        info == CHOOSE r \in sel : TRUE
    IN IF rows = {} \/ Cardinality(sel) > 1 THEN "empty"
       ELSE IF sel = {} THEN "error"
       ELSE IF info.vif \notin Bound THEN "bind"
       ELSE IF info.host # h THEN "empty"
       ELSE "details"

(* The port whose row the query kept *)
InfoPort(dev, h) == (CHOOSE r \in Selected(Rows(dev), h) : TRUE).port

(* The handler returns to the agent *)
Reply(a, kind, port) ==
    /\ req' = [req EXCEPT ![a] = Idle]
    /\ reply' = [reply EXCEPT ![a] = [kind |-> kind, port |-> port]]

-----------------------------------------------------------------------------
(* Mutated: the missing-device early return is dropped *)
RequestNoDeviceCheck(a) ==
    /\ req[a].pc = "idle"
    /\ \E dev \in Devices \cup {NONE} :
         /\ req' = [req EXCEPT ![a] = [pc |-> "query", dev |-> dev, port |-> NONE]]
         /\ UNCHANGED reply
    /\ UNCHANGED <<binding, changes>>

(* request_endpoint_details: a request without a device returns None;    *)
(* otherwise _request_endpoint_details starts its loop.                   *)
Request(a) ==
    /\ req[a].pc = "idle"
    /\ \E dev \in Devices \cup {NONE} :
         IF dev = NONE THEN Reply(a, "none", NONE)
         ELSE /\ req' = [req EXCEPT ![a] = [pc |-> "query", dev |-> dev,
                                             port |-> NONE]]
              /\ UNCHANGED reply
    /\ UNCHANGED <<binding, changes>>

(* One pass of the loop's read-only transaction *)
Query(a) ==
    /\ req[a].pc = "query"
    /\ LET dev == req[a].dev
           h == AgentHost[a]
           res == QueryResult(dev, h)
       IN CASE res \in {"empty", "error"} -> Reply(a, res, NONE)
            [] res = "bind" ->
                 /\ req' = [req EXCEPT ![a].pc = "bind"]
                 /\ UNCHANGED reply
            [] res = "details" ->
                 /\ req' = [req EXCEPT ![a].pc = "build",
                                       ![a].port = InfoPort(dev, h)]
                 /\ UNCHANGED reply
    /\ UNCHANGED <<binding, changes>>

(* ML2's _bind_port_if_needed binds only a port that has a host and is   *)
(* unbound or failed; the mechanism drivers may fail to bind it.          *)
BindOutcomes(b) ==
    IF b.host # NONE /\ b.vif \notin Bound THEN {"ovs", "binding_failed"}
    ELSE {b.vif}

BindOutside(a) ==
    /\ req[a].pc = "bind"
    /\ LET m == {p \in MatchOf[req[a].dev] : binding[p] # NONE} IN
       IF Cardinality(m) # 1
       THEN Reply(a, "error", NONE) /\ UNCHANGED binding
       ELSE LET p == CHOOSE q \in m : TRUE IN
            \E v \in BindOutcomes(binding[p]) :
              /\ binding' = [binding EXCEPT ![p].vif = v]
              /\ IF v \in Bound
                 THEN req' = [req EXCEPT ![a].pc = "query"] /\ UNCHANGED reply
                 ELSE Reply(a, "empty", NONE)
    /\ UNCHANGED changes

(* After the loop: the neutron, GBP and trunk details are built from the  *)
(* rows read and the response carries them.                               *)
Build(a) ==
    /\ req[a].pc = "build"
    /\ Reply(a, "details", req[a].port)
    /\ UNCHANGED <<binding, changes>>

-----------------------------------------------------------------------------
(* The environment: Nova and users create, delete, (re)bind and migrate   *)
(* ports, MaxChanges times at most.                                       *)
Change(p, b) ==
    /\ changes < MaxChanges
    /\ binding' = [binding EXCEPT ![p] = b]
    /\ changes' = changes + 1
    /\ UNCHANGED <<req, reply>>

CreatePort(p) ==
    binding[p] = NONE /\ Change(p, [host |-> NONE, vif |-> "unbound", dest |-> NONE])

DeletePort(p) == binding[p] # NONE /\ Change(p, NONE)

(* update_port setting binding:host_id: ML2 binds at once and may fail;  *)
(* clearing the host unbinds.                                             *)
SetHost(p) ==
    /\ binding[p] # NONE /\ binding[p].dest = NONE
    /\ \E h \in Hosts \cup {NONE} :
         \E v \in IF h = NONE THEN {"unbound"} ELSE {"ovs", "binding_failed"} :
           Change(p, [host |-> h, vif |-> v, dest |-> NONE])

(* Live migration: an inactive binding for the destination host, then    *)
(* activated or removed.                                                  *)
MigrateStart(p) ==
    /\ binding[p] # NONE /\ binding[p].dest = NONE
    /\ binding[p].host # NONE /\ binding[p].vif \in Bound
    /\ \E h \in Hosts \ {binding[p].host} :
         Change(p, [binding[p] EXCEPT !.dest = h])

MigrateEnd(p) ==
    /\ binding[p] # NONE /\ binding[p].dest # NONE
    /\ \/ Change(p, [host |-> binding[p].dest, vif |-> "ovs", dest |-> NONE])
       \/ Change(p, [binding[p] EXCEPT !.dest = NONE])

(* A binding state ML2 can hold *)
WellFormed(b) ==
    b = NONE \/ /\ b.host = NONE => b.vif = "unbound" /\ b.dest = NONE
                /\ b.dest # NONE => b.vif \in Bound /\ b.dest # b.host

Init ==
    /\ binding \in {f \in [Ports -> Binding \cup {NONE}] :
                      \A p \in Ports : WellFormed(f[p])}
    /\ req = [a \in Agents |-> Idle]
    /\ reply = [a \in Agents |-> [kind |-> "none", port |-> NONE]]
    /\ changes = 0

Handler(a) == Query(a) \/ BindOutside(a) \/ Build(a)

Next ==
    \/ \E a \in Agents : Request(a) \/ Handler(a)
    \/ \E p \in Ports : CreatePort(p) \/ DeletePort(p) \/ SetHost(p)
                        \/ MigrateStart(p) \/ MigrateEnd(p)

(* The handler runs in an RPC worker greenthread that is scheduled until *)
(* it returns; agents and the environment are not obliged to act.        *)
Fairness == \A a \in Agents : WF_vars(Handler(a))

Spec == Init /\ [][Next]_vars /\ Fairness

-----------------------------------------------------------------------------
(* Types, and a request in flight names a device *)
TypeOK ==
    /\ \A p \in Ports : binding[p] \in Binding \cup {NONE} /\ WellFormed(binding[p])
    /\ \A a \in Agents :
         /\ req[a].pc \in {"idle", "query", "bind", "build"}
         /\ req[a].pc # "idle" => req[a].dev \in Devices
         /\ reply[a].kind \in Replies
    /\ changes \in 0..MaxChanges

(* The handler leaves its loop with details only for a port that, in the  *)
(* snapshot it read, has a bound binding row on the requesting agent's    *)
(* host and is the only port of the device with a row there.              *)
DetailsOnlyForRequestingHost ==
    [][\A a \in Agents :
         (req[a].pc = "query" /\ req'[a].pc = "build") =>
           LET p == req'[a].port
               h == AgentHost[a]
           IN /\ binding[p] # NONE
              /\ \/ binding[p].host = h /\ binding[p].vif \in Bound
                 \/ binding[p].dest = h
              /\ \A q \in MatchOf[req[a].dev] \ {p} :
                   binding[q] = NONE \/ h \notin {binding[q].host, binding[q].dest}
      ]_vars

ReplyCarriesRequestId == \A a \in Agents : reply[a].kind # "error"
=============================================================================
