------------------------- MODULE ProjectDetailsCache -------------------------
(***************************************************************************)
(* ProjectDetailsCache (src/gbpservice/neutron/plugins/ml2plus/drivers/    *)
(* apic_aim/cache.py): the per-process map from Keystone project ID to the *)
(* project's (name, description), read by the apic_aim drivers.  API       *)
(* workers call ensure_project(project_id) before their transactions       *)
(* (Ml2PlusPlugin._ensure_tenant -> mechanism_manager.ensure_tenant); the  *)
(* Keystone notification listener calls update_project_details on every   *)
(* project update.  Each Keystone call is an HTTP request during which the *)
(* green thread yields, so a call is split into the request and the use of *)
(* its answer.  Keystone itself changes projects at any time.              *)
(***************************************************************************)
EXTENDS Naturals

CONSTANTS
    Projects,     \* project IDs
    Details,      \* (name, description) pairs
    Workers,      \* API worker green threads calling ensure_project
    NONE,
    MaxChanges    \* bound on the project updates Keystone makes

VARIABLES
    keystone,     \* [Projects -> Details \cup {NONE}]: Keystone's projects
    changes,      \* project updates made so far
    notified,     \* projects with an update notification not yet handled
    details,      \* [Projects -> Details \cup {NONE}]: self.project_details
    client,       \* self.keystone # None
    wk,           \* [Workers -> API worker state]
    ls            \* notification listener state

vars == <<keystone, changes, notified, details, client, wk, ls>>

WIdle == [pc |-> "idle", listed |-> NONE]
LIdle == [pc |-> "idle", p |-> NONE]

(* _get_keystone_client, called when self.keystone is None *)
GetKeystoneClient == client' = TRUE

(* ensure_project(project_id): a project already cached returns at once; *)
(* otherwise load_projects (getting the client first) sends               *)
(* keystone.projects.list().                                             *)
EnsureProject(w) ==
    /\ wk[w].pc = "idle"
    /\ \E p \in Projects :
         IF details[p] # NONE
         THEN UNCHANGED <<wk, client>>
         ELSE /\ wk' = [wk EXCEPT ![w].pc = "listing"]
              /\ IF client THEN UNCHANGED client ELSE GetKeystoneClient
    /\ UNCHANGED <<keystone, changes, notified, details, ls>>

(* Keystone answers the list with the projects it has now *)
ProjectsList(w) ==
    /\ wk[w].pc = "listing"
    /\ wk' = [wk EXCEPT ![w] = [pc |-> "storing", listed |-> keystone]]
    /\ UNCHANGED <<keystone, changes, notified, details, client, ls>>

(* load_projects: for project in projects: self.project_details[project.id] *)
(* = (project.name, project.description); entries are only added or       *)
(* overwritten, never removed.                                            *)
LoadProjects(w) ==
    /\ wk[w].pc = "storing"
    /\ LET l == wk[w].listed IN
       details' = [p \in Projects |-> IF l[p] # NONE THEN l[p] ELSE details[p]]
    /\ wk' = [wk EXCEPT ![w] = WIdle]
    /\ UNCHANGED <<keystone, changes, notified, client, ls>>

(* update_project_details(project_id) for a notified project: the client *)
(* is got if missing, and keystone.projects.get(project_id) is sent.      *)
UpdateProjectDetails ==
    /\ ls.pc = "idle"
    /\ \E p \in notified :
         /\ notified' = notified \ {p}
         /\ ls' = [LIdle EXCEPT !.pc = "getting", !.p = p]
    /\ IF client THEN UNCHANGED client ELSE GetKeystoneClient
    /\ UNCHANGED <<keystone, changes, details, wk>>

(* The answer of projects.get: a deleted project raises NotFound out of  *)
(* update_project_details; otherwise the cached details, or ('', '') for *)
(* a project not cached, are compared with the answer and replaced when  *)
(* they differ.                                                          *)
ProjectsGet ==
    /\ ls.pc = "getting"
    /\ LET got == keystone[ls.p] IN
       IF got # NONE /\ details[ls.p] # got
       THEN details' = [details EXCEPT ![ls.p] = got]
       ELSE UNCHANGED details
    /\ ls' = LIdle
    /\ UNCHANGED <<keystone, changes, notified, client, wk>>

(* purge_gbp(project_id): the clients are got when self.gbp is None      *)
(* (always so without the GBP aim_mapping driver), and the purge request  *)
(* deletes the project's resources through the GBP or Neutron API; the    *)
(* cache is left alone.                                                   *)
PurgeGbp ==
    /\ ls.pc = "idle"
    /\ GetKeystoneClient
    /\ UNCHANGED <<keystone, changes, notified, details, wk, ls>>

(* Keystone creates, renames or deletes a project and notifies the update *)
KeystoneUpdate ==
    /\ changes < MaxChanges
    /\ \E p \in Projects, d \in Details \cup {NONE} :
         /\ keystone[p] # d
         /\ keystone' = [keystone EXCEPT ![p] = d]
         /\ notified' = notified \cup {p}
    /\ changes' = changes + 1
    /\ UNCHANGED <<details, client, wk, ls>>

(* The projects Keystone has when neutron-server starts *)
InitialProjects == {k \in [Projects -> Details \cup {NONE}] :
                      \E p \in Projects : k[p] # NONE}

Init ==
    /\ keystone \in InitialProjects
    /\ changes = 0
    /\ notified = {}
    /\ details = [p \in Projects |-> NONE]
    /\ client = FALSE
    /\ wk = [w \in Workers |-> WIdle]
    /\ ls = LIdle

Next ==
    \/ \E w \in Workers : EnsureProject(w) \/ ProjectsList(w) \/ LoadProjects(w)
    \/ UpdateProjectDetails \/ ProjectsGet \/ PurgeGbp
    \/ KeystoneUpdate

Spec == Init /\ [][Next]_vars

-----------------------------------------------------------------------------
TypeOK ==
    /\ keystone \in [Projects -> Details \cup {NONE}]
    /\ details \in [Projects -> Details \cup {NONE}]
    /\ notified \subseteq Projects /\ changes \in 0..MaxChanges
    /\ client \in BOOLEAN
    /\ \A w \in Workers : wk[w].pc \in {"idle", "listing", "storing"}
    /\ ls.pc \in {"idle", "getting"}

(* update_project_details exists to keep the cache equal to Keystone: "If *)
(* the value in cache doesn't match values in keystone, update the cache". *)
(* Once every notification is handled and no call is under way, the       *)
(* cached details of every project Keystone has are Keystone's.           *)
Quiet == notified = {} /\ ls.pc = "idle" /\ \A w \in Workers : wk[w].pc = "idle"

CacheMatchesKeystoneWhenQuiet ==
    Quiet => \A p \in Projects :
                 keystone[p] # NONE /\ details[p] # NONE => details[p] = keystone[p]
=============================================================================
