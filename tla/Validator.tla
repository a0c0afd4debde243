------------------------------ MODULE Validator ------------------------------
(***************************************************************************)
(* The AIM validation / repair engine behind                               *)
(* GroupPolicyPlugin.validate_state and its CLI                            *)
(* (src/gbpservice/tools/validate/cli.py).  ValidationManager is not part  *)
(* of this repository: the compare / repair / re-compare pass follows the  *)
(* contract of spec.md sections 4 and 6 and of the helpers of              *)
(* test_aim_validation.py.  Each physical (AIM) object is derived from at  *)
(* most one logical resource; the fabric-management layer and operators   *)
(* change physical objects between passes.                                *)
(***************************************************************************)
EXTENDS Naturals, FiniteSets

CONSTANTS
    Objects,      \* physical objects
    Expected,     \* the objects some logical resource derives
    Monitored,    \* objects owned by something other than the engine
    BindingObjs,  \* port bindings whose repair replays a bind
    Unsupported,  \* resource types the comparator always fails
    TypeOf,       \* [Objects -> ResourceTypes]
    TenantOf,     \* [Objects -> Tenants]
    ResourceTypes,
    Tenants,
    NONE

ASSUME /\ Expected \subseteq Objects /\ Monitored \subseteq Objects
       /\ BindingObjs \subseteq Expected \ Monitored
       /\ TypeOf \in [Objects -> ResourceTypes]
       /\ TenantOf \in [Objects -> Tenants]

(* Outcomes, as the VALIDATION_* constants of group_policy_driver_api *)
Outcomes == {"PASSED", "REPAIRED", "FAILED_REPAIRABLE",
             "FAILED_UNREPAIRABLE", "FAILED_BINDING_PORTS",
             "FAILED_WITH_EXCEPTION"}

(* The state of a physical object: "drift" is a present object whose      *)
(* tracked attributes differ from the derivation.                         *)
PhysStates == {"absent", "ok", "drift"}

VARIABLES
    phys,        \* [Objects -> PhysStates]
    pc,          \* "idle", "repair" or "recompare"
    repair,      \* the --repair option of the pass
    resources,   \* the --resources option ({} is every type)
    tenants,     \* the --tenants option ({} is every tenant)
    todo,        \* objects the repair phase still has to repair
    bindFailed,  \* a replayed bind failed in this pass
    outcome,     \* the result of the last pass, NONE before the first
    exitCode,    \* the CLI's exit status for the last pass
    touched      \* a physical object changed since the last pass began

vars == <<phys, pc, repair, resources, tenants, todo, bindFailed, outcome,
          exitCode, touched>>
engine == <<pc, repair, resources, tenants, todo, bindFailed, outcome,
            exitCode>>

(* Scoping by the --resources (rs) and --tenants (ts) filters *)
InScopeOf(o, rs, ts) ==
    /\ rs = {} \/ TypeOf[o] \in rs
    /\ ts = {} \/ TenantOf[o] \in ts

InScope(o) == InScopeOf(o, resources, tenants)

(* StateComparator: Missing for an absent derived object, AttributeDrift  *)
(* for a drifted one unless it is monitored (tolerated), ExtraUnexpected   *)
(* for a present object nothing derives unless it is monitored             *)
(* (MonitoredExtra, tolerated).                                            *)
Diverged(o) ==
    IF o \in Expected
    THEN phys[o] = "absent" \/ (phys[o] = "drift" /\ o \notin Monitored)
    ELSE phys[o] # "absent" /\ o \notin Monitored

Scoped == {o \in Objects : InScope(o)}

(* The repair queue, mutated: the scope filters are forgotten *)
RepairQueueUnscoped(rs, ts) ==
    {o \in Objects : Diverged(o) /\ TypeOf[o] \notin Unsupported}

(* The objects a repair pass over the scope (rs, ts) queues: the          *)
(* diverged ones of a supported type                                      *)
RepairQueue(rs, ts) ==
    {o \in Objects : InScopeOf(o, rs, ts) /\ Diverged(o)
                     /\ TypeOf[o] \notin Unsupported}

(* The in-scope objects of a type the comparator does not model *)
UnsupportedInScope == {o \in Scoped : TypeOf[o] \in Unsupported}

(* RepairExecutor's result for one object: create or update an expected  *)
(* object, delete an unexpected one.                                      *)
Repaired(o) == IF o \in Expected THEN "ok" ELSE "absent"

ApplyRepair(o) ==
    IF o \in Monitored /\ phys[o] # "absent" THEN phys[o] ELSE Repaired(o)

(* CLI main(): sys.exit(result) for the three listed failures, which     *)
(* exits with a non-zero status, else return 0                            *)
CliExit(result) ==
    IF result \in {"FAILED_REPAIRABLE", "FAILED_UNREPAIRABLE",
                   "FAILED_WITH_EXCEPTION"}
    THEN 1 ELSE 0

(* The pass ends: the result goes back through validate_state to main() *)
Finish(result) ==
    /\ pc' = "idle"
    /\ outcome' = result
    /\ exitCode' = CliExit(result)
    /\ todo' = {}

(* The states an object can be in: an object nothing derives is present  *)
(* or absent.                                                             *)
Allowed(o) == IF o \in Expected THEN PhysStates ELSE {"absent", "ok"}

-----------------------------------------------------------------------------
(* main() calls validate_state(repair, resources, tenants): pass 1        *)
(* compares the scoped objects.  A provider error ends the pass with      *)
(* FAILED_WITH_EXCEPTION; no divergence gives PASSED; a dry run reports   *)
(* the dominant failure; with --repair the repairable objects are queued. *)
Validate ==
    /\ pc = "idle"
    /\ \E rep \in BOOLEAN, rs \in SUBSET ResourceTypes, ts \in SUBSET Tenants :
         LET sc == {o \in Objects : InScopeOf(o, rs, ts)}
             d == {o \in sc : Diverged(o)}
             u == {o \in sc : TypeOf[o] \in Unsupported}
         IN /\ repair' = rep /\ resources' = rs /\ tenants' = ts
            /\ \/ Finish("FAILED_WITH_EXCEPTION")
               \/ d = {} /\ u = {} /\ Finish("PASSED")
               \/ /\ d \cup u # {} /\ ~rep
                  /\ Finish(IF u # {} THEN "FAILED_UNREPAIRABLE"
                                    ELSE "FAILED_REPAIRABLE")
               \/ /\ d \cup u # {} /\ rep
                  /\ pc' = "repair" /\ todo' = RepairQueue(rs, ts)
                  /\ UNCHANGED <<outcome, exitCode>>
    /\ bindFailed' = FALSE
    /\ touched' = FALSE
    /\ UNCHANGED phys

(* RepairExecutor, one object at a time; a failure is recorded and the    *)
(* batch goes on.  Replaying the bind of a port binding may fail.         *)
RepairOne ==
    /\ pc = "repair"
    /\ \E o \in todo :
         /\ todo' = todo \ {o}
         /\ \/ /\ phys' = [phys EXCEPT ![o] = ApplyRepair(o)]
               /\ UNCHANGED bindFailed
            \/ /\ o \in BindingObjs
               /\ bindFailed' = TRUE
               /\ UNCHANGED phys
    /\ UNCHANGED <<pc, repair, resources, tenants, outcome, exitCode, touched>>

(* Re-compare after repair, mutated: a failed bind replay is not reported *)
RecompareIgnoringBinding ==
    /\ pc = "repair" /\ todo = {}
    /\ Finish(IF UnsupportedInScope # {} THEN "FAILED_UNREPAIRABLE"
              ELSE "REPAIRED")
    /\ UNCHANGED <<phys, repair, resources, tenants, bindFailed, touched>>

(* Re-compare after repair: unrepairable objects keep the pass failed, a  *)
(* failed bind replay gives FAILED_BINDING_PORTS, otherwise REPAIRED.     *)
Recompare ==
    /\ pc = "repair" /\ todo = {}
    /\ Finish(IF UnsupportedInScope # {} THEN "FAILED_UNREPAIRABLE"
              ELSE IF bindFailed THEN "FAILED_BINDING_PORTS"
              ELSE "REPAIRED")
    /\ UNCHANGED <<phys, repair, resources, tenants, bindFailed, touched>>

(* The fabric-management layer or an operator changes a physical object, *)
(* between or during passes.                                              *)
Corrupt ==
    /\ \E o \in Objects, s \in PhysStates :
         /\ s \in Allowed(o) \ {phys[o]}
         /\ phys' = [phys EXCEPT ![o] = s]
    /\ touched' = TRUE
    /\ UNCHANGED engine

Init ==
    /\ phys \in {f \in [Objects -> PhysStates] : \A o \in Objects : f[o] \in Allowed(o)}
    /\ pc = "idle"
    /\ repair = FALSE /\ resources = {} /\ tenants = {}
    /\ todo = {} /\ bindFailed = FALSE
    /\ outcome = NONE /\ exitCode = 0
    /\ touched = FALSE

Next == Validate \/ RepairOne \/ Recompare \/ Corrupt

Spec == Init /\ [][Next]_vars

-----------------------------------------------------------------------------
(* Types, and the repair queue stays inside the scope *)
TypeOK ==
    /\ \A o \in Objects : phys[o] \in Allowed(o)
    /\ pc \in {"idle", "repair"}
    /\ todo \subseteq Scoped
    /\ outcome \in Outcomes \cup {NONE}
    /\ exitCode \in {0, 1}

CleanReportIsTrue ==
    (pc = "idle" /\ outcome \in {"PASSED", "REPAIRED"} /\ ~touched)
        => \A o \in Scoped : ~Diverged(o)

(* Spec 6: the CLI exits 0 on PASSED or REPAIRED and non-zero on any      *)
(* failure classification (cli.py main()).                                *)
ExitCodeReflectsFailure ==
    outcome # NONE => (exitCode = 0 <=> outcome \in {"PASSED", "REPAIRED"})
=============================================================================
