---------------------------- MODULE ExtensionOrder ----------------------------
(***************************************************************************)
(* The order in which the patched ExtensionManager.extend_resources        *)
(* (src/gbpservice/neutron/extensions/patch.py) applies the loaded API     *)
(* extensions' attribute maps.  An extension is processed once every       *)
(* extension it requires has been, and, while check_optionals holds, once  *)
(* every extension it names as optional has been.  A whole pass without   *)
(* progress turns check_optionals off for good; a second one ends the     *)
(* loop, the rest being unloadable.  The order matters: a later extension *)
(* overwrites an earlier one's attributes of the same resource.           *)
(***************************************************************************)
EXTENDS Naturals, Sequences, FiniteSets, Functions, Relation

CONSTANTS
    Names,      \* extension aliases, loaded or not
    Ext,        \* the aliases of the loaded extensions
    DepSets     \* the required or optional sets an extension may name

ASSUME Ext \subseteq Names /\ DepSets \subseteq SUBSET Names

VARIABLES
    order,      \* the loaded extensions in self.extensions' order
    req,        \* [loaded -> SUBSET Names]: get_required_extensions()
    opt         \* [loaded -> SUBSET Names]: get_optional_extensions()

vars == <<order, req, opt>>

Loaded == Range(order)

(* The tests at the top of the for loop *)
Ready(e, processed, checkOptionals) ==
    /\ req[e] \subseteq processed
    /\ checkOptionals => opt[e] \subseteq processed

(* One pass of the for loop over list(exts_to_process.items()): returns   *)
(* the processed sequence grown by the pass and the extensions left, in   *)
(* their order.                                                           *)
RECURSIVE ForPass(_, _, _, _)
ForPass(todo, done, left, chk) ==
    IF todo = <<>> THEN <<done, left>>
    ELSE IF Ready(Head(todo), Range(done), chk)
         THEN ForPass(Tail(todo), Append(done, Head(todo)), left, chk)
         ELSE ForPass(Tail(todo), done, Append(left, Head(todo)), chk)

(* The while loop: returns processed_exts in processing order *)
RECURSIVE WhileLoop(_, _, _)
WhileLoop(todo, done, chk) ==
    IF todo = <<>> THEN done
    ELSE LET r == ForPass(todo, done, <<>>, chk) IN
         IF Len(r[1]) = Len(done)
         THEN IF chk THEN WhileLoop(todo, done, FALSE) ELSE done
         ELSE WhileLoop(r[2], r[1], chk)

ExtendResources == WhileLoop(order, <<>>, TRUE)

(* Position of a processed extension *)
Pos(s, e) == CHOOSE i \in DOMAIN s : s[i] = e

(* Every loading order of the extensions and every choice of their       *)
(* required and optional extensions, none naming itself                  *)
Init ==
    /\ order \in {s \in [1..Cardinality(Ext) -> Ext] : Range(s) = Ext}
    /\ req \in [Ext -> DepSets]
    /\ opt \in [Ext -> DepSets]
    /\ \A e \in Ext : e \notin req[e] \cup opt[e]
Next == UNCHANGED vars
Spec == Init /\ [][Next]_vars

-----------------------------------------------------------------------------
(* Reference: the extensions whose required extensions are, transitively, *)
(* all loaded, as the least set closed under "all required are in it".    *)
RECURSIVE Closure(_)
Closure(s) ==
    LET t == {e \in Loaded : req[e] \subseteq s} IN
    IF t = s THEN s ELSE Closure(t)

Loadable == Closure({})

TypeOK ==
    /\ order \in Seq(Names) /\ Len(order) = Cardinality(Loaded)
    /\ req \in [Loaded -> SUBSET Names] /\ opt \in [Loaded -> SUBSET Names]

(* extend_resources processes exactly the loadable extensions, each once, *)
(* and only after all it requires: the unloadable ones are those reported *)
(* by "Unable to process extensions".                                    *)
ProcessesExactlyLoadable ==
    LET p == ExtendResources IN
    /\ Range(p) = Loadable /\ Len(p) = Cardinality(Range(p))
    /\ \A e \in Range(p) : \A r \in req[e] : Pos(p, r) < Pos(p, e)

(* "optionals are only necessary to set order if they are present": when *)
(* the required and optional extensions of the processed ones form no     *)
(* cycle, so that some order honours them all, an extension comes after   *)
(* every optional extension of it that is processed.                      *)
DependsOn == [x, y \in Loadable |-> y \in req[x] \cup opt[x]]

PresentOptionalsFirst ==
    LET p == ExtendResources IN
    IsIrreflexive(TransitiveClosure(DependsOn, Loadable), Loadable) =>
        \A e \in Range(p) : \A o \in opt[e] \cap Range(p) : Pos(p, o) < Pos(p, e)
=============================================================================
