--------------------------- MODULE MC_ExtensionOrder ---------------------------
(* Three loaded extensions and one alias no loaded extension has; each   *)
(* names at most one required and one optional extension.                *)
EXTENDS ExtensionOrder

MCDepSets == {d \in SUBSET Names : Cardinality(d) <= 1}
=============================================================================
