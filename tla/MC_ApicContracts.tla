--------------------------- MODULE MC_ApicContracts ---------------------------
EXTENDS ApicContracts, TLC

CONSTANTS g1, x1, r1, r2, s1, s2, u1, u2

(* r1 and r2 are interchangeable: no definition names either. *)
Symm == Permutations({r1, r2})
====
