------------------------ MODULE MC_ProjectDetailsCache ------------------------
(* Two projects, two versions of their details, one API worker beside the  *)
(* notification listener, and two Keystone updates.                        *)
EXTENDS ProjectDetailsCache, TLC

ProjectSymmetry == Permutations(Projects)
=============================================================================
