------------------------- MODULE MC_Ml2PlusAddressScope -------------------------
(* Two scope UUIDs, one parseable VRF DN, two API workers *)
EXTENDS Ml2PlusAddressScope, TLC

ScopeSymmetry == Permutations(Scopes)
=============================================================================
