--------------------------- MODULE MCPolicyCache ---------------------------
(* The policy cache on a small instance: two identities, two sites, two    *)
(* reading threads, room for two of the four keys.                         *)
EXTENDS PolicyCache, TLC

Symmetry ==
    Permutations(Identities) \cup Permutations(Sites) \cup Permutations(Readers)
=============================================================================
