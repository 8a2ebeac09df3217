------------------------- MODULE MCPermissionsHost -------------------------
(* The permissions host on a small instance.                               *)
EXTENDS PermissionsHost, TLC

MCSymmetry == Permutations(Identities)
=============================================================================
