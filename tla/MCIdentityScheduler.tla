------------------------ MODULE MCIdentityScheduler ------------------------
(* The identity lifecycle on a small instance.                             *)
EXTENDS IdentityScheduler, TLC

MCSymmetry == Permutations(Domains)
=============================================================================
