--------------------------- MODULE MCUpdateClient ---------------------------
(* The update client on a small instance: three manifests, two of them     *)
(* offering the same version, and a seen-set of two.                       *)
EXTENDS UpdateClient, TLC

CONSTANTS m1, m2, m3

MCManifests == {m1, m2, m3}
MCVersionOf == m1 :> 1 @@ m2 :> 1 @@ m3 :> 2
=============================================================================
