------------------------------ MODULE MCypSet ------------------------------
(***************************************************************************)
(* Small instances of ypSet for TLC.                                       *)
(***************************************************************************)
EXTENDS ypSet, TLC

CONSTANTS k1, k2, k3, k4

\* k1 and k2 share a hash; k3 collides with them until perturb differs.
MCHash == [k \in Keys |->
             IF k \in {k1, k2} THEN 0 ELSE IF k = k3 THEN 64 ELSE 1]
MCArgs == {{k1, k2, k3}, {k3, k4}}

\* Keys with the same hash are alike.
CollidingKeys == Permutations({k1, k2})

=============================================================================
