------------------------------ MODULE MCypDict ------------------------------
(***************************************************************************)
(* Small instances of ypDict for TLC.                                      *)
(***************************************************************************)
EXTENDS ypDictStale, TLC

CONSTANTS k1, k2, k3, k4

MCHash == [k \in Keys |->
             IF k \in {k1, k2} THEN 0 ELSE IF k = k3 THEN 64 ELSE 1]

\* Free keysets are all alike, so it does not matter which one CHOOSE takes.
Interchangeable == Permutations(Dicts) \cup Permutations(Values)
                   \cup Permutations(Keysets)
\* Keys with the same hash are alike too.
CollidingKeys   == Interchangeable \cup Permutations({k1, k2})
=============================================================================
