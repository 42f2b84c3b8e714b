-------------------------- MODULE MCypSetReentrant --------------------------
(***************************************************************************)
(* Small instances of ypSetReentrant for TLC.                              *)
(***************************************************************************)
EXTENDS ypSetReentrant

CONSTANTS k1, k2, k3, k4

MCHash == [k \in Keys |-> IF k \in {k1, k2} THEN 0 ELSE IF k = k3 THEN 64 ELSE 1]
=============================================================================
