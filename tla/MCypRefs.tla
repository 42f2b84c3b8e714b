----------------------------- MODULE MCypRefs -----------------------------
(***************************************************************************)
(* Small instances of ypRefs for TLC: three objects, one with two fields.  *)
(***************************************************************************)
EXTENDS ypRefs, TLC

CONSTANTS a, b, c, a1, a2, b1, v1, v2

MCHome == [s \in Slots |-> IF s \in {a1, a2} THEN a ELSE IF s = b1 THEN b ELSE NULL]
=============================================================================
