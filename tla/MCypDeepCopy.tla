---------------------------- MODULE MCypDeepCopy ----------------------------
(***************************************************************************)
(* Small instances of ypDeepCopy for TLC.                                  *)
(***************************************************************************)
EXTENDS ypDeepCopy

LeafKinds ==
    {Node("int", FALSE, <<>>), Node("small", TRUE, <<>>),
     Node("small", FALSE, <<>>), Node("function", FALSE, <<>>),
     Node("invalidated", TRUE, <<>>)}
Interchangeable == Permutations(Obj \ {Root})
=============================================================================
