------------------------------ MODULE MCypList ------------------------------
(***************************************************************************)
(* Small instances of ypListCalls for TLC.                                 *)
(***************************************************************************)
EXTENDS ypListCalls

CONSTANTS i1, i2

MCRank == [x \in Items |-> IF x = i1 THEN 1 ELSE 2]
MCArgs == {<<>>, <<i2>>, <<i1, i2>>}

\* [:], [1:], [-2:9], [::2], [::-1], [:0:-2], [9:],
\* and two steps that are refused.  A slice of step 1 whose stop is before
\* its start is left out: list_setslice does not do what ListSpec says.
MCSlices == {<<Default, Default, 1>>, <<1, LastItem, 1>>, <<-2, LastItem, 1>>,
             <<0, 1, 1>>, <<Default, Default, 2>>, <<Default, Default, -1>>,
             <<Default, 0, -2>>, <<LastItem, Default, 1>>,
             <<0, 1, 0>>, <<0, 1, Default>>}

ASSUME MCSlicesAssumption == SlicesRunForward

\* What the last call was and returned decides nothing.
WithoutCall == <<type, hashed, array, alloclen, inline, refs, frames>>
=============================================================================
