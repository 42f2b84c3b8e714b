------------------------------ MODULE MCypSort ------------------------------
(***************************************************************************)
(* Small instances of ypSort for TLC.                                      *)
(***************************************************************************)
EXTENDS ypSort

CONSTANTS
    Longest,        \* every list up to this length of two keys,
    LongestOdd      \* and of a key, NaN and an unorderable key, is sorted

\* Runs of these lengths leave a stack out of balance below its top unless
\* merge_collapse looks at four of them.
Climb(n) == [i \in 1..n |-> i]
Staircase == Climb(18) \o Climb(13) \o Climb(4) \o Climb(3) \o Climb(5) \o <<1>>

\* Two runs that are galloped through, from either end, and two that
\* alternate and need more than the temporary array takes at first.
Pairs == {Climb(6) \o [i \in 1..6 |-> 3],
          [i \in 1..6 |-> 10 + i] \o <<1, 2, 3, 12, 14, 15>>,
          [i \in 1..6 |-> 2 * i] \o [i \in 1..6 |-> 2 * i - 1]}

MCInputs ==
    UNION {[1..n -> {1, 2}] : n \in 2..Longest}
    \cup UNION {[1..n -> {1, 2, NaN}] : n \in 2..LongestOdd}
    \cup UNION {[1..n -> {1, 2, Unorderable}] : n \in 2..LongestOdd}
    \cup UNION {[1..n -> 1..4] : n \in 2..LongestOdd}
    \cup Pairs \cup {Staircase}
=============================================================================
