------------------------------ MODULE ypSortOps ------------------------------
(***************************************************************************)
(* What nohtyP's timsort is built from: its comparison, the search for a   *)
(* place among sorted items, natural runs, and binary insertion.           *)
(*                                                                         *)
(* An item to sort is a record with its key.  A comparison returns 1, 0,   *)
(* or -1 where it fails, as do the operators built on it.  Offsets are     *)
(* C's, counted from 0.                                                    *)
(***************************************************************************)
EXTENDS ypSlice, SequencesExt

CONSTANTS
    Unorderable,    \* the key that yp_lt fails on
    NaN             \* the key that is neither less nor greater than any

Less(x, y) ==
    IF Unorderable \in {x.key, y.key} THEN -1
    ELSE IF NaN \notin {x.key, y.key} /\ x.key < y.key THEN 1 ELSE 0
Not(k) == IF k = -1 THEN -1 ELSE 1 - k

Swapped(s) == Reverse(s)        \* _list_reverse_slice

\* Binary search of the offsets first..last.  right[p] tells whether to go
\* on behind p.
Bisect(right, first, last) ==
    LET B[w \in (first..last) \X (first..last)] ==
            LET p == w[1] + (w[2] - w[1]) \div 2
            IN  IF w[1] >= w[2] THEN w[1]
                ELSE IF right[p] = -1 THEN -1
                ELSE B[IF right[p] = 1 THEN <<p + 1, w[2]>> ELSE <<w[1], p>>]
    IN  B[<<first, last>>]

\* gallop_left and gallop_right among n sorted items: leaps of growing size
\* from hint, then a binary search of the last leap.
Gallop(right, n, hint) ==
    LET up        == right[hint]
        maxofs    == IF up = 1 THEN n - hint ELSE hint + 1
        Goes(ofs) == IF up = 1 THEN right[hint + ofs] ELSE Not(right[hint - ofs])
        Leap[ofs \in 1..2 * maxofs - 1] ==
            IF ofs >= maxofs THEN ofs
            ELSE LET k == Goes(ofs)
                 IN  IF k = -1 THEN -1 ELSE IF k = 1 THEN Leap[2 * ofs + 1] ELSE ofs
        far  == IF Leap[1] > maxofs THEN maxofs ELSE Leap[1]
        near == Leap[1] \div 2
    IN  IF up = -1 \/ Leap[1] = -1 THEN -1
        ELSE IF up = 1 THEN Bisect(right, hint + near + 1, hint + far)
        ELSE Bisect(right, hint - far + 1, hint - near)

\* count_run, at the start of s
CountRun(s) ==
    LET lt == IF Len(s) < 2 THEN 0 ELSE Less(s[2], s[1])
        Run[n \in 1..Len(s)] ==
            IF n = Len(s) THEN n
            ELSE LET k == Less(s[n + 1], s[n])
                 IN  IF k = -1 THEN -1 ELSE IF k = lt THEN Run[n + 1] ELSE n
    IN  [n |-> IF lt = -1 THEN -1 ELSE Run[1], descending |-> lt = 1]

\* binarysort from start on; it stops where a comparison fails.
BinarySort(s, from) ==
    LET B[start \in from..Len(s)] ==
            IF start = from THEN [s |-> s, failed |-> FALSE]
            ELSE LET b == B[start - 1]
                     right == [p \in 0..start - 2 |->
                                  Not(Less(b.s[start], b.s[p + 1]))]
                     p == IF b.failed THEN -1 ELSE Bisect(right, 0, start - 1)
                 IN  IF p = -1 THEN [b EXCEPT !.failed = TRUE]
                     ELSE [b EXCEPT !.s = InsertAt(RemoveAt(b.s, start),
                                                   p + 1, b.s[start])]
    IN  B[Len(s)]

\* Seeded fault: a short last run is extended past the end of the list.
NextRunPastEnd(s, minrun) ==
    LET run == CountRun(s)
        t   == IF run.descending
               THEN Swapped(SubSeq(s, 1, run.n)) \o SubSeq(s, run.n + 1, Len(s))
               ELSE s
        sorted == BinarySort(t, run.n)
    IN  IF run.n = -1 THEN [n |-> 0, s |-> s, failed |-> TRUE]
        ELSE IF run.n >= minrun THEN [n |-> run.n, s |-> t, failed |-> FALSE]
        ELSE [n |-> minrun, failed |-> sorted.failed, s |-> sorted.s]

\* The next run, of at most minrun items if it has to be extended.
NextRun(s, minrun) ==
    LET run == CountRun(s)
        t   == IF run.descending
               THEN Swapped(SubSeq(s, 1, run.n)) \o SubSeq(s, run.n + 1, Len(s))
               ELSE s
        force  == IF Len(s) <= minrun THEN Len(s) ELSE minrun
        sorted == BinarySort(SubSeq(t, 1, force), run.n)
    IN  IF run.n = -1 THEN [n |-> 0, s |-> s, failed |-> TRUE]
        ELSE IF run.n >= minrun THEN [n |-> run.n, s |-> t, failed |-> FALSE]
        ELSE [n |-> force, failed |-> sorted.failed,
              s |-> sorted.s \o SubSeq(t, force + 1, Len(s))]
=============================================================================
