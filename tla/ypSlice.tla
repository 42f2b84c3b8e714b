------------------------------ MODULE ypSlice ------------------------------
(***************************************************************************)
(* The index arithmetic of nohtyP's sequences, shared by tuple, list,      *)
(* bytes, str and range, and the block moves built on it.                  *)
(*                                                                         *)
(* Indices and offsets are C's, counted from 0; sequences are TLA+'s.  An  *)
(* array is a sequence of cells; a cell that was allocated and not yet     *)
(* written holds Junk.                                                     *)
(***************************************************************************)
EXTENDS Integers, Sequences

CONSTANTS
    SSizeMax,       \* yp_SSIZE_T_MAX
    Junk            \* what an uninitialised cell holds

ASSUME SSizeMaxAssumption == SSizeMax \in Nat \ {0}

Default == -SSizeMax - 1        \* yp_SLICE_DEFAULT
LastItem == SSizeMax            \* yp_SLICE_LAST

\* Where i points, from the start.
Adjusted(length, i) == IF i < 0 THEN i + length ELSE i

InBounds(length, i) ==
    0 <= Adjusted(length, i) /\ Adjusted(length, i) < length

\* One end of a slice, clamped to the positions a loop of that direction may
\* start or stop at.
Clamped(length, i, step) ==
    LET j == Adjusted(length, i)
    IN  IF j < 0 THEN IF step < 0 THEN -1 ELSE 0
        ELSE IF j >= length THEN IF step < 0 THEN length - 1 ELSE length
        ELSE j

\* Both quotients have operands of one sign, so C's division rounds down.
SliceLength(start, stop, step) ==
    IF step < 0
    THEN IF stop >= start THEN 0 ELSE (start - stop - 1) \div (-step) + 1
    ELSE IF start >= stop THEN 0 ELSE (stop - start - 1) \div step + 1

\* ypSlice_AdjustIndicesC for a valid step
AdjustIndices(length, start, stop, step) ==
    LET first == IF start = Default THEN IF step < 0 THEN length - 1 ELSE 0
                 ELSE Clamped(length, start, step)
        end   == IF stop = Default THEN IF step < 0 THEN -1 ELSE length
                 ELSE Clamped(length, stop, step)
    IN  IF length < 1 THEN [start |-> 0, stop |-> 0, step |-> step, n |-> 0]
        ELSE [start |-> first, stop |-> end, step |-> step,
              n |-> SliceLength(first, end, step)]

\* The errors of ypSlice_AdjustIndicesC.
StepError(step) == IF step = 0 THEN "ValueError"
                   ELSE IF step < -SSizeMax THEN "SystemLimitationError"
                   ELSE "none"

\* The same positions from the other end.  Only for s.n > 0.
InvertIndices(s) ==
    IF s.step < 0
    THEN [start |-> s.start + s.step * (s.n - 1), stop |-> s.start + 1,
          step |-> -s.step, n |-> s.n]
    ELSE [start |-> s.start + s.step * (s.n - 1), stop |-> s.start - 1,
          step |-> -s.step, n |-> s.n]

SliceIndex(s, i) == s.start + i * s.step        \* ypSlice_INDEX

\* The items at the positions of a slice, in its order.
ItemsAt(array, s) == [i \in 1..s.n |-> array[SliceIndex(s, i - 1) + 1]]
-----------------------------------------------------------------------------
Fresh(n) == [i \in 1..n |-> Junk]

\* memcpy (and, when to = from, memmove) of n cells.
CopyCells(to, dest, from, src, n) ==
    [i \in DOMAIN to |-> IF dest < i /\ i <= dest + n
                         THEN from[i - dest + src] ELSE to[i]]
Move(array, dest, src, n) == CopyCells(array, dest, array, src, n)

\* _ypSlice_delslice_memmove: the kept chunks slide down, one per removed
\* item; the last one runs to the end.
DelsliceMove(array, length, slice) ==
    LET s == IF slice.step < 0 THEN InvertIndices(slice) ELSE slice
        Chunk[k \in 0..s.n] ==
            IF k = 0 THEN array
            ELSE LET src == s.start + 1 + (k - 1) * s.step
                 IN  Move(Chunk[k - 1], s.start + (k - 1) * (s.step - 1), src,
                          IF k = s.n THEN length - src ELSE s.step - 1)
    IN  IF s.step = 1 THEN Move(array, s.start, s.stop, length - s.stop)
        ELSE Chunk[s.n]

\* _ypSequence_repeat_memcpy: the filled part doubles while it can, and a
\* last copy fills the rest.
RepeatCopy(array, factor, n) ==
    LET Doubled[k \in 0..factor] ==
            IF k = 0 THEN [cells |-> array, copied |-> 1]
            ELSE LET d == Doubled[k - 1]
                 IN  IF d.copied * 2 >= factor THEN d
                     ELSE [cells  |-> Move(d.cells, n * d.copied, 0,
                                           n * d.copied),
                           copied |-> d.copied * 2]
        d == Doubled[factor]
    IN  Move(d.cells, n * d.copied, 0, n * (factor - d.copied))
=============================================================================
