-------------------------------- MODULE ypSort --------------------------------
(***************************************************************************)
(* nohtyP's list_sort from the moment it holds the items and their keys    *)
(* until it gives them back: the runs it finds, the merges with their      *)
(* temporary array and galloping, and its failures.  The calls around it   *)
(* are ypList's.                                                           *)
(*                                                                         *)
(* A cell stands for an item and its key, which the code moves together.   *)
(***************************************************************************)
EXTENDS ypSortOps, ypSortRuns

CONSTANTS
    Inputs,         \* the sequences of keys that are sorted
    RunMax,         \* 64, below which a list is a single run
    MinGallop,      \* MIN_GALLOP
    TempSize        \* MERGESTATE_TEMP_SIZE

ASSUME SortAssumption ==
    /\ RunMax \in Nat \ {0, 1} /\ MinGallop \in Nat /\ TempSize \in Nat
    /\ \A s \in Inputs : /\ s \in Seq(ToSet(s)) /\ Len(s) >= 2
                         /\ ToSet(s) \subseteq Int \cup {Unorderable, NaN}

VARIABLES
    m,          \* the cells, and the merge that is under way
    reverse,    \* the flag
    keyed,      \* a key function was given
    gallopAt,   \* ms.min_gallop
    alloced,    \* how many items the temporary array takes
    result

sortVars == <<m, reverse, keyed, gallopAt, alloced, result>>
vars == <<runVars, sortVars>>

N == lo + nremaining            \* detached.len

\* merge_compute_minrun
Minrun(n) ==
    LET R[w \in (0..n) \X (0..1)] ==
            IF w[1] < RunMax THEN w[1] + w[2]
            ELSE R[<<w[1] \div 2, IF w[1] % 2 = 1 THEN 1 ELSE w[2]>>]
    IN  R[<<n, 0>>]

\* No merge is under way.
Idle(cells) ==
    [cells |-> cells, mode |-> "none", tmp |-> <<>>, held |-> "a",
     at |-> [a |-> 0, b |-> 0], left |-> [a |-> 0, b |-> 0], dest |-> 0,
     won |-> [a |-> 0, b |-> 0]]

\* What merge_init leaves the temporary array.
InitAlloced(n, withKeys) ==
    IF ~withKeys THEN TempSize
    ELSE IF TempSize \div 2 < (n + 1) \div 2 THEN TempSize \div 2
    ELSE (n + 1) \div 2

Init ==
    \E s \in Inputs :
        /\ lo = 0 /\ nremaining = Len(s) /\ pending = <<>> /\ phase = "march"
        /\ reverse \in BOOLEAN /\ keyed \in BOOLEAN
        /\ LET cells == [i \in DOMAIN s |-> [key |-> s[i], item |-> i]]
           IN  m = Idle(IF reverse THEN Swapped(cells) ELSE cells)
        /\ gallopAt = MinGallop /\ alloced = InitAlloced(Len(s), keyed)
        /\ result = "none"
-----------------------------------------------------------------------------
\* A merge of runs a and b holds one of them in the temporary array: a when
\* it goes forward (merge_lo), b when it goes backward (merge_hi).  at says
\* where the next item of each run is, left how many there are.
Other(r) == IF r = "a" THEN "b" ELSE "a"
Forward(s) == s.held = "a"
Source(s, r) == IF r = s.held THEN s.tmp ELSE s.cells
First(s, r) == Source(s, r)[s.at[r] + 1]
\* The jth item of what is left, in the order of the run.
Nth(s, r, j) ==
    Source(s, r)[1 + j + IF Forward(s) THEN s.at[r] ELSE s.at[r] - s.left[r] + 1]

\* The next k items of r go to dest.
Take(s, r, k) ==
    LET far  == IF Forward(s) THEN 0 ELSE k - 1
        step == IF Forward(s) THEN k ELSE -k
    IN  [s EXCEPT !.cells = CopyCells(@, s.dest - far, Source(s, r),
                                      s.at[r] - far, k),
                  !.at[r] = @ + step, !.dest = @ + step, !.left[r] = @ - k]

\* Seeded fault: where a merge ends early, the held items are forgotten.
NotFlushed(s) == s

\* Labels Succeed and Fail: the held items that are left go back.
Flush(s) == Take(s, s.held, s.left[s.held])

\* Label CopyB or CopyA: the last held item goes behind the other run.
CopyRest(s) == Take(Take(s, Other(s.held), s.left[Other(s.held)]), s.held, 1)

\* Whether the merge goes on.  A comparison that contradicts itself may take
\* the last held item.
Exit(s) ==
    IF s.left[Other(s.held)] = 0 \/ s.left[s.held] = 0 THEN Idle(Flush(s).cells)
    ELSE IF s.left[s.held] = 1 THEN Idle(CopyRest(s).cells)
    ELSE s
Then(s, r, k) == IF s.mode = "none" THEN s ELSE Exit(Take(s, r, k))

\* Seeded fault: the equals of x are passed by.
PlaceBefore(x, items, n, hint) ==
    Gallop([p \in 0..n - 1 |-> Less(items[p], x)], n, hint)

\* The place of x among n sorted items: behind or before its equals.
PlaceRight(x, items, n, hint) ==
    Gallop([p \in 0..n - 1 |-> Not(Less(x, items[p]))], n, hint)
PlaceLeft(x, items, n, hint) ==
    Gallop([p \in 0..n - 1 |-> Less(items[p], x)], n, hint)
-----------------------------------------------------------------------------
Merging == m.mode # "none"

\* A failure anywhere ends the sort; the list is unreversed all the same.
Returned(cells, r) ==
    /\ m' = Idle(IF reverse THEN Swapped(cells) ELSE cells)
    /\ result' = r
    /\ UNCHANGED <<reverse, keyed, alloced>>
Fails(cells, r) == SortGivesUp /\ Returned(cells, r)

\* list_sort finds the next run, or extends it to minrun items.
FindRun ==
    LET run == NextRun(SubSeq(m.cells, lo + 1, N), Minrun(N))
        cells == SubSeq(m.cells, 1, lo) \o run.s
    IN  /\ phase = "march"
        /\ IF run.failed THEN Fails(cells, "TypeError")
           ELSE PushRun(run.n) /\ m' = Idle(cells)
                /\ UNCHANGED <<reverse, keyed, alloced, result>>
        /\ UNCHANGED gallopAt

\* Seeded fault: the longer run is held.
HoldLonger(base, na, mid, nb) ==
    IF na <= nb
    THEN Exit(Take([Idle(m.cells) EXCEPT
                !.mode = "one", !.held = "b", !.left = [a |-> na, b |-> nb],
                !.tmp = SubSeq(m.cells, mid + 1, mid + nb),
                !.at = [a |-> base + na - 1, b |-> nb - 1],
                !.dest = mid + nb - 1], "a", 1))
    ELSE Exit(Take([Idle(m.cells) EXCEPT
                !.mode = "one", !.held = "a", !.left = [a |-> na, b |-> nb],
                !.tmp = SubSeq(m.cells, base + 1, base + na),
                !.at = [a |-> 0, b |-> mid], !.dest = base], "b", 1))

\* merge_lo or merge_hi up to its loop: the shorter run is held, and the
\* other one's first item is known to come first.
HoldShorter(base, na, mid, nb) ==
    IF na <= nb
    THEN Exit(Take([Idle(m.cells) EXCEPT
                !.mode = "one", !.held = "a", !.left = [a |-> na, b |-> nb],
                !.tmp = SubSeq(m.cells, base + 1, base + na),
                !.at = [a |-> 0, b |-> mid], !.dest = base], "b", 1))
    ELSE Exit(Take([Idle(m.cells) EXCEPT
                !.mode = "one", !.held = "b", !.left = [a |-> na, b |-> nb],
                !.tmp = SubSeq(m.cells, mid + 1, mid + nb),
                !.at = [a |-> base + na - 1, b |-> nb - 1],
                !.dest = mid + nb - 1], "a", 1))

\* merge_at: the items of a that b does not reach stay, and those of b that
\* are not below a's last.  Join is what happens to the stack meanwhile.
MergeRuns(i, Join) ==
    LET a == pending[i]
        b == pending[i + 1]
        A == [p \in 0..a.len - 1 |-> m.cells[a.base + p + 1]]
        B == [p \in 0..b.len - 1 |-> m.cells[b.base + p + 1]]
        k  == PlaceRight(B[0], A, a.len, 0)
        na == a.len - k
        nb == PlaceLeft(A[a.len - 1], B, b.len, b.len - 1)
        need == IF na <= nb THEN na ELSE nb
    IN  \/ /\ k # -1 /\ (na = 0 \/ nb = 0)
           /\ Join /\ UNCHANGED sortVars
        \/ /\ k # -1 /\ na > 0 /\ nb > 0
           /\ Join
           /\ m' = HoldShorter(a.base + k, na, b.base, nb)
           /\ alloced' = IF need <= alloced THEN alloced ELSE need
           /\ UNCHANGED <<reverse, keyed, gallopAt, result>>
        \/ /\ k = -1 \/ (na > 0 /\ nb = -1)
           /\ Fails(m.cells, "TypeError") /\ UNCHANGED gallopAt
        \/ /\ k # -1 /\ na > 0 /\ nb > 0 /\ need > alloced
           /\ Fails(m.cells, "MemoryError") /\ UNCHANGED gallopAt

CollapseRuns == ~Merging /\ phase = "collapse" /\ CollapseAt # 0
                /\ MergeRuns(CollapseAt, Collapse)
ForceRuns == ~Merging /\ phase = "force" /\ Len(pending) > 1
             /\ MergeRuns(Shorter, ForceCollapse)
-----------------------------------------------------------------------------
Proceeds(s) == m' = s /\ UNCHANGED <<runVars, reverse, keyed, alloced, result>>

\* One comparison of the straightforward loop; the run that wins often enough
\* in a row is galloped through.
MergeOne ==
    LET k == Less(First(m, "b"), First(m, "a"))
        winner == IF k = 1 THEN Other(m.held) ELSE m.held
        s == Exit([Take(m, winner, 1) EXCEPT
                        !.won = [r \in {"a", "b"} |->
                                    IF r = winner THEN @[r] + 1 ELSE 0]])
        gallops == s.mode # "none" /\ s.won[winner] >= gallopAt
    IN  /\ m.mode = "one"
        /\ IF k = -1 THEN Fails(Flush(m).cells, "TypeError") /\ UNCHANGED gallopAt
           ELSE /\ Proceeds(IF gallops THEN [s EXCEPT !.mode = "gallopA"] ELSE s)
                /\ gallopAt' = IF gallops THEN gallopAt + 1 ELSE gallopAt

\* The first half of a galloping round: what of a precedes b's next item.
GallopA ==
    LET n == m.left["a"]
        items == [j \in 0..n - 1 |-> Nth(m, "a", j)]
        p == PlaceRight(First(m, "b"), items, n, IF Forward(m) THEN 0 ELSE n - 1)
        k == IF Forward(m) THEN p ELSE n - p
        s == Then(Then([m EXCEPT !.mode = "gallopB", !.won.a = k], "a", k), "b", 1)
    IN  /\ m.mode = "gallopA"
        /\ IF p = -1 THEN Fails(Flush(m).cells, "TypeError") ELSE Proceeds(s)
        /\ gallopAt' = IF gallopAt > 1 THEN gallopAt - 1 ELSE gallopAt

\* The second half: what of b precedes a's next item.  Galloping goes on
\* while either run wins often.
GallopB ==
    LET n == m.left["b"]
        items == [j \in 0..n - 1 |-> Nth(m, "b", j)]
        p == PlaceLeft(First(m, "a"), items, n, IF Forward(m) THEN 0 ELSE n - 1)
        k == IF Forward(m) THEN p ELSE n - p
        again == m.won["a"] >= MinGallop \/ k >= MinGallop
        s == Then(Then([m EXCEPT !.mode = IF again THEN "gallopA" ELSE "one",
                                 !.won = [a |-> 0, b |-> 0]], "b", k), "a", 1)
    IN  /\ m.mode = "gallopB"
        /\ IF p = -1 THEN Fails(Flush(m).cells, "TypeError") ELSE Proceeds(s)
        /\ gallopAt' = IF p # -1 /\ s.mode = "one" THEN gallopAt + 1 ELSE gallopAt

RunsCollapsed == ~Merging /\ Collapsed /\ UNCHANGED sortVars

SortEnds == ~Merging /\ SortSucceeds /\ Returned(m.cells, "ok") /\ UNCHANGED gallopAt

Next ==
    \/ FindRun \/ CollapseRuns \/ RunsCollapsed \/ ForceRuns
    \/ MergeOne \/ GallopA \/ GallopB
    \/ SortEnds

Spec == Init /\ [][Next]_vars
-----------------------------------------------------------------------------
\* Wherever a sort stops, the list is some order of its items: none is lost
\* or there twice, though a merge has moved some to the temporary array.
NothingLost == {c.item : c \in ToSet(Flush(m).cells)} = 1..N

\* A sort that returns has put the items in order, or in the reverse order,
\* equal ones as they were.
Ordered(x, y) == \/ IF reverse THEN x.key > y.key ELSE x.key < y.key
                 \/ x.key = y.key /\ x.item < y.item
SortedStably ==
    (result = "ok" /\ NaN \notin {c.key : c \in ToSet(m.cells)}) =>
        \A i \in 1..N - 1 : Ordered(m.cells[i], m.cells[i + 1])

\* A merge never holds more than fits in the temporary array, nor more than
\* half of the list, on which the layout of the keys behind it on the stack
\* relies (merge_init's comment).
TempFits ==
    /\ Len(m.tmp) <= alloced /\ Len(m.tmp) <= N \div 2
    /\ (keyed /\ N < TempSize \div 2) => 2 * alloced <= N + 1
=============================================================================
