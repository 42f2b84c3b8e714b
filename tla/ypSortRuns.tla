------------------------------ MODULE ypSortRuns ------------------------------
(***************************************************************************)
(* The stack of pending runs of nohtyP's timsort: where each run lies and  *)
(* when two of them are merged, whatever the items are.  ypSort adds the   *)
(* items to these steps.                                                   *)
(***************************************************************************)
EXTENDS Integers, Sequences

VARIABLES
    lo,             \* where the part that is not yet in runs starts
    nremaining,     \* how long it is
    pending,        \* the runs, the last one on top
    phase           \* "march", "collapse", "force" or "done"

runVars == <<lo, nremaining, pending, phase>>

Run == [base : Nat, len : Nat]

RunsInit ==
    /\ lo = 0 /\ nremaining \in Nat \ {0, 1}
    /\ pending = <<>> /\ phase = "march"
-----------------------------------------------------------------------------
Top(k) == pending[Len(pending) - k + 1].len     \* ms->pending[ms->n-k].len

\* list_sort has found the next run.
PushRun(n) ==
    /\ phase = "march"
    /\ pending' = Append(pending, [base |-> lo, len |-> n])
    /\ lo' = lo + n /\ nremaining' = nremaining - n
    /\ phase' = "collapse"

\* Seeded fault: the run above the two does not slide down.
JoinedInPlace(i) ==
    [j \in 1..Len(pending) - 1 |->
        IF j = i THEN [base |-> pending[i].base,
                       len  |-> pending[i].len + pending[i + 1].len]
        ELSE pending[j]]

\* merge_at's bookkeeping: runs i and i+1 become one.
Joined(i) ==
    [j \in 1..Len(pending) - 1 |->
        IF j < i THEN pending[j]
        ELSE IF j = i THEN [base |-> pending[i].base,
                            len  |-> pending[i].len + pending[i + 1].len]
        ELSE pending[j + 1]]
MergeAt(i) == pending' = Joined(i) /\ UNCHANGED <<lo, nremaining, phase>>

\* Seeded fault: only the three topmost runs are looked at.
CrowdedAtTop == Len(pending) >= 3 /\ Top(3) <= Top(2) + Top(1)

\* The two conditions of merge_collapse under which three runs are too close
\* in length.
Crowded ==
    \/ Len(pending) >= 3 /\ Top(3) <= Top(2) + Top(1)
    \/ Len(pending) >= 4 /\ Top(4) <= Top(3) + Top(2)

\* Which of the two topmost pairs is merged.
Shorter == IF Len(pending) >= 3 /\ Top(3) < Top(1) THEN Len(pending) - 2
           ELSE Len(pending) - 1

\* Where merge_collapse merges next; 0 when it is done.
CollapseAt ==
    IF Len(pending) < 2 THEN 0
    ELSE IF Crowded THEN Shorter
    ELSE IF Top(2) <= Top(1) THEN Len(pending) - 1 ELSE 0

Collapse ==
    /\ phase = "collapse" /\ CollapseAt # 0
    /\ MergeAt(CollapseAt)

Collapsed ==
    /\ phase = "collapse" /\ CollapseAt = 0
    /\ phase' = IF nremaining = 0 THEN "force" ELSE "march"
    /\ UNCHANGED <<lo, nremaining, pending>>

\* merge_force_collapse
ForceCollapse ==
    /\ phase = "force" /\ Len(pending) > 1
    /\ MergeAt(Shorter)

\* The sort ends, with one run or because something failed.
EndSort == phase' = "done" /\ UNCHANGED <<lo, nremaining, pending>>
SortSucceeds == phase = "force" /\ Len(pending) = 1 /\ EndSort
SortGivesUp == phase # "done" /\ EndSort

RunsNext ==
    \/ \E n \in 1..nremaining : PushRun(n)
    \/ Collapse \/ Collapsed \/ ForceCollapse
    \/ SortSucceeds \/ SortGivesUp

RunsSpec == RunsInit /\ [][RunsNext]_runVars
-----------------------------------------------------------------------------
\* The pending runs lie next to each other and fill what has been sorted so
\* far, none of them empty: what merge_at asserts of the two runs it merges,
\* and list_sort of the one that is left.
RunsAbut ==
    /\ \A i \in 1..Len(pending) :
        /\ pending[i].len > 0
        /\ pending[i].base = IF i = 1 THEN 0
                             ELSE pending[i - 1].base + pending[i - 1].len
    /\ lo = IF pending = <<>> THEN 0
            ELSE pending[Len(pending)].base + pending[Len(pending)].len

\* Once merge_collapse has returned, each pending run is longer than the next
\* two together, and not only the topmost three that its comment speaks of.
\* The lengths then grow like Fibonacci's numbers down the stack, on which
\* the fixed size of ms->pending relies.
StackBalanced ==
    phase = "march" =>
        /\ \A i \in 1..Len(pending) - 1 : pending[i].len > pending[i + 1].len
        /\ \A i \in 1..Len(pending) - 2 :
            pending[i].len > pending[i + 1].len + pending[i + 2].len
=============================================================================
