---------------------------- MODULE ypSortProofs ----------------------------
(***************************************************************************)
(* Proofs about sorts of any number of items: the stack of pending runs,   *)
(* and the merges that move the items through the temporary array.         *)
(*                                                                         *)
(* First the stack by itself (RunsInv).  Then the merge: the gap that the  *)
(* temporary array fills (Filled), which every copy only rotates with the  *)
(* items beside it.  Then the steps of the sort (SortInv), which rest on   *)
(* what ypOperatorProofs says of the searches and insertions.  Last the    *)
(* order: what of a merge is still out of order (Merges), what a copy does *)
(* about that (TakeOrders), and the steps of the sort again (OrderInv).    *)
(***************************************************************************)
EXTENDS ypSort, ypOperatorProofs

RunsTypeOK ==
    /\ lo \in Nat /\ nremaining \in Nat /\ pending \in Seq(Run)
    /\ phase \in {"march", "collapse", "force", "done"}

\* What holds of the stack while merge_collapse works on it: only the four
\* topmost runs may be out of balance, and the fourth is not below the third.
HalfBalanced ==
    /\ \A i \in 1..Len(pending) - 4 :
        pending[i].len > pending[i + 1].len + pending[i + 2].len
    /\ Len(pending) >= 4 =>
        pending[Len(pending) - 3].len > pending[Len(pending) - 2].len

RunsInv ==
    /\ RunsTypeOK /\ RunsAbut /\ StackBalanced
    /\ phase = "collapse" => HalfBalanced
-----------------------------------------------------------------------------
\* merge_at shortens the stack by one run and leaves those below alone.
LEMMA JoinedRuns ==
    ASSUME pending \in Seq(Run), NEW i \in 1..Len(pending) - 1
    PROVE  /\ Joined(i) \in Seq(Run)
           /\ Len(Joined(i)) = Len(pending) - 1
           /\ \A j \in 1..Len(pending) - 1 :
                Joined(i)[j] =
                    IF j < i THEN pending[j]
                    ELSE IF j = i
                    THEN [base |-> pending[i].base,
                          len  |-> pending[i].len + pending[i + 1].len]
                    ELSE pending[j + 1]
<1> DEFINE J == Joined(i)
<1>1. Len(pending) \in Nat /\ Len(pending) - 1 \in Nat
  OBVIOUS
<1>2. \A j \in 1..Len(pending) : pending[j] \in Run
  OBVIOUS
<1>3. /\ pending[i].base \in Nat /\ pending[i].len \in Nat
      /\ pending[i + 1].len \in Nat
  <2>1. i \in 1..Len(pending) /\ i + 1 \in 1..Len(pending)
    BY <1>1
  <2>2. pending[i] \in Run /\ pending[i + 1] \in Run
    BY <1>2, <2>1
  <2> QED
    BY <2>2 DEF Run
<1>4. [base |-> pending[i].base,
       len |-> pending[i].len + pending[i + 1].len] \in Run
  <2>1. \A b, x, y \in Nat : [base |-> b, len |-> x + y] \in Run
    BY DEF Run
  <2> QED
    BY <1>3, <2>1
<1>5. \A j \in 1..Len(pending) - 1 :
        (IF j < i THEN pending[j]
         ELSE IF j = i THEN [base |-> pending[i].base,
                             len |-> pending[i].len + pending[i + 1].len]
         ELSE pending[j + 1]) \in Run
  BY <1>1, <1>2, <1>4
<1>6. J \in [1..Len(pending) - 1 -> Run]
  BY <1>5 DEF Joined
<1>7. J \in Seq(Run) /\ Len(J) = Len(pending) - 1
  BY <1>1, <1>6
<1> QED
  BY <1>7 DEF Joined

\* Both of merge_collapse and merge_force_collapse merge among the three
\* topmost runs, and never outside the stack.
LEMMA ShorterIsOnTop ==
    ASSUME pending \in Seq(Run), Len(pending) >= 2
    PROVE  Shorter \in 1..Len(pending) - 1 /\ Shorter >= Len(pending) - 2
BY DEF Shorter

LEMMA CollapseIsOnTop ==
    ASSUME pending \in Seq(Run), CollapseAt # 0
    PROVE  /\ Len(pending) >= 2
           /\ CollapseAt \in 1..Len(pending) - 1
           /\ CollapseAt >= Len(pending) - 2
BY ShorterIsOnTop DEF CollapseAt

\* Two runs that lie next to each other become one in the same place.
LEMMA MergeKeepsAbut ==
    ASSUME RunsTypeOK, RunsAbut, NEW i \in 1..Len(pending) - 1, MergeAt(i)
    PROVE  RunsTypeOK' /\ RunsAbut'
<1>1. pending \in Seq(Run) /\ lo \in Nat
  BY DEF RunsTypeOK
<1>2. \A j \in 1..Len(pending) : pending[j].base \in Nat /\ pending[j].len \in Nat
  <2>1. \A j \in 1..Len(pending) : pending[j] \in Run
    BY <1>1
  <2> QED
    BY <2>1 DEF Run
<1>3. /\ pending' = Joined(i) /\ lo' = lo
      /\ nremaining' = nremaining /\ phase' = phase
  BY DEF MergeAt
<1>4. /\ pending' \in Seq(Run) /\ Len(pending') = Len(pending) - 1
      /\ \A j \in 1..Len(pending) - 1 :
            pending'[j] = IF j < i THEN pending[j]
                          ELSE IF j = i
                          THEN [base |-> pending[i].base,
                                len  |-> pending[i].len + pending[i + 1].len]
                          ELSE pending[j + 1]
  BY <1>1, <1>3, JoinedRuns
<1>5. RunsTypeOK'
  BY <1>3, <1>4 DEF RunsTypeOK
<1>6. ASSUME NEW j \in 1..Len(pending')
      PROVE  /\ pending'[j].len > 0
             /\ pending'[j].base = IF j = 1 THEN 0
                                   ELSE pending'[j - 1].base + pending'[j - 1].len
  <2>0. /\ j \in 1..Len(pending) - 1 /\ i \in Nat /\ Len(pending) \in Nat
        /\ j # 1 => j - 1 \in 1..Len(pending) - 1
    BY <1>1, <1>4
  <2>a. /\ pending[j].len > 0
        /\ pending[j].base = IF j = 1 THEN 0
                             ELSE pending[j - 1].base + pending[j - 1].len
    <3>1. j \in 1..Len(pending)
      BY <2>0
    <3> QED
      BY <3>1 DEF RunsAbut
  <2>1. CASE j < i
    <3>1. pending'[j] = pending[j]
      BY <1>4, <2>0, <2>1
    <3>2. j # 1 => pending'[j - 1] = pending[j - 1]
      BY <1>4, <2>0, <2>1
    <3> QED
      BY <2>a, <3>1, <3>2
  <2>2. CASE j = i
    <3>1. /\ pending'[j].base = pending[j].base
          /\ pending'[j].len = pending[j].len + pending[j + 1].len
      BY <1>4, <2>0, <2>2
    <3>2. j # 1 => pending'[j - 1] = pending[j - 1]
      BY <1>4, <2>0, <2>2
    <3>3. pending[j + 1].len > 0 /\ pending[j + 1].len \in Nat /\ pending[j].len \in Nat
      BY <1>2, <2>0 DEF RunsAbut
    <3> QED
      BY <2>a, <3>1, <3>2, <3>3, SMTT(30)
  <2>3. CASE j = i + 1
    <3>1. pending'[j] = pending[j + 1] /\ pending'[j - 1].base = pending[i].base
          /\ pending'[j - 1].len = pending[i].len + pending[i + 1].len
      BY <1>4, <2>0, <2>3
    <3>2. /\ pending[j + 1].base = pending[i + 1].base + pending[i + 1].len
          /\ pending[i + 1].base = pending[i].base + pending[i].len
          /\ pending[j + 1].len > 0
      BY <2>0, <2>3 DEF RunsAbut
    <3> QED
      BY <1>2, <2>0, <2>3, <3>1, <3>2, SMTT(30)
  <2>4. CASE j > i + 1
    <3>1. pending'[j] = pending[j + 1] /\ pending'[j - 1] = pending[j]
      BY <1>4, <2>0, <2>4
    <3>2. /\ pending[j + 1].base = pending[j].base + pending[j].len
          /\ pending[j + 1].len > 0
      BY <2>0, <2>4 DEF RunsAbut
    <3> QED
      BY <2>0, <2>4, <3>1, <3>2
  <2> QED
    BY <2>0, <2>1, <2>2, <2>3, <2>4
<1>7. lo' = pending'[Len(pending')].base + pending'[Len(pending')].len
  <2>0. Len(pending) \in Nat /\ i \in Nat /\ Len(pending) >= 2 /\ pending # <<>>
    BY <1>1
  <2>1. CASE i = Len(pending) - 1
    <3>1. /\ pending[i + 1].base = pending[i].base + pending[i].len
          /\ lo = pending[i + 1].base + pending[i + 1].len
      BY <2>0, <2>1 DEF RunsAbut
    <3> QED
      BY <1>2, <1>3, <1>4, <2>0, <2>1, <3>1
  <2>2. CASE i < Len(pending) - 1
    <3>1. pending'[Len(pending')] = pending[Len(pending)]
      BY <1>4, <2>0, <2>2
    <3> QED
      BY <1>3, <2>0, <3>1 DEF RunsAbut
  <2> QED
    BY <2>0, <2>1, <2>2
<1>8. pending' # <<>>
  BY <1>1, <1>4
<1> QED
  BY <1>5, <1>6, <1>7, <1>8 DEF RunsAbut

\* Below the runs that are merged, the stack stays in balance.
LEMMA MergeKeepsBalance ==
    ASSUME RunsTypeOK, RunsAbut, HalfBalanced, NEW i \in 1..Len(pending) - 1,
           i >= Len(pending) - 2, MergeAt(i)
    PROVE  HalfBalanced'
<1>1. pending \in Seq(Run) /\ Len(pending) \in Nat
  BY DEF RunsTypeOK
<1>2. \A j \in 1..Len(pending) : pending[j].len \in Nat /\ pending[j].len > 0
  <2>1. \A j \in 1..Len(pending) : pending[j] \in Run
    BY <1>1
  <2> QED
    BY <2>1 DEF Run, RunsAbut
<1>3. /\ Len(pending') = Len(pending) - 1
      /\ \A j \in 1..Len(pending) - 3 : pending'[j] = pending[j]
  <2>1. pending' = Joined(i)
    BY DEF MergeAt
  <2>2. /\ Len(pending') = Len(pending) - 1
        /\ \A j \in 1..Len(pending) - 1 : j < i => pending'[j] = pending[j]
    BY <1>1, <2>1, JoinedRuns
  <2> QED
    BY <1>1, <2>2
<1>4. ASSUME NEW j \in 1..Len(pending') - 4
      PROVE  pending'[j].len > pending'[j + 1].len + pending'[j + 2].len
  <2>1. /\ j \in 1..Len(pending) - 4 /\ j \in 1..Len(pending) - 3
        /\ j + 1 \in 1..Len(pending) - 3 /\ j + 2 \in 1..Len(pending) - 3
    BY <1>1, <1>3
  <2> QED
    BY <1>3, <2>1 DEF HalfBalanced
<1>5. ASSUME Len(pending') >= 4
      PROVE  pending'[Len(pending') - 3].len > pending'[Len(pending') - 2].len
  <2>1. /\ Len(pending) - 4 \in 1..Len(pending) - 4
        /\ Len(pending) - 4 \in 1..Len(pending) - 3
        /\ Len(pending) - 3 \in 1..Len(pending) - 3
        /\ Len(pending) - 2 \in 1..Len(pending)
        /\ Len(pending) - 3 \in 1..Len(pending)
        /\ Len(pending) - 4 \in 1..Len(pending)
    BY <1>1, <1>3, <1>5
  <2>2. pending[Len(pending) - 4].len
            > pending[Len(pending) - 3].len + pending[Len(pending) - 2].len
    <3>1. pending[Len(pending) - 4].len
            > pending[Len(pending) - 4 + 1].len + pending[Len(pending) - 4 + 2].len
      BY <2>1 DEF HalfBalanced
    <3>2. /\ Len(pending) - 4 + 1 = Len(pending) - 3
          /\ Len(pending) - 4 + 2 = Len(pending) - 2
      BY <1>1
    <3> QED
      BY <3>1, <3>2
  <2>3. pending[Len(pending) - 4].len > pending[Len(pending) - 3].len
    <3> DEFINE L(k) == pending[Len(pending) - k].len
    <3>1. L(2) > 0 /\ L(2) \in Nat /\ L(3) \in Nat /\ L(4) \in Nat
      BY <1>2, <2>1
    <3>2. L(4) > L(3) + L(2)
      BY <2>2
    <3> HIDE DEF L
    <3>3. L(4) > L(3)
      BY <3>1, <3>2
    <3> QED
      BY <3>3 DEF L
  <2>4. /\ Len(pending') - 3 = Len(pending) - 4
        /\ Len(pending') - 2 = Len(pending) - 3
    BY <1>1, <1>3
  <2> QED
    BY <1>3, <2>1, <2>3, <2>4
<1> QED
  BY <1>4, <1>5 DEF HalfBalanced

\* A run on top of a balanced stack leaves it balanced below.
LEMMA PushKeepsBalance ==
    ASSUME RunsTypeOK, StackBalanced, NEW n \in 1..nremaining, PushRun(n)
    PROVE  HalfBalanced'
<1>1. pending \in Seq(Run) /\ Len(pending) \in Nat
  BY DEF RunsTypeOK
<1>2. /\ Len(pending') = Len(pending) + 1
      /\ \A j \in 1..Len(pending) : pending'[j] = pending[j]
  BY <1>1 DEF PushRun
<1>3. /\ \A j \in 1..Len(pending) - 1 : pending[j].len > pending[j + 1].len
      /\ \A j \in 1..Len(pending) - 2 :
            pending[j].len > pending[j + 1].len + pending[j + 2].len
  BY DEF StackBalanced, PushRun
<1>4. ASSUME NEW j \in 1..Len(pending') - 4
      PROVE  pending'[j].len > pending'[j + 1].len + pending'[j + 2].len
  <2>1. /\ j \in 1..Len(pending) - 2 /\ j \in 1..Len(pending)
        /\ j + 1 \in 1..Len(pending) /\ j + 2 \in 1..Len(pending)
    BY <1>1, <1>2
  <2> QED
    BY <1>2, <1>3, <2>1
<1>5. ASSUME Len(pending') >= 4
      PROVE  pending'[Len(pending') - 3].len > pending'[Len(pending') - 2].len
  <2>1. /\ Len(pending) - 2 \in 1..Len(pending) - 1
        /\ Len(pending) - 2 \in 1..Len(pending)
        /\ Len(pending) - 1 \in 1..Len(pending)
        /\ Len(pending') - 3 = Len(pending) - 2
        /\ Len(pending') - 2 = Len(pending) - 1
    BY <1>1, <1>2, <1>5
  <2>2. pending[Len(pending) - 2].len > pending[Len(pending) - 1].len
    BY <1>1, <1>3, <2>1
  <2> QED
    BY <1>2, <2>1, <2>2
<1> QED
  BY <1>4, <1>5 DEF HalfBalanced

\* Where merge_collapse stops, its two conditions balance what was left.
LEMMA CollapsedIsBalanced ==
    ASSUME RunsTypeOK, RunsAbut, HalfBalanced, CollapseAt = 0
    PROVE  /\ \A i \in 1..Len(pending) - 1 : pending[i].len > pending[i + 1].len
           /\ \A i \in 1..Len(pending) - 2 :
                pending[i].len > pending[i + 1].len + pending[i + 2].len
<1>1. pending \in Seq(Run) /\ Len(pending) \in Nat
  BY DEF RunsTypeOK
<1>2. \A j \in 1..Len(pending) : pending[j].len \in Nat /\ pending[j].len > 0
  <2>1. \A j \in 1..Len(pending) : pending[j] \in Run
    BY <1>1
  <2> QED
    BY <2>1 DEF Run, RunsAbut
<1> DEFINE L(k) == pending[Len(pending) - k].len
<1>3. CASE Len(pending) < 2
  <2>1. 1..Len(pending) - 1 = {} /\ 1..Len(pending) - 2 = {}
    BY <1>1, <1>3
  <2> QED
    BY <2>1
<1>4. CASE Len(pending) >= 2
  <2>1. ~Crowded /\ ~(Top(2) <= Top(1))
    <3>1. Shorter \in 1..Len(pending) - 1
      BY <1>1, <1>4, ShorterIsOnTop
    <3>2. Shorter # 0
      BY <1>1, <3>1
    <3>3. Len(pending) - 1 # 0 /\ ~(Len(pending) < 2)
      BY <1>1, <1>4
    <3> QED
      BY <3>2, <3>3 DEF CollapseAt
  <2>2. /\ Top(1) = L(0) /\ Top(2) = L(1) /\ Top(3) = L(2) /\ Top(4) = L(3)
    BY <1>1 DEF Top
  <2>3. /\ L(0) \in Nat /\ L(1) \in Nat
        /\ Len(pending) >= 3 => L(2) \in Nat
        /\ Len(pending) >= 4 => L(3) \in Nat
    BY <1>1, <1>2, <1>4
  <2>4. /\ L(1) > L(0)
        /\ Len(pending) >= 3 => L(2) > L(1) + L(0)
        /\ Len(pending) >= 4 => L(3) > L(2) + L(1)
    <3>1. ~(L(1) <= L(0))
      BY <2>1, <2>2
    <3>2. Len(pending) >= 3 => ~(L(2) <= L(1) + L(0))
      BY <2>1, <2>2 DEF Crowded
    <3>3. Len(pending) >= 4 => ~(L(3) <= L(2) + L(1))
      BY <2>1, <2>2 DEF Crowded
    <3>4. Len(pending) >= 4 => Len(pending) >= 3
      BY <1>1
    <3> HIDE DEF L
    <3> QED
      BY <2>3, <3>1, <3>2, <3>3, <3>4
  <2>5. ASSUME NEW i \in 1..Len(pending) - 2
        PROVE  pending[i].len > pending[i + 1].len + pending[i + 2].len
    <3>1. CASE i <= Len(pending) - 4
      BY <1>1, <3>1 DEF HalfBalanced
    <3>2. CASE i = Len(pending) - 3
      BY <1>1, <2>4, <3>2
    <3>3. CASE i = Len(pending) - 2
      BY <1>1, <2>4, <3>3
    <3> QED
      BY <1>1, <3>1, <3>2, <3>3
  <2>6. ASSUME NEW i \in 1..Len(pending) - 1
        PROVE  pending[i].len > pending[i + 1].len
    <3>1. CASE i = Len(pending) - 1
      BY <1>1, <2>4, <3>1
    <3>2. CASE i < Len(pending) - 1
      <4>1. i \in 1..Len(pending) - 2 /\ i \in 1..Len(pending)
            /\ i + 1 \in 1..Len(pending) /\ i + 2 \in 1..Len(pending)
        BY <1>1, <3>2
      <4>2. pending[i].len > pending[i + 1].len + pending[i + 2].len
        BY <2>5, <4>1
      <4> QED
        BY <1>2, <4>1, <4>2
    <3> QED
      BY <1>1, <3>1, <3>2
  <2> QED
    BY <2>5, <2>6
<1>5. Len(pending) < 2 \/ Len(pending) >= 2
  BY <1>1
<1> QED
  BY <1>3, <1>4, <1>5

-----------------------------------------------------------------------------
\* The invariant that the run stack keeps, from its parts.
LEMMA RunsStart ==
    ASSUME RunsInit
    PROVE  RunsInv
<1>1. pending = <<>> /\ Len(pending) = 0 /\ pending \in Seq(Run)
  BY DEF RunsInit
<1> QED
  BY <1>1 DEF RunsInit, RunsInv, RunsTypeOK, RunsAbut, StackBalanced

LEMMA RunsStep ==
    ASSUME RunsInv, [RunsNext]_runVars
    PROVE  RunsInv'
<1> USE DEF RunsInv
<1>0. pending \in Seq(Run) /\ Len(pending) \in Nat
  BY DEF RunsTypeOK
<1>1. ASSUME NEW n \in 1..nremaining, PushRun(n) PROVE RunsInv'
  <2>1. /\ pending' = Append(pending, [base |-> lo, len |-> n])
        /\ lo' = lo + n /\ nremaining' = nremaining - n /\ phase' = "collapse"
    BY <1>1 DEF PushRun
  <2>2. lo \in Nat /\ n \in Nat /\ n > 0 /\ nremaining - n \in Nat
    BY DEF RunsTypeOK
  <2>3. [base |-> lo, len |-> n] \in Run
    BY <2>2 DEF Run
  <2>4. /\ pending' \in Seq(Run) /\ Len(pending') = Len(pending) + 1
        /\ \A j \in 1..Len(pending) : pending'[j] = pending[j]
        /\ pending'[Len(pending) + 1] = [base |-> lo, len |-> n]
        /\ pending' # <<>>
    BY <1>0, <2>1, <2>3
  <2>5. RunsTypeOK'
    BY <2>1, <2>2, <2>4 DEF RunsTypeOK
  <2>6. RunsAbut'
    <3>1. ASSUME NEW j \in 1..Len(pending')
          PROVE  /\ pending'[j].len > 0
                 /\ pending'[j].base =
                      IF j = 1 THEN 0
                      ELSE pending'[j - 1].base + pending'[j - 1].len
      <4>1. CASE j <= Len(pending)
        <5>1. j \in 1..Len(pending) /\ (j # 1 => j - 1 \in 1..Len(pending))
          BY <1>0, <2>4, <4>1
        <5> QED
          BY <2>4, <5>1 DEF RunsAbut
      <4>2. CASE j = Len(pending) + 1
        <5>1. j # 1 => Len(pending) \in 1..Len(pending) /\ pending # <<>>
          BY <1>0, <4>2
        <5>2. j = 1 => pending = <<>>
          BY <1>0, <4>2
        <5>3. j - 1 = Len(pending)
          BY <1>0, <4>2
        <5> QED
          BY <2>2, <2>4, <4>2, <5>1, <5>2, <5>3 DEF RunsAbut
      <4> QED
        BY <1>0, <2>4, <4>1, <4>2
    <3>2. lo' = pending'[Len(pending')].base + pending'[Len(pending')].len
      BY <2>1, <2>4
    <3> QED
      BY <2>4, <3>1, <3>2 DEF RunsAbut
  <2>7. HalfBalanced'
    BY <1>1, PushKeepsBalance
  <2>8. StackBalanced'
    BY <2>1 DEF StackBalanced
  <2> QED
    BY <2>5, <2>6, <2>7, <2>8
<1>2. CASE Collapse
  <2>1. /\ Len(pending) >= 2 /\ CollapseAt \in 1..Len(pending) - 1
        /\ CollapseAt >= Len(pending) - 2 /\ MergeAt(CollapseAt)
        /\ phase = "collapse"
    BY <1>0, <1>2, CollapseIsOnTop DEF Collapse
  <2>2. RunsTypeOK' /\ RunsAbut'
    BY <2>1, MergeKeepsAbut
  <2>3. HalfBalanced'
    BY <2>1, MergeKeepsBalance
  <2>4. phase' = "collapse"
    BY <2>1 DEF MergeAt
  <2> QED
    BY <2>2, <2>3, <2>4 DEF StackBalanced
<1>3. CASE Collapsed
  <2>1. /\ phase = "collapse" /\ CollapseAt = 0 /\ phase' \in {"force", "march"}
        /\ pending' = pending /\ lo' = lo /\ nremaining' = nremaining
    BY <1>3 DEF Collapsed
  <2>2. /\ \A i \in 1..Len(pending) - 1 : pending[i].len > pending[i + 1].len
        /\ \A i \in 1..Len(pending) - 2 :
              pending[i].len > pending[i + 1].len + pending[i + 2].len
    BY <2>1, CollapsedIsBalanced
  <2> QED
    BY <2>1, <2>2 DEF RunsTypeOK, RunsAbut, StackBalanced
<1>4. CASE ForceCollapse
  <2>1. Shorter \in 1..Len(pending) - 1 /\ MergeAt(Shorter) /\ phase = "force"
    BY <1>0, <1>4, ShorterIsOnTop DEF ForceCollapse
  <2>2. RunsTypeOK' /\ RunsAbut'
    BY <2>1, MergeKeepsAbut
  <2>3. phase' = "force"
    BY <2>1 DEF MergeAt
  <2> QED
    BY <2>2, <2>3 DEF StackBalanced
<1>5. CASE EndSort
  BY <1>5 DEF EndSort, RunsTypeOK, RunsAbut, StackBalanced
<1>6. CASE UNCHANGED runVars
  BY <1>6 DEF runVars, RunsTypeOK, RunsAbut, StackBalanced, HalfBalanced
<1> QED
  BY <1>1, <1>2, <1>3, <1>4, <1>5, <1>6 DEF RunsNext, SortSucceeds, SortGivesUp

THEOREM RunsInvHolds == RunsSpec => []RunsInv
<1>1. RunsInit => RunsInv
  BY RunsStart
<1>2. RunsInv /\ [RunsNext]_runVars => RunsInv'
  BY RunsStep
<1> QED
  BY <1>1, <1>2, PTL DEF RunsSpec

\* The runs on the stack lie next to each other, none of them empty, for
\* lists of every length and runs of every length: what merge_at asserts of
\* the two runs it joins.
THEOREM RunsAlwaysAbut == RunsSpec => []RunsAbut
<1>1. RunsInv => RunsAbut
  BY DEF RunsInv
<1> QED
  BY <1>1, RunsInvHolds, PTL

\* Whenever the next run is looked for, the whole stack is in balance, though
\* merge_collapse looks at no more than its four topmost runs.
THEOREM StackAlwaysBalanced == RunsSpec => []StackBalanced
<1>1. RunsInv => StackBalanced
  BY DEF RunsInv
<1> QED
  BY <1>1, RunsInvHolds, PTL
-----------------------------------------------------------------------------
\* merge_compute_minrun returns a number.
LEMMA MinrunNat ==
    ASSUME NEW n \in Nat
    PROVE  Minrun(n) \in Nat
<1> DEFINE D == (0..n) \X (0..1)
           half(w) == <<w[1] \div 2, IF w[1] % 2 = 1 THEN 1 ELSE w[2]>>
           Step(w, f) == IF w[1] < RunMax THEN w[1] + w[2] ELSE f[half(w)]
           R == CHOOSE f : f = [w \in D |-> Step(w, f)]
           stop == [w \in D |-> w[1] < RunMax]
           val == [w \in D |-> w[1] + w[2]]
           next == [w \in D |-> IF stop[w] THEN w ELSE half(w)]
           rank == [w \in D |-> w[1]]
<1>1. Minrun(n) = R[<<n, 0>>]
    BY DEF Minrun
<1>2. Descends(D, Nat, stop, val, next, rank, n + 1)
  <2>1. stop \in [D -> BOOLEAN] /\ rank \in [D -> Nat] /\ Nat # {} /\ n + 1 \in Nat
    OBVIOUS
  <2>2. \A x \in D : rank[x] < n + 1
    OBVIOUS
  <2>3. \A x \in D : val[x] \in Nat
    OBVIOUS
  <2>4. ASSUME NEW w \in D PROVE next[w] \in D /\ (~stop[w] => rank[next[w]] < rank[w])
    <3>1. CASE stop[w]
      BY <3>1
    <3>2. CASE ~stop[w]
      <4>1. w = <<w[1], w[2]>> /\ w[1] \in 0..n /\ w[2] \in 0..1
        OBVIOUS
      <4>2. ~(w[1] < RunMax) /\ next[w] = half(w)
        BY <3>2
      <4>3. RunMax \in Nat /\ RunMax >= 2
        BY SortAssumption
      <4>4. w[1] \div 2 \in 0..n /\ w[1] \div 2 < w[1]
        BY <4>1, <4>2, <4>3
      <4>5. half(w) \in D /\ half(w)[1] < w[1]
        BY <4>1, <4>4
      <4> HIDE DEF next, half
      <4>6. rank[half(w)] = half(w)[1] /\ rank[w] = w[1]
        BY <4>5
      <4> QED
        BY <4>2, <4>5, <4>6
    <3> QED
      BY <3>1, <3>2
  <2>5. next \in [D -> D]
    <3>1. \A x \in D : next[x] \in D
      BY <2>4
    <3> QED
      BY <3>1
  <2> HIDE DEF D, stop, val, next, rank
  <2> QED
    BY <2>1, <2>2, <2>3, <2>4, <2>5 DEF Descends
<1>3. \A f : \A w \in D : Step(w, f) = IF stop[w] THEN val[w] ELSE f[next[w]]
  <2> HIDE DEF half, D
  <2> QED
    OBVIOUS
<1>4. R \in [D -> Nat]
  <2> HIDE DEF stop, val, next, rank, Step, D
  <2>1. PICK f \in [D -> Nat] : f = [w \in D |-> IF stop[w] THEN val[w] ELSE f[next[w]]]
    BY <1>2, TailRecursion
  <2>2. f = [w \in D |-> Step(w, f)]
    BY <1>3, <2>1
  <2>3. R = [w \in D |-> Step(w, R)]
    BY <2>2
  <2> HIDE DEF R
  <2>4. R = [w \in D |-> IF stop[w] THEN val[w] ELSE R[next[w]]]
    BY <1>3, <2>3
  <2> QED
    BY <1>2, <2>4, TailRange
<1> HIDE DEF R
<1>5. <<n, 0>> \in D
    OBVIOUS
<1> QED
    BY <1>1, <1>4, <1>5

\* The two runs of a merge, an item with its key, and the state of a merge.
Runs == {"a", "b"}
Cell == [key : UNION {ToSet(s) : s \in Inputs}, item : Nat]
MergeState == [cells : Seq(Cell), tmp : Seq(Cell), held : Runs,
          mode : {"none", "one", "gallopA", "gallopB"},
          at : [Runs -> Int], left : [Runs -> Nat], dest : Int,
          won : [Runs -> Int]]

\* Where the runs and the gap between them lie in the cells and in the
\* temporary array.
Laid(s, n) ==
    /\ s \in MergeState /\ Len(s.cells) = n
    /\ Forward(s) =>
        /\ s.at["a"] >= 0 /\ s.at["a"] + s.left["a"] = Len(s.tmp)
        /\ s.dest >= 0 /\ s.at["b"] = s.dest + s.left["a"]
        /\ s.at["b"] + s.left["b"] <= n
    /\ ~Forward(s) =>
        /\ s.at["b"] = s.left["b"] - 1 /\ s.left["b"] <= Len(s.tmp)
        /\ s.dest = s.at["a"] + s.left["b"] /\ s.dest < n
        /\ s.at["a"] - s.left["a"] >= -1

\* The items of a merge: what the list holds if it stops now.
Contents(s) == ToSet(Flush(s).cells)

\* No item is lost, and the temporary array is within its bounds.
Sound(s, n, room) ==
    /\ Laid(s, n) /\ {c.item : c \in Contents(s)} = 1..n
    /\ Len(s.tmp) <= room /\ Len(s.tmp) <= n \div 2

\* While a merge goes on, one run has items left, the held one at least two.
Live(s) == IF s.mode = "none" THEN s = Idle(s.cells)
           ELSE s.left[Other(s.held)] >= 1 /\ s.left[s.held] >= 2

\* The cells after k items of r were moved.
Moved(s, r, k) ==
    LET far  == IF Forward(s) THEN 0 ELSE k - 1
    IN  CopyCells(s.cells, s.dest - far, Source(s, r), s.at[r] - far, k)
Along(s, k) == IF Forward(s) THEN k ELSE -k

\* The fields after items were moved.
LEMMA TakeIs ==
    ASSUME NEW s \in MergeState, NEW r \in Runs, NEW k \in Int
    PROVE  /\ Take(s, r, k).cells = Moved(s, r, k)
           /\ Take(s, r, k).tmp = s.tmp /\ Take(s, r, k).held = s.held
           /\ Take(s, r, k).mode = s.mode /\ Take(s, r, k).won = s.won
           /\ Take(s, r, k).at = [s.at EXCEPT ![r] = s.at[r] + Along(s, k)]
           /\ Take(s, r, k).left = [s.left EXCEPT ![r] = s.left[r] - k]
           /\ Take(s, r, k).dest = s.dest + Along(s, k)
           /\ (Moved(s, r, k) \in Seq(Cell) /\ s.left[r] >= k) =>
                Take(s, r, k) \in MergeState
<1> DEFINE c == Moved(s, r, k)
           a == s.at[r] + Along(s, k)
           d == s.dest + Along(s, k)
           l == s.left[r] - k
<1>1. Take(s, r, k) = [s EXCEPT !.cells = c, !.at[r] = a, !.dest = d, !.left[r] = l]
  BY DEF Take, Moved, Along
<1>2. a \in Int /\ d \in Int /\ (s.left[r] >= k => l \in Nat)
  <2> DEFINE x == s.at[r]  y == s.dest  z == s.left[r]  e == Along(s, k)
  <2>1. x \in Int /\ y \in Int /\ z \in Nat
    BY DEF MergeState
  <2>2. e \in Int
    BY DEF Along
  <2> HIDE DEF x, y, z, e
  <2>3. x + e \in Int /\ y + e \in Int /\ (z >= k => z - k \in Nat)
    BY <2>1, <2>2
  <2> QED
    BY <2>3 DEF x, y, z, e
<1> HIDE DEF c, a, d, l
<1>3. s \in MergeState /\ r \in Runs
  OBVIOUS
<1>4. Take(s, r, k) =
        [s EXCEPT !.cells = c, !.at = [s.at EXCEPT ![r] = a], !.dest = d,
                  !.left = [s.left EXCEPT ![r] = l]]
  BY <1>1, <1>3 DEF MergeState
<1> DEFINE t == [s EXCEPT !.cells = c, !.at = [s.at EXCEPT ![r] = a], !.dest = d,
                          !.left = [s.left EXCEPT ![r] = l]]
<1>5. /\ t.cells = c /\ t.tmp = s.tmp /\ t.held = s.held /\ t.mode = s.mode
      /\ t.won = s.won /\ t.at = [s.at EXCEPT ![r] = a]
      /\ t.left = [s.left EXCEPT ![r] = l] /\ t.dest = d
  BY <1>3 DEF MergeState
<1>6. (c \in Seq(Cell) /\ s.left[r] >= k) => t \in MergeState
  <2> SUFFICES ASSUME c \in Seq(Cell), s.left[r] >= k PROVE t \in MergeState
    OBVIOUS
  <2>1. /\ [s.at EXCEPT ![r] = a] \in [Runs -> Int]
        /\ [s.left EXCEPT ![r] = l] \in [Runs -> Nat]
    BY <1>2, <1>3 DEF MergeState
  <2> QED
    BY <1>2, <1>3, <2>1 DEF MergeState
<1> HIDE DEF t
<1> QED
  BY <1>4, <1>5, <1>6 DEF c, a, d, l, t

\* The held items, from HeldFrom on, belong behind Gap; what the cells hold
\* there is stale.
Gap(s) == IF Forward(s) THEN s.dest ELSE s.dest - s.left["b"] + 1
HeldFrom(s) == IF Forward(s) THEN s.at["a"] ELSE 0
Filled(s, i) == IF Gap(s) < i /\ i <= Gap(s) + s.left[s.held]
                THEN s.tmp[i - Gap(s) + HeldFrom(s)] ELSE s.cells[i]

\* What a merge that lies well can be read for.
LEMMA LaidIs ==
    ASSUME NEW n \in Nat, NEW s, Laid(s, n)
    PROVE  /\ s \in MergeState /\ Len(s.cells) = n
           /\ s.cells \in Seq(Cell) /\ s.tmp \in Seq(Cell)
           /\ DOMAIN s.cells = 1..n /\ Len(s.tmp) \in Nat
           /\ \A i \in 1..n : s.cells[i] \in Cell
           /\ \A i \in 1..Len(s.tmp) : s.tmp[i] \in Cell
           /\ s.at["a"] \in Int /\ s.at["b"] \in Int /\ s.dest \in Int
           /\ s.left["a"] \in Nat /\ s.left["b"] \in Nat
           /\ s.held \in Runs
           /\ Forward(s) <=> s.held = "a"
           /\ ~Forward(s) <=> s.held = "b"
<1>1. s \in MergeState /\ Len(s.cells) = n
  BY DEF Laid
<1>2. /\ s.cells \in Seq(Cell) /\ s.tmp \in Seq(Cell)
      /\ s.at \in [Runs -> Int] /\ s.left \in [Runs -> Nat] /\ s.dest \in Int
      /\ s.held \in Runs
  BY <1>1 DEF MergeState
<1>3. "a" \in Runs /\ "b" \in Runs /\ \A r \in Runs : r # "a" <=> r = "b"
  BY DEF Runs
<1>4. /\ s.at["a"] \in Int /\ s.at["b"] \in Int
      /\ s.left["a"] \in Nat /\ s.left["b"] \in Nat
  BY <1>2, <1>3
<1>5. (Forward(s) <=> s.held = "a") /\ (~Forward(s) <=> s.held = "b")
  BY <1>2, <1>3 DEF Forward
<1>6. /\ DOMAIN s.cells = 1..n /\ \A i \in 1..n : s.cells[i] \in Cell
      /\ Len(s.tmp) \in Nat /\ \A i \in 1..Len(s.tmp) : s.tmp[i] \in Cell
  BY <1>1, <1>2
<1> QED
  BY <1>1, <1>2, <1>4, <1>5, <1>6

\* The gap lies in the cells, and what fills it in the temporary array.
LEMMA GapIs ==
    ASSUME NEW n \in Nat, NEW s, Laid(s, n)
    PROVE  /\ Gap(s) \in Nat /\ HeldFrom(s) \in Nat /\ s.left[s.held] \in Nat
           /\ Gap(s) + s.left[s.held] <= n
           /\ HeldFrom(s) + s.left[s.held] <= Len(s.tmp)
<1>1. CASE Forward(s)
  <2>1. /\ s.held = "a" /\ Gap(s) = s.dest /\ HeldFrom(s) = s.at["a"]
        /\ s.left["a"] \in Nat /\ s.dest \in Int /\ s.at["a"] \in Int
        /\ s.left["b"] \in Nat /\ Len(s.tmp) \in Nat /\ s.at["b"] \in Int
    BY <1>1, LaidIs DEF Gap, HeldFrom
  <2>2. /\ s.at["a"] >= 0 /\ s.at["a"] + s.left["a"] = Len(s.tmp)
        /\ s.dest >= 0 /\ s.at["b"] = s.dest + s.left["a"]
        /\ s.at["b"] + s.left["b"] <= n
    BY <1>1 DEF Laid
  <2> QED
    BY <2>1, <2>2, SMTT(30)
<1>2. CASE ~Forward(s)
  <2>1. /\ s.held = "b" /\ Gap(s) = s.dest - s.left["b"] + 1 /\ HeldFrom(s) = 0
        /\ s.left["a"] \in Nat /\ s.dest \in Int /\ s.at["a"] \in Int
        /\ s.left["b"] \in Nat /\ Len(s.tmp) \in Nat
    BY <1>2, LaidIs DEF Gap, HeldFrom
  <2>2. /\ s.left["b"] <= Len(s.tmp)
        /\ s.dest = s.at["a"] + s.left["b"] /\ s.dest < n
        /\ s.at["a"] - s.left["a"] >= -1
    BY <1>2 DEF Laid
  <2> DEFINE g == Gap(s)  h == HeldFrom(s)  la == s.left["a"]  lb == s.left["b"]
             aa == s.at["a"]  d == s.dest  lt == Len(s.tmp)
  <2>3. /\ g = d - lb + 1 /\ h = 0 /\ la \in Nat /\ d \in Int /\ aa \in Int
        /\ lb \in Nat /\ lt \in Nat
        /\ lb <= lt /\ d = aa + lb /\ d < n /\ aa - la >= -1
    BY <2>1, <2>2
  <2> HIDE DEF g, h, la, lb, aa, d, lt
  <2>4. g \in Nat /\ h \in Nat /\ lb \in Nat /\ g + lb <= n /\ h + lb <= lt
    BY <2>3
  <2> QED
    BY <2>1, <2>4 DEF g, h, lb, lt
<1> QED
  BY <1>1, <1>2

\* Every cell after items were moved.
LEMMA MovedIs ==
    ASSUME NEW n \in Nat, NEW s, Laid(s, n), NEW r \in Runs, NEW k \in 0..s.left[r]
    PROVE  /\ Moved(s, r, k) \in Seq(Cell) /\ Len(Moved(s, r, k)) = n
           /\ Forward(s) => \A i \in 1..n :
                Moved(s, r, k)[i] = IF s.dest < i /\ i <= s.dest + k
                                    THEN Source(s, r)[i - s.dest + s.at[r]]
                                    ELSE s.cells[i]
           /\ ~Forward(s) => \A i \in 1..n :
                Moved(s, r, k)[i] = IF s.dest - k + 1 < i /\ i <= s.dest + 1
                                    THEN Source(s, r)[i - s.dest + s.at[r]]
                                    ELSE s.cells[i]
<1>1. /\ s \in MergeState /\ Len(s.cells) = n
      /\ s.cells \in Seq(Cell) /\ s.tmp \in Seq(Cell)
      /\ DOMAIN s.cells = 1..n /\ Len(s.tmp) \in Nat
      /\ \A i \in 1..n : s.cells[i] \in Cell
      /\ \A i \in 1..Len(s.tmp) : s.tmp[i] \in Cell
      /\ s.at["a"] \in Int /\ s.at["b"] \in Int /\ s.dest \in Int
      /\ s.left["a"] \in Nat /\ s.left["b"] \in Nat
  BY LaidIs
<1> DEFINE d == s.dest  aa == s.at["a"]  ab == s.at["b"]
           la == s.left["a"]  lb == s.left["b"]  lt == Len(s.tmp)
<1>a. /\ d \in Int /\ aa \in Int /\ ab \in Int /\ la \in Nat /\ lb \in Nat
      /\ lt \in Nat
  BY <1>1
<1>2. r \in {"a", "b"} /\ k \in Nat /\ k <= s.left[r]
  BY <1>1 DEF Runs
<1>3. CASE Forward(s)
  <2>a. aa >= 0 /\ aa + la = lt /\ d >= 0 /\ ab = d + la /\ ab + lb <= n
    BY <1>3 DEF Laid
  <2>1. /\ s.held = "a" /\ s.at["a"] >= 0 /\ s.at["a"] + s.left["a"] = Len(s.tmp)
        /\ s.dest >= 0 /\ s.at["b"] = s.dest + s.left["a"]
        /\ s.at["b"] + s.left["b"] <= n
    BY <1>3, LaidIs DEF Laid
  <2>2. Moved(s, r, k) =
          [i \in 1..n |-> IF s.dest - 0 < i /\ i <= s.dest - 0 + k
                          THEN Source(s, r)[i - (s.dest - 0) + (s.at[r] - 0)]
                          ELSE s.cells[i]]
    BY <1>1, <1>3 DEF Moved, CopyCells
  <2>3. s.at[r] \in Int
    BY <1>1, <1>2
  <2>4. ASSUME NEW i \in 1..n
        PROVE  Moved(s, r, k)[i] = IF s.dest < i /\ i <= s.dest + k
                                   THEN Source(s, r)[i - s.dest + s.at[r]]
                                   ELSE s.cells[i]
    <3>1. /\ s.dest - 0 = s.dest /\ s.at[r] - 0 = s.at[r]
      BY <1>1, <2>3
    <3>2. Moved(s, r, k)[i] = IF s.dest - 0 < i /\ i <= s.dest - 0 + k
                          THEN Source(s, r)[i - (s.dest - 0) + (s.at[r] - 0)]
                          ELSE s.cells[i]
      BY <2>2
    <3> QED
      BY <3>1, <3>2
  <2>5. ASSUME NEW i \in 1..n, s.dest < i, i <= s.dest + k
        PROVE  Source(s, r)[i - s.dest + s.at[r]] \in Cell
    <3>1. CASE r = "a"
      <4>1. i - d + aa \in 1..lt
        <5>1. d < i /\ i <= d + k /\ k <= la /\ i \in Int /\ k \in Int
          BY <1>2, <2>5, <3>1
        <5> HIDE DEF d, aa, ab, la, lb, lt
        <5> QED
          BY <1>a, <2>a, <5>1
      <4> QED
        BY <1>1, <2>1, <3>1, <4>1 DEF Source
    <3>2. CASE r = "b"
      <4>1. i - d + ab \in 1..n
        <5>1. d < i /\ i <= d + k /\ k <= lb /\ i \in Int /\ k \in Int
          BY <1>2, <2>5, <3>2
        <5> HIDE DEF d, aa, ab, la, lb, lt
        <5> QED
          BY <1>a, <2>a, <5>1
      <4> QED
        BY <1>1, <2>1, <3>2, <4>1 DEF Source
    <3> QED
      BY <1>2, <3>1, <3>2
  <2>6. \A i \in 1..n : Moved(s, r, k)[i] \in Cell
    BY <1>1, <2>4, <2>5
  <2>7. Moved(s, r, k) \in [1..n -> Cell]
    BY <2>2, <2>6
  <2> QED
    BY <1>3, <2>4, <2>7
<1>4. CASE ~Forward(s)
  <2>a. ab = lb - 1 /\ lb <= lt /\ d = aa + lb /\ d < n /\ aa - la >= -1
    BY <1>4 DEF Laid
  <2>1. /\ s.held = "b" /\ s.at["b"] = s.left["b"] - 1 /\ s.left["b"] <= Len(s.tmp)
        /\ s.dest = s.at["a"] + s.left["b"] /\ s.dest < n
        /\ s.at["a"] - s.left["a"] >= -1
    BY <1>4, LaidIs DEF Laid
  <2>2. Moved(s, r, k) =
          [i \in 1..n |-> IF s.dest - (k - 1) < i /\ i <= s.dest - (k - 1) + k
                          THEN Source(s, r)[i - (s.dest - (k - 1)) + (s.at[r] - (k - 1))]
                          ELSE s.cells[i]]
    BY <1>1, <1>4 DEF Moved, CopyCells
  <2>3. s.at[r] \in Int
    BY <1>1, <1>2
  <2>4. ASSUME NEW i \in 1..n
        PROVE  Moved(s, r, k)[i] = IF s.dest - k + 1 < i /\ i <= s.dest + 1
                                   THEN Source(s, r)[i - s.dest + s.at[r]]
                                   ELSE s.cells[i]
    <3>1. /\ s.dest - (k - 1) = s.dest - k + 1 /\ s.dest - (k - 1) + k = s.dest + 1
          /\ i - (s.dest - (k - 1)) + (s.at[r] - (k - 1)) = i - s.dest + s.at[r]
      <4> DEFINE x == s.at[r]
      <4>1. d \in Int /\ x \in Int /\ k \in Int /\ i \in Int
        BY <1>a, <1>2, <2>3
      <4> HIDE DEF d, x
      <4>2. /\ d - (k - 1) = d - k + 1 /\ d - (k - 1) + k = d + 1
            /\ i - (d - (k - 1)) + (x - (k - 1)) = i - d + x
        BY <4>1
      <4> QED
        BY <4>2 DEF d, x
    <3>2. Moved(s, r, k)[i] =
                IF s.dest - (k - 1) < i /\ i <= s.dest - (k - 1) + k
                THEN Source(s, r)[i - (s.dest - (k - 1)) + (s.at[r] - (k - 1))]
                ELSE s.cells[i]
      BY <2>2
    <3> QED
      BY <3>1, <3>2
  <2>5. ASSUME NEW i \in 1..n, s.dest - k + 1 < i, i <= s.dest + 1
        PROVE  Source(s, r)[i - s.dest + s.at[r]] \in Cell
    <3>1. CASE r = "b"
      <4>1. i - d + ab \in 1..lt
        <5>1. d - k + 1 < i /\ i <= d + 1 /\ k <= lb /\ i \in Int /\ k \in Int
          BY <1>2, <2>5, <3>1
        <5> HIDE DEF d, aa, ab, la, lb, lt
        <5> QED
          BY <1>a, <2>a, <5>1
      <4> QED
        BY <1>1, <2>1, <3>1, <4>1 DEF Source
    <3>2. CASE r = "a"
      <4>1. i - d + aa \in 1..n
        <5>1. d - k + 1 < i /\ i <= d + 1 /\ k <= la /\ i \in Int /\ k \in Int
          BY <1>2, <2>5, <3>2
        <5> HIDE DEF d, aa, ab, la, lb, lt
        <5> QED
          BY <1>a, <2>a, <5>1
      <4> QED
        BY <1>1, <2>1, <3>2, <4>1 DEF Source
    <3> QED
      BY <1>2, <3>1, <3>2
  <2>6. \A i \in 1..n : Moved(s, r, k)[i] \in Cell
    BY <1>1, <2>4, <2>5
  <2>7. Moved(s, r, k) \in [1..n -> Cell]
    BY <2>2, <2>6
  <2> QED
    BY <1>4, <2>4, <2>7
<1> QED
  BY <1>3, <1>4

\* Flush fills the gap with the items that are held.
LEMMA FlushIs ==
    ASSUME NEW n \in Nat, NEW s, Laid(s, n)
    PROVE  /\ Flush(s).cells \in Seq(Cell) /\ Len(Flush(s).cells) = n
           /\ \A i \in 1..n : Flush(s).cells[i] = Filled(s, i)
<1> DEFINE h == s.held
           k == s.left[h]
           c == Flush(s).cells
<1>1. /\ s \in MergeState /\ h \in Runs /\ (Forward(s) <=> h = "a")
      /\ (~Forward(s) <=> h = "b")
      /\ s.at["a"] \in Int /\ s.at["b"] \in Int /\ s.dest \in Int
      /\ s.left["a"] \in Nat /\ s.left["b"] \in Nat
  BY LaidIs
<1>2. k \in Nat /\ k \in 0..s.left[h] /\ k \in Int
  BY <1>1, GapIs
<1>3. c = Moved(s, h, k)
  BY <1>1, <1>2, TakeIs, ZenonT(40) DEF Flush
<1>4. /\ Moved(s, h, k) \in Seq(Cell) /\ Len(Moved(s, h, k)) = n
      /\ Forward(s) => \A i \in 1..n :
            Moved(s, h, k)[i] = IF s.dest < i /\ i <= s.dest + k
                                THEN Source(s, h)[i - s.dest + s.at[h]]
                                ELSE s.cells[i]
      /\ ~Forward(s) => \A i \in 1..n :
            Moved(s, h, k)[i] = IF s.dest - k + 1 < i /\ i <= s.dest + 1
                                THEN Source(s, h)[i - s.dest + s.at[h]]
                                ELSE s.cells[i]
  <2> HIDE DEF h, k
  <2> QED
    BY <1>1, <1>2, MovedIs
<1>5. Source(s, h) = s.tmp
  BY DEF Source
<1> HIDE DEF c
<1>6. ASSUME NEW i \in 1..n PROVE c[i] = Filled(s, i)
  <2>1. CASE Forward(s)
    <3>1. c[i] = IF s.dest < i /\ i <= s.dest + k
                 THEN s.tmp[i - s.dest + s.at["a"]] ELSE s.cells[i]
      BY <1>1, <1>3, <1>4, <1>5, <2>1
    <3>2. Gap(s) = s.dest /\ HeldFrom(s) = s.at["a"]
      BY <2>1 DEF Gap, HeldFrom
    <3> QED
      BY <3>1, <3>2 DEF Filled
  <2>2. CASE ~Forward(s)
    <3> DEFINE d == s.dest  l == s.left["b"]
    <3>0. h = "b" /\ k = l /\ d \in Int /\ l \in Nat /\ i \in Int
      BY <1>1, <2>2
    <3>1. c[i] = IF d - l + 1 < i /\ i <= d + 1
                 THEN s.tmp[i - d + s.at["b"]] ELSE s.cells[i]
      BY <1>3, <1>4, <1>5, <2>2, <3>0
    <3>2. Gap(s) = d - l + 1 /\ HeldFrom(s) = 0 /\ s.at["b"] = l - 1
      BY <2>2 DEF Gap, HeldFrom, Laid
    <3>3. Filled(s, i) = IF d - l + 1 < i /\ i <= (d - l + 1) + l
                         THEN s.tmp[i - (d - l + 1) + 0] ELSE s.cells[i]
      BY <3>0, <3>2 DEF Filled
    <3> HIDE DEF d, l
    <3>4. (d - l + 1) + l = d + 1 /\ i - (d - l + 1) + 0 = i - d + (l - 1)
      BY <3>0
    <3> QED
      BY <3>1, <3>2, <3>3, <3>4
  <2> QED
    BY <2>1, <2>2
<1> QED
  BY <1>3, <1>4, <1>6 DEF c

\* d is c with the k and the l cells behind p exchanged.
Rotates(c, d, n, p, k, l) ==
    /\ n \in Nat /\ p \in Nat /\ k \in Nat /\ l \in Nat /\ p + k + l <= n
    /\ \A i \in 1..n : d[i] = IF p < i /\ i <= p + k THEN c[i + l]
                              ELSE IF p + k < i /\ i <= p + k + l THEN c[i - k]
                              ELSE c[i]

\* A rotation loses nothing.
LEMMA RotationKeeps ==
    ASSUME NEW c, NEW d, NEW n, NEW p, NEW k, NEW l, Rotates(c, d, n, p, k, l)
    PROVE  {d[i] : i \in 1..n} = {c[i] : i \in 1..n}
<1> USE DEF Rotates
<1>1. ASSUME NEW i \in 1..n PROVE \E j \in 1..n : d[i] = c[j]
  <2>1. CASE p < i /\ i <= p + k
    <3>1. i + l \in 1..n /\ d[i] = c[i + l]
      BY <2>1
    <3> QED
      BY <3>1
  <2>2. CASE p + k < i /\ i <= p + k + l
    <3>1. i - k \in 1..n /\ d[i] = c[i - k]
      BY <2>2
    <3> QED
      BY <3>1
  <2>3. CASE ~(p < i /\ i <= p + k) /\ ~(p + k < i /\ i <= p + k + l)
    BY <2>3
  <2> QED
    BY <2>1, <2>2, <2>3
<1>2. ASSUME NEW j \in 1..n PROVE \E i \in 1..n : d[i] = c[j]
  <2>1. CASE p < j /\ j <= p + l
    <3> DEFINE i == j + k
    <3>1. i \in 1..n /\ p + k < i /\ i <= p + k + l /\ i - k = j
      BY <2>1
    <3> HIDE DEF i
    <3>2. ~(p < i /\ i <= p + k)
      BY <3>1
    <3>3. d[i] = c[i - k]
      BY <3>1, <3>2
    <3> QED
      BY <3>1, <3>3
  <2>2. CASE p + l < j /\ j <= p + l + k
    <3> DEFINE i == j - l
    <3>1. i \in 1..n /\ p < i /\ i <= p + k /\ i + l = j
      BY <2>2
    <3> HIDE DEF i
    <3>2. d[i] = c[i + l]
      BY <3>1
    <3> QED
      BY <3>1, <3>2
  <2>3. CASE ~(p < j /\ j <= p + l) /\ ~(p + l < j /\ j <= p + l + k)
    <3>1. ~(p < j /\ j <= p + k) /\ ~(p + k < j /\ j <= p + k + l)
      BY <2>3
    <3>2. d[j] = c[j]
      BY <3>1
    <3> QED
      BY <3>2
  <2> QED
    BY <2>1, <2>2, <2>3
<1> HIDE DEF Rotates
<1> QED
  BY <1>1, <1>2

\* Moving items keeps the runs and the gap between them together.
LEMMA TakeLaid ==
    ASSUME NEW n \in Nat, NEW s, Laid(s, n), NEW r \in Runs, NEW k \in 0..s.left[r]
    PROVE  Laid(Take(s, r, k), n)
<1> DEFINE t == Take(s, r, k)
           e == Along(s, k)
           d == s.dest  aa == s.at["a"]  ab == s.at["b"]
           la == s.left["a"]  lb == s.left["b"]  lt == Len(s.tmp)
<1>1. /\ s \in MergeState /\ s.held \in Runs
      /\ d \in Int /\ aa \in Int /\ ab \in Int /\ la \in Nat /\ lb \in Nat
      /\ lt \in Nat /\ (Forward(s) <=> s.held = "a")
  BY LaidIs
<1>2. r \in {"a", "b"} /\ k \in Nat /\ k <= s.left[r] /\ k \in Int
  <2>1. s.left[r] \in Nat
    BY <1>1 DEF MergeState
  <2> QED
    BY <2>1 DEF Runs
<1>3. Moved(s, r, k) \in Seq(Cell) /\ Len(Moved(s, r, k)) = n
  BY MovedIs
<1>4. /\ t.cells = Moved(s, r, k) /\ t.tmp = s.tmp /\ t.held = s.held
      /\ t.at = [s.at EXCEPT ![r] = s.at[r] + e]
      /\ t.left = [s.left EXCEPT ![r] = s.left[r] - k] /\ t.dest = d + e
      /\ (Moved(s, r, k) \in Seq(Cell) /\ s.left[r] >= k) => t \in MergeState
  BY <1>1, <1>2, TakeIs
<1>5. s.left[r] >= k
  <2>1. s.left[r] \in Nat
    BY <1>1 DEF MergeState
  <2> QED
    BY <1>2, <2>1
<1>6. t \in MergeState /\ Len(t.cells) = n
  BY <1>3, <1>4, <1>5
<1>7. Forward(t) <=> Forward(s)
  BY <1>4 DEF Forward
<1>8. /\ t.at["a"] = IF r = "a" THEN aa + e ELSE aa
      /\ t.at["b"] = IF r = "b" THEN ab + e ELSE ab
      /\ t.left["a"] = IF r = "a" THEN la - k ELSE la
      /\ t.left["b"] = IF r = "b" THEN lb - k ELSE lb
      /\ t.dest = d + e /\ Len(t.tmp) = lt
      /\ r = "a" => k <= la
      /\ r = "b" => k <= lb
  <2>1. s.at \in [Runs -> Int] /\ s.left \in [Runs -> Nat] /\ "a" \in Runs /\ "b" \in Runs
    BY <1>1 DEF MergeState, Runs
  <2> HIDE DEF t, e
  <2> QED
    BY <1>2, <1>4, <2>1
<1> HIDE DEF t
<1>9. ASSUME Forward(s) PROVE Laid(t, n)
  <2>1. aa >= 0 /\ aa + la = lt /\ d >= 0 /\ ab = d + la /\ ab + lb <= n
    BY <1>9 DEF Laid
  <2>2. e = k
    BY <1>9 DEF Along
  <2> DEFINE taa == t.at["a"]  tab == t.at["b"]  tla == t.left["a"]
             tlb == t.left["b"]  tlt == Len(t.tmp)  td == t.dest
  <2>3. /\ taa = IF r = "a" THEN aa + k ELSE aa
        /\ tab = IF r = "b" THEN ab + k ELSE ab
        /\ tla = IF r = "a" THEN la - k ELSE la
        /\ tlb = IF r = "b" THEN lb - k ELSE lb
        /\ td = d + k /\ tlt = lt
        /\ r = "a" => k <= la
        /\ r = "b" => k <= lb
    BY <1>8, <2>2
  <2>4. taa >= 0 /\ taa + tla = tlt /\ td >= 0 /\ tab = td + tla /\ tab + tlb <= n
    <3> HIDE DEF taa, tab, tla, tlb, tlt, td, d, aa, ab, la, lb, lt, e
    <3>1. CASE r = "a"
      BY <1>1, <1>2, <2>1, <2>3, <3>1
    <3>2. CASE r = "b"
      BY <1>1, <1>2, <2>1, <2>3, <3>2
    <3> QED
      BY <1>2, <3>1, <3>2
  <2> QED
    BY <1>6, <1>7, <1>9, <2>4 DEF Laid
<1>10. ASSUME ~Forward(s) PROVE Laid(t, n)
  <2>1. ab = lb - 1 /\ lb <= lt /\ d = aa + lb /\ d < n /\ aa - la >= -1
    BY <1>10 DEF Laid
  <2>2. e = -k
    BY <1>10 DEF Along
  <2> DEFINE taa == t.at["a"]  tab == t.at["b"]  tla == t.left["a"]
             tlb == t.left["b"]  tlt == Len(t.tmp)  td == t.dest
  <2>3. /\ taa = IF r = "a" THEN aa + (-k) ELSE aa
        /\ tab = IF r = "b" THEN ab + (-k) ELSE ab
        /\ tla = IF r = "a" THEN la - k ELSE la
        /\ tlb = IF r = "b" THEN lb - k ELSE lb
        /\ td = d + (-k) /\ tlt = lt
        /\ r = "a" => k <= la
        /\ r = "b" => k <= lb
    BY <1>8, <2>2
  <2>4. /\ tab = tlb - 1 /\ tlb <= tlt /\ td = taa + tlb /\ td < n
        /\ taa - tla >= -1
    <3> HIDE DEF taa, tab, tla, tlb, tlt, td, d, aa, ab, la, lb, lt, e
    <3>1. CASE r = "a"
      BY <1>1, <1>2, <2>1, <2>3, <3>1
    <3>2. CASE r = "b"
      BY <1>1, <1>2, <2>1, <2>3, <3>2
    <3> QED
      BY <1>2, <3>1, <3>2
  <2> QED
    BY <1>6, <1>7, <1>10, <2>4 DEF Laid
<1> QED
  BY <1>9, <1>10 DEF t

\* What the cells hold once the gap is filled.
LEMMA ContentsIs ==
    ASSUME NEW n \in Nat, NEW s, Laid(s, n)
    PROVE  /\ Contents(s) = {Flush(s).cells[i] : i \in 1..n}
           /\ Contents(s) = {Filled(s, i) : i \in 1..n}
<1> DEFINE c == Flush(s).cells
<1>1. c \in Seq(Cell) /\ Len(c) = n /\ \A i \in 1..n : c[i] = Filled(s, i)
  BY FlushIs
<1>2. Contents(s) = ToSet(c)
  BY DEF Contents
<1> HIDE DEF c
<1>3. ToSet(c) = {c[i] : i \in 1..Len(c)}
  BY <1>1, ToSetIs
<1>4. ToSet(c) = {c[i] : i \in 1..n}
  BY <1>1, <1>3
<1>5. {c[i] : i \in 1..n} = {Filled(s, i) : i \in 1..n}
  BY <1>1
<1> QED
  BY <1>2, <1>4, <1>5 DEF c

\* The list as it is if the merge stops now.
View(s) == Flush(s).cells

\* What moving items does to it: nothing where they are of the held run, which
\* fills the gap's near end; those of the other run change places with what is
\* held.
LEMMA TakeView ==
    ASSUME NEW n \in Nat, NEW s, Laid(s, n), NEW r \in Runs, NEW k \in 0..s.left[r]
    PROVE  /\ r = s.held => \A i \in 1..n : View(Take(s, r, k))[i] = View(s)[i]
           /\ r # s.held /\ Forward(s) =>
                Rotates(View(s), View(Take(s, r, k)), n, s.dest, k, s.left["a"])
           /\ r # s.held /\ ~Forward(s) =>
                Rotates(View(s), View(Take(s, r, k)), n,
                        s.dest - s.left["b"] + 1 - k, s.left["b"], k)
<1> DEFINE t == Take(s, r, k)
           e == Along(s, k)
           mv == Moved(s, r, k)
           src == Source(s, r)
           tmp == s.tmp
           cells == s.cells
           d == s.dest  aa == s.at["a"]  ab == s.at["b"]
           la == s.left["a"]  lb == s.left["b"]  lt == Len(s.tmp)
<1>1. /\ s \in MergeState /\ s.held \in Runs
      /\ d \in Int /\ aa \in Int /\ ab \in Int /\ la \in Nat /\ lb \in Nat
      /\ lt \in Nat /\ (Forward(s) <=> s.held = "a") /\ (~Forward(s) <=> s.held = "b")
  BY LaidIs
<1>2. r \in {"a", "b"} /\ k \in Nat /\ k <= s.left[r] /\ k \in Int
  <2>1. s.left[r] \in Nat
    BY <1>1 DEF MergeState
  <2> QED
    BY <2>1 DEF Runs
<1>3. Laid(t, n)
  BY TakeLaid
<1>4. /\ t.cells = mv /\ t.tmp = tmp /\ t.held = s.held
      /\ t.at = [s.at EXCEPT ![r] = s.at[r] + e]
      /\ t.left = [s.left EXCEPT ![r] = s.left[r] - k] /\ t.dest = d + e
  BY <1>1, <1>2, TakeIs
<1>5. Forward(t) <=> Forward(s)
  BY <1>4 DEF Forward
<1>6. /\ t.at["a"] = IF r = "a" THEN aa + e ELSE aa
      /\ t.left["a"] = IF r = "a" THEN la - k ELSE la
      /\ t.left["b"] = IF r = "b" THEN lb - k ELSE lb
      /\ t.dest = d + e
      /\ r = "a" => k <= la
      /\ r = "b" => k <= lb
  <2>1. s.at \in [Runs -> Int] /\ s.left \in [Runs -> Nat] /\ "a" \in Runs /\ "b" \in Runs
    BY <1>1 DEF MergeState, Runs
  <2> HIDE DEF t, e
  <2> QED
    BY <1>2, <1>4, <2>1
<1>7. /\ Forward(s) => \A i \in 1..n :
            mv[i] = IF d < i /\ i <= d + k THEN src[i - d + s.at[r]] ELSE cells[i]
      /\ ~Forward(s) => \A i \in 1..n :
            mv[i] = IF d - k + 1 < i /\ i <= d + 1 THEN src[i - d + s.at[r]]
                    ELSE cells[i]
  BY MovedIs
<1>8. src = IF r = s.held THEN tmp ELSE cells
  BY DEF Source
<1>9. /\ Forward(s) => /\ aa >= 0 /\ aa + la = lt /\ d >= 0 /\ ab = d + la
                       /\ ab + lb <= n
      /\ ~Forward(s) => /\ ab = lb - 1 /\ lb <= lt /\ d = aa + lb /\ d < n
                        /\ aa - la >= -1
  BY DEF Laid
<1>10. /\ Forward(s) => \A i : Filled(s, i) =
                IF d < i /\ i <= d + la THEN tmp[i - d + aa] ELSE cells[i]
       /\ ~Forward(s) => \A i : Filled(s, i) =
                IF d - lb + 1 < i /\ i <= d - lb + 1 + lb
                THEN tmp[i - (d - lb + 1) + 0] ELSE cells[i]
  BY <1>1 DEF Filled, Gap, HeldFrom
<1> HIDE DEF t, e, mv, src, tmp, cells, d, aa, ab, la, lb, lt
<1>11. /\ Forward(s) => \A i : Filled(t, i) =
                IF t.dest < i /\ i <= t.dest + t.left["a"]
                THEN tmp[i - t.dest + t.at["a"]] ELSE mv[i]
       /\ ~Forward(s) => \A i : Filled(t, i) =
                IF t.dest - t.left["b"] + 1 < i
                   /\ i <= t.dest - t.left["b"] + 1 + t.left["b"]
                THEN tmp[i - (t.dest - t.left["b"] + 1) + 0] ELSE mv[i]
  BY <1>1, <1>4, <1>5 DEF Filled, Gap, HeldFrom
<1>12. (Forward(s) => e = k) /\ (~Forward(s) => e = -k)
  BY DEF Along, e
<1>13. ASSUME r = s.held PROVE \A i \in 1..n : View(t)[i] = View(s)[i]
  <2>1. ASSUME NEW i \in 1..n PROVE Filled(t, i) = Filled(s, i)
    <3>1. CASE Forward(s)
      <4>0. r = "a" /\ src = tmp /\ s.at[r] = aa
        BY <1>1, <1>8, <1>13, <3>1 DEF aa
      <4>1. Filled(t, i) = IF d + k < i /\ i <= (d + k) + (la - k)
                           THEN tmp[i - (d + k) + (aa + k)] ELSE mv[i]
        BY <1>6, <1>11, <1>12, <3>1, <4>0
      <4>2. mv[i] = IF d < i /\ i <= d + k THEN tmp[i - d + aa] ELSE cells[i]
        BY <1>7, <3>1, <4>0
      <4>3. Filled(s, i) = IF d < i /\ i <= d + la THEN tmp[i - d + aa] ELSE cells[i]
        BY <1>10, <3>1
      <4>4. /\ (d + k) + (la - k) = d + la /\ i - (d + k) + (aa + k) = i - d + aa
            /\ k <= la /\ i \in Int
        BY <1>1, <1>2, <1>6, <4>0
      <4> QED
        BY <1>1, <1>2, <4>1, <4>2, <4>3, <4>4
    <3>2. CASE ~Forward(s)
      <4>0. r = "b" /\ src = tmp /\ s.at[r] = ab
        BY <1>1, <1>8, <1>13, <3>2 DEF ab
      <4>1. Filled(t, i) =
                IF (d + (-k)) - (lb - k) + 1 < i
                   /\ i <= (d + (-k)) - (lb - k) + 1 + (lb - k)
                THEN tmp[i - ((d + (-k)) - (lb - k) + 1) + 0] ELSE mv[i]
        BY <1>6, <1>11, <1>12, <3>2, <4>0
      <4>2. mv[i] = IF d - k + 1 < i /\ i <= d + 1 THEN tmp[i - d + ab] ELSE cells[i]
        BY <1>7, <3>2, <4>0
      <4>3. Filled(s, i) = IF d - lb + 1 < i /\ i <= d - lb + 1 + lb
                           THEN tmp[i - (d - lb + 1) + 0] ELSE cells[i]
        BY <1>10, <3>2
      <4>4. /\ (d + (-k)) - (lb - k) + 1 = d - lb + 1
            /\ d - lb + 1 + (lb - k) = d - k + 1
            /\ d - lb + 1 + lb = d + 1
            /\ i - (d - lb + 1) + 0 = i - d + ab
            /\ k <= lb /\ i \in Int
        BY <1>1, <1>2, <1>6, <1>9, <3>2, <4>0
      <4> QED
        BY <1>1, <1>2, <4>1, <4>2, <4>3, <4>4
    <3> QED
      BY <3>1, <3>2
  <2>2. /\ \A i \in 1..n : View(s)[i] = Filled(s, i)
        /\ \A i \in 1..n : View(t)[i] = Filled(t, i)
    BY <1>3, FlushIs DEF View
  <2> QED
    BY <2>1, <2>2
<1>14. ASSUME r # s.held
       PROVE  /\ Forward(s) => Rotates(View(s), View(t), n, d, k, la)
              /\ ~Forward(s) => Rotates(View(s), View(t), n, d - lb + 1 - k, lb, k)
  <2> DEFINE c == Flush(s).cells
             f == Flush(t).cells
  <2>1. /\ \A i \in 1..n : c[i] = Filled(s, i)
        /\ \A i \in 1..n : f[i] = Filled(t, i)
    BY <1>3, FlushIs
  <2> HIDE DEF c, f
  <2>3. ASSUME Forward(s) PROVE Rotates(c, f, n, d, k, la)
    <3>0. r = "b" /\ src = cells /\ s.at[r] = ab /\ k <= lb
      BY <1>1, <1>2, <1>6, <1>8, <1>14, <2>3 DEF ab
    <3>1. d \in Nat /\ k \in Nat /\ la \in Nat /\ d + k + la <= n
      BY <1>1, <1>2, <1>9, <2>3, <3>0
    <3>2. ASSUME NEW i \in 1..n
          PROVE  f[i] = IF d < i /\ i <= d + k THEN c[i + la]
                        ELSE IF d + k < i /\ i <= d + k + la THEN c[i - k]
                        ELSE c[i]
      <4>1. f[i] = IF d + k < i /\ i <= (d + k) + la
                   THEN tmp[i - (d + k) + aa] ELSE mv[i]
        BY <1>6, <1>11, <1>12, <2>1, <2>3, <3>0
      <4>2. mv[i] = IF d < i /\ i <= d + k THEN cells[i - d + ab] ELSE cells[i]
        BY <1>7, <2>3, <3>0
      <4>3. \A j \in 1..n : c[j] = IF d < j /\ j <= d + la
                                   THEN tmp[j - d + aa] ELSE cells[j]
        BY <1>10, <2>1, <2>3
      <4>4. CASE d < i /\ i <= d + k
        <5>1. i + la \in 1..n /\ ~(i + la <= d + la) /\ i - d + ab = i + la
              /\ ~(d + k < i)
          BY <1>1, <1>9, <2>3, <3>1, <4>4
        <5>2. c[i + la] = cells[i + la]
          BY <4>3, <5>1
        <5>3. f[i] = cells[i + la]
          BY <4>1, <4>2, <4>4, <5>1
        <5> QED
          BY <4>4, <5>2, <5>3
      <4>5. CASE d + k < i /\ i <= d + k + la
        <5>1. i - k \in 1..n /\ d < i - k /\ i - k <= d + la
              /\ (i - k) - d + aa = i - (d + k) + aa /\ ~(i <= d + k)
          BY <1>1, <3>1, <4>5
        <5>2. c[i - k] = tmp[i - (d + k) + aa]
          BY <4>3, <5>1
        <5>3. f[i] = tmp[i - (d + k) + aa]
          BY <4>1, <4>5
        <5> QED
          BY <4>5, <5>1, <5>2, <5>3
      <4>6. CASE ~(d < i /\ i <= d + k) /\ ~(d + k < i /\ i <= d + k + la)
        <5>1. ~(d < i /\ i <= d + la)
          BY <1>1, <3>1, <4>6
        <5> QED
          BY <4>1, <4>2, <4>3, <4>6, <5>1
      <4> QED
        BY <4>4, <4>5, <4>6
    <3> QED
      BY <3>1, <3>2 DEF Rotates
  <2>4. ASSUME ~Forward(s) PROVE Rotates(c, f, n, d - lb + 1 - k, lb, k)
    <3> DEFINE p == d - lb + 1 - k
    <3>0. r = "a" /\ src = cells /\ s.at[r] = aa /\ k <= la
      BY <1>1, <1>2, <1>6, <1>8, <1>14, <2>4 DEF aa
    <3>1. /\ p \in Nat /\ k \in Nat /\ lb \in Nat /\ p + lb + k <= n
          /\ d = p + k + lb - 1 /\ aa = p + k - 1 /\ d \in Int
      BY <1>1, <1>2, <1>9, <2>4, <3>0
    <3> HIDE DEF p
    <3>2. ASSUME NEW i \in 1..n
          PROVE  f[i] = IF p < i /\ i <= p + lb THEN c[i + k]
                        ELSE IF p + lb < i /\ i <= p + lb + k THEN c[i - lb]
                        ELSE c[i]
      <4>0. /\ (d + (-k)) - lb + 1 = p /\ i - p + 0 = i - p /\ i \in Int
            /\ d - k + 1 = p + lb /\ d + 1 = p + lb + k /\ i - d + aa = i - lb
            /\ d - lb + 1 = p + k
        BY <3>1
      <4>1. f[i] = IF p < i /\ i <= p + lb THEN tmp[i - p] ELSE mv[i]
        <5>1. f[i] = IF (d + (-k)) - lb + 1 < i
                        /\ i <= (d + (-k)) - lb + 1 + lb
                     THEN tmp[i - ((d + (-k)) - lb + 1) + 0] ELSE mv[i]
          BY <1>6, <1>11, <1>12, <2>1, <2>4, <3>0
        <5> QED
          BY <4>0, <5>1
      <4>2. mv[i] = IF p + lb < i /\ i <= p + lb + k THEN cells[i - lb] ELSE cells[i]
        <5>1. mv[i] = IF d - k + 1 < i /\ i <= d + 1 THEN cells[i - d + aa] ELSE cells[i]
          BY <1>7, <2>4, <3>0
        <5> QED
          BY <4>0, <5>1
      <4>3. ASSUME NEW j \in 1..n
            PROVE  c[j] = IF p + k < j /\ j <= p + k + lb
                          THEN tmp[j - (p + k)] ELSE cells[j]
        <5>1. c[j] = IF d - lb + 1 < j /\ j <= d - lb + 1 + lb
                     THEN tmp[j - (d - lb + 1) + 0] ELSE cells[j]
          BY <1>10, <2>1, <2>4
        <5>2. j - (p + k) + 0 = j - (p + k)
          BY <3>1
        <5> QED
          BY <4>0, <5>1, <5>2
      <4>4. CASE p < i /\ i <= p + lb
        <5>1. i + k \in 1..n /\ p + k < i + k /\ i + k <= p + k + lb
              /\ (i + k) - (p + k) = i - p
          BY <3>1, <4>4
        <5>2. c[i + k] = tmp[i - p]
          BY <4>3, <5>1
        <5> QED
          BY <4>1, <4>4, <5>2
      <4>5. CASE p + lb < i /\ i <= p + lb + k
        <5>1. i - lb \in 1..n /\ ~(p + k < i - lb) /\ ~(i <= p + lb)
          BY <3>1, <4>5
        <5>2. c[i - lb] = cells[i - lb]
          BY <4>3, <5>1
        <5>3. f[i] = cells[i - lb]
          BY <4>1, <4>2, <4>5, <5>1
        <5> QED
          BY <4>5, <5>1, <5>2, <5>3
      <4>6. CASE ~(p < i /\ i <= p + lb) /\ ~(p + lb < i /\ i <= p + lb + k)
        <5>1. ~(p + k < i /\ i <= p + k + lb)
          BY <3>1, <4>6
        <5> QED
          BY <4>1, <4>2, <4>3, <4>6, <5>1
      <4> QED
        BY <4>4, <4>5, <4>6
    <3>3. Rotates(c, f, n, p, lb, k)
      BY <3>1, <3>2 DEF Rotates
    <3> QED
      BY <3>3 DEF p
  <2> QED
    BY <2>3, <2>4 DEF c, f, View
<1> QED
  BY <1>13, <1>14 DEF t, d, la, lb

\* Moving items loses none.
LEMMA TakeContents ==
    ASSUME NEW n \in Nat, NEW s, Laid(s, n), NEW r \in Runs, NEW k \in 0..s.left[r]
    PROVE  Contents(Take(s, r, k)) = Contents(s)
<1> DEFINE c == View(s)
           f == View(Take(s, r, k))
<1>1. Laid(Take(s, r, k), n)
  BY TakeLaid
<1>2. /\ Contents(s) = {c[i] : i \in 1..n}
      /\ Contents(Take(s, r, k)) = {f[i] : i \in 1..n}
  BY <1>1, ContentsIs DEF View
<1>3. \/ \A i \in 1..n : f[i] = c[i]
      \/ \E p, u, v : Rotates(c, f, n, p, u, v)
  BY TakeView
<1> HIDE DEF c, f
<1>4. {f[i] : i \in 1..n} = {c[i] : i \in 1..n}
  <2>1. CASE \A i \in 1..n : f[i] = c[i]
    BY <2>1
  <2>2. CASE \E p, u, v : Rotates(c, f, n, p, u, v)
    <3>1. PICK p, u, v : Rotates(c, f, n, p, u, v)
      BY <2>2
    <3> QED
      BY ONLY <3>1, RotationKeeps
  <2> QED
    BY <1>3, <2>1, <2>2
<1> QED
  BY <1>2, <1>4

\* Without a gap, the cells hold everything.
LEMMA EmptyGap ==
    ASSUME NEW n \in Nat, NEW s, Laid(s, n), s.left[s.held] = 0
    PROVE  Contents(s) = ToSet(s.cells)
<1>1. s.cells \in Seq(Cell) /\ Len(s.cells) = n
  BY LaidIs
<1>2. ToSet(s.cells) = {s.cells[i] : i \in 1..n}
  BY <1>1, ToSetIs
<1>3. ASSUME NEW i \in 1..n PROVE Filled(s, i) = s.cells[i]
  <2> DEFINE g == Gap(s)
  <2>1. g \in Nat
    BY GapIs
  <2> HIDE DEF g
  <2>2. ~(g < i /\ i <= g + 0)
    BY <2>1
  <2> QED
    BY <2>2 DEF Filled, g
<1> QED
  BY <1>2, <1>3, ContentsIs

\* No merge is under way.
LEMMA IdleIs ==
    ASSUME NEW n \in Nat, NEW cells \in Seq(Cell), Len(cells) = n
    PROVE  /\ Laid(Idle(cells), n) /\ Live(Idle(cells))
           /\ Contents(Idle(cells)) = ToSet(cells)
           /\ Idle(cells).tmp = <<>> /\ Idle(cells).mode = "none"
           /\ Idle(cells).cells = cells
<1> DEFINE s == Idle(cells)
<1>1. /\ s.cells = cells /\ s.tmp = <<>> /\ s.mode = "none" /\ s.held = "a"
      /\ s.at["a"] = 0 /\ s.at["b"] = 0 /\ s.left["a"] = 0 /\ s.left["b"] = 0
      /\ s.dest = 0
  BY DEF Idle
<1>2. s \in MergeState
  <2>1. [a |-> 0, b |-> 0] \in [Runs -> Int] /\ [a |-> 0, b |-> 0] \in [Runs -> Nat]
    BY DEF Runs
  <2>2. "a" \in Runs /\ <<>> \in Seq(Cell)
    BY DEF Runs
  <2> QED
    BY <2>1, <2>2 DEF MergeState, Idle
<1> HIDE DEF s
<1>3. Laid(s, n)
  <2>1. Len(s.tmp) = 0
    BY <1>1
  <2>2. Forward(s)
    BY <1>1 DEF Forward
  <2> QED
    BY <1>1, <1>2, <2>1, <2>2 DEF Laid
<1>4. Contents(s) = ToSet(s.cells)
  BY <1>1, <1>3, EmptyGap
<1>5. Live(s)
  <2>1. s = Idle(s.cells)
    BY <1>1 DEF s
  <2> QED
    BY <1>1, <2>1 DEF Live
<1> QED
  BY <1>1, <1>3, <1>4, <1>5 DEF s

\* A merge without a gap may end.
LEMMA SettleSound ==
    ASSUME NEW n \in Nat, NEW room \in Nat, NEW s, Sound(s, n, room),
           s.left[s.held] = 0
    PROVE  /\ Sound(Idle(s.cells), n, room) /\ Live(Idle(s.cells))
           /\ Contents(Idle(s.cells)) = Contents(s)
<1>1. Laid(s, n) /\ {c.item : c \in Contents(s)} = 1..n
  BY DEF Sound
<1>2. Contents(s) = ToSet(s.cells) /\ s.cells \in Seq(Cell) /\ Len(s.cells) = n
  BY <1>1, EmptyGap, LaidIs
<1> DEFINE cells == s.cells
           t == Idle(cells)
<1>3. /\ Laid(t, n) /\ Live(t) /\ Contents(t) = ToSet(cells) /\ t.tmp = <<>>
  <2> HIDE DEF t
  <2>1. cells \in Seq(Cell) /\ Len(cells) = n
    BY <1>2
  <2> HIDE DEF cells
  <2> QED
    BY ONLY n \in Nat, <2>1, IdleIs DEF t
<1> HIDE DEF t
<1>4. Len(t.tmp) = 0 /\ 0 <= n \div 2 /\ 0 <= room
  BY <1>3
<1>5. Sound(t, n, room)
  BY <1>1, <1>2, <1>3, <1>4 DEF Sound
<1> QED
  BY <1>2, <1>3, <1>5 DEF t

\* Moving items keeps a merge sound.
LEMMA TakeSound ==
    ASSUME NEW n \in Nat, NEW room \in Nat, NEW s, Sound(s, n, room),
           NEW r \in Runs, NEW k \in 0..s.left[r]
    PROVE  /\ Sound(Take(s, r, k), n, room) /\ Contents(Take(s, r, k)) = Contents(s)
           /\ Take(s, r, k).held = s.held /\ Take(s, r, k).mode = s.mode
           /\ Take(s, r, k).left = [s.left EXCEPT ![r] = s.left[r] - k]
<1> DEFINE t == Take(s, r, k)
<1>1. Laid(s, n) /\ s \in MergeState
  BY DEF Sound, Laid
<1>2. k \in Int
  <2>1. s.left[r] \in Nat
    BY <1>1 DEF MergeState
  <2> QED
    BY <2>1
<1>3. Laid(Take(s, r, k), n) /\ Contents(Take(s, r, k)) = Contents(s)
  BY <1>1, TakeLaid, TakeContents
<1>4. /\ t.tmp = s.tmp /\ t.held = s.held /\ t.mode = s.mode
      /\ t.left = [s.left EXCEPT ![r] = s.left[r] - k]
  <2>1. /\ t.cells = Moved(s, r, k)
        /\ t.tmp = s.tmp /\ t.held = s.held
        /\ t.mode = s.mode /\ t.won = s.won
        /\ t.at = [s.at EXCEPT ![r] = s.at[r] + Along(s, k)]
        /\ t.left = [s.left EXCEPT ![r] = s.left[r] - k]
        /\ t.dest = s.dest + Along(s, k)
        /\ (Moved(s, r, k) \in Seq(Cell) /\ s.left[r] >= k) => t \in MergeState
    BY <1>1, <1>2, TakeIs
  <2> HIDE DEF t
  <2> QED
    BY <2>1
<1> HIDE DEF t
<1>5. Sound(t, n, room)
  BY <1>3, <1>4 DEF Sound, t
<1> QED
  BY <1>3, <1>4, <1>5 DEF t

\* There are two runs.
LEMMA OtherIs ==
    ASSUME NEW r \in Runs
    PROVE  Other(r) \in Runs /\ Other(r) # r /\ \A q \in Runs : q = r \/ q = Other(r)
BY DEF Other, Runs

\* A merge may end with what is held put back.
LEMMA FlushSound ==
    ASSUME NEW n \in Nat, NEW room \in Nat, NEW s, Sound(s, n, room)
    PROVE  /\ Sound(Idle(Flush(s).cells), n, room) /\ Live(Idle(Flush(s).cells))
           /\ Contents(Idle(Flush(s).cells)) = Contents(s)
<1> DEFINE h == s.held
           u == Flush(s)
<1>1. h \in Runs /\ s.left \in [Runs -> Nat]
  BY DEF Sound, Laid, MergeState
<1>2. s.left[h] \in 0..s.left[h] /\ s.left[h] \in Nat
  BY <1>1
<1>3. /\ Sound(u, n, room) /\ u.held = h /\ Contents(u) = Contents(s)
      /\ u.left = [s.left EXCEPT ![h] = s.left[h] - s.left[h]]
  BY <1>1, <1>2, TakeSound DEF Flush
<1>4. u.left[u.held] = 0
  BY <1>1, <1>2, <1>3
<1> HIDE DEF u
<1> QED
  BY <1>3, <1>4, SettleSound DEF u

\* A merge ends soundly, or goes on with items left in both runs.
LEMMA ExitSound ==
    ASSUME NEW n \in Nat, NEW room \in Nat, NEW s, Sound(s, n, room), s.mode # "none"
    PROVE  /\ Sound(Exit(s), n, room) /\ Live(Exit(s)) /\ Contents(Exit(s)) = Contents(s)
           /\ Exit(s).mode \in {"none", s.mode}
           /\ Exit(s).mode # "none" => Exit(s) = s
<1> DEFINE h == s.held
           o == Other(h)
<1>1. h \in Runs /\ s.left \in [Runs -> Nat] /\ o \in Runs /\ o # h
  BY OtherIs DEF Sound, Laid, MergeState
<1>2. s.left[h] \in Nat /\ s.left[o] \in Nat
  BY <1>1
<1>a. \A c : Idle(c).mode = "none"
  BY DEF Idle
<1>3. CASE s.left[o] = 0 \/ s.left[h] = 0
  <2>1. Exit(s) = Idle(Flush(s).cells)
    BY <1>3 DEF Exit
  <2> QED
    BY <1>a, <2>1, FlushSound
<1>4. CASE s.left[o] # 0 /\ s.left[h] = 1
  <2> DEFINE t == Take(s, o, s.left[o])
             u == CopyRest(s)
  <2>1. s.left[o] \in 0..s.left[o]
    BY <1>2
  <2>2. /\ Sound(t, n, room) /\ t.held = h /\ Contents(t) = Contents(s)
        /\ t.left = [s.left EXCEPT ![o] = s.left[o] - s.left[o]]
    <3> HIDE DEF h, o
    <3> QED
      BY <1>1, <2>1, TakeSound DEF h
  <2>3. t.left[h] = 1
    BY <1>1, <1>4, <2>2
  <2>4. u = Take(t, h, 1)
    BY DEF CopyRest
  <2> HIDE DEF t, u, h
  <2>5. 1 \in 0..t.left[h]
    BY <2>3
  <2>6. /\ Sound(u, n, room) /\ u.held = t.held /\ Contents(u) = Contents(t)
        /\ u.left = [t.left EXCEPT ![h] = t.left[h] - 1]
    <3>1. Sound(t, n, room) /\ h \in Runs
      BY <1>1, <2>2
    <3> DEFINE one == 1
    <3>2. one \in 0..t.left[h] /\ u = Take(t, h, one)
      BY <2>4, <2>5
    <3> HIDE DEF one
    <3>3. /\ Sound(u, n, room) /\ u.held = t.held /\ Contents(u) = Contents(t)
          /\ u.left = [t.left EXCEPT ![h] = t.left[h] - one]
      BY ONLY n \in Nat, room \in Nat, <3>1, <3>2, TakeSound
    <3> QED
      BY <3>3 DEF one
  <2>7. u.left[u.held] = 0
    <3>1. t.left \in [Runs -> Nat]
      BY <2>2 DEF Sound, Laid, MergeState
    <3> QED
      BY <1>1, <2>2, <2>3, <2>6, <3>1
  <2>8. /\ Sound(Idle(u.cells), n, room) /\ Live(Idle(u.cells))
        /\ Contents(Idle(u.cells)) = Contents(u)
    BY <2>6, <2>7, SettleSound
  <2>9. Exit(s) = Idle(u.cells)
    BY <1>4 DEF Exit, u, h
  <2> QED
    BY <1>a, <2>2, <2>6, <2>8, <2>9
<1>5. CASE s.left[o] # 0 /\ s.left[h] # 0 /\ s.left[h] # 1
  <2>1. Exit(s) = s
    BY <1>5 DEF Exit
  <2>2. s.left[o] >= 1 /\ s.left[h] >= 2
    BY <1>2, <1>5
  <2>3. Live(s)
    BY <2>2 DEF Live
  <2> QED
    BY <2>1, <2>3
<1> QED
  BY <1>3, <1>4, <1>5

\* A merge that goes on may move items.
LEMMA ThenSound ==
    ASSUME NEW n \in Nat, NEW room \in Nat, NEW s, Sound(s, n, room),
           NEW r \in Runs, NEW k,
           IF s.mode = "none" THEN Live(s) ELSE k \in 0..s.left[r]
    PROVE  /\ Sound(Then(s, r, k), n, room) /\ Live(Then(s, r, k))
           /\ Contents(Then(s, r, k)) = Contents(s)
           /\ Then(s, r, k).mode \in {"none", s.mode}
<1>1. CASE s.mode = "none"
  BY <1>1 DEF Then
<1>2. CASE s.mode # "none"
  <2> DEFINE t == Take(s, r, k)
  <2>1. Then(s, r, k) = Exit(t)
    BY <1>2 DEF Then
  <2>2. /\ Sound(t, n, room) /\ t.held = s.held /\ t.mode = s.mode
        /\ Contents(t) = Contents(s)
        /\ t.left = [s.left EXCEPT ![r] = s.left[r] - k]
    <3>1. k \in 0..s.left[r]
      BY <1>2
    <3>2. n \in Nat /\ room \in Nat /\ Sound(s, n, room) /\ r \in Runs
      OBVIOUS
    <3> QED
      BY ONLY <3>1, <3>2, TakeSound
  <2> HIDE DEF t
  <2>3. /\ Sound(Exit(t), n, room) /\ Live(Exit(t)) /\ Exit(t).mode \in {"none", t.mode}
        /\ Contents(Exit(t)) = Contents(t)
    BY <1>2, <2>2, ExitSound
  <2> QED
    BY <2>1, <2>2, <2>3
<1> QED
  BY <1>1, <1>2

\* As long as the held items are also in their old place, nothing is gone.
LEMMA HeldCopy ==
    ASSUME NEW n \in Nat, NEW s, Laid(s, n), HeldFrom(s) = 0,
           \A j \in 1..s.left[s.held] : s.tmp[j] = s.cells[Gap(s) + j]
    PROVE  /\ Contents(s) = ToSet(s.cells)
           /\ \A i \in 1..n : View(s)[i] = s.cells[i]
<1>1. s.cells \in Seq(Cell) /\ Len(s.cells) = n
  BY LaidIs
<1>2. ToSet(s.cells) = {s.cells[i] : i \in 1..n}
  BY <1>1, ToSetIs
<1>3. ASSUME NEW i \in 1..n PROVE Filled(s, i) = s.cells[i]
  <2> DEFINE g == Gap(s)
             l == s.left[s.held]
  <2>1. g \in Nat /\ l \in Nat
    BY GapIs
  <2>2. Filled(s, i) = IF g < i /\ i <= g + l THEN s.tmp[i - g + 0] ELSE s.cells[i]
    BY DEF Filled
  <2>a. \A j \in 1..l : s.tmp[j] = s.cells[g + j]
    OBVIOUS
  <2> HIDE DEF g, l
  <2>3. CASE g < i /\ i <= g + l
    <3>1. i - g \in 1..l /\ g + (i - g) = i /\ i - g + 0 = i - g
      BY <2>1, <2>3
    <3>2. s.tmp[i - g] = s.cells[i]
      BY <2>a, <3>1
    <3> QED
      BY <2>2, <2>3, <3>1, <3>2
  <2>4. CASE ~(g < i /\ i <= g + l)
    BY <2>2, <2>4
  <2> QED
    BY <2>3, <2>4
<1>4. \A i \in 1..n : View(s)[i] = s.cells[i]
  BY <1>3, FlushIs DEF View
<1> QED
  BY <1>2, <1>3, <1>4, ContentsIs

\* Two runs next to each other, neither empty.
Adjacent(base, na, mid, nb, n) ==
    /\ n \in Nat /\ base \in Nat /\ na \in Nat \ {0} /\ nb \in Nat \ {0}
    /\ mid = base + na /\ mid + nb <= n

\* The first run is held, or the second.
HeldA(base, na, mid, nb) ==
    [Idle(m.cells) EXCEPT
                !.mode = "one", !.held = "a", !.left = [a |-> na, b |-> nb],
                !.tmp = SubSeq(m.cells, base + 1, base + na),
                !.at = [a |-> 0, b |-> mid], !.dest = base]
HeldB(base, na, mid, nb) ==
    [Idle(m.cells) EXCEPT
                !.mode = "one", !.held = "b", !.left = [a |-> na, b |-> nb],
                !.tmp = SubSeq(m.cells, mid + 1, mid + nb),
                !.at = [a |-> base + na - 1, b |-> nb - 1],
                !.dest = mid + nb - 1]

\* A function of the two runs.
LEMMA PairIs ==
    ASSUME NEW S, NEW x \in S, NEW y \in S
    PROVE  /\ [a |-> x, b |-> y] \in [Runs -> S]
           /\ [a |-> x, b |-> y]["a"] = x /\ [a |-> x, b |-> y]["b"] = y
BY DEF Runs

\* A part of a sequence.
LEMMA PartIs ==
    ASSUME NEW C, NEW t \in Seq(C), NEW p \in Nat, NEW k \in Nat, p + k <= Len(t)
    PROVE  /\ SubSeq(t, p + 1, p + k) \in Seq(C) /\ Len(SubSeq(t, p + 1, p + k)) = k
           /\ \A j \in 1..k : SubSeq(t, p + 1, p + k)[j] = t[p + j]
<1> DEFINE u == SubSeq(t, p + 1, p + k)
<1>0. Len(t) \in Nat /\ \A i \in 1..Len(t) : t[i] \in C
  OBVIOUS
<1>1. p + 1 \in Int /\ p + k \in Int /\ \A i \in p + 1 .. p + k : t[i] \in C
  BY <1>0
<1>2. /\ u \in Seq(C)
      /\ Len(u) = IF p + 1 <= p + k THEN p + k - (p + 1) + 1 ELSE 0
      /\ \A i \in 1 .. p + k - (p + 1) + 1 : u[i] = t[p + 1 + i - 1]
  BY <1>1, SubSeqProperties
<1> HIDE DEF u
<1>3. Len(u) = k
  BY <1>2
<1>4. ASSUME NEW j \in 1..k PROVE u[j] = t[p + j]
  <2>1. p + 1 + j - 1 = p + j /\ j \in 1 .. p + k - (p + 1) + 1
    OBVIOUS
  <2> QED
    BY <1>2, <2>1
<1> QED
  BY <1>2, <1>3, <1>4 DEF u

\* Copying a run to the temporary array starts a sound merge.
LEMMA HeldSound ==
    ASSUME NEW n, NEW room \in Nat, NEW base, NEW na, NEW mid, NEW nb,
           Adjacent(base, na, mid, nb, n), Sound(m, n, room), Live(m), ~Merging,
           NEW s, s = IF na <= nb THEN HeldA(base, na, mid, nb)
                      ELSE HeldB(base, na, mid, nb),
           NEW space \in Nat, (IF na <= nb THEN na ELSE nb) <= space
    PROVE  /\ Sound(s, n, space) /\ s.mode = "one"
           /\ s.left["a"] = na /\ s.left["b"] = nb /\ Contents(s) = Contents(m)
           /\ s.held = (IF na <= nb THEN "a" ELSE "b")
           /\ s.dest = IF na <= nb THEN base ELSE mid + nb - 1
           /\ \A i \in 1..n : View(s)[i] = m.cells[i]
<1> DEFINE cells == m.cells
<1>0. /\ n \in Nat /\ base \in Nat /\ na \in Nat /\ nb \in Nat /\ na >= 1 /\ nb >= 1
      /\ mid = base + na /\ mid + nb <= n /\ mid \in Nat
  BY DEF Adjacent
<1>1. Laid(m, n) /\ {c.item : c \in Contents(m)} = 1..n
  BY DEF Sound
<1>2. cells \in Seq(Cell) /\ Len(cells) = n
  BY <1>0, <1>1, LaidIs
<1>3. Contents(m) = ToSet(cells)
  <2>1. m = Idle(cells)
    BY DEF Live, Merging
  <2> HIDE DEF cells
  <2> QED
    BY <1>0, <1>2, <2>1, IdleIs
<1>4. [a |-> 0, b |-> 0] \in [Runs -> Int]
  BY PairIs
<1> HIDE DEF cells
<1>5. CASE na <= nb
  <2> DEFINE t == SubSeq(cells, base + 1, base + na)
  <2>1. s = [Idle(cells) EXCEPT
                !.mode = "one", !.held = "a", !.left = [a |-> na, b |-> nb],
                !.tmp = t, !.at = [a |-> 0, b |-> mid], !.dest = base]
    BY <1>5 DEF HeldA, cells
  <2>2. /\ t \in Seq(Cell) /\ Len(t) = na /\ \A j \in 1..na : t[j] = cells[base + j]
    <3>1. cells \in Seq(Cell) /\ base \in Nat /\ na \in Nat /\ base + na <= Len(cells)
      BY <1>0, <1>2
    <3> QED
      BY ONLY <3>1, PartIs
  <2> HIDE DEF t
  <2>3. s = [cells |-> cells, mode |-> "one", tmp |-> t, held |-> "a",
             at |-> [a |-> 0, b |-> mid], left |-> [a |-> na, b |-> nb],
             dest |-> base, won |-> [a |-> 0, b |-> 0]]
    BY <2>1 DEF Idle
  <2>4. /\ s.cells = cells /\ s.mode = "one" /\ s.tmp = t /\ s.held = "a"
        /\ s.at["a"] = 0 /\ s.at["b"] = mid /\ s.left["a"] = na /\ s.left["b"] = nb
        /\ s.dest = base
    BY <2>3
  <2>5. s \in MergeState
    <3>1. [a |-> 0, b |-> mid] \in [Runs -> Int] /\ [a |-> na, b |-> nb] \in [Runs -> Nat]
      BY <1>0, PairIs
    <3>2. "a" \in Runs
      BY DEF Runs
    <3> DEFINE x == [a |-> 0, b |-> mid]  y == [a |-> na, b |-> nb]
               z == [a |-> 0, b |-> 0]
    <3>3. x \in [Runs -> Int] /\ y \in [Runs -> Nat] /\ z \in [Runs -> Int]
      BY <1>4, <3>1
    <3>4. s = [cells |-> cells, mode |-> "one", tmp |-> t, held |-> "a",
               at |-> x, left |-> y, dest |-> base, won |-> z]
      BY <2>3
    <3> HIDE DEF x, y, z
    <3> QED
      BY <1>0, <1>2, <2>2, <3>2, <3>3, <3>4 DEF MergeState
  <2>6. Forward(s) /\ Gap(s) = base /\ HeldFrom(s) = 0
    BY <2>4 DEF Forward, Gap, HeldFrom
  <2>7. Laid(s, n)
    BY <1>0, <1>2, <2>2, <2>4, <2>5, <2>6 DEF Laid
  <2>8. Contents(s) = ToSet(cells) /\ \A i \in 1..n : View(s)[i] = cells[i]
    <3>1. \A j \in 1..s.left[s.held] : s.tmp[j] = s.cells[Gap(s) + j]
      BY <2>2, <2>4, <2>6
    <3> QED
      BY <1>0, <2>4, <2>6, <2>7, <3>1, HeldCopy
  <2>9. Len(s.tmp) <= space /\ Len(s.tmp) <= n \div 2
    <3>1. Len(s.tmp) = na
      BY <2>2, <2>4
    <3>2. na <= space
      BY <1>5
    <3>3. na <= n \div 2
      <4>1. 2 * na <= n
        BY <1>0, <1>5
      <4> QED
        BY ONLY <1>0, <4>1
    <3> QED
      BY ONLY <3>1, <3>2, <3>3
  <2> QED
    BY <1>1, <1>3, <1>5, <2>4, <2>7, <2>8, <2>9 DEF Sound, cells
<1>6. CASE ~(na <= nb)
  <2> DEFINE t == SubSeq(cells, mid + 1, mid + nb)
  <2>1. s = [Idle(cells) EXCEPT
                !.mode = "one", !.held = "b", !.left = [a |-> na, b |-> nb],
                !.tmp = t, !.at = [a |-> base + na - 1, b |-> nb - 1],
                !.dest = mid + nb - 1]
    BY <1>6 DEF HeldB, cells
  <2>2. /\ t \in Seq(Cell) /\ Len(t) = nb /\ \A j \in 1..nb : t[j] = cells[mid + j]
    <3>1. cells \in Seq(Cell) /\ mid \in Nat /\ nb \in Nat /\ mid + nb <= Len(cells)
      BY <1>0, <1>2
    <3> QED
      BY ONLY <3>1, PartIs
  <2> HIDE DEF t
  <2>3. s = [cells |-> cells, mode |-> "one", tmp |-> t, held |-> "b",
             at |-> [a |-> base + na - 1, b |-> nb - 1], left |-> [a |-> na, b |-> nb],
             dest |-> mid + nb - 1, won |-> [a |-> 0, b |-> 0]]
    BY <2>1 DEF Idle
  <2>4. /\ s.cells = cells /\ s.mode = "one" /\ s.tmp = t /\ s.held = "b"
        /\ s.at["a"] = base + na - 1 /\ s.at["b"] = nb - 1
        /\ s.left["a"] = na /\ s.left["b"] = nb /\ s.dest = mid + nb - 1
    BY <2>3
  <2>5. s \in MergeState
    <3>1. /\ [a |-> base + na - 1, b |-> nb - 1] \in [Runs -> Int]
          /\ [a |-> na, b |-> nb] \in [Runs -> Nat]
      BY <1>0, PairIs
    <3>2. "b" \in Runs /\ mid + nb - 1 \in Int
      BY <1>0 DEF Runs
    <3> DEFINE x == [a |-> base + na - 1, b |-> nb - 1]  y == [a |-> na, b |-> nb]
               z == [a |-> 0, b |-> 0]  d == mid + nb - 1
    <3>3. x \in [Runs -> Int] /\ y \in [Runs -> Nat] /\ z \in [Runs -> Int] /\ d \in Int
      BY <1>4, <3>1, <3>2
    <3>4. s = [cells |-> cells, mode |-> "one", tmp |-> t, held |-> "b",
               at |-> x, left |-> y, dest |-> d, won |-> z]
      BY <2>3
    <3> HIDE DEF x, y, z, d
    <3> QED
      BY <1>2, <2>2, <3>2, <3>3, <3>4 DEF MergeState
  <2>6. ~Forward(s) /\ Gap(s) = mid /\ HeldFrom(s) = 0
    <3>2. ~Forward(s)
      BY <2>4 DEF Forward
    <3>3. Gap(s) = s.dest - s.left["b"] + 1 /\ HeldFrom(s) = 0
      BY <3>2 DEF Gap, HeldFrom
    <3>4. s.dest = mid + nb - 1 /\ s.left["b"] = nb
      BY <2>4
    <3>5. Gap(s) = (mid + nb - 1) - nb + 1
      BY ONLY <3>3, <3>4
    <3>6. (mid + nb - 1) - nb + 1 = mid
      BY <1>0
    <3> QED
      BY ONLY <3>2, <3>3, <3>5, <3>6
  <2>7. Laid(s, n)
    BY <1>0, <1>2, <2>2, <2>4, <2>5, <2>6 DEF Laid
  <2>8. Contents(s) = ToSet(cells) /\ \A i \in 1..n : View(s)[i] = cells[i]
    <3>1. \A j \in 1..s.left[s.held] : s.tmp[j] = s.cells[Gap(s) + j]
      BY <2>2, <2>4, <2>6
    <3> QED
      BY <1>0, <2>4, <2>6, <2>7, <3>1, HeldCopy
  <2>9. Len(s.tmp) <= space /\ Len(s.tmp) <= n \div 2
    <3>1. Len(s.tmp) = nb
      BY <2>2, <2>4
    <3>2. nb <= space
      BY <1>6
    <3>3. nb <= n \div 2
      <4>1. 2 * nb <= n
        BY <1>0, <1>6
      <4> QED
        BY ONLY <1>0, <4>1
    <3> QED
      BY ONLY <3>1, <3>2, <3>3
  <2> QED
    BY <1>1, <1>3, <1>6, <2>4, <2>7, <2>8, <2>9 DEF Sound, cells
<1> QED
  BY <1>5, <1>6

\* merge_lo and merge_hi start soundly.
LEMMA HoldShorterSound ==
    ASSUME NEW n, NEW room \in Nat, NEW base, NEW na, NEW mid, NEW nb,
           Adjacent(base, na, mid, nb, n), Sound(m, n, room), Live(m), ~Merging,
           NEW space \in Nat, (IF na <= nb THEN na ELSE nb) <= space
    PROVE  /\ Sound(HoldShorter(base, na, mid, nb), n, space)
           /\ Live(HoldShorter(base, na, mid, nb))
           /\ Contents(HoldShorter(base, na, mid, nb)) = Contents(m)
<1> DEFINE s == IF na <= nb THEN HeldA(base, na, mid, nb) ELSE HeldB(base, na, mid, nb)
           o == IF na <= nb THEN "b" ELSE "a"
<1>1. /\ Sound(s, n, space) /\ s.mode = "one" /\ s.left["a"] = na /\ s.left["b"] = nb
      /\ Contents(s) = Contents(m)
  <2> HIDE DEF s
  <2> QED
    BY HeldSound DEF s
<1>2. HoldShorter(base, na, mid, nb) = Exit(Take(s, o, 1))
  BY DEF HoldShorter, HeldA, HeldB
<1>3. n \in Nat /\ na \in Nat /\ nb \in Nat /\ na >= 1 /\ nb >= 1
  BY DEF Adjacent
<1>4. o \in Runs /\ (o = "a" \/ o = "b")
  BY DEF Runs
<1> HIDE DEF s, o
<1> DEFINE one == 1
           t == Take(s, o, one)
<1>5. one \in 0..s.left[o]
  BY <1>1, <1>3, <1>4
<1>a. Exit(Take(s, o, 1)) = Exit(t)
  OBVIOUS
<1> HIDE DEF one
<1>6. /\ Sound(t, n, space) /\ t.held = s.held /\ t.mode = s.mode
      /\ Contents(t) = Contents(s)
      /\ t.left = [s.left EXCEPT ![o] = s.left[o] - one]
  BY <1>1, <1>3, <1>4, <1>5, TakeSound
<1> HIDE DEF t
<1>7. t.mode # "none"
  BY <1>1, <1>6
<1>8. Sound(Exit(t), n, space) /\ Live(Exit(t)) /\ Contents(Exit(t)) = Contents(t)
  BY <1>3, <1>6, <1>7, ExitSound
<1> QED
  BY <1>1, <1>2, <1>6, <1>8, <1>a
-----------------------------------------------------------------------------
\* The cells hold all items.
Whole(cells, n) ==
    /\ cells \in Seq(Cell) /\ Len(cells) = n
    /\ {c.item : c \in ToSet(cells)} = 1..n

\* All items are in the cells.
LEMMA WholeIdle ==
    ASSUME NEW n \in Nat, NEW room \in Nat, NEW cells, Whole(cells, n)
    PROVE  /\ Sound(Idle(cells), n, room) /\ Live(Idle(cells))
           /\ Idle(cells).mode = "none" /\ Contents(Idle(cells)) = ToSet(cells)
<1> DEFINE t == Idle(cells)
<1>1. cells \in Seq(Cell) /\ Len(cells) = n /\ {c.item : c \in ToSet(cells)} = 1..n
  BY DEF Whole
<1>2. /\ Laid(t, n) /\ Live(t) /\ Contents(t) = ToSet(cells) /\ t.tmp = <<>>
      /\ t.mode = "none" /\ t.cells = cells
  BY <1>1, IdleIs
<1> HIDE DEF t
<1>3. Len(t.tmp) = 0 /\ 0 <= n \div 2 /\ 0 <= room
  BY <1>2
<1>4. Sound(t, n, room)
  BY <1>1, <1>2, <1>3 DEF Sound
<1> QED
  BY <1>2, <1>4 DEF t

\* Flushed, a sound merge leaves all items in the cells.
LEMMA SoundWhole ==
    ASSUME NEW n \in Nat, NEW room, NEW s, Sound(s, n, room)
    PROVE  Whole(Flush(s).cells, n)
<1>1. Laid(s, n) /\ {c.item : c \in Contents(s)} = 1..n
  BY DEF Sound
<1>2. Flush(s).cells \in Seq(Cell) /\ Len(Flush(s).cells) = n
  BY <1>1, FlushIs
<1> QED
  BY <1>1, <1>2 DEF Whole, Contents

\* Where no merge is under way, all items are in the cells.
LEMMA IdleWhole ==
    ASSUME NEW n \in Nat, NEW room, NEW s, Sound(s, n, room), Live(s), s.mode = "none"
    PROVE  Whole(s.cells, n) /\ Contents(s) = ToSet(s.cells)
<1> DEFINE cells == s.cells
<1>1. Laid(s, n) /\ {c.item : c \in Contents(s)} = 1..n /\ s = Idle(cells)
  BY DEF Sound, Live
<1>2. cells \in Seq(Cell) /\ Len(cells) = n
  BY <1>1, LaidIs
<1> HIDE DEF cells
<1>3. Contents(s) = ToSet(cells)
  BY <1>1, <1>2, IdleIs
<1> QED
  BY <1>1, <1>2, <1>3 DEF Whole, cells

\* Undoing the reversal loses no item.
LEMMA SwappedWhole ==
    ASSUME NEW n \in Nat, NEW cells, Whole(cells, n)
    PROVE  /\ Whole(IF reverse THEN Swapped(cells) ELSE cells, n)
           /\ ToSet(IF reverse THEN Swapped(cells) ELSE cells) = ToSet(cells)
<1>1. CASE reverse
  <2>1. cells \in Seq(Cell) /\ Len(cells) = n /\ {c.item : c \in ToSet(cells)} = 1..n
    BY DEF Whole
  <2>2. /\ Swapped(cells) \in Seq(Cell) /\ Rearranged(Swapped(cells), cells)
        /\ Len(Swapped(cells)) = Len(cells) /\ ToSet(Swapped(cells)) = ToSet(cells)
    BY <2>1, SwappedKeeps
  <2>3. Whole(Swapped(cells), n)
    BY <2>1, <2>2 DEF Whole
  <2> QED
    BY <1>1, <2>2, <2>3
<1>2. CASE ~reverse
  BY <1>2
<1> QED
  BY <1>1, <1>2

\* A merge gets another mode and other counts of wins.
Marked(s, x, w, u) == u = [s EXCEPT !.mode = x, !.won = w]

\* The mode and the counts of wins say nothing of the items.
LEMMA ModeSound ==
    ASSUME NEW n \in Nat, NEW room \in Nat, NEW s, Sound(s, n, room),
           NEW x \in {"one", "gallopA", "gallopB"}, NEW w \in [Runs -> Int],
           NEW u, Marked(s, x, w, u)
    PROVE  /\ Sound(u, n, room) /\ u.mode = x
           /\ u.left = s.left /\ u.held = s.held /\ Contents(u) = Contents(s)
<1>1. Laid(s, n) /\ s \in MergeState /\ {c.item : c \in Contents(s)} = 1..n
  BY DEF Sound, Laid
<1>2. /\ u.cells = s.cells /\ u.tmp = s.tmp /\ u.held = s.held /\ u.at = s.at
      /\ u.left = s.left /\ u.dest = s.dest /\ u.mode = x
      /\ u \in MergeState
  BY <1>1 DEF MergeState, Marked
<1>3. Laid(u, n)
  BY <1>1, <1>2 DEF Laid, Forward
<1>4. ASSUME NEW i \in 1..n PROVE Filled(u, i) = Filled(s, i)
  <2>1. Gap(u) = Gap(s) /\ HeldFrom(u) = HeldFrom(s)
    BY <1>2 DEF Gap, HeldFrom, Forward
  <2> QED
    BY <1>2, <2>1 DEF Filled
<1>5. Contents(u) = Contents(s)
  <2>1. Contents(u) = {Filled(u, i) : i \in 1..n}
    BY <1>3, ContentsIs
  <2>2. Contents(s) = {Filled(s, i) : i \in 1..n}
    BY <1>1, ContentsIs
  <2> QED
    BY <1>4, <2>1, <2>2
<1>6. Len(u.tmp) <= room /\ Len(u.tmp) <= n \div 2
  BY <1>2 DEF Sound
<1> QED
  BY <1>1, <1>2, <1>3, <1>5, <1>6 DEF Sound
-----------------------------------------------------------------------------
\* The temporary array leaves room for the keys behind it.
Room == alloced \in Nat /\ (keyed /\ N < TempSize \div 2 => 2 * alloced <= N + 1)

\* The invariant of the sort: of its stack, of the merge, and of the
\* temporary array; a run is looked for only while there are items left.
SortInv ==
    /\ RunsInv /\ Sound(m, N, alloced) /\ Live(m) /\ Room
    /\ phase = "march" => nremaining > 0
    /\ phase \in {"march", "done"} => ~Merging

\* The length of the list.
LEMMA NIs ==
    ASSUME RunsInv
    PROVE  N \in Nat /\ lo \in Nat /\ nremaining \in Nat
BY DEF RunsInv, RunsTypeOK, N

\* The sort may end with all items in the cells.
LEMMA EndsSound ==
    ASSUME SortInv, NEW cells, Whole(cells, N), ToSet(cells) = Contents(m), NEW r, EndSort,
           Returned(cells, r),
           [RunsNext]_runVars
    PROVE  SortInv' /\ Contents(m') = Contents(m)
<1> DEFINE d == IF reverse THEN Swapped(cells) ELSE cells
<1>1. N \in Nat /\ alloced \in Nat
  BY NIs DEF SortInv, Room
<1>2. Whole(d, N) /\ ToSet(d) = ToSet(cells)
  BY <1>1, SwappedWhole
<1>3. m' = Idle(d) /\ keyed' = keyed /\ alloced' = alloced
  BY DEF Returned
<1> HIDE DEF d
<1>4. /\ Sound(Idle(d), N, alloced) /\ Live(Idle(d)) /\ Idle(d).mode = "none"
      /\ Contents(Idle(d)) = ToSet(d)
  BY <1>1, <1>2, WholeIdle
<1>5. N' = N /\ phase' = "done" /\ nremaining' = nremaining
  BY DEF N, EndSort
<1>6. RunsInv'
  BY RunsStep DEF SortInv
<1>7. Room'
  BY <1>3, <1>5 DEF SortInv, Room
<1>8. /\ Sound(m', N', alloced') /\ Live(m') /\ m'.mode = "none"
      /\ Contents(m') = Contents(m)
  BY <1>2, <1>3, <1>4, <1>5
<1> QED
  BY <1>5, <1>6, <1>7, <1>8 DEF SortInv, Merging

\* The sort may fail with all items in the cells.
LEMMA FailsSound ==
    ASSUME SortInv, NEW cells, Whole(cells, N), ToSet(cells) = Contents(m), NEW r, Fails(cells, r)
    PROVE  SortInv' /\ [RunsNext]_runVars /\ Contents(m') = Contents(m)
<1>1. [RunsNext]_runVars /\ EndSort /\ Returned(cells, r)
  BY DEF Fails, SortGivesUp, RunsNext
<1> QED
  BY <1>1, EndsSound
-----------------------------------------------------------------------------
\* FindRun keeps the invariant.
LEMMA FindRunSound ==
    ASSUME SortInv, FindRun
    PROVE  SortInv' /\ [RunsNext]_runVars /\ Contents(m') = Contents(m)
<1> DEFINE rest == SubSeq(m.cells, lo + 1, N)
           head == SubSeq(m.cells, 1, lo)
           run == NextRun(rest, Minrun(N))
           cells == head \o run.s
<1>1. /\ N \in Nat /\ lo \in Nat /\ nremaining \in Nat /\ alloced \in Nat
      /\ RunsInv /\ phase = "march" /\ nremaining > 0 /\ ~Merging
      /\ Sound(m, N, alloced) /\ Live(m) /\ Room
  BY NIs DEF SortInv, Room, FindRun
<1>2. N = lo + nremaining
  BY DEF N
<1>3. Whole(m.cells, N) /\ Contents(m) = ToSet(m.cells)
  BY <1>1, IdleWhole DEF Merging
<1>4. m.cells \in Seq(Cell) /\ Len(m.cells) = N /\ lo \in 0..Len(m.cells)
  BY <1>1, <1>2, <1>3 DEF Whole
<1>5. /\ head \in Seq(Cell) /\ rest \in Seq(Cell) /\ Len(head) = lo
      /\ Len(rest) = N - lo /\ ToSet(m.cells) = ToSet(head) \cup ToSet(rest)
  <2> DEFINE c == m.cells  n == N  q == lo
  <2>1. c \in Seq(Cell) /\ Len(c) = n /\ q \in 0..Len(c)
    BY <1>4
  <2> HIDE DEF c, n, q
  <2>2. /\ SubSeq(c, 1, q) \in Seq(Cell) /\ SubSeq(c, q + 1, Len(c)) \in Seq(Cell)
        /\ Len(SubSeq(c, 1, q)) = q
        /\ Len(SubSeq(c, q + 1, Len(c))) = Len(c) - q
        /\ ToSet(c) = ToSet(SubSeq(c, 1, q)) \cup ToSet(SubSeq(c, q + 1, Len(c)))
    BY <2>1, SplitKeeps
  <2> QED
    BY <2>1, <2>2 DEF c, n, q
<1> HIDE DEF rest, head
<1>6. Len(rest) >= 1 /\ Len(rest) = nremaining
  BY <1>1, <1>2, <1>5
<1>7. /\ run.failed \in BOOLEAN /\ run.s \in Seq(Cell)
      /\ Len(run.s) = Len(rest) /\ ToSet(run.s) = ToSet(rest)
      /\ ~run.failed => run.n \in 1..Len(rest)
  <2> DEFINE k == Minrun(N)
  <2>1. k \in Nat
    BY <1>1, MinrunNat
  <2> HIDE DEF k
  <2>2. /\ NextRun(rest, k).failed \in BOOLEAN
        /\ NextRun(rest, k).s \in Seq(Cell)
        /\ Len(NextRun(rest, k).s) = Len(rest)
        /\ ToSet(NextRun(rest, k).s) = ToSet(rest)
        /\ Rearranged(NextRun(rest, k).s, rest)
        /\ ~NextRun(rest, k).failed => NextRun(rest, k).n \in 1..Len(rest)
    BY <1>5, <1>6, <2>1, NextRunKeeps
  <2> QED
    BY <2>2 DEF k
<1>8. FindRun =>
        /\ IF run.failed THEN Fails(cells, "TypeError")
           ELSE /\ PushRun(run.n) /\ m' = Idle(cells)
                /\ UNCHANGED <<reverse, keyed, alloced, result>>
  BY DEF FindRun, rest, head
<1> DEFINE s == run.s
<1>a. s \in Seq(Cell) /\ Len(s) = Len(rest) /\ ToSet(s) = ToSet(rest) /\ cells = head \o s
  BY <1>7
<1> HIDE DEF run, s, cells
<1>9. Whole(cells, N) /\ ToSet(cells) = Contents(m)
  <2>1. /\ head \o s \in Seq(Cell) /\ Len(head \o s) = Len(head) + Len(s)
        /\ ToSet(head \o s) = ToSet(head) \cup ToSet(s)
    <3>1. head \in Seq(Cell) /\ s \in Seq(Cell)
      BY <1>5, <1>a
    <3> QED
      BY ONLY <3>1, ToSetOfJoin
  <2>2. Len(cells) = N
    BY <1>1, <1>5, <1>a, <2>1
  <2>3. ToSet(cells) = ToSet(m.cells)
    BY <1>5, <1>a, <2>1
  <2> QED
    BY <1>3, <1>a, <2>1, <2>2, <2>3 DEF Whole
<1>10. CASE run.failed
  BY <1>8, <1>9, <1>10, FailsSound
<1>11. CASE ~run.failed
  <2> DEFINE n == run.n
  <2>1. n \in 1..nremaining /\ PushRun(n) /\ m' = Idle(cells)
        /\ keyed' = keyed /\ alloced' = alloced
    BY <1>6, <1>7, <1>8, <1>11
  <2> HIDE DEF n
  <2>2. RunsNext
    BY <2>1 DEF RunsNext
  <2>3. RunsInv'
    BY <1>1, <2>2, RunsStep
  <2>4. N' = N /\ phase' = "collapse"
    <3>1. lo' = lo + n /\ nremaining' = nremaining - n /\ phase' = "collapse"
      BY <2>1 DEF PushRun
    <3> QED
      BY <1>1, <2>1, <3>1 DEF N
  <2>5. /\ Sound(Idle(cells), N, alloced) /\ Live(Idle(cells))
        /\ Contents(Idle(cells)) = Contents(m)
    BY <1>1, <1>9, WholeIdle
  <2>6. Sound(m', N', alloced') /\ Live(m') /\ Contents(m') = Contents(m)
    BY <2>1, <2>4, <2>5
  <2>7. Room'
    BY <1>1, <2>1, <2>4 DEF Room
  <2> QED
    BY <2>2, <2>3, <2>4, <2>6, <2>7 DEF SortInv
<1> QED
  BY <1>10, <1>11

\* The two runs that are merged lie within the list.
LEMMA PairLies ==
    ASSUME RunsInv, NEW i \in 1..Len(pending) - 1, i >= Len(pending) - 2
    PROVE  /\ pending[i].base \in Nat /\ pending[i].len \in Nat \ {0}
           /\ pending[i + 1].len \in Nat \ {0}
           /\ pending[i + 1].base = pending[i].base + pending[i].len
           /\ pending[i + 1].base + pending[i + 1].len <= N
<1>0. /\ pending \in Seq(Run) /\ Len(pending) \in Nat /\ N \in Nat /\ lo <= N
      /\ lo \in Nat
  <2>1. pending \in Seq(Run)
    BY DEF RunsInv, RunsTypeOK
  <2> QED
    BY <2>1, NIs DEF N
<1>1. /\ i \in 1..Len(pending) /\ i + 1 \in 1..Len(pending) /\ i + 1 # 1
      /\ i + 1 - 1 = i /\ Len(pending) \in 1..Len(pending) /\ Len(pending) # 1
      /\ pending # <<>>
  <2> DEFINE l == Len(pending)
  <2>1. i \in 1..l - 1 /\ l \in Nat
    BY <1>0
  <2>2. pending = <<>> => l = 0
    OBVIOUS
  <2> HIDE DEF l
  <2>3. /\ i \in 1..l /\ i + 1 \in 1..l /\ i + 1 # 1
        /\ i + 1 - 1 = i /\ l \in 1..l /\ l # 1 /\ l # 0
    BY <2>1
  <2> QED
    BY <2>2, <2>3 DEF l
<1>2. \A j \in 1..Len(pending) : pending[j].base \in Nat /\ pending[j].len \in Nat \ {0}
  <2>1. \A j \in 1..Len(pending) : pending[j] \in Run
    BY <1>0
  <2>2. \A j \in 1..Len(pending) : pending[j].len > 0
    BY DEF RunsInv, RunsAbut
  <2> QED
    BY <2>1, <2>2 DEF Run
<1>3. /\ pending[i + 1].base = pending[i].base + pending[i].len
      /\ lo = pending[Len(pending)].base + pending[Len(pending)].len
      /\ pending[Len(pending)].base =
            pending[Len(pending) - 1].base + pending[Len(pending) - 1].len
  <2>1. \A j \in 1..Len(pending) :
            pending[j].base = IF j = 1 THEN 0
                              ELSE pending[j - 1].base + pending[j - 1].len
    BY DEF RunsInv, RunsAbut
  <2>2. pending[i + 1].base = pending[i + 1 - 1].base + pending[i + 1 - 1].len
    BY <1>1, <2>1
  <2>3. lo = pending[Len(pending)].base + pending[Len(pending)].len
    BY <1>1 DEF RunsInv, RunsAbut
  <2>4. pending[Len(pending)].base =
            pending[Len(pending) - 1].base + pending[Len(pending) - 1].len
    BY <1>1, <2>1
  <2> QED
    BY <1>1, <2>2, <2>3, <2>4
<1>4. pending[i + 1].base + pending[i + 1].len <= lo
  <2>1. CASE i + 1 = Len(pending)
    BY <1>0, <1>3, <2>1
  <2>2. CASE i + 1 = Len(pending) - 1
    <3> DEFINE t == Len(pending)
               e == pending[i + 1].base + pending[i + 1].len
               x == pending[t].base  y == pending[t].len
    <3>1. x = e /\ lo = x + y /\ x \in Nat /\ y \in Nat
      BY <1>1, <1>2, <1>3, <2>2
    <3> HIDE DEF e, x, y
    <3>2. e <= lo
      BY <3>1
    <3> QED
      BY <3>2 DEF e
  <2>3. i + 1 = Len(pending) \/ i + 1 = Len(pending) - 1
    BY <1>0
  <2> QED
    BY <2>1, <2>2, <2>3
<1>5. pending[i + 1].base + pending[i + 1].len \in Nat
  BY <1>1, <1>2
<1> QED
  BY <1>0, <1>1, <1>2, <1>3, <1>4, <1>5

\* A place is found among the items, or the search fails.
LEMMA PlaceInRange ==
    ASSUME NEW x, NEW items, NEW n \in Nat, NEW hint \in 0..n - 1
    PROVE  /\ PlaceRight(x, items, n, hint) \in {-1} \cup 0..n
           /\ PlaceLeft(x, items, n, hint) \in {-1} \cup 0..n
<1>1. PlaceRight(x, items, n, hint) \in {-1} \cup 0..n
  <2> DEFINE right == [p \in 0..n - 1 |-> Not(Less(x, items[p]))]
  <2>1. \A p \in 0..n - 1 : right[p] \in {-1, 0, 1}
    BY LessIs
  <2> HIDE DEF right
  <2>2. Gallop(right, n, hint) \in {-1} \cup 0..n
    BY <2>1, GallopInRange
  <2> QED
    BY <2>2 DEF PlaceRight, right
<1>2. PlaceLeft(x, items, n, hint) \in {-1} \cup 0..n
  <2> DEFINE right == [p \in 0..n - 1 |-> Less(items[p], x)]
  <2>1. \A p \in 0..n - 1 : right[p] \in {-1, 0, 1}
    BY LessIs
  <2> HIDE DEF right
  <2>2. Gallop(right, n, hint) \in {-1} \cup 0..n
    BY <2>1, GallopInRange
  <2> QED
    BY <2>2 DEF PlaceLeft, right
<1> QED
  BY <1>1, <1>2

\* A merge of two runs starts.
Joins(na, nb, mid, base, space) ==
    /\ m' = HoldShorter(base, na, mid, nb)
    /\ space = IF na <= nb THEN na ELSE nb
    /\ alloced' = IF space <= alloced THEN alloced ELSE space
    /\ UNCHANGED <<reverse, keyed, gallopAt, result>>

\* A merge of two runs joins them on the stack, with or without moving
\* items, or fails.
LEMMA MergeRunsIs ==
    ASSUME RunsInv, NEW i \in 1..Len(pending) - 1, i >= Len(pending) - 2,
           NEW ACTION Join, MergeRuns(i, Join)
    PROVE  \/ Join /\ UNCHANGED sortVars
           \/ /\ Join
              /\ \E base, na, mid, nb, space :
                    Adjacent(base, na, mid, nb, N) /\ Joins(na, nb, mid, base, space)
           \/ \E r : Fails(m.cells, r)
<1> DEFINE a == pending[i]
           b == pending[i + 1]
           A == [p \in 0..a.len - 1 |-> m.cells[a.base + p + 1]]
           B == [p \in 0..b.len - 1 |-> m.cells[b.base + p + 1]]
           k  == PlaceRight(B[0], A, a.len, 0)
           na == a.len - k
           nb == PlaceLeft(A[a.len - 1], B, b.len, b.len - 1)
           need == IF na <= nb THEN na ELSE nb
<1>1. \/ (na = 0 \/ nb = 0) /\ Join /\ UNCHANGED sortVars
      \/ /\ k # -1 /\ na > 0 /\ nb > 0 /\ Join
         /\ m' = HoldShorter(a.base + k, na, b.base, nb)
         /\ alloced' = IF need <= alloced THEN alloced ELSE need
         /\ UNCHANGED <<reverse, keyed, gallopAt, result>>
      \/ Fails(m.cells, "TypeError")
      \/ Fails(m.cells, "MemoryError")
  BY Zenon DEF MergeRuns
<1>2. /\ a.base \in Nat /\ a.len \in Nat \ {0} /\ b.len \in Nat \ {0}
      /\ b.base = a.base + a.len /\ b.base + b.len <= N /\ N \in Nat
  BY PairLies, NIs
<1>3. k \in {-1} \cup 0..a.len
  <2> DEFINE x == B[0]  n == a.len  hint == 0
  <2>1. n \in Nat /\ hint \in 0..n - 1
    BY <1>2
  <2> HIDE DEF x, n, hint, A
  <2>2. PlaceRight(x, A, n, hint) \in {-1} \cup 0..n
    BY <2>1, PlaceInRange
  <2> QED
    BY <2>2 DEF x, n, hint
<1>4. nb \in {-1} \cup 0..b.len
  <2> DEFINE x == A[a.len - 1]  n == b.len  hint == b.len - 1
  <2>1. n \in Nat /\ hint \in 0..n - 1
    BY <1>2
  <2> HIDE DEF x, n, hint, B
  <2>2. PlaceLeft(x, B, n, hint) \in {-1} \cup 0..n
    BY <2>1, PlaceInRange
  <2> QED
    BY <2>2 DEF x, n, hint
<1> DEFINE base == a.base + k
           mid == b.base
<1> HIDE DEF k, nb
<1>5. ASSUME k # -1, na > 0, nb > 0
      PROVE  Adjacent(base, na, mid, nb, N)
  <2> DEFINE ab == a.base  al == a.len  bl == b.len  bb == b.base
  <2>1. /\ ab \in Nat /\ al \in Nat \ {0} /\ bl \in Nat \ {0}
        /\ bb = ab + al /\ bb + bl <= N /\ N \in Nat
        /\ k \in {-1} \cup 0..al /\ nb \in {-1} \cup 0..bl
        /\ k # -1 /\ al - k > 0 /\ nb > 0
    BY <1>2, <1>3, <1>4, <1>5
  <2> HIDE DEF ab, al, bl, bb
  <2>2. Adjacent(ab + k, al - k, bb, nb, N)
    BY <2>1 DEF Adjacent
  <2> QED
    BY <2>2 DEF ab, al, bl, bb
<1> HIDE DEF a, b, na, base, mid
<1>6. CASE (na = 0 \/ nb = 0) /\ Join /\ UNCHANGED sortVars
  BY <1>6
<1>7. CASE /\ k # -1 /\ na > 0 /\ nb > 0 /\ Join
           /\ m' = HoldShorter(base, na, mid, nb)
           /\ alloced' = IF need <= alloced THEN alloced ELSE need
           /\ UNCHANGED <<reverse, keyed, gallopAt, result>>
  <2>1. Adjacent(base, na, mid, nb, N) /\ Join
    BY <1>5, <1>7
  <2>2. Joins(na, nb, mid, base, need)
    BY <1>7 DEF Joins
  <2> HIDE DEF need
  <2> QED
    BY <2>1, <2>2
<1>8. CASE Fails(m.cells, "TypeError") \/ Fails(m.cells, "MemoryError")
  BY <1>8
<1> QED
  BY <1>1, <1>6, <1>7, <1>8, Zenon DEF base, mid
-----------------------------------------------------------------------------
\* A merge that starts keeps the invariant.
LEMMA JoinsSound ==
    ASSUME SortInv, ~Merging, phase \in {"collapse", "force"}, NEW i, MergeAt(i), RunsNext,
           NEW base, NEW na, NEW mid, NEW nb, NEW space,
           Adjacent(base, na, mid, nb, N), Joins(na, nb, mid, base, space)
    PROVE  SortInv' /\ Contents(m') = Contents(m)
<1>1. /\ RunsInv /\ N \in Nat /\ alloced \in Nat /\ Room
      /\ Sound(m, N, alloced) /\ Live(m)
  BY NIs DEF SortInv, Room
<1>2. RunsInv'
  BY <1>1, RunsStep
<1>3. N' = N /\ phase' = phase
  BY DEF MergeAt, N
<1>4. /\ na \in Nat /\ nb \in Nat /\ na + nb <= N /\ space \in Nat
      /\ (IF na <= nb THEN na ELSE nb) <= space /\ 2 * space <= N
      /\ space = IF na <= nb THEN na ELSE nb
  <2> DEFINE n == N
  <2>1. /\ n \in Nat /\ base \in Nat /\ na \in Nat /\ nb \in Nat
        /\ mid = base + na /\ mid + nb <= n
        /\ space = IF na <= nb THEN na ELSE nb
    BY DEF Adjacent, Joins
  <2> HIDE DEF n
  <2>2. /\ na + nb <= n /\ space \in Nat /\ 2 * space <= n
        /\ (IF na <= nb THEN na ELSE nb) <= space
    BY <2>1
  <2> QED
    BY <2>1, <2>2 DEF n
<1>5. /\ alloced' = IF space <= alloced THEN alloced ELSE space
      /\ keyed' = keyed /\ m' = HoldShorter(base, na, mid, nb)
  BY DEF Joins
<1>6. alloced' \in Nat /\ space <= alloced'
  BY <1>1, <1>4, <1>5
<1>7. Room'
  <2> DEFINE n == N  q == TempSize \div 2
  <2>1. alloced \in Nat /\ n \in Nat /\ space \in Nat /\ 2 * space <= n
        /\ (keyed /\ n < q => 2 * alloced <= n + 1)
    BY <1>1, <1>4 DEF Room
  <2>2. alloced' = IF space <= alloced THEN alloced ELSE space
    BY <1>5
  <2> HIDE DEF n, q
  <2>3. keyed /\ n < q => 2 * alloced' <= n + 1
    BY <2>1, <2>2
  <2> QED
    BY <1>3, <1>5, <1>6, <2>3 DEF Room, n, q
<1>8. /\ Sound(HoldShorter(base, na, mid, nb), N, alloced')
      /\ Live(HoldShorter(base, na, mid, nb))
      /\ Contents(HoldShorter(base, na, mid, nb)) = Contents(m)
  <2> DEFINE n == N  room == alloced  wide == alloced'
  <2>1. /\ n \in Nat /\ room \in Nat /\ wide \in Nat
        /\ Adjacent(base, na, mid, nb, n) /\ Sound(m, n, room) /\ Live(m) /\ ~Merging
        /\ (IF na <= nb THEN na ELSE nb) <= wide
    BY <1>1, <1>4, <1>6
  <2> HIDE DEF n, room, wide
  <2>2. /\ Sound(HoldShorter(base, na, mid, nb), n, wide)
        /\ Live(HoldShorter(base, na, mid, nb))
        /\ Contents(HoldShorter(base, na, mid, nb)) = Contents(m)
    BY ONLY <2>1, HoldShorterSound
  <2> QED
    BY <2>2 DEF n, wide
<1>9. Sound(m', N', alloced') /\ Live(m') /\ Contents(m') = Contents(m)
  BY <1>3, <1>5, <1>8
<1> QED
  BY <1>2, <1>3, <1>7, <1>9 DEF SortInv

\* A step of the stack alone leaves the cells as they are.
LEMMA StackSound ==
    ASSUME SortInv, ~Merging, [RunsNext]_runVars, N' = N, UNCHANGED sortVars,
           phase' = "march" => nremaining' > 0
    PROVE  SortInv' /\ Contents(m') = Contents(m)
<1>1. RunsInv'
  BY RunsStep DEF SortInv
<1>2. m' = m /\ alloced' = alloced /\ keyed' = keyed
  BY DEF sortVars
<1>3. Room'
  BY <1>2 DEF SortInv, Room
<1>4. Sound(m', N', alloced') /\ Live(m') /\ m'.mode = "none"
  BY <1>2 DEF SortInv, Merging
<1> QED
  BY <1>1, <1>2, <1>3, <1>4 DEF SortInv, Merging

\* MergeRuns keeps the invariant, wherever it is called from.
LEMMA MergeRunsSound ==
    ASSUME SortInv, ~Merging, phase \in {"collapse", "force"},
           NEW i \in 1..Len(pending) - 1, i >= Len(pending) - 2,
           NEW ACTION Join, Join => MergeAt(i) /\ RunsNext, MergeRuns(i, Join)
    PROVE  SortInv' /\ [RunsNext]_runVars /\ Contents(m') = Contents(m)
<1>1. RunsInv /\ N \in Nat /\ Sound(m, N, alloced) /\ Live(m)
  BY NIs DEF SortInv
<1>2. \/ Join /\ UNCHANGED sortVars
      \/ /\ Join
         /\ \E base, na, mid, nb, space :
               Adjacent(base, na, mid, nb, N) /\ Joins(na, nb, mid, base, space)
      \/ \E r : Fails(m.cells, r)
  BY <1>1, MergeRunsIs
<1>3. CASE Join /\ UNCHANGED sortVars
  <2>1. N' = N /\ phase' = phase
    BY <1>3 DEF MergeAt, N
  <2> QED
    BY <1>3, <2>1, StackSound
<1>4. ASSUME Join, NEW base, NEW na, NEW mid, NEW nb, NEW space,
             Adjacent(base, na, mid, nb, N), Joins(na, nb, mid, base, space)
      PROVE  SortInv' /\ [RunsNext]_runVars /\ Contents(m') = Contents(m)
  BY <1>4, JoinsSound
<1>5. ASSUME NEW r, Fails(m.cells, r)
      PROVE  SortInv' /\ [RunsNext]_runVars /\ Contents(m') = Contents(m)
  <2>1. Whole(m.cells, N) /\ Contents(m) = ToSet(m.cells)
    BY <1>1, IdleWhole DEF Merging
  <2> QED
    BY <1>5, <2>1, FailsSound
<1> QED
  BY <1>2, <1>3, <1>4, <1>5

\* CollapseRuns keeps the invariant.
LEMMA CollapseRunsSound ==
    ASSUME SortInv, CollapseRuns
    PROVE  SortInv' /\ [RunsNext]_runVars /\ Contents(m') = Contents(m)
<1> DEFINE i == CollapseAt
<1>1. pending \in Seq(Run)
  BY DEF SortInv, RunsInv, RunsTypeOK
<1>2. ~Merging /\ phase \in {"collapse", "force"} /\ i # 0 /\ MergeRuns(i, Collapse)
  BY DEF CollapseRuns
<1>3. i \in 1..Len(pending) - 1 /\ i >= Len(pending) - 2
  BY <1>1, <1>2, CollapseIsOnTop
<1>4. Collapse => MergeAt(i) /\ RunsNext
  BY DEF Collapse, RunsNext
<1> HIDE DEF i
<1> QED
  BY <1>2, <1>3, <1>4, MergeRunsSound

\* ForceRuns keeps the invariant.
LEMMA ForceRunsSound ==
    ASSUME SortInv, ForceRuns
    PROVE  SortInv' /\ [RunsNext]_runVars /\ Contents(m') = Contents(m)
<1> DEFINE i == Shorter
<1>1. pending \in Seq(Run)
  BY DEF SortInv, RunsInv, RunsTypeOK
<1>2. /\ ~Merging /\ phase \in {"collapse", "force"} /\ Len(pending) > 1
      /\ MergeRuns(i, ForceCollapse)
  BY DEF ForceRuns
<1>3. i \in 1..Len(pending) - 1 /\ i >= Len(pending) - 2
  BY <1>1, <1>2, ShorterIsOnTop
<1>4. ForceCollapse => MergeAt(i) /\ RunsNext
  BY DEF ForceCollapse, RunsNext
<1> HIDE DEF i
<1> QED
  BY <1>2, <1>3, <1>4, MergeRunsSound

\* RunsCollapsed keeps the invariant.
LEMMA RunsCollapsedSound ==
    ASSUME SortInv, RunsCollapsed
    PROVE  SortInv' /\ [RunsNext]_runVars /\ Contents(m') = Contents(m)
<1>1. Collapsed /\ ~Merging /\ UNCHANGED sortVars /\ [RunsNext]_runVars
  BY DEF RunsCollapsed, RunsNext
<1>2. N' = N /\ (phase' = "march" => nremaining' > 0)
  <2>1. nremaining \in Nat
    BY NIs DEF SortInv
  <2>2. /\ lo' = lo /\ nremaining' = nremaining
        /\ phase' = IF nremaining = 0 THEN "force" ELSE "march"
    BY <1>1 DEF Collapsed
  <2> QED
    BY <2>1, <2>2 DEF N
<1> QED
  BY <1>1, <1>2, StackSound

\* SortEnds keeps the invariant.
LEMMA SortEndsSound ==
    ASSUME SortInv, SortEnds
    PROVE  SortInv' /\ [RunsNext]_runVars /\ Contents(m') = Contents(m)
<1>1. ~Merging /\ EndSort /\ Returned(m.cells, "ok") /\ [RunsNext]_runVars
  BY DEF SortEnds, SortSucceeds, RunsNext
<1>2. Whole(m.cells, N) /\ Contents(m) = ToSet(m.cells)
  BY <1>1, NIs, IdleWhole DEF SortInv, Merging
<1> QED
  BY <1>1, <1>2, EndsSound

\* A merge that goes on soundly keeps the invariant.
LEMMA ProceedsSound ==
    ASSUME SortInv, Merging, NEW s, Proceeds(s), Sound(s, N, alloced), Live(s),
           Contents(s) = Contents(m)
    PROVE  SortInv' /\ [RunsNext]_runVars /\ Contents(m') = Contents(m)
<1>1. /\ m' = s /\ UNCHANGED runVars /\ keyed' = keyed /\ alloced' = alloced
  BY DEF Proceeds
<1>2. /\ lo' = lo /\ nremaining' = nremaining /\ phase' = phase
  BY <1>1 DEF runVars
<1>3. RunsInv' /\ [RunsNext]_runVars
  BY <1>1, RunsStep DEF SortInv
<1>4. N' = N
  BY <1>2 DEF N
<1>5. Room'
  BY <1>1, <1>4 DEF SortInv, Room
<1>6. phase' \notin {"march", "done"}
  BY <1>2 DEF SortInv
<1> QED
  BY <1>1, <1>3, <1>4, <1>5, <1>6 DEF SortInv

\* A merge that fails puts back what it holds.
LEMMA FailsFlushed ==
    ASSUME SortInv, NEW r, Fails(Flush(m).cells, r)
    PROVE  SortInv' /\ [RunsNext]_runVars /\ Contents(m') = Contents(m)
<1>1. N \in Nat /\ Sound(m, N, alloced)
  BY NIs DEF SortInv
<1>2. Whole(Flush(m).cells, N)
  BY <1>1, SoundWhole
<1>3. ToSet(Flush(m).cells) = Contents(m)
  BY DEF Contents
<1> QED
  BY <1>2, <1>3, FailsSound

\* A mode and the counts of wins may be given to a merge that goes on.
LEMMA ModeLive ==
    ASSUME NEW n \in Nat, NEW room \in Nat, NEW s, Sound(s, n, room), Live(s),
           s.mode # "none",
           NEW x \in {"one", "gallopA", "gallopB"}, NEW w \in [Runs -> Int],
           NEW u, Marked(s, x, w, u)
    PROVE  Sound(u, n, room) /\ Live(u) /\ Contents(u) = Contents(s)
<1>0. /\ n \in Nat /\ room \in Nat /\ Sound(s, n, room) /\ w \in [Runs -> Int]
      /\ x \in {"one", "gallopA", "gallopB"} /\ Marked(s, x, w, u)
  OBVIOUS
<1>1. /\ Sound(u, n, room) /\ u.mode = x
      /\ u.left = s.left /\ u.held = s.held /\ Contents(u) = Contents(s)
  BY ONLY <1>0, ModeSound
<1> QED
  BY <1>1 DEF Live

\* The fields of a sound merge.
LEMMA MergeStateIs ==
    ASSUME NEW n, NEW room, NEW s, Sound(s, n, room)
    PROVE  /\ s \in MergeState /\ s.held \in Runs
           /\ s.left \in [Runs -> Nat] /\ s.won \in [Runs -> Int]
BY DEF Sound, Laid, MergeState

\* While a merge goes on, both of its runs have items left.
LEMMA LiveLeft ==
    ASSUME NEW n, NEW room, NEW s, Sound(s, n, room), Live(s), s.mode # "none",
           NEW r \in Runs
    PROVE  s.left[r] \in Nat /\ s.left[r] >= 1
<1>1. s.held \in Runs /\ s.left[r] \in Nat
  BY MergeStateIs
<1>2. r = s.held \/ r = Other(s.held)
  BY <1>1, OtherIs
<1>3. s.left[Other(s.held)] >= 1 /\ s.left[s.held] >= 2
  BY DEF Live
<1> QED
  BY <1>1, <1>2, <1>3

\* MergeOne keeps the invariant.
LEMMA MergeOneSound ==
    ASSUME SortInv, MergeOne
    PROVE  SortInv' /\ [RunsNext]_runVars /\ Contents(m') = Contents(m)
<1> DEFINE k == Less(First(m, "b"), First(m, "a"))
           winner == IF k = 1 THEN Other(m.held) ELSE m.held
           t == Take(m, winner, 1)
           won == [r \in {"a", "b"} |-> IF r = winner THEN t.won[r] + 1 ELSE 0]
           u == [t EXCEPT !.won = won]
           s == Exit(u)
           gallops == s.mode # "none" /\ s.won[winner] >= gallopAt
           v == IF gallops THEN [s EXCEPT !.mode = "gallopA"] ELSE s
<1>1. /\ m.mode = "one"
      /\ \/ Fails(Flush(m).cells, "TypeError")
         \/ Proceeds(v)
  BY DEF MergeOne
<1>2. /\ N \in Nat /\ alloced \in Nat /\ Sound(m, N, alloced) /\ Live(m)
      /\ m.held \in Runs /\ m.mode # "none" /\ Merging
  BY <1>1, NIs, MergeStateIs DEF SortInv, Room, Merging
<1>3. winner \in Runs
  BY <1>2, OtherIs
<1> HIDE DEF winner
<1>4. Sound(t, N, alloced) /\ t.mode = "one" /\ Contents(t) = Contents(m)
  <2> DEFINE n == N  room == alloced  c == m  one == 1
  <2>1. /\ n \in Nat /\ room \in Nat /\ Sound(c, n, room)
        /\ winner \in Runs /\ one \in 0..c.left[winner]
    BY <1>2, <1>3, LiveLeft
  <2>2. t = Take(c, winner, one)
    OBVIOUS
  <2> HIDE DEF n, room, c, one, t
  <2>3. /\ Sound(t, n, room) /\ t.held = c.held /\ t.mode = c.mode
        /\ Contents(t) = Contents(c)
        /\ t.left = [c.left EXCEPT ![winner] = c.left[winner] - one]
    BY ONLY <2>1, <2>2, TakeSound
  <2> QED
    BY <1>1, <2>3 DEF n, room, c
<1> HIDE DEF t
<1>5. t \in MergeState /\ t.won \in [Runs -> Int]
  BY <1>4, MergeStateIs
<1>6. won \in [Runs -> Int]
  <2>1. {"a", "b"} = Runs
    BY DEF Runs
  <2> QED
    BY <1>5, <2>1
<1> HIDE DEF won
<1>7. Marked(t, "one", won, u)
  BY <1>4, <1>5 DEF MergeState, Marked
<1> HIDE DEF u
<1>8. Sound(u, N, alloced) /\ u.mode = "one" /\ Contents(u) = Contents(m)
  <2> DEFINE n == N  room == alloced  x == "one"
  <2>1. /\ n \in Nat /\ room \in Nat /\ Sound(t, n, room) /\ won \in [Runs -> Int]
        /\ x \in {"one", "gallopA", "gallopB"} /\ Marked(t, x, won, u)
    BY <1>2, <1>4, <1>6, <1>7 DEF Marked
  <2> HIDE DEF n, room, x
  <2>2. /\ Sound(u, n, room) /\ u.mode = x
        /\ u.left = t.left /\ u.held = t.held /\ Contents(u) = Contents(t)
    BY ONLY <2>1, ModeSound
  <2> QED
    BY <1>4, <2>2 DEF n, room, x
<1>9. /\ Sound(s, N, alloced) /\ Live(s) /\ s.mode \in {"none", "one"}
      /\ Contents(s) = Contents(m)
  <2>1. u.mode # "none"
    BY <1>8
  <2> HIDE DEF s
  <2>2. /\ Sound(Exit(u), N, alloced) /\ Live(Exit(u)) /\ Exit(u).mode \in {"none", u.mode}
        /\ Contents(Exit(u)) = Contents(u)
    BY <1>2, <1>8, <2>1, ExitSound
  <2> QED
    BY <1>8, <2>2 DEF s
<1> HIDE DEF s
<1>10. Sound(v, N, alloced) /\ Live(v) /\ Contents(v) = Contents(m)
  <2>1. CASE gallops
    <3>1. s \in MergeState /\ s.won \in [Runs -> Int]
      BY <1>9, MergeStateIs
    <3>2. Marked(s, "gallopA", s.won, v)
      BY <2>1, <3>1 DEF MergeState, Marked
    <3> HIDE DEF v
    <3> QED
      BY <1>2, <1>9, <2>1, <3>1, <3>2, ModeLive
  <2>2. CASE ~gallops
    BY <1>9, <2>2
  <2> QED
    BY <2>1, <2>2
<1> HIDE DEF v
<1> QED
  BY <1>1, <1>2, <1>10, ProceedsSound, FailsFlushed

\* Where a search among n items ends, some of them precede.
LEMMA HowMany ==
    ASSUME NEW n \in Nat, NEW p \in 0..n, NEW forward \in BOOLEAN
    PROVE  (IF forward THEN p ELSE n - p) \in 0..n
OBVIOUS

\* The two halves of a galloping round are alike: k items of r, then one of q.
LEMMA GallopSound ==
    ASSUME NEW n \in Nat, NEW room \in Nat, NEW s, Sound(s, n, room), Live(s),
           s.mode # "none",
           NEW x \in {"one", "gallopA", "gallopB"}, NEW w \in [Runs -> Int],
           NEW r \in Runs, NEW q \in Runs, q # r, NEW k \in 0..s.left[r],
           NEW u, Marked(s, x, w, u),
           NEW v, v = Then(Then(u, r, k), q, 1)
    PROVE  Sound(v, n, room) /\ Live(v) /\ Contents(v) = Contents(s)
<1>0. /\ n \in Nat /\ room \in Nat /\ Sound(s, n, room) /\ w \in [Runs -> Int]
      /\ x \in {"one", "gallopA", "gallopB"} /\ Marked(s, x, w, u)
  OBVIOUS
<1>1. /\ Sound(u, n, room) /\ u.mode = x
      /\ u.left = s.left /\ u.held = s.held /\ Contents(u) = Contents(s)
  BY ONLY <1>0, ModeSound
<1> DEFINE t == Then(u, r, k)
           one == 1
<1>2. u.mode # "none" /\ k \in 0..u.left[r]
  BY <1>1
<1>3. Sound(t, n, room) /\ Live(t) /\ Contents(t) = Contents(s)
  <2>1. Sound(u, n, room) /\ IF u.mode = "none" THEN Live(u) ELSE k \in 0..u.left[r]
    BY <1>1, <1>2
  <2> HIDE DEF t
  <2> QED
    BY <1>1, <2>1, ThenSound DEF t
<1>4. v = Then(t, q, one)
  OBVIOUS
<1>5. IF t.mode = "none" THEN Live(t) ELSE 1 \in 0..t.left[q]
  <2> HIDE DEF t
  <2>1. CASE t.mode # "none"
    <3>1. t.left[q] \in Nat /\ t.left[q] >= 1
      BY <1>3, <2>1, LiveLeft
    <3> QED
      BY <2>1, <3>1
  <2> QED
    BY <1>3, <2>1
<1>6. IF t.mode = "none" THEN Live(t) ELSE one \in 0..t.left[q]
  BY <1>5
<1> HIDE DEF t, one
<1> QED
  BY <1>3, <1>4, <1>6, ThenSound

\* GallopA keeps the invariant.
LEMMA GallopASound ==
    ASSUME SortInv, GallopA
    PROVE  SortInv' /\ [RunsNext]_runVars /\ Contents(m') = Contents(m)
<1> DEFINE n == m.left["a"]
           items == [j \in 0..n - 1 |-> Nth(m, "a", j)]
           hint == IF Forward(m) THEN 0 ELSE n - 1
           p == PlaceRight(First(m, "b"), items, n, hint)
           k == IF Forward(m) THEN p ELSE n - p
           won == [m.won EXCEPT !["a"] = k]
           u == [m EXCEPT !.mode = "gallopB", !.won = won]
           v == Then(Then(u, "a", k), "b", 1)
<1>1. m.mode = "gallopA"
  BY DEF GallopA
<1>2. /\ N \in Nat /\ alloced \in Nat /\ Sound(m, N, alloced) /\ Live(m)
      /\ m.mode # "none" /\ Merging
      /\ m \in MergeState /\ m.won \in [Runs -> Int]
  BY <1>1, NIs, MergeStateIs DEF SortInv, Room, Merging
<1>3. "a" \in Runs /\ "b" \in Runs /\ "a" # "b"
  BY DEF Runs
<1>4. n \in Nat /\ n >= 1
  BY <1>2, <1>3, LiveLeft
<1>5. \/ Fails(Flush(m).cells, "TypeError")
      \/ p # -1 /\ Proceeds(v)
  <2>1. [m EXCEPT !.mode = "gallopB", !.won.a = k] = u
    OBVIOUS
  <2> HIDE DEF k, u
  <2> QED
    BY <2>1 DEF GallopA, u, k
<1>6. p \in {-1} \cup 0..n
  <2>1. hint \in 0..n - 1
    BY <1>4
  <2> DEFINE x == First(m, "b")
  <2> HIDE DEF n, items, hint, x
  <2>2. PlaceRight(x, items, n, hint) \in {-1} \cup 0..n
    BY <1>4, <2>1, PlaceInRange
  <2> QED
    BY <2>2 DEF x
<1> HIDE DEF p, items
<1>7. CASE p # -1 /\ Proceeds(v)
  <2>1. k \in 0..n /\ k \in Int
    BY <1>4, <1>6, <1>7
  <2> HIDE DEF k
  <2>2. won \in [Runs -> Int]
    BY <1>2, <2>1
  <2>3. Marked(m, "gallopB", won, u)
    BY DEF Marked
  <2> HIDE DEF won, u
  <2>4. Sound(v, N, alloced) /\ Live(v) /\ Contents(v) = Contents(m)
    <3> DEFINE l == N  room == alloced  x == "gallopB"  r == "a"  q == "b"  one == 1
               s == m
    <3>1. /\ l \in Nat /\ room \in Nat /\ Sound(s, l, room) /\ Live(s) /\ s.mode # "none"
          /\ x \in {"one", "gallopA", "gallopB"} /\ won \in [Runs -> Int]
          /\ r \in Runs /\ q \in Runs /\ q # r /\ k \in 0..s.left[r]
          /\ Marked(s, x, won, u) /\ v = Then(Then(u, r, k), q, 1)
      BY <1>2, <1>3, <2>1, <2>2, <2>3
    <3> HIDE DEF l, room, x, r, q, v, s
    <3>2. Sound(v, l, room) /\ Live(v) /\ Contents(v) = Contents(s)
      BY ONLY <3>1, GallopSound
    <3> QED
      BY <3>2 DEF l, room, s
  <2> HIDE DEF v
  <2> QED
    BY <1>2, <1>7, <2>4, ProceedsSound
<1> HIDE DEF v
<1> QED
  BY <1>5, <1>7, FailsFlushed

\* GallopB keeps the invariant.
LEMMA GallopBSound ==
    ASSUME SortInv, GallopB
    PROVE  SortInv' /\ [RunsNext]_runVars /\ Contents(m') = Contents(m)
<1> DEFINE n == m.left["b"]
           items == [j \in 0..n - 1 |-> Nth(m, "b", j)]
           hint == IF Forward(m) THEN 0 ELSE n - 1
           p == PlaceLeft(First(m, "a"), items, n, hint)
           k == IF Forward(m) THEN p ELSE n - p
           again == m.won["a"] >= MinGallop \/ k >= MinGallop
           mode == IF again THEN "gallopA" ELSE "one"
           won == [a |-> 0, b |-> 0]
           u == [m EXCEPT !.mode = mode, !.won = won]
           v == Then(Then(u, "b", k), "a", 1)
<1>1. m.mode = "gallopB"
  BY DEF GallopB
<1>2. /\ N \in Nat /\ alloced \in Nat /\ Sound(m, N, alloced) /\ Live(m)
      /\ m.mode # "none" /\ Merging
      /\ m \in MergeState /\ m.won \in [Runs -> Int]
  BY <1>1, NIs, MergeStateIs DEF SortInv, Room, Merging
<1>3. "a" \in Runs /\ "b" \in Runs /\ "a" # "b" /\ won \in [Runs -> Int]
  BY DEF Runs
<1>4. n \in Nat /\ n >= 1
  BY <1>2, <1>3, LiveLeft
<1>5. \/ Fails(Flush(m).cells, "TypeError")
      \/ p # -1 /\ Proceeds(v)
  BY DEF GallopB
<1>6. p \in {-1} \cup 0..n
  <2>1. hint \in 0..n - 1
    BY <1>4
  <2> DEFINE x == First(m, "a")
  <2> HIDE DEF n, items, hint, x
  <2>2. PlaceLeft(x, items, n, hint) \in {-1} \cup 0..n
    BY <1>4, <2>1, PlaceInRange
  <2> QED
    BY <2>2 DEF x
<1> HIDE DEF p, items
<1>7. CASE p # -1 /\ Proceeds(v)
  <2>1. k \in 0..n
    BY <1>4, <1>6, <1>7
  <2> HIDE DEF k
  <2>2. mode \in {"one", "gallopA", "gallopB"}
    OBVIOUS
  <2> HIDE DEF mode
  <2>3. Marked(m, mode, won, u)
    BY DEF Marked
  <2> HIDE DEF won, u
  <2>4. Sound(v, N, alloced) /\ Live(v) /\ Contents(v) = Contents(m)
    <3> DEFINE l == N  room == alloced  r == "b"  q == "a"  s == m
    <3>1. /\ l \in Nat /\ room \in Nat /\ Sound(s, l, room) /\ Live(s) /\ s.mode # "none"
          /\ mode \in {"one", "gallopA", "gallopB"} /\ won \in [Runs -> Int]
          /\ r \in Runs /\ q \in Runs /\ q # r /\ k \in 0..s.left[r]
          /\ Marked(s, mode, won, u) /\ v = Then(Then(u, r, k), q, 1)
      BY <1>2, <1>3, <2>1, <2>2, <2>3
    <3> HIDE DEF l, room, r, q, v, s
    <3>2. Sound(v, l, room) /\ Live(v) /\ Contents(v) = Contents(s)
      BY ONLY <3>1, GallopSound
    <3> QED
      BY <3>2 DEF l, room, s
  <2> HIDE DEF v
  <2> QED
    BY <1>2, <1>7, <2>4, ProceedsSound
<1> HIDE DEF v
<1> QED
  BY <1>5, <1>7, FailsFlushed
-----------------------------------------------------------------------------
\* The initial states satisfy the invariant.
LEMMA SortStarts ==
    ASSUME Init
    PROVE  SortInv /\ RunsInit
<1>1. PICK s \in Inputs :
        /\ lo = 0 /\ nremaining = Len(s) /\ pending = <<>> /\ phase = "march"
        /\ reverse \in BOOLEAN /\ keyed \in BOOLEAN
        /\ LET cells == [i \in DOMAIN s |-> [key |-> s[i], item |-> i]]
           IN  m = Idle(IF reverse THEN Swapped(cells) ELSE cells)
        /\ alloced = InitAlloced(Len(s), keyed)
  BY DEF Init
<1> DEFINE cells == [i \in DOMAIN s |-> [key |-> s[i], item |-> i]]
           d == IF reverse THEN Swapped(cells) ELSE cells
<1>2. /\ s \in Seq(ToSet(s)) /\ Len(s) \in Nat /\ Len(s) >= 2 /\ DOMAIN s = 1..Len(s)
      /\ TempSize \in Nat
  BY SortAssumption
<1>3. RunsInit
  <2>1. Len(s) \in Nat \ {0, 1}
    BY <1>2
  <2> QED
    BY <1>1, <2>1 DEF RunsInit
<1>4. N = Len(s) /\ N \in Nat
  BY <1>1, <1>2 DEF N
<1>5. /\ cells \in Seq(Cell) /\ Len(cells) = Len(s)
      /\ \A i \in 1..Len(s) : cells[i] = [key |-> s[i], item |-> i]
  <2>1. ASSUME NEW i \in 1..Len(s) PROVE [key |-> s[i], item |-> i] \in Cell
    <3>1. s[i] \in ToSet(s)
      BY <1>2, ToSetIs
    <3>2. s[i] \in UNION {ToSet(t) : t \in Inputs}
      BY <3>1
    <3>3. i \in Nat
      BY <1>2
    <3> QED
      BY <3>2, <3>3 DEF Cell
  <2>2. cells \in [1..Len(s) -> Cell]
    BY <1>2, <2>1
  <2>3. cells \in Seq(Cell) /\ Len(cells) = Len(s)
    BY <1>2, <2>2
  <2> QED
    BY <1>2, <2>3
<1>6. Whole(cells, N)
  <2>1. ToSet(cells) = {cells[i] : i \in 1..Len(s)}
    <3> HIDE DEF cells
    <3> QED
      BY <1>5, ToSetIs
  <2>2. ToSet(cells) = {[key |-> s[i], item |-> i] : i \in 1..Len(s)}
    BY <1>5, <2>1
  <2>3. {c.item : c \in ToSet(cells)} = 1..Len(s)
    <3>1. \A c \in ToSet(cells) : c.item \in 1..Len(s)
      BY <2>2
    <3>2. ASSUME NEW i \in 1..Len(s) PROVE \E c \in ToSet(cells) : c.item = i
      <4> DEFINE c == [key |-> s[i], item |-> i]
      <4>1. c \in ToSet(cells)
        BY <2>2
      <4>2. c.item = i
        OBVIOUS
      <4> HIDE DEF c
      <4> QED
        BY <4>1, <4>2
    <3> HIDE DEF cells
    <3> QED
      BY <3>1, <3>2
  <2> QED
    BY <1>4, <1>5, <2>3 DEF Whole
<1> HIDE DEF cells
<1>7. Whole(d, N)
  BY <1>4, <1>6, SwappedWhole
<1>8. m = Idle(d)
  BY <1>1 DEF cells
<1> HIDE DEF d
<1>9. Room
  <2> DEFINE q == TempSize \div 2  n == N  h == (n + 1) \div 2
  <2>1. q \in Nat /\ n \in Nat /\ h \in Nat /\ 2 * h <= n + 1 /\ TempSize \in Nat
    BY <1>2, <1>4
  <2>2. alloced = IF ~keyed THEN TempSize ELSE IF q < h THEN q ELSE h
    BY <1>1, <1>4 DEF InitAlloced
  <2> HIDE DEF q, n, h
  <2>3. alloced \in Nat /\ (keyed /\ n < q => 2 * alloced <= n + 1)
    BY <2>1, <2>2
  <2> QED
    BY <2>3 DEF Room, q, n
<1>10. Sound(m, N, alloced) /\ Live(m) /\ m.mode = "none"
  BY <1>4, <1>7, <1>8, <1>9, WholeIdle DEF Room
<1>11. RunsInv /\ nremaining > 0
  BY <1>1, <1>2, <1>3, RunsStart
<1> QED
  BY <1>1, <1>3, <1>9, <1>10, <1>11 DEF SortInv, Merging

\* Every step keeps the invariant, and is one of the stack's or leaves it.
LEMMA SortSteps ==
    ASSUME SortInv, [Next]_vars
    PROVE  SortInv' /\ [RunsNext]_runVars /\ Contents(m') = Contents(m)
<1>1. CASE UNCHANGED vars
  <2>1. UNCHANGED runVars /\ UNCHANGED sortVars
    BY <1>1 DEF vars
  <2>2. UNCHANGED <<lo, nremaining, pending, phase>> /\ UNCHANGED <<m, keyed, alloced>>
    BY <2>1 DEF runVars, sortVars
  <2>3. N' = N
    BY <2>2 DEF N
  <2>4. RunsInv'
    BY <2>1, RunsStep DEF SortInv
  <2>5. Room'
    BY <2>2, <2>3 DEF SortInv, Room
  <2>6. /\ Sound(m', N', alloced') /\ Live(m') /\ (Merging' <=> Merging)
        /\ Contents(m') = Contents(m)
    BY <2>2, <2>3 DEF SortInv, Merging
  <2> QED
    BY <2>1, <2>2, <2>4, <2>5, <2>6 DEF SortInv
<1> QED
  BY <1>1, FindRunSound, CollapseRunsSound, RunsCollapsedSound, ForceRunsSound,
     MergeOneSound, GallopASound, GallopBSound, SortEndsSound DEF Next

\* The invariant of the sort, which the theorems below read off.
THEOREM SortInvariant == Spec => []SortInv
<1>1. Init => SortInv
  BY SortStarts
<1>2. SortInv /\ [Next]_vars => SortInv'
  BY SortSteps
<1> QED
  BY <1>1, <1>2, PTL DEF Spec

\* A sort of any items, with any comparisons and failures, treats its stack
\* of runs as ypSortRuns says: each run it finds is inside the rest of the
\* list, and each merge is of two neighbours.
THEOREM SortFollowsRuns == Spec => RunsSpec
<1>1. Init => RunsInit
  BY SortStarts
<1>2. SortInv /\ [Next]_vars => [RunsNext]_runVars
  BY SortSteps
<1> QED
  BY <1>1, <1>2, SortInvariant, PTL DEF Spec, RunsSpec

\* Wherever a sort of any items stops, and whatever is in the temporary
\* array then, the list gets every item back exactly once.
THEOREM NothingIsLost == Spec => []NothingLost
<1>1. SortInv => NothingLost
  BY DEF SortInv, Sound, Contents, NothingLost
<1> QED
  BY <1>1, SortInvariant, PTL

\* No merge of any sort holds more than the temporary array takes, or more
\* than half of the list.
THEOREM MergesFit == Spec => []TempFits
<1>1. SortInv => TempFits
  BY DEF SortInv, Sound, Room, TempFits
<1> QED
  BY <1>1, SortInvariant, PTL

\* The stack of a sort of any items: its runs abut, and it is in balance.
THEOREM SortKeepsStack == Spec => [](RunsAbut /\ StackBalanced)
BY SortFollowsRuns, RunsAlwaysAbut, StackAlwaysBalanced, PTL

-----------------------------------------------------------------------------
\* The items f..l of c are moved among themselves, and no other.
Stays(c, d, n, f, l) ==
    /\ \A i \in 1..n : i \notin f..l => d[i] = c[i]
    /\ \A i \in f..l : \E j \in f..l : d[i] = c[j]
    /\ \A j \in f..l : \E i \in f..l : d[i] = c[j]

\* So are those of two such steps.
LEMMA StaysAgain ==
    ASSUME NEW c, NEW d, NEW e, NEW n, NEW f, NEW l, Stays(c, d, n, f, l), Stays(d, e, n, f, l)
    PROVE  Stays(c, e, n, f, l)
<1>1. \A i \in 1..n : i \notin f..l => e[i] = c[i]
  BY DEF Stays
<1>2. ASSUME NEW i \in f..l PROVE \E j \in f..l : e[i] = c[j]
  <2>1. PICK k \in f..l : e[i] = d[k]
    BY DEF Stays
  <2>2. PICK j \in f..l : d[k] = c[j]
    BY DEF Stays
  <2> QED
    BY <2>1, <2>2
<1>3. ASSUME NEW j \in f..l PROVE \E i \in f..l : e[i] = c[j]
  <2>1. PICK k \in f..l : d[k] = c[j]
    BY DEF Stays
  <2>2. PICK i \in f..l : e[i] = d[k]
    BY DEF Stays
  <2> QED
    BY <2>1, <2>2
<1> QED
  BY <1>1, <1>2, <1>3 DEF Stays

\* Nothing moves.
LEMMA StaysSame ==
    ASSUME NEW c, NEW d, NEW n \in Nat, NEW f \in Int, NEW l \in Int, f >= 1, l <= n,
           \A i \in 1..n : d[i] = c[i]
    PROVE  Stays(c, d, n, f, l)
<1>1. \A i \in f..l : i \in 1..n
  OBVIOUS
<1> QED
  BY <1>1 DEF Stays

\* A rotation moves the items of its two parts.
LEMMA RotationStays ==
    ASSUME NEW c, NEW d, NEW n, NEW p, NEW k, NEW m1, Rotates(c, d, n, p, k, m1),
           NEW f \in Int, NEW l \in Int, f >= 1, l <= n, f <= p + 1, p + k + m1 <= l
    PROVE  Stays(c, d, n, f, l)
<1>0. /\ n \in Nat /\ p \in Nat /\ k \in Nat /\ m1 \in Nat /\ p + k + m1 <= n
      /\ \A i \in 1..n : d[i] = IF p < i /\ i <= p + k THEN c[i + m1]
                                ELSE IF p + k < i /\ i <= p + k + m1 THEN c[i - k]
                                ELSE c[i]
  BY DEF Rotates
<1>1. ASSUME NEW i \in 1..n, i \notin f..l PROVE d[i] = c[i]
  <2>1. ~(p < i /\ i <= p + k) /\ ~(p + k < i /\ i <= p + k + m1)
    BY <1>0, <1>1
  <2> QED
    BY <1>0, <2>1
<1>2. ASSUME NEW i \in f..l PROVE \E j \in f..l : d[i] = c[j]
  <2>0. i \in 1..n
    BY <1>0
  <2>1. CASE p < i /\ i <= p + k
    <3>1. i + m1 \in f..l
      BY <1>0, <2>1
    <3> QED
      BY <1>0, <2>0, <2>1, <3>1
  <2>2. CASE ~(p < i /\ i <= p + k) /\ p + k < i /\ i <= p + k + m1
    <3>1. i - k \in f..l
      BY <1>0, <2>2
    <3> QED
      BY <1>0, <2>0, <2>2, <3>1
  <2>3. CASE ~(p < i /\ i <= p + k) /\ ~(p + k < i /\ i <= p + k + m1)
    BY <1>0, <2>0, <2>3
  <2> QED
    BY <2>1, <2>2, <2>3
<1>3. ASSUME NEW j \in f..l PROVE \E i \in f..l : d[i] = c[j]
  <2>0. j \in 1..n /\ j \in Int
    BY <1>0
  <2>1. CASE p < j /\ j <= p + m1
    <3> DEFINE i == j + k
    <3>1. i \in f..l /\ i \in 1..n /\ p + k < i /\ i <= p + k + m1 /\ i - k = j
      BY <1>0, <2>0, <2>1
    <3> HIDE DEF i
    <3>2. ~(i <= p + k)
      BY <1>0, <3>1
    <3>3. d[i] = c[j]
      BY <1>0, <3>1, <3>2
    <3> QED
      BY <3>1, <3>3
  <2>2. CASE p + m1 < j /\ j <= p + k + m1
    <3> DEFINE i == j - m1
    <3>1. i \in f..l /\ i \in 1..n /\ p < i /\ i <= p + k /\ i + m1 = j
      BY <1>0, <2>0, <2>2
    <3> HIDE DEF i
    <3>3. d[i] = c[j]
      BY <1>0, <3>1
    <3> QED
      BY <3>1, <3>3
  <2>3. CASE ~(p < j /\ j <= p + m1) /\ ~(p + m1 < j /\ j <= p + k + m1)
    <3>1. ~(p < j /\ j <= p + k) /\ ~(p + k < j /\ j <= p + k + m1)
      BY <1>0, <2>0, <2>3
    <3> QED
      BY <1>0, <2>0, <3>1
  <2> QED
    BY <2>1, <2>2, <2>3
<1> QED
  BY <1>1, <1>2, <1>3 DEF Stays

\* What is in order but for two parts next to each other, of la and lb items
\* behind x, the second of which came in behind the first.  What the merge
\* knows of the held part: its last item is behind all of the other's, or
\* its first before them.
Merges(first, c, f, l, x, la, lb, forward) ==
    /\ x \in Int /\ la \in Nat /\ lb \in Nat /\ f - 1 <= x /\ x + la + lb <= l
    /\ \A p, q \in f..l : p < q =>
            \/ p \in x + 1..x + la /\ q \in x + la + 1..x + la + lb
            \/ Before(first, c[p], c[q])
    /\ \A p \in x + 1..x + la, q \in x + la + 1..x + la + lb :
            Comparable(c[p]) /\ Comparable(c[q]) /\ first[c[p]] < first[c[q]]
    /\ IF forward
       THEN la > 0 => \A q \in x + la + 1..x + la + lb : c[q].key < c[x + la].key
       ELSE lb > 0 => \A p \in x + 1..x + la : c[x + la + 1].key < c[p].key

\* Without one of the parts, all is in order.
LEMMA MergesEmpty ==
    ASSUME NEW first, NEW c, NEW f, NEW l, NEW x, NEW la, NEW lb, NEW forward,
           Merges(first, c, f, l, x, la, lb, forward), la = 0 \/ lb = 0
    PROVE  InOrder(first, c, f, l)
<1>1. x \in Int /\ la \in Nat /\ lb \in Nat
  BY DEF Merges
<1>2. \A p : p \in x + 1..x + la => la # 0
  BY <1>1
<1>3. \A q : q \in x + la + 1..x + la + lb => lb # 0
  BY <1>1
<1> QED
  BY <1>2, <1>3 DEF Merges, InOrder

\* Items in the same order are in the same order.
LEMMA InOrderSame ==
    ASSUME NEW first, NEW c, NEW d, NEW f \in Int, NEW l \in Int, \A i \in f..l : d[i] = c[i],
           InOrder(first, c, f, l)
    PROVE  InOrder(first, d, f, l)
BY DEF InOrder

\* A merge that is about the same items is a merge all the same.
LEMMA MergesSame ==
    ASSUME NEW first, NEW c, NEW d, NEW f \in Int, NEW l \in Int, NEW x, NEW la, NEW lb,
           NEW forward \in BOOLEAN,
           \A i \in f..l : d[i] = c[i], Merges(first, c, f, l, x, la, lb, forward)
    PROVE  Merges(first, d, f, l, x, la, lb, forward)
<1>1. x \in Int /\ la \in Nat /\ lb \in Nat /\ f - 1 <= x /\ x + la + lb <= l
  BY DEF Merges
<1>2. /\ \A p \in x + 1..x + la : p \in f..l
      /\ \A q \in x + la + 1..x + la + lb : q \in f..l
      /\ la > 0 => x + la \in f..l
      /\ lb > 0 => x + la + 1 \in f..l
  BY <1>1
<1>3. \A p, q \in f..l : p < q =>
            \/ p \in x + 1..x + la /\ q \in x + la + 1..x + la + lb
            \/ Before(first, d[p], d[q])
  BY DEF Merges
<1>4. \A p \in x + 1..x + la, q \in x + la + 1..x + la + lb :
            Comparable(d[p]) /\ Comparable(d[q]) /\ first[d[p]] < first[d[q]]
  <2> SUFFICES ASSUME NEW p \in x + 1..x + la, NEW q \in x + la + 1..x + la + lb
               PROVE  Comparable(d[p]) /\ Comparable(d[q]) /\ first[d[p]] < first[d[q]]
    OBVIOUS
  <2>1. d[p] = c[p] /\ d[q] = c[q]
    BY <1>2
  <2> QED
    BY <2>1 DEF Merges
<1>5. CASE forward
  <2>1. ASSUME la > 0, NEW q \in x + la + 1..x + la + lb PROVE d[q].key < d[x + la].key
    <3>1. d[q] = c[q] /\ d[x + la] = c[x + la]
      BY <1>2, <2>1
    <3> QED
      BY <1>5, <2>1, <3>1 DEF Merges
  <2> QED
    BY <1>1, <1>3, <1>4, <1>5, <2>1 DEF Merges
<1>6. CASE ~forward
  <2>1. ASSUME lb > 0, NEW p \in x + 1..x + la PROVE d[x + la + 1].key < d[p].key
    <3>1. d[p] = c[p] /\ d[x + la + 1] = c[x + la + 1]
      BY <1>2, <2>1
    <3> QED
      BY <1>6, <2>1, <3>1 DEF Merges
  <2> QED
    BY <1>1, <1>3, <1>4, <1>6, <2>1 DEF Merges
<1> QED
  BY <1>5, <1>6

\* The first k items of the first part are next: none of the other is less.
LEMMA FrontOfA ==
    ASSUME NEW first, NEW c, NEW f \in Int, NEW l \in Int, NEW x, NEW la, NEW lb,
           Merges(first, c, f, l, x, la, lb, TRUE), NEW k \in 0..la,
           \A p \in x + 1..x + k, q \in x + la + 1..x + la + lb : c[p].key <= c[q].key
    PROVE  Merges(first, c, f, l, x + k, la - k, lb, TRUE)
<1>1. x \in Int /\ la \in Nat /\ lb \in Nat /\ f - 1 <= x /\ x + la + lb <= l
      /\ k \in Nat /\ k <= la
  BY DEF Merges
<1> DEFINE y == x + k
           na == la - k
<1>2. y \in Int /\ na \in Nat /\ f - 1 <= y /\ y + na + lb <= l /\ y + na = x + la
      /\ \A p : p \in y + 1..y + na => p \in x + 1..x + la
  BY <1>1
<1>3. \A p : p \in x + 1..x + la /\ p \notin y + 1..y + na => p \in x + 1..x + k
  BY <1>1
<1> HIDE DEF y, na
<1>4. ASSUME NEW p \in f..l, NEW q \in f..l, p < q
      PROVE  \/ p \in y + 1..y + na /\ q \in y + na + 1..y + na + lb
             \/ Before(first, c[p], c[q])
  <2>1. CASE p \in x + 1..x + la /\ q \in x + la + 1..x + la + lb
    <3>1. CASE p \in y + 1..y + na
      BY <1>2, <2>1, <3>1
    <3>2. CASE p \notin y + 1..y + na
      <4>1. c[p].key <= c[q].key
        BY <1>3, <2>1, <3>2
      <4>2. Comparable(c[p]) /\ Comparable(c[q]) /\ first[c[p]] < first[c[q]]
        BY <2>1 DEF Merges
      <4> QED
        BY <4>1, <4>2 DEF Before, Comparable
    <3> QED
      BY <3>1, <3>2
  <2>2. CASE ~(p \in x + 1..x + la /\ q \in x + la + 1..x + la + lb)
    BY <1>4, <2>2 DEF Merges
  <2> QED
    BY <2>1, <2>2
<1>5. \A p \in y + 1..y + na, q \in y + na + 1..y + na + lb :
            Comparable(c[p]) /\ Comparable(c[q]) /\ first[c[p]] < first[c[q]]
  BY <1>2 DEF Merges
<1>6. na > 0 => \A q \in y + na + 1..y + na + lb : c[q].key < c[y + na].key
  <2>1. na > 0 => la > 0
    BY <1>1 DEF na
  <2>2. la > 0 => \A q \in x + la + 1..x + la + lb : c[q].key < c[x + la].key
    BY DEF Merges
  <2> QED
    BY <1>2, <2>1, <2>2
<1>7. Merges(first, c, f, l, y, na, lb, TRUE)
  BY <1>1, <1>2, <1>4, <1>5, <1>6 DEF Merges
<1> QED
  BY <1>7 DEF y, na

\* The last k items of the second part are last: none of the first is greater.
LEMMA BackOfB ==
    ASSUME NEW first, NEW c, NEW f \in Int, NEW l \in Int, NEW x, NEW la, NEW lb,
           Merges(first, c, f, l, x, la, lb, FALSE), NEW k \in 0..lb,
           \A p \in x + 1..x + la, q \in x + la + lb - k + 1..x + la + lb :
                c[p].key <= c[q].key
    PROVE  Merges(first, c, f, l, x, la, lb - k, FALSE)
<1>1. x \in Int /\ la \in Nat /\ lb \in Nat /\ f - 1 <= x /\ x + la + lb <= l
      /\ k \in Nat /\ k <= lb
  BY DEF Merges
<1> DEFINE nb == lb - k
<1>2. nb \in Nat /\ x + la + nb <= l
      /\ \A q : q \in x + la + 1..x + la + nb => q \in x + la + 1..x + la + lb
  BY <1>1
<1>3. \A q : q \in x + la + 1..x + la + lb /\ q \notin x + la + 1..x + la + nb
             => q \in x + la + lb - k + 1..x + la + lb
  BY <1>1
<1> HIDE DEF nb
<1>4. ASSUME NEW p \in f..l, NEW q \in f..l, p < q
      PROVE  \/ p \in x + 1..x + la /\ q \in x + la + 1..x + la + nb
             \/ Before(first, c[p], c[q])
  <2>1. CASE p \in x + 1..x + la /\ q \in x + la + 1..x + la + lb
    <3>1. CASE q \in x + la + 1..x + la + nb
      BY <2>1, <3>1
    <3>2. CASE q \notin x + la + 1..x + la + nb
      <4>1. c[p].key <= c[q].key
        BY <1>3, <2>1, <3>2
      <4>2. Comparable(c[p]) /\ Comparable(c[q]) /\ first[c[p]] < first[c[q]]
        BY <2>1 DEF Merges
      <4> QED
        BY <4>1, <4>2 DEF Before, Comparable
    <3> QED
      BY <3>1, <3>2
  <2>2. CASE ~(p \in x + 1..x + la /\ q \in x + la + 1..x + la + lb)
    BY <1>4, <2>2 DEF Merges
  <2> QED
    BY <2>1, <2>2
<1>5. \A p \in x + 1..x + la, q \in x + la + 1..x + la + nb :
            Comparable(c[p]) /\ Comparable(c[q]) /\ first[c[p]] < first[c[q]]
  BY <1>2 DEF Merges
<1>6. nb > 0 => \A p \in x + 1..x + la : c[x + la + 1].key < c[p].key
  <2>1. nb > 0 => lb > 0
    BY <1>1 DEF nb
  <2> QED
    BY <2>1 DEF Merges
<1>7. Merges(first, c, f, l, x, la, nb, FALSE)
  BY <1>1, <1>2, <1>4, <1>5, <1>6 DEF Merges
<1> QED
  BY <1>7 DEF nb

\* The first k items of the second part are next, all less than the first's:
\* they change places with it.
LEMMA FrontOfB ==
    ASSUME NEW first, NEW c, NEW d, NEW n, NEW f \in Int, NEW l \in Int, f >= 1, l <= n,
           NEW x, NEW la, NEW lb,
           Merges(first, c, f, l, x, la, lb, TRUE), NEW k \in 0..lb,
           Rotates(c, d, n, x, k, la),
           \A p \in x + 1..x + la, q \in x + la + 1..x + la + k : c[q].key < c[p].key
    PROVE  Merges(first, d, f, l, x + k, la, lb - k, TRUE)
<1>1. x \in Int /\ la \in Nat /\ lb \in Nat /\ f - 1 <= x /\ x + la + lb <= l
      /\ k \in Nat /\ k <= lb
  BY DEF Merges
<1>2. /\ n \in Nat /\ x \in Nat /\ x + k + la <= n
      /\ \A i \in 1..n : d[i] = IF x < i /\ i <= x + k THEN c[i + la]
                                ELSE IF x + k < i /\ i <= x + k + la THEN c[i - k]
                                ELSE c[i]
  BY DEF Rotates
<1> DEFINE y == x + k
           nb == lb - k
           A == y + 1..y + la
           B == y + la + 1..y + la + nb
           K == x + 1..x + k
           from(i) == IF i \in K THEN i + la ELSE IF i \in A THEN i - k ELSE i
<1>3. y \in Int /\ nb \in Nat /\ f - 1 <= y /\ y + la + nb <= l
  BY <1>1
<1>4. ASSUME NEW i \in f..l PROVE d[i] = c[from(i)] /\ from(i) \in f..l
  <2>1. i \in 1..n /\ i \in Int
    BY <1>2
  <2>2. /\ i \in K <=> x < i /\ i <= x + k
        /\ i \in A <=> x + k < i /\ i <= x + k + la
    BY <1>1, <2>1
  <2>3. from(i) \in f..l
    BY <1>1, <2>1
  <2> HIDE DEF K, A
  <2> QED
    BY <1>2, <2>1, <2>2, <2>3
<1>5. ASSUME NEW i \in A PROVE from(i) = i - k /\ i - k \in x + 1..x + la /\ i \in f..l
  BY <1>1
<1>6. ASSUME NEW i \in B PROVE from(i) = i /\ i \in x + la + 1..x + la + lb /\ i \in f..l
  BY <1>1
<1>7. ASSUME NEW i \in K
      PROVE  from(i) = i + la /\ i + la \in x + la + 1..x + la + k /\ i \in f..l
             /\ i + la \in x + la + 1..x + la + lb
  BY <1>1
<1>8. ASSUME NEW p \in f..l, NEW q \in f..l, p < q
      PROVE  (p \in A /\ q \in B) \/ Before(first, d[p], d[q])
  <2> DEFINE u == from(p)
             v == from(q)
  <2>1. /\ d[p] = c[u] /\ u \in f..l /\ d[q] = c[v] /\ v \in f..l
    BY <1>4
  <2>2. CASE p \in K /\ q \in A
    <3>1. u \in x + la + 1..x + la + k /\ u \in x + la + 1..x + la + lb /\ v \in x + 1..x + la
      BY <1>5, <1>7, <2>2
    <3> HIDE DEF u, v
    <3>2. c[u].key < c[v].key /\ Comparable(c[u]) /\ Comparable(c[v])
      BY <3>1 DEF Merges
    <3> QED
      BY <2>1, <3>2 DEF Before
  <2>3. CASE ~(p \in K /\ q \in A)
    <3>1. u < v
      BY <1>1, <1>8, <2>3
    <3>2. u \in x + 1..x + la /\ v \in x + la + 1..x + la + lb => p \in A /\ q \in B
      BY <1>1, <1>8, <2>3
    <3> HIDE DEF u, v, A, B
    <3> QED
      BY <2>1, <3>1, <3>2 DEF Merges
  <2> QED
    BY <2>2, <2>3
<1>9. ASSUME NEW p \in A, NEW q \in B
      PROVE  Comparable(d[p]) /\ Comparable(d[q]) /\ first[d[p]] < first[d[q]]
  <2>1. d[p] = c[p - k] /\ d[q] = c[q] /\ p - k \in x + 1..x + la /\ q \in x + la + 1..x + la + lb
    BY <1>4, <1>5, <1>6
  <2> QED
    BY <2>1 DEF Merges
<1>10. ASSUME la > 0, NEW q \in B PROVE d[q].key < d[y + la].key
  <2>1. y + la \in A /\ y + la - k = x + la
    BY <1>1, <1>10
  <2> DEFINE i == y + la
  <2>a. i \in A /\ i - k = x + la
    BY <1>1, <1>10
  <2>2. d[q] = c[q] /\ d[i] = c[x + la] /\ q \in x + la + 1..x + la + lb
    <3> HIDE DEF i, from, y, nb
    <3>1. from(i) = x + la /\ i \in f..l
      BY <1>5, <2>a
    <3> QED
      BY <1>4, <1>6, <3>1
  <2> QED
    BY <1>10, <2>2 DEF Merges
<1> HIDE DEF y, nb, from
<1>11. Merges(first, d, f, l, y, la, nb, TRUE)
  BY <1>1, <1>3, <1>8, <1>9, <1>10 DEF Merges
<1> QED
  BY <1>11 DEF y, nb

\* The last k items of the first part are last, all greater than the
\* second's: they change places with it.
LEMMA BackOfA ==
    ASSUME NEW first, NEW c, NEW d, NEW n, NEW f \in Int, NEW l \in Int, f >= 1, l <= n,
           NEW x, NEW la, NEW lb,
           Merges(first, c, f, l, x, la, lb, FALSE), NEW k \in 0..la,
           NEW o, o = x + la - k, Rotates(c, d, n, o, lb, k),
           \A p \in o + 1..x + la, q \in x + la + 1..x + la + lb : c[q].key < c[p].key
    PROVE  Merges(first, d, f, l, x, la - k, lb, FALSE)
<1>1. x \in Int /\ la \in Nat /\ lb \in Nat /\ f - 1 <= x /\ x + la + lb <= l
      /\ k \in Nat /\ k <= la /\ o \in Int /\ o = x + la - k
  BY DEF Merges
<1>2. /\ n \in Nat /\ o \in Nat /\ o + lb + k <= n
      /\ \A i \in 1..n : d[i] = IF o < i /\ i <= o + lb THEN c[i + k]
                                ELSE IF o + lb < i /\ i <= o + lb + k THEN c[i - lb]
                                ELSE c[i]
  BY DEF Rotates
<1> DEFINE na == la - k
           A == x + 1..x + na
           B == x + na + 1..x + na + lb
           K == x + na + lb + 1..x + na + lb + k
           from(i) == IF i \in B THEN i + k ELSE IF i \in K THEN i - lb ELSE i
<1>3. na \in Nat /\ x + na + lb <= l
  BY <1>1
<1>4. ASSUME NEW i \in f..l PROVE d[i] = c[from(i)] /\ from(i) \in f..l
  <2>1. i \in 1..n /\ i \in Int
    BY <1>2
  <2>2. /\ i \in B <=> o < i /\ i <= o + lb
        /\ i \in K <=> o + lb < i /\ i <= o + lb + k
    BY <1>1, <2>1
  <2>3. from(i) \in f..l
    BY <1>1, <2>1
  <2> HIDE DEF K, B
  <2> QED
    BY <1>2, <2>1, <2>2, <2>3
<1>5. ASSUME NEW i \in A PROVE from(i) = i /\ i \in x + 1..x + la /\ i \in f..l
  BY <1>1
<1>6. ASSUME NEW i \in B
      PROVE  from(i) = i + k /\ i + k \in x + la + 1..x + la + lb /\ i \in f..l
  BY <1>1
<1>7. ASSUME NEW i \in K
      PROVE  from(i) = i - lb /\ i - lb \in o + 1..x + la /\ i \in f..l
             /\ i - lb \in x + 1..x + la
  BY <1>1
<1>8. ASSUME NEW p \in f..l, NEW q \in f..l, p < q
      PROVE  (p \in A /\ q \in B) \/ Before(first, d[p], d[q])
  <2> DEFINE u == from(p)
             v == from(q)
  <2>1. /\ d[p] = c[u] /\ u \in f..l /\ d[q] = c[v] /\ v \in f..l
    BY <1>4
  <2>2. CASE p \in B /\ q \in K
    <3>1. u \in x + la + 1..x + la + lb /\ v \in o + 1..x + la /\ v \in x + 1..x + la
      BY <1>6, <1>7, <2>2
    <3> HIDE DEF u, v
    <3>2. c[u].key < c[v].key /\ Comparable(c[u]) /\ Comparable(c[v])
      BY <3>1 DEF Merges
    <3> QED
      BY <2>1, <3>2 DEF Before
  <2>3. CASE ~(p \in B /\ q \in K)
    <3>1. u < v
      BY <1>1, <1>8, <2>3
    <3>2. u \in x + 1..x + la /\ v \in x + la + 1..x + la + lb => p \in A /\ q \in B
      BY <1>1, <1>8, <2>3
    <3> HIDE DEF u, v, A, B
    <3> QED
      BY <2>1, <3>1, <3>2 DEF Merges
  <2> QED
    BY <2>2, <2>3
<1>9. ASSUME NEW p \in A, NEW q \in B
      PROVE  Comparable(d[p]) /\ Comparable(d[q]) /\ first[d[p]] < first[d[q]]
  <2>1. d[p] = c[p] /\ d[q] = c[q + k] /\ p \in x + 1..x + la /\ q + k \in x + la + 1..x + la + lb
    BY <1>4, <1>5, <1>6
  <2> QED
    BY <2>1 DEF Merges
<1>10. ASSUME lb > 0, NEW p \in A PROVE d[x + na + 1].key < d[p].key
  <2>1. x + na + 1 \in B /\ x + na + 1 + k = x + la + 1
    BY <1>1, <1>10
  <2>2. d[p] = c[p] /\ d[x + na + 1] = c[x + la + 1] /\ p \in x + 1..x + la
    BY <1>4, <1>5, <1>6, <2>1
  <2> QED
    BY <1>10, <2>2 DEF Merges
<1> HIDE DEF na, from
<1>11. Merges(first, d, f, l, x, na, lb, FALSE)
  BY <1>1, <1>3, <1>8, <1>9, <1>10 DEF Merges
<1> QED
  BY <1>11 DEF na

-----------------------------------------------------------------------------
\* In the view of a merge, what is left of a lies behind AStart, and what is
\* left of b behind that.  Nearest are the first k of them, or the last k,
\* whichever way the merge goes.
AStart(s) == IF Forward(s) THEN s.dest ELSE s.dest - s.left["b"] + 1 - s.left["a"]
Starts(s, r) == IF r = "a" THEN AStart(s) ELSE AStart(s) + s.left["a"]
Rest(s, r) == Starts(s, r) + 1 .. Starts(s, r) + s.left[r]
Nearest(s, r, k) ==
    IF Forward(s) THEN Starts(s, r) + 1 .. Starts(s, r) + k
    ELSE Starts(s, r) + s.left[r] - k + 1 .. Starts(s, r) + s.left[r]

\* Whether the item at p, of a, and the one at q, of b, are such that the one
\* of r is to be moved: of equal ones, it is the one that is held.
Comes(s, r, p, q) ==
    IF r = s.held THEN View(s)[p].key <= View(s)[q].key ELSE View(s)[q].key < View(s)[p].key

\* The next k items of r may be moved.
MayTake(s, r, k) ==
    \A p \in (IF r = "a" THEN Nearest(s, "a", k) ELSE Rest(s, "a")),
       q \in (IF r = "b" THEN Nearest(s, "b", k) ELSE Rest(s, "b")) : Comes(s, r, p, q)

\* The places f..l are in order but for what the merge has still to do.
Ahead(s, first, f, l) ==
    Merges(first, View(s), f, l, AStart(s), s.left["a"], s.left["b"], Forward(s))

\* Where the runs are after items were moved.
LEMMA TakeMoves ==
    ASSUME NEW n \in Nat, NEW s, Laid(s, n), NEW r \in Runs, NEW k \in 0..s.left[r],
           NEW t, t = Take(s, r, k)
    PROVE  /\ Laid(t, n) /\ t.held = s.held /\ (Forward(t) <=> Forward(s)) /\ t.mode = s.mode
           /\ AStart(s) \in Int /\ s.left["a"] \in Nat /\ s.left["b"] \in Nat /\ k \in Nat
           /\ t.left["a"] = IF r = "a" THEN s.left["a"] - k ELSE s.left["a"]
           /\ t.left["b"] = IF r = "b" THEN s.left["b"] - k ELSE s.left["b"]
           /\ AStart(t) = IF Forward(s) THEN AStart(s) + k ELSE AStart(s)
<1> DEFINE e == Along(s, k)
           d == s.dest  la == s.left["a"]  lb == s.left["b"]
<1>1. /\ s \in MergeState /\ s.held \in Runs
      /\ d \in Int /\ la \in Nat /\ lb \in Nat
  BY LaidIs
<1>2. r \in {"a", "b"} /\ k \in Nat /\ k <= s.left[r] /\ k \in Int
  <2>1. s.left[r] \in Nat
    BY <1>1 DEF MergeState
  <2> QED
    BY <2>1 DEF Runs
<1>3. Laid(t, n)
  BY TakeLaid
<1>4. /\ t.held = s.held /\ t.mode = s.mode
      /\ t.left = [s.left EXCEPT ![r] = s.left[r] - k] /\ t.dest = d + e
  <2> DEFINE u == Take(s, r, k)
  <2>1. /\ u.cells = Moved(s, r, k)
        /\ u.tmp = s.tmp /\ u.held = s.held
        /\ u.mode = s.mode /\ u.won = s.won
        /\ u.at = [s.at EXCEPT ![r] = s.at[r] + Along(s, k)]
        /\ u.left = [s.left EXCEPT ![r] = s.left[r] - k]
        /\ u.dest = s.dest + Along(s, k)
        /\ (Moved(s, r, k) \in Seq(Cell) /\ s.left[r] >= k) => u \in MergeState
    BY <1>1, <1>2, TakeIs
  <2>2. t = u
    OBVIOUS
  <2> HIDE DEF u
  <2> QED
    BY <2>1, <2>2
<1>5. Forward(t) <=> Forward(s)
  BY <1>4 DEF Forward
<1>6. /\ t.left["a"] = IF r = "a" THEN la - k ELSE la
      /\ t.left["b"] = IF r = "b" THEN lb - k ELSE lb
  BY <1>1, <1>2, <1>4 DEF MergeState, Runs
<1>7. CASE Forward(s)
  <2>1. e = k /\ AStart(s) = d /\ AStart(t) = t.dest
    BY <1>5, <1>7 DEF Along, AStart
  <2> HIDE DEF e, d
  <2> QED
    BY <1>1, <1>2, <1>3, <1>4, <1>5, <1>6, <1>7, <2>1
<1>8. CASE ~Forward(s)
  <2>1. e = -k /\ AStart(s) = d - lb + 1 - la
        /\ AStart(t) = t.dest - t.left["b"] + 1 - t.left["a"]
    BY <1>5, <1>8 DEF Along, AStart
  <2>2. la = s.left["a"] /\ lb = s.left["b"]
    OBVIOUS
  <2> HIDE DEF e, d, la, lb
  <2>3. AStart(t) = AStart(s) /\ AStart(s) \in Int
    <3>1. CASE r = "a"
      BY <1>1, <1>2, <1>4, <1>6, <2>1, <3>1
    <3>2. CASE r = "b"
      BY <1>1, <1>2, <1>4, <1>6, <2>1, <3>2
    <3> QED
      BY <1>2, <3>1, <3>2
  <2> QED
    BY <1>1, <1>2, <1>3, <1>4, <1>5, <1>6, <1>8, <2>2, <2>3
<1> QED
  BY <1>7, <1>8

\* Moving items that may be moved keeps the order, and moves them among the
\* two runs.
LEMMA TakeOrders ==
    ASSUME NEW n \in Nat, NEW s, Laid(s, n), NEW r \in Runs, NEW k \in 0..s.left[r],
           NEW first, NEW f \in Int, NEW l \in Int, f >= 1, l <= n,
           Ahead(s, first, f, l), MayTake(s, r, k), NEW t, t = Take(s, r, k)
    PROVE  Ahead(t, first, f, l) /\ Stays(View(s), View(t), n, f, l)
<1> DEFINE c == View(s)
           d == View(t)
           x == AStart(s)
           la == s.left["a"]
           lb == s.left["b"]
<1>0. n \in Nat /\ f \in Int /\ l \in Int /\ f >= 1 /\ l <= n
  OBVIOUS
<1>1. /\ x \in Int /\ la \in Nat /\ lb \in Nat /\ k \in Nat
      /\ (Forward(t) <=> Forward(s))
      /\ t.left["a"] = IF r = "a" THEN la - k ELSE la
      /\ t.left["b"] = IF r = "b" THEN lb - k ELSE lb
      /\ AStart(t) = IF Forward(s) THEN x + k ELSE x
  BY TakeMoves
<1>2. /\ r = s.held => \A i \in 1..n : d[i] = c[i]
      /\ r # s.held /\ Forward(s) => Rotates(c, d, n, s.dest, k, la)
      /\ r # s.held /\ ~Forward(s) => Rotates(c, d, n, s.dest - lb + 1 - k, lb, k)
  BY TakeView
<1>3. r \in {"a", "b"} /\ s.held \in {"a", "b"} /\ (Forward(s) <=> s.held = "a")
  BY LaidIs DEF Runs
<1>4. Merges(first, c, f, l, x, la, lb, Forward(s))
  BY DEF Ahead
<1>5. f - 1 <= x /\ x + la + lb <= l
  BY <1>4 DEF Merges
<1>6. Ahead(t, first, f, l) =
        Merges(first, d, f, l, AStart(t), t.left["a"], t.left["b"], Forward(t))
  BY DEF Ahead
<1>7. \A i \in f..l : i \in 1..n
  OBVIOUS
<1>a. k \in 0..s.left[r]
  OBVIOUS
<1>b. /\ Rest(s, "a") = x + 1..x + la /\ Rest(s, "b") = x + la + 1..x + la + lb
      /\ Forward(s) => /\ Nearest(s, "a", k) = x + 1..x + k
                       /\ Nearest(s, "b", k) = x + la + 1..x + la + k
      /\ ~Forward(s) => /\ Nearest(s, "a", k) = x + la - k + 1..x + la
                        /\ Nearest(s, "b", k) = x + la + lb - k + 1..x + la + lb
  BY DEF Rest, Nearest, Starts
<1>c. \A p, q : Comes(s, r, p, q) <=>
        IF r = s.held THEN c[p].key <= c[q].key ELSE c[q].key < c[p].key
  BY DEF Comes
<1> HIDE DEF c, d, x, la, lb
<1>8. CASE Forward(s) /\ r = "a"
  <2>1. \A i \in 1..n : d[i] = c[i]
    BY <1>2, <1>3, <1>8
  <2>2. \A p \in x + 1..x + k, q \in x + la + 1..x + la + lb : c[p].key <= c[q].key
    BY <1>3, <1>8, <1>b, <1>c DEF MayTake
  <2>3. Merges(first, c, f, l, x, la, lb, TRUE) /\ k \in 0..la
    BY <1>4, <1>8, <1>a DEF la
  <2>4. Merges(first, c, f, l, x + k, la - k, lb, TRUE)
    BY ONLY <1>0, <2>2, <2>3, FrontOfA
  <2> DEFINE y == x + k  na == la - k  yes == TRUE
  <2>5. Merges(first, c, f, l, y, na, lb, yes) /\ yes \in BOOLEAN /\ \A i \in f..l : d[i] = c[i]
    BY <1>7, <2>1, <2>4
  <2>6. AStart(t) = y /\ t.left["a"] = na /\ t.left["b"] = lb /\ Forward(t) = yes
    BY <1>1, <1>8
  <2> HIDE DEF y, na, yes
  <2>7. Merges(first, d, f, l, y, na, lb, yes)
    BY ONLY <1>0, <2>5, MergesSame
  <2>8. Stays(c, d, n, f, l)
    BY ONLY <1>0, <2>1, StaysSame
  <2> QED
    BY <1>6, <2>6, <2>7, <2>8 DEF c, d
<1>9. CASE ~Forward(s) /\ r = "b"
  <2>1. \A i \in 1..n : d[i] = c[i]
    BY <1>2, <1>3, <1>9
  <2>2. \A p \in x + 1..x + la, q \in x + la + lb - k + 1..x + la + lb : c[p].key <= c[q].key
    BY <1>3, <1>9, <1>b, <1>c DEF MayTake
  <2>3. Merges(first, c, f, l, x, la, lb, FALSE) /\ k \in 0..lb
    BY <1>4, <1>9, <1>a DEF lb, Forward
  <2>4. Merges(first, c, f, l, x, la, lb - k, FALSE)
    BY ONLY <1>0, <2>2, <2>3, BackOfB
  <2> DEFINE nb == lb - k  no == FALSE
  <2>5. Merges(first, c, f, l, x, la, nb, no) /\ no \in BOOLEAN /\ \A i \in f..l : d[i] = c[i]
    BY <1>7, <2>1, <2>4
  <2>6. AStart(t) = x /\ t.left["a"] = la /\ t.left["b"] = nb /\ Forward(t) = no
    BY <1>1, <1>9
  <2> HIDE DEF nb, no
  <2>7. Merges(first, d, f, l, x, la, nb, no)
    BY ONLY <1>0, <2>5, MergesSame
  <2>8. Stays(c, d, n, f, l)
    BY ONLY <1>0, <2>1, StaysSame
  <2> QED
    BY <1>6, <2>6, <2>7, <2>8 DEF c, d
<1>10. CASE Forward(s) /\ r = "b"
  <2>1. Rotates(c, d, n, x, k, la)
    BY <1>2, <1>3, <1>10 DEF x, AStart
  <2>2. \A p \in x + 1..x + la, q \in x + la + 1..x + la + k : c[q].key < c[p].key
    BY <1>3, <1>10, <1>b, <1>c DEF MayTake
  <2>3. Merges(first, c, f, l, x, la, lb, TRUE) /\ k \in 0..lb
    BY <1>4, <1>10, <1>a DEF lb
  <2>4. Merges(first, d, f, l, x + k, la, lb - k, TRUE)
    BY ONLY <1>0, <2>1, <2>2, <2>3, FrontOfB
  <2>5. AStart(t) = x + k /\ t.left["a"] = la /\ t.left["b"] = lb - k /\ Forward(t) = TRUE
    BY <1>1, <1>10
  <2>6. f <= x + 1 /\ x + k + la <= l
    BY <1>0, <1>1, <1>5, <2>3
  <2>7. Stays(c, d, n, f, l)
    BY ONLY <1>0, <2>1, <2>6, RotationStays
  <2> QED
    BY <1>6, <2>4, <2>5, <2>7 DEF c, d
<1>11. CASE ~Forward(s) /\ r = "a"
  <2> DEFINE o == s.dest - lb + 1 - k
  <2>1. Rotates(c, d, n, o, lb, k)
    BY <1>2, <1>3, <1>11
  <2>0. o = x + la - k
    <3>1. x = s.dest - lb + 1 - la /\ s.dest \in Int
      BY <1>11, LaidIs DEF x, AStart, lb, la
    <3> QED
      BY <1>1, <3>1
  <2> HIDE DEF o
  <2>2. \A p \in o + 1..x + la, q \in x + la + 1..x + la + lb : c[q].key < c[p].key
    BY <1>3, <1>11, <1>b, <1>c, <2>0 DEF MayTake
  <2>3. Merges(first, c, f, l, x, la, lb, FALSE) /\ k \in 0..la
    BY <1>4, <1>11, <1>a DEF la, Forward
  <2>4. Merges(first, d, f, l, x, la - k, lb, FALSE)
    BY ONLY <1>0, <2>0, <2>1, <2>2, <2>3, BackOfA
  <2>5. AStart(t) = x /\ t.left["a"] = la - k /\ t.left["b"] = lb /\ Forward(t) = FALSE
    BY <1>1, <1>11
  <2>6. f <= o + 1 /\ o + lb + k <= l
    BY <1>0, <1>1, <1>5, <2>0, <2>3
  <2>7. Stays(c, d, n, f, l)
    BY ONLY <1>0, <2>1, <2>6, RotationStays
  <2> QED
    BY <1>6, <2>4, <2>5, <2>7 DEF c, d
<1> QED
  BY <1>3, <1>8, <1>9, <1>10, <1>11

-----------------------------------------------------------------------------
\* The view of a merge holds the list's items.
LEMMA ViewIs ==
    ASSUME NEW n \in Nat, NEW s, Laid(s, n)
    PROVE  /\ View(s) \in Seq(Cell) /\ Len(View(s)) = n /\ \A i \in 1..n : View(s)[i] \in Cell
           /\ Contents(s) = {View(s)[i] : i \in 1..n}
<1>1. View(s) \in Seq(Cell) /\ Len(View(s)) = n
  BY FlushIs DEF View
<1>2. Contents(s) = {View(s)[i] : i \in 1..n}
  BY ContentsIs DEF View
<1> QED
  BY <1>1, <1>2

\* Without a gap, it is the list.
LEMMA EmptyView ==
    ASSUME NEW n \in Nat, NEW s, Laid(s, n), s.left[s.held] = 0
    PROVE  \A i \in 1..n : View(s)[i] = s.cells[i]
<1> TAKE i \in 1..n
<1> DEFINE g == Gap(s)
<1>1. g \in Nat
  BY GapIs
<1>2. View(s)[i] = Filled(s, i)
  BY FlushIs DEF View
<1> HIDE DEF g
<1>3. ~(g < i /\ i <= g + 0)
  BY <1>1
<1> QED
  BY <1>2, <1>3 DEF Filled, g

\* So it is while no merge is under way.
LEMMA IdleView ==
    ASSUME NEW n \in Nat, NEW cells \in Seq(Cell), Len(cells) = n
    PROVE  Laid(Idle(cells), n) /\ \A i \in 1..n : View(Idle(cells))[i] = cells[i]
<1> DEFINE s == Idle(cells)
<1>1. Laid(s, n) /\ s.cells = cells
  BY IdleIs
<1>2. s.left[s.held] = 0
  BY DEF Idle
<1> HIDE DEF s
<1>3. \A i \in 1..n : View(s)[i] = s.cells[i]
  BY <1>1, <1>2, EmptyView
<1> QED
  BY <1>1, <1>3 DEF s

\* The places f..l are in order, once the merge is over.
Settles(s, first, f, l) ==
    IF s.mode = "none" THEN InOrder(first, View(s), f, l) ELSE Ahead(s, first, f, l)

\* A merge that ends leaves them in order.
LEMMA IdleOrders ==
    ASSUME NEW n \in Nat, NEW s, Laid(s, n), NEW c \in Seq(Cell), Len(c) = n,
           \A i \in 1..n : c[i] = View(s)[i],
           NEW first, NEW f \in Int, NEW l \in Int, f >= 1, l <= n,
           Ahead(s, first, f, l), s.left["a"] = 0 \/ s.left["b"] = 0
    PROVE  Settles(Idle(c), first, f, l) /\ Stays(View(s), View(Idle(c)), n, f, l)
<1> DEFINE u == Idle(c)
           d == View(u)
           e == View(s)
           x == AStart(s)
           la == s.left["a"]
           lb == s.left["b"]
           forward == Forward(s)
<1>0. n \in Nat /\ f \in Int /\ l \in Int /\ f >= 1 /\ l <= n
  OBVIOUS
<1>1. u.mode = "none"
  BY DEF Idle
<1>2. \A i \in 1..n : d[i] = e[i]
  BY IdleView
<1>3. Merges(first, e, f, l, x, la, lb, forward) /\ (la = 0 \/ lb = 0)
  BY DEF Ahead
<1> HIDE DEF u, d, e, x, la, lb, forward
<1>4. InOrder(first, e, f, l)
  BY <1>3, MergesEmpty
<1>5. \A i \in f..l : d[i] = e[i]
  BY <1>0, <1>2
<1>6. InOrder(first, d, f, l)
  BY <1>0, <1>4, <1>5, InOrderSame
<1>7. Stays(e, d, n, f, l)
  BY <1>0, <1>2, StaysSame
<1>8. Settles(u, first, f, l)
  BY <1>1, <1>6 DEF Settles, d
<1> QED
  BY <1>7, <1>8 DEF u, d, e

\* Where only one held item is left, the other run goes before it.
LEMMA RestMayTake ==
    ASSUME NEW n \in Nat, NEW s, Laid(s, n), s.left[s.held] = 1,
           NEW first, NEW f, NEW l, Ahead(s, first, f, l), NEW o, o = Other(s.held)
    PROVE  MayTake(s, o, s.left[o])
<1> DEFINE c == View(s)
           x == AStart(s)
           la == s.left["a"]
           lb == s.left["b"]
<1>1. /\ s.held \in {"a", "b"} /\ la \in Nat /\ lb \in Nat /\ (Forward(s) <=> s.held = "a")
  BY LaidIs DEF Runs
<1>2. Merges(first, c, f, l, x, la, lb, Forward(s)) /\ x \in Int
  BY DEF Ahead, Merges
<1>b. Rest(s, "a") = x + 1..x + la /\ Rest(s, "b") = x + la + 1..x + la + lb
  BY DEF Rest, Starts
<1>c. \A p, q : Comes(s, o, p, q) <=>
        IF o = s.held THEN c[p].key <= c[q].key ELSE c[q].key < c[p].key
  BY DEF Comes
<1>3. CASE s.held = "a"
  <2>1. o = "b" /\ la = 1 /\ Forward(s)
    BY <1>1, <1>3 DEF Other
  <2>2. Nearest(s, "b", lb) = x + la + 1..x + la + lb
    BY <2>1 DEF Nearest, Starts
  <2>3. \A q \in x + la + 1..x + la + lb : c[q].key < c[x + la].key
    BY <1>2, <2>1 DEF Merges
  <2>4. \A p \in x + 1..x + la : p = x + la
    BY <1>2, <2>1
  <2> HIDE DEF c, x, la
  <2> QED
    BY <1>3, <1>b, <1>c, <2>1, <2>2, <2>3, <2>4 DEF MayTake
<1>4. CASE s.held = "b"
  <2>1. o = "a" /\ lb = 1 /\ ~Forward(s)
    BY <1>1, <1>4 DEF Other
  <2>2. Nearest(s, "a", la) = x + 1..x + la
    <3>1. x + la - la + 1 = x + 1
      BY <1>1, <1>2
    <3> QED
      BY <2>1, <3>1 DEF Nearest, Starts
  <2>3. \A p \in x + 1..x + la : c[x + la + 1].key < c[p].key
    BY <1>2, <2>1 DEF Merges
  <2>4. \A q \in x + la + 1..x + la + lb : q = x + la + 1
    BY <1>1, <1>2, <2>1
  <2> HIDE DEF c, x, lb
  <2> QED
    BY <1>4, <1>b, <1>c, <2>1, <2>2, <2>3, <2>4 DEF MayTake
<1> QED
  BY <1>1, <1>3, <1>4

\* A merge ends in order, or goes on.
LEMMA ExitOrders ==
    ASSUME NEW n \in Nat, NEW s, Laid(s, n), s.mode # "none",
           NEW first, NEW f \in Int, NEW l \in Int, f >= 1, l <= n, Ahead(s, first, f, l)
    PROVE  Settles(Exit(s), first, f, l) /\ Stays(View(s), View(Exit(s)), n, f, l)
<1> DEFINE h == s.held
           o == Other(h)
<1>0. n \in Nat /\ f \in Int /\ l \in Int /\ f >= 1 /\ l <= n
  OBVIOUS
<1>1. h \in Runs /\ o \in Runs /\ o # h /\ \A q \in Runs : q = h \/ q = o
  BY LaidIs, OtherIs
<1>2. s.left[h] \in Nat /\ s.left[o] \in Nat
  BY <1>1, LaidIs DEF Runs
<1>a. "a" \in Runs /\ "b" \in Runs
  BY DEF Runs
<1>3. CASE s.left[o] = 0 \/ s.left[h] = 0
  <2> DEFINE c == View(s)
  <2>1. Exit(s) = Idle(c)
    BY <1>3 DEF Exit, View
  <2>2. c \in Seq(Cell) /\ Len(c) = n /\ \A i \in 1..n : c[i] = View(s)[i]
    BY ViewIs
  <2>3. s.left["a"] = 0 \/ s.left["b"] = 0
    BY <1>1, <1>3 DEF Runs
  <2> HIDE DEF c
  <2>4. Settles(Idle(c), first, f, l) /\ Stays(View(s), View(Idle(c)), n, f, l)
    BY <2>2, <2>3, IdleOrders
  <2> QED
    BY <2>1, <2>4
<1>4. CASE s.left[o] # 0 /\ s.left[h] = 1
  <2> DEFINE k == s.left[o]
             t == Take(s, o, k)
             one == 1
             u == Take(t, h, one)
             c == u.cells
  <2>1. k \in 0..s.left[o] /\ MayTake(s, o, k)
    BY <1>2, <1>4, RestMayTake
  <2>e. t = Take(s, o, k) /\ Exit(s) = Idle(Take(t, h, 1).cells)
    BY <1>4 DEF Exit, CopyRest
  <2> HIDE DEF k, t, h, o
  <2>2. Ahead(t, first, f, l) /\ Stays(View(s), View(t), n, f, l)
    <3>1. Laid(s, n) /\ o \in Runs /\ Ahead(s, first, f, l)
      BY <1>1
    <3> QED
      BY ONLY <1>0, <2>1, <2>e, <3>1, TakeOrders
  <2>3. /\ Laid(t, n) /\ t.held = h
        /\ t.left["a"] = IF o = "a" THEN s.left["a"] - k ELSE s.left["a"]
        /\ t.left["b"] = IF o = "b" THEN s.left["b"] - k ELSE s.left["b"]
    <3>1. Laid(s, n) /\ o \in Runs
      BY <1>1
    <3> QED
      BY ONLY <1>0, <2>1, <2>e, <3>1, TakeMoves DEF h
  <2>4. t.left[h] = 1 /\ t.left[o] = 0
    BY <1>1, <1>2, <1>4, <2>3 DEF Runs, k
  <2>f. u = Take(t, h, one) /\ Exit(s) = Idle(c)
    BY <2>e
  <2>5. one \in 0..t.left[h] /\ one = 1
    BY <2>4
  <2> HIDE DEF one, u
  <2>6. /\ Laid(u, n) /\ u.held = t.held
        /\ u.left["a"] = IF h = "a" THEN t.left["a"] - one ELSE t.left["a"]
        /\ u.left["b"] = IF h = "b" THEN t.left["b"] - one ELSE t.left["b"]
    BY ONLY <1>0, <1>1, <2>3, <2>5, <2>f, TakeMoves
  <2>7. u.left[u.held] = 0
    BY <1>1, <2>3, <2>4, <2>5, <2>6 DEF Runs
  <2>8. \A i \in 1..n : View(u)[i] = View(t)[i]
    BY <1>1, <2>3, <2>5, <2>f, TakeView
  <2>9. \A i \in 1..n : c[i] = View(t)[i]
    BY <2>6, <2>7, <2>8, EmptyView
  <2>10. c \in Seq(Cell) /\ Len(c) = n
    BY <2>6, LaidIs
  <2> HIDE DEF c
  <2>11. t.left["a"] = 0 \/ t.left["b"] = 0
    BY <1>1, <2>4 DEF Runs
  <2>12. Settles(Idle(c), first, f, l) /\ Stays(View(t), View(Idle(c)), n, f, l)
    BY <2>2, <2>3, <2>9, <2>10, <2>11, IdleOrders
  <2>13. Stays(View(s), View(Idle(c)), n, f, l)
    BY <2>2, <2>12, StaysAgain
  <2> QED
    BY <2>f, <2>12, <2>13
<1>5. CASE s.left[o] # 0 /\ s.left[h] # 0 /\ s.left[h] # 1
  <2>1. Exit(s) = s
    BY <1>5 DEF Exit
  <2>2. Stays(View(s), View(s), n, f, l)
    BY StaysSame
  <2> QED
    BY <2>1, <2>2 DEF Settles
<1> QED
  BY <1>3, <1>4, <1>5

\* So it does after items that may be moved were.
LEMMA ThenOrders ==
    ASSUME NEW n \in Nat, NEW s, Laid(s, n), NEW r \in Runs, NEW k,
           NEW first, NEW f \in Int, NEW l \in Int, f >= 1, l <= n, Settles(s, first, f, l),
           s.mode # "none" => k \in 0..s.left[r] /\ MayTake(s, r, k)
    PROVE  Settles(Then(s, r, k), first, f, l) /\ Stays(View(s), View(Then(s, r, k)), n, f, l)
<1>0. n \in Nat /\ f \in Int /\ l \in Int /\ f >= 1 /\ l <= n /\ r \in Runs /\ Laid(s, n)
  OBVIOUS
<1>1. CASE s.mode = "none"
  <2>1. Stays(View(s), View(s), n, f, l)
    BY StaysSame
  <2> QED
    BY <1>1, <2>1 DEF Then
<1>2. CASE s.mode # "none"
  <2> DEFINE t == Take(s, r, k)
  <2>1. Then(s, r, k) = Exit(t) /\ t = Take(s, r, k)
    BY <1>2 DEF Then
  <2>2. k \in 0..s.left[r] /\ MayTake(s, r, k) /\ Ahead(s, first, f, l)
    BY <1>2 DEF Settles
  <2> HIDE DEF t
  <2>3. Laid(t, n) /\ t.mode = s.mode
    BY ONLY <1>0, <2>1, <2>2, TakeMoves
  <2>4. Ahead(t, first, f, l) /\ Stays(View(s), View(t), n, f, l)
    BY ONLY <1>0, <2>1, <2>2, TakeOrders
  <2>5. Settles(Exit(t), first, f, l) /\ Stays(View(t), View(Exit(t)), n, f, l)
    BY <1>2, <2>3, <2>4, ExitOrders
  <2> QED
    BY <2>1, <2>4, <2>5, StaysAgain
<1> QED
  BY <1>1, <1>2

-----------------------------------------------------------------------------
\* The mode and the counts of wins say nothing of the order.
LEMMA MarkedView ==
    ASSUME NEW n \in Nat, NEW s, Laid(s, n),
           NEW x \in {"one", "gallopA", "gallopB"}, NEW w \in [Runs -> Int],
           NEW u, Marked(s, x, w, u)
    PROVE  /\ Laid(u, n) /\ u.mode = x /\ u.left = s.left /\ u.held = s.held
           /\ View(u) = View(s)
           /\ \A first, f, l : Ahead(u, first, f, l) <=> Ahead(s, first, f, l)
           /\ \A r, k : MayTake(u, r, k) <=> MayTake(s, r, k)
<1>1. s \in MergeState
  BY LaidIs
<1>2. /\ u.cells = s.cells /\ u.tmp = s.tmp /\ u.held = s.held /\ u.at = s.at
      /\ u.left = s.left /\ u.dest = s.dest /\ u.mode = x
      /\ u \in MergeState
  BY <1>1 DEF MergeState, Marked
<1>3. Laid(u, n) /\ Forward(u) = Forward(s)
  BY <1>2 DEF Laid, Forward
<1>4. View(u) = View(s)
  <2>1. ASSUME NEW v, Laid(v, n)
        PROVE  View(v) = Moved(v, v.held, v.left[v.held])
    <3> DEFINE h == v.held
               k == v.left[h]
    <3>1. v \in MergeState /\ h \in Runs /\ k \in Int
      BY <2>1, LaidIs, GapIs
    <3> HIDE DEF h, k
    <3>2. Take(v, h, k).cells = Moved(v, h, k)
      BY <3>1, TakeIs, ZenonT(40)
    <3> QED
      BY <3>2 DEF View, Flush, h, k
  <2>2. Moved(u, u.held, u.left[u.held]) = Moved(s, s.held, s.left[s.held])
    BY <1>2, <1>3 DEF Moved, Source
  <2> QED
    BY <1>3, <2>1, <2>2
<1>5. AStart(u) = AStart(s)
  BY <1>2, <1>3 DEF AStart
<1>6. \A r, p, q : Comes(u, r, p, q) <=> Comes(s, r, p, q)
  BY <1>2, <1>4 DEF Comes
<1>7. \A r, k : Rest(u, r) = Rest(s, r) /\ Nearest(u, r, k) = Nearest(s, r, k)
  BY <1>2, <1>3, <1>5 DEF Rest, Nearest, Starts
<1>8. \A r, k : MayTake(u, r, k) <=> MayTake(s, r, k)
  BY <1>6, <1>7 DEF MayTake
<1>9. \A first, f, l : Ahead(u, first, f, l) <=> Ahead(s, first, f, l)
  BY <1>2, <1>3, <1>4, <1>5 DEF Ahead
<1> QED
  BY <1>2, <1>3, <1>4, <1>8, <1>9

\* Moving items leaves the rest of both runs as it was.
LEMMA TakeRest ==
    ASSUME NEW n \in Nat, NEW s, Laid(s, n), NEW r \in Runs, NEW k \in 0..s.left[r],
           NEW t, t = Take(s, r, k), NEW q \in Runs, NEW j \in 1..t.left[q],
           0 <= AStart(s), AStart(s) + s.left["a"] + s.left["b"] <= n
    PROVE  View(t)[Starts(t, q) + j] =
                View(s)[Starts(s, q) + (IF q = r /\ Forward(s) THEN k ELSE 0) + j]
<1> DEFINE c == View(s)
           d == View(t)
           x == AStart(s)
           la == s.left["a"]
           lb == s.left["b"]
           i == Starts(t, q) + j
<1>1. /\ x \in Int /\ la \in Nat /\ lb \in Nat /\ k \in Nat
      /\ t.left["a"] = IF r = "a" THEN la - k ELSE la
      /\ t.left["b"] = IF r = "b" THEN lb - k ELSE lb
      /\ AStart(t) = IF Forward(s) THEN x + k ELSE x
  BY TakeMoves
<1>2. /\ r = s.held => \A i1 \in 1..n : d[i1] = c[i1]
      /\ r # s.held /\ Forward(s) => Rotates(c, d, n, s.dest, k, la)
      /\ r # s.held /\ ~Forward(s) => Rotates(c, d, n, s.dest - lb + 1 - k, lb, k)
  BY TakeView
<1>3. /\ r \in {"a", "b"} /\ q \in {"a", "b"} /\ s.held \in {"a", "b"}
      /\ (Forward(s) <=> s.held = "a")
  BY LaidIs DEF Runs
<1>4. /\ k <= IF r = "a" THEN la ELSE lb
      /\ j \in Nat /\ j >= 1 /\ j <= IF q = "a" THEN t.left["a"] ELSE t.left["b"]
      /\ 0 <= x /\ x + la + lb <= n
  <2>1. s.left[r] \in Nat /\ t.left[q] \in Int
    BY <1>1, <1>3
  <2>2. k <= s.left[r] /\ j \in Nat /\ j >= 1 /\ j <= t.left[q]
    BY <2>1
  <2> QED
    BY <1>3, <2>2
<1>5. /\ Starts(s, "a") = x /\ Starts(s, "b") = x + la
      /\ Starts(t, "a") = AStart(t) /\ Starts(t, "b") = AStart(t) + t.left["a"]
  BY DEF Starts
<1>6. Forward(s) => s.dest = x
  BY DEF AStart
<1>7. ~Forward(s) => s.dest - lb + 1 - k = x + la - k
  <2>1. ~Forward(s) => x = s.dest - lb + 1 - la /\ s.dest \in Int
    BY LaidIs DEF AStart
  <2> QED
    BY <1>1, <2>1
<1>8. i = IF q = "a" THEN AStart(t) + j ELSE AStart(t) + t.left["a"] + j
  BY <1>3, <1>5
<1> DEFINE e == Starts(s, q) + (IF q = r /\ Forward(s) THEN k ELSE 0) + j
<1>9. e = (IF q = "a" THEN x ELSE x + la) + (IF q = r /\ Forward(s) THEN k ELSE 0) + j
  BY <1>3, <1>5
<1> HIDE DEF c, d, x, la, lb, i, e
<1>a. i \in 1..n /\ i \in Int
  <2>1. CASE q = "a"
    BY <1>1, <1>3, <1>4, <1>8, <2>1
  <2>2. CASE q = "b"
    BY <1>1, <1>3, <1>4, <1>8, <2>2
  <2> QED
    BY <1>3, <2>1, <2>2
<1>10. CASE r = s.held
  <2>1. i = e
    BY <1>1, <1>3, <1>4, <1>8, <1>9, <1>10
  <2>2. d[i] = c[i]
    BY <1>2, <1>10, <1>a
  <2>3. d[i] = c[e]
    BY <2>1, <2>2
  <2> QED
    BY <2>3 DEF c, d, i, e
<1>11. CASE r # s.held /\ Forward(s)
  <2>1. d[i] = IF x < i /\ i <= x + k THEN c[i + la]
               ELSE IF x + k < i /\ i <= x + k + la THEN c[i - k] ELSE c[i]
    BY <1>2, <1>6, <1>11, <1>a DEF Rotates
  <2>2. r = "b" /\ AStart(t) = x + k /\ t.left["a"] = la /\ t.left["b"] = lb - k
    BY <1>1, <1>3, <1>11
  <2>3. CASE q = "a"
    <3>1. x + k < i /\ i <= x + k + la /\ i - k = e /\ ~(i <= x + k)
      BY <1>1, <1>4, <1>8, <1>9, <1>11, <2>2, <2>3
    <3> QED
      BY <2>1, <3>1 DEF c, d, i, e
  <2>4. CASE q = "b"
    <3>1. i > x + k + la /\ i = e /\ ~(i <= x + k) /\ ~(i <= x + k + la)
      BY <1>1, <1>4, <1>8, <1>9, <1>11, <2>2, <2>4
    <3> QED
      BY <2>1, <3>1 DEF c, d, i, e
  <2> QED
    BY <1>3, <2>3, <2>4
<1>12. CASE r # s.held /\ ~Forward(s)
  <2> DEFINE o == x + la - k
  <2>1. d[i] = IF o < i /\ i <= o + lb THEN c[i + k]
               ELSE IF o + lb < i /\ i <= o + lb + k THEN c[i - lb] ELSE c[i]
    BY <1>2, <1>7, <1>12, <1>a DEF Rotates
  <2>2. r = "a" /\ AStart(t) = x /\ t.left["a"] = la - k /\ t.left["b"] = lb
    BY <1>1, <1>3, <1>12
  <2>3. CASE q = "a"
    <3>1. i = e /\ ~(o < i) /\ ~(o + lb < i)
      BY <1>1, <1>4, <1>8, <1>9, <1>12, <2>2, <2>3
    <3> HIDE DEF o
    <3> QED
      BY <2>1, <3>1 DEF c, d, i, e
  <2>4. CASE q = "b"
    <3>1. i + k = e /\ o < i /\ i <= o + lb
      BY <1>1, <1>4, <1>8, <1>9, <1>12, <2>2, <2>4
    <3> HIDE DEF o
    <3> QED
      BY <2>1, <3>1 DEF c, d, i, e
  <2> QED
    BY <1>3, <2>3, <2>4
<1> QED
  BY <1>10, <1>11, <1>12

-----------------------------------------------------------------------------
\* What is left of r once the next k items were moved; and its next item.
Beyond(s, r, k) ==
    IF Forward(s) THEN Starts(s, r) + k + 1 .. Starts(s, r) + s.left[r]
    ELSE Starts(s, r) + 1 .. Starts(s, r) + s.left[r] - k
Near(s, r) == IF Forward(s) THEN Starts(s, r) + 1 ELSE Starts(s, r) + s.left[r]

\* After the next k items of r, the next item is one of the other run.
NextFirst(s, r, k) ==
    IF r = "a" THEN \A p \in Beyond(s, "a", k) : Comes(s, "b", p, Near(s, "b"))
    ELSE \A q \in Beyond(s, "b", k) : Comes(s, "a", Near(s, "a"), q)

\* The items that are left of a run, as the code reads them.
LEMMA NthIs ==
    ASSUME NEW n \in Nat, NEW s, Laid(s, n), NEW r \in Runs, NEW j \in 0..s.left[r] - 1
    PROVE  /\ Starts(s, r) + 1 + j \in 1..n /\ Starts(s, r) \in Int
           /\ Nth(s, r, j) = View(s)[Starts(s, r) + 1 + j]
<1> DEFINE d == s.dest  aa == s.at["a"]  ab == s.at["b"]
           la == s.left["a"]  lb == s.left["b"]
           x == AStart(s)
           i == Starts(s, r) + 1 + j
           c == s.cells
           u == s.tmp
           lt == Len(u)
<1>1. /\ d \in Int /\ aa \in Int /\ ab \in Int /\ la \in Nat /\ lb \in Nat
      /\ s.held \in {"a", "b"} /\ (Forward(s) <=> s.held = "a") /\ r \in {"a", "b"}
      /\ lt \in Nat
  BY LaidIs DEF Runs
<1>2. /\ r = "a" => j \in Nat /\ j < la
      /\ r = "b" => j \in Nat /\ j < lb
  BY <1>1
<1>3. /\ Forward(s) => /\ aa >= 0 /\ aa + la = lt /\ d >= 0 /\ ab = d + la /\ ab + lb <= n
      /\ ~Forward(s) => /\ ab = lb - 1 /\ lb <= lt /\ d = aa + lb /\ d < n /\ aa - la >= -1
  BY DEF Laid
<1>4. /\ i = IF r = "a" THEN x + 1 + j ELSE x + la + 1 + j
      /\ x = IF Forward(s) THEN d ELSE d - lb + 1 - la
  BY <1>1 DEF Starts, AStart
<1>5. /\ r = s.held => Nth(s, r, j) =
            u[1 + j + IF Forward(s) THEN s.at[r] ELSE s.at[r] - s.left[r] + 1]
      /\ r # s.held => Nth(s, r, j) =
            c[1 + j + IF Forward(s) THEN s.at[r] ELSE s.at[r] - s.left[r] + 1]
  BY DEF Nth, Source
<1>6. \A i1 \in 1..n : View(s)[i1] = Filled(s, i1)
  BY FlushIs DEF View
<1>7. /\ Forward(s) => \A i1 : Filled(s, i1) =
                        IF d < i1 /\ i1 <= d + la THEN u[i1 - d + aa] ELSE c[i1]
      /\ ~Forward(s) => \A i1 : Filled(s, i1) =
            IF d - lb + 1 < i1 /\ i1 <= d - lb + 1 + lb THEN u[i1 - (d - lb + 1) + 0] ELSE c[i1]
  BY <1>1 DEF Filled, Gap, HeldFrom
<1>e. /\ s.at["a"] = aa /\ s.at["b"] = ab /\ s.left["a"] = la /\ s.left["b"] = lb
      /\ Starts(s, r) + 1 + j = i
      /\ Starts(s, r) = IF r = "a" THEN x ELSE x + la
  BY <1>1 DEF Starts
<1> HIDE DEF d, aa, ab, la, lb, x, i, c, u, lt
<1>i. x \in Int
  BY <1>1, <1>4
<1>j. Starts(s, r) \in Int
  BY <1>1, <1>e, <1>i
<1>8. CASE Forward(s) /\ r = "a"
  <2>1. i \in 1..n /\ d < i /\ i <= d + la /\ i - d + aa = 1 + j + aa
    BY <1>1, <1>2, <1>3, <1>4, <1>8
  <2>2. Nth(s, r, j) = u[1 + j + aa]
    BY <1>1, <1>5, <1>8, <1>e
  <2> QED
    BY <1>6, <1>7, <1>8, <1>e, <1>j, <2>1, <2>2
<1>9. CASE Forward(s) /\ r = "b"
  <2>1. i \in 1..n /\ ~(i <= d + la) /\ i = 1 + j + ab
    BY <1>1, <1>2, <1>3, <1>4, <1>9
  <2>2. Nth(s, r, j) = c[1 + j + ab]
    BY <1>1, <1>5, <1>9, <1>e
  <2> QED
    BY <1>6, <1>7, <1>9, <1>e, <1>j, <2>1, <2>2
<1>10. CASE ~Forward(s) /\ r = "b"
  <2>1. /\ i \in 1..n /\ d - lb + 1 < i /\ i <= d - lb + 1 + lb
        /\ i - (d - lb + 1) + 0 = 1 + j /\ 1 + j + (ab - lb + 1) = 1 + j
    BY <1>1, <1>2, <1>3, <1>4, <1>10
  <2>2. Nth(s, r, j) = u[1 + j + (ab - lb + 1)]
    BY <1>1, <1>5, <1>10, <1>e
  <2> QED
    BY <1>6, <1>7, <1>10, <1>e, <1>j, <2>1, <2>2
<1>11. CASE ~Forward(s) /\ r = "a"
  <2>1. i \in 1..n /\ ~(d - lb + 1 < i) /\ i = 1 + j + (aa - la + 1)
    BY <1>1, <1>2, <1>3, <1>4, <1>11
  <2>2. Nth(s, r, j) = c[1 + j + (aa - la + 1)]
    BY <1>1, <1>5, <1>11, <1>e
  <2> QED
    BY <1>6, <1>7, <1>11, <1>e, <1>j, <2>1, <2>2
<1> QED
  BY <1>1, <1>8, <1>9, <1>10, <1>11

\* The first of them.
LEMMA FirstIs ==
    ASSUME NEW n \in Nat, NEW s, Laid(s, n), NEW r \in Runs, s.left[r] >= 1
    PROVE  /\ Near(s, r) \in 1..n /\ Near(s, r) \in Rest(s, r) /\ Starts(s, r) \in Int
           /\ s.left[r] \in Nat
           /\ First(s, r) = View(s)[Near(s, r)]
           /\ Nearest(s, r, 1) = {Near(s, r)}
<1> DEFINE j == IF Forward(s) THEN 0 ELSE s.left[r] - 1
           e == s.left[r]
           x == Starts(s, r)
<1>1. e \in Nat /\ s.at[r] \in Int
  BY LaidIs DEF Runs
<1>2. j \in 0..s.left[r] - 1
  BY <1>1
<1>3. x + 1 + j \in 1..n /\ x \in Int /\ Nth(s, r, j) = View(s)[x + 1 + j]
  <2> HIDE DEF j
  <2> QED
    BY <1>2, NthIs
<1>4. x + 1 + j = Near(s, r)
  BY <1>1, <1>3 DEF Near
<1>5. Nth(s, r, j) = First(s, r)
  <2>1. 1 + j + (IF Forward(s) THEN s.at[r] ELSE s.at[r] - s.left[r] + 1) = s.at[r] + 1
    BY <1>1
  <2> QED
    BY <2>1 DEF Nth, First
<1>6. Nearest(s, r, 1) = {Near(s, r)}
  <2>1. Nearest(s, r, 1) = IF Forward(s) THEN x + 1..x + 1 ELSE x + e - 1 + 1..x + e
    BY DEF Nearest
  <2>2. Near(s, r) = IF Forward(s) THEN x + 1 ELSE x + e
    BY DEF Near
  <2> HIDE DEF x, e
  <2>3. x + 1..x + 1 = {x + 1} /\ x + e - 1 + 1..x + e = {x + e}
    BY <1>1, <1>3
  <2> QED
    BY <2>1, <2>2, <2>3
<1>7. Near(s, r) \in Rest(s, r)
  BY <1>1, <1>3 DEF Near, Rest
<1> QED
  BY <1>1, <1>3, <1>4, <1>5, <1>6, <1>7

\* After the next items of r were moved, the next one of the other run may be.
LEMMA TakeTwice ==
    ASSUME NEW n \in Nat, NEW s, Laid(s, n), NEW r \in Runs, NEW k \in 0..s.left[r],
           NEW t, t = Take(s, r, k), NEW o, o = Other(r), s.left[o] >= 1,
           0 <= AStart(s), AStart(s) + s.left["a"] + s.left["b"] <= n,
           NextFirst(s, r, k), NEW one, one = 1
    PROVE  MayTake(t, o, one)
<1> DEFINE c == View(s)
           d == View(t)
<1>0. n \in Nat /\ Laid(s, n) /\ r \in Runs /\ k \in 0..s.left[r] /\ t = Take(s, r, k)
      /\ 0 <= AStart(s) /\ AStart(s) + s.left["a"] + s.left["b"] <= n
  OBVIOUS
<1>1. o \in Runs /\ o # r /\ r \in {"a", "b"} /\ o \in {"a", "b"}
  BY OtherIs DEF Runs
<1>2. /\ Laid(t, n) /\ t.held = s.held /\ (Forward(t) <=> Forward(s)) /\ k \in Nat
      /\ s.left["a"] \in Nat /\ s.left["b"] \in Nat /\ AStart(s) \in Int
      /\ t.left["a"] = IF r = "a" THEN s.left["a"] - k ELSE s.left["a"]
      /\ t.left["b"] = IF r = "b" THEN s.left["b"] - k ELSE s.left["b"]
      /\ AStart(t) = IF Forward(s) THEN AStart(s) + k ELSE AStart(s)
  BY ONLY <1>0, TakeMoves
<1>3. t.left[r] = s.left[r] - k /\ t.left[o] = s.left[o] /\ s.left[r] \in Nat /\ s.left[o] \in Nat
      /\ k <= s.left[r]
  BY <1>1, <1>2
<1>4. \A q \in Runs : Starts(s, q) \in Int /\ Starts(t, q) \in Int
  <2>1. t.left["a"] \in Int /\ AStart(t) \in Int
    BY <1>2
  <2> QED
    BY <1>2, <2>1 DEF Starts
<1>5. ASSUME NEW q \in Runs, NEW j \in 1..t.left[q]
      PROVE  d[Starts(t, q) + j] = c[Starts(s, q) + (IF q = r /\ Forward(s) THEN k ELSE 0) + j]
  BY <1>0, <1>5, TakeRest
<1>6. ASSUME NEW i \in Rest(t, r) PROVE \E e \in Beyond(s, r, k) : d[i] = c[e]
  <2> DEFINE y == Starts(t, r)
             x == Starts(s, r)
             l == s.left[r]
             j == i - y
             e == x + (IF Forward(s) THEN k ELSE 0) + j
  <2>0. i \in y + 1..y + t.left[r] /\ t.left[r] = l - k
    BY <1>3 DEF Rest
  <2>1. y \in Int /\ x \in Int /\ l \in Nat /\ k \in Nat /\ k <= l
    BY <1>2, <1>3, <1>4
  <2>2. j \in 1..t.left[r] /\ j \in 1..l - k /\ y + j = i
    BY <2>0, <2>1
  <2>3. Beyond(s, r, k) = IF Forward(s) THEN x + k + 1..x + l ELSE x + 1..x + l - k
    BY DEF Beyond
  <2>4. e \in Beyond(s, r, k)
    <3> HIDE DEF y, x, l, j
    <3> QED
      BY <2>1, <2>2, <2>3, SMTT(30)
  <2>5. d[y + j] = c[e]
    <3> HIDE DEF j, c, d
    <3> QED
      BY <1>5, <2>2
  <2> HIDE DEF y, j, e
  <2> QED
    BY <2>2, <2>4, <2>5
<1>7. ASSUME NEW i \in Nearest(t, o, one) PROVE d[i] = c[Near(s, o)]
  <2> DEFINE y == Starts(t, o)
             x == Starts(s, o)
             l == s.left[o]
             j == IF Forward(s) THEN 1 ELSE l
  <2>1. y \in Int /\ x \in Int /\ l \in Nat /\ l >= 1 /\ t.left[o] = l
    BY <1>1, <1>3, <1>4
  <2>2. i = y + j /\ j \in 1..t.left[o]
    <3>1. i \in IF Forward(s) THEN y + 1..y + 1 ELSE y + l - 1 + 1..y + l
      BY <1>2, <1>3 DEF Nearest
    <3> HIDE DEF y, l
    <3> QED
      BY <2>1, <3>1
  <2>3. Near(s, o) = x + 0 + j
    BY <2>1 DEF Near
  <2> HIDE DEF j, y, x, c, d
  <2>4. d[Starts(t, o) + j] = c[Starts(s, o) + (IF o = r /\ Forward(s) THEN k ELSE 0) + j]
    BY <1>1, <1>5, <2>2
  <2> QED
    BY <1>1, <2>2, <2>3, <2>4 DEF x, y
<1>8. \A p, q, p1, q1 : d[p] = c[p1] /\ d[q] = c[q1] /\ Comes(s, o, p1, q1) => Comes(t, o, p, q)
  BY <1>2 DEF Comes
<1> HIDE DEF c, d
<1>9. CASE r = "a"
  <2>1. o = "b"
    BY <1>9 DEF Other
  <2>2. ASSUME NEW p \in Rest(t, "a"), NEW q \in Nearest(t, "b", one)
        PROVE  Comes(t, o, p, q)
    <3>1. PICK e \in Beyond(s, "a", k) : d[p] = c[e]
      BY <1>6, <1>9, <2>2
    <3>2. d[q] = c[Near(s, "b")]
      BY <1>7, <2>1, <2>2
    <3>3. Comes(s, o, e, Near(s, "b"))
      BY <1>9, <2>1, <3>1 DEF NextFirst
    <3> QED
      BY <1>8, <3>1, <3>2, <3>3
  <2> QED
    BY <2>1, <2>2 DEF MayTake
<1>10. CASE r = "b"
  <2>1. o = "a"
    BY <1>10 DEF Other
  <2>2. ASSUME NEW p \in Nearest(t, "a", one), NEW q \in Rest(t, "b")
        PROVE  Comes(t, o, p, q)
    <3>1. PICK e \in Beyond(s, "b", k) : d[q] = c[e]
      BY <1>6, <1>10, <2>2
    <3>2. d[p] = c[Near(s, "a")]
      BY <1>7, <2>1, <2>2
    <3>3. Comes(s, o, Near(s, "a"), e)
      BY <1>10, <2>1, <3>1 DEF NextFirst
    <3> QED
      BY <1>8, <3>1, <3>2, <3>3
  <2> QED
    BY <2>1, <2>2 DEF MayTake
<1> QED
  BY <1>1, <1>9, <1>10

-----------------------------------------------------------------------------
\* n sorted items.
Rising(items, n) ==
    \A i, j \in 0..n - 1 : i < j =>
        Comparable(items[i]) /\ Comparable(items[j]) /\ items[i].key <= items[j].key

\* Two searches that do not fail find the place among them.
LEMMA PlaceRightFinds ==
    ASSUME NEW x, NEW items, NEW n \in Nat, NEW hint \in 0..n - 1,
           Plain(x), \A j \in 0..n - 1 : Plain(items[j]), Rising(items, n),
           NEW c, c = PlaceRight(x, items, n, hint), c # -1
    PROVE  /\ c \in 0..n /\ Comparable(x) /\ \A j \in 0..n - 1 : Comparable(items[j])
           /\ \A j \in 0..n - 1 : IF j < c THEN items[j].key <= x.key ELSE x.key < items[j].key
<1> DEFINE right == [p \in 0..n - 1 |-> Not(Less(x, items[p]))]
<1>1. c = Gallop(right, n, hint)
  BY DEF PlaceRight
<1>2. \A p \in 0..n - 1 : right[p] = Not(Less(x, items[p]))
  OBVIOUS
<1> HIDE DEF right
<1>3. right[hint] # -1
  BY <1>1, GallopProbes
<1>4. Comparable(x) /\ Comparable(items[hint])
  BY <1>2, <1>3, LessTells
<1>5. \A j \in 0..n - 1 : Comparable(items[j])
  <2> SUFFICES ASSUME NEW j \in 0..n - 1 PROVE Comparable(items[j])
    OBVIOUS
  <2>1. j = hint \/ j < hint \/ hint < j
    OBVIOUS
  <2> QED
    BY <1>4, <2>1 DEF Rising
<1>6. ASSUME NEW p \in 0..n - 1
      PROVE  right[p] = IF items[p].key <= x.key THEN 1 ELSE 0
  <2> DEFINE y == items[p]
  <2>1. /\ x.key \in Int /\ y.key \in Int /\ Comparable(x) /\ Comparable(y)
        /\ right[p] = Not(Less(x, y))
    BY <1>2, <1>4, <1>5 DEF Comparable
  <2> HIDE DEF y
  <2>2. /\ Less(x, y) = 1 <=> x.key < y.key
        /\ Less(x, y) = 0 <=> y.key <= x.key
    BY <2>1, LessTells DEF Plain
  <2>3. CASE y.key <= x.key
    BY <2>1, <2>2, <2>3 DEF Not, y
  <2>4. CASE x.key < y.key
    BY <2>1, <2>2, <2>4 DEF Not, y
  <2>5. y.key <= x.key \/ x.key < y.key
    BY <2>1
  <2> QED
    BY <2>3, <2>4, <2>5
<1>7. \A p, q \in 0..n - 1 : (p < q /\ right[q] = 1) => right[p] = 1
  <2> SUFFICES ASSUME NEW p \in 0..n - 1, NEW q \in 0..n - 1, p < q, right[q] = 1
               PROVE  right[p] = 1
    OBVIOUS
  <2>1. items[p].key <= items[q].key /\ items[q].key <= x.key
    BY <1>6 DEF Rising
  <2>2. items[p].key \in Int /\ items[q].key \in Int /\ x.key \in Int
    BY <1>4, <1>5 DEF Comparable
  <2>3. items[p].key <= x.key
    BY <2>1, <2>2
  <2> QED
    BY <1>6, <2>3
<1>8. \A p \in 0..n - 1 : right[p] \in {0, 1}
  BY <1>6
<1>9. PICK e : Cuts(right, 0, n, e)
  BY <1>7, <1>8, CutExists
<1>10. c = e
  BY <1>1, <1>9, GallopPlaces
<1>11. c \in 0..n /\ \A p \in 0..n - 1 : right[p] = IF p < c THEN 1 ELSE 0
  BY <1>9, <1>10 DEF Cuts
<1>12. ASSUME NEW j \in 0..n - 1
       PROVE  IF j < c THEN items[j].key <= x.key ELSE x.key < items[j].key
  <2>1. items[j].key \in Int /\ x.key \in Int
    BY <1>4, <1>5 DEF Comparable
  <2>2. right[j] = IF j < c THEN 1 ELSE 0
    BY <1>11
  <2>3. right[j] = IF items[j].key <= x.key THEN 1 ELSE 0
    BY <1>6
  <2> QED
    BY <2>1, <2>2, <2>3
<1> QED
  BY <1>4, <1>5, <1>11, <1>12

\* What PlaceLeft finds among items in order, if no comparison fails.
LEMMA PlaceLeftFinds ==
    ASSUME NEW x, NEW items, NEW n \in Nat, NEW hint \in 0..n - 1,
           Plain(x), \A j \in 0..n - 1 : Plain(items[j]), Rising(items, n),
           NEW c, c = PlaceLeft(x, items, n, hint), c # -1
    PROVE  /\ c \in 0..n /\ Comparable(x) /\ \A j \in 0..n - 1 : Comparable(items[j])
           /\ \A j \in 0..n - 1 : IF j < c THEN items[j].key < x.key ELSE x.key <= items[j].key
<1> DEFINE right == [p \in 0..n - 1 |-> Less(items[p], x)]
<1>1. c = Gallop(right, n, hint)
  BY DEF PlaceLeft
<1>2. \A p \in 0..n - 1 : right[p] = Less(items[p], x)
  OBVIOUS
<1> HIDE DEF right
<1>3. right[hint] # -1
  BY <1>1, GallopProbes
<1>4. Comparable(x) /\ Comparable(items[hint])
  BY <1>2, <1>3, LessTells
<1>5. \A j \in 0..n - 1 : Comparable(items[j])
  <2> SUFFICES ASSUME NEW j \in 0..n - 1 PROVE Comparable(items[j])
    OBVIOUS
  <2>1. j = hint \/ j < hint \/ hint < j
    OBVIOUS
  <2> QED
    BY <1>4, <2>1 DEF Rising
<1>6. ASSUME NEW p \in 0..n - 1
      PROVE  right[p] = IF items[p].key < x.key THEN 1 ELSE 0
  <2> DEFINE y == items[p]
  <2>1. x.key \in Int /\ y.key \in Int /\ Comparable(x) /\ Comparable(y) /\ right[p] = Less(y, x)
    BY <1>2, <1>4, <1>5 DEF Comparable
  <2> HIDE DEF y
  <2>2. /\ Less(y, x) = 1 <=> y.key < x.key
        /\ Less(y, x) = 0 <=> x.key <= y.key
    BY <2>1, LessTells DEF Plain
  <2>3. CASE y.key < x.key
    BY <2>1, <2>2, <2>3 DEF y
  <2>4. CASE x.key <= y.key
    BY <2>1, <2>2, <2>4 DEF y
  <2>5. y.key < x.key \/ x.key <= y.key
    BY <2>1
  <2> QED
    BY <2>3, <2>4, <2>5
<1>7. \A p, q \in 0..n - 1 : (p < q /\ right[q] = 1) => right[p] = 1
  <2> SUFFICES ASSUME NEW p \in 0..n - 1, NEW q \in 0..n - 1, p < q, right[q] = 1
               PROVE  right[p] = 1
    OBVIOUS
  <2>1. items[p].key <= items[q].key /\ items[q].key < x.key
    BY <1>6 DEF Rising
  <2>2. items[p].key \in Int /\ items[q].key \in Int /\ x.key \in Int
    BY <1>4, <1>5 DEF Comparable
  <2>3. items[p].key < x.key
    BY <2>1, <2>2
  <2> QED
    BY <1>6, <2>3
<1>8. \A p \in 0..n - 1 : right[p] \in {0, 1}
  BY <1>6
<1>9. PICK e : Cuts(right, 0, n, e)
  BY <1>7, <1>8, CutExists
<1>10. c = e
  BY <1>1, <1>9, GallopPlaces
<1>11. c \in 0..n /\ \A p \in 0..n - 1 : right[p] = IF p < c THEN 1 ELSE 0
  BY <1>9, <1>10 DEF Cuts
<1>12. ASSUME NEW j \in 0..n - 1
       PROVE  IF j < c THEN items[j].key < x.key ELSE x.key <= items[j].key
  <2>1. items[j].key \in Int /\ x.key \in Int
    BY <1>4, <1>5 DEF Comparable
  <2>2. right[j] = IF j < c THEN 1 ELSE 0
    BY <1>11
  <2>3. right[j] = IF items[j].key < x.key THEN 1 ELSE 0
    BY <1>6
  <2> QED
    BY <2>1, <2>2, <2>3
<1> QED
  BY <1>4, <1>5, <1>11, <1>12

\* While a merge goes on, what is left of each run is in order.
LEMMA RestRises ==
    ASSUME NEW n \in Nat, NEW s, Laid(s, n), NEW first, NEW f \in Int, NEW l \in Int,
           f >= 1, l <= n, Ahead(s, first, f, l), s.left["a"] >= 1, s.left["b"] >= 1,
           NEW r \in Runs
    PROVE  /\ 0 <= AStart(s) /\ AStart(s) + s.left["a"] + s.left["b"] <= n
           /\ \A i \in Rest(s, r) : Comparable(View(s)[i])
           /\ \A i, j \in Rest(s, r) : i <= j => View(s)[i].key <= View(s)[j].key
<1> DEFINE c == View(s)
           x == AStart(s)
           la == s.left["a"]
           lb == s.left["b"]
<1>1. Merges(first, c, f, l, x, la, lb, Forward(s))
  BY DEF Ahead
<1>2. x \in Int /\ la \in Nat /\ lb \in Nat /\ f - 1 <= x /\ x + la + lb <= l /\ la >= 1 /\ lb >= 1
  BY <1>1 DEF Merges
<1>3. /\ Rest(s, r) = IF r = "a" THEN x + 1..x + la ELSE x + la + 1..x + la + lb
      /\ r \in {"a", "b"}
  BY DEF Rest, Starts, Runs
<1> HIDE DEF c, x, la, lb
<1>4. x + la \in x + 1..x + la /\ x + la + 1 \in x + la + 1..x + la + lb
  BY <1>2
<1>5. \A i \in Rest(s, r) : Comparable(c[i])
  BY <1>1, <1>3, <1>4 DEF Merges
<1>6. ASSUME NEW i \in Rest(s, r), NEW j \in Rest(s, r), i <= j
      PROVE  c[i].key <= c[j].key
  <2>1. CASE i = j
    <3>1. c[i].key \in Int
      BY <1>5 DEF Comparable
    <3> QED
      BY <2>1, <3>1
  <2>2. CASE i < j
    <3>1. /\ i \in f..l /\ j \in f..l
          /\ ~(i \in x + 1..x + la /\ j \in x + la + 1..x + la + lb)
      BY <1>2, <1>3
    <3>2. Before(first, c[i], c[j])
      BY <1>1, <2>2, <3>1 DEF Merges
    <3> QED
      BY <3>2 DEF Before, Comparable
  <2>3. i < j \/ i = j
    BY <1>2, <1>3, <1>6
  <2> QED
    BY <2>1, <2>2, <2>3
<1>7. 0 <= x /\ x + la + lb <= n
  BY <1>2
<1> QED
  BY <1>5, <1>6, <1>7 DEF c, x, la, lb

\* Whether items may be moved can be told from the next item of the other run.
LEMMA NearTells ==
    ASSUME NEW n \in Nat, NEW s, Laid(s, n), NEW first, NEW f \in Int, NEW l \in Int,
           f >= 1, l <= n, Ahead(s, first, f, l), s.left["a"] >= 1, s.left["b"] >= 1,
           NEW r \in Runs, NEW k \in 0..s.left[r],
           \A i \in Nearest(s, r, k) :
                IF r = "a" THEN Comes(s, r, i, Near(s, "b")) ELSE Comes(s, r, Near(s, "a"), i)
    PROVE  MayTake(s, r, k)
<1> DEFINE c == View(s)
           o == Other(r)
           w == Near(s, o)
<1>1. /\ r \in {"a", "b"} /\ s.held \in {"a", "b"} /\ (Forward(s) <=> s.held = "a")
      /\ o = (IF r = "a" THEN "b" ELSE "a")
      /\ o \in Runs /\ "a" \in Runs /\ "b" \in Runs /\ s.left[o] >= 1
  BY LaidIs DEF Runs, Other
<1>2. \A q \in Runs : /\ \A i \in Rest(s, q) : c[i].key \in Int
                      /\ \A i, j \in Rest(s, q) : i <= j => c[i].key <= c[j].key
  BY RestRises DEF Comparable
<1>3. /\ w \in Rest(s, o) /\ Starts(s, o) \in Int /\ s.left[o] \in Nat
  BY <1>1, FirstIs
<1>4. \A i \in Rest(s, o) : IF Forward(s) THEN w <= i ELSE i <= w
  <2> DEFINE y == Starts(s, o)  e == s.left[o]
  <2>1. y \in Int /\ e \in Nat /\ Rest(s, o) = y + 1..y + e
        /\ w = IF Forward(s) THEN y + 1 ELSE y + e
    BY <1>3 DEF Rest, Near
  <2> HIDE DEF y, e, w
  <2> QED
    BY <2>1
<1>5. \A i \in Nearest(s, r, k) : i \in Rest(s, r)
  <2> DEFINE y == Starts(s, r)  e == s.left[r]
  <2>1. y \in Int /\ e \in Nat /\ k \in 0..e
    BY <1>1, FirstIs
  <2>2. /\ Rest(s, r) = y + 1..y + e
        /\ Nearest(s, r, k) = IF Forward(s) THEN y + 1..y + k ELSE y + e - k + 1..y + e
    BY DEF Rest, Nearest
  <2> HIDE DEF y, e
  <2> QED
    BY <2>1, <2>2
<1>6. \A q \in Rest(s, o) : /\ c[q].key \in Int /\ c[w].key \in Int
                            /\ IF Forward(s) THEN c[w].key <= c[q].key ELSE c[q].key <= c[w].key
  BY <1>1, <1>2, <1>3, <1>4
<1>7. \A p, q : Comes(s, r, p, q) <=>
        IF r = s.held THEN c[p].key <= c[q].key ELSE c[q].key < c[p].key
  BY DEF Comes
<1>8. \A i \in Nearest(s, r, k) : c[i].key \in Int
  BY <1>2, <1>5
<1> HIDE DEF c
<1>9. CASE r = "a"
  <2>1. o = "b"
    BY <1>1, <1>9
  <2>2. ASSUME NEW p \in Nearest(s, "a", k), NEW q \in Rest(s, "b") PROVE Comes(s, "a", p, q)
    <3>1. Comes(s, "a", p, w)
      BY <1>9, <2>1, <2>2
    <3>2. c[p].key \in Int /\ c[q].key \in Int /\ c[w].key \in Int
      BY <1>6, <1>8, <1>9, <2>1, <2>2
    <3>3. IF Forward(s) THEN c[w].key <= c[q].key ELSE c[q].key <= c[w].key
      BY <1>6, <2>1, <2>2
    <3> HIDE DEF w
    <3>4. Forward(s) <=> s.held = "a"
      BY <1>1
    <3> QED
      BY <1>7, <1>9, <3>1, <3>2, <3>3, <3>4
  <2> QED
    BY <1>9, <2>2 DEF MayTake
<1>10. CASE r = "b"
  <2>1. o = "a"
    BY <1>1, <1>10
  <2>2. ASSUME NEW p \in Rest(s, "a"), NEW q \in Nearest(s, "b", k) PROVE Comes(s, "b", p, q)
    <3>1. Comes(s, "b", w, q)
      BY <1>10, <2>1, <2>2
    <3>2. c[p].key \in Int /\ c[q].key \in Int /\ c[w].key \in Int
      BY <1>6, <1>8, <1>10, <2>1, <2>2
    <3>3. IF Forward(s) THEN c[w].key <= c[p].key ELSE c[p].key <= c[w].key
      BY <1>6, <2>1, <2>2
    <3> HIDE DEF w
    <3>4. ~Forward(s) <=> s.held = "b"
      BY <1>1
    <3> QED
      BY <1>7, <1>10, <3>1, <3>2, <3>3, <3>4
  <2> QED
    BY <1>10, <2>2 DEF MayTake
<1> QED
  BY <1>1, <1>9, <1>10

-----------------------------------------------------------------------------
\* The items that are left of a run, as a search is given them.
Items(s, r) == [j \in 0..s.left[r] - 1 |-> Nth(s, r, j)]

\* They are in order.
LEMMA ItemsRise ==
    ASSUME NEW n \in Nat, NEW s, Laid(s, n), NEW first, NEW f \in Int, NEW l \in Int,
           f >= 1, l <= n, Ahead(s, first, f, l), s.left["a"] >= 1, s.left["b"] >= 1,
           NEW r \in Runs
    PROVE  /\ s.left[r] \in Nat /\ s.left[r] >= 1 /\ Starts(s, r) \in Int
           /\ Rising(Items(s, r), s.left[r])
           /\ \A j \in 0..s.left[r] - 1 :
                /\ Starts(s, r) + 1 + j \in 1..n
                /\ Items(s, r)[j] = View(s)[Starts(s, r) + 1 + j]
<1> DEFINE c == View(s)
           x == Starts(s, r)
           e == s.left[r]
           items == Items(s, r)
<1>1. e \in Nat /\ e >= 1 /\ x \in Int
  BY FirstIs DEF Runs
<1>2. \A j \in 0..e - 1 : x + 1 + j \in 1..n /\ items[j] = c[x + 1 + j]
  BY NthIs DEF Items
<1>3. /\ \A i \in Rest(s, r) : Comparable(c[i])
      /\ \A i, j \in Rest(s, r) : i <= j => c[i].key <= c[j].key
  BY RestRises
<1>4. \A j \in 0..e - 1 : x + 1 + j \in Rest(s, r)
  BY <1>1 DEF Rest
<1> HIDE DEF c, x, e, items
<1>5. Rising(items, e)
  <2> SUFFICES ASSUME NEW i \in 0..e - 1, NEW j \in 0..e - 1, i < j
               PROVE  /\ Comparable(items[i]) /\ Comparable(items[j])
                      /\ items[i].key <= items[j].key
    BY DEF Rising
  <2> DEFINE y == x + 1 + i  z == x + 1 + j
  <2>1. y <= z
    BY <1>1
  <2>2. y \in Rest(s, r) /\ z \in Rest(s, r) /\ items[i] = c[y] /\ items[j] = c[z]
    BY <1>2, <1>4
  <2> HIDE DEF y, z
  <2> QED
    BY <1>3, <2>1, <2>2
<1> QED
  BY <1>1, <1>2, <1>5 DEF c, x, e, items

\* What a search among a's items for b's next one finds may be moved, and after
\* it that item.
LEMMA GallopATells ==
    ASSUME NEW n \in Nat, NEW s, Laid(s, n), NEW first, NEW f \in Int, NEW l \in Int,
           f >= 1, l <= n, Ahead(s, first, f, l), s.left["a"] >= 1, s.left["b"] >= 1,
           \A i \in 1..n : Plain(View(s)[i]),
           NEW e, e = s.left["a"], NEW hint \in 0..e - 1,
           NEW p, p = PlaceRight(First(s, "b"), Items(s, "a"), e, hint), p # -1,
           NEW k, k = IF Forward(s) THEN p ELSE e - p
    PROVE  k \in 0..e /\ MayTake(s, "a", k) /\ NextFirst(s, "a", k)
<1> DEFINE r == "a"
           c == View(s)
           x == Starts(s, r)
           w == Near(s, "b")
           items == Items(s, r)
<1>1. /\ e \in Nat /\ e >= 1 /\ x \in Int /\ Rising(items, e)
      /\ \A j \in 0..e - 1 : x + 1 + j \in 1..n /\ items[j] = c[x + 1 + j]
  BY ItemsRise DEF Runs
<1>2. w \in 1..n /\ First(s, "b") = c[w]
  BY FirstIs DEF Runs
<1>3. Plain(c[w]) /\ \A j \in 0..e - 1 : Plain(items[j])
  BY <1>1, <1>2
<1>4. p = PlaceRight(c[w], items, e, hint)
  BY <1>2
<1>a. /\ (Forward(s) <=> s.held = "a") /\ (~Forward(s) <=> s.held = "b")
      /\ r \in Runs /\ e = s.left[r]
  BY LaidIs DEF Runs
<1>b. \A y, q, z : Comes(s, y, q, z) <=>
        IF y = s.held THEN c[q].key <= c[z].key ELSE c[z].key < c[q].key
  BY DEF Comes
<1> HIDE DEF c, w, x, items
<1>5. /\ p \in 0..e /\ Comparable(c[w])
      /\ \A j \in 0..e - 1 : IF j < p THEN items[j].key <= c[w].key ELSE c[w].key < items[j].key
  <2> DEFINE y == c[w]
  <2>1. Plain(y) /\ p = PlaceRight(y, items, e, hint)
    BY <1>3, <1>4
  <2> HIDE DEF y
  <2>2. /\ p \in 0..e /\ Comparable(y) /\ \A j \in 0..e - 1 : Comparable(items[j])
        /\ \A j \in 0..e - 1 : IF j < p THEN items[j].key <= y.key ELSE y.key < items[j].key
    BY <1>1, <1>3, <2>1, PlaceRightFinds
  <2> QED
    BY <2>2 DEF y
<1>6. ASSUME NEW i \in x + 1..x + e
      PROVE  IF i <= x + p THEN c[i].key <= c[w].key ELSE c[w].key < c[i].key
  <2> DEFINE j == i - x - 1
  <2>1. j \in 0..e - 1 /\ x + 1 + j = i /\ (j < p <=> i <= x + p)
    BY <1>1, <1>5
  <2> HIDE DEF j
  <2> QED
    BY <1>1, <1>5, <2>1
<1>7. /\ k \in 0..e /\ k \in Nat
      /\ Nearest(s, r, k) = IF Forward(s) THEN x + 1..x + p ELSE x + p + 1..x + e
      /\ Beyond(s, r, k) = IF Forward(s) THEN x + p + 1..x + e ELSE x + 1..x + p
  <2>1. /\ Nearest(s, r, k) = IF Forward(s) THEN x + 1..x + k ELSE x + e - k + 1..x + e
        /\ Beyond(s, r, k) = IF Forward(s) THEN x + k + 1..x + e ELSE x + 1..x + e - k
    BY DEF Nearest, Beyond, x
  <2>2. k \in 0..e /\ k \in Nat /\ (~Forward(s) => x + e - k = x + p)
    BY <1>1, <1>5
  <2> QED
    BY <2>1, <2>2
<1>8. ASSUME NEW i \in Nearest(s, r, k) PROVE Comes(s, "a", i, w)
  <2>1. i \in x + 1..x + e /\ (i <= x + p <=> Forward(s))
    <3>1. CASE Forward(s)
      <4>1. i \in x + 1..x + p
        BY <1>7, <3>1
      <4>2. i \in x + 1..x + e /\ (i <= x + p)
        BY ONLY <1>1, <1>5, <4>1
      <4> QED
        BY <3>1, <4>2
    <3>2. CASE ~Forward(s)
      <4>1. i \in x + p + 1..x + e
        BY <1>7, <3>2
      <4>2. i \in x + 1..x + e /\ ~(i <= x + p)
        BY ONLY <1>1, <1>5, <4>1
      <4> QED
        BY <3>2, <4>2
    <3> QED
      BY <3>1, <3>2
  <2> QED
    BY <1>6, <1>a, <1>b, <2>1
<1>9. ASSUME NEW i \in Beyond(s, r, k) PROVE Comes(s, "b", i, w)
  <2>1. i \in x + 1..x + e /\ (i <= x + p <=> ~Forward(s))
    <3>1. CASE Forward(s)
      <4>1. i \in x + p + 1..x + e
        BY <1>7, <3>1
      <4>2. i \in x + 1..x + e /\ ~(i <= x + p)
        BY ONLY <1>1, <1>5, <4>1
      <4> QED
        BY <3>1, <4>2
    <3>2. CASE ~Forward(s)
      <4>1. i \in x + 1..x + p
        BY <1>7, <3>2
      <4>2. i \in x + 1..x + e /\ (i <= x + p)
        BY ONLY <1>1, <1>5, <4>1
      <4> QED
        BY <3>2, <4>2
    <3> QED
      BY <3>1, <3>2
  <2> QED
    BY <1>6, <1>a, <1>b, <2>1
<1>10. NextFirst(s, r, k)
  BY <1>9 DEF NextFirst, w
<1>11. MayTake(s, r, k)
  <2>1. \A i \in Nearest(s, r, k) :
            IF r = "a" THEN Comes(s, r, i, Near(s, "b")) ELSE Comes(s, r, Near(s, "a"), i)
    BY <1>8 DEF w
  <2>2. k \in 0..s.left[r] /\ r \in Runs
    BY <1>7, <1>a
  <2> HIDE DEF r
  <2> QED
    BY <2>1, <2>2, NearTells
<1> QED
  BY <1>7, <1>10, <1>11

\* What a search among b's items for a's next one finds may be moved, and after
\* it that item.
LEMMA GallopBTells ==
    ASSUME NEW n \in Nat, NEW s, Laid(s, n), NEW first, NEW f \in Int, NEW l \in Int,
           f >= 1, l <= n, Ahead(s, first, f, l), s.left["a"] >= 1, s.left["b"] >= 1,
           \A i \in 1..n : Plain(View(s)[i]),
           NEW e, e = s.left["b"], NEW hint \in 0..e - 1,
           NEW p, p = PlaceLeft(First(s, "a"), Items(s, "b"), e, hint), p # -1,
           NEW k, k = IF Forward(s) THEN p ELSE e - p
    PROVE  k \in 0..e /\ MayTake(s, "b", k) /\ NextFirst(s, "b", k)
<1> DEFINE r == "b"
           c == View(s)
           x == Starts(s, r)
           w == Near(s, "a")
           items == Items(s, r)
<1>1. /\ e \in Nat /\ e >= 1 /\ x \in Int /\ Rising(items, e)
      /\ \A j \in 0..e - 1 : x + 1 + j \in 1..n /\ items[j] = c[x + 1 + j]
  BY ItemsRise DEF Runs
<1>2. w \in 1..n /\ First(s, "a") = c[w]
  BY FirstIs DEF Runs
<1>3. Plain(c[w]) /\ \A j \in 0..e - 1 : Plain(items[j])
  BY <1>1, <1>2
<1>4. p = PlaceLeft(c[w], items, e, hint)
  BY <1>2
<1>a. /\ (Forward(s) <=> s.held = "a") /\ (~Forward(s) <=> s.held = "b")
      /\ r \in Runs /\ e = s.left[r]
  BY LaidIs DEF Runs
<1>b. \A y, q, z : Comes(s, y, q, z) <=>
        IF y = s.held THEN c[q].key <= c[z].key ELSE c[z].key < c[q].key
  BY DEF Comes
<1> HIDE DEF c, w, x, items
<1>5. /\ p \in 0..e /\ Comparable(c[w])
      /\ \A j \in 0..e - 1 : IF j < p THEN items[j].key < c[w].key ELSE c[w].key <= items[j].key
  <2> DEFINE y == c[w]
  <2>1. Plain(y) /\ p = PlaceLeft(y, items, e, hint)
    BY <1>3, <1>4
  <2> HIDE DEF y
  <2>2. /\ p \in 0..e /\ Comparable(y) /\ \A j \in 0..e - 1 : Comparable(items[j])
        /\ \A j \in 0..e - 1 : IF j < p THEN items[j].key < y.key ELSE y.key <= items[j].key
    BY <1>1, <1>3, <2>1, PlaceLeftFinds
  <2> QED
    BY <2>2 DEF y
<1>6. ASSUME NEW i \in x + 1..x + e
      PROVE  IF i <= x + p THEN c[i].key < c[w].key ELSE c[w].key <= c[i].key
  <2> DEFINE j == i - x - 1
  <2>1. j \in 0..e - 1 /\ x + 1 + j = i /\ (j < p <=> i <= x + p)
    BY <1>1, <1>5
  <2> HIDE DEF j
  <2> QED
    BY <1>1, <1>5, <2>1
<1>7. /\ k \in 0..e /\ k \in Nat
      /\ Nearest(s, r, k) = IF Forward(s) THEN x + 1..x + p ELSE x + p + 1..x + e
      /\ Beyond(s, r, k) = IF Forward(s) THEN x + p + 1..x + e ELSE x + 1..x + p
  <2>1. /\ Nearest(s, r, k) = IF Forward(s) THEN x + 1..x + k ELSE x + e - k + 1..x + e
        /\ Beyond(s, r, k) = IF Forward(s) THEN x + k + 1..x + e ELSE x + 1..x + e - k
    BY DEF Nearest, Beyond, x
  <2>2. k \in 0..e /\ k \in Nat /\ (~Forward(s) => x + e - k = x + p)
    BY <1>1, <1>5
  <2> QED
    BY <2>1, <2>2
<1>8. ASSUME NEW i \in Nearest(s, r, k) PROVE Comes(s, "b", w, i)
  <2>1. i \in x + 1..x + e /\ (i <= x + p <=> Forward(s))
    <3>1. CASE Forward(s)
      <4>1. i \in x + 1..x + p
        BY <1>7, <3>1
      <4>2. i \in x + 1..x + e /\ (i <= x + p)
        BY ONLY <1>1, <1>5, <4>1
      <4> QED
        BY <3>1, <4>2
    <3>2. CASE ~Forward(s)
      <4>1. i \in x + p + 1..x + e
        BY <1>7, <3>2
      <4>2. i \in x + 1..x + e /\ ~(i <= x + p)
        BY ONLY <1>1, <1>5, <4>1
      <4> QED
        BY <3>2, <4>2
    <3> QED
      BY <3>1, <3>2
  <2> QED
    BY <1>6, <1>a, <1>b, <2>1
<1>9. ASSUME NEW i \in Beyond(s, r, k) PROVE Comes(s, "a", w, i)
  <2>1. i \in x + 1..x + e /\ (i <= x + p <=> ~Forward(s))
    <3>1. CASE Forward(s)
      <4>1. i \in x + p + 1..x + e
        BY <1>7, <3>1
      <4>2. i \in x + 1..x + e /\ ~(i <= x + p)
        BY ONLY <1>1, <1>5, <4>1
      <4> QED
        BY <3>1, <4>2
    <3>2. CASE ~Forward(s)
      <4>1. i \in x + 1..x + p
        BY <1>7, <3>2
      <4>2. i \in x + 1..x + e /\ (i <= x + p)
        BY ONLY <1>1, <1>5, <4>1
      <4> QED
        BY <3>2, <4>2
    <3> QED
      BY <3>1, <3>2
  <2> QED
    BY <1>6, <1>a, <1>b, <2>1
<1>10. NextFirst(s, r, k)
  BY <1>9 DEF NextFirst, w
<1>11. MayTake(s, r, k)
  <2>1. \A i \in Nearest(s, r, k) :
            IF r = "a" THEN Comes(s, r, i, Near(s, "b")) ELSE Comes(s, r, Near(s, "a"), i)
    BY <1>8 DEF w
  <2>2. k \in 0..s.left[r] /\ r \in Runs
    BY <1>7, <1>a
  <2> HIDE DEF r
  <2> QED
    BY <2>1, <2>2, NearTells
<1> QED
  BY <1>7, <1>10, <1>11

\* So may the item that wins a comparison.
LEMMA WinnerTells ==
    ASSUME NEW n \in Nat, NEW s, Laid(s, n), NEW first, NEW f \in Int, NEW l \in Int,
           f >= 1, l <= n, Ahead(s, first, f, l), s.left["a"] >= 1, s.left["b"] >= 1,
           \A i \in 1..n : Plain(View(s)[i]),
           NEW k, k = Less(First(s, "b"), First(s, "a")), k # -1,
           NEW r, r = IF k = 1 THEN Other(s.held) ELSE s.held,
           NEW one, one = 1
    PROVE  MayTake(s, r, one)
<1> DEFINE c == View(s)
           u == Near(s, "a")
           w == Near(s, "b")
<1>1. /\ u \in 1..n /\ First(s, "a") = c[u] /\ Nearest(s, "a", one) = {u}
      /\ w \in 1..n /\ First(s, "b") = c[w] /\ Nearest(s, "b", one) = {w}
  BY FirstIs DEF Runs
<1>2. Plain(c[u]) /\ Plain(c[w]) /\ k = Less(c[w], c[u])
  BY <1>1
<1>a. /\ (s.held = "a" \/ s.held = "b") /\ r \in Runs /\ (r = "a" \/ r = "b")
      /\ s.left[r] >= 1 /\ s.left[r] \in Nat
      /\ Other("a") = "b" /\ Other("b") = "a"
  BY LaidIs DEF Runs, Other
<1>b. \A y, q, z : Comes(s, y, q, z) <=>
        IF y = s.held THEN c[q].key <= c[z].key ELSE c[z].key < c[q].key
  BY DEF Comes
<1> HIDE DEF c, u, w
<1>3. /\ k = 1 <=> c[w].key < c[u].key
      /\ k = 0 <=> c[u].key <= c[w].key
      /\ k = 1 \/ k = 0
  <2> DEFINE y == c[w]  z == c[u]
  <2>1. Plain(y) /\ Plain(z) /\ k = Less(y, z) /\ k # -1
    BY <1>2
  <2> HIDE DEF y, z
  <2>2. Comparable(y) /\ Comparable(z) /\ k \in {-1, 0, 1}
    BY <2>1, LessTells, LessIs
  <2>3. (k = 1 <=> y.key < z.key) /\ (k = 0 <=> z.key <= y.key)
    BY <2>1, <2>2, LessTells
  <2> QED
    BY <2>1, <2>2, <2>3 DEF y, z
<1>4. Comes(s, r, u, w)
  <2>1. CASE k = 1
    BY <1>3, <1>a, <1>b, <2>1
  <2>2. CASE k = 0
    BY <1>3, <1>a, <1>b, <2>2
  <2> QED
    BY <1>3, <2>1, <2>2
<1>5. \A i \in Nearest(s, r, one) :
            IF r = "a" THEN Comes(s, r, i, Near(s, "b")) ELSE Comes(s, r, Near(s, "a"), i)
  BY <1>1, <1>4, <1>a DEF u, w
<1>6. one \in 0..s.left[r]
  BY <1>a
<1> QED
  BY <1>5, <1>6, <1>a, NearTells

-----------------------------------------------------------------------------
\* A merge that goes on after its guards is as it was.
LEMMA ExitIs ==
    ASSUME NEW s, Exit(s).mode # "none"
    PROVE  Exit(s) = s
<1>1. \A c : Idle(c).mode = "none"
  BY DEF Idle
<1> QED
  BY <1>1 DEF Exit

\* The items are where they were once a merge has passed its guards.
LEMMA ExitLaid ==
    ASSUME NEW n \in Nat, NEW s, Laid(s, n)
    PROVE  Laid(Exit(s), n)
<1> DEFINE h == s.held
           o == Other(h)
<1>0. n \in Nat
  OBVIOUS
<1>1. h \in Runs /\ o \in Runs /\ o # h
  BY LaidIs, OtherIs
<1>2. s.left[h] \in Nat /\ s.left[o] \in Nat
  BY <1>1, LaidIs DEF Runs
<1>3. CASE s.left[o] = 0 \/ s.left[h] = 0
  <2>1. Exit(s) = Idle(Flush(s).cells)
    BY <1>3 DEF Exit
  <2> QED
    BY <2>1, FlushIs, IdleIs
<1>4. CASE s.left[o] # 0 /\ s.left[h] = 1
  <2> DEFINE k == s.left[o]
             t == Take(s, o, k)
             one == 1
             u == Take(t, h, one)
  <2>1. k \in 0..s.left[o]
    BY <1>2
  <2>2. t = Take(s, o, k) /\ Exit(s) = Idle(Take(t, h, 1).cells)
    BY <1>4 DEF Exit, CopyRest
  <2> HIDE DEF k, t, h, o
  <2>3. /\ Laid(t, n) /\ t.held = h
        /\ t.left["a"] = IF o = "a" THEN s.left["a"] - k ELSE s.left["a"]
        /\ t.left["b"] = IF o = "b" THEN s.left["b"] - k ELSE s.left["b"]
    <3>1. Laid(s, n) /\ o \in Runs
      BY <1>1
    <3> QED
      BY ONLY <1>0, <2>1, <2>2, <3>1, TakeMoves DEF h
  <2>4. t.left[h] = 1
    BY <1>1, <1>2, <1>4, <2>3 DEF Runs, k
  <2>5. u = Take(t, h, one) /\ Exit(s) = Idle(u.cells)
    BY <2>2
  <2>6. one \in 0..t.left[h]
    BY <2>4
  <2> HIDE DEF one, u
  <2>7. Laid(u, n)
    BY ONLY <1>0, <1>1, <2>3, <2>5, <2>6, TakeMoves
  <2>8. u.cells \in Seq(Cell) /\ Len(u.cells) = n
    BY <2>7, LaidIs
  <2> QED
    BY <2>5, <2>8, IdleIs
<1>5. CASE s.left[o] # 0 /\ s.left[h] # 0 /\ s.left[h] # 1
  BY <1>5 DEF Exit
<1> QED
  BY <1>3, <1>4, <1>5

\* A galloping round keeps the order: k items of r, then the next one of the
\* other run.
LEMMA GallopOrders ==
    ASSUME NEW n \in Nat, NEW s, Laid(s, n), s.mode # "none",
           NEW first, NEW f \in Int, NEW l \in Int, f >= 1, l <= n, Ahead(s, first, f, l),
           s.left["a"] >= 1, s.left["b"] >= 1,
           NEW x \in {"one", "gallopA", "gallopB"}, NEW w \in [Runs -> Int],
           NEW r \in Runs, NEW q, q = Other(r), NEW k \in 0..s.left[r],
           MayTake(s, r, k), NextFirst(s, r, k),
           NEW u, Marked(s, x, w, u), NEW v, v = Then(Then(u, r, k), q, 1)
    PROVE  Settles(v, first, f, l) /\ Stays(View(s), View(v), n, f, l)
<1> DEFINE e == Take(u, r, k)
           t == Then(u, r, k)
           one == 1
<1>0. n \in Nat /\ f \in Int /\ l \in Int /\ f >= 1 /\ l <= n
  OBVIOUS
<1>1. /\ Laid(u, n) /\ u.mode = x /\ u.left = s.left /\ u.held = s.held
      /\ View(u) = View(s) /\ Ahead(u, first, f, l) /\ MayTake(u, r, k)
  BY MarkedView
<1>2. u.mode # "none" /\ k \in 0..u.left[r] /\ Settles(u, first, f, l)
  BY <1>1 DEF Settles
<1>3. t = Exit(e) /\ e = Take(u, r, k) /\ t = Then(u, r, k) /\ v = Then(t, q, one) /\ one = 1
  BY <1>2 DEF Then
<1> HIDE DEF e, t, one
<1>4. /\ Settles(t, first, f, l) /\ Stays(View(u), View(t), n, f, l)
  BY <1>0, <1>1, <1>2, <1>3, ThenOrders
<1>5. q \in Runs /\ q # r /\ "a" \in Runs /\ "b" \in Runs /\ s.left[q] >= 1 /\ r \in Runs
  BY OtherIs DEF Runs
<1>6. /\ Laid(e, n) /\ u.left["a"] \in Nat /\ u.left["b"] \in Nat
      /\ e.left["a"] = IF r = "a" THEN u.left["a"] - k ELSE u.left["a"]
      /\ e.left["b"] = IF r = "b" THEN u.left["b"] - k ELSE u.left["b"]
      /\ e.mode = u.mode
  BY ONLY <1>0, <1>1, <1>2, <1>3, <1>5, TakeMoves
<1>7. ASSUME t.mode # "none"
      PROVE  t = e /\ one \in 0..t.left[q] /\ MayTake(t, q, one)
  <2>1. t = e
    BY <1>3, <1>7, ExitIs
  <2>2. e.left[q] = u.left[q] /\ u.left[q] \in Nat /\ u.left[q] >= 1
    BY <1>1, <1>5, <1>6 DEF Runs
  <2>3. one \in 0..t.left[q]
    BY <1>3, <2>1, <2>2
  <2>4. NextFirst(u, r, k)
    <3>1. Forward(u) <=> Forward(s)
      BY <1>1 DEF Forward
    <3>2. AStart(u) = AStart(s)
      <4>1. u.dest = s.dest
        BY LaidIs DEF Marked, MergeState
      <4> QED
        BY <1>1, <3>1, <4>1 DEF AStart
    <3>3. \A y, j : Beyond(u, y, j) = Beyond(s, y, j) /\ Near(u, y) = Near(s, y)
      BY <1>1, <3>1, <3>2 DEF Beyond, Near, Starts
    <3>4. \A y, p, z : Comes(u, y, p, z) <=> Comes(s, y, p, z)
      BY <1>1 DEF Comes
    <3> QED
      BY <3>3, <3>4 DEF NextFirst
  <2>5. 0 <= AStart(u) /\ AStart(u) + u.left["a"] + u.left["b"] <= n
    <3>1. u.left["a"] >= 1 /\ u.left["b"] >= 1
      BY <1>1
    <3> QED
      BY ONLY <1>0, <1>1, <1>5, <3>1, RestRises
  <2>6. MayTake(e, q, one)
    <3>1. q = Other(r) /\ u.left[q] >= 1
      BY <2>2
    <3> QED
      BY ONLY <1>0, <1>1, <1>2, <1>3, <1>5, <2>4, <2>5, <3>1, TakeTwice
  <2> QED
    BY <2>1, <2>3, <2>6
<1>8. Laid(t, n)
  BY <1>3, <1>6, ExitLaid
<1>9. Settles(v, first, f, l) /\ Stays(View(t), View(v), n, f, l)
  <2>1. t.mode # "none" => one \in 0..t.left[q] /\ MayTake(t, q, one)
    BY <1>7
  <2> QED
    BY ONLY <1>0, <1>3, <1>4, <1>5, <1>8, <2>1, ThenOrders
<1> QED
  BY <1>1, <1>4, <1>9, StaysAgain

-----------------------------------------------------------------------------
\* The straightforward loop keeps the order.
LEMMA OneOrders ==
    ASSUME NEW n \in Nat, NEW s, Laid(s, n), s.mode # "none",
           NEW first, NEW f \in Int, NEW l \in Int, f >= 1, l <= n, Ahead(s, first, f, l),
           NEW r \in Runs, NEW one, one \in 0..s.left[r], MayTake(s, r, one),
           NEW t, t = Take(s, r, one), NEW w \in [Runs -> Int],
           NEW x \in {"one", "gallopA", "gallopB"}, NEW u, Marked(t, x, w, u)
    PROVE  Settles(Exit(u), first, f, l) /\ Stays(View(s), View(Exit(u)), n, f, l)
<1>0. n \in Nat /\ f \in Int /\ l \in Int /\ f >= 1 /\ l <= n /\ r \in Runs /\ Laid(s, n)
      /\ Ahead(s, first, f, l) /\ one \in 0..s.left[r] /\ MayTake(s, r, one)
      /\ t = Take(s, r, one) /\ w \in [Runs -> Int] /\ Marked(t, x, w, u)
      /\ x \in {"one", "gallopA", "gallopB"}
  OBVIOUS
<1>1. Laid(t, n)
  BY ONLY <1>0, TakeMoves
<1>2. Ahead(t, first, f, l) /\ Stays(View(s), View(t), n, f, l)
  BY ONLY <1>0, TakeOrders
<1>3. /\ Laid(u, n) /\ u.mode = x /\ View(u) = View(t)
      /\ Ahead(u, first, f, l) <=> Ahead(t, first, f, l)
  BY <1>1, MarkedView
<1>4. u.mode # "none"
  BY <1>3
<1>5. Settles(Exit(u), first, f, l) /\ Stays(View(u), View(Exit(u)), n, f, l)
  BY <1>2, <1>3, <1>4, ExitOrders
<1> QED
  BY <1>2, <1>3, <1>5, StaysAgain

\* A merge that goes on in another mode is as settled.
LEMMA MarkedSettles ==
    ASSUME NEW n \in Nat, NEW s, Laid(s, n), s.mode # "none",
           NEW first, NEW f, NEW l, Settles(s, first, f, l),
           NEW x \in {"one", "gallopA", "gallopB"}, NEW w \in [Runs -> Int],
           NEW v, Marked(s, x, w, v)
    PROVE  Settles(v, first, f, l) /\ View(v) = View(s)
<1>1. /\ v.mode = x /\ View(v) = View(s)
      /\ Ahead(v, first, f, l) <=> Ahead(s, first, f, l)
  BY MarkedView
<1>2. v.mode # "none"
  BY <1>1
<1> QED
  BY <1>1, <1>2 DEF Settles

\* A merge starts with what its two searches have found.
LEMMA HoldOrders ==
    ASSUME NEW n, NEW room \in Nat, NEW base, NEW na, NEW mid, NEW nb,
           Adjacent(base, na, mid, nb, n), Sound(m, n, room), Live(m), ~Merging,
           NEW space \in Nat, (IF na <= nb THEN na ELSE nb) <= space,
           NEW first, NEW f \in Int, NEW l \in Int, f >= 1, l <= n,
           Merges(first, m.cells, f, l, base, na, nb, TRUE),
           Merges(first, m.cells, f, l, base, na, nb, FALSE)
    PROVE  /\ Settles(HoldShorter(base, na, mid, nb), first, f, l)
           /\ Stays(m.cells, View(HoldShorter(base, na, mid, nb)), n, f, l)
<1> DEFINE s == IF na <= nb THEN HeldA(base, na, mid, nb) ELSE HeldB(base, na, mid, nb)
           o == IF na <= nb THEN "b" ELSE "a"
           one == 1
           t == Take(s, o, one)
           c == m.cells
<1>1. /\ Sound(s, n, space) /\ s.mode = "one" /\ s.left["a"] = na /\ s.left["b"] = nb
      /\ s.held = (IF na <= nb THEN "a" ELSE "b")
      /\ s.dest = IF na <= nb THEN base ELSE mid + nb - 1
      /\ \A i \in 1..n : View(s)[i] = c[i]
  <2> HIDE DEF s
  <2> QED
    BY HeldSound DEF s
<1>2. HoldShorter(base, na, mid, nb) = Exit(t)
  BY DEF HoldShorter, HeldA, HeldB
<1>3. /\ n \in Nat /\ base \in Nat /\ na \in Nat /\ nb \in Nat /\ na >= 1 /\ nb >= 1
      /\ mid = base + na /\ f \in Int /\ l \in Int /\ f >= 1 /\ l <= n
      /\ f - 1 <= base /\ base + na + nb <= l
  BY DEF Adjacent, Merges
<1>4. o \in Runs /\ o \in {"a", "b"} /\ t = Take(s, o, one) /\ one = 1
  BY DEF Runs
<1> HIDE DEF s, o, t, one, c
<1>5. Laid(s, n) /\ (Forward(s) <=> na <= nb) /\ Forward(s) \in BOOLEAN /\ AStart(s) = base
  <2>1. Forward(s) <=> na <= nb
    BY <1>1 DEF Forward
  <2>2. AStart(s) = base
    BY <1>1, <1>3, <2>1 DEF AStart
  <2>3. Forward(s) \in BOOLEAN
    BY DEF Forward
  <2> QED
    BY <1>1, <2>1, <2>2, <2>3 DEF Sound
<1>6. Merges(first, c, f, l, base, na, nb, TRUE) /\ Merges(first, c, f, l, base, na, nb, FALSE)
  BY DEF c
<1>7. \A i \in f..l : View(s)[i] = c[i]
  BY <1>1, <1>3
<1>8. Ahead(s, first, f, l)
  <2> DEFINE d == View(s)  forward == Forward(s)
  <2>1. Merges(first, c, f, l, base, na, nb, forward)
    <3>1. forward = TRUE \/ forward = FALSE
      BY <1>5
    <3> HIDE DEF forward
    <3> QED
      BY <1>6, <3>1
  <2>2. \A i \in f..l : d[i] = c[i]
    BY <1>7
  <2>3. forward \in BOOLEAN
    BY <1>5
  <2> HIDE DEF d, forward
  <2>4. Merges(first, d, f, l, base, na, nb, forward)
    BY <1>3, <2>1, <2>2, <2>3, MergesSame
  <2> QED
    BY <1>1, <1>5, <2>4 DEF Ahead, d, forward
<1>9. MayTake(s, o, one)
  <2>1. /\ Rest(s, "a") = base + 1 .. base + na
        /\ Rest(s, "b") = base + na + 1 .. base + na + nb
    BY <1>1, <1>5 DEF Rest, Starts
  <2>2. /\ \A q \in base + na + 1 .. base + na + nb : c[q].key < c[base + na].key
        /\ \A p \in base + 1 .. base + na : c[base + na + 1].key < c[p].key
    BY <1>3, <1>6 DEF Merges
  <2>3. /\ \A p \in base + 1 .. base + na : View(s)[p] = c[p]
        /\ \A q \in base + na + 1 .. base + na + nb : View(s)[q] = c[q]
        /\ View(s)[base + na] = c[base + na] /\ View(s)[base + na + 1] = c[base + na + 1]
    BY <1>3, <1>7
  <2>4. CASE na <= nb
    <3>1. o = "b" /\ s.held = "a" /\ Nearest(s, "b", one) = base + na + 1 .. base + na + 1
      BY <1>1, <1>4, <1>5, <2>4 DEF o, Nearest, Starts
    <3>2. \A q \in base + na + 1 .. base + na + 1 : q = base + na + 1
      BY <1>3
    <3>3. \A p \in Rest(s, "a"), q \in Nearest(s, "b", one) : View(s)[q].key < View(s)[p].key
      BY <2>1, <2>2, <2>3, <3>1, <3>2
    <3> QED
      BY <3>1, <3>3 DEF MayTake, Comes
  <2>5. CASE ~(na <= nb)
    <3>1. o = "a" /\ s.held = "b" /\ ~Forward(s)
      BY <1>1, <1>5, <2>5 DEF o
    <3>2. base + na - one + 1 = base + na
      BY <1>3, <1>4
    <3>3. Nearest(s, "a", one) = base + na .. base + na
      BY <1>1, <1>5, <3>1, <3>2 DEF Nearest, Starts
    <3>4. \A q \in base + na .. base + na : q = base + na
      BY <1>3
    <3>5. \A p \in Nearest(s, "a", one), q \in Rest(s, "b") : View(s)[q].key < View(s)[p].key
      BY <2>1, <2>2, <2>3, <3>3, <3>4
    <3> QED
      BY <3>1, <3>5 DEF MayTake, Comes
  <2> QED
    BY <2>4, <2>5
<1>10. one \in 0..s.left[o]
  BY <1>1, <1>3, <1>4
<1>11. Laid(t, n) /\ t.mode = s.mode
  <2>1. n \in Nat /\ Laid(s, n) /\ o \in Runs /\ one \in 0..s.left[o] /\ t = Take(s, o, one)
    BY <1>3, <1>4, <1>5, <1>10
  <2> QED
    BY ONLY <2>1, TakeMoves
<1>12. Ahead(t, first, f, l) /\ Stays(View(s), View(t), n, f, l)
  BY ONLY <1>3, <1>4, <1>5, <1>8, <1>9, <1>10, TakeOrders
<1>13. t.mode # "none"
  BY <1>1, <1>11
<1>14. Settles(Exit(t), first, f, l) /\ Stays(View(t), View(Exit(t)), n, f, l)
  BY <1>3, <1>11, <1>12, <1>13, ExitOrders
<1>15. Stays(c, View(s), n, f, l)
  BY <1>1, <1>3, StaysSame
<1> QED
  BY <1>2, <1>12, <1>14, <1>15, StaysAgain DEF c

-----------------------------------------------------------------------------
\* The runs lie behind one another, among the first items.
Stacked(runs, from, n) ==
    /\ runs \in Seq(Run) /\ from \in Nat /\ n \in Nat /\ from <= n
    /\ \A j \in 1..Len(runs) : runs[j].base + runs[j].len <= from
    /\ \A j, k \in 1..Len(runs) : j < k => runs[j].base + runs[j].len <= runs[k].base

\* What a stack of runs can be read for.
LEMMA StackedIs ==
    ASSUME NEW runs, NEW from, NEW n, Stacked(runs, from, n), NEW j \in 1..Len(runs)
    PROVE  /\ runs[j] \in Run /\ runs[j].base \in Nat /\ runs[j].len \in Nat
           /\ runs[j].base + runs[j].len \in Nat
           /\ runs[j].base + runs[j].len <= from /\ from \in Nat /\ n \in Nat /\ from <= n
<1>1. runs[j] \in Run /\ runs[j].base + runs[j].len <= from
  BY DEF Stacked
<1>2. runs[j].base \in Nat /\ runs[j].len \in Nat
  BY <1>1 DEF Run
<1>3. from \in Nat /\ n \in Nat /\ from <= n
  BY DEF Stacked
<1> QED
  BY <1>1, <1>2, <1>3

\* The pending runs do, since each lies next to the one before.
LEMMA PendingStacked ==
    ASSUME RunsInv
    PROVE  Stacked(pending, lo, N)
<1> DEFINE t == Len(pending)
           e(j) == pending[j].base + pending[j].len
<1>1. pending \in Seq(Run) /\ lo \in Nat /\ N \in Nat /\ lo <= N /\ t \in Nat
  <2>1. pending \in Seq(Run)
    BY DEF RunsInv, RunsTypeOK
  <2> QED
    BY <2>1, NIs DEF N
<1>2. \A j \in 1..t : pending[j].base \in Nat /\ pending[j].len \in Nat
  <2>1. \A j \in 1..t : pending[j] \in Run
    BY <1>1
  <2> QED
    BY <2>1 DEF Run
<1>3. \A j \in 1..t : j # 1 => pending[j].base = e(j - 1)
  BY DEF RunsInv, RunsAbut
<1>4. t # 0 => lo = e(t)
  <2>1. t # 0 => pending # <<>>
    BY <1>1
  <2> QED
    BY <2>1 DEF RunsInv, RunsAbut
<1>5. ASSUME NEW j \in 1..t, NEW k \in 1..t, j < k PROVE e(j) <= pending[k].base
  <2> DEFINE T == {i \in Nat : i \in 1..t /\ j < i /\ ~(e(j) <= pending[i].base)}
  <2>1. SUFFICES T = {}
    BY <1>5
  <2>2. ASSUME T # {} PROVE FALSE
    <3>1. T \in SUBSET Nat
      OBVIOUS
    <3> HIDE DEF T
    <3>2. PICK i \in T : \A y \in T : i <= y
      BY <2>2, <3>1, LeastNat
    <3>3. i \in 1..t /\ j < i /\ ~(e(j) <= pending[i].base)
      BY <3>2 DEF T
    <3> DEFINE h == i - 1
    <3>4. i # 1 /\ h \in 1..t /\ h \in Nat /\ h < i /\ (h = j \/ j < h)
      BY <1>1, <3>3
    <3>5. pending[i].base = e(h)
      BY <1>3, <3>3, <3>4
    <3>6. pending[h].base \in Nat /\ pending[h].len \in Nat /\ e(j) \in Nat
      BY <1>2, <3>4
    <3> HIDE DEF h
    <3>7. h \notin T
      BY <3>2, <3>3, <3>4
    <3>8. CASE h = j
      BY <3>3, <3>5, <3>6, <3>8
    <3>9. CASE j < h
      <4>1. e(j) <= pending[h].base
        BY <3>4, <3>7, <3>9 DEF T
      <4> QED
        BY <3>3, <3>5, <3>6, <4>1
    <3> QED
      BY <3>4, <3>8, <3>9
  <2> QED
    BY <2>2
<1>6. ASSUME NEW j \in 1..t PROVE e(j) <= lo
  <2>1. t # 0 /\ t \in 1..t
    BY <1>1
  <2>2. CASE j = t
    BY <1>1, <1>4, <2>1, <2>2
  <2>3. CASE j # t
    <3>1. e(j) <= pending[t].base
      BY <1>1, <1>5, <2>1, <2>3
    <3>2. pending[t].base \in Nat /\ pending[t].len \in Nat /\ e(j) \in Nat /\ lo = e(t)
      BY <1>2, <1>4, <2>1
    <3> QED
      BY <3>1, <3>2
  <2> QED
    BY <2>2, <2>3
<1> QED
  BY <1>1, <1>5, <1>6 DEF Stacked

\* The place that each item had is within the run that it is in now, or is
\* where it is if no run has it yet.
Extent(run) == run.base + 1 .. run.base + run.len
Kept(first, c, run) == \A p \in Extent(run) : first[c[p]] \in Extent(run)
Placed(first, c, runs, from, n) ==
    /\ \A i \in from + 1..n : first[c[i]] = i
    /\ \A j \in 1..Len(runs) : Kept(first, c, runs[j])

\* Each run is in order, but for the one of a merge.
Sorted(first, c, run) == InOrder(first, c, run.base + 1, run.base + run.len)
SettlesIn(s, first, run) == Settles(s, first, run.base + 1, run.base + run.len)
Tidy(s, first, runs) ==
    IF s.mode = "none" THEN \A j \in 1..Len(runs) : Sorted(first, View(s), runs[j])
    ELSE \E i \in 1..Len(runs) :
            /\ SettlesIn(s, first, runs[i])
            /\ \A j \in 1..Len(runs) : j # i => Sorted(first, View(s), runs[j])

\* Moving items within a run leaves the other runs as they were.
LEMMA StaysTidy ==
    ASSUME NEW runs, NEW from, NEW n, Stacked(runs, from, n), NEW i \in 1..Len(runs),
           NEW first, NEW c, NEW f, NEW l,
           f = runs[i].base + 1, l = runs[i].base + runs[i].len,
           \A j \in 1..Len(runs) : j # i => Sorted(first, c, runs[j]),
           Placed(first, c, runs, from, n),
           NEW t, Stays(c, View(t), n, f, l), Settles(t, first, f, l)
    PROVE  Tidy(t, first, runs) /\ Placed(first, View(t), runs, from, n)
<1> DEFINE d == View(t)
<1>1. /\ from \in Nat /\ n \in Nat /\ from <= n
      /\ f \in Int /\ l \in Int /\ l <= from /\ f >= 1
  BY StackedIs
<1>2. ASSUME NEW j \in 1..Len(runs), j # i
      PROVE  \A p \in Extent(runs[j]) : d[p] = c[p]
  <2> DEFINE x == runs[j].base
             y == x + runs[j].len
  <2>1. x \in Nat /\ y \in Nat /\ y <= from
    BY StackedIs
  <2>2. y < f \/ l <= x
    <3>1. j < i \/ i < j
      BY <1>2
    <3>2. runs[i].base \in Nat /\ runs[i].len \in Nat /\ runs[j].base \in Nat /\ runs[j].len \in Nat
      BY StackedIs
    <3>3. j < i => y <= runs[i].base
      BY DEF Stacked
    <3>4. i < j => l <= x
      BY DEF Stacked
    <3> QED
      BY <3>1, <3>2, <3>3, <3>4
  <2>3. Extent(runs[j]) = x + 1..y
    BY DEF Extent
  <2> HIDE DEF x, y
  <2>4. \A p \in x + 1..y : p \in 1..n /\ p \notin f..l
    BY <1>1, <2>1, <2>2
  <2> QED
    BY <2>3, <2>4 DEF Stays
<1>3. \A p \in from + 1..n : d[p] = c[p]
  <2>1. \A p \in from + 1..n : p \in 1..n /\ p \notin f..l
    BY <1>1
  <2> QED
    BY <2>1 DEF Stays
<1>4. Placed(first, d, runs, from, n)
  <2>1. ASSUME NEW j \in 1..Len(runs) PROVE Kept(first, d, runs[j])
    <3>1. CASE j # i
      <4>1. \A p \in Extent(runs[j]) : d[p] = c[p]
        BY <1>2, <3>1
      <4> HIDE DEF d
      <4> QED
        BY <4>1 DEF Kept, Placed
    <3>2. CASE j = i
      <4>1. Extent(runs[i]) = f..l
        BY DEF Extent
      <4>2. ASSUME NEW p \in f..l PROVE first[d[p]] \in f..l
        <5>1. PICK q \in f..l : d[p] = c[q]
          BY DEF Stays
        <5>2. first[c[q]] \in f..l
          BY <4>1 DEF Placed, Kept
        <5> QED
          BY <5>1, <5>2
      <4> QED
        BY <3>2, <4>1, <4>2 DEF Kept
    <3> QED
      BY <3>1, <3>2
  <2> QED
    BY <1>3, <2>1 DEF Placed
<1>5. ASSUME NEW j \in 1..Len(runs), j # i PROVE Sorted(first, d, runs[j])
  <2> DEFINE x == runs[j].base + 1
             y == runs[j].base + runs[j].len
  <2>1. x \in Int /\ y \in Int /\ \A p \in x..y : d[p] = c[p]
    <3>1. runs[j].base \in Nat /\ runs[j].len \in Nat
      BY <1>5, StackedIs
    <3>2. \A p \in Extent(runs[j]) : d[p] = c[p]
      BY <1>2, <1>5
    <3>3. x \in Int /\ y \in Int
      BY <3>1
    <3>4. Extent(runs[j]) = x..y
      BY DEF Extent
    <3> QED
      BY <3>2, <3>3, <3>4
  <2>2. InOrder(first, c, x, y)
    BY <1>5 DEF Sorted
  <2> HIDE DEF x, y, d
  <2>3. InOrder(first, d, x, y)
    BY <2>1, <2>2, InOrderSame
  <2> QED
    BY <2>3 DEF Sorted, x, y
<1>6. SettlesIn(t, first, runs[i])
  BY DEF SettlesIn
<1>7. CASE t.mode = "none"
  <2>1. Sorted(first, d, runs[i])
    BY <1>6, <1>7 DEF SettlesIn, Settles, Sorted
  <2>2. \A j \in 1..Len(runs) : Sorted(first, d, runs[j])
    BY <1>5, <2>1
  <2> QED
    BY <1>4, <1>7, <2>2 DEF Tidy
<1>8. CASE t.mode # "none"
  BY <1>4, <1>5, <1>6, <1>8 DEF Tidy
<1> QED
  BY <1>7, <1>8

-----------------------------------------------------------------------------
\* The items of one run were before those of the other.
Precede(first, c, f, y, l) == \A p \in f..y, q \in y + 1..l : first[c[p]] < first[c[q]]

\* What two runs have in common after the searches of merge_at: k items of
\* the first are not above the second's first, nb of the second are below
\* the first's last.
Overlap(first, c, x, la, lb, k, nb) ==
    LET f == x + 1
        y == x + la
        l == x + la + lb
    IN  /\ x \in Nat /\ la \in Nat \ {0} /\ lb \in Nat \ {0} /\ k \in 0..la /\ nb \in 0..lb
        /\ InOrder(first, c, f, y) /\ InOrder(first, c, y + 1, l)
        /\ Precede(first, c, f, y, l)
        /\ \A p \in f..l : Comparable(c[p])
        /\ \A p \in f..y : IF p <= x + k THEN c[p].key <= c[y + 1].key
                           ELSE c[y + 1].key < c[p].key
        /\ \A q \in y + 1..l : IF q <= y + nb THEN c[q].key < c[y].key
                               ELSE c[y].key <= c[q].key

\* Such runs are to be merged where they overlap.
LEMMA OverlapMerges ==
    ASSUME NEW first, NEW c, NEW x, NEW la, NEW lb, NEW k, NEW nb,
           Overlap(first, c, x, la, lb, k, nb),
           NEW f, f = x + 1, NEW l, l = x + la + lb, NEW base, base = x + k,
           NEW na, na = la - k, NEW forward \in BOOLEAN
    PROVE  Merges(first, c, f, l, base, na, nb, forward)
<1> DEFINE y == x + la
<1>0. /\ x \in Nat /\ la \in Nat \ {0} /\ lb \in Nat \ {0} /\ k \in 0..la /\ nb \in 0..lb
      /\ InOrder(first, c, f, y) /\ InOrder(first, c, y + 1, l)
      /\ \A p \in f..y, q \in y + 1..l : first[c[p]] < first[c[q]]
      /\ \A p \in f..l : Comparable(c[p])
      /\ \A p \in f..y : IF p <= x + k THEN c[p].key <= c[y + 1].key
                         ELSE c[y + 1].key < c[p].key
      /\ \A q \in y + 1..l : IF q <= y + nb THEN c[q].key < c[y].key
                             ELSE c[y].key <= c[q].key
  BY DEF Overlap, Precede
<1>y. y = x + la
  OBVIOUS
<1> HIDE DEF y
<1> USE <1>0
<1>1. /\ x \in Int /\ la \in Int /\ lb \in Int /\ k \in Nat /\ nb \in Nat /\ na \in Nat
      /\ y \in Int /\ l \in Int /\ f \in Int /\ base \in Int /\ la >= 1 /\ lb >= 1
      /\ f - 1 <= base /\ base + na = y /\ y + nb <= l
      /\ y \in f..y /\ y + 1 \in y + 1..l
  BY <1>y
<1>2. \A p \in f..l : c[p].key \in Int
  BY DEF Comparable
<1>3. \A q \in y + 1..l : q \in f..l /\ c[y + 1].key <= c[q].key
  <2> TAKE q \in y + 1..l
  <2>1. q \in f..l /\ y + 1 \in f..l /\ (q = y + 1 \/ y + 1 < q) /\ y + 1 \in y + 1..l
    BY <1>1
  <2>2. c[q].key \in Int /\ c[y + 1].key \in Int
    BY <1>2, <2>1
  <2>3. y + 1 < q => c[y + 1].key < c[q].key \/ c[y + 1].key = c[q].key
    BY <2>1 DEF InOrder, Before
  <2> QED
    BY <2>1, <2>2, <2>3
<1>4. \A p \in f..y : p \in f..l /\ c[p].key <= c[y].key
  <2> TAKE p \in f..y
  <2>1. p \in f..l /\ y \in f..l /\ (p = y \/ p < y) /\ y \in f..y
    BY <1>1
  <2>2. c[p].key \in Int /\ c[y].key \in Int
    BY <1>2, <2>1
  <2>3. p < y => c[p].key < c[y].key \/ c[p].key = c[y].key
    BY <2>1 DEF InOrder, Before
  <2> QED
    BY <2>1, <2>2, <2>3
<1>5. ASSUME NEW p \in f..l, NEW q \in f..l, p < q
      PROVE  \/ p \in base + 1..base + na /\ q \in base + na + 1..base + na + nb
             \/ Before(first, c[p], c[q])
  <2>1. CASE q <= y
    <3>1. p \in f..y /\ q \in f..y
      BY <1>1, <1>5, <2>1
    <3> QED
      BY <1>5, <3>1 DEF InOrder
  <2>2. CASE p > y
    <3>1. p \in y + 1..l /\ q \in y + 1..l
      BY <1>1, <1>5, <2>2
    <3> QED
      BY <1>5, <3>1 DEF InOrder
  <2>3. CASE p <= y /\ q > y
    <3>1. p \in f..y /\ q \in y + 1..l
      BY <1>1, <2>3
    <3>2. first[c[p]] < first[c[q]] /\ Comparable(c[p]) /\ Comparable(c[q])
      BY <3>1
    <3>3. c[p].key <= c[y].key /\ c[y + 1].key <= c[q].key
      BY <1>3, <1>4, <3>1
    <3>4. c[p].key \in Int /\ c[q].key \in Int /\ c[y].key \in Int /\ c[y + 1].key \in Int
      <4>1. y \in f..l /\ y + 1 \in f..l
        BY <1>1
      <4> QED
        BY <1>2, <4>1
    <3>5. CASE p <= x + k
      <4>1. c[p].key <= c[y + 1].key
        BY <3>1, <3>5
      <4>2. c[p].key < c[q].key \/ c[p].key = c[q].key
        BY <3>3, <3>4, <4>1
      <4> QED
        BY <3>2, <4>2 DEF Before
    <3>6. CASE ~(q <= y + nb)
      <4>1. c[y].key <= c[q].key
        BY <3>1, <3>6
      <4>2. c[p].key < c[q].key \/ c[p].key = c[q].key
        BY <3>3, <3>4, <4>1
      <4> QED
        BY <3>2, <4>2 DEF Before
    <3>7. CASE ~(p <= x + k) /\ q <= y + nb
      <4>1. p \in base + 1..base + na /\ q \in base + na + 1..base + na + nb
        BY <1>1, <3>1, <3>7
      <4> QED
        BY <4>1
    <3> QED
      BY <3>5, <3>6, <3>7
  <2>4. q <= y \/ p > y \/ (p <= y /\ q > y)
    BY <1>1
  <2> QED
    BY <2>1, <2>2, <2>3, <2>4
<1>6. ASSUME NEW p \in base + 1..base + na, NEW q \in base + na + 1..base + na + nb
      PROVE  /\ Comparable(c[p]) /\ Comparable(c[q]) /\ first[c[p]] < first[c[q]]
             /\ c[y + 1].key < c[p].key /\ c[q].key < c[y].key
  <2>1. p \in f..y /\ q \in y + 1..l /\ ~(p <= x + k) /\ q <= y + nb
    BY <1>1
  <2>2. c[y + 1].key < c[p].key /\ c[q].key < c[y].key
    BY <2>1
  <2>3. Comparable(c[p]) /\ Comparable(c[q])
    BY <1>3, <1>4, <2>1
  <2> QED
    BY <2>1, <2>2, <2>3
<1>7. \A q \in base + na + 1..base + na + nb : na > 0 => c[q].key < c[base + na].key
  <2> TAKE q \in base + na + 1..base + na + nb
  <2>1. q \in y + 1..l /\ q <= y + nb
    BY <1>1
  <2>2. c[q].key < c[y].key
    BY <2>1
  <2> QED
    BY <1>1, <2>2
<1>8. \A p \in base + 1..base + na : c[base + na + 1].key < c[p].key
  <2> TAKE p \in base + 1..base + na
  <2>1. p \in f..y /\ ~(p <= x + k)
    BY <1>1
  <2>2. c[y + 1].key < c[p].key
    BY <2>1
  <2> QED
    BY <1>1, <2>2
<1>9. base + na + nb <= l
  BY <1>1
<1> QED
  BY <1>1, <1>5, <1>6, <1>7, <1>8, <1>9 DEF Merges

\* Items of which each belongs before the next ones rise.
LEMMA OrderRises ==
    ASSUME NEW first, NEW c, NEW x \in Int, NEW n \in Nat, InOrder(first, c, x + 1, x + n),
           NEW items, \A j \in 0..n - 1 : items[j] = c[x + j + 1]
    PROVE  Rising(items, n)
<1>1. ASSUME NEW i \in 0..n - 1, NEW j \in 0..n - 1, i < j
      PROVE  /\ Comparable(items[i]) /\ Comparable(items[j]) /\ items[i].key <= items[j].key
  <2>1. x + i + 1 \in x + 1..x + n /\ x + j + 1 \in x + 1..x + n /\ x + i + 1 < x + j + 1
    BY <1>1
  <2>2. Before(first, items[i], items[j])
    BY <2>1 DEF InOrder
  <2>3. items[i].key \in Int /\ items[j].key \in Int
    BY <2>2 DEF Before, Comparable
  <2> QED
    BY <2>2, <2>3 DEF Before
<1> QED
  BY <1>1 DEF Rising

\* What the searches of merge_at find, if they do not fail.  Where the first
\* takes all of the first run, there is no second one.
SearchesFind(c, x, la, y, lb, k, nb) ==
    LET A == [p \in 0..la - 1 |-> c[x + p + 1]]
        B == [p \in 0..lb - 1 |-> c[y + p + 1]]
    IN  /\ k = PlaceRight(B[0], A, la, 0) /\ k # -1
        /\ \/ k = la /\ nb = 0
           \/ nb = PlaceLeft(A[la - 1], B, lb, lb - 1) /\ nb # -1

\* What they tell of two runs.
LEMMA SearchesTell ==
    ASSUME NEW first, NEW c, NEW x \in Nat, NEW la \in Nat \ {0}, NEW lb \in Nat \ {0},
           NEW y, y = x + la, NEW l, l = y + lb, NEW f, f = x + 1,
           InOrder(first, c, f, y), InOrder(first, c, y + 1, l),
           Precede(first, c, f, y, l), \A p \in f..l : Plain(c[p]),
           NEW k, NEW nb, SearchesFind(c, x, la, y, lb, k, nb),
           NEW forward \in BOOLEAN, NEW na, na = la - k, NEW base, base = x + k
    PROVE  Merges(first, c, f, l, base, na, nb, forward)
<1> DEFINE A == [p \in 0..la - 1 |-> c[x + p + 1]]
           B == [p \in 0..lb - 1 |-> c[y + p + 1]]
<1>0. /\ A = [p \in 0..la - 1 |-> c[x + p + 1]]
      /\ B = [p \in 0..lb - 1 |-> c[y + p + 1]]
      /\ k = PlaceRight(B[0], A, la, 0) /\ k # -1
      /\ (k = la /\ nb = 0) \/ (nb = PlaceLeft(A[la - 1], B, lb, lb - 1) /\ nb # -1)
  BY DEF SearchesFind
<1> HIDE DEF A, B
<1>1. /\ x \in Int /\ la \in Nat /\ lb \in Nat /\ la >= 1 /\ lb >= 1
      /\ y \in Int /\ l \in Int /\ f \in Int
  OBVIOUS
<1>2. /\ \A j \in 0..la - 1 : A[j] = c[x + j + 1] /\ x + j + 1 \in f..l
      /\ \A j \in 0..lb - 1 : B[j] = c[y + j + 1] /\ y + j + 1 \in f..l
  BY <1>0, <1>1
<1>3. /\ \A j \in 0..la - 1 : Plain(A[j])
      /\ \A j \in 0..lb - 1 : Plain(B[j])
  BY <1>2
<1>4. Rising(A, la) /\ Rising(B, lb)
  <2>1. InOrder(first, c, x + 1, x + la) /\ \A j \in 0..la - 1 : A[j] = c[x + j + 1]
    BY <1>2
  <2>2. InOrder(first, c, y + 1, y + lb) /\ \A j \in 0..lb - 1 : B[j] = c[y + j + 1]
    BY <1>2
  <2>3. Rising(A, la)
    <3>1. x \in Int /\ la \in Nat
      BY <1>1
    <3> QED
      BY ONLY <2>1, <3>1, OrderRises
  <2>4. Rising(B, lb)
    <3>1. y \in Int /\ lb \in Nat
      BY <1>1
    <3> QED
      BY ONLY <2>2, <3>1, OrderRises
  <2> QED
    BY <2>3, <2>4
<1> DEFINE u == B[0]
           v == A[la - 1]
           h == 0
           g == lb - 1
<1>5. /\ Plain(u) /\ Plain(v) /\ h \in 0..la - 1 /\ g \in 0..lb - 1
      /\ k = PlaceRight(u, A, la, h)
      /\ (k = la /\ nb = 0) \/ (nb = PlaceLeft(v, B, lb, g) /\ nb # -1)
      /\ u = c[y + 1] /\ v = c[y]
  <2>1. 0 \in 0..lb - 1 /\ la - 1 \in 0..la - 1 /\ 0 \in 0..la - 1 /\ lb - 1 \in 0..lb - 1
    BY <1>1
  <2>2. y + 0 + 1 = y + 1 /\ x + (la - 1) + 1 = y
    BY <1>1
  <2> QED
    BY <1>0, <1>2, <1>3, <2>1, <2>2
<1> HIDE DEF u, v, h, g
<1>6. /\ k \in 0..la /\ Comparable(u) /\ \A j \in 0..la - 1 : Comparable(A[j])
      /\ \A j \in 0..la - 1 : IF j < k THEN A[j].key <= u.key ELSE u.key < A[j].key
  <2>1. \A j \in 0..la - 1 : Plain(A[j])
    BY <1>3
  <2>2. k # -1
    BY <1>0
  <2> QED
    BY ONLY <1>1, <1>4, <1>5, <2>1, <2>2, PlaceRightFinds
<1>7. \A j \in 0..lb - 1 : Comparable(B[j]) /\ u.key <= B[j].key
  <2> TAKE j \in 0..lb - 1
  <2>0. 0 \in 0..lb - 1 /\ (j = 0 \/ 0 < j)
    BY <1>1
  <2>1. CASE j = 0
    <3>1. B[j] = u
      BY <2>1 DEF u
    <3> QED
      BY <1>6, <3>1 DEF Comparable
  <2>2. CASE 0 < j
    <3>1. Comparable(B[0]) /\ Comparable(B[j]) /\ B[0].key <= B[j].key
      BY <1>4, <2>0, <2>2 DEF Rising
    <3> QED
      BY <3>1 DEF u
  <2> QED
    BY <2>0, <2>1, <2>2
<1>8. /\ nb \in 0..lb
      /\ \A j \in 0..lb - 1 : IF j < nb THEN B[j].key < v.key ELSE v.key <= B[j].key
  <2>1. CASE nb = PlaceLeft(v, B, lb, g) /\ nb # -1
    <3>1. \A j \in 0..lb - 1 : Plain(B[j])
      BY <1>3
    <3> QED
      BY ONLY <1>1, <1>4, <1>5, <2>1, <3>1, PlaceLeftFinds
  <2>2. CASE k = la /\ nb = 0
    <3>1. la - 1 \in 0..la - 1 /\ la - 1 < k
      BY <1>1, <2>2
    <3>2. v.key <= u.key /\ v.key \in Int /\ u.key \in Int
      BY <1>6, <3>1 DEF v, Comparable
    <3>3. ASSUME NEW j \in 0..lb - 1 PROVE ~(j < nb) /\ v.key <= B[j].key
      <4>1. B[j].key \in Int /\ u.key <= B[j].key
        BY <1>7 DEF Comparable
      <4>2. ~(j < nb)
        BY <2>2
      <4>3. v.key <= B[j].key
        BY ONLY <3>2, <4>1
      <4> QED
        BY <4>2, <4>3
    <3>4. nb \in 0..lb
      BY <1>1, <2>2
    <3> QED
      BY <3>3, <3>4
  <2> QED
    BY <1>5, <2>1, <2>2
<1>9. \A p \in f..l : Comparable(c[p])
  <2> TAKE p \in f..l
  <2>1. CASE p <= y
    <3> DEFINE j == p - x - 1
    <3>1. j \in 0..la - 1 /\ x + j + 1 = p
      BY <1>1, <2>1
    <3> HIDE DEF j
    <3> QED
      BY <1>2, <1>6, <3>1
  <2>2. CASE ~(p <= y)
    <3> DEFINE j == p - y - 1
    <3>1. j \in 0..lb - 1 /\ y + j + 1 = p
      BY <1>1, <2>2
    <3> HIDE DEF j
    <3> QED
      BY <1>2, <1>7, <3>1
  <2> QED
    BY <2>1, <2>2
<1>10. \A p \in f..y : IF p <= x + k THEN c[p].key <= c[y + 1].key
                       ELSE c[y + 1].key < c[p].key
  <2> TAKE p \in f..y
  <2> DEFINE j == p - x - 1
  <2>1. j \in 0..la - 1 /\ x + j + 1 = p /\ (j < k <=> p <= x + k)
    BY <1>1, <1>6
  <2> HIDE DEF j
  <2>2. A[j] = c[p]
    BY <1>2, <2>1
  <2> QED
    BY <1>5, <1>6, <2>1, <2>2
<1>11. \A q \in y + 1..l : IF q <= y + nb THEN c[q].key < c[y].key
                           ELSE c[y].key <= c[q].key
  <2> TAKE q \in y + 1..l
  <2> DEFINE j == q - y - 1
  <2>1. j \in 0..lb - 1 /\ y + j + 1 = q /\ (j < nb <=> q <= y + nb)
    BY <1>1, <1>8
  <2> HIDE DEF j
  <2>2. B[j] = c[q]
    BY <1>2, <2>1
  <2> QED
    BY <1>5, <1>8, <2>1, <2>2
<1>12. k \in 0..la /\ nb \in 0..lb
  BY <1>6, <1>8
<1>13. /\ x \in Nat /\ la \in Nat \ {0} /\ lb \in Nat \ {0}
       /\ y = x + la /\ l = y + lb /\ f = x + 1 /\ na = la - k /\ base = x + k
       /\ InOrder(first, c, f, y) /\ InOrder(first, c, y + 1, l) /\ forward \in BOOLEAN
       /\ Precede(first, c, f, y, l)
  OBVIOUS
<1>14. l = x + la + lb
  OBVIOUS
<1>15. Overlap(first, c, x, la, lb, k, nb)
  BY <1>9, <1>10, <1>11, <1>12, <1>13 DEF Overlap
<1> QED
  BY ONLY <1>13, <1>14, <1>15, OverlapMerges

-----------------------------------------------------------------------------
\* Where the sort found each item: its place in the list, or that from the
\* end if the list is sorted in reverse.
Origin == [c \in Cell |-> IF reverse THEN N + 1 - c.item ELSE c.item]

\* No key is NaN.
AllPlain == \A x \in Contents(m) : Plain(x)

\* The invariant of the order, of lists without NaN.  Until the sort ends,
\* each run is in order but for the two parts that a merge has still to join,
\* and holds the items of its own places, while the others are in their own.
OrderInv ==
    /\ result = "ok" => phase = "done"
    /\ AllPlain =>
        /\ phase # "done" =>
            /\ Tidy(m, Origin, pending)
            /\ Placed(Origin, View(m), pending, lo, N)
        /\ result = "ok" => \A i \in 1..N - 1 : Ordered(m.cells[i], m.cells[i + 1])

\* Places are numbers.
LEMMA OriginIs ==
    ASSUME RunsInv
    PROVE  Origin \in [Cell -> Int]
<1>1. N \in Int /\ \A c \in Cell : c.item \in Int
  BY NIs DEF Cell
<1> QED
  BY <1>1 DEF Origin

\* A sort that fails promises no order.
LEMMA FailsOrders ==
    ASSUME NEW cells, NEW r, r # "ok", Fails(cells, r)
    PROVE  OrderInv'
<1>1. phase' = "done" /\ result' = r
  BY DEF Fails, SortGivesUp, EndSort, Returned
<1> QED
  BY <1>1 DEF OrderInv

\* A step that does not end the sort leaves the runs tidy.
LEMMA StepOrders ==
    ASSUME SortInv, OrderInv, phase # "done", Contents(m') = Contents(m),
           N' = N, reverse' = reverse, result' = result,
           AllPlain => /\ Tidy(m', Origin, pending')
                       /\ Placed(Origin, View(m'), pending', lo', N)
    PROVE  OrderInv'
<1>1. result' # "ok"
  BY DEF OrderInv
<1>2. Origin' = Origin
  BY DEF Origin
<1>3. AllPlain' <=> AllPlain
  BY DEF AllPlain
<1>4. AllPlain' => /\ Tidy(m', Origin', pending')
                   /\ Placed(Origin', View(m'), pending', lo', N')
  BY <1>2, <1>3
<1> QED
  BY <1>1, <1>4 DEF OrderInv

\* A step of a merge settles what the merge has still to do.
GoesOn(s, v, first, n) ==
    \A f, l \in Int : (f >= 1 /\ l <= n /\ Ahead(s, first, f, l)) =>
        Settles(v, first, f, l) /\ Stays(View(s), View(v), n, f, l)

\* So it leaves the runs tidy.
LEMMA MergeOrders ==
    ASSUME SortInv, OrderInv, Merging, NEW v, Proceeds(v), Contents(m') = Contents(m),
           AllPlain => GoesOn(m, v, Origin, N)
    PROVE  OrderInv'
<1>1. /\ m' = v /\ lo' = lo /\ nremaining' = nremaining /\ pending' = pending
      /\ reverse' = reverse /\ result' = result
  BY DEF Proceeds, runVars
<1>2. N' = N /\ phase # "done" /\ RunsInv
  BY <1>1 DEF N, SortInv
<1>3. ASSUME AllPlain
      PROVE  Tidy(v, Origin, pending) /\ Placed(Origin, View(v), pending, lo, N)
  <2> DEFINE runs == pending  from == lo  n == N  first == Origin  c == View(m)
  <2>1. Tidy(m, first, runs) /\ Placed(first, c, runs, from, n)
    BY <1>2, <1>3 DEF OrderInv
  <2>2. PICK i \in 1..Len(runs) :
            /\ SettlesIn(m, first, runs[i])
            /\ \A j \in 1..Len(runs) : j # i => Sorted(first, c, runs[j])
    BY <2>1 DEF Tidy, Merging
  <2> DEFINE f == runs[i].base + 1
             l == runs[i].base + runs[i].len
  <2>3. Stacked(runs, from, n)
    BY <1>2, PendingStacked
  <2> HIDE DEF runs, from, n, first
  <2>4. f \in Int /\ l \in Int /\ f >= 1 /\ l <= n
    <3> DEFINE x == runs[i].base  y == runs[i].len
    <3>1. /\ x \in Nat /\ y \in Nat /\ x + y \in Nat /\ x + y <= from
          /\ from \in Nat /\ n \in Nat /\ from <= n
      BY <2>3, StackedIs
    <3> HIDE DEF x, y
    <3> QED
      BY <3>1 DEF x, y
  <2>5. Ahead(m, first, f, l)
    BY <2>2 DEF SettlesIn, Settles, Merging
  <2>6. GoesOn(m, v, first, n)
    BY <1>3 DEF first, n
  <2>7. f = runs[i].base + 1 /\ l = runs[i].base + runs[i].len
    OBVIOUS
  <2> HIDE DEF f, l, c
  <2>8. Settles(v, first, f, l) /\ Stays(c, View(v), n, f, l)
    BY <2>4, <2>5, <2>6 DEF GoesOn, c
  <2>9. Tidy(v, first, runs) /\ Placed(first, View(v), runs, from, n)
    BY ONLY <2>1, <2>2, <2>3, <2>7, <2>8, StaysTidy
  <2> QED
    BY <2>9 DEF runs, from, n, first
<1> QED
  BY <1>1, <1>2, <1>3, StepOrders

\* The items of a merge are those that are plain.
LEMMA PlainView ==
    ASSUME NEW n \in Nat, NEW s, Laid(s, n), \A x \in Contents(s) : Plain(x)
    PROVE  \A i \in 1..n : Plain(View(s)[i])
BY ViewIs

-----------------------------------------------------------------------------
\* MergeOne keeps the order.
LEMMA MergeOneOrders ==
    ASSUME SortInv, OrderInv, MergeOne, Contents(m') = Contents(m)
    PROVE  OrderInv'
<1> DEFINE k == Less(First(m, "b"), First(m, "a"))
           winner == IF k = 1 THEN Other(m.held) ELSE m.held
           t == Take(m, winner, 1)
           won == [r \in {"a", "b"} |-> IF r = winner THEN t.won[r] + 1 ELSE 0]
           u == [t EXCEPT !.won = won]
           s == Exit(u)
           gallops == s.mode # "none" /\ s.won[winner] >= gallopAt
           v == IF gallops THEN [s EXCEPT !.mode = "gallopA"] ELSE s
<1>1. /\ m.mode = "one"
      /\ \/ Fails(Flush(m).cells, "TypeError")
         \/ k # -1 /\ Proceeds(v)
  BY DEF MergeOne
<1>2. /\ N \in Nat /\ alloced \in Nat /\ Sound(m, N, alloced) /\ Live(m) /\ Laid(m, N)
      /\ m.held \in Runs /\ m.mode # "none" /\ Merging
  BY <1>1, NIs, MergeStateIs DEF SortInv, Room, Merging, Sound
<1>3. winner \in Runs /\ "a" \in Runs /\ "b" \in Runs
  BY <1>2, OtherIs DEF Runs
<1>4. winner = IF k = 1 THEN Other(m.held) ELSE m.held
  OBVIOUS
<1>5. k = Less(First(m, "b"), First(m, "a"))
  OBVIOUS
<1> HIDE DEF winner, k
<1>6. CASE Fails(Flush(m).cells, "TypeError")
  <2> DEFINE r == "TypeError"  cells == Flush(m).cells
  <2>1. r # "ok" /\ Fails(cells, r)
    BY <1>6
  <2> HIDE DEF r, cells
  <2> QED
    BY <2>1, FailsOrders
<1>7. CASE k # -1 /\ Proceeds(v)
  <2>1. ASSUME AllPlain PROVE GoesOn(m, v, Origin, N)
    <3> DEFINE first == Origin  n == N  a == m
    <3> SUFFICES ASSUME NEW f \in Int, NEW l \in Int, f >= 1, l <= n, Ahead(a, first, f, l)
                 PROVE  Settles(v, first, f, l) /\ Stays(View(a), View(v), n, f, l)
      BY DEF GoesOn
    <3> DEFINE one == 1  x == "one"
    <3>1. /\ a.left["a"] \in Nat /\ a.left["a"] >= 1
          /\ a.left["b"] \in Nat /\ a.left["b"] >= 1
          /\ a.left[winner] \in Nat /\ a.left[winner] >= 1
      BY <1>2, <1>3, LiveLeft
    <3>2. /\ n \in Nat /\ Laid(a, n) /\ a.mode # "none"
          /\ f \in Int /\ l \in Int /\ f >= 1 /\ l <= n
          /\ Ahead(a, first, f, l) /\ winner \in Runs /\ one = 1
          /\ one \in 0..a.left[winner] /\ x \in {"one", "gallopA", "gallopB"}
          /\ t = Take(a, winner, one)
          /\ k = Less(First(a, "b"), First(a, "a")) /\ k # -1
          /\ winner = IF k = 1 THEN Other(a.held) ELSE a.held
      BY <1>2, <1>3, <1>4, <1>5, <1>7, <3>1
    <3>3. \A i \in 1..n : Plain(View(a)[i])
      BY <1>2, <2>1, PlainView DEF AllPlain
    <3>m. t.mode = "one"
      <4> DEFINE one1 == 1
      <4>0. t = Take(m, winner, one1) /\ m \in MergeState /\ winner \in Runs /\ one1 \in Int
        BY <1>2, <1>3, MergeStateIs
      <4> HIDE DEF t, one1
      <4>1. t.mode = m.mode
        BY ONLY <4>0, TakeIs
      <4> QED
        BY <1>1, <4>1
    <3> HIDE DEF first, n, a, one, x, t, v
    <3>4. MayTake(a, winner, one)
      BY ONLY <3>1, <3>2, <3>3, WinnerTells
    <3>5. Laid(t, n)
      BY ONLY <3>2, TakeMoves
    <3>6. t \in MergeState /\ t.won \in [Runs -> Int]
      <4>1. t \in MergeState
        BY <3>2, <3>5, LaidIs
      <4> QED
        BY <4>1 DEF MergeState
    <3>7. won \in [Runs -> Int]
      <4>1. {"a", "b"} = Runs
        BY DEF Runs
      <4> QED
        BY <3>6, <4>1
    <3> HIDE DEF won
    <3>8. Marked(t, x, won, u)
      BY <3>6, <3>m DEF MergeState, Marked, x
    <3> HIDE DEF u
    <3>9. Settles(s, first, f, l) /\ Stays(View(a), View(s), n, f, l)
      <4>1. Settles(Exit(u), first, f, l) /\ Stays(View(a), View(Exit(u)), n, f, l)
        BY ONLY <3>2, <3>4, <3>7, <3>8, OneOrders
      <4> QED
        BY <4>1
    <3>10. Laid(s, n)
      <4>1. Laid(u, n)
        BY ONLY <3>2, <3>5, <3>7, <3>8, MarkedView
      <4> QED
        BY <3>2, <4>1, ExitLaid
    <3> HIDE DEF s
    <3>11. CASE gallops
      <4>1. s \in MergeState /\ s.won \in [Runs -> Int] /\ s.mode # "none"
        <5>1. s \in MergeState
          BY <3>2, <3>10, LaidIs
        <5> QED
          BY <3>11, <5>1 DEF MergeState
      <4> DEFINE y == "gallopA"  w == s.won
      <4>2. Marked(s, y, w, v) /\ w \in [Runs -> Int] /\ y \in {"one", "gallopA", "gallopB"}
        BY <3>11, <4>1 DEF MergeState, Marked, v
      <4> HIDE DEF y, w, gallops
      <4>3. Settles(v, first, f, l) /\ View(v) = View(s)
        BY ONLY <3>2, <3>9, <3>10, <4>1, <4>2, MarkedSettles
      <4> QED
        BY <3>9, <4>3
    <3>12. CASE ~gallops
      <4>1. v = s
        BY <3>12 DEF v
      <4> QED
        BY <3>9, <4>1
    <3> QED
      BY <3>11, <3>12
  <2> HIDE DEF v
  <2> QED
    BY <1>2, <1>7, <2>1, MergeOrders
<1> QED
  BY <1>1, <1>6, <1>7

\* GallopA keeps the order.
LEMMA GallopAOrders ==
    ASSUME SortInv, OrderInv, GallopA, Contents(m') = Contents(m)
    PROVE  OrderInv'
<1> DEFINE n == m.left["a"]
           items == [j \in 0..n - 1 |-> Nth(m, "a", j)]
           hint == IF Forward(m) THEN 0 ELSE n - 1
           p == PlaceRight(First(m, "b"), items, n, hint)
           k == IF Forward(m) THEN p ELSE n - p
           won == [m.won EXCEPT !["a"] = k]
           u == [m EXCEPT !.mode = "gallopB", !.won = won]
           v == Then(Then(u, "a", k), "b", 1)
<1>1. m.mode = "gallopA"
  BY DEF GallopA
<1>2. /\ N \in Nat /\ alloced \in Nat /\ Sound(m, N, alloced) /\ Live(m) /\ Laid(m, N)
      /\ m.mode # "none" /\ Merging
      /\ m \in MergeState /\ m.won \in [Runs -> Int]
  BY <1>1, NIs, MergeStateIs DEF SortInv, Room, Merging, Sound
<1>3. "a" \in Runs /\ "b" \in Runs /\ Other("a") = "b"
  BY DEF Runs, Other
<1>4. n \in Nat /\ n >= 1 /\ m.left["b"] \in Nat /\ m.left["b"] >= 1
  BY <1>2, <1>3, LiveLeft
<1>5. \/ Fails(Flush(m).cells, "TypeError")
      \/ p # -1 /\ Proceeds(v)
  <2>1. [m EXCEPT !.mode = "gallopB", !.won.a = k] = u
    OBVIOUS
  <2> HIDE DEF k, u
  <2> QED
    BY <2>1 DEF GallopA, u, k
<1>6. CASE Fails(Flush(m).cells, "TypeError")
  <2> DEFINE r == "TypeError"  cells == Flush(m).cells
  <2>1. r # "ok" /\ Fails(cells, r)
    BY <1>6
  <2> HIDE DEF r, cells
  <2> QED
    BY <2>1, FailsOrders
<1>7. CASE p # -1 /\ Proceeds(v)
  <2>1. ASSUME AllPlain PROVE GoesOn(m, v, Origin, N)
    <3> DEFINE first == Origin  l0 == N  a == m
    <3> SUFFICES ASSUME NEW f \in Int, NEW l \in Int, f >= 1, l <= l0, Ahead(a, first, f, l)
                 PROVE  Settles(v, first, f, l) /\ Stays(View(a), View(v), l0, f, l)
      BY DEF GoesOn
    <3> DEFINE r == "a"  q == "b"  x == "gallopB"
    <3>1. /\ l0 \in Nat /\ Laid(a, l0) /\ a.mode # "none" /\ f \in Int /\ l \in Int /\ f >= 1
          /\ l <= l0 /\ Ahead(a, first, f, l)
          /\ a.left["a"] \in Nat /\ a.left["a"] >= 1 /\ a.left["b"] \in Nat /\ a.left["b"] >= 1
      BY <1>2, <1>4
    <3>2. /\ n = a.left["a"] /\ n \in Nat /\ n >= 1
      BY <1>4
    <3>3. hint \in 0..n - 1
      BY <3>2
    <3>4. items = Items(a, "a")
      BY DEF Items
    <3> HIDE DEF hint, items
    <3>5. p = PlaceRight(First(a, "b"), Items(a, "a"), n, hint) /\ p # -1
      BY <1>7, <3>4
    <3> HIDE DEF p
    <3>6. k = IF Forward(a) THEN p ELSE n - p
      OBVIOUS
    <3> HIDE DEF k
    <3>7. \A i \in 1..l0 : Plain(View(a)[i])
      BY <1>2, <2>1, PlainView DEF AllPlain
    <3>8. v = Then(Then(u, r, k), q, 1)
      OBVIOUS
    <3> HIDE DEF v
    <3>9. Marked(m, "gallopB", won, u)
      BY DEF Marked
    <3> HIDE DEF u, n, a, first, l0
    <3>10. k \in 0..n /\ MayTake(a, "a", k) /\ NextFirst(a, "a", k)
      BY ONLY <3>1, <3>2, <3>3, <3>5, <3>6, <3>7, GallopATells
    <3>11. won \in [Runs -> Int]
      <4>1. k \in Int
        BY <3>2, <3>10
      <4> QED
        BY <1>2, <4>1
    <3> HIDE DEF won
    <3>12. /\ x \in {"one", "gallopA", "gallopB"} /\ Marked(a, x, won, u)
           /\ r \in Runs /\ q = Other(r) /\ k \in 0..a.left[r]
           /\ MayTake(a, r, k) /\ NextFirst(a, r, k)
      BY <1>3, <3>2, <3>9, <3>10 DEF a
    <3> HIDE DEF r, q, x
    <3> QED
      BY ONLY <3>1, <3>8, <3>11, <3>12, GallopOrders
  <2> HIDE DEF v
  <2> QED
    BY <1>2, <1>7, <2>1, MergeOrders
<1> QED
  BY <1>5, <1>6, <1>7

\* GallopB keeps the order.
LEMMA GallopBOrders ==
    ASSUME SortInv, OrderInv, GallopB, Contents(m') = Contents(m)
    PROVE  OrderInv'
<1> DEFINE n == m.left["b"]
           items == [j \in 0..n - 1 |-> Nth(m, "b", j)]
           hint == IF Forward(m) THEN 0 ELSE n - 1
           p == PlaceLeft(First(m, "a"), items, n, hint)
           k == IF Forward(m) THEN p ELSE n - p
           again == m.won["a"] >= MinGallop \/ k >= MinGallop
           mode == IF again THEN "gallopA" ELSE "one"
           won == [a |-> 0, b |-> 0]
           u == [m EXCEPT !.mode = mode, !.won = won]
           v == Then(Then(u, "b", k), "a", 1)
<1>1. m.mode = "gallopB"
  BY DEF GallopB
<1>2. /\ N \in Nat /\ alloced \in Nat /\ Sound(m, N, alloced) /\ Live(m) /\ Laid(m, N)
      /\ m.mode # "none" /\ Merging
  BY <1>1, NIs DEF SortInv, Room, Merging, Sound
<1>3. "a" \in Runs /\ "b" \in Runs /\ Other("b") = "a" /\ won \in [Runs -> Int]
  BY DEF Runs, Other
<1>4. n \in Nat /\ n >= 1 /\ m.left["a"] \in Nat /\ m.left["a"] >= 1
  BY <1>2, <1>3, LiveLeft
<1>5. \/ Fails(Flush(m).cells, "TypeError")
      \/ p # -1 /\ Proceeds(v)
  BY DEF GallopB
<1>6. CASE Fails(Flush(m).cells, "TypeError")
  <2> DEFINE r == "TypeError"  cells == Flush(m).cells
  <2>1. r # "ok" /\ Fails(cells, r)
    BY <1>6
  <2> HIDE DEF r, cells
  <2> QED
    BY <2>1, FailsOrders
<1>7. CASE p # -1 /\ Proceeds(v)
  <2>1. ASSUME AllPlain PROVE GoesOn(m, v, Origin, N)
    <3> DEFINE first == Origin  l0 == N  a == m
    <3> SUFFICES ASSUME NEW f \in Int, NEW l \in Int, f >= 1, l <= l0, Ahead(a, first, f, l)
                 PROVE  Settles(v, first, f, l) /\ Stays(View(a), View(v), l0, f, l)
      BY DEF GoesOn
    <3> DEFINE r == "b"  q == "a"
    <3>1. /\ l0 \in Nat /\ Laid(a, l0) /\ a.mode # "none" /\ f \in Int /\ l \in Int /\ f >= 1
          /\ l <= l0 /\ Ahead(a, first, f, l)
          /\ a.left["a"] \in Nat /\ a.left["a"] >= 1 /\ a.left["b"] \in Nat /\ a.left["b"] >= 1
      BY <1>2, <1>4
    <3>2. n = a.left["b"] /\ n \in Nat /\ n >= 1
      BY <1>4
    <3>3. hint \in 0..n - 1
      BY <3>2
    <3>4. items = Items(a, "b")
      BY DEF Items
    <3> HIDE DEF hint, items
    <3>5. p = PlaceLeft(First(a, "a"), Items(a, "b"), n, hint) /\ p # -1
      BY <1>7, <3>4
    <3> HIDE DEF p
    <3>6. k = IF Forward(a) THEN p ELSE n - p
      OBVIOUS
    <3> HIDE DEF k
    <3>7. \A i \in 1..l0 : Plain(View(a)[i])
      BY <1>2, <2>1, PlainView DEF AllPlain
    <3>8. v = Then(Then(u, r, k), q, 1)
      OBVIOUS
    <3> HIDE DEF v
    <3>9. mode \in {"one", "gallopA", "gallopB"} /\ won \in [Runs -> Int]
      BY <1>3
    <3> HIDE DEF mode
    <3>10. Marked(m, mode, won, u)
      BY DEF Marked
    <3> HIDE DEF u, n, a, first, l0, won
    <3>11. k \in 0..n /\ MayTake(a, "b", k) /\ NextFirst(a, "b", k)
      BY ONLY <3>1, <3>2, <3>3, <3>5, <3>6, <3>7, GallopBTells
    <3>12. /\ Marked(a, mode, won, u)
           /\ r \in Runs /\ q = Other(r) /\ k \in 0..a.left[r]
           /\ MayTake(a, r, k) /\ NextFirst(a, r, k)
      BY <1>3, <3>2, <3>10, <3>11 DEF a
    <3> HIDE DEF r, q
    <3> QED
      BY ONLY <3>1, <3>8, <3>9, <3>12, GallopOrders
  <2> HIDE DEF v
  <2> QED
    BY <1>2, <1>7, <2>1, MergeOrders
<1> QED
  BY <1>5, <1>6, <1>7

-----------------------------------------------------------------------------
\* Where no merge is under way, the view is the list.
LEMMA IdleViewIs ==
    ASSUME NEW n \in Nat, NEW cells \in Seq(Cell), Len(cells) = n
    PROVE  View(Idle(cells)) = cells
<1> DEFINE d == View(Idle(cells))
<1>1. Laid(Idle(cells), n) /\ \A i \in 1..n : d[i] = cells[i]
  BY IdleView
<1>2. d \in Seq(Cell) /\ Len(d) = n
  BY <1>1, ViewIs
<1> HIDE DEF d
<1>3. d = cells
  BY <1>1, <1>2
<1> QED
  BY <1>3 DEF d

\* What the two runs become that are joined, and the others.
LEMMA JoinedStacked ==
    ASSUME NEW from, NEW n, Stacked(pending, from, n), NEW i \in 1..Len(pending) - 1,
           pending[i + 1].base = pending[i].base + pending[i].len
    PROVE  /\ Stacked(Joined(i), from, n) /\ i \in 1..Len(Joined(i))
           /\ Joined(i)[i].base = pending[i].base
           /\ Joined(i)[i].len = pending[i].len + pending[i + 1].len
           /\ \A j \in 1..Len(Joined(i)) : j # i =>
                \E k \in 1..Len(pending) : Joined(i)[j] = pending[k]
<1> DEFINE runs == Joined(i)
           t == Len(pending)
           e(r) == r.base + r.len
<1>1. pending \in Seq(Run) /\ t \in Nat /\ from \in Nat /\ n \in Nat /\ from <= n
  BY DEF Stacked
<1>2. /\ runs \in Seq(Run) /\ Len(runs) = t - 1
      /\ \A j \in 1..t - 1 :
            runs[j] = IF j < i THEN pending[j]
                      ELSE IF j = i
                      THEN [base |-> pending[i].base,
                            len  |-> pending[i].len + pending[i + 1].len]
                      ELSE pending[j + 1]
  BY <1>1, JoinedRuns
<1> HIDE DEF runs, t
<1>3. i \in 1..t - 1 /\ i \in 1..t /\ i + 1 \in 1..t /\ i \in Nat
  BY <1>1 DEF t
<1>4. runs[i].base = pending[i].base /\ runs[i].len = pending[i].len + pending[i + 1].len
  BY <1>2, <1>3
<1>5. \A j \in 1..t : pending[j].base \in Nat /\ pending[j].len \in Nat
                      /\ e(pending[j]) <= from /\ e(pending[j]) \in Nat
  BY StackedIs DEF t
<1>6. \A j, k \in 1..t : j < k => e(pending[j]) <= pending[k].base
  BY DEF Stacked, t
<1>7. e(runs[i]) = e(pending[i + 1])
  BY <1>3, <1>4, <1>5
<1>8. \A j \in 1..t - 1 : j # i => runs[j] = pending[IF j < i THEN j ELSE j + 1]
  BY <1>2
<1>9. ASSUME NEW j \in 1..t - 1 PROVE e(runs[j]) <= from
  <2>1. CASE j = i
    BY <1>3, <1>5, <1>7, <2>1
  <2>2. CASE j # i
    <3> DEFINE h == IF j < i THEN j ELSE j + 1
    <3>1. h \in 1..t /\ runs[j] = pending[h]
      BY <1>1, <1>8, <2>2
    <3> HIDE DEF h
    <3> QED
      BY <1>5, <3>1
  <2> QED
    BY <2>1, <2>2
<1>10. ASSUME NEW j \in 1..t - 1, NEW k \in 1..t - 1, j < k PROVE e(runs[j]) <= runs[k].base
  <2> DEFINE h == IF j < i THEN j ELSE j + 1
             g == IF k <= i THEN k ELSE k + 1
  <2>1. h \in 1..t /\ g \in 1..t /\ h < g
    BY <1>1, <1>3, <1>10
  <2>2. e(runs[j]) = e(pending[h])
    <3>1. CASE j = i
      BY <1>3, <1>7, <3>1
    <3>2. CASE j # i
      BY <1>8, <3>2
    <3> QED
      BY <3>1, <3>2
  <2>3. runs[k].base = pending[g].base
    <3>1. CASE k = i
      BY <1>3, <1>4, <3>1
    <3>2. CASE k # i
      <4>1. (k < i) <=> (k <= i)
        BY <1>3, <3>2
      <4> QED
        BY <1>8, <3>2, <4>1
    <3> QED
      BY <3>1, <3>2
  <2> HIDE DEF h, g
  <2> QED
    BY <1>6, <2>1, <2>2, <2>3
<1>11. Stacked(runs, from, n)
  BY <1>1, <1>2, <1>9, <1>10 DEF Stacked
<1>12. ASSUME NEW j \in 1..Len(runs), j # i PROVE \E k \in 1..t : runs[j] = pending[k]
  <2> DEFINE h == IF j < i THEN j ELSE j + 1
  <2>1. h \in 1..t /\ runs[j] = pending[h]
    BY <1>1, <1>2, <1>8, <1>12, SMTT(30)
  <2> HIDE DEF h
  <2> QED
    BY <2>1
<1> QED
  BY <1>2, <1>3, <1>4, <1>11, <1>12 DEF runs, t

\* Joining two runs keeps the items of each in its places, and the order of
\* the others.
LEMMA JoinedKeeps ==
    ASSUME NEW from, NEW n, Stacked(pending, from, n), NEW i \in 1..Len(pending) - 1,
           pending[i + 1].base = pending[i].base + pending[i].len,
           NEW first, NEW c, Placed(first, c, pending, from, n),
           \A j \in 1..Len(pending) : Sorted(first, c, pending[j])
    PROVE  /\ Placed(first, c, Joined(i), from, n)
           /\ \A j \in 1..Len(Joined(i)) : j # i => Sorted(first, c, Joined(i)[j])
<1> DEFINE runs == Joined(i)
           a == pending[i]
           b == pending[i + 1]
<1>1. /\ i \in 1..Len(runs) /\ runs[i].base = a.base /\ runs[i].len = a.len + b.len
      /\ \A j \in 1..Len(runs) : j # i => \E k \in 1..Len(pending) : runs[j] = pending[k]
  BY JoinedStacked
<1>2. i \in 1..Len(pending) /\ i + 1 \in 1..Len(pending)
  <2>1. Len(pending) \in Nat
    BY DEF Stacked
  <2> QED
    BY <2>1
<1>3. /\ a.base \in Nat /\ a.len \in Nat /\ b.base \in Nat /\ b.len \in Nat
      /\ b.base = a.base + a.len
  BY <1>2, StackedIs
<1>4. Kept(first, c, a) /\ Kept(first, c, b)
  BY <1>2 DEF Placed
<1> HIDE DEF runs, a, b
<1>5. Extent(runs[i]) = Extent(a) \cup Extent(b)
  <2> DEFINE x == a.base  y == a.len  z == b.len
  <2>1. /\ Extent(runs[i]) = x + 1 .. x + (y + z)
        /\ Extent(a) = x + 1 .. x + y /\ Extent(b) = x + y + 1 .. x + y + z
    BY <1>1, <1>3 DEF Extent
  <2>2. x \in Nat /\ y \in Nat /\ z \in Nat
    BY <1>3
  <2> HIDE DEF x, y, z
  <2>3. x + 1 .. x + (y + z) = (x + 1 .. x + y) \cup (x + y + 1 .. x + y + z)
    BY <2>2
  <2> QED
    BY <2>1, <2>3
<1>6. Kept(first, c, runs[i])
  BY <1>4, <1>5 DEF Kept
<1>7. \A j \in 1..Len(runs) : j # i => Kept(first, c, runs[j]) /\ Sorted(first, c, runs[j])
  <2> TAKE j \in 1..Len(runs)
  <2> HAVE j # i
  <2>1. PICK k \in 1..Len(pending) : runs[j] = pending[k]
    BY <1>1
  <2> QED
    BY <2>1 DEF Placed
<1>8. Placed(first, c, runs, from, n)
  BY <1>6, <1>7 DEF Placed
<1> QED
  BY <1>7, <1>8 DEF runs

-----------------------------------------------------------------------------
\* Two neighbouring runs, as the searches of merge_at see them.
LEMMA NeighboursTell ==
    ASSUME NEW from, NEW n, Stacked(pending, from, n), NEW i \in 1..Len(pending) - 1,
           NEW a, a = pending[i], NEW b, b = pending[i + 1],
           a.len # 0, b.len # 0, b.base = a.base + a.len,
           NEW first, NEW c, Placed(first, c, pending, from, n),
           \A j \in 1..Len(pending) : Sorted(first, c, pending[j]),
           \A p \in 1..n : Plain(c[p]),
           NEW k, NEW nb, SearchesFind(c, a.base, a.len, b.base, b.len, k, nb),
           NEW forward \in BOOLEAN
    PROVE  Merges(first, c, a.base + 1, b.base + b.len, a.base + k, a.len - k, nb, forward)
<1> DEFINE x == a.base  la == a.len  lb == b.len  y == b.base
           f == x + 1  l == y + lb  na == la - k  base == x + k
<1>1. i \in 1..Len(pending) /\ i + 1 \in 1..Len(pending)
  <2>1. Len(pending) \in Nat
    BY DEF Stacked
  <2> QED
    BY <2>1
<1>2. /\ x \in Nat /\ la \in Nat \ {0} /\ lb \in Nat \ {0} /\ y = x + la /\ l = y + lb
      /\ f = x + 1 /\ na = la - k /\ base = x + k /\ l <= n /\ n \in Nat
  <2>1. /\ x \in Nat /\ la \in Nat /\ y \in Nat /\ lb \in Nat /\ y + lb <= from
        /\ from \in Nat /\ n \in Nat /\ from <= n
    BY <1>1, StackedIs
  <2>2. la # 0 /\ lb # 0 /\ y = x + la
    OBVIOUS
  <2> HIDE DEF x, la, lb, y
  <2> QED
    BY <2>1, <2>2
<1>3. InOrder(first, c, x + 1, x + la) /\ InOrder(first, c, y + 1, y + lb)
  BY <1>1 DEF Sorted
<1>4. Kept(first, c, a) /\ Kept(first, c, b)
  BY <1>1 DEF Placed
<1>5. Extent(a) = x + 1 .. x + la /\ Extent(b) = y + 1 .. y + lb
  BY DEF Extent
<1>6. SearchesFind(c, x, la, y, lb, k, nb) /\ forward \in BOOLEAN
  OBVIOUS
<1> HIDE DEF x, la, lb, y, f, l, na, base
<1>7. InOrder(first, c, f, y) /\ InOrder(first, c, y + 1, l)
  BY <1>2, <1>3
<1>8. Precede(first, c, f, y, l)
  <2> SUFFICES ASSUME NEW p \in f..y, NEW q \in y + 1..l PROVE first[c[p]] < first[c[q]]
    BY DEF Precede
  <2> DEFINE s == first[c[p]]
             t == first[c[q]]
  <2>1. s \in x + 1..y /\ t \in y + 1..l
    BY <1>2, <1>4, <1>5 DEF Kept
  <2>2. x \in Int /\ y \in Int /\ l \in Int
    BY <1>2
  <2> HIDE DEF s, t
  <2>3. s < t
    BY ONLY <2>1, <2>2
  <2> QED
    BY <2>3 DEF s, t
<1>9. \A p \in f..l : Plain(c[p])
  <2>1. \A p \in f..l : p \in 1..n
    BY <1>2
  <2> QED
    BY <2>1
<1>10. Merges(first, c, f, l, base, na, nb, forward)
  BY ONLY <1>2, <1>6, <1>7, <1>8, <1>9, SearchesTell
<1> QED
  BY <1>10 DEF x, la, lb, y, f, l, na, base

\* merge_at keeps the order.
LEMMA MergeRunsOrders ==
    ASSUME SortInv, OrderInv, ~Merging, phase \in {"collapse", "force"},
           NEW i \in 1..Len(pending) - 1, i >= Len(pending) - 2,
           NEW ACTION Join, Join => MergeAt(i), MergeRuns(i, Join), Contents(m') = Contents(m)
    PROVE  OrderInv'
<1> DEFINE a == pending[i]
           b == pending[i + 1]
           c == m.cells
           A == [p \in 0..a.len - 1 |-> c[a.base + p + 1]]
           B == [p \in 0..b.len - 1 |-> c[b.base + p + 1]]
           k  == PlaceRight(B[0], A, a.len, 0)
           na == a.len - k
           nb == PlaceLeft(A[a.len - 1], B, b.len, b.len - 1)
           need == IF na <= nb THEN na ELSE nb
           base == a.base + k
           f == a.base + 1
           l == b.base + b.len
           runs == Joined(i)
           t == HoldShorter(base, na, b.base, nb)
<1>1. \/ k # -1 /\ (na = 0 \/ nb = 0) /\ Join /\ UNCHANGED sortVars
      \/ /\ k # -1 /\ na > 0 /\ nb > 0 /\ Join
         /\ m' = t /\ reverse' = reverse /\ result' = result
      \/ Fails(m.cells, "TypeError")
      \/ Fails(m.cells, "MemoryError")
  BY Zenon DEF MergeRuns
<1>2. /\ a.base \in Nat /\ a.len \in Nat \ {0} /\ b.len \in Nat \ {0}
      /\ b.base = a.base + a.len /\ b.base + b.len <= N /\ N \in Nat
      /\ RunsInv /\ Sound(m, N, alloced) /\ Live(m) /\ alloced \in Nat
  BY PairLies, NIs DEF SortInv, Room
<1>3. /\ Stacked(pending, lo, N) /\ Stacked(runs, lo, N) /\ i \in 1..Len(runs)
      /\ runs[i].base = a.base /\ runs[i].len = a.len + b.len
  BY <1>2, PendingStacked, JoinedStacked
<1>4. View(m) = c /\ Laid(m, N)
  <2>1. Whole(c, N) /\ m = Idle(c) /\ Laid(m, N)
    BY <1>2, IdleWhole DEF Merging, Live, Sound
  <2> HIDE DEF c
  <2> QED
    BY <1>2, <2>1, IdleViewIs DEF Whole
<1>5. Join => pending' = runs /\ lo' = lo /\ N' = N
  BY DEF MergeAt, N
<1>k. k \in {-1} \cup 0..a.len
  <2> DEFINE x == B[0]  n == a.len  hint == 0
  <2>1. n \in Nat /\ hint \in 0..n - 1
    BY <1>2
  <2> HIDE DEF x, n, hint, A
  <2>2. PlaceRight(x, A, n, hint) \in {-1} \cup 0..n
    BY <2>1, PlaceInRange
  <2> QED
    BY <2>2 DEF x, n, hint
<1>b. nb \in {-1} \cup 0..b.len
  <2> DEFINE x == A[a.len - 1]  n == b.len  hint == b.len - 1
  <2>1. n \in Nat /\ hint \in 0..n - 1
    BY <1>2
  <2> HIDE DEF x, n, hint, B
  <2>2. PlaceLeft(x, B, n, hint) \in {-1} \cup 0..n
    BY <2>1, PlaceInRange
  <2> QED
    BY <2>2 DEF x, n, hint
<1>6. ASSUME AllPlain, k # -1, NEW q, (na = 0 /\ q = 0) \/ (nb # -1 /\ q = nb),
             NEW forward \in BOOLEAN
      PROVE  Merges(Origin, c, f, l, base, na, q, forward)
  <2>1. /\ Placed(Origin, c, pending, lo, N)
        /\ \A j \in 1..Len(pending) : Sorted(Origin, c, pending[j])
    BY <1>4, <1>6 DEF OrderInv, Tidy, Merging
  <2>2. \A p \in 1..N : Plain(c[p])
    BY <1>2, <1>4, <1>6, PlainView DEF AllPlain
  <2>3. na = 0 => k = a.len
    <3> DEFINE la == a.len
    <3>1. la \in Nat /\ k \in Int /\ na = la - k
      BY <1>2, <1>k, SMTT(30)
    <3> HIDE DEF la, k, na
    <3>2. na = 0 => k = la
      BY <3>1
    <3> QED
      BY <3>2 DEF la
  <2> DEFINE first == Origin  n == N  from == lo
  <2>4. /\ Stacked(pending, from, n) /\ i \in 1..Len(pending) - 1
        /\ a = pending[i] /\ b = pending[i + 1]
        /\ a.len # 0 /\ b.len # 0 /\ b.base = a.base + a.len
    BY <1>2, <1>3, <1>6
  <2>5. SearchesFind(c, a.base, a.len, b.base, b.len, k, q)
    BY <1>6, <2>3 DEF SearchesFind
  <2>6. /\ Placed(first, c, pending, from, n) /\ forward \in BOOLEAN
        /\ \A j \in 1..Len(pending) : Sorted(first, c, pending[j])
        /\ \A p \in 1..n : Plain(c[p])
    BY <1>6, <2>1, <2>2
  <2> HIDE DEF a, b, c, A, B, k, nb, first, n, from
  <2>7. Merges(first, c, a.base + 1, b.base + b.len, a.base + k, a.len - k, q, forward)
    BY ONLY <2>4, <2>5, <2>6, NeighboursTell
  <2> QED
    BY <2>7 DEF first
<1>7. ASSUME AllPlain
      PROVE  /\ Placed(Origin, c, runs, lo, N)
             /\ \A j \in 1..Len(runs) : j # i => Sorted(Origin, c, runs[j])
  <2>1. /\ Placed(Origin, c, pending, lo, N)
        /\ \A j \in 1..Len(pending) : Sorted(Origin, c, pending[j])
    BY <1>4, <1>7 DEF OrderInv, Tidy, Merging
  <2> HIDE DEF c
  <2> QED
    BY <1>2, <1>3, <2>1, JoinedKeeps
<1>8. f = runs[i].base + 1 /\ l = runs[i].base + runs[i].len
  <2> DEFINE x == a.base  y == a.len  z == b.len
  <2>1. x \in Nat /\ y \in Nat /\ z \in Nat /\ b.base = x + y
    BY <1>2
  <2> HIDE DEF x, y, z
  <2>2. x + y + z = x + (y + z)
    BY <2>1
  <2> QED
    BY <1>3, <2>1, <2>2 DEF x, y, z
<1> HIDE DEF c, A, B, k, nb, f, l, runs
<1>9. CASE k # -1 /\ (na = 0 \/ nb = 0) /\ Join /\ UNCHANGED sortVars
  <2>1. /\ m' = m /\ reverse' = reverse /\ result' = result
        /\ pending' = runs /\ lo' = lo /\ N' = N
    BY <1>5, <1>9 DEF sortVars
  <2>2. ASSUME AllPlain PROVE Tidy(m, Origin, runs) /\ Placed(Origin, View(m), runs, lo, N)
    <3> DEFINE q == IF na = 0 THEN 0 ELSE nb
    <3>1. (na = 0 /\ q = 0) \/ (nb # -1 /\ q = nb)
      BY <1>9
    <3>2. na = 0 \/ q = 0
      BY <1>9
    <3> HIDE DEF q, na
    <3>3. Merges(Origin, c, f, l, base, na, q, TRUE)
      BY <1>6, <1>9, <2>2, <3>1
    <3> DEFINE forward == TRUE  first == Origin
    <3>4. Merges(first, c, f, l, base, na, q, forward)
      BY <3>3
    <3> HIDE DEF forward, first, base
    <3>5. InOrder(first, c, f, l)
      BY ONLY <3>2, <3>4, MergesEmpty
    <3>6. Sorted(Origin, c, runs[i])
      BY <1>8, <3>5 DEF Sorted, first
    <3>7. \A j \in 1..Len(runs) : Sorted(Origin, c, runs[j])
      BY <1>7, <2>2, <3>6
    <3> QED
      BY <1>4, <1>7, <2>2, <3>7 DEF Tidy, Merging
  <2>3. phase # "done"
    OBVIOUS
  <2> QED
    BY <2>1, <2>2, <2>3, StepOrders
<1>10. CASE /\ k # -1 /\ na > 0 /\ nb > 0 /\ Join
            /\ m' = t /\ reverse' = reverse /\ result' = result
  <2>1. pending' = runs /\ lo' = lo /\ N' = N
    BY <1>5, <1>10
  <2>2. Adjacent(base, na, b.base, nb, N)
    <3> DEFINE ab == a.base  al == a.len  bl == b.len  bb == b.base
    <3>1. /\ ab \in Nat /\ al \in Nat \ {0} /\ bl \in Nat \ {0}
          /\ bb = ab + al /\ bb + bl <= N /\ N \in Nat
          /\ k \in {-1} \cup 0..al /\ nb \in {-1} \cup 0..bl
          /\ k # -1 /\ al - k > 0 /\ nb > 0
      BY <1>2, <1>k, <1>b, <1>10
    <3> HIDE DEF ab, al, bl, bb
    <3>2. Adjacent(ab + k, al - k, bb, nb, N)
      BY <3>1 DEF Adjacent
    <3> QED
      BY <3>2 DEF ab, al, bl, bb
  <2>3. ASSUME AllPlain PROVE Tidy(t, Origin, runs) /\ Placed(Origin, View(t), runs, lo, N)
    <3> DEFINE first == Origin  n == N  room == alloced  mid == b.base  from == lo
    <3>1. nb # -1
      BY <1>10
    <3>2. Merges(first, c, f, l, base, na, nb, TRUE) /\ Merges(first, c, f, l, base, na, nb, FALSE)
      BY <1>6, <1>10, <2>3, <3>1
    <3>3. need \in Nat /\ (IF na <= nb THEN na ELSE nb) <= need
      BY <2>2 DEF Adjacent
    <3>4. f \in Int /\ l \in Int /\ f >= 1 /\ l <= n
      BY <1>2, SMTT(30) DEF f, l
    <3>5. /\ Adjacent(base, na, mid, nb, n) /\ Sound(m, n, room) /\ Live(m) /\ ~Merging
          /\ room \in Nat /\ t = HoldShorter(base, na, mid, nb)
      BY <1>2, <2>2
    <3>6. /\ Placed(first, c, runs, from, n)
          /\ \A j \in 1..Len(runs) : j # i => Sorted(first, c, runs[j])
          /\ Stacked(runs, from, n)
      BY <1>3, <1>7, <2>3
    <3> HIDE DEF first, n, room, mid, base, na, need, t, from
    <3>7. /\ Settles(HoldShorter(base, na, mid, nb), first, f, l)
          /\ Stays(m.cells, View(HoldShorter(base, na, mid, nb)), n, f, l)
      <4>1. /\ Merges(first, m.cells, f, l, base, na, nb, TRUE)
            /\ Merges(first, m.cells, f, l, base, na, nb, FALSE)
        BY <3>2 DEF c
      <4> QED
        BY ONLY <3>3, <3>4, <3>5, <4>1, HoldOrders
    <3>8. Settles(t, first, f, l) /\ Stays(c, View(t), n, f, l)
      BY <3>5, <3>7 DEF c
    <3>9. Tidy(t, first, runs) /\ Placed(first, View(t), runs, from, n)
      BY ONLY <1>3, <1>8, <3>6, <3>8, StaysTidy
    <3> QED
      BY <3>9 DEF first, n, from
  <2>4. phase # "done"
    OBVIOUS
  <2> QED
    BY <1>10, <2>1, <2>3, <2>4, StepOrders
<1>11. CASE Fails(m.cells, "TypeError") \/ Fails(m.cells, "MemoryError")
  <2>1. PICK r \in {"TypeError", "MemoryError"} : Fails(c, r)
    BY <1>11 DEF c
  <2>2. r # "ok"
    OBVIOUS
  <2> QED
    BY <2>1, <2>2, FailsOrders
<1> QED
  BY <1>1, <1>9, <1>10, <1>11

-----------------------------------------------------------------------------
\* The runs are in order, and the items of the list are where Placed has them.
Settled(first, d, runs, to, n) ==
    /\ \A j \in 1..Len(runs) : Sorted(first, d, runs[j])
    /\ Placed(first, d, runs, to, n)

\* A run that was found behind the others is in order, and holds its items.
LEMMA FoundTidy ==
    ASSUME NEW runs, NEW from, NEW n, Stacked(runs, from, n), NEW first, NEW c, NEW d,
           Placed(first, c, runs, from, n),
           \A j \in 1..Len(runs) : Sorted(first, c, runs[j]),
           NEW e, e = n - from, NEW k \in 1..e, NEW s, NEW u,
           \A i \in 1..from : d[i] = c[i],
           \A j \in 1..e : d[from + j] = u[j] /\ s[j] = c[from + j],
           InOrder(first, u, 1, k), SameBehind(u, s, k, e),
           NEW new, new = Append(runs, [base |-> from, len |-> k]),
           NEW to, to = from + k
    PROVE  Settled(first, d, new, to, n)
<1> DEFINE t == Len(runs)
<1>1. /\ runs \in Seq(Run) /\ t \in Nat /\ from \in Nat /\ n \in Nat /\ from <= n
      /\ e \in Nat /\ k \in Nat /\ k >= 1 /\ k <= e /\ e = n - from
  BY DEF Stacked
<1>2. [base |-> from, len |-> k] \in Run
  BY <1>1 DEF Run
<1>3. /\ Len(new) = t + 1 /\ new[t + 1] = [base |-> from, len |-> k]
      /\ \A j \in 1..t : new[j] = runs[j]
  BY <1>1, <1>2
<1>4. ASSUME NEW j \in 1..t
      PROVE  \A p \in Extent(runs[j]) : d[p] = c[p]
  <2> DEFINE x == runs[j].base
             y == runs[j].base + runs[j].len
  <2>1. x \in Nat /\ y \in Nat /\ y <= from
    BY StackedIs
  <2>2. Extent(runs[j]) = x + 1..y
    BY DEF Extent
  <2> HIDE DEF x, y
  <2> QED
    BY <1>1, <2>1, <2>2
<1>5. ASSUME NEW j \in 1..t PROVE Sorted(first, d, runs[j]) /\ Kept(first, d, runs[j])
  <2> DEFINE x == runs[j].base + 1
             y == runs[j].base + runs[j].len
  <2>1. /\ x \in Int /\ y \in Int /\ \A p \in x..y : d[p] = c[p]
    BY <1>4, StackedIs DEF Extent
  <2>2. InOrder(first, c, x, y) /\ Kept(first, c, runs[j])
    BY DEF Sorted, Placed
  <2>3. Kept(first, d, runs[j])
    BY <1>4, <2>2 DEF Kept
  <2> HIDE DEF x, y
  <2>4. InOrder(first, d, x, y)
    BY <2>1, <2>2, InOrderSame
  <2> QED
    BY <2>3, <2>4 DEF Sorted, x, y
<1> HIDE DEF t
<1>6. InOrder(first, d, from + 1, from + k)
  <2> SUFFICES ASSUME NEW p \in from + 1..from + k, NEW q \in from + 1..from + k, p < q
               PROVE  Before(first, d[p], d[q])
    BY DEF InOrder
  <2> DEFINE i == p - from
             j == q - from
  <2>1. i \in 1..k /\ j \in 1..k /\ i < j /\ i \in 1..e /\ j \in 1..e
        /\ from + i = p /\ from + j = q
    BY <1>1
  <2> HIDE DEF i, j
  <2>2. d[p] = u[i] /\ d[q] = u[j]
    BY <2>1
  <2> QED
    BY <2>1, <2>2 DEF InOrder
<1>7. ASSUME NEW p \in from + 1..from + k PROVE first[d[p]] \in from + 1..from + k
  <2> DEFINE i == p - from
  <2>1. i \in 1..k /\ i \in 1..e /\ from + i = p
    BY <1>1
  <2> HIDE DEF i
  <2>2. u[i] \in {u[h] : h \in 1..k}
    BY <2>1
  <2>3. u[i] \in {s[h] : h \in 1..k}
    BY <2>2 DEF SameBehind
  <2>4. PICK j \in 1..k : u[i] = s[j]
    BY <2>3
  <2>5. j \in 1..e /\ from + j \in from + 1..n /\ from + j \in from + 1..from + k
    BY <1>1
  <2>6. d[p] = u[i] /\ s[j] = c[from + j]
    BY <2>1, <2>5
  <2>7. d[p] = c[from + j]
    BY <2>4, <2>6
  <2>8. first[c[from + j]] = from + j
    BY <2>5 DEF Placed
  <2> QED
    BY <2>5, <2>7, <2>8
<1>8. ASSUME NEW i \in from + k + 1..n PROVE first[d[i]] = i
  <2> DEFINE j == i - from
  <2>1. j \in k + 1..e /\ j \in 1..e /\ from + j = i /\ i \in from + 1..n
    BY <1>1
  <2> HIDE DEF j
  <2>2. d[i] = u[j] /\ u[j] = s[j] /\ s[j] = c[i]
    BY <2>1 DEF SameBehind
  <2> QED
    BY <2>1, <2>2 DEF Placed
<1>9. new[t + 1].base = from /\ new[t + 1].len = k
  BY <1>3
<1>10. Sorted(first, d, new[t + 1]) /\ Kept(first, d, new[t + 1])
  BY <1>6, <1>7, <1>9 DEF Sorted, Kept, Extent
<1>11. ASSUME NEW j \in 1..Len(new) PROVE Sorted(first, d, new[j]) /\ Kept(first, d, new[j])
  <2>1. t \in Nat /\ (j \in 1..t \/ j = t + 1)
    BY <1>1, <1>3 DEF t
  <2>2. CASE j \in 1..t
    BY <1>3, <1>5, <2>2
  <2> QED
    BY <1>10, <2>1, <2>2
<1> QED
  BY <1>8, <1>11 DEF Placed, Settled

\* FindRun keeps the order.
LEMMA FindRunOrders ==
    ASSUME SortInv, OrderInv, FindRun, Contents(m') = Contents(m)
    PROVE  OrderInv'
<1> DEFINE rest == SubSeq(m.cells, lo + 1, N)
           head == SubSeq(m.cells, 1, lo)
           min == Minrun(N)
           run == NextRun(rest, min)
           cells == head \o run.s
           c == m.cells
           s == run.s
           k == run.n
<1>1. /\ N \in Nat /\ lo \in Nat /\ nremaining \in Nat /\ alloced \in Nat
      /\ RunsInv /\ phase = "march" /\ nremaining > 0 /\ ~Merging
      /\ Sound(m, N, alloced) /\ Live(m) /\ N = lo + nremaining
  BY NIs DEF SortInv, Room, FindRun, N
<1>2. \/ Fails(cells, "TypeError")
      \/ /\ ~run.failed /\ PushRun(k) /\ m' = Idle(cells)
         /\ reverse' = reverse /\ result' = result
  BY DEF FindRun
<1>3. c \in Seq(Cell) /\ Len(c) = N /\ m = Idle(c) /\ Laid(m, N)
  BY <1>1, IdleWhole DEF Merging, Live, Sound, Whole
<1>4. View(m) = c
  <2> HIDE DEF c
  <2> QED
    BY <1>1, <1>3, IdleViewIs
<1>5. /\ head \in Seq(Cell) /\ rest \in Seq(Cell) /\ Len(head) = lo /\ Len(rest) = nremaining
      /\ \A i \in 1..lo : head[i] = c[i]
      /\ \A j \in 1..nremaining : rest[j] = c[lo + j]
  <2> DEFINE n == N  q == lo  z == 0  w == nremaining
  <2>1. c \in Seq(Cell) /\ q \in Nat /\ z \in Nat /\ w \in Nat /\ q + w <= Len(c) /\ z + q <= Len(c)
        /\ q + w = n
    BY <1>1, <1>3
  <2>2. head = SubSeq(c, z + 1, z + q) /\ rest = SubSeq(c, q + 1, q + w) /\ z = 0
    BY <2>1
  <2> HIDE DEF c, n, q, head, rest, z, w
  <2>3. /\ SubSeq(c, z + 1, z + q) \in Seq(Cell) /\ Len(SubSeq(c, z + 1, z + q)) = q
        /\ \A j \in 1..q : SubSeq(c, z + 1, z + q)[j] = c[z + j]
    BY <2>1, PartIs
  <2>4. /\ SubSeq(c, q + 1, q + w) \in Seq(Cell) /\ Len(SubSeq(c, q + 1, q + w)) = w
        /\ \A j \in 1..w : SubSeq(c, q + 1, q + w)[j] = c[q + j]
    BY <2>1, PartIs
  <2>5. \A i \in 1..q : head[i] = c[i]
    <3> TAKE i \in 1..q
    <3>1. z + i = i
      BY <2>1, <2>2
    <3> QED
      BY <2>2, <2>3, <3>1
  <2> QED
    BY <2>2, <2>3, <2>4, <2>5 DEF q, w
<1> HIDE DEF rest, head
<1>6. min \in Nat
  BY <1>1, MinrunNat
<1> HIDE DEF min
<1>7. CASE Fails(cells, "TypeError")
  <2> DEFINE r == "TypeError"
  <2>1. r # "ok" /\ Fails(cells, r)
    BY <1>7
  <2> HIDE DEF r, cells
  <2> QED
    BY <2>1, FailsOrders
<1>8. CASE /\ ~run.failed /\ PushRun(k) /\ m' = Idle(cells)
           /\ reverse' = reverse /\ result' = result
  <2>1. /\ run.s \in Seq(Cell) /\ Len(run.s) = Len(rest) /\ run.n \in 1..Len(rest)
    <3>1. rest \in Seq(Cell) /\ Len(rest) >= 1
      BY <1>1, <1>5
    <3>2. ~NextRun(rest, min).failed
      BY <1>8
    <3>3. /\ NextRun(rest, min).s \in Seq(Cell)
          /\ Len(NextRun(rest, min).s) = Len(rest)
          /\ ~NextRun(rest, min).failed => NextRun(rest, min).n \in 1..Len(rest)
      BY ONLY <1>6, <3>1, NextRunKeeps
    <3> QED
      BY <3>2, <3>3
  <2>2. run = NextRun(rest, min) /\ ~run.failed
    BY <1>8
  <2> HIDE DEF run
  <2>3. /\ pending' = Append(pending, [base |-> lo, len |-> k])
        /\ lo' = lo + k /\ nremaining' = nremaining - k /\ k \in 1..nremaining
    BY <1>5, <1>8, <2>1 DEF PushRun
  <2>4. N' = N
    <3>1. lo + k + (nremaining - k) = lo + nremaining
      BY <1>1, <2>3
    <3> QED
      BY <2>3, <3>1 DEF N
  <2>5. /\ cells \in Seq(Cell) /\ Len(cells) = N
        /\ \A i \in 1..lo : cells[i] = c[i]
        /\ \A j \in 1..nremaining : cells[lo + j] = s[j]
    <3>1. /\ s \in Seq(Cell) /\ Len(s) = nremaining
      BY <1>5, <2>1
    <3> HIDE DEF s
    <3>2. /\ head \o s \in Seq(Cell) /\ Len(head \o s) = Len(head) + Len(s)
          /\ \A i \in 1 .. Len(head) + Len(s) :
                (head \o s)[i] = IF i <= Len(head) THEN head[i] ELSE s[i - Len(head)]
      BY <1>5, <3>1, ConcatProperties
    <3>3. cells = head \o s
      BY DEF s
    <3> HIDE DEF cells, c
    <3>4. ASSUME NEW i \in 1..lo PROVE cells[i] = c[i]
      <4>1. i \in 1 .. Len(head) + Len(s) /\ i <= Len(head)
        BY <1>1, <1>5, <3>1
      <4> QED
        BY <1>5, <3>2, <3>3, <4>1
    <3>5. ASSUME NEW j \in 1..nremaining PROVE cells[lo + j] = s[j]
      <4> DEFINE i == lo + j
      <4>1. i \in 1 .. Len(head) + Len(s) /\ ~(i <= Len(head)) /\ i - Len(head) = j
        BY <1>1, <1>5, <3>1
      <4> HIDE DEF i
      <4> QED
        BY <3>2, <3>3, <4>1 DEF i
    <3>6. Len(head) + Len(s) = N
      BY <1>1, <1>5, <3>1
    <3> QED
      BY <3>2, <3>3, <3>4, <3>5, <3>6
  <2>6. View(m') = cells
    <3> HIDE DEF cells
    <3> QED
      BY <1>1, <1>8, <2>5, IdleViewIs
  <2>7. m'.mode = "none"
    BY <1>8 DEF Idle
  <2>8. ASSUME AllPlain
        PROVE  Tidy(m', Origin, pending') /\ Placed(Origin, View(m'), pending', lo', N)
    <3> DEFINE first == Origin  n == N  from == lo  e == nremaining  runs == pending  d == cells
               new == pending'
    <3>1. /\ Placed(first, c, runs, from, n)
          /\ \A j \in 1..Len(runs) : Sorted(first, c, runs[j])
      BY <1>1, <1>4, <2>8 DEF OrderInv, Tidy, Merging
    <3>2. first \in [Cell -> Int]
      BY <1>1, OriginIs
    <3>3. Stacked(runs, from, n)
      BY <1>1, PendingStacked
    <3>4. \A p \in 1..n : Plain(c[p])
      BY <1>1, <1>3, <1>4, <2>8, PlainView DEF AllPlain
    <3>5. /\ e = n - from /\ e = Len(rest) /\ e >= 1 /\ k \in 1..e /\ n \in Nat /\ from \in Nat
          /\ rest \in Seq(Cell) /\ e \in Nat /\ n = from + e
      BY <1>1, <1>5, <2>3
    <3>6. /\ \A i \in 1..from : d[i] = c[i]
          /\ \A j \in 1..e : d[from + j] = s[j] /\ rest[j] = c[from + j]
          /\ new = Append(runs, [base |-> from, len |-> k])
      BY <1>5, <2>3, <2>5
    <3> HIDE DEF first, n, from, e, runs, d, new, c
    <3>7. ASSUME NEW p \in 1..e PROVE Plain(rest[p]) /\ first[rest[p]] = from + p
      <4>1. from + p \in 1..n /\ from + p \in from + 1..n
        BY <3>5
      <4>2. rest[p] = c[from + p]
        BY <3>6
      <4> QED
        BY <3>1, <3>4, <4>1, <4>2 DEF Placed
    <3>8. \A p, q \in 1..e : p < q => first[rest[p]] < first[rest[q]]
      <4> TAKE p, q \in 1..e
      <4>1. first[rest[p]] = from + p /\ first[rest[q]] = from + q
        BY <3>7
      <4> QED
        BY <3>5, <4>1
    <3>9. \A p \in 1..e : Plain(rest[p])
      BY <3>7
    <3>10. InOrder(first, run.s, 1, run.n) /\ SameBehind(run.s, rest, run.n, e)
      BY ONLY <1>6, <2>2, <3>2, <3>5, <3>8, <3>9, NextRunOrders
    <3>11. InOrder(first, s, 1, k) /\ SameBehind(s, rest, k, e)
      BY <3>10
    <3> HIDE DEF s, k
    <3> DEFINE to == from + k
    <3>12. to = from + k
      OBVIOUS
    <3> HIDE DEF to
    <3>13. Settled(first, d, new, to, n)
      BY ONLY <3>1, <3>3, <3>5, <3>6, <3>11, <3>12, FoundTidy
    <3>14. lo' = to
      BY <2>3, <3>12 DEF from
    <3>15. Placed(Origin, View(m'), pending', lo', N)
      BY <2>6, <3>13, <3>14 DEF first, d, new, n, Settled
    <3>16. Tidy(m', Origin, pending')
      BY <2>6, <2>7, <3>13 DEF first, d, new, Tidy, Settled
    <3> QED
      BY <3>15, <3>16
  <2>9. phase # "done"
    BY <1>1
  <2> HIDE DEF cells
  <2> QED
    BY <1>8, <2>4, <2>8, <2>9, StepOrders
<1> QED
  BY <1>2, <1>7, <1>8

-----------------------------------------------------------------------------
\* CollapseRuns keeps the order.
LEMMA CollapseRunsOrders ==
    ASSUME SortInv, OrderInv, CollapseRuns, Contents(m') = Contents(m)
    PROVE  OrderInv'
<1> DEFINE i == CollapseAt
<1>1. pending \in Seq(Run)
  BY DEF SortInv, RunsInv, RunsTypeOK
<1>2. ~Merging /\ phase \in {"collapse", "force"} /\ i # 0 /\ MergeRuns(i, Collapse)
  BY DEF CollapseRuns
<1>3. i \in 1..Len(pending) - 1 /\ i >= Len(pending) - 2
  BY <1>1, <1>2, CollapseIsOnTop
<1>4. Collapse => MergeAt(i)
  BY DEF Collapse
<1> HIDE DEF i
<1> QED
  BY <1>2, <1>3, <1>4, MergeRunsOrders

\* ForceRuns keeps the order.
LEMMA ForceRunsOrders ==
    ASSUME SortInv, OrderInv, ForceRuns, Contents(m') = Contents(m)
    PROVE  OrderInv'
<1> DEFINE i == Shorter
<1>1. pending \in Seq(Run)
  BY DEF SortInv, RunsInv, RunsTypeOK
<1>2. /\ ~Merging /\ phase \in {"collapse", "force"} /\ Len(pending) > 1
      /\ MergeRuns(i, ForceCollapse)
  BY DEF ForceRuns
<1>3. i \in 1..Len(pending) - 1 /\ i >= Len(pending) - 2
  BY <1>1, <1>2, ShorterIsOnTop
<1>4. ForceCollapse => MergeAt(i)
  BY DEF ForceCollapse
<1> HIDE DEF i
<1> QED
  BY <1>2, <1>3, <1>4, MergeRunsOrders

\* RunsCollapsed keeps the order.
LEMMA RunsCollapsedOrders ==
    ASSUME SortInv, OrderInv, RunsCollapsed, Contents(m') = Contents(m)
    PROVE  OrderInv'
<1>1. /\ phase = "collapse" /\ pending' = pending /\ lo' = lo /\ nremaining' = nremaining
      /\ m' = m /\ reverse' = reverse /\ result' = result
  BY DEF RunsCollapsed, Collapsed, sortVars
<1>2. N' = N /\ phase # "done"
  BY <1>1 DEF N
<1>3. AllPlain => /\ Tidy(m', Origin, pending')
                  /\ Placed(Origin, View(m'), pending', lo', N)
  BY <1>1, <1>2 DEF OrderInv
<1> QED
  BY <1>1, <1>2, <1>3, StepOrders

\* Runs are merged in spite of their lengths only when all items are in runs.
NoneLeft == phase = "force" => nremaining = 0

\* No step of the stack changes that.
LEMMA NoneLeftStays ==
    ASSUME NoneLeft, [RunsNext]_runVars
    PROVE  NoneLeft'
<1>1. CASE \E n \in 1..nremaining : PushRun(n)
  BY <1>1 DEF PushRun, NoneLeft
<1>2. CASE Collapse
  BY <1>2 DEF Collapse, MergeAt, NoneLeft
<1>3. CASE Collapsed
  BY <1>3 DEF Collapsed, NoneLeft
<1>4. CASE ForceCollapse
  BY <1>4 DEF ForceCollapse, MergeAt, NoneLeft
<1>5. CASE SortSucceeds \/ SortGivesUp
  BY <1>5 DEF SortSucceeds, SortGivesUp, EndSort, NoneLeft
<1>6. CASE UNCHANGED runVars
  BY <1>6 DEF runVars, NoneLeft
<1> QED
  BY <1>1, <1>2, <1>3, <1>4, <1>5, <1>6 DEF RunsNext

\* Items in order are in order when their reversal is undone.
LEMMA UnreversedOrder ==
    ASSUME N \in Nat, NEW cells \in Seq(Cell), Len(cells) = N, InOrder(Origin, cells, 1, N),
           NEW d, d = IF reverse THEN Swapped(cells) ELSE cells,
           NEW i \in 1..N - 1
    PROVE  Ordered(d[i], d[i + 1])
<1>1. \A p \in 1..N : cells[p] \in Cell
  OBVIOUS
<1>2. \A x \in Cell : x.item \in Int
  BY DEF Cell
<1>3. \A x \in Cell : Origin[x] = IF reverse THEN N + 1 - x.item ELSE x.item
  BY DEF Origin
<1>4. i \in 1..N /\ i + 1 \in 1..N /\ i < i + 1
  OBVIOUS
<1>5. CASE ~reverse
  <2>1. Before(Origin, cells[i], cells[i + 1]) /\ d = cells
    BY <1>4, <1>5 DEF InOrder
  <2> DEFINE x == cells[i]  y == cells[i + 1]
  <2>2. Origin[x] = x.item /\ Origin[y] = y.item
    BY <1>1, <1>3, <1>4, <1>5
  <2>3. Before(Origin, x, y) /\ d[i] = x /\ d[i + 1] = y
    BY <2>1
  <2> HIDE DEF x, y
  <2> QED
    BY <1>5, <2>2, <2>3 DEF Before, Ordered
<1>6. CASE reverse
  <2> DEFINE p == N - i
             x == cells[p + 1]  y == cells[p]
  <2>1. p \in 1..N /\ p + 1 \in 1..N /\ p < p + 1 /\ N - i + 1 = p + 1 /\ N - (i + 1) + 1 = p
    BY <1>4
  <2>2. d = Swapped(cells) /\ (\A j \in 1..N : Swapped(cells)[j] = cells[N - j + 1])
    <3>1. DOMAIN cells = 1..N
      OBVIOUS
    <3> QED
      BY <1>6, <3>1 DEF Swapped, Reverse
  <2>3. d[i] = x /\ d[i + 1] = y
    BY <1>4, <2>1, <2>2
  <2>4. Before(Origin, y, x) /\ x \in Cell /\ y \in Cell
    BY <1>1, <2>1 DEF InOrder
  <2> HIDE DEF x, y, p
  <2>5. Origin[x] = N + 1 - x.item /\ Origin[y] = N + 1 - y.item
    BY <1>3, <1>6, <2>4
  <2>6. x.item \in Int /\ y.item \in Int
    BY <1>2, <2>4
  <2>7. x.key > y.key \/ (x.key = y.key /\ x.item < y.item)
    <3>1. \/ y.key < x.key /\ x.key \in Int /\ y.key \in Int
          \/ y.key = x.key /\ Origin[y] < Origin[x]
      BY <2>4 DEF Before, Comparable
    <3> QED
      BY <2>5, <2>6, <3>1
  <2> QED
    BY <1>6, <2>3, <2>7 DEF Ordered
<1> QED
  BY <1>5, <1>6

\* A sort that ends has put its one run in order.
LEMMA SortEndsOrders ==
    ASSUME SortInv, OrderInv, NoneLeft, SortEnds, Contents(m') = Contents(m)
    PROVE  OrderInv'
<1> DEFINE cells == m.cells
           d == IF reverse THEN Swapped(cells) ELSE cells
<1>1. /\ ~Merging /\ phase = "force" /\ phase' = "done" /\ Len(pending) = 1
      /\ lo' = lo /\ nremaining' = nremaining
      /\ m' = Idle(d) /\ reverse' = reverse
  BY DEF SortEnds, SortSucceeds, EndSort, Returned
<1>2. N' = N /\ m'.cells = d
  BY <1>1 DEF N, Idle
<1>3. N \in Nat /\ lo \in Nat /\ RunsInv /\ Sound(m, N, alloced) /\ Live(m) /\ lo = N
  <2>1. N \in Nat /\ lo \in Nat /\ nremaining = 0
    BY <1>1, NIs DEF SortInv, NoneLeft
  <2> QED
    BY <2>1 DEF SortInv, N
<1>4. cells \in Seq(Cell) /\ Len(cells) = N /\ m = Idle(cells)
  BY <1>1, <1>3, IdleWhole DEF Merging, Live, Sound, Whole
<1> HIDE DEF d, cells
<1>5. View(m) = cells
  BY <1>3, <1>4, IdleViewIs
<1>6. pending[1].base = 0 /\ pending[1].len = N
  <2>1. /\ pending \in Seq(Run) /\ pending # <<>> /\ 1 \in 1..Len(pending)
        /\ pending[1].base = 0 /\ pending[1].len \in Nat
    <3>1. pending \in Seq(Run) /\ 1 \in 1..Len(pending)
      BY <1>1, <1>3 DEF RunsInv, RunsTypeOK
    <3>2. pending[1] \in Run /\ pending # <<>>
      BY <3>1
    <3> QED
      BY <1>3, <3>1, <3>2 DEF RunsInv, RunsAbut, Run
  <2>2. lo = pending[1].base + pending[1].len
    BY <1>1, <1>3, <2>1 DEF RunsInv, RunsAbut
  <2> QED
    BY <1>3, <2>1, <2>2
<1>7. ASSUME AllPlain PROVE \A i \in 1..N - 1 : Ordered(d[i], d[i + 1])
  <2>1. Tidy(m, Origin, pending)
    BY <1>1, <1>7 DEF OrderInv
  <2>2. Sorted(Origin, cells, pending[1])
    BY <1>1, <1>5, <2>1 DEF Tidy, Merging
  <2>3. InOrder(Origin, cells, 1, N)
    <3>1. 0 + 1 = 1 /\ 0 + N = N
      BY <1>3
    <3> QED
      BY <1>6, <2>2, <3>1 DEF Sorted
  <2> QED
    BY <1>3, <1>4, <2>3, UnreversedOrder DEF d
<1>8. AllPlain' <=> AllPlain
  BY DEF AllPlain
<1>9. \A x, y : Ordered(x, y)' <=> Ordered(x, y)
  BY <1>1 DEF Ordered
<1> QED
  BY <1>1, <1>2, <1>7, <1>8, <1>9 DEF OrderInv, Ordered

-----------------------------------------------------------------------------
\* At first each item is in its own place, and there are no runs.
LEMMA OrderStarts ==
    ASSUME Init
    PROVE  OrderInv /\ NoneLeft
<1>1. PICK s \in Inputs :
        /\ lo = 0 /\ nremaining = Len(s) /\ pending = <<>> /\ phase = "march"
        /\ LET cells == [i \in DOMAIN s |-> [key |-> s[i], item |-> i]]
           IN  m = Idle(IF reverse THEN Swapped(cells) ELSE cells)
        /\ reverse \in BOOLEAN /\ result = "none"
  BY DEF Init
<1> DEFINE cells == [i \in DOMAIN s |-> [key |-> s[i], item |-> i]]
           d == IF reverse THEN Swapped(cells) ELSE cells
<1>2. SortInv
  BY SortStarts
<1>3. s \in Seq(ToSet(s)) /\ Len(s) \in Nat /\ DOMAIN s = 1..Len(s)
  BY SortAssumption
<1>4. N = Len(s) /\ N \in Nat
  BY <1>1, <1>3 DEF N
<1>5. m = Idle(d)
  BY <1>1
<1>6. DOMAIN cells = 1..N /\ Len(cells) = N /\ \A i \in 1..N : cells[i].item = i
  BY <1>3, <1>4
<1>7. \A i \in 1..N : d[i].item = IF reverse THEN N + 1 - i ELSE i
  <2> HIDE DEF cells
  <2>1. CASE ~reverse
    BY <1>6, <2>1
  <2>2. CASE reverse
    <3>1. d = [i \in 1..N |-> cells[(N - i) + 1]]
      BY <1>6, <2>2 DEF Swapped, Reverse
    <3>2. ASSUME NEW i \in 1..N PROVE d[i].item = N + 1 - i
      <4>1. (N - i) + 1 \in 1..N /\ (N - i) + 1 = N + 1 - i
        BY <1>4
      <4>2. d[i] = cells[(N - i) + 1]
        BY <3>1
      <4> HIDE DEF d
      <4> QED
        BY <1>6, <4>1, <4>2
    <3> QED
      BY <2>2, <3>2
  <2> QED
    BY <2>1, <2>2
<1>8. d \in Seq(Cell) /\ Len(d) = N
  <2>1. ~Merging /\ Sound(m, N, alloced) /\ Live(m)
    BY <1>1, <1>2 DEF SortInv
  <2>2. Whole(m.cells, N)
    BY <1>4, <2>1, IdleWhole DEF Merging
  <2>3. m.cells = d
    BY <1>5 DEF Idle
  <2> QED
    BY <2>2, <2>3 DEF Whole
<1> HIDE DEF d
<1>9. View(m) = d
  BY <1>4, <1>5, <1>8, IdleViewIs
<1>10. ASSUME NEW i \in 0 + 1..N PROVE Origin[d[i]] = i
  <2>1. i \in 1..N
    OBVIOUS
  <2>2. d[i] \in Cell /\ d[i].item = IF reverse THEN N + 1 - i ELSE i
    BY <1>7, <1>8, <2>1
  <2>3. Origin[d[i]] = IF reverse THEN N + 1 - d[i].item ELSE d[i].item
    BY <2>2 DEF Origin
  <2> QED
    BY <1>4, <2>1, <2>2, <2>3
<1>11. Len(pending) = 0 /\ m.mode = "none"
  BY <1>1, <1>5 DEF Idle
<1>12. Placed(Origin, View(m), pending, lo, N)
  BY <1>1, <1>9, <1>10, <1>11 DEF Placed
<1>13. Tidy(m, Origin, pending)
  BY <1>11 DEF Tidy
<1> QED
  BY <1>1, <1>12, <1>13 DEF OrderInv, NoneLeft

\* Every step keeps the order.
LEMMA OrderSteps ==
    ASSUME SortInv, OrderInv, NoneLeft, [Next]_vars
    PROVE  OrderInv' /\ NoneLeft'
<1>1. [RunsNext]_runVars /\ Contents(m') = Contents(m)
  BY SortSteps
<1>2. NoneLeft'
  BY <1>1, NoneLeftStays
<1>3. CASE UNCHANGED vars
  <2>1. UNCHANGED <<lo, nremaining, pending, phase, m, reverse, result>>
    BY <1>3 DEF vars, runVars, sortVars
  <2>2. N' = N
    BY <2>1 DEF N
  <2>3. Origin' = Origin /\ (AllPlain' <=> AllPlain)
    BY <2>1, <2>2 DEF Origin, AllPlain
  <2> QED
    BY <1>2, <2>1, <2>2, <2>3 DEF OrderInv, Ordered
<1> QED
  BY <1>1, <1>2, <1>3, FindRunOrders, CollapseRunsOrders, RunsCollapsedOrders, ForceRunsOrders,
     MergeOneOrders, GallopAOrders, GallopBOrders, SortEndsOrders DEF Next

\* The keys are those of a list that is sorted.
LEMMA KeysAre ==
    ASSUME NEW x \in Cell
    PROVE  x.key \in Int \cup {Unorderable, NaN}
<1>1. x.key \in UNION {ToSet(t) : t \in Inputs}
  BY DEF Cell
<1> QED
  BY <1>1, SortAssumption

\* A list whose sort succeeded without NaN is in order.
LEMMA OrderTells ==
    ASSUME SortInv, OrderInv
    PROVE  SortedStably
<1> SUFFICES ASSUME result = "ok", NaN \notin {c.key : c \in ToSet(m.cells)}
             PROVE  \A i \in 1..N - 1 : Ordered(m.cells[i], m.cells[i + 1])
  BY DEF SortedStably
<1>1. ~Merging /\ N \in Nat /\ Sound(m, N, alloced) /\ Live(m)
  BY NIs DEF SortInv, OrderInv
<1>2. Whole(m.cells, N) /\ Contents(m) = ToSet(m.cells)
  BY <1>1, IdleWhole DEF Merging
<1>3. ASSUME NEW x \in Contents(m) PROVE Plain(x)
  <2> DEFINE cells == m.cells
  <2>1. cells \in Seq(Cell) /\ x \in ToSet(cells)
    BY <1>2 DEF Whole
  <2> HIDE DEF cells
  <2>2. x \in Cell
    BY <2>1, ToSetIs
  <2>3. x.key # NaN
    BY <1>2
  <2> QED
    BY <2>2, <2>3, KeysAre DEF Plain, Comparable
<1> QED
  BY <1>3 DEF OrderInv, AllPlain

\* A sort of any items that can all be compared, of however many runs and
\* merges, and with whatever galloping, puts them in order or in the reverse
\* order, and leaves equal ones as they were.
THEOREM SortsStably == Spec => []SortedStably
<1>1. Init => OrderInv /\ NoneLeft
  BY OrderStarts
<1>2. SortInv /\ OrderInv /\ NoneLeft /\ [Next]_vars => OrderInv' /\ NoneLeft'
  BY OrderSteps
<1>3. SortInv /\ OrderInv => SortedStably
  BY OrderTells
<1> QED
  BY <1>1, <1>2, <1>3, SortInvariant, PTL DEF Spec
=============================================================================
