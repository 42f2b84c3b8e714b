---------------------------- MODULE ypListProofs ----------------------------
(***************************************************************************)
(* Proofs about lists of any items, of any length up to LenMax, for any    *)
(* arguments, slices and over-allocation: that the items fit the buffer,   *)
(* and that every item has one reference for each place it is at.          *)
(*                                                                         *)
(* The references are counted by the places where an item is (CountIs).    *)
(* Every call is shown to be even: it takes as many references as it puts  *)
(* items in places, and gives back as many as it takes items away.  For    *)
(* the calls that move items within the buffer this rests on what the      *)
(* moves do to the cells: a splice (Splices), items that slide down over   *)
(* those that go (Slid), or copies that fill up the buffer (Filled).       *)
(***************************************************************************)
EXTENDS ypListCalls, ypOperatorProofs

(***************************************************************************)
(* How often an item is in a sequence.                                     *)
(***************************************************************************)
\* Where x is in s.
Places(s, x) == {i \in DOMAIN s : s[i] = x}

\* Count is a cardinality, so it is a number.
LEMMA CountIs ==
    ASSUME NEW C, NEW s \in Seq(C), NEW x
    PROVE  /\ IsFiniteSet(Places(s, x)) /\ Count(s, x) = Cardinality(Places(s, x))
           /\ Count(s, x) \in Nat
<1>1. DOMAIN s = 1..Len(s) /\ Len(s) \in Int
  OBVIOUS
<1>2. IsFiniteSet(1..Len(s))
  BY <1>1, FS_Interval
<1>3. IsFiniteSet(Places(s, x))
  BY <1>1, <1>2, FS_Subset DEF Places
<1> QED
  BY <1>3, FS_CardinalityType DEF Count, Places

\* The items of both sequences count.
LEMMA CountJoin ==
    ASSUME NEW C, NEW s \in Seq(C), NEW t \in Seq(C), NEW x
    PROVE  Count(s \o t, x) = Count(s, x) + Count(t, x)
<1> DEFINE w == s \o t
           m == Len(s)
           n == Len(t)
           A == Places(s, x)
           B == Places(t, x)
           moved == {m + i : i \in B}
           p == [i \in B |-> m + i]
<1>0. m \in Nat /\ n \in Nat
  OBVIOUS
<1>1. /\ w \in Seq(C) /\ Len(w) = m + n
      /\ \A i \in 1 .. m + n : w[i] = IF i <= m THEN s[i] ELSE t[i - m]
  BY ConcatProperties
<1>2. /\ \A i : i \in A <=> i \in 1..m /\ s[i] = x
      /\ \A i : i \in B <=> i \in 1..n /\ t[i] = x
  BY DEF Places
<1> HIDE DEF w, A, B
<1>3. Places(w, x) = A \cup moved
  <2>1. ASSUME NEW i \in Places(w, x) PROVE i \in A \cup moved
    <3>1. i \in 1..m + n /\ w[i] = x
      BY <1>1 DEF Places
    <3>2. CASE i <= m
      <4>1. i \in 1..m /\ s[i] = x
        BY <1>0, <1>1, <3>1, <3>2
      <4> QED
        BY <1>2, <4>1
    <3>3. CASE ~(i <= m)
      <4>1. i - m \in 1..n /\ t[i - m] = x /\ m + (i - m) = i
        BY <1>0, <1>1, <3>1, <3>3
      <4>2. i - m \in B
        BY <1>2, <4>1
      <4> QED
        BY <4>1, <4>2
    <3> QED
      BY <3>2, <3>3
  <2>2. ASSUME NEW i \in A PROVE i \in Places(w, x)
    <3>1. i \in 1..m /\ s[i] = x
      BY <1>2
    <3>2. i \in 1..m + n /\ i <= m
      BY <1>0, <3>1
    <3> QED
      BY <1>1, <3>1, <3>2 DEF Places
  <2>3. ASSUME NEW i \in B PROVE m + i \in Places(w, x)
    <3>1. i \in 1..n /\ t[i] = x
      BY <1>2
    <3>2. m + i \in 1..m + n /\ ~(m + i <= m) /\ (m + i) - m = i
      BY <1>0, <3>1
    <3> QED
      BY <1>1, <3>1, <3>2 DEF Places
  <2> QED
    BY <2>1, <2>2, <2>3
<1>4. IsFiniteSet(A) /\ IsFiniteSet(B) /\ Count(s, x) = Cardinality(A) /\ Count(t, x) = Cardinality(B)
      /\ Cardinality(A) \in Nat /\ Cardinality(B) \in Nat
  BY CountIs DEF A, B
<1>5. IsFiniteSet(moved) /\ Cardinality(moved) = Cardinality(B)
  <2>1. p \in [B -> moved] /\ \A i \in B : p[i] = m + i
    OBVIOUS
  <2>2. \A i, j \in B : m + i = m + j => i = j
    BY <1>0, <1>2
  <2>3. \A y \in moved : \E i \in B : m + i = y
    OBVIOUS
  <2> HIDE DEF p, moved
  <2>4. p \in Bijection(B, moved)
    BY <2>1, <2>2, <2>3, BijectionIs
  <2>5. ExistsBijection(B, moved)
    BY <2>4 DEF ExistsBijection
  <2> QED
    BY <1>4, <2>5, FS_Bijection
<1>6. A \cap moved = {}
  <2>1. ASSUME NEW i \in B PROVE m + i \notin A
    BY <1>0, <1>2
  <2> QED
    BY <2>1
<1> HIDE DEF moved
<1>7. Cardinality(A \cup moved) = Cardinality(A) + Cardinality(B)
  <2>1. Cardinality(A \cup moved) = Cardinality(A) + Cardinality(moved) - Cardinality(A \cap moved)
    BY <1>4, <1>5, FS_Union
  <2>2. Cardinality(A \cap moved) = 0
    BY <1>6, FS_EmptySet
  <2> QED
    BY <1>4, <1>5, <2>1, <2>2
<1>8. Count(w, x) = Cardinality(Places(w, x))
  BY <1>1, CountIs
<1> QED
  BY <1>3, <1>4, <1>7, <1>8 DEF w

\* A sequence of one item.
LEMMA CountOne ==
    ASSUME NEW C, NEW e \in C, NEW x
    PROVE  <<e>> \in Seq(C) /\ Len(<<e>>) = 1 /\ Count(<<e>>, x) = IF x = e THEN 1 ELSE 0
<1>0. <<e>> \in Seq(C) /\ Len(<<e>>) = 1 /\ <<e>>[1] = e /\ DOMAIN <<e>> = {1}
  OBVIOUS
<1> DEFINE one == <<e>>
<1> HIDE DEF one
<1>1. one \in Seq(C) /\ Len(one) = 1 /\ one[1] = e /\ DOMAIN one = {1}
  BY <1>0 DEF one
<1>2. CASE x = e
  <2>1. {i \in DOMAIN one : one[i] = x} = {1}
    BY <1>1, <1>2
  <2> QED
    BY <1>1, <1>2, <2>1, FS_Singleton DEF Count, one
<1>3. CASE x # e
  <2>1. {i \in DOMAIN one : one[i] = x} = {}
    BY <1>1, <1>3
  <2> QED
    BY <1>1, <1>3, <2>1, FS_EmptySet DEF Count, one
<1> QED
  BY <1>2, <1>3

\* The empty sequence counts nothing.
LEMMA CountNone ==
    ASSUME NEW x
    PROVE  Count(<<>>, x) = 0
<1>1. {i \in DOMAIN <<>> : <<>>[i] = x} = {}
  OBVIOUS
<1> QED
  BY <1>1, FS_EmptySet DEF Count

\* Sorting does not change how often an item occurs.
LEMMA CountRearranged ==
    ASSUME NEW C, NEW t \in Seq(C), NEW u \in Seq(C), Rearranged(u, t), NEW x
    PROVE  Count(u, x) = Count(t, x)
<1> DEFINE D == 1..Len(t)
           A == Places(u, x)
           B == Places(t, x)
<1>1. PICK p \in Bijection(D, D) : \A i \in D : u[i] = t[p[i]]
  BY DEF Rearranged
<1>2. /\ p \in [D -> D] /\ \A i, j \in D : p[i] = p[j] => i = j
      /\ \A y \in D : \E i \in D : p[i] = y
  <2> HIDE DEF D
  <2> QED
    BY BijectionOf
<1>3. DOMAIN u = D /\ DOMAIN t = D
  BY DEF Rearranged
<1> DEFINE q == [i \in A |-> p[i]]
<1>4. \A i \in A : i \in D /\ p[i] \in B
  BY <1>1, <1>2, <1>3 DEF Places
<1>5. q \in [A -> B] /\ \A i \in A : q[i] = p[i]
  BY <1>4
<1>6. ASSUME NEW y \in B PROVE \E i \in A : q[i] = y
  <2>1. y \in D /\ t[y] = x
    BY <1>3 DEF Places
  <2>2. PICK i \in D : p[i] = y
    BY <1>2, <2>1
  <2>3. i \in A
    BY <1>1, <1>3, <2>1, <2>2 DEF Places
  <2> QED
    BY <1>5, <2>2, <2>3
<1>7. \A i, j \in A : q[i] = q[j] => i = j
  BY <1>2, <1>4, <1>5
<1> HIDE DEF q, A, B
<1>8. q \in Bijection(A, B)
  BY <1>5, <1>6, <1>7, BijectionIs
<1>9. ExistsBijection(A, B)
  BY <1>8 DEF ExistsBijection
<1>10. IsFiniteSet(A) /\ Count(u, x) = Cardinality(A) /\ Count(t, x) = Cardinality(B)
  BY CountIs DEF A, B
<1> QED
  BY <1>9, <1>10, FS_Bijection

\* u is s with x in place of the items a+1..b.
Splices(u, s, a, b, x) ==
    /\ u = [i \in 1..Len(u) |-> u[i]] /\ Len(u) = a + Len(x) + (Len(s) - b)
    /\ \A i \in 1..a : u[i] = s[i]
    /\ \A i \in 1..Len(x) : u[a + i] = x[i]
    /\ \A i \in 1..Len(s) - b : u[a + Len(x) + i] = s[b + i]

\* SubSeq takes the items after the first a, up to b.
LEMMA PartIs ==
    ASSUME NEW C, NEW s \in Seq(C), NEW a \in 0..Len(s), NEW b \in a..Len(s)
    PROVE  /\ SubSeq(s, a + 1, b) \in Seq(C) /\ Len(SubSeq(s, a + 1, b)) = b - a
           /\ \A i \in 1..b - a : SubSeq(s, a + 1, b)[i] = s[a + i]
<1>0. Len(s) \in Nat /\ a \in Nat /\ b \in Nat /\ a <= b /\ b <= Len(s)
  OBVIOUS
<1>1. a + 1 \in Int /\ b \in Int /\ \A i \in a + 1..b : s[i] \in C
  BY <1>0
<1>2. /\ SubSeq(s, a + 1, b) \in Seq(C)
      /\ Len(SubSeq(s, a + 1, b)) = IF a + 1 <= b THEN b - (a + 1) + 1 ELSE 0
      /\ \A i \in 1 .. b - (a + 1) + 1 : SubSeq(s, a + 1, b)[i] = s[a + 1 + i - 1]
  BY <1>1, SubSeqProperties
<1>3. /\ b - (a + 1) + 1 = b - a
      /\ (IF a + 1 <= b THEN b - (a + 1) + 1 ELSE 0) = b - a
      /\ \A i \in 1..b - a : a + 1 + i - 1 = a + i
  BY <1>0
<1> QED
  BY <1>2, <1>3

\* The cells of two sequences of m and k items that were joined to w.
JoinCells(w, s, t, m, k) ==
    /\ Len(w) = m + k
    /\ \A i \in 1..m : w[i] = s[i]
    /\ \A i \in 1..k : w[m + i] = t[i]

\* Two sequences that are joined.
LEMMA JoinIs ==
    ASSUME NEW C, NEW s \in Seq(C), NEW t \in Seq(C)
    PROVE  s \o t \in Seq(C) /\ JoinCells(s \o t, s, t, Len(s), Len(t))
<1> DEFINE w == s \o t
           m == Len(s)
           k == Len(t)
<1>0. m \in Nat /\ k \in Nat
  OBVIOUS
<1>1. /\ w \in Seq(C) /\ Len(w) = m + k
      /\ \A i \in 1 .. m + k : w[i] = IF i <= m THEN s[i] ELSE t[i - m]
  BY ConcatProperties
<1> HIDE DEF w, m, k
<1>2. ASSUME NEW i \in 1..m PROVE w[i] = s[i]
  <2>1. i \in 1 .. m + k /\ i <= m
    BY <1>0
  <2> QED
    BY <1>1, <2>1
<1>3. ASSUME NEW i \in 1..k PROVE w[m + i] = t[i]
  <2>1. m + i \in 1 .. m + k /\ ~(m + i <= m) /\ (m + i) - m = i
    BY <1>0
  <2> QED
    BY <1>1, <2>1
<1> QED
  BY <1>1, <1>2, <1>3 DEF JoinCells, w, m, k

\* What a splice has and how often: the items of s without those that it
\* replaces, and those of x.
LEMMA SpliceIs ==
    ASSUME NEW C, NEW s \in Seq(C), NEW x \in Seq(C),
           NEW a \in 0..Len(s), NEW b \in a..Len(s), NEW u, Splices(u, s, a, b, x)
    PROVE  /\ u \in Seq(C) /\ Len(u) = a + Len(x) + (Len(s) - b)
           /\ \A y : Count(u, y) =
                     Count(s, y) - Count(SubSeq(s, a + 1, b), y) + Count(x, y)
<1> DEFINE h == SubSeq(s, 1, a)
           g == SubSeq(s, a + 1, b)
           v == SubSeq(s, b + 1, Len(s))
           m == a + Len(x)
           k == Len(s) - b
           n == Len(u)
<1>0. /\ Len(s) \in Nat /\ a \in Nat /\ b \in Nat /\ a <= b /\ b <= Len(s)
      /\ Len(x) \in Nat /\ m \in Nat /\ k \in Nat /\ n \in Nat /\ n = m + k
  <2>1. Len(s) \in Nat /\ a \in Nat /\ b \in Nat /\ a <= b /\ b <= Len(s) /\ Len(x) \in Nat
    OBVIOUS
  <2> QED
    BY <2>1 DEF Splices
<1>1. /\ h \in Seq(C) /\ Len(h) = a /\ \A i \in 1..a : h[i] = s[i]
  <2>1. 0 \in 0..Len(s) /\ a \in 0..Len(s) /\ 0 + 1 = 1 /\ a - 0 = a
    BY <1>0
  <2>2. /\ SubSeq(s, 0 + 1, a) \in Seq(C) /\ Len(SubSeq(s, 0 + 1, a)) = a - 0
        /\ \A i \in 1..a - 0 : SubSeq(s, 0 + 1, a)[i] = s[0 + i]
    BY <2>1, PartIs
  <2>3. \A i \in 1..a : 0 + i = i
    BY <1>0
  <2> QED
    BY <2>1, <2>2, <2>3
<1>2. g \in Seq(C) /\ Len(g) = b - a /\ \A i \in 1..b - a : g[i] = s[a + i]
  BY PartIs
<1>3. v \in Seq(C) /\ Len(v) = k /\ \A i \in 1..k : v[i] = s[b + i]
  <2>1. b \in 0..Len(s) /\ Len(s) \in b..Len(s)
    BY <1>0
  <2> QED
    BY <2>1, PartIs
<1> HIDE DEF h, g, v
<1> DEFINE hx == h \o x
           hg == h \o g
<1>4. hx \in Seq(C) /\ JoinCells(hx, h, x, a, Len(x))
  BY <1>1, JoinIs
<1>5. hg \in Seq(C) /\ JoinCells(hg, h, g, a, b - a)
  BY <1>1, <1>2, JoinIs
<1>6. \A y : Count(hx, y) = Count(h, y) + Count(x, y) /\ Count(hg, y) = Count(h, y) + Count(g, y)
  BY <1>1, <1>2, CountJoin
<1> HIDE DEF hx, hg
<1>a. Len(hx) = m /\ Len(hg) = b
  BY <1>0, <1>4, <1>5 DEF JoinCells
<1> DEFINE gw == hg \o v
           xw == hx \o v
<1>b. gw \in Seq(C) /\ JoinCells(gw, hg, v, b, k)
  <2> HIDE DEF k
  <2> QED
    BY <1>3, <1>5, <1>a, JoinIs
<1>c. xw \in Seq(C) /\ JoinCells(xw, hx, v, m, k)
  <2> HIDE DEF k, m
  <2> QED
    BY <1>3, <1>4, <1>a, JoinIs
<1> HIDE DEF gw, xw
<1>7. s = gw
  <2>1. Len(gw) = Len(s)
    BY <1>0, <1>b DEF JoinCells
  <2>2. ASSUME NEW i \in 1..Len(s) PROVE gw[i] = s[i]
    <3>1. CASE i <= a
      <4>1. i \in 1..a /\ i \in 1..b
        BY <1>0, <3>1
      <4> QED
        BY <1>1, <1>5, <1>b, <4>1 DEF JoinCells
    <3>2. CASE i > a /\ i <= b
      <4>1. i - a \in 1..b - a /\ a + (i - a) = i /\ i \in 1..b
        BY <1>0, <3>2
      <4>2. hg[a + (i - a)] = g[i - a]
        BY <1>5, <4>1 DEF JoinCells
      <4>3. g[i - a] = s[a + (i - a)]
        BY <1>2, <4>1
      <4> QED
        BY <1>b, <4>1, <4>2, <4>3 DEF JoinCells
    <3>3. CASE i > b
      <4>1. i - b \in 1..k /\ b + (i - b) = i
        BY <1>0, <3>3
      <4>2. gw[b + (i - b)] = v[i - b] /\ v[i - b] = s[b + (i - b)]
        BY <1>3, <1>b, <4>1 DEF JoinCells
      <4> QED
        BY <4>1, <4>2
    <3> QED
      BY <1>0, <3>1, <3>2, <3>3
  <2> QED
    BY <1>b, <2>1, <2>2, SeqEqual
<1>8. u = xw
  <2>1. ASSUME NEW i \in 1..n PROVE xw[i] = u[i]
    <3>1. CASE i <= a
      <4>1. i \in 1..a /\ i \in 1..m
        BY <1>0, <3>1
      <4>2. xw[i] = hx[i]
        BY <1>c, <4>1 DEF JoinCells
      <4>3. hx[i] = h[i]
        BY <1>4, <4>1 DEF JoinCells
      <4>4. h[i] = s[i]
        BY <1>1, <4>1
      <4>5. u[i] = s[i]
        BY <4>1 DEF Splices
      <4> QED
        BY <4>2, <4>3, <4>4, <4>5
    <3>2. CASE i > a /\ i <= m
      <4>1. i - a \in 1..Len(x) /\ a + (i - a) = i /\ i \in 1..m
        BY <1>0, <3>2
      <4>2. hx[a + (i - a)] = x[i - a]
        BY <1>4, <4>1 DEF JoinCells
      <4>3. u[a + (i - a)] = x[i - a]
        BY <4>1 DEF Splices
      <4> QED
        BY <1>c, <4>1, <4>2, <4>3 DEF JoinCells
    <3>3. CASE i > m
      <4>1. i - m \in 1..k /\ m + (i - m) = i
        BY <1>0, <3>3
      <4>2. u[m + (i - m)] = s[b + (i - m)]
        BY <4>1 DEF Splices
      <4>3. v[i - m] = s[b + (i - m)] /\ xw[m + (i - m)] = v[i - m]
        BY <1>3, <1>c, <4>1 DEF JoinCells
      <4> QED
        BY <4>1, <4>2, <4>3
    <3> QED
      BY <1>0, <3>1, <3>2, <3>3
  <2>2. xw = [i \in 1..n |-> xw[i]]
    <3>1. Len(xw) = n /\ DOMAIN xw = 1..Len(xw)
      BY <1>0, <1>c DEF JoinCells
    <3> HIDE DEF n
    <3> QED
      BY <1>c, <3>1
  <2>3. u = [i \in 1..n |-> u[i]]
    BY DEF Splices
  <2> HIDE DEF n
  <2> QED
    BY <2>1, <2>2, <2>3
<1>9. ASSUME NEW y
      PROVE  Count(u, y) = Count(s, y) - Count(g, y) + Count(x, y)
  <2>1. /\ Count(s, y) = Count(hg, y) + Count(v, y)
        /\ Count(u, y) = Count(hx, y) + Count(v, y)
    BY <1>3, <1>4, <1>5, <1>7, <1>8, CountJoin DEF gw, xw
  <2>2. Count(h, y) \in Nat /\ Count(g, y) \in Nat /\ Count(v, y) \in Nat /\ Count(x, y) \in Nat
    BY <1>1, <1>2, <1>3, CountIs
  <2> QED
    BY <1>6, <2>1, <2>2, SMTT(30)
<1> QED
  BY <1>8, <1>9, <1>c DEF g, Splices

\* The first n cells of a buffer.
LEMMA FirstIs ==
    ASSUME NEW c, NEW n \in Nat
    PROVE  /\ SubSeq(c, 1, n) = [i \in 1..Len(SubSeq(c, 1, n)) |-> SubSeq(c, 1, n)[i]]
           /\ Len(SubSeq(c, 1, n)) = n /\ \A i \in 1..n : SubSeq(c, 1, n)[i] = c[i]
<1> DEFINE S == {c[i] : i \in 1..n}
           u == SubSeq(c, 1, n)
<1>1. \A i \in 1..n : c[i] \in S
  OBVIOUS
<1> HIDE DEF S
<1>2. /\ u \in Seq(S) /\ Len(u) = IF 1 <= n THEN n - 1 + 1 ELSE 0
      /\ \A i \in 1 .. n - 1 + 1 : u[i] = c[1 + i - 1]
  BY <1>1, SubSeqProperties
<1>3. n - 1 + 1 = n /\ \A i \in 1..n : 1 + i - 1 = i
  OBVIOUS
<1> HIDE DEF u
<1>4. Len(u) = n /\ \A i \in 1..n : u[i] = c[i]
  BY <1>2, <1>3
<1>5. u = [i \in 1..Len(u) |-> u[i]]
  BY <1>2
<1> QED
  BY <1>4, <1>5 DEF u

(***************************************************************************)
(* What the calls do to the cells of a buffer.                             *)
(***************************************************************************)
\* A buffer of n cells that begins with s.
Buffered(c, s, n) == DOMAIN c = 1..n /\ \A i \in 1..Len(s) : c[i] = s[i]

\* The list's buffer begins with its items.
LEMMA CellsAre ==
    ASSUME NEW C, NEW s \in Seq(C), NEW n \in Nat, Len(s) <= n
    PROVE  Buffered(Cells(s, n), s, n)
<1> DEFINE k == n - Len(s)
           f == Fresh(k)
           S == C \cup {Junk}
<1>0. k \in Nat /\ Len(s) + k = n
  OBVIOUS
<1>1. f \in Seq(S) /\ Len(f) = k
  <2> HIDE DEF k
  <2> QED
    BY <1>0 DEF Fresh
<1>2. s \in Seq(S)
  OBVIOUS
<1> HIDE DEF k, f, S
<1>3. s \o f \in Seq(S) /\ JoinCells(s \o f, s, f, Len(s), k)
  BY <1>1, <1>2, JoinIs
<1>4. Cells(s, n) = s \o f
  BY DEF Cells, f, k
<1> DEFINE w == s \o f
<1>5. w \in Seq(S) /\ Len(w) = n /\ \A i \in 1..Len(s) : w[i] = s[i]
  BY <1>0, <1>3 DEF JoinCells
<1> HIDE DEF w
<1>6. DOMAIN w = 1..n
  BY <1>5
<1> QED
  BY <1>4, <1>5, <1>6 DEF Buffered, w

\* realloc keeps the items, in the old place or in the new one.
LEMMA AfterIs ==
    ASSUME NEW C, NEW s \in Seq(C), NEW b, b.alloclen \in Nat, Len(s) <= b.alloclen
    PROVE  Buffered(After(b, s, Len(s)), s, b.alloclen)
<1>1. CASE b.moved
  <2> DEFINE n == b.alloclen
  <2>1. n \in Nat /\ Len(s) <= n /\ Len(s) \in Nat
    OBVIOUS
  <2>2. After(b, s, Len(s)) = CopyCells(Fresh(n), 0, s, 0, Len(s))
    BY <1>1 DEF After
  <2> HIDE DEF n
  <2> DEFINE w == CopyCells(Fresh(n), 0, s, 0, Len(s))
  <2>3. DOMAIN w = 1..n
    BY DEF CopyCells, Fresh
  <2>4. ASSUME NEW i \in 1..Len(s) PROVE w[i] = s[i]
    <3>1. i \in 1..n /\ 0 < i /\ i <= 0 + Len(s) /\ i - 0 + 0 = i
      BY <2>1
    <3> QED
      BY <3>1 DEF CopyCells, Fresh
  <2> HIDE DEF w
  <2>5. Buffered(w, s, n)
    BY <2>3, <2>4 DEF Buffered
  <2> QED
    BY <2>2, <2>5 DEF w, n
<1>2. CASE ~b.moved
  <2>1. After(b, s, Len(s)) = Cells(s, b.alloclen)
    BY <1>2 DEF After
  <2> QED
    BY <2>1, CellsAre
<1> QED
  BY <1>1, <1>2

\* Items that are copied behind those of a buffer.
LEMMA AppendSplices ==
    ASSUME NEW C, NEW s \in Seq(C), NEW x \in Seq(C), NEW c, NEW n \in Nat,
           Len(s) + Len(x) <= n, Buffered(c, s, n)
    PROVE  Splices(SubSeq(CopyCells(c, Len(s), x, 0, Len(x)), 1, Len(s) + Len(x)),
                   s, Len(s), Len(s), x)
<1> DEFINE m == Len(s)
           k == Len(x)
           w == CopyCells(c, m, x, 0, k)
           u == SubSeq(w, 1, m + k)
<1>0. m \in Nat /\ k \in Nat /\ m + k \in Nat /\ m + k <= n
  OBVIOUS
<1>1. /\ u = [i \in 1..Len(u) |-> u[i]] /\ Len(u) = m + k
      /\ \A i \in 1..m + k : u[i] = w[i]
  <2> HIDE DEF w, m, k
  <2> QED
    BY <1>0, FirstIs
<1>2. \A i \in 1..n : w[i] = IF m < i /\ i <= m + k THEN x[i - m + 0] ELSE c[i]
  <2>1. DOMAIN c = 1..n
    BY DEF Buffered
  <2> QED
    BY <2>1 DEF CopyCells
<1> HIDE DEF w, u
<1>3. ASSUME NEW i \in 1..m PROVE u[i] = s[i]
  <2>1. i \in 1..m + k /\ i \in 1..n /\ ~(m < i)
    BY <1>0
  <2> QED
    BY <1>1, <1>2, <2>1 DEF Buffered
<1>4. ASSUME NEW i \in 1..k PROVE u[m + i] = x[i]
  <2>1. /\ m + i \in 1..m + k /\ m + i \in 1..n /\ m < m + i /\ m + i <= m + k
        /\ (m + i) - m + 0 = i
    BY <1>0
  <2>2. u[m + i] = x[(m + i) - m + 0]
    BY <1>1, <1>2, <2>1
  <2> QED
    BY <2>1, <2>2
<1>5. Len(u) = m + k + (m - m) /\ 1..m - m = {}
  BY <1>0, <1>1
<1> QED
  BY <1>1, <1>3, <1>4, <1>5 DEF Splices, u, w

\* A buffer in which the items behind stop were moved by g, and those before
\* start are in place.
Shifted(c, s, start, stop, g, n) ==
    /\ DOMAIN c = 1..n
    /\ \A i \in 1..n : /\ stop + g < i /\ i <= Len(s) + g => c[i] = s[i - g]
                       /\ ~(stop + g < i /\ i <= Len(s) + g) /\ i <= start => c[i] = s[i]

\* Where the slice starts and stops, and by how much the list grows.
Grows(s, x, start, stop, g) ==
    /\ start \in 0..Len(s) /\ stop \in 0..Len(s)
    /\ g = Len(x) - IF start <= stop THEN stop - start ELSE 0

\* The buffer is still the same: elemmove makes the gap in place.
LEMMA MovedInPlace ==
    ASSUME NEW C, NEW s \in Seq(C), NEW x \in Seq(C), NEW start, NEW stop, NEW g,
           Grows(s, x, start, stop, g), NEW c, NEW n \in Nat,
           Len(s) <= n, Len(s) + g <= n, Buffered(c, s, n)
    PROVE  Shifted(ElemMove(c, Len(s), stop + g, stop), s, start, stop, g, n)
<1> DEFINE m == Len(s)
           d == stop + g
           w == ElemMove(c, m, d, stop)
<1>0. /\ m \in Nat /\ start \in 0..m /\ stop \in 0..m /\ g \in Int /\ Len(x) \in Nat
      /\ g = Len(x) - IF start <= stop THEN stop - start ELSE 0
      /\ m <= n /\ m + g <= n
  <2>1. m \in Nat /\ start \in 0..m /\ stop \in 0..m /\ Len(x) \in Nat
    BY DEF Grows
  <2> QED
    BY <2>1 DEF Grows
<1>1. /\ DOMAIN w = 1..n
      /\ \A i \in 1..n : w[i] = IF d < i /\ i <= d + (m - stop)
                                THEN c[i - d + stop] ELSE c[i]
  <2>1. DOMAIN c = 1..n
    BY DEF Buffered
  <2> QED
    BY <2>1 DEF ElemMove, Move, CopyCells
<1> HIDE DEF w
<1>2. \A i \in 1..m : c[i] = s[i]
  BY DEF Buffered
<1> HIDE DEF m
<1>3. ASSUME NEW i \in 1..n
      PROVE  /\ d < i /\ i <= m + g => w[i] = s[i - g]
             /\ ~(d < i /\ i <= m + g) /\ i <= start => w[i] = s[i]
  <2>1. d + (m - stop) = m + g /\ i - d + stop = i - g
    BY <1>0
  <2>2. d < i /\ i <= m + g => i - g \in 1..m
    BY <1>0, SMTT(30)
  <2>3. i <= start => i \in 1..m
    BY <1>0
  <2> HIDE DEF d
  <2> QED
    BY <1>1, <1>2, <2>1, <2>2, <2>3
<1> QED
  BY <1>1, <1>3 DEF Shifted, w, m

\* There is a new buffer: what is before the slice and what is behind it
\* are copied to it.
LEMMA MovedApart ==
    ASSUME NEW C, NEW s \in Seq(C), NEW x \in Seq(C), NEW start, NEW stop, NEW g,
           Grows(s, x, start, stop, g), NEW n \in Nat
    PROVE  Shifted(CopyCells(CopyCells(Fresh(n), 0, s, 0, start),
                             stop + g, s, stop, Len(s) - stop), s, start, stop, g, n)
<1> DEFINE m == Len(s)
           d == stop + g
           v == CopyCells(Fresh(n), 0, s, 0, start)
           w == CopyCells(v, d, s, stop, m - stop)
<1>0. /\ m \in Nat /\ start \in 0..m /\ stop \in 0..m /\ g \in Int
  <2>1. m \in Nat /\ start \in 0..m /\ stop \in 0..m /\ Len(x) \in Nat
    BY DEF Grows
  <2> QED
    BY <2>1 DEF Grows
<1>1. /\ DOMAIN v = 1..n
      /\ \A i \in 1..n : 0 < i /\ i <= 0 + start => v[i] = s[i - 0 + 0]
  BY DEF CopyCells, Fresh
<1> HIDE DEF v
<1>2. /\ DOMAIN w = 1..n
      /\ \A i \in 1..n : w[i] = IF d < i /\ i <= d + (m - stop)
                                THEN s[i - d + stop] ELSE v[i]
  BY <1>1 DEF CopyCells
<1> HIDE DEF w, m
<1>3. ASSUME NEW i \in 1..n
      PROVE  /\ d < i /\ i <= m + g => w[i] = s[i - g]
             /\ ~(d < i /\ i <= m + g) /\ i <= start => w[i] = s[i]
  <2>1. d + (m - stop) = m + g /\ i - d + stop = i - g
    BY <1>0
  <2>2. i - 0 + 0 = i /\ 0 + start = start /\ 0 < i
    BY <1>0
  <2> HIDE DEF d
  <2> QED
    BY <1>1, <1>2, <2>1, <2>2
<1> QED
  BY <1>2, <1>3 DEF Shifted, w, m, v

\* The new items are put into the gap.
Refilled(c, s, x, start, g) ==
    SubSeq(CopyCells(c, start, x, 0, Len(x)), 1, Len(s) + g)

\* Once the new items are in the gap, the list is spliced.
LEMMA PutSplices ==
    ASSUME NEW C, NEW s \in Seq(C), NEW x \in Seq(C), NEW start, NEW stop, NEW g,
           Grows(s, x, start, stop, g), NEW c, NEW n \in Nat, Len(s) + g <= n,
           Shifted(c, s, start, stop, g, n)
    PROVE  /\ Refilled(c, s, x, start, g) \in Seq(C)
           /\ Len(Refilled(c, s, x, start, g)) = Len(s) + g
           /\ start <= stop => Splices(Refilled(c, s, x, start, g), s, start, stop, x)
<1> DEFINE u == Refilled(c, s, x, start, g)
           m == Len(s)
           k == Len(x)
           w == CopyCells(c, start, x, 0, k)
<1>0. /\ m \in Nat /\ start \in 0..m /\ stop \in 0..m /\ g \in Int /\ k \in Nat
      /\ g = k - IF start <= stop THEN stop - start ELSE 0
      /\ m + g <= n /\ m + g \in Nat /\ start + k <= m + g
  <2>1. m \in Nat /\ start \in 0..m /\ stop \in 0..m /\ k \in Nat
    BY DEF Grows
  <2> QED
    BY <2>1 DEF Grows
<1>1. /\ u = [i \in 1..Len(u) |-> u[i]] /\ Len(u) = m + g
      /\ \A i \in 1..m + g : u[i] = w[i]
  <2> DEFINE l == m + g
             v == SubSeq(w, 1, l)
  <2>1. l \in Nat /\ u = v
    BY <1>0 DEF Refilled
  <2> HIDE DEF w, l
  <2>2. /\ v = [i \in 1..Len(v) |-> v[i]] /\ Len(v) = l
        /\ \A i \in 1..l : v[i] = w[i]
    BY <2>1, FirstIs
  <2> HIDE DEF v
  <2> QED
    BY <2>1, <2>2 DEF l
<1>2. \A i \in 1..n : w[i] = IF start < i /\ i <= start + k THEN x[i - start + 0] ELSE c[i]
  <2>1. DOMAIN c = 1..n
    BY DEF Shifted
  <2> QED
    BY <2>1 DEF CopyCells
<1>3. \A i \in 1..n : /\ stop + g < i /\ i <= m + g => c[i] = s[i - g]
                      /\ ~(stop + g < i /\ i <= m + g) /\ i <= start => c[i] = s[i]
  BY DEF Shifted
<1>4. \A i \in 1..m : s[i] \in C
  OBVIOUS
<1>5. \A i \in 1..k : x[i] \in C
  OBVIOUS
<1> HIDE DEF u, w, m, k
<1>6. ASSUME NEW i \in 1..m + g PROVE u[i] \in C
  <2>0. i \in 1..n
    BY <1>0
  <2>1. CASE start < i /\ i <= start + k
    <3>1. i - start + 0 \in 1..k
      BY <1>0, <2>1
    <3> QED
      BY <1>1, <1>2, <1>5, <2>0, <2>1, <3>1
  <2>2. CASE ~(start < i /\ i <= start + k) /\ stop + g < i
    <3>1. i <= m + g /\ i - g \in 1..m
      BY <1>0, <2>2
    <3> QED
      BY <1>1, <1>2, <1>3, <1>4, <2>0, <2>2, <3>1
  <2>3. CASE ~(start < i /\ i <= start + k) /\ ~(stop + g < i)
    <3>1. i <= start /\ i \in 1..m
      BY <1>0, <2>3
    <3> QED
      BY <1>1, <1>2, <1>3, <1>4, <2>0, <2>3, <3>1
  <2> QED
    BY <2>1, <2>2, <2>3
<1>7. u \in Seq(C)
  <2> DEFINE l == Len(u)
  <2>1. l \in Nat /\ \A i \in 1..l : u[i] \in C
    BY <1>0, <1>1, <1>6
  <2>2. u = [i \in 1..l |-> u[i]]
    BY <1>1
  <2> HIDE DEF l
  <2>3. u \in [1..l -> C]
    BY <2>1, <2>2
  <2> QED
    BY ONLY <2>1, <2>3
<1>8. ASSUME start <= stop
      PROVE  Splices(u, s, start, stop, x)
  <2>0. g = k - (stop - start) /\ stop + g = start + k
    BY <1>0, <1>8
  <2>1. ASSUME NEW i \in 1..start PROVE u[i] = s[i]
    <3>1. i \in 1..m + g /\ i \in 1..n /\ ~(start < i) /\ ~(stop + g < i) /\ i <= start
      BY <1>0, <2>0
    <3> QED
      BY <1>1, <1>2, <1>3, <3>1
  <2>2. ASSUME NEW i \in 1..k PROVE u[start + i] = x[i]
    <3>1. /\ start + i \in 1..m + g /\ start + i \in 1..n /\ start < start + i
          /\ start + i <= start + k /\ (start + i) - start + 0 = i
      BY <1>0
    <3>2. u[start + i] = x[(start + i) - start + 0]
      BY <1>1, <1>2, <3>1
    <3> QED
      BY <3>1, <3>2
  <2>3. ASSUME NEW i \in 1..m - stop PROVE u[start + k + i] = s[stop + i]
    <3>1. /\ start + k + i \in 1..m + g /\ start + k + i \in 1..n
          /\ ~(start + k + i <= start + k)
          /\ stop + g < start + k + i /\ start + k + i <= m + g
          /\ (start + k + i) - g = stop + i
      BY <1>0, <2>0
    <3>2. u[start + k + i] = c[start + k + i]
      BY <1>1, <1>2, <3>1
    <3>3. c[start + k + i] = s[(start + k + i) - g]
      BY <1>3, <3>1
    <3> QED
      BY <3>1, <3>2, <3>3
  <2>4. Len(u) = start + k + (m - stop)
    <3>1. m + g = start + k + (m - stop)
      BY <1>0, <2>0
    <3> QED
      BY <1>1, <3>1
  <2> QED
    BY <1>1, <2>1, <2>2, <2>3, <2>4 DEF Splices, m, k, u
<1> QED
  BY <1>1, <1>7, <1>8 DEF m, u

(***************************************************************************)
(* The calls on a list, as far as they concern its items.                  *)
(***************************************************************************)
\* The list's own cells, buffer and references.
BufferOK ==
    /\ array \in Seq(Items) /\ alloclen \in Nat /\ alloclen <= LenMax /\ inline \in BOOLEAN
    /\ refs \in [Items -> Int]
    /\ BufferFits

\* References come and go with the places of the items.
Even == \A x \in Items : refs'[x] - Count(array', x) = refs[x] - Count(array, x)

\* Whatever size the allocator grants, it is one that was asked for.
LEMMA BuffersAre ==
    ASSUME NEW n \in Nat, NEW b \in Buffers(n)
    PROVE  /\ b.alloclen \in Nat /\ b.alloclen <= LenMax /\ n <= b.alloclen /\ b.inline \in BOOLEAN
           /\ b.inline => b.alloclen <= InlineRoom
<1>0. InlineLen \in Nat /\ InlineRoom \in Nat
   /\ LenMax \in Nat /\ InlineLen <= InlineRoom /\ InlineRoom <= LenMax /\ InlineLen <= LenMax
  BY ListAssumption
<1>1. CASE n <= InlineLen
  <2>1. b \in {[moved |-> ~inline, inline |-> TRUE, alloclen |-> InlineLen]}
    BY <1>1 DEF Buffers
  <2>2. b.inline = TRUE /\ b.alloclen = InlineLen
    BY <2>1
  <2> QED
    BY <1>0, <1>1, <2>2
<1>2. CASE ~(n <= InlineLen)
  <2> DEFINE A == {k \in n..LenMax : k - n \in Slack}
             M == IF inline THEN {TRUE} ELSE BOOLEAN
  <2>1. b \in [moved : M, inline : {FALSE}, alloclen : A]
    BY <1>2 DEF Buffers
  <2> HIDE DEF A, M
  <2>2. b.inline = FALSE /\ b.alloclen \in A
    BY <2>1
  <2>3. \A k \in A : k \in Nat /\ n <= k /\ k <= LenMax
    BY <1>0 DEF A
  <2> QED
    BY <2>2, <2>3
<1> QED
  BY <1>1, <1>2

\* Nothing happens to the items.
LEMMA StaysEven ==
    ASSUME BufferOK, UNCHANGED bufVars
    PROVE  BufferOK' /\ Even
BY DEF BufferOK, BufferFits, Even, bufVars

\* Items x take the place of those of array[start:stop].
LEMMA SpliceEven ==
    ASSUME BufferOK, NEW x \in Seq(Items), NEW a \in 0..Len(array), NEW b \in a..Len(array),
           Splices(array', array, a, b, x),
           refs' = [y \in Items |-> refs[y] - Count(SubSeq(array, a + 1, b), y) + Count(x, y)]
    PROVE  /\ array' \in Seq(Items) /\ Len(array') = a + Len(x) + (Len(array) - b)
           /\ refs' \in [Items -> Int] /\ Even
<1> DEFINE g == SubSeq(array, a + 1, b)
           u == array'
<1>0. array \in Seq(Items) /\ refs \in [Items -> Int]
  BY DEF BufferOK
<1>1. /\ u \in Seq(Items) /\ Len(u) = a + Len(x) + (Len(array) - b)
      /\ \A y : Count(u, y) = Count(array, y) - Count(g, y) + Count(x, y)
  <2>1. Splices(u, array, a, b, x)
    OBVIOUS
  <2> HIDE DEF u
  <2> QED
    BY <1>0, <2>1, SpliceIs
<1>2. g \in Seq(Items)
  BY <1>0, PartIs
<1> HIDE DEF g, u
<1>3. \A y : Count(g, y) \in Nat /\ Count(x, y) \in Nat /\ Count(array, y) \in Nat
  BY <1>0, <1>2, CountIs
<1>4. refs' = [y \in Items |-> refs[y] - Count(g, y) + Count(x, y)]
  BY DEF g
<1>5. refs' \in [Items -> Int]
  BY <1>0, <1>3, <1>4
<1>6. ASSUME NEW y \in Items
      PROVE  refs'[y] - Count(u, y) = refs[y] - Count(array, y)
  <2>1. refs'[y] = refs[y] - Count(g, y) + Count(x, y)
    BY <1>4
  <2>2. refs[y] \in Int
    BY <1>0
  <2> QED
    BY <1>1, <1>3, <2>1, <2>2, SMTT(30)
<1> QED
  BY <1>1, <1>5, <1>6 DEF Even, u

\* An empty part has nothing to count.
LEMMA NoPart ==
    ASSUME NEW s, NEW a \in Int, NEW x
    PROVE  Count(SubSeq(s, a + 1, a), x) = 0
<1>1. SubSeq(s, a + 1, a) = <<>>
  <2>1. a + 1 \in Int /\ a < a + 1
    OBVIOUS
  <2> QED
    BY <2>1, SubSeqEmpty
<1> QED
  BY <1>1, CountNone

\* _ypTuple_push and _ypTuple_extend_fromtuple.
LEMMA AppendAllEven ==
    ASSUME BufferOK, NEW s \in Seq(Items), AppendAll(s)
    PROVE  BufferOK' /\ Even
<1> DEFINE m == Len(array)
           n == m + Len(s)
<1>0. /\ array \in Seq(Items) /\ alloclen \in Nat /\ alloclen <= LenMax /\ refs \in [Items -> Int]
      /\ m \in Nat /\ Len(s) \in Nat /\ n \in Nat /\ m <= alloclen
      /\ inline \in BOOLEAN /\ (inline => alloclen <= InlineRoom)
  BY DEF BufferOK, BufferFits
<1>1. ASSUME NEW c, NEW k \in Nat, n <= k, Buffered(c, array, k),
             array' = SubSeq(CopyCells(c, m, s, 0, Len(s)), 1, n), Incref(s),
             alloclen' = k, k <= LenMax, inline' \in BOOLEAN, inline' => k <= InlineRoom
      PROVE  BufferOK' /\ Even
  <2>1. Splices(array', array, m, m, s)
    BY <1>0, <1>1, AppendSplices
  <2>2. refs' = [y \in Items |-> refs[y] - Count(SubSeq(array, m + 1, m), y) + Count(s, y)]
    <3>1. \A y \in Items : refs[y] + Count(s, y) = refs[y] - 0 + Count(s, y)
      <4>1. \A y \in Items : refs[y] \in Int /\ Count(s, y) \in Nat
        BY <1>0, CountIs
      <4> QED
        BY <4>1
    <3>2. \A y \in Items : Count(SubSeq(array, m + 1, m), y) = 0
      BY <1>0, NoPart
    <3> HIDE DEF m
    <3> QED
      BY <1>1, <3>1, <3>2 DEF Incref
  <2>3. m \in 0..Len(array) /\ m \in m..Len(array)
    BY <1>0
  <2>4. /\ array' \in Seq(Items) /\ Len(array') = m + Len(s) + (Len(array) - m)
        /\ refs' \in [Items -> Int] /\ Even
    <3> HIDE DEF m
    <3> QED
      BY <2>1, <2>2, <2>3, SpliceEven
  <2>5. Len(array') <= k
    BY <1>0, <1>1, <2>4
  <2> QED
    BY <1>1, <2>4, <2>5 DEF BufferOK, BufferFits
<1>2. CASE UNCHANGED bufVars
  BY <1>2, StaysEven
<1>3. ASSUME NEW b \in Buffers(n), Take(b), Incref(s),
             array' = SubSeq(CopyCells(After(b, array, m), m, s, 0, Len(s)), 1, n)
      PROVE  BufferOK' /\ Even
  <2>1. /\ b.alloclen \in Nat /\ b.alloclen <= LenMax /\ n <= b.alloclen /\ b.inline \in BOOLEAN
        /\ b.inline => b.alloclen <= InlineRoom
    <3> HIDE DEF n
    <3> QED
      BY <1>0, BuffersAre
  <2>2. Buffered(After(b, array, m), array, b.alloclen)
    BY <1>0, <2>1, AfterIs
  <2>3. alloclen' = b.alloclen /\ inline' = b.inline
    BY <1>3 DEF Take
  <2> HIDE DEF n, m
  <2> QED
    BY <1>1, <1>3, <2>1, <2>2, <2>3
<1>4. CASE /\ Keep /\ Incref(s) /\ n <= alloclen
           /\ array' = SubSeq(CopyCells(Cells(array, alloclen), m, s, 0, Len(s)), 1, n)
  <2>1. Buffered(Cells(array, alloclen), array, alloclen)
    BY <1>0, CellsAre
  <2>2. alloclen' = alloclen /\ inline' = inline
    BY <1>4 DEF Keep
  <2> HIDE DEF n, m
  <2> QED
    BY <1>0, <1>1, <1>4, <2>1, <2>2
<1>5. \/ UNCHANGED bufVars
      \/ \E b \in Buffers(n) : /\ Take(b) /\ Incref(s)
            /\ array' = SubSeq(CopyCells(After(b, array, m), m, s, 0, Len(s)), 1, n)
      \/ /\ Keep /\ Incref(s) /\ ~(alloclen < n)
         /\ array' = SubSeq(CopyCells(Cells(array, alloclen), m, s, 0, Len(s)), 1, n)
  BY DEF AppendAll, GrowAnyway, Unchanged
<1> HIDE DEF m
<1>6. ~(alloclen < n) => n <= alloclen
  BY <1>0
<1> HIDE DEF n
<1> QED
  BY <1>2, <1>3, <1>4, <1>5, <1>6

\* _ypTuple_setslice_grow and _ypTuple_setslice_elemmove.
LEMMA ReplacePartEven ==
    ASSUME BufferOK, NEW x \in Seq(Items), NEW start, NEW stop, NEW g,
           Grows(array, x, start, stop, g), ReplacePart(start, stop, g, x)
    PROVE  BufferOK' /\ (start <= stop => Even)
<1> DEFINE m == Len(array)
           n == m + g
           gone == SubSeq(array, start + 1, stop)
           Put(c) == /\ array' = SubSeq(CopyCells(c, start, x, 0, Len(x)), 1, n)
                     /\ refs' = [y \in Items |-> refs[y] - Count(gone, y) + Count(x, y)]
           InPlace(k) == ElemMove(Cells(array, k), m, stop + g, stop)
           Split(k) == CopyCells(CopyCells(Fresh(k), 0, array, 0, start),
                                 stop + g, array, stop, m - stop)
<1>0. /\ array \in Seq(Items) /\ alloclen \in Nat /\ alloclen <= LenMax /\ refs \in [Items -> Int]
      /\ m \in Nat /\ Len(x) \in Nat /\ m <= alloclen
      /\ inline \in BOOLEAN /\ (inline => alloclen <= InlineRoom)
      /\ start \in 0..m /\ stop \in 0..m /\ start \in Int /\ stop \in Int
  BY DEF BufferOK, BufferFits, Grows
<1>a. n \in Nat /\ g \in Int
  <2>1. g = Len(x) - IF start <= stop THEN stop - start ELSE 0
    BY DEF Grows
  <2> QED
    BY <1>0, <2>1
<1>g. \A y \in Items : Count(gone, y) \in Int /\ Count(x, y) \in Int
  <2>1. gone \in Seq(Items)
    <3>1. CASE start <= stop
      <4>1. start \in 0..Len(array) /\ stop \in start..Len(array)
        BY <1>0, <3>1
      <4> QED
        BY <1>0, <4>1, PartIs
    <3>2. CASE ~(start <= stop)
      <4>1. gone = <<>>
        BY <1>0, <3>2, SubSeqEmpty
      <4> HIDE DEF gone
      <4> QED
        BY <4>1, EmptySeq
    <3> QED
      BY <3>1, <3>2
  <2> HIDE DEF gone
  <2> QED
    BY <2>1, CountIs
<1>1. ASSUME NEW c, NEW k \in Nat, n <= k, Shifted(c, array, start, stop, g, k), Put(c),
             alloclen' = k, k <= LenMax, inline' \in BOOLEAN, inline' => k <= InlineRoom
      PROVE  BufferOK' /\ (start <= stop => Even)
  <2>1. array' = SubSeq(CopyCells(c, start, x, 0, Len(x)), 1, n)
    BY <1>1
  <2>2. /\ array' \in Seq(Items) /\ Len(array') = n
        /\ start <= stop => Splices(array', array, start, stop, x)
    <3> DEFINE u == array'
    <3>1. u = Refilled(c, array, x, start, g)
      BY <2>1 DEF Refilled
    <3>2. Len(array) + g <= k
      BY <1>1
    <3> HIDE DEF u
    <3>3. /\ u \in Seq(Items) /\ Len(u) = Len(array) + g
          /\ start <= stop => Splices(u, array, start, stop, x)
      <4>1. /\ array \in Seq(Items) /\ x \in Seq(Items) /\ k \in Nat
            /\ Grows(array, x, start, stop, g) /\ Shifted(c, array, start, stop, g, k)
        BY <1>0, <1>1
      <4> QED
        BY ONLY <3>1, <3>2, <4>1, PutSplices
    <3> QED
      BY <3>3 DEF u
  <2>3. refs' = [y \in Items |-> refs[y] - Count(gone, y) + Count(x, y)]
    BY <1>1
  <2>4. refs' \in [Items -> Int]
    <3> HIDE DEF gone
    <3> QED
      BY <1>0, <1>g, <2>3
  <2>5. ASSUME start <= stop PROVE Even
    <3>1. start \in 0..Len(array) /\ stop \in start..Len(array)
      BY <1>0, <2>5
    <3> QED
      BY <2>2, <2>3, <2>5, <3>1, SpliceEven
  <2>6. BufferOK'
    <3>1. Len(array') <= k
      BY <1>1, <2>2
    <3> HIDE DEF n
    <3> QED
      BY <1>1, <2>2, <2>4, <3>1 DEF BufferOK, BufferFits
  <2> QED
    BY <2>5, <2>6
<1>2. CASE UNCHANGED bufVars
  BY <1>2, StaysEven
<1>3. ASSUME NEW k \in Nat, m <= k, n <= k
      PROVE  Shifted(InPlace(k), array, start, stop, g, k)
  <2> DEFINE c == Cells(array, k)
  <2>1. Buffered(c, array, k)
    BY <1>0, <1>3, CellsAre
  <2> HIDE DEF c
  <2>2. Len(array) <= k /\ Len(array) + g <= k
    BY <1>3
  <2>3. Shifted(ElemMove(c, Len(array), stop + g, stop), array, start, stop, g, k)
    BY <1>0, <2>1, <2>2, MovedInPlace
  <2> QED
    BY <2>3 DEF c
<1>4. ASSUME NEW k \in Nat
      PROVE  Shifted(Split(k), array, start, stop, g, k)
  BY <1>0, MovedApart
<1>5. \/ UNCHANGED bufVars
      \/ \E b \in Buffers(n) :
            /\ Take(b) /\ g > 0
            /\ Put(IF b.moved THEN Split(b.alloclen) ELSE InPlace(b.alloclen))
      \/ ~(g > 0 /\ alloclen < n) /\ Keep /\ Put(InPlace(alloclen))
  BY DEF ReplacePart, Unchanged
<1> HIDE DEF Put, InPlace, Split
<1>6. ASSUME NEW b \in Buffers(n), Take(b), g > 0,
             Put(IF b.moved THEN Split(b.alloclen) ELSE InPlace(b.alloclen))
      PROVE  BufferOK' /\ (start <= stop => Even)
  <2>1. /\ b.alloclen \in Nat /\ b.alloclen <= LenMax /\ n <= b.alloclen /\ b.inline \in BOOLEAN
        /\ b.inline => b.alloclen <= InlineRoom
    <3> HIDE DEF n
    <3> QED
      BY <1>a, BuffersAre
  <2> DEFINE k == b.alloclen
             c == IF b.moved THEN Split(k) ELSE InPlace(k)
  <2>2. m <= k
    BY <1>0, <1>a, <1>6, <2>1
  <2>3. Shifted(c, array, start, stop, g, k)
    BY <1>3, <1>4, <2>1, <2>2
  <2>4. alloclen' = k /\ inline' = b.inline /\ Put(c)
    BY <1>6 DEF Take
  <2> HIDE DEF c, n, m
  <2> QED
    BY <1>1, <2>1, <2>3, <2>4
<1>7. CASE ~(g > 0 /\ alloclen < n) /\ Keep /\ Put(InPlace(alloclen))
  <2>1. n <= alloclen
    BY <1>0, <1>a, <1>7
  <2>2. Shifted(InPlace(alloclen), array, start, stop, g, alloclen)
    BY <1>0, <1>3, <2>1
  <2>3. alloclen' = alloclen /\ inline' = inline
    BY <1>7 DEF Keep
  <2> HIDE DEF n, m
  <2> QED
    BY <1>0, <1>1, <1>7, <2>1, <2>2, <2>3
<1> QED
  BY <1>2, <1>5, <1>6, <1>7

\* A part of one item.
LEMMA OneCell ==
    ASSUME NEW C, NEW s \in Seq(C), NEW a \in 0..Len(s) - 1
    PROVE  SubSeq(s, a + 1, a + 1) = <<s[a + 1]>>
<1> DEFINE b == a + 1
           u == SubSeq(s, a + 1, b)
           one == <<s[b]>>
<1>0. Len(s) \in Nat /\ a \in 0..Len(s) /\ b \in a..Len(s) /\ b - a = 1 /\ s[b] \in C
  OBVIOUS
<1>1. u \in Seq(C) /\ Len(u) = b - a /\ \A i \in 1..b - a : u[i] = s[a + i]
  <2> HIDE DEF b
  <2> QED
    BY <1>0, PartIs
<1>2. one \in Seq(C) /\ Len(one) = 1 /\ one[1] = s[b]
  BY <1>0
<1> HIDE DEF u, one
<1>3. Len(u) = 1 /\ \A i \in 1..1 : u[i] = one[i]
  BY <1>0, <1>1, <1>2
<1>4. u = one
  BY <1>1, <1>2, <1>3, SeqEqual
<1> QED
  BY <1>4 DEF u, one

\* The item at offset a takes its reference with it.
LEMMA DropEven ==
    ASSUME BufferOK, NEW a \in 0..Len(array) - 1, Splices(array', array, a, a + 1, <<>>),
           Decref(<<array[a + 1]>>), Keep
    PROVE  BufferOK' /\ Even
<1> DEFINE m == Len(array)
           e == array[a + 1]
           none == <<>>
<1>0. /\ array \in Seq(Items) /\ alloclen \in Nat /\ alloclen <= LenMax /\ refs \in [Items -> Int]
      /\ m \in Nat /\ m <= alloclen /\ a \in Nat /\ a \in 0..m /\ a + 1 \in a..m
      /\ inline \in BOOLEAN /\ (inline => alloclen <= InlineRoom) /\ e \in Items
  BY DEF BufferOK, BufferFits
<1>1. none \in Seq(Items) /\ Len(none) = 0 /\ \A y : Count(none, y) = 0
  BY EmptySeq, CountNone
<1>2. SubSeq(array, a + 1, a + 1) = <<e>>
  BY <1>0, OneCell
<1>3. \A y \in Items : refs[y] \in Int /\ Count(<<e>>, y) \in Int
  <2> HIDE DEF e
  <2> QED
    BY <1>0, CountOne
<1>4. refs' = [y \in Items |-> refs[y] - Count(SubSeq(array, a + 1, a + 1), y) + Count(none, y)]
  <2>1. refs' = [y \in Items |-> refs[y] - Count(<<e>>, y)]
    BY DEF Decref
  <2>2. \A y \in Items : refs[y] - Count(<<e>>, y) = refs[y] - Count(<<e>>, y) + Count(none, y)
    <3> HIDE DEF e, none
    <3> QED
      BY <1>1, <1>3
  <2> HIDE DEF e, none
  <2> QED
    BY <1>2, <2>1, <2>2
<1>5. Splices(array', array, a, a + 1, none)
  OBVIOUS
<1>6. /\ array' \in Seq(Items) /\ Len(array') = a + Len(none) + (m - (a + 1))
      /\ refs' \in [Items -> Int] /\ Even
  <2> DEFINE b == a + 1
  <2>1. b \in a..Len(array) /\ a \in 0..Len(array)
    BY <1>0
  <2>2. /\ Splices(array', array, a, b, none)
        /\ refs' = [y \in Items |-> refs[y] - Count(SubSeq(array, a + 1, b), y) + Count(none, y)]
    BY <1>4, <1>5
  <2> HIDE DEF b, none
  <2>3. /\ array' \in Seq(Items) /\ Len(array') = a + Len(none) + (Len(array) - b)
        /\ refs' \in [Items -> Int] /\ Even
    BY <1>1, <2>1, <2>2, SpliceEven
  <2> QED
    BY <2>3 DEF b
<1>7. Len(array') <= alloclen
  <2> HIDE DEF none
  <2> QED
    BY <1>0, <1>1, <1>6
<1> QED
  BY <1>0, <1>6, <1>7 DEF BufferOK, BufferFits, Keep

\* _ypTuple_popindex.
LEMMA PopAtEven ==
    ASSUME BufferOK, NEW i \in Int, NEW r, PopAt(i, r)
    PROVE  BufferOK' /\ Even
<1> DEFINE m == Len(array)
           j == Adjusted(m, i)
           c == ElemMove(array, m, j, j + 1)
<1>0. array \in Seq(Items) /\ m \in Nat /\ j \in Int
  BY DEF BufferOK, Adjusted
<1>1. CASE ~InBounds(m, i)
  <2>1. UNCHANGED bufVars
    BY <1>1 DEF PopAt, Unchanged
  <2> QED
    BY <2>1, StaysEven
<1>2. CASE InBounds(m, i)
  <2>0. /\ array' = SubSeq(c, 1, m - 1) /\ Decref(<<array[j + 1]>>) /\ Keep
    BY <1>2 DEF PopAt
  <2>1. j \in 0..m - 1 /\ m - 1 \in Nat
    BY <1>0, <1>2 DEF InBounds
  <2> HIDE DEF j
  <2>2. \A k \in 1..m : c[k] = IF j < k /\ k <= j + (m - (j + 1)) THEN array[k - j + (j + 1)]
                               ELSE array[k]
    BY <1>0 DEF ElemMove, Move, CopyCells
  <2> HIDE DEF c
  <2>3. /\ array' = [k \in 1..Len(array') |-> array'[k]] /\ Len(array') = m - 1
        /\ \A k \in 1..m - 1 : array'[k] = c[k]
    <3> DEFINE n == m - 1
               u == SubSeq(c, 1, n)
    <3>1. n \in Nat /\ array' = u
      BY <2>0, <2>1
    <3> HIDE DEF n
    <3>2. u = [k \in 1..Len(u) |-> u[k]] /\ Len(u) = n /\ \A k \in 1..n : u[k] = c[k]
      BY <3>1, FirstIs
    <3> HIDE DEF u
    <3> QED
      BY <3>1, <3>2 DEF n
  <2>4. ASSUME NEW k \in 1..j PROVE array'[k] = array[k]
    <3>1. k \in 1..m - 1 /\ k \in 1..m /\ ~(j < k)
      BY <1>0, <2>1
    <3> QED
      BY <2>2, <2>3, <3>1
  <2>5. ASSUME NEW k \in 1..m - (j + 1) PROVE array'[j + 0 + k] = array[(j + 1) + k]
    <3>1. /\ j + 0 + k \in 1..m - 1 /\ j + 0 + k \in 1..m /\ j < j + 0 + k
          /\ j + 0 + k <= j + (m - (j + 1)) /\ (j + 0 + k) - j + (j + 1) = (j + 1) + k
      BY <1>0, <2>1
    <3>2. array'[j + 0 + k] = array[(j + 0 + k) - j + (j + 1)]
      BY <2>2, <2>3, <3>1
    <3> QED
      BY <3>1, <3>2
  <2>6. Len(array') = j + 0 + (m - (j + 1))
    BY <1>0, <2>1, <2>3
  <2>7. Splices(array', array, j, j + 1, <<>>)
    <3> DEFINE none == <<>>
    <3>1. Len(none) = 0 /\ 1..0 = {}
      OBVIOUS
    <3> HIDE DEF none, m
    <3>2. Splices(array', array, j, j + 1, none)
      BY <2>3, <2>4, <2>5, <2>6, <3>1 DEF Splices, m
    <3> QED
      BY <3>2 DEF none
  <2> QED
    BY <2>0, <2>1, <2>7, DropEven
<1> QED
  BY <1>1, <1>2

\* Taking the last item.
LEMMA FrontEven ==
    ASSUME BufferOK, array # <<>>, array' = Front(array), Decref(<<Last(array)>>), Keep
    PROVE  BufferOK' /\ Even
<1> DEFINE m == Len(array)
           n == m - 1
           u == SubSeq(array, 1, n)
<1>0. array \in Seq(Items) /\ m \in Nat /\ m > 0 /\ n \in Nat /\ n + 1 = m /\ n \in 0..m - 1
  BY DEF BufferOK
<1>1. array' = u /\ Decref(<<array[n + 1]>>)
  BY <1>0 DEF Front, Last
<1> HIDE DEF n
<1>2. u = [k \in 1..Len(u) |-> u[k]] /\ Len(u) = n /\ \A k \in 1..n : u[k] = array[k]
  BY <1>0, FirstIs
<1> HIDE DEF u
<1>3. Splices(u, array, n, n + 1, <<>>)
  <2> DEFINE none == <<>>
  <2>1. Len(none) = 0 /\ 1..0 = {} /\ m - (n + 1) = 0 /\ n + 0 + 0 = n
    BY <1>0
  <2> HIDE DEF none
  <2>2. Splices(u, array, n, n + 1, none)
    BY <1>0, <1>2, <2>1 DEF Splices
  <2> QED
    BY <2>2 DEF none
<1> QED
  BY <1>0, <1>1, <1>3, DropEven

\* list_setindex gives back the old item and takes the new one.
LEMMA SetIndexEven ==
    ASSUME BufferOK, NEW i \in Int, NEW x \in Items, SetIndex(i, x)
    PROVE  BufferOK' /\ Even
<1> DEFINE m == Len(array)
           a == Adjusted(m, i)
           e == array[a + 1]
           one == <<x>>
<1>0. /\ array \in Seq(Items) /\ m \in Nat /\ a \in Int /\ alloclen \in Nat /\ alloclen <= LenMax /\ m <= alloclen
      /\ inline \in BOOLEAN /\ (inline => alloclen <= InlineRoom)
  BY DEF BufferOK, BufferFits, Adjusted
<1>1. CASE ~InBounds(m, i)
  <2>1. UNCHANGED bufVars
    BY <1>1 DEF SetIndex, Unchanged
  <2> QED
    BY <2>1, StaysEven
<1>2. CASE InBounds(m, i)
  <2>0. /\ array' = [array EXCEPT ![a + 1] = x] /\ Keep
        /\ refs' = [y \in Items |-> refs[y] - Count(<<e>>, y) + Count(<<x>>, y)]
    BY <1>2 DEF SetIndex
  <2>1. a \in 0..m /\ a + 1 \in a..m /\ a + 1 \in 1..m
    BY <1>0, <1>2 DEF InBounds
  <2>b. a \in 0..m - 1
    BY <1>0, <1>2 DEF InBounds
  <2> HIDE DEF a
  <2>2. /\ array' \in Seq(Items) /\ Len(array') = m
        /\ \A k \in 1..m : array'[k] = IF k = a + 1 THEN x ELSE array[k]
    BY <1>0, <2>0, <2>1
  <2>3. one \in Seq(Items) /\ Len(one) = 1 /\ one[1] = x
    OBVIOUS
  <2>4. Splices(array', array, a, a + 1, one)
    <3> HIDE DEF one
    <3>1. \A k \in 1..a : k \in 1..m /\ k # a + 1
      BY <1>0, <2>1
    <3>2. \A k \in 1..m - (a + 1) : /\ a + 1 + k \in 1..m /\ a + 1 + k # a + 1
      BY <1>0, <2>1
    <3>3. a + 1 + (m - (a + 1)) = m /\ \A k \in 1..1 : k = 1
      BY <1>0, <2>1
    <3>4. array' = [k \in 1..Len(array') |-> array'[k]]
      BY <2>2
    <3>5. \A k \in 1..a : array'[k] = array[k]
      BY <2>2, <3>1
    <3>6. \A k \in 1..Len(one) : array'[a + k] = one[k]
      BY <2>1, <2>2, <2>3, <3>3
    <3>7. \A k \in 1..m - (a + 1) : array'[a + Len(one) + k] = array[(a + 1) + k]
      BY <2>2, <2>3, <3>2
    <3>8. Len(array') = a + Len(one) + (m - (a + 1))
      BY <2>2, <2>3, <3>3
    <3> QED
      BY <3>4, <3>5, <3>6, <3>7, <3>8 DEF Splices
  <2>5. SubSeq(array, a + 1, a + 1) = <<e>>
    BY <1>0, <2>b, OneCell
  <2>6. /\ array' \in Seq(Items) /\ refs' \in [Items -> Int] /\ Even
    <3> DEFINE b == a + 1
    <3>1. b \in a..Len(array) /\ a \in 0..Len(array)
      BY <2>1
    <3>2. /\ Splices(array', array, a, b, one)
          /\ refs' = [y \in Items |-> refs[y] - Count(SubSeq(array, a + 1, b), y) + Count(one, y)]
      BY <2>0, <2>4, <2>5
    <3> HIDE DEF b, one
    <3> QED
      BY <2>3, <3>1, <3>2, SpliceEven
  <2> QED
    BY <1>0, <2>0, <2>2, <2>6 DEF BufferOK, BufferFits, Keep
<1> QED
  BY <1>1, <1>2

\* list_reverse
LEMMA ReverseEven ==
    ASSUME BufferOK, ReverseItems
    PROVE  BufferOK' /\ Even
<1>1. array \in Seq(Items) /\ array' = Swapped(array) /\ Keep /\ refs' = refs
  BY DEF BufferOK, ReverseItems
<1>2. /\ Swapped(array) \in Seq(Items) /\ Rearranged(Swapped(array), array)
      /\ Len(Swapped(array)) = Len(array)
  BY <1>1, SwappedKeeps
<1>3. array' \in Seq(Items) /\ Rearranged(array', array) /\ Len(array') = Len(array)
  BY <1>1, <1>2
<1>4. \A x : Count(array', x) = Count(array, x)
  BY <1>1, <1>3, CountRearranged
<1> QED
  BY <1>1, <1>3, <1>4 DEF BufferOK, BufferFits, Even, Keep

\* list_remove discards the first such item.
LEMMA RemovePops ==
    ASSUME BufferOK, NEW x, Remove1(x)
    PROVE  UNCHANGED bufVars \/ \E i \in Int : PopAt(i, "ok")
<1> DEFINE I == {i \in 1..Len(array) : array[i] = x}
           least == CHOOSE i \in I : \A j \in I : i <= j
           first == IF I # {} THEN least ELSE 0
<1>0. I \in SUBSET Nat
  BY DEF BufferOK
<1>1. IF first = 0 THEN Unchanged("ValueError") ELSE PopAt(first - 1, "ok")
  BY DEF Remove1, SelectInSeq, Min
<1>2. first \in Nat
  <2> HIDE DEF I
  <2>1. CASE I # {}
    <3>1. \E i \in I : \A j \in I : i <= j
      BY <1>0, <2>1, LeastNat
    <3>2. least \in I
      BY <3>1
    <3> QED
      BY <1>0, <2>1, <3>2
  <2> QED
    BY <2>1
<1> HIDE DEF first
<1>3. CASE first = 0
  BY <1>1, <1>3 DEF Unchanged
<1>4. CASE first # 0
  <2>1. first - 1 \in Int /\ PopAt(first - 1, "ok")
    BY <1>1, <1>2, <1>4
  <2> QED
    BY <2>1
<1> QED
  BY <1>3, <1>4

(***************************************************************************)
(* Slices: what the items behind a deleted one do, and where the items of  *)
(* an extended slice are.                                                  *)
(***************************************************************************)
\* Induction up to n.
LEMMA UpTo ==
    ASSUME NEW n \in Nat, NEW T, 0 \in T, \A k \in 0..n - 1 : k \in T => k + 1 \in T
    PROVE  \A k \in 0..n : k \in T
<1> DEFINE W == {k \in 0..n : k \notin T}
<1>1. ASSUME W # {} PROVE FALSE
  <2>1. W \in SUBSET Nat
    OBVIOUS
  <2>2. PICK k \in W : \A j \in W : k <= j
    BY <1>1, <2>1, LeastNat
  <2>3. k \in 1..n /\ k - 1 \in 0..n - 1 /\ k - 1 \in 0..n /\ (k - 1) + 1 = k /\ k \notin T
    OBVIOUS
  <2>4. k - 1 \in T
    BY <2>2, <2>3
  <2> QED
    BY <2>3, <2>4
<1> QED
  BY <1>1

\* Rounding down.
LEMMA DivIs ==
    ASSUME NEW a \in Nat, NEW b \in Nat \ {0}
    PROVE  a \div b \in Nat /\ (a \div b) * b <= a
OBVIOUS

\* Products grow with their factors.
LEMMA ProductIs ==
    ASSUME NEW i \in Nat, NEW j \in Nat, i <= j, NEW b \in Nat
    PROVE  i * b \in Nat /\ i * b <= j * b /\ (b > 0 => i <= i * b)
OBVIOUS

\* The parts of a sequence count the items between them.
LEMMA PartsCount ==
    ASSUME NEW C, NEW s \in Seq(C), NEW a \in 0..Len(s), NEW b \in a..Len(s), NEW c \in b..Len(s),
           NEW y
    PROVE  Count(SubSeq(s, a + 1, c), y) =
           Count(SubSeq(s, a + 1, b), y) + Count(SubSeq(s, b + 1, c), y)
<1> DEFINE u == SubSeq(s, a + 1, b)
           v == SubSeq(s, b + 1, c)
<1>1. u \in Seq(C)
  BY PartIs
<1>2. v \in Seq(C)
  <2>1. b \in 0..Len(s) /\ c \in b..Len(s)
    OBVIOUS
  <2> QED
    BY <2>1, PartIs
<1>3. SubSeq(s, a + 1, c) = u \o v
  <2>1. a + 1 \in 1..Len(s) + 1 /\ b \in (a + 1) - 1 .. Len(s) /\ c \in b..Len(s)
    OBVIOUS
  <2> QED
    BY <2>1, ConcatAdjacentSubSeq
<1> HIDE DEF u, v
<1>4. Count(u \o v, y) = Count(u, y) + Count(v, y)
  BY <1>1, <1>2, CountJoin
<1> QED
  BY <1>3, <1>4 DEF u, v

\* The first r items of s were dealt with: d of them stay in the first cells
\* of c, those in p are gone.
Slid(c, s, p, d, r, C) ==
    /\ c \in [1..Len(s) -> C] /\ p \in Seq(C)
    /\ r \in 0..Len(s) /\ d \in 0..r
    /\ \A i \in d + 1..Len(s) : c[i] = s[i]
    /\ \A y : Count(SubSeq(c, 1, d), y) + Count(p, y) = Count(SubSeq(s, 1, r), y)

\* Nothing has gone yet.
LEMMA SlideStarts ==
    ASSUME NEW C, NEW s \in Seq(C), NEW r \in 0..Len(s)
    PROVE  Slid(s, s, <<>>, r, r, C)
<1>1. s \in [1..Len(s) -> C] /\ <<>> \in Seq(C) /\ r \in 0..r
  BY EmptySeq
<1>2. ASSUME NEW y PROVE Count(SubSeq(s, 1, r), y) + Count(<<>>, y) = Count(SubSeq(s, 1, r), y)
  <2>1. SubSeq(s, 1, r) \in Seq(C)
    <3>1. 0 \in 0..Len(s) /\ r \in 0..Len(s) /\ 0 + 1 = 1
      OBVIOUS
    <3>2. SubSeq(s, 0 + 1, r) \in Seq(C)
      BY <3>1, PartIs
    <3> QED
      BY <3>1, <3>2
  <2>2. Count(SubSeq(s, 1, r), y) \in Nat
    BY <2>1, CountIs
  <2> QED
    BY <2>2, CountNone
<1> QED
  BY <1>1, <1>2 DEF Slid

\* Those up to f go, and those up to e slide down to them.
LEMMA SlideStep ==
    ASSUME NEW C, NEW s \in Seq(C), NEW c, NEW p, NEW d, NEW r, Slid(c, s, p, d, r, C),
           NEW f \in r..Len(s), NEW e \in f..Len(s)
    PROVE  Slid(Move(c, d, f, e - f), s, p \o SubSeq(s, r + 1, f), d + (e - f), e, C)
<1> DEFINE n == Len(s)
           w == Move(c, d, f, e - f)
           k == d + (e - f)
           g == SubSeq(s, r + 1, f)
           v == SubSeq(s, f + 1, e)
           h == SubSeq(c, 1, d)
           u == SubSeq(w, 1, k)
<1>0. /\ n \in Nat /\ r \in 0..n /\ d \in 0..r /\ f \in r..n /\ e \in f..n
      /\ c \in [1..n -> C] /\ p \in Seq(C) /\ \A i \in d + 1..n : c[i] = s[i]
      /\ \A y : Count(h, y) + Count(p, y) = Count(SubSeq(s, 1, r), y)
      /\ \A i \in 1..n : s[i] \in C
  BY DEF Slid
<1>1. k \in 0..e /\ k \in Nat /\ e \in 0..n /\ r \in Nat /\ d \in Nat /\ f \in 0..n /\ k = d + (e - f)
  BY <1>0
<1>2. \A i \in 1..n : w[i] = IF d < i /\ i <= k THEN c[i - d + f] ELSE c[i]
  BY <1>0 DEF Move, CopyCells
<1>3. DOMAIN w = 1..n /\ w = [i \in 1..n |-> w[i]]
  BY <1>0 DEF Move, CopyCells
<1>g. g \in Seq(C)
  BY <1>0, PartIs
<1>v. v \in Seq(C) /\ Len(v) = e - f /\ \A i \in 1..e - f : v[i] = s[f + i]
  BY <1>0, <1>1, PartIs
<1>h. h \in Seq(C) /\ Len(h) = d /\ \A i \in 1..d : h[i] = c[i]
  <2>1. /\ h = [i \in 1..Len(h) |-> h[i]] /\ Len(h) = d /\ \A i \in 1..d : h[i] = c[i]
    BY <1>1, FirstIs
  <2>2. \A i \in 1..d : c[i] \in C
    BY <1>0
  <2> HIDE DEF h
  <2>3. h \in [1..d -> C]
    BY <2>1, <2>2
  <2>4. h \in Seq(C)
    BY ONLY <1>1, <2>3
  <2> QED
    BY <2>1, <2>4
<1>u. u = [i \in 1..Len(u) |-> u[i]] /\ Len(u) = k /\ \A i \in 1..k : u[i] = w[i]
  <2> HIDE DEF w, k
  <2> QED
    BY <1>1, FirstIs
<1> HIDE DEF w, k, g, v, h, u, n
<1>4. ASSUME NEW i \in 1..n, d < i, i <= k
      PROVE  /\ w[i] = s[f + (i - d)] /\ i - d \in 1..e - f /\ d + (i - d) = i
             /\ f + (i - d) \in 1..n
  <2>1. i - d + f = f + (i - d) /\ f + (i - d) \in d + 1..n /\ i - d \in 1..e - f
        /\ f + (i - d) \in 1..n /\ d + (i - d) = i
    BY <1>0, <1>1, <1>4
  <2> QED
    BY <1>0, <1>2, <1>4, <2>1
<1>5. w \in [1..n -> C]
  <2>1. ASSUME NEW i \in 1..n PROVE w[i] \in C
    <3>1. CASE d < i /\ i <= k
      BY <1>0, <1>4, <3>1
    <3>2. CASE ~(d < i /\ i <= k)
      BY <1>0, <1>2, <3>2
    <3> QED
      BY <3>1, <3>2
  <2> QED
    BY <1>3, <2>1
<1>6. ASSUME NEW i \in k + 1..n PROVE w[i] = s[i]
  <2>1. i \in 1..n /\ i \in d + 1..n /\ ~(i <= k)
    BY <1>0, <1>1
  <2> QED
    BY <1>0, <1>2, <2>1
<1>7. u = h \o v
  <2> DEFINE x == h \o v
  <2>0. x \in Seq(C) /\ JoinCells(x, h, v, d, e - f)
    BY <1>h, <1>v, JoinIs
  <2> HIDE DEF x
  <2>1. Len(x) = k
    BY <1>1, <2>0 DEF JoinCells
  <2>2. ASSUME NEW i \in 1..k PROVE u[i] = x[i]
    <3>0. i \in 1..n
      BY <1>0, <1>1
    <3>1. CASE i <= d
      <4>1. i \in 1..d /\ ~(d < i)
        BY <1>1, <3>1
      <4> QED
        BY <1>2, <1>h, <1>u, <2>0, <3>0, <4>1 DEF JoinCells
    <3>2. CASE ~(i <= d)
      <4>1. d < i /\ i <= k
        BY <1>1, <3>2
      <4>2. w[i] = s[f + (i - d)] /\ i - d \in 1..e - f /\ d + (i - d) = i
        BY <1>4, <3>0, <4>1
      <4>3. x[d + (i - d)] = v[i - d]
        BY <2>0, <4>2 DEF JoinCells
      <4> QED
        BY <1>u, <1>v, <4>2, <4>3
    <3> QED
      BY <3>1, <3>2
  <2>3. x = [i \in 1..k |-> x[i]]
    BY <2>0, <2>1
  <2>4. u = [i \in 1..k |-> u[i]]
    BY <1>u
  <2>5. u = x
    BY <2>2, <2>3, <2>4
  <2> QED
    BY <2>5 DEF x
<1>8. ASSUME NEW y
      PROVE  Count(u, y) + Count(p \o g, y) = Count(SubSeq(s, 1, e), y)
  <2>1. Count(u, y) = Count(h, y) + Count(v, y)
    BY <1>7, <1>h, <1>v, CountJoin
  <2>2. Count(p \o g, y) = Count(p, y) + Count(g, y)
    BY <1>0, <1>g, CountJoin
  <2>3. Count(SubSeq(s, 1, e), y) = Count(SubSeq(s, 1, f), y) + Count(v, y)
    <3>1. 0 \in 0..Len(s) /\ f \in 0..Len(s) /\ e \in f..Len(s) /\ 0 + 1 = 1
      BY <1>0, <1>1 DEF n
    <3>2. Count(SubSeq(s, 0 + 1, e), y) =
          Count(SubSeq(s, 0 + 1, f), y) + Count(SubSeq(s, f + 1, e), y)
      BY <3>1, PartsCount
    <3> QED
      BY <3>1, <3>2 DEF v
  <2>4. Count(SubSeq(s, 1, f), y) = Count(SubSeq(s, 1, r), y) + Count(g, y)
    <3>1. 0 \in 0..Len(s) /\ r \in 0..Len(s) /\ f \in r..Len(s) /\ 0 + 1 = 1
      BY <1>0, <1>1 DEF n
    <3>2. Count(SubSeq(s, 0 + 1, f), y) =
          Count(SubSeq(s, 0 + 1, r), y) + Count(SubSeq(s, r + 1, f), y)
      BY <3>1, PartsCount
    <3> QED
      BY <3>1, <3>2 DEF g
  <2>5. Count(h, y) \in Nat /\ Count(v, y) \in Nat /\ Count(p, y) \in Nat /\ Count(g, y) \in Nat
    BY <1>0, <1>g, <1>h, <1>v, CountIs
  <2>6. Count(h, y) + Count(p, y) = Count(SubSeq(s, 1, r), y)
    BY <1>0
  <2> QED
    BY <2>1, <2>2, <2>3, <2>4, <2>5, <2>6
<1>9. p \o g \in Seq(C)
  BY <1>0, <1>g
<1> QED
  BY <1>0, <1>1, <1>5, <1>6, <1>8, <1>9 DEF Slid, n, u, k, w, g

\* A slice t of n items that goes by step: its positions are positions of the
\* items.
SliceOK(t, n, step) ==
    /\ t.n \in 0..n /\ t.start \in Int /\ t.stop \in Int /\ t.step = step
    /\ \A i \in 0..t.n - 1 : SliceIndex(t, i) \in 0..n - 1
    /\ step = 1 => /\ t.start \in 0..n /\ t.stop \in 0..n
                   /\ t.n = IF t.start <= t.stop THEN t.stop - t.start ELSE 0

\* ypSlice_AdjustIndicesC keeps the ends of a slice within the items.
LEMMA ClampedIs ==
    ASSUME NEW n \in Nat \ {0}, NEW i \in Int, NEW step \in Int
    PROVE  Clamped(n, i, step) \in IF step < 0 THEN -1..n - 1 ELSE 0..n
BY DEF Clamped, Adjusted

\* Positions a, a + step, ... below e.
LEMMA UpIs ==
    ASSUME NEW n \in Nat, NEW a \in 0..n, NEW e \in 0..n, NEW step \in Nat \ {0}, a < e,
           NEW i \in 0..(e - a - 1) \div step
    PROVE  /\ (e - a - 1) \div step + 1 \in 1..n
           /\ a + i * step \in 0..n - 1
<1> DEFINE x == e - a - 1
           q == x \div step
<1>1. x \in Nat /\ x <= n - 1 - a
  OBVIOUS
<1>2. q \in Nat /\ q * step <= x
  <2> HIDE DEF x
  <2> QED
    BY <1>1, DivIs
<1>3. i \in Nat /\ i <= q
  OBVIOUS
<1> HIDE DEF x, q
<1>4. i * step \in Nat /\ i * step <= q * step
  <2>1. step \in Nat
    OBVIOUS
  <2> QED
    BY <1>2, <1>3, <2>1, ProductIs
<1>5. q <= q * step
  <2>1. step \in Nat /\ step > 0 /\ q <= q
    BY <1>2
  <2> QED
    BY <1>2, <2>1, ProductIs
<1> DEFINE y == i * step
           z == q * step
<1>6. y \in Nat /\ y <= z /\ q <= z /\ z <= x /\ q \in Nat
  BY <1>2, <1>4, <1>5
<1> HIDE DEF y, z
<1>7. z \in Int
  <2> USE DEF z
  <2> QED
    BY <1>2
<1>8. q + 1 \in 1..n /\ a + y \in 0..n - 1
  BY <1>1, <1>6, <1>7
<1> QED
  BY <1>8 DEF q, y, x

\* Positions a, a + step, ... above e.
LEMMA DownIs ==
    ASSUME NEW n \in Nat, NEW a \in -1..n - 1, NEW e \in -1..n - 1, NEW step \in Int, step < 0,
           e < a, NEW i \in 0..(a - e - 1) \div (-step)
    PROVE  /\ (a - e - 1) \div (-step) + 1 \in 1..n
           /\ a + i * step \in 0..n - 1
<1> DEFINE b == -step
           x == a - e - 1
           q == x \div b
<1>1. x \in Nat /\ b \in Nat \ {0} /\ x = a - e - 1
  OBVIOUS
<1>2. q \in Nat /\ q * b <= x
  <2> HIDE DEF x, b
  <2> QED
    BY <1>1, DivIs
<1>3. i \in Nat /\ i <= q
  OBVIOUS
<1>0. a + i * step = a - i * b
  BY <1>3
<1> HIDE DEF x, q, b
<1>4. i * b \in Nat /\ i * b <= q * b
  <2>1. b \in Nat
    BY <1>1
  <2> QED
    BY <1>2, <1>3, <2>1, ProductIs
<1>5. q <= q * b
  <2>1. b \in Nat /\ b > 0 /\ q <= q
    BY <1>1, <1>2
  <2> QED
    BY <1>2, <2>1, ProductIs
<1> DEFINE y == i * b
           z == q * b
<1>6. y \in Nat /\ y <= z /\ q <= z /\ z <= x /\ q \in Nat
  BY <1>2, <1>4, <1>5
<1>7. z \in Int
  BY <1>1, <1>2
<1> HIDE DEF y, z
<1>8. q + 1 \in 1..n /\ a - y \in 0..n - 1
  BY <1>1, <1>6, <1>7
<1> QED
  BY <1>0, <1>8 DEF q, y, x, b

\* ypSlice_AdjustIndicesC: every position of the slice is one of the items.
LEMMA AdjustIs ==
    ASSUME NEW n \in Nat, NEW i \in Int, NEW j \in Int, NEW step \in Int, step # 0
    PROVE  SliceOK(AdjustIndices(n, i, j, step), n, step)
<1> DEFINE t == AdjustIndices(n, i, j, step)
<1>0. CASE n = 0
  <2>1. t = [start |-> 0, stop |-> 0, step |-> step, n |-> 0]
    BY <1>0 DEF AdjustIndices
  <2> HIDE DEF t
  <2>2. SliceOK(t, n, step)
    BY <1>0, <2>1 DEF SliceOK
  <2> QED
    BY <2>2 DEF t
<1>1. CASE n # 0
  <2> DEFINE first == IF i = Default THEN IF step < 0 THEN n - 1 ELSE 0
                      ELSE Clamped(n, i, step)
             end   == IF j = Default THEN IF step < 0 THEN -1 ELSE n
                      ELSE Clamped(n, j, step)
             m == SliceLength(first, end, step)
  <2>1. t = [start |-> first, stop |-> end, step |-> step, n |-> m]
    BY <1>1 DEF AdjustIndices
  <2>2. first \in (IF step < 0 THEN -1..n - 1 ELSE 0..n) /\ end \in IF step < 0 THEN -1..n - 1 ELSE 0..n
    <3>1. n \in Nat \ {0}
      BY <1>1
    <3>2. Clamped(n, i, step) \in (IF step < 0 THEN -1..n - 1 ELSE 0..n)
      BY <3>1, ClampedIs
    <3>3. Clamped(n, j, step) \in (IF step < 0 THEN -1..n - 1 ELSE 0..n)
      BY <3>1, ClampedIs
    <3> QED
      BY <3>1, <3>2, <3>3
  <2>3. m = SliceLength(first, end, step)
    OBVIOUS
  <2> HIDE DEF first, end, m
  <2>4. /\ t.start = first /\ t.stop = end /\ t.step = step /\ t.n = m
        /\ \A k : SliceIndex(t, k) = first + k * step
    BY <2>1 DEF SliceIndex
  <2> HIDE DEF t
  <2>5. CASE step < 0
    <3>0. first \in -1..n - 1 /\ end \in -1..n - 1 /\ first \in Int /\ end \in Int /\ ~(step = 1)
      BY <2>2, <2>5
    <3>1. CASE end >= first
      <4>1. m = 0
        BY <2>3, <2>5, <3>1 DEF SliceLength
      <4> QED
        BY <2>4, <3>0, <4>1 DEF SliceOK, t
    <3>2. CASE ~(end >= first)
      <4> DEFINE q == (first - end - 1) \div (-step)
      <4>0. end < first
        BY <3>0, <3>2
      <4>1. m = q + 1
        BY <2>3, <2>5, <3>2 DEF SliceLength
      <4>2. q \in Nat
        <5>1. first - end - 1 \in Nat /\ -step \in Nat \ {0}
          BY <2>5, <3>0, <4>0
        <5> QED
          BY <5>1, DivIs
      <4>3. ASSUME NEW k \in 0..q
            PROVE  q + 1 \in 1..n /\ first + k * step \in 0..n - 1
        BY <2>5, <3>0, <4>0, <4>3, DownIs
      <4> HIDE DEF q
      <4>4. m \in 0..n /\ 0..m - 1 = 0..q
        <5>1. 0 \in 0..q
          BY <4>2
        <5>2. q + 1 \in 1..n
          BY <4>3, <5>1
        <5> QED
          BY <4>1, <4>2, <5>2
      <4> QED
        BY <2>4, <3>0, <4>3, <4>4 DEF SliceOK, t
    <3> QED
      BY <3>1, <3>2
  <2>6. CASE ~(step < 0)
    <3>0. first \in 0..n /\ end \in 0..n /\ first \in Int /\ end \in Int /\ step \in Nat \ {0}
      BY <2>2, <2>6
    <3>1. CASE first >= end
      <4>1. m = 0
        BY <2>3, <2>6, <3>1 DEF SliceLength
      <4>2. m = IF first <= end THEN end - first ELSE 0
        BY <3>0, <3>1, <4>1
      <4> QED
        BY <2>4, <3>0, <4>1, <4>2 DEF SliceOK, t
    <3>2. CASE ~(first >= end)
      <4> DEFINE q == (end - first - 1) \div step
      <4>0. first < end
        BY <3>0, <3>2
      <4>1. m = q + 1
        BY <2>3, <2>6, <3>2 DEF SliceLength
      <4>2. q \in Nat
        <5>1. end - first - 1 \in Nat
          BY <3>0, <4>0
        <5> QED
          BY <3>0, <5>1, DivIs
      <4>3. ASSUME NEW k \in 0..q
            PROVE  q + 1 \in 1..n /\ first + k * step \in 0..n - 1
        BY <3>0, <4>0, <4>3, UpIs
      <4>5. step = 1 => q = end - first - 1
        BY <3>0, <4>0
      <4> HIDE DEF q
      <4>4. m \in 0..n /\ 0..m - 1 = 0..q
        <5>1. 0 \in 0..q
          BY <4>2
        <5>2. q + 1 \in 1..n
          BY <4>3, <5>1
        <5> QED
          BY <4>1, <4>2, <5>2
      <4>6. step = 1 => m = IF first <= end THEN end - first ELSE 0
        BY <3>0, <4>0, <4>1, <4>5
      <4> QED
        BY <2>4, <3>0, <4>3, <4>4, <4>6 DEF SliceOK, t
    <3> QED
      BY <3>1, <3>2
  <2> QED
    BY <2>5, <2>6 DEF t
<1> QED
  BY <1>0, <1>1

\* u is s without the n items of p.
Removed(u, s, p, n, C) ==
    /\ u \in Seq(C) /\ Len(u) = Len(s) - n
    /\ \A y : Count(u, y) + Count(p, y) = Count(s, y)

\* All of a sequence.
LEMMA AllIs ==
    ASSUME NEW C, NEW s \in Seq(C)
    PROVE  SubSeq(s, 1, Len(s)) = s
<1> DEFINE u == SubSeq(s, 1, Len(s))
<1>1. u = [i \in 1..Len(u) |-> u[i]] /\ Len(u) = Len(s) /\ \A i \in 1..Len(s) : u[i] = s[i]
  BY FirstIs
<1>2. s = [i \in 1..Len(s) |-> s[i]]
  OBVIOUS
<1> HIDE DEF u
<1>3. u = s
  BY <1>1, <1>2
<1> QED
  BY <1>3 DEF u

\* The cells that stay at the front.
LEMMA FrontIs ==
    ASSUME NEW C, NEW n \in Nat, NEW c \in [1..n -> C], NEW d \in 0..n
    PROVE  SubSeq(c, 1, d) \in Seq(C) /\ Len(SubSeq(c, 1, d)) = d
<1> DEFINE u == SubSeq(c, 1, d)
<1>0. d \in Nat
  OBVIOUS
<1>1. u = [i \in 1..Len(u) |-> u[i]] /\ Len(u) = d /\ \A i \in 1..d : u[i] = c[i]
  BY <1>0, FirstIs
<1>2. \A i \in 1..d : c[i] \in C
  OBVIOUS
<1> HIDE DEF u
<1>3. u \in [1..d -> C]
  BY <1>1, <1>2
<1>4. u \in Seq(C)
  BY ONLY <1>0, <1>3
<1> QED
  BY <1>1, <1>4 DEF u

\* All items were dealt with.
LEMMA SlideEnds ==
    ASSUME NEW C, NEW s \in Seq(C), NEW c, NEW p, NEW d, Slid(c, s, p, d, Len(s), C)
    PROVE  Removed(SubSeq(c, 1, d), s, p, Len(s) - d, C)
<1>1. /\ c \in [1..Len(s) -> C] /\ d \in 0..Len(s) /\ Len(s) \in Nat
      /\ \A y : Count(SubSeq(c, 1, d), y) + Count(p, y) = Count(SubSeq(s, 1, Len(s)), y)
  BY DEF Slid
<1>2. SubSeq(c, 1, d) \in Seq(C) /\ Len(SubSeq(c, 1, d)) = d
  BY <1>1, FrontIs
<1>3. SubSeq(s, 1, Len(s)) = s
  BY AllIs
<1>4. d = Len(s) - (Len(s) - d)
  BY <1>1
<1> QED
  BY <1>1, <1>2, <1>3, <1>4 DEF Removed

\* The items of a slice.
LEMMA ItemsIs ==
    ASSUME NEW C, NEW s \in Seq(C), NEW t, NEW step, SliceOK(t, Len(s), step)
    PROVE  /\ ItemsAt(s, t) \in Seq(C) /\ Len(ItemsAt(s, t)) = t.n
           /\ \A i \in 1..t.n : ItemsAt(s, t)[i] = s[SliceIndex(t, i - 1) + 1]
<1> DEFINE u == ItemsAt(s, t)
           m == t.n
<1>1. m \in Nat /\ \A i \in 0..m - 1 : SliceIndex(t, i) \in 0..Len(s) - 1
  BY DEF SliceOK
<1>2. u = [i \in 1..m |-> s[SliceIndex(t, i - 1) + 1]]
  BY DEF ItemsAt
<1> HIDE DEF u, m
<1>3. ASSUME NEW i \in 1..m PROVE s[SliceIndex(t, i - 1) + 1] \in C
  <2>1. i - 1 \in 0..m - 1
    BY <1>1
  <2>2. SliceIndex(t, i - 1) + 1 \in 1..Len(s)
    BY <1>1, <2>1
  <2> QED
    BY <2>2
<1>4. u \in [1..m -> C]
  BY <1>2, <1>3
<1>5. u \in Seq(C) /\ Len(u) = m
  BY ONLY <1>1, <1>4
<1> QED
  BY <1>2, <1>5 DEF u, m

\* A slice that goes up.
Upward(t, n) == /\ SliceOK(t, n, t.step) /\ t.n >= 1 /\ t.step \in Nat \ {0}
                /\ t.step = 1 => t.stop = t.start + t.n

\* Turning a slice of some items round keeps its items.
LEMMA InvertIs ==
    ASSUME NEW C, NEW s \in Seq(C), NEW t, NEW step \in Int, step < 0,
           SliceOK(t, Len(s), step), t.n >= 1
    PROVE  /\ Upward(InvertIndices(t), Len(s)) /\ InvertIndices(t).n = t.n
           /\ \A y : Count(ItemsAt(s, InvertIndices(t)), y) = Count(ItemsAt(s, t), y)
<1> DEFINE n == Len(s)
           v == InvertIndices(t)
           m == t.n
           a == t.start
           u == ItemsAt(s, t)
           w == ItemsAt(s, v)
<1>1. /\ m \in 1..n /\ n \in Nat /\ a \in Int /\ t.step = step
      /\ \A i \in 0..m - 1 : SliceIndex(t, i) \in 0..n - 1
  BY DEF SliceOK
<1>2. /\ v.start = a + step * (m - 1) /\ v.stop = a + 1 /\ v.step = -step /\ v.n = m
  BY <1>1 DEF InvertIndices
<1>3. \A i : SliceIndex(t, i) = a + i * step /\ SliceIndex(v, i) = v.start + i * v.step
  BY <1>1 DEF SliceIndex
<1> HIDE DEF v, n, m, a
<1>4. ASSUME NEW i \in 0..m - 1
      PROVE  m - 1 - i \in 0..m - 1 /\ SliceIndex(v, i) = SliceIndex(t, m - 1 - i)
  <2>1. i \in Int /\ m - 1 - i \in 0..m - 1
    BY <1>1
  <2>2. SliceIndex(v, i) = (a + step * (m - 1)) + i * (-step)
    BY <1>2, <1>3
  <2>3. SliceIndex(t, m - 1 - i) = a + (m - 1 - i) * step
    BY <1>3
  <2>4. (a + step * (m - 1)) + i * (-step) = a + (m - 1 - i) * step
    BY <1>1, <2>1
  <2> QED
    BY <2>1, <2>2, <2>3, <2>4
<1>5. ASSUME NEW i \in 0..m - 1 PROVE SliceIndex(v, i) \in 0..n - 1
  BY <1>1, <1>4
<1>6. v.start \in 0..n /\ v.start \in Int
  <2>1. 0 \in 0..m - 1 /\ v.step \in Int
    BY <1>1, <1>2
  <2>2. SliceIndex(v, 0) \in 0..n - 1
    BY <1>5, <2>1
  <2>3. v.start \in Int
    BY <1>1, <1>2
  <2>4. 0 * v.step = 0
    BY <2>1
  <2>5. SliceIndex(v, 0) = v.start + 0
    BY <1>3, <2>4
  <2>6. SliceIndex(v, 0) = v.start
    BY <2>3, <2>5
  <2> QED
    BY <1>1, <2>2, <2>6
<1>7. /\ v.step = 1 => v.stop = v.start + m
      /\ v.step = 1 => v.stop \in 0..n
  <2> SUFFICES ASSUME v.step = 1 PROVE v.stop = v.start + m /\ v.stop \in 0..n
    OBVIOUS
  <2>1. step = -1
    BY <1>2
  <2>2. v.start = a - (m - 1) /\ v.stop = a + 1
    BY <1>1, <1>2, <2>1
  <2>3. m - 1 \in 0..m - 1
    BY <1>1
  <2>4. SliceIndex(v, m - 1) = v.start + (m - 1)
    BY <1>1, <1>3, <1>6
  <2>5. v.start + (m - 1) \in 0..n - 1
    BY <1>5, <2>3, <2>4
  <2> QED
    BY <1>1, <1>6, <2>2, <2>5
<1>8. SliceOK(v, n, v.step)
  <2>1. v.stop \in Int /\ v.n \in 0..n
    BY <1>1, <1>2
  <2>2. v.step = 1 => v.n = IF v.start <= v.stop THEN v.stop - v.start ELSE 0
    BY <1>1, <1>2, <1>6, <1>7
  <2> QED
    BY <1>2, <1>5, <1>6, <1>7, <2>1, <2>2 DEF SliceOK
<1>9. Upward(v, n)
  <2>1. v.n >= 1 /\ v.step \in Nat \ {0}
    BY <1>1, <1>2
  <2> QED
    BY <1>2, <1>7, <1>8, <2>1 DEF Upward
<1> HIDE DEF u, w
<1>10. /\ u \in Seq(C) /\ Len(u) = m /\ \A i \in 1..m : u[i] = s[SliceIndex(t, i - 1) + 1]
  <2> USE DEF u, m
  <2> QED
    BY ItemsIs
<1>11. w \in Seq(C) /\ Len(w) = m /\ \A i \in 1..m : w[i] = s[SliceIndex(v, i - 1) + 1]
  <2>1. /\ ItemsAt(s, v) \in Seq(C) /\ Len(ItemsAt(s, v)) = v.n
        /\ \A i \in 1..v.n : ItemsAt(s, v)[i] = s[SliceIndex(v, i - 1) + 1]
    BY <1>8, ItemsIs DEF n
  <2> QED
    BY <1>2, <2>1 DEF w
<1>12. ASSUME NEW i \in 1..m PROVE w[i] = u[m - i + 1]
  <2>1. i - 1 \in 0..m - 1 /\ m - i + 1 \in 1..m /\ (m - i + 1) - 1 = m - 1 - (i - 1)
    BY <1>1
  <2>2. SliceIndex(v, i - 1) = SliceIndex(t, m - 1 - (i - 1))
    BY <1>4, <2>1
  <2> QED
    BY <1>10, <1>11, <2>1, <2>2
<1>13. w = Swapped(u)
  <2>1. Swapped(u) = [i \in 1..m |-> u[m - i + 1]]
    BY <1>10 DEF Swapped, Reverse
  <2>2. w = [i \in 1..m |-> w[i]]
    BY <1>11
  <2> QED
    BY <1>12, <2>1, <2>2
<1>14. ASSUME NEW y PROVE Count(w, y) = Count(u, y)
  <2>1. Swapped(u) \in Seq(C) /\ Rearranged(Swapped(u), u)
        /\ Len(Swapped(u)) = Len(u) /\ ToSet(Swapped(u)) = ToSet(u)
    BY <1>10, SwappedKeeps
  <2>2. Count(Swapped(u), y) = Count(u, y)
    BY <1>10, <2>1, CountRearranged
  <2> QED
    BY <1>13, <2>2
<1> QED
  BY <1>2, <1>9, <1>14 DEF v, n, m, u, w

\* memmove within the cells.
LEMMA MoveIn ==
    ASSUME NEW C, NEW n \in Nat, NEW c \in [1..n -> C], NEW d \in Nat, NEW f \in Nat, NEW k \in Int,
           d <= f, f + k <= n
    PROVE  Move(c, d, f, k) \in [1..n -> C]
<1> DEFINE w == Move(c, d, f, k)
<1>1. w = [i \in 1..n |-> IF d < i /\ i <= d + k THEN c[i - d + f] ELSE c[i]]
  BY DEF Move, CopyCells
<1> HIDE DEF w
<1>2. ASSUME NEW i \in 1..n PROVE w[i] \in C
  <2>1. CASE d < i /\ i <= d + k
    <3>1. i - d + f \in 1..n
      BY <2>1
    <3> QED
      BY <1>1, <2>1, <3>1
  <2>2. CASE ~(d < i /\ i <= d + k)
    BY <1>1, <2>2
  <2> QED
    BY <2>1, <2>2
<1>3. w \in [1..n -> C]
  BY <1>1, <1>2
<1> QED
  BY <1>3 DEF w

\* Where the k-th kept chunk comes from, where it goes, and its length.
Reached(v, n, k) == IF k = v.n THEN n ELSE v.start + k * v.step

\* Positions of the items between the chunks.
LEMMA ReachedIs ==
    ASSUME NEW n \in Nat, NEW v, Upward(v, n)
    PROVE  /\ v.n \in 1..n /\ v.n \in Nat /\ Reached(v, n, 0) = v.start /\ v.start \in 0..n
           /\ Reached(v, n, v.n) = n
           /\ \A k \in 0..v.n : Reached(v, n, k) \in 0..n
           /\ \A k \in 1..v.n :
                 /\ Reached(v, n, k - 1) + 1 \in 0..Reached(v, n, k)
                 /\ Reached(v, n, k - 1) = SliceIndex(v, k - 1)
                 /\ Reached(v, n, k - 1) + 1 = v.start + 1 + (k - 1) * v.step
                 /\ v.start + (k - 1) * (v.step - 1) = Reached(v, n, k - 1) - (k - 1)
                 /\ v.start + (k - 1) * (v.step - 1) \in 0..Reached(v, n, k - 1)
                 /\ (IF k = v.n THEN n - (v.start + 1 + (k - 1) * v.step) ELSE v.step - 1)
                    = Reached(v, n, k) - (Reached(v, n, k - 1) + 1)
<1> DEFINE m == v.n
           a == v.start
           b == v.step
<1>1. /\ m \in 1..n /\ m \in Nat /\ b \in Nat \ {0} /\ a \in Int
      /\ \A i \in 0..m - 1 : SliceIndex(v, i) \in 0..n - 1
  BY DEF Upward, SliceOK
<1>2. \A i : SliceIndex(v, i) = a + i * b
  BY DEF SliceIndex
<1>3. \A k : Reached(v, n, k) = IF k = m THEN n ELSE a + k * b
  BY DEF Reached
<1> HIDE DEF m, a, b
<1>4. 0 * b = 0 /\ a + 0 = a /\ 0 # m
  BY <1>1
<1>5. a \in 0..n - 1 /\ Reached(v, n, 0) = a
  <2>1. 0 \in 0..m - 1
    BY <1>1
  <2> QED
    BY <1>1, <1>2, <1>3, <1>4, <2>1
<1>6. Reached(v, n, m) = n
  BY <1>3
<1>7. ASSUME NEW k \in 0..m PROVE Reached(v, n, k) \in 0..n
  <2>1. CASE k = m
    BY <1>6, <2>1
  <2>2. CASE k # m
    <3>1. k \in 0..m - 1
      BY <1>1, <2>2
    <3> QED
      BY <1>1, <1>2, <1>3, <2>2, <3>1
  <2> QED
    BY <2>1, <2>2
<1>8. ASSUME NEW k \in 1..m
      PROVE  /\ Reached(v, n, k - 1) + 1 \in 0..Reached(v, n, k)
             /\ Reached(v, n, k - 1) = SliceIndex(v, k - 1)
             /\ Reached(v, n, k - 1) + 1 = a + 1 + (k - 1) * b
             /\ a + (k - 1) * (b - 1) = Reached(v, n, k - 1) - (k - 1)
             /\ a + (k - 1) * (b - 1) \in 0..Reached(v, n, k - 1)
             /\ (IF k = m THEN n - (a + 1 + (k - 1) * b) ELSE b - 1)
                = Reached(v, n, k) - (Reached(v, n, k - 1) + 1)
  <2> DEFINE x == (k - 1) * b
  <2>1. k - 1 \in 0..m - 1 /\ k - 1 # m /\ k - 1 \in Nat /\ k \in Nat /\ b \in Nat
    BY <1>1
  <2>2. Reached(v, n, k - 1) = a + x /\ SliceIndex(v, k - 1) = a + x
    BY <1>2, <1>3, <2>1
  <2>3. a + x \in 0..n - 1
    BY <1>1, <2>1, <2>2
  <2>4. x \in Nat /\ k - 1 <= x
    <3>1. (k - 1) * b \in Nat /\ (k - 1) * b <= (k - 1) * b /\ (b > 0 => k - 1 <= (k - 1) * b)
      <4>1. k - 1 <= k - 1
        BY <2>1
      <4> QED
        BY <2>1, <4>1, ProductIs
    <3> QED
      BY <1>1, <3>1
  <2>5. (k - 1) * (b - 1) = x - (k - 1)
    BY <1>1, <2>1
  <2>6. k * b = x + b
    BY <1>1, <2>1
  <2>7. k # m => Reached(v, n, k) = a + k * b
    BY <1>3
  <2>8. Reached(v, n, k) \in 0..n
    <3>1. k \in 0..m
      BY <1>1
    <3> QED
      BY <1>7, <3>1
  <2> DEFINE y == (k - 1) * (b - 1)
             z == k * b
  <2>9. y = x - (k - 1) /\ z = x + b
    BY <2>5, <2>6
  <2>10. k # m => Reached(v, n, k) = a + z
    BY <2>7
  <2> HIDE DEF x, y, z
  <2>11. y \in Int /\ z \in Int /\ a + y = (a + x) - (k - 1) /\ a + y \in 0..a + x
    BY <1>1, <1>5, <2>1, <2>4, <2>9
  <2>12. CASE k = m
    <3>1. Reached(v, n, k) = n
      BY <1>6, <2>12
    <3>2. a + x + 1 \in 0..n /\ a + x + 1 = a + 1 + x /\ n - (a + 1 + x) = n - (a + x + 1)
      BY <1>1, <2>3, <2>4
    <3>3. /\ Reached(v, n, k - 1) + 1 \in 0..Reached(v, n, k)
          /\ Reached(v, n, k - 1) = SliceIndex(v, k - 1)
          /\ Reached(v, n, k - 1) + 1 = a + 1 + x
          /\ a + y = Reached(v, n, k - 1) - (k - 1)
          /\ a + y \in 0..Reached(v, n, k - 1)
          /\ (IF k = m THEN n - (a + 1 + x) ELSE b - 1)
                = Reached(v, n, k) - (Reached(v, n, k - 1) + 1)
      <4>1. Reached(v, n, k - 1) + 1 \in 0..Reached(v, n, k)
        BY ONLY <2>2, <3>1, <3>2
      <4>2. a + y = Reached(v, n, k - 1) - (k - 1) /\ a + y \in 0..Reached(v, n, k - 1)
        BY ONLY <2>2, <2>11
      <4>3. (IF k = m THEN n - (a + 1 + x) ELSE b - 1)
                = Reached(v, n, k) - (Reached(v, n, k - 1) + 1)
        BY ONLY <2>2, <2>12, <3>1, <3>2
      <4> QED
        BY ONLY <2>2, <3>2, <4>1, <4>2, <4>3
    <3> QED
      BY <3>3 DEF x, y
  <2>13. CASE k # m
    <3>1. Reached(v, n, k) = a + z
      BY <2>10, <2>13
    <3>2. a + x + 1 \in 0..a + z /\ a + x + 1 = a + 1 + x /\ b - 1 = (a + z) - (a + x + 1)
      BY <1>1, <2>3, <2>4, <2>9
    <3>3. /\ Reached(v, n, k - 1) + 1 \in 0..Reached(v, n, k)
          /\ Reached(v, n, k - 1) = SliceIndex(v, k - 1)
          /\ Reached(v, n, k - 1) + 1 = a + 1 + x
          /\ a + y = Reached(v, n, k - 1) - (k - 1)
          /\ a + y \in 0..Reached(v, n, k - 1)
          /\ (IF k = m THEN n - (a + 1 + x) ELSE b - 1)
                = Reached(v, n, k) - (Reached(v, n, k - 1) + 1)
      <4>1. Reached(v, n, k - 1) + 1 \in 0..Reached(v, n, k)
        BY ONLY <2>2, <3>1, <3>2
      <4>2. a + y = Reached(v, n, k - 1) - (k - 1) /\ a + y \in 0..Reached(v, n, k - 1)
        BY ONLY <2>2, <2>11
      <4>3. (IF k = m THEN n - (a + 1 + x) ELSE b - 1)
                = Reached(v, n, k) - (Reached(v, n, k - 1) + 1)
        BY ONLY <2>2, <2>13, <3>1, <3>2
      <4> QED
        BY ONLY <2>2, <3>2, <4>1, <4>2, <4>3
    <3> QED
      BY <3>3 DEF x, y
  <2> QED
    BY <2>12, <2>13
<1>9. a \in 0..n
  BY <1>1, <1>5
<1>10. /\ \A k \in 0..m : Reached(v, n, k) \in 0..n
       /\ \A k \in 1..m :
             /\ Reached(v, n, k - 1) + 1 \in 0..Reached(v, n, k)
             /\ Reached(v, n, k - 1) = SliceIndex(v, k - 1)
             /\ Reached(v, n, k - 1) + 1 = a + 1 + (k - 1) * b
             /\ a + (k - 1) * (b - 1) = Reached(v, n, k - 1) - (k - 1)
             /\ a + (k - 1) * (b - 1) \in 0..Reached(v, n, k - 1)
             /\ (IF k = m THEN n - (a + 1 + (k - 1) * b) ELSE b - 1)
                = Reached(v, n, k) - (Reached(v, n, k - 1) + 1)
  BY <1>7, <1>8
<1> QED
  BY ONLY <1>1, <1>5, <1>6, <1>9, <1>10 DEF m, a, b

\* The chunk that goes to its place in step k.
Chunked(c, v, n, k) ==
    Move(c, v.start + (k - 1) * (v.step - 1), v.start + 1 + (k - 1) * v.step,
         IF k = v.n THEN n - (v.start + 1 + (k - 1) * v.step) ELSE v.step - 1)

\* The chunk goes down by as many cells as items are gone.
LEMMA ChunkedIs ==
    ASSUME NEW n \in Nat, NEW v, Upward(v, n), NEW k \in 1..v.n, NEW c
    PROVE  Chunked(c, v, n, k) =
           Move(c, Reached(v, n, k - 1) - (k - 1), Reached(v, n, k - 1) + 1,
                Reached(v, n, k) - (Reached(v, n, k - 1) + 1))
<1>1. /\ v.start + (k - 1) * (v.step - 1) = Reached(v, n, k - 1) - (k - 1)
      /\ Reached(v, n, k - 1) + 1 = v.start + 1 + (k - 1) * v.step
      /\ (IF k = v.n THEN n - (v.start + 1 + (k - 1) * v.step) ELSE v.step - 1)
           = Reached(v, n, k) - (Reached(v, n, k - 1) + 1)
  BY ReachedIs
<1> QED
  BY ONLY <1>1 DEF Chunked

\* A chunk moves within the cells.
LEMMA ChunkedIn ==
    ASSUME NEW C, NEW n \in Nat, NEW v, Upward(v, n), NEW k \in 1..v.n, NEW c \in [1..n -> C]
    PROVE  Chunked(c, v, n, k) \in [1..n -> C]
<1> DEFINE r == Reached(v, n, k - 1)
           e == Reached(v, n, k)
<1>1. /\ v.n \in Nat /\ r \in 0..n /\ e \in 0..n /\ r + 1 \in 0..e
      /\ v.start + (k - 1) * (v.step - 1) = r - (k - 1)
      /\ v.start + (k - 1) * (v.step - 1) \in 0..r
  <2>1. k \in 0..v.n /\ k - 1 \in 0..v.n /\ v.n \in Nat
    BY ReachedIs
  <2> QED
    BY <2>1, ReachedIs
<1>2. Chunked(c, v, n, k) = Move(c, r - (k - 1), r + 1, e - (r + 1))
  BY ChunkedIs
<1> HIDE DEF r, e
<1>3. /\ r - (k - 1) \in Nat /\ r + 1 \in Nat /\ e - (r + 1) \in Int
      /\ r - (k - 1) <= r + 1 /\ (r + 1) + (e - (r + 1)) <= n
  BY <1>1
<1>4. Move(c, r - (k - 1), r + 1, e - (r + 1)) \in [1..n -> C]
  BY <1>3, MoveIn
<1> QED
  BY <1>2, <1>4

\* One more item is gone, and the chunk behind it in place.
LEMMA ChunkedStep ==
    ASSUME NEW C, NEW s \in Seq(C), NEW v, Upward(v, Len(s)), NEW k \in 1..v.n, NEW c,
           Slid(c, s, SubSeq(ItemsAt(s, v), 1, k - 1),
                Reached(v, Len(s), k - 1) - (k - 1), Reached(v, Len(s), k - 1), C)
    PROVE  Slid(Chunked(c, v, Len(s), k), s, SubSeq(ItemsAt(s, v), 1, k),
                Reached(v, Len(s), k) - k, Reached(v, Len(s), k), C)
<1> DEFINE n == Len(s)
           u == ItemsAt(s, v)
           r == Reached(v, n, k - 1)
           e == Reached(v, n, k)
           d == r - (k - 1)
           f == r + 1
           p == SubSeq(u, 1, k - 1)
<1>0. n \in Nat /\ SliceOK(v, Len(s), v.step)
  BY DEF Upward
<1>1. /\ v.n \in Nat /\ r \in 0..n /\ e \in 0..n /\ f \in 0..e
      /\ r = SliceIndex(v, k - 1)
  <2>1. k \in 0..v.n /\ k - 1 \in 0..v.n /\ v.n \in Nat
    BY <1>0, ReachedIs
  <2> QED
    BY <1>0, <2>1, ReachedIs
<1>2. Chunked(c, v, n, k) = Move(c, d, f, e - f)
  BY <1>0, ChunkedIs
<1>3. u \in Seq(C) /\ Len(u) = v.n /\ \A i \in 1..v.n : u[i] = s[SliceIndex(v, i - 1) + 1]
  BY <1>0, ItemsIs
<1>4. Slid(c, s, p, d, r, C)
  OBVIOUS
<1> HIDE DEF n, u, r, e
<1>5. r + 1 = f /\ f \in r..n /\ e \in f..n /\ r \in 0..n - 1 /\ k \in 1..Len(u)
  BY <1>0, <1>1, <1>3
<1>6. Slid(Move(c, d, f, e - f), s, p \o SubSeq(s, r + 1, f), d + (e - f), e, C)
  <2> HIDE DEF d, f, p
  <2>1. f \in r..Len(s) /\ e \in f..Len(s)
    BY <1>5 DEF n
  <2> QED
    BY <1>4, <2>1, SlideStep
<1>7. SubSeq(s, r + 1, f) = <<s[r + 1]>>
  <2>1. r \in 0..Len(s) - 1
    BY <1>5 DEF n
  <2> QED
    BY <2>1, OneCell
<1>8. s[r + 1] = u[k]
  BY <1>1, <1>3
<1>9. p \o <<u[k]>> = SubSeq(u, 1, k)
  <2>1. k - 1 \in 0..Len(u) - 1 /\ (k - 1) + 1 = k
    BY <1>5
  <2>2. SubSeq(u, (k - 1) + 1, (k - 1) + 1) = <<u[(k - 1) + 1]>>
    BY <1>3, <2>1, OneCell
  <2>3. 1 \in 1..Len(u) + 1 /\ k - 1 \in 1 - 1 .. Len(u) /\ k \in k - 1..Len(u)
    BY <1>5, <1>3, <1>1
  <2>4. SubSeq(u, 1, k - 1) \o SubSeq(u, (k - 1) + 1, k) = SubSeq(u, 1, k)
    BY <1>3, <2>3, ConcatAdjacentSubSeq
  <2> QED
    BY <2>1, <2>2, <2>4
<1>10. d + (e - f) = e - k
  BY <1>1, <1>0
<1>11. Slid(Chunked(c, v, n, k), s, SubSeq(u, 1, k), e - k, e, C)
  <2> HIDE DEF d, f, p
  <2> QED
    BY <1>2, <1>6, <1>7, <1>8, <1>9, <1>10
<1> QED
  BY <1>11 DEF n, u, e

\* The k-th chunk is put in its place after those before it.
LEMMA ChunksExist ==
    ASSUME NEW C, NEW n \in Nat, NEW s \in [1..n -> C], NEW v, Upward(v, n)
    PROVE  \E g : g = [k \in 0..v.n |-> IF k = 0 THEN s ELSE Chunked(g[k - 1], v, n, k)]
<1> DEFINE m == v.n
           S == [1..n -> C]
           step == [w \in S \X (0 + 1 .. m) |-> Chunked(w[1], v, n, w[2])]
<1>0. m \in Nat /\ 0 \in Int /\ m \in Int /\ 0 <= m /\ s \in S
  BY ReachedIs
<1>1. ASSUME NEW c \in S, NEW k \in 0 + 1 .. m PROVE Chunked(c, v, n, k) \in S
  <2>1. k \in 1..v.n
    BY <1>0
  <2> QED
    BY <2>1, ChunkedIn
<1> HIDE DEF S, m
<1>2. step \in [S \X (0 + 1 .. m) -> S]
  <2>1. ASSUME NEW w \in S \X (0 + 1 .. m) PROVE Chunked(w[1], v, n, w[2]) \in S
    <3>1. w[1] \in S /\ w[2] \in 0 + 1 .. m
      OBVIOUS
    <3> QED
      BY <1>1, <3>1
  <2> QED
    BY <2>1
<1>3. \A c \in S, k \in 0 + 1 .. m : step[<<c, k>>] = Chunked(c, v, n, k)
  OBVIOUS
<1> HIDE DEF step
<1>4. PICK g \in [0..m -> S] :
         g = [i \in 0..m |-> IF i = 0 THEN s ELSE step[<<g[i - 1], i>>]]
  <2>1. Steps(0, m, S, s, step)
    BY <1>0, <1>2 DEF Steps
  <2> QED
    BY <2>1, StepRecursion
<1>5. ASSUME NEW i \in 0..m
      PROVE  g[i] = IF i = 0 THEN s ELSE Chunked(g[i - 1], v, n, i)
  <2>1. CASE i = 0
    BY <1>4, <2>1
  <2>2. CASE i # 0
    <3>1. i \in 0 + 1 .. m /\ i - 1 \in 0..m
      BY <1>0, <2>2
    <3>2. g[i - 1] \in S
      BY <1>4, <3>1
    <3> QED
      BY <1>3, <1>4, <2>2, <3>1, <3>2
  <2> QED
    BY <2>1, <2>2
<1>6. g = [i \in 0..m |-> g[i]]
  BY <1>4
<1>7. g = [k \in 0..m |-> IF k = 0 THEN s ELSE Chunked(g[k - 1], v, n, k)]
  BY ONLY <1>5, <1>6
<1> QED
  BY <1>7 DEF m

\* After the last chunk the items of the slice are gone.
LEMMA ChunksSlide ==
    ASSUME NEW C, NEW s \in Seq(C), NEW v, Upward(v, Len(s)), NEW g,
           g = [k \in 0..v.n |-> IF k = 0 THEN s ELSE Chunked(g[k - 1], v, Len(s), k)]
    PROVE  Slid(g[v.n], s, ItemsAt(s, v), Len(s) - v.n, Len(s), C)
<1> DEFINE n == Len(s)
           m == v.n
           u == ItemsAt(s, v)
           Done(k) == Slid(g[k], s, SubSeq(u, 1, k), Reached(v, n, k) - k, Reached(v, n, k), C)
           T == {k \in 0..m : Done(k)}
<1>0. n \in Nat /\ SliceOK(v, n, v.step)
  BY DEF Upward
<1>1. /\ m \in Nat /\ Reached(v, n, 0) = v.start /\ v.start \in 0..n
      /\ Reached(v, n, m) = n
  BY <1>0, ReachedIs
<1>2. u \in Seq(C) /\ Len(u) = m
  BY <1>0, ItemsIs
<1>3. Done(0)
  <2>1. SubSeq(u, 1, 0) = <<>>
    OBVIOUS
  <2>2. g[0] = s
    BY <1>1
  <2>3. Slid(s, s, <<>>, v.start, v.start, C)
    BY <1>1, SlideStarts
  <2>4. v.start - 0 = v.start
    BY <1>1
  <2> QED
    BY <1>1, <2>1, <2>2, <2>3, <2>4
<1>4. ASSUME NEW k \in 0..m - 1, Done(k) PROVE Done(k + 1)
  <2> DEFINE j == k + 1
  <2>1. j \in 1..v.n /\ j - 1 = k
    BY <1>1
  <2>2. g[j] = Chunked(g[j - 1], v, n, j)
    <3>1. j \in 0..v.n /\ j # 0
      BY <1>1, <2>1
    <3>2. g = [i \in 0..v.n |-> IF i = 0 THEN s ELSE Chunked(g[i - 1], v, n, i)]
      OBVIOUS
    <3> HIDE DEF j
    <3> QED
      BY ONLY <3>1, <3>2
  <2>3. Slid(g[j - 1], s, SubSeq(u, 1, j - 1), Reached(v, n, j - 1) - (j - 1), Reached(v, n, j - 1), C)
    BY <1>4, <2>1
  <2> HIDE DEF j, u, n
  <2>4. Slid(g[j - 1], s, SubSeq(ItemsAt(s, v), 1, j - 1),
             Reached(v, Len(s), j - 1) - (j - 1), Reached(v, Len(s), j - 1), C)
    BY <2>3 DEF u, n
  <2>5. Slid(Chunked(g[j - 1], v, Len(s), j), s, SubSeq(ItemsAt(s, v), 1, j),
             Reached(v, Len(s), j) - j, Reached(v, Len(s), j), C)
    BY <2>1, <2>4, ChunkedStep
  <2>6. Done(j)
    BY <2>2, <2>5 DEF u, n
  <2> QED
    BY <2>6 DEF j
<1>5. Done(m)
  <2> HIDE DEF Done
  <2>1. 0 \in T /\ \A k \in 0..m - 1 : k \in T => k + 1 \in T
    BY <1>1, <1>3, <1>4
  <2> HIDE DEF T
  <2>2. \A k \in 0..m : k \in T
    BY <1>1, <2>1, UpTo
  <2> QED
    BY <1>1, <2>2 DEF T
<1>6. SubSeq(u, 1, m) = u
  <2> HIDE DEF u
  <2>1. SubSeq(u, 1, Len(u)) = u
    BY <1>2, AllIs
  <2> QED
    BY <1>2, <2>1
<1> HIDE DEF u
<1>7. Slid(g[m], s, u, n - m, n, C)
  BY <1>1, <1>5, <1>6
<1> QED
  BY <1>7 DEF u

\* _ypSlice_delslice_memmove removes the items of the slice.
LEMMA UpwardMoves ==
    ASSUME NEW C, NEW s \in Seq(C), NEW v, Upward(v, Len(s)), v.step # 1
    PROVE  Removed(SubSeq((CHOOSE g : g = [k \in 0..v.n |->
                             IF k = 0 THEN s ELSE Chunked(g[k - 1], v, Len(s), k)])[v.n],
                          1, Len(s) - v.n),
                   s, ItemsAt(s, v), v.n, C)
<1> DEFINE h == CHOOSE g : g = [k \in 0..v.n |->
                             IF k = 0 THEN s ELSE Chunked(g[k - 1], v, Len(s), k)]
<1>0. s \in [1..Len(s) -> C] /\ Len(s) \in Nat
  OBVIOUS
<1>1. \E g : g = [k \in 0..v.n |-> IF k = 0 THEN s ELSE Chunked(g[k - 1], v, Len(s), k)]
  BY <1>0, ChunksExist, SMTT(30)
<1>2. h = [k \in 0..v.n |-> IF k = 0 THEN s ELSE Chunked(h[k - 1], v, Len(s), k)]
  BY <1>1
<1> HIDE DEF h
<1>3. Slid(h[v.n], s, ItemsAt(s, v), Len(s) - v.n, Len(s), C)
  BY <1>2, ChunksSlide
<1>4. Removed(SubSeq(h[v.n], 1, Len(s) - v.n), s, ItemsAt(s, v), Len(s) - (Len(s) - v.n), C)
  BY <1>3, SlideEnds
<1>5. v.n \in Nat
  BY <1>0, ReachedIs
<1>6. Len(s) - (Len(s) - v.n) = v.n
  BY <1>0, <1>5
<1> QED
  BY <1>4, <1>6 DEF h

\* When the slice is one part of the list, what is behind it moves at once.
LEMMA PartMoves ==
    ASSUME NEW C, NEW s \in Seq(C), NEW v, Upward(v, Len(s)), v.step = 1
    PROVE  Removed(SubSeq(Move(s, v.start, v.stop, Len(s) - v.stop), 1, Len(s) - v.n),
                   s, ItemsAt(s, v), v.n, C)
<1> DEFINE n == Len(s)
           a == v.start
           b == v.stop
           m == v.n
           g == SubSeq(s, a + 1, b)
<1>0. /\ n \in Nat /\ m \in 1..n /\ a \in 0..n /\ b \in 0..n /\ b = a + m /\ v.step = 1
      /\ SliceOK(v, n, 1)
  BY DEF Upward, SliceOK
<1>1. Slid(s, s, <<>>, a, a, C)
  BY <1>0, SlideStarts
<1>2. b \in a..Len(s) /\ n \in b..Len(s) /\ a \in 0..Len(s)
  BY <1>0
<1>3. Slid(Move(s, a, b, n - b), s, <<>> \o g, a + (n - b), n, C)
  <2> HIDE DEF n, a, b
  <2>1. Slid(Move(s, a, b, n - b), s, <<>> \o SubSeq(s, a + 1, b), a + (n - b), n, C)
    BY <1>1, <1>2, SlideStep
  <2> QED
    BY <2>1
<1>4. g \in Seq(C) /\ Len(g) = b - a /\ \A i \in 1..b - a : g[i] = s[a + i]
  <2> HIDE DEF n, a, b
  <2> QED
    BY <1>2, PartIs
<1>5. ItemsAt(s, v) \in Seq(C) /\ Len(ItemsAt(s, v)) = m
      /\ \A i \in 1..m : ItemsAt(s, v)[i] = s[SliceIndex(v, i - 1) + 1]
  BY <1>0, ItemsIs
<1>6. \A i \in 1..m : SliceIndex(v, i - 1) + 1 = a + i
  BY <1>0 DEF SliceIndex
<1> HIDE DEF n, a, b, m, g
<1>7. b - a = m /\ a + (n - b) = n - m
  BY <1>0
<1>8. g = ItemsAt(s, v)
  <2> DEFINE u == ItemsAt(s, v)
  <2>1. u \in Seq(C) /\ Len(u) = m /\ \A i \in 1..m : u[i] = s[a + i]
    BY <1>5, <1>6
  <2> HIDE DEF u
  <2>2. g = u
    BY <1>4, <1>7, <2>1
  <2> QED
    BY <2>2 DEF u
<1>9. <<>> \o g = g
  BY <1>4
<1>10. Slid(Move(s, a, b, n - b), s, ItemsAt(s, v), n - m, n, C)
  BY <1>3, <1>7, <1>8, <1>9
<1>11. Removed(SubSeq(Move(s, a, b, n - b), 1, n - m), s, ItemsAt(s, v), n - (n - m), C)
  <2>1. Slid(Move(s, a, b, n - b), s, ItemsAt(s, v), n - m, Len(s), C)
    BY <1>10 DEF n
  <2>2. Removed(SubSeq(Move(s, a, b, n - b), 1, n - m), s, ItemsAt(s, v), Len(s) - (n - m), C)
    BY <2>1, SlideEnds
  <2> QED
    BY <2>2 DEF n
<1>12. n - (n - m) = m
  BY <1>0
<1> QED
  BY <1>11, <1>12 DEF n, m, a, b

\* _ypSlice_delslice_memmove removes the items of the slice, whichever way
\* it goes.
LEMMA DelsliceIs ==
    ASSUME NEW C, NEW s \in Seq(C), NEW t, NEW step \in Int, step # 0,
           SliceOK(t, Len(s), step), t.n >= 1
    PROVE  Removed(SubSeq(DelsliceMove(s, Len(s), t), 1, Len(s) - t.n), s, ItemsAt(s, t), t.n, C)
<1> DEFINE v == IF t.step < 0 THEN InvertIndices(t) ELSE t
           h == CHOOSE g : g = [k \in 0..v.n |->
                             IF k = 0 THEN s ELSE Chunked(g[k - 1], v, Len(s), k)]
           w == IF v.step = 1 THEN Move(s, v.start, v.stop, Len(s) - v.stop) ELSE h[v.n]
<1>0. t.step = step /\ t.n \in 1..Len(s)
  BY DEF SliceOK
<1>1. DelsliceMove(s, Len(s), t) = w
  BY DEF DelsliceMove, Chunked
<1>2. /\ Upward(v, Len(s)) /\ v.n = t.n
      /\ \A y : Count(ItemsAt(s, v), y) = Count(ItemsAt(s, t), y)
  <2>1. CASE step < 0
    <3>1. v = InvertIndices(t)
      BY <1>0, <2>1
    <3>2. /\ Upward(InvertIndices(t), Len(s)) /\ InvertIndices(t).n = t.n
          /\ \A y : Count(ItemsAt(s, InvertIndices(t)), y) = Count(ItemsAt(s, t), y)
      BY <2>1, InvertIs
    <3> QED
      BY ONLY <3>1, <3>2
  <2>2. CASE ~(step < 0)
    <3>1. v = t
      BY <1>0, <2>2
    <3>2. t.step = 1 => t.stop = t.start + t.n
      <4> SUFFICES ASSUME t.step = 1 PROVE t.stop = t.start + t.n
        OBVIOUS
      <4>1. t.n = (IF t.start <= t.stop THEN t.stop - t.start ELSE 0) /\ t.start \in Int /\ t.stop \in Int
        BY <1>0 DEF SliceOK
      <4> QED
        BY <1>0, <4>1
    <3>3. Upward(t, Len(s))
      BY <1>0, <2>2, <3>2 DEF Upward
    <3> QED
      BY <3>1, <3>3
  <2> QED
    BY <2>1, <2>2
<1> HIDE DEF v
<1>3. Removed(SubSeq(w, 1, Len(s) - v.n), s, ItemsAt(s, v), v.n, C)
  <2>1. CASE v.step = 1
    <3>1. w = Move(s, v.start, v.stop, Len(s) - v.stop)
      BY <2>1
    <3>2. Removed(SubSeq(Move(s, v.start, v.stop, Len(s) - v.stop), 1, Len(s) - v.n),
                   s, ItemsAt(s, v), v.n, C)
      BY <1>2, <2>1, PartMoves
    <3> QED
      BY ONLY <3>1, <3>2
  <2>2. CASE v.step # 1
    <3>1. w = h[v.n]
      BY <2>2
    <3>2. Removed(SubSeq(h[v.n], 1, Len(s) - v.n), s, ItemsAt(s, v), v.n, C)
      BY <1>2, <2>2, UpwardMoves
    <3> QED
      BY ONLY <3>1, <3>2
  <2> QED
    BY <2>1, <2>2
<1> HIDE DEF w
<1>4. Removed(SubSeq(w, 1, Len(s) - t.n), s, ItemsAt(s, v), t.n, C)
  BY <1>2, <1>3
<1>5. Removed(SubSeq(w, 1, Len(s) - t.n), s, ItemsAt(s, t), t.n, C)
  BY <1>2, <1>4 DEF Removed
<1> QED
  BY <1>1, <1>5

\* w has the items at the places q of s.
Picks(w, s, q) ==
    /\ q \in [1..Len(w) -> 1..Len(s)]
    /\ \A i, j \in 1..Len(w) : q[i] = q[j] => i = j
    /\ \A i \in 1..Len(w) : w[i] = s[q[i]]

\* The other places where y is.
Others(w, s, q, y) == {k \in 1..Len(s) : s[k] = y /\ ~\E i \in 1..Len(w) : q[i] = k}

\* The items at some of the places, and those at the others.
LEMMA CountSplit ==
    ASSUME NEW C, NEW s \in Seq(C), NEW w \in Seq(C), NEW q, Picks(w, s, q), NEW y
    PROVE  /\ Cardinality(Others(w, s, q, y)) \in Nat
           /\ Count(s, y) = Count(w, y) + Cardinality(Others(w, s, q, y))
<1> USE DEF Picks
<1> DEFINE n == Len(s)
           m == Len(w)
           rest == {k \in 1..n : s[k] = y /\ ~\E i \in 1..m : q[i] = k}
           part == {k \in 1..n : s[k] = y /\ \E i \in 1..m : q[i] = k}
           A == Places(s, y)
           B == Places(w, y)
           p == [i \in B |-> q[i]]
<1>1. /\ IsFiniteSet(A) /\ Count(s, y) = Cardinality(A)
      /\ IsFiniteSet(B) /\ Count(w, y) = Cardinality(B)
  BY CountIs
<1>2. DOMAIN s = 1..n /\ DOMAIN w = 1..m
  OBVIOUS
<1>3. A = part \cup rest /\ part \cap rest = {} /\ part \subseteq A /\ rest \subseteq A
  BY <1>2 DEF Places
<1>4. IsFiniteSet(part) /\ IsFiniteSet(rest)
  BY <1>1, <1>3, FS_Subset
<1>5. \A i \in B : i \in 1..m /\ w[i] = y
  BY <1>2 DEF Places
<1>6. \A i \in B : q[i] \in part
  BY <1>5
<1>7. \A k \in part : \E i \in B : q[i] = k
  BY <1>2 DEF Places
<1> HIDE DEF n, m, rest, part, A, B
<1>8. p \in [B -> part] /\ \A i \in B : p[i] = q[i]
  BY <1>6
<1>9. (\A i, j \in B : p[i] = p[j] => i = j) /\ \A k \in part : \E i \in B : p[i] = k
  BY <1>5, <1>7, <1>8 DEF m
<1> HIDE DEF p
<1>10. p \in Bijection(B, part)
  BY <1>8, <1>9, BijectionIs
<1>11. ExistsBijection(B, part)
  BY <1>10 DEF ExistsBijection
<1>12. Cardinality(part) = Cardinality(B)
  BY <1>1, <1>4, <1>11, FS_Bijection
<1>13. Cardinality(part) \in Nat /\ Cardinality(rest) \in Nat
  BY <1>4, FS_CardinalityType
<1>14. Cardinality(part \cup rest) = Cardinality(part) + Cardinality(rest) - Cardinality(part \cap rest)
  BY <1>4, FS_Union
<1>15. Cardinality(part \cap rest) = 0
  BY <1>3, FS_EmptySet
<1>16. Cardinality(A) = Cardinality(B) + Cardinality(rest)
  BY <1>3, <1>12, <1>13, <1>14, <1>15
<1> QED
  BY <1>1, <1>13, <1>16 DEF rest, n, m, Others

\* Where a slice has its items: no place twice.
Spots(t) == [i \in 1..t.n |-> SliceIndex(t, i - 1) + 1]

\* The positions of a slice are different from each other.
LEMMA SpotsAre ==
    ASSUME NEW n \in Nat, NEW t, NEW step \in Int, step # 0, SliceOK(t, n, step)
    PROVE  /\ Spots(t) \in [1..t.n -> 1..n]
           /\ \A i, j \in 1..t.n : Spots(t)[i] = Spots(t)[j] => i = j
<1> DEFINE m == t.n
           a == t.start
<1>1. /\ m \in Nat /\ a \in Int /\ \A i \in 0..m - 1 : SliceIndex(t, i) \in 0..n - 1
      /\ \A i : SliceIndex(t, i) = a + i * step
  BY DEF SliceOK, SliceIndex
<1>2. Spots(t) = [i \in 1..m |-> SliceIndex(t, i - 1) + 1]
  BY DEF Spots
<1> HIDE DEF m, a
<1>3. ASSUME NEW i \in 1..m PROVE SliceIndex(t, i - 1) + 1 \in 1..n
  <2>1. i - 1 \in 0..m - 1
    BY <1>1
  <2>2. SliceIndex(t, i - 1) \in 0..n - 1
    BY <1>1, <2>1
  <2> QED
    BY <2>2
<1>4. ASSUME NEW i \in 1..m, NEW j \in 1..m,
             SliceIndex(t, i - 1) + 1 = SliceIndex(t, j - 1) + 1
      PROVE  i = j
  <2>1. i - 1 \in Int /\ j - 1 \in Int /\ i \in Int /\ j \in Int
    BY <1>1
  <2>2. (a + (i - 1) * step) + 1 = (a + (j - 1) * step) + 1
    BY <1>1, <1>4
  <2>3. (i - 1) * step \in Int /\ (j - 1) * step \in Int
    BY <2>1
  <2>4. (i - 1) * step = (j - 1) * step
    BY <1>1, <2>2, <2>3
  <2>5. (i - j) * step = 0
    BY <2>1, <2>4
  <2>6. i - j = 0
    BY <2>1, <2>5
  <2> QED
    BY <2>1, <2>6
<1> QED
  BY <1>2, <1>3, <1>4 DEF m

\* The items that take the places of those of a slice.
Placed(s, t, x) ==
    [k \in DOMAIN s |-> IF \E i \in 0..t.n - 1 : SliceIndex(t, i) = k - 1
                        THEN x[PartOf(t, k - 1)] ELSE s[k]]

\* An extended slice gives up its items and takes those of x.
LEMMA PlacedIs ==
    ASSUME NEW C, NEW s \in Seq(C), NEW x \in Seq(C), NEW t, NEW step \in Int, step # 0,
           SliceOK(t, Len(s), step), Len(x) = t.n
    PROVE  /\ Placed(s, t, x) \in Seq(C) /\ Len(Placed(s, t, x)) = Len(s)
           /\ \A y : Count(Placed(s, t, x), y) =
                     Count(s, y) - Count(ItemsAt(s, t), y) + Count(x, y)
<1> DEFINE n == Len(s)
           m == t.n
           q == Spots(t)
           w == Placed(s, t, x)
           u == ItemsAt(s, t)
<1>0. n \in Nat /\ m \in Nat /\ Len(x) = m /\ DOMAIN s = 1..n /\ \A k \in 1..n : s[k] \in C
  BY DEF SliceOK
<1>1. q \in [1..m -> 1..n] /\ \A i, j \in 1..m : q[i] = q[j] => i = j
  BY SpotsAre
<1>2. \A i \in 1..m : q[i] = SliceIndex(t, i - 1) + 1
  BY DEF Spots
<1>3. u \in Seq(C) /\ Len(u) = m /\ \A i \in 1..m : u[i] = s[q[i]]
  <2>1. u \in Seq(C) /\ Len(u) = m /\ \A i \in 1..m : u[i] = s[SliceIndex(t, i - 1) + 1]
    BY ItemsIs
  <2> HIDE DEF u, q
  <2> QED
    BY <1>2, <2>1
<1>4. w = [k \in 1..n |-> IF \E i \in 0..m - 1 : SliceIndex(t, i) = k - 1
                          THEN x[PartOf(t, k - 1)] ELSE s[k]]
  BY <1>0 DEF Placed
<1>5. \A k : PartOf(t, k - 1) = CHOOSE i \in 1..m : SliceIndex(t, i - 1) = k - 1
  BY DEF PartOf
<1>6. \A i \in 1..m : SliceIndex(t, i - 1) \in Int
  <2>1. \A i \in 1..m : i - 1 \in 0..m - 1
    BY <1>0
  <2> QED
    BY <2>1 DEF SliceOK
<1> HIDE DEF n, m, q, w, u
<1>7. ASSUME NEW k \in 1..n
      PROVE  (\E i \in 0..m - 1 : SliceIndex(t, i) = k - 1) <=> \E i \in 1..m : q[i] = k
  <2>1. ASSUME NEW i \in 0..m - 1, SliceIndex(t, i) = k - 1 PROVE \E j \in 1..m : q[j] = k
    <3>1. i + 1 \in 1..m /\ (i + 1) - 1 = i
      BY <1>0
    <3>2. q[i + 1] = (k - 1) + 1
      BY <1>2, <2>1, <3>1
    <3>3. (k - 1) + 1 = k
      BY <1>0
    <3> QED
      BY <3>1, <3>2, <3>3
  <2>2. ASSUME NEW i \in 1..m, q[i] = k PROVE \E j \in 0..m - 1 : SliceIndex(t, j) = k - 1
    <3>1. i - 1 \in 0..m - 1
      BY <1>0
    <3>2. SliceIndex(t, i - 1) = k - 1
      BY <1>0, <1>2, <1>6, <2>2, SMTT(30)
    <3> QED
      BY <3>1, <3>2
  <2> QED
    BY <2>1, <2>2
<1>8. ASSUME NEW i \in 1..m PROVE w[q[i]] = x[i] /\ q[i] \in 1..n
  <2> DEFINE k == q[i]
             j == PartOf(t, k - 1)
  <2>1. k \in 1..n /\ \E l \in 1..m : q[l] = k
    BY <1>1
  <2>2. SliceIndex(t, i - 1) = k - 1
    BY <1>0, <1>2, <1>6, <2>1
  <2>3. j \in 1..m /\ SliceIndex(t, j - 1) = k - 1
    BY <1>5, <2>2
  <2>4. q[j] = k
    BY <1>2, <2>2, <2>3
  <2> HIDE DEF j
  <2>5. j = i
    BY <1>1, <2>3, <2>4
  <2>6. w[k] = x[j]
    BY <1>4, <1>7, <2>1 DEF j
  <2> QED
    BY <2>1, <2>5, <2>6
<1>9. ASSUME NEW k \in 1..n, ~\E i \in 1..m : q[i] = k PROVE w[k] = s[k]
  BY <1>4, <1>7, <1>9
<1>10. ASSUME NEW k \in 1..n PROVE w[k] \in C
  <2>1. CASE \E i \in 1..m : q[i] = k
    <3>1. PICK i \in 1..m : q[i] = k
      BY <2>1
    <3>2. x[i] \in C
      BY <1>0
    <3> QED
      BY <1>8, <3>1, <3>2
  <2>2. CASE ~\E i \in 1..m : q[i] = k
    BY <1>0, <1>9, <2>2
  <2> QED
    BY <2>1, <2>2
<1>11. w \in Seq(C) /\ Len(w) = n
  <2>1. w = [k \in 1..n |-> w[k]]
    BY <1>4
  <2>2. w \in [1..n -> C]
    BY <1>10, <2>1
  <2> QED
    BY ONLY <1>0, <2>2
<1>12. ASSUME NEW y PROVE Count(w, y) = Count(s, y) - Count(u, y) + Count(x, y)
  <2> DEFINE R == {k \in 1..n : s[k] = y /\ ~\E i \in 1..m : q[i] = k}
             Q == {k \in 1..n : w[k] = y /\ ~\E i \in 1..m : q[i] = k}
  <2>1. Q = R
    BY <1>9
  <2>2. Cardinality(R) \in Nat /\ Count(s, y) = Count(u, y) + Cardinality(R)
    <3>1. Picks(u, s, q)
      BY <1>1, <1>3 DEF n, Picks
    <3>2. /\ Cardinality(Others(u, s, q, y)) \in Nat
          /\ Count(s, y) = Count(u, y) + Cardinality(Others(u, s, q, y))
      BY <1>3, <3>1, CountSplit
    <3>3. R = Others(u, s, q, y)
      BY <1>3 DEF n, Others
    <3> QED
      BY <3>2, <3>3
  <2>3. Cardinality(Q) \in Nat /\ Count(w, y) = Count(x, y) + Cardinality(Q)
    <3>1. Picks(x, w, q)
      BY <1>0, <1>1, <1>8, <1>11 DEF Picks
    <3>2. /\ Cardinality(Others(x, w, q, y)) \in Nat
          /\ Count(w, y) = Count(x, y) + Cardinality(Others(x, w, q, y))
      BY <1>11, <3>1, CountSplit
    <3>3. Q = Others(x, w, q, y)
      BY <1>0, <1>11 DEF Others
    <3> QED
      BY <3>2, <3>3
  <2>4. Count(u, y) \in Nat /\ Count(x, y) \in Nat
    BY <1>3, CountIs
  <2> HIDE DEF Q, R
  <2> QED
    BY <2>1, <2>2, <2>3, <2>4
<1> QED
  BY <1>11, <1>12 DEF w, n, u

\* Items gone and items new, each with its reference.
LEMMA CountsEven ==
    ASSUME BufferOK, NEW gone \in Seq(Items), NEW new \in Seq(Items), array' \in Seq(Items),
           \A y : Count(array', y) = Count(array, y) - Count(gone, y) + Count(new, y),
           refs' = [y \in Items |-> refs[y] - Count(gone, y) + Count(new, y)]
    PROVE  refs' \in [Items -> Int] /\ Even
<1>0. array \in Seq(Items) /\ refs \in [Items -> Int]
  BY DEF BufferOK
<1>1. \A y : Count(gone, y) \in Nat /\ Count(new, y) \in Nat /\ Count(array, y) \in Nat
  BY <1>0, CountIs
<1>2. refs' \in [Items -> Int]
  BY <1>0, <1>1
<1>3. ASSUME NEW y \in Items PROVE refs'[y] - Count(array', y) = refs[y] - Count(array, y)
  <2>1. refs'[y] = refs[y] - Count(gone, y) + Count(new, y)
    OBVIOUS
  <2>2. refs[y] \in Int
    BY <1>0
  <2> QED
    BY <1>1, <2>1, <2>2
<1> QED
  BY <1>2, <1>3 DEF Even

\* list_delslice
LEMMA DelPartEven ==
    ASSUME BufferOK, NEW t, NEW step \in Int, step # 0, SliceOK(t, Len(array), step), DelPart(t)
    PROVE  BufferOK' /\ Even
<1> DEFINE n == Len(array)
           gone == ItemsAt(array, t)
           none == <<>>
<1>0. /\ array \in Seq(Items) /\ n \in Nat /\ alloclen \in Nat /\ alloclen <= LenMax /\ n <= alloclen
      /\ inline \in BOOLEAN /\ (inline => alloclen <= InlineRoom) /\ t.n \in 0..n
  BY DEF BufferOK, BufferFits, SliceOK
<1>1. CASE t.n < 1 \/ t.n >= Len(array)
  <2>1. UNCHANGED bufVars
    BY <1>1 DEF DelPart, CallClear, Unchanged
  <2> QED
    BY <2>1, StaysEven
<1>2. CASE ~(t.n < 1 \/ t.n >= Len(array))
  <2>1. Decref(gone) /\ array' = SubSeq(DelsliceMove(array, n, t), 1, n - t.n) /\ Keep
    BY <1>2 DEF DelPart
  <2>2. t.n >= 1
    BY <1>0, <1>2
  <2>3. Removed(SubSeq(DelsliceMove(array, n, t), 1, n - t.n), array, gone, t.n, Items)
    BY <1>0, <2>2, DelsliceIs
  <2>4. Removed(array', array, gone, t.n, Items)
    BY <2>1, <2>3
  <2>5. array' \in Seq(Items) /\ Len(array') = n - t.n
        /\ \A y : Count(array', y) + Count(gone, y) = Count(array, y)
    BY <2>4 DEF Removed
  <2>6. gone \in Seq(Items) /\ none \in Seq(Items) /\ \A y : Count(none, y) = 0
    BY <1>0, ItemsIs, CountNone
  <2>7. \A y : Count(gone, y) \in Nat /\ Count(array, y) \in Nat /\ Count(array', y) \in Nat
    <3> HIDE DEF gone
    <3> QED
      BY <1>0, <2>5, <2>6, CountIs
  <2> HIDE DEF gone, none
  <2>8. \A y : Count(array', y) = Count(array, y) - Count(gone, y) + Count(none, y)
    BY <2>5, <2>6, <2>7
  <2>9. refs' = [y \in Items |-> refs[y] - Count(gone, y) + Count(none, y)]
    <3>1. ASSUME NEW y \in Items
          PROVE  refs[y] - Count(gone, y) = refs[y] - Count(gone, y) + Count(none, y)
      <4>1. refs[y] \in Int
        BY DEF BufferOK
      <4> QED
        BY <2>6, <2>7, <4>1
    <3>2. refs' = [y \in Items |-> refs[y] - Count(gone, y)]
      BY <2>1 DEF Decref
    <3> QED
      BY ONLY <3>1, <3>2
  <2>10. refs' \in [Items -> Int] /\ Even
    BY <2>5, <2>6, <2>8, <2>9, CountsEven
  <2>11. alloclen' = alloclen /\ inline' = inline /\ Len(array') <= alloclen
    BY <1>0, <2>1, <2>5 DEF Keep
  <2> QED
    BY <1>0, <2>5, <2>10, <2>11 DEF BufferOK, BufferFits
<1> QED
  BY <1>1, <1>2

\* The slices of calls.
LEMMA SliceOfIs ==
    ASSUME array \in Seq(Items), NEW s \in Int \X Int \X Int, s[3] # 0
    PROVE  SliceOK(SliceOf(s), Len(array), s[3])
<1>1. Len(array) \in Nat /\ s[1] \in Int /\ s[2] \in Int /\ s[3] \in Int
  OBVIOUS
<1>2. SliceOK(AdjustIndices(Len(array), s[1], s[2], s[3]), Len(array), s[3])
  BY <1>1, AdjustIs
<1> QED
  BY <1>2 DEF SliceOf

\* list_delslice, for any slice.
LEMMA DelSliceEven ==
    ASSUME BufferOK, NEW s \in Int \X Int \X Int, DelSlice(s)
    PROVE  BufferOK' /\ Even
<1>1. CASE StepError(s[3]) # "none"
  <2>1. UNCHANGED bufVars
    BY <1>1 DEF DelSlice, Unchanged
  <2> QED
    BY <2>1, StaysEven
<1>2. CASE ~(StepError(s[3]) # "none")
  <2>1. DelPart(SliceOf(s))
    BY <1>2 DEF DelSlice
  <2>2. s[3] # 0 /\ s[3] \in Int
    BY <1>2 DEF StepError
  <2>3. SliceOK(SliceOf(s), Len(array), s[3])
    BY <2>2, SliceOfIs DEF BufferOK
  <2> QED
    BY <2>1, <2>2, <2>3, DelPartEven
<1> QED
  BY <1>1, <1>2

\* A slice of step 1 that does not stop before it starts.
RunsForward(s) == s[3] = 1 => SliceOf(s).start <= SliceOf(s).stop

\* list_setslice
LEMMA SetSliceEven ==
    ASSUME BufferOK, NEW s \in Int \X Int \X Int, NEW x, Argument(x) \in Seq(Items),
           SetSlice(s, x)
    PROVE  BufferOK' /\ (RunsForward(s) => Even)
<1> DEFINE t == SliceOf(s)
           new == Argument(x)
           gone == ItemsAt(array, t)
<1>0. /\ array \in Seq(Items) /\ alloclen \in Nat /\ alloclen <= LenMax /\ Len(array) <= alloclen
      /\ inline \in BOOLEAN /\ (inline => alloclen <= InlineRoom) /\ s[3] \in Int
  BY DEF BufferOK, BufferFits
<1>1. CASE UNCHANGED bufVars
  BY <1>1, StaysEven
<1>2. CASE ~UNCHANGED bufVars
  <2>1. ~(StepError(s[3]) # "none")
    BY <1>2 DEF SetSlice, Unchanged
  <2>2. s[3] # 0
    BY <2>1 DEF StepError
  <2>3. SliceOK(t, Len(array), s[3])
    BY <1>0, <2>2, SliceOfIs
  <2>4. CASE s[3] = 1 /\ new = <<>>
    <3>1. DelPart(t)
      BY <1>2, <2>1, <2>4 DEF SetSlice, Unchanged
    <3> HIDE DEF t
    <3>2. BufferOK' /\ Even
      BY <1>0, <2>2, <2>3, <3>1, DelPartEven
    <3> QED
      BY <3>2
  <2>5. CASE s[3] = 1 /\ new # <<>>
    <3>1. ReplacePart(t.start, t.stop, Len(new) - t.n, new)
      BY <1>2, <2>1, <2>5 DEF SetSlice, Unchanged
    <3>2. Grows(array, new, t.start, t.stop, Len(new) - t.n)
      BY <2>3, <2>5 DEF Grows, SliceOK
    <3>3. RunsForward(s) => t.start <= t.stop
      BY <2>5 DEF RunsForward
    <3> DEFINE a == t.start
               b == t.stop
               g == Len(new) - t.n
    <3> HIDE DEF t, new, a, b, g
    <3>4. ReplacePart(a, b, g, new) /\ Grows(array, new, a, b, g) /\ new \in Seq(Items)
      BY <3>1, <3>2 DEF a, b, g, new
    <3>5. BufferOK' /\ (a <= b => Even)
      BY <3>4, ReplacePartEven
    <3> QED
      BY <3>3, <3>5 DEF a, b
  <2>6. CASE s[3] # 1
    <3>1. /\ Len(new) = t.n
          /\ array' = Placed(array, t, new)
          /\ refs' = [y \in Items |-> refs[y] - Count(gone, y) + Count(new, y)]
          /\ Keep
      BY <1>2, <2>1, <2>6 DEF SetSlice, Unchanged, Placed
    <3> HIDE DEF t, new
    <3>2. new \in Seq(Items)
      BY DEF new
    <3>3. /\ Placed(array, t, new) \in Seq(Items) /\ Len(Placed(array, t, new)) = Len(array)
          /\ \A y : Count(Placed(array, t, new), y) =
                     Count(array, y) - Count(ItemsAt(array, t), y) + Count(new, y)
      BY <1>0, <2>2, <2>3, <3>1, <3>2, PlacedIs
    <3>4. gone \in Seq(Items)
      BY <1>0, <2>3, ItemsIs
    <3>5. /\ array' \in Seq(Items) /\ Len(array') = Len(array)
          /\ \A y : Count(array', y) = Count(array, y) - Count(gone, y) + Count(new, y)
      BY <3>1, <3>3
    <3> HIDE DEF gone
    <3>6. refs' \in [Items -> Int] /\ Even
      BY <3>1, <3>2, <3>4, <3>5, CountsEven
    <3> QED
      BY <1>0, <3>1, <3>5, <3>6 DEF BufferOK, BufferFits, Keep
  <2> QED
    BY <2>4, <2>5, <2>6
<1> QED
  BY <1>1, <1>2

(***************************************************************************)
(* list_irepeat: copies of the items, twice as many at each step.          *)
(***************************************************************************)
\* What may be in a buffer.
LEMMA AfterCells ==
    ASSUME NEW C, NEW s \in Seq(C), NEW b, b.alloclen \in Nat, Len(s) <= b.alloclen
    PROVE  After(b, s, Len(s)) \in [1..b.alloclen -> C \cup {Junk}]
<1> DEFINE n == b.alloclen
           D == C \cup {Junk}
<1>0. n \in Nat /\ Len(s) \in Nat /\ Len(s) <= n /\ s \in Seq(D)
      /\ \A i \in 1..Len(s) : s[i] \in D
  OBVIOUS
<1>1. CASE b.moved
  <2>1. After(b, s, Len(s)) = CopyCells(Fresh(n), 0, s, 0, Len(s))
    BY <1>1 DEF After
  <2>2. Fresh(n) = [i \in 1..n |-> Junk] /\ Junk \in D
    BY DEF Fresh
  <2> HIDE DEF n, D
  <2> DEFINE w == CopyCells(Fresh(n), 0, s, 0, Len(s))
  <2>3. w = [i \in 1..n |-> IF 0 < i /\ i <= 0 + Len(s) THEN s[i - 0 + 0] ELSE Fresh(n)[i]]
    BY <2>2 DEF CopyCells
  <2> HIDE DEF w
  <2>4. ASSUME NEW i \in 1..n PROVE w[i] \in D
    <3>1. i - 0 + 0 = i /\ 0 + Len(s) = Len(s)
      BY <1>0
    <3>2. CASE i <= Len(s)
      <4>1. i \in 1..Len(s)
        BY <1>0, <3>2
      <4> QED
        BY <1>0, <2>3, <3>1, <3>2, <4>1
    <3>3. CASE ~(i <= Len(s))
      BY <2>2, <2>3, <3>1, <3>3
    <3> QED
      BY <3>2, <3>3
  <2>5. w \in [1..n -> D]
    BY <2>3, <2>4
  <2> QED
    BY <2>1, <2>5 DEF w, n, D
<1>2. CASE ~b.moved
  <2> DEFINE k == n - Len(s)
             f == Fresh(k)
  <2>1. After(b, s, Len(s)) = s \o f
    BY <1>2 DEF After, Cells
  <2>2. k \in Nat /\ Len(s) + k = n
    BY <1>0
  <2> HIDE DEF k, n
  <2>3. f \in Seq(D) /\ Len(f) = k
    BY <2>2 DEF Fresh
  <2> HIDE DEF f, D
  <2> DEFINE w == s \o f
  <2>4. w \in Seq(D) /\ JoinCells(w, s, f, Len(s), k)
    BY <1>0, <2>3, JoinIs
  <2> HIDE DEF w
  <2>5. Len(w) = n
    BY <2>2, <2>4 DEF JoinCells
  <2>6. w \in [1..n -> D]
    BY <2>4, <2>5
  <2> QED
    BY <2>1, <2>6 DEF w, n, D
<1> QED
  BY <1>1, <1>2

\* A buffer whose first a cells have items, and among them s first.
Filled(c, s, a, N, C, D) ==
    /\ c \in [1..N -> D] /\ a \in 0..N
    /\ \A i \in 1..a : c[i] \in C
    /\ Len(s) <= a /\ \A i \in 1..Len(s) : c[i] = s[i]

\* What is copied behind the filled cells fills more of them.
LEMMA MoveFills ==
    ASSUME NEW C, NEW D, NEW s \in Seq(C), NEW N \in Nat, NEW a, NEW b \in 0..a, a + b <= N, NEW c,
           Filled(c, s, a, N, C, D)
    PROVE  Filled(Move(c, a, 0, b), s, a + b, N, C, D)
<1> DEFINE w == Move(c, a, 0, b)
<1>0. /\ c \in [1..N -> D] /\ a \in 0..N /\ b \in Nat /\ a + b \in 0..N /\ b <= a
      /\ \A i \in 1..a : c[i] \in C
      /\ Len(s) \in Nat /\ Len(s) <= a /\ \A i \in 1..Len(s) : c[i] = s[i]
  BY DEF Filled
<1>1. w = [i \in 1..N |-> IF a < i /\ i <= a + b THEN c[i - a + 0] ELSE c[i]]
  BY <1>0 DEF Move, CopyCells
<1> HIDE DEF w
<1>2. ASSUME NEW i \in 1..N, a < i, i <= a + b PROVE w[i] = c[i - a] /\ i - a \in 1..a /\ i - a \in 1..N
  <2>1. i - a \in 1..a /\ i - a + 0 = i - a /\ i - a \in 1..N
    BY <1>0, <1>2
  <2> QED
    BY <1>1, <1>2, <2>1
<1>3. ASSUME NEW i \in 1..N, ~(a < i /\ i <= a + b) PROVE w[i] = c[i]
  BY <1>1, <1>3
<1>4. w \in [1..N -> D]
  <2>1. \A i \in 1..N : w[i] \in D
    BY <1>0, <1>2, <1>3
  <2> QED
    BY <1>1, <2>1
<1>5. ASSUME NEW i \in 1..a + b PROVE w[i] \in C
  <2>1. i \in 1..N
    BY <1>0
  <2>2. CASE a < i
    <3>1. a < i /\ i <= a + b
      BY <1>0, <2>2
    <3> QED
      BY <1>0, <1>2, <2>1, <3>1
  <2>3. CASE ~(a < i)
    <3>1. i \in 1..a
      BY <1>0, <2>3
    <3> QED
      BY <1>0, <1>3, <2>1, <2>3, <3>1
  <2> QED
    BY <2>2, <2>3
<1>6. ASSUME NEW i \in 1..Len(s) PROVE w[i] = s[i]
  <2>1. i \in 1..N /\ ~(a < i)
    BY <1>0
  <2> QED
    BY <1>0, <1>3, <2>1
<1>7. Len(s) <= a + b
  BY <1>0
<1> QED
  BY <1>0, <1>4, <1>5, <1>6, <1>7 DEF Filled, w

\* One doubling of _ypSequence_repeat_memcpy.
Double(d, n, factor) ==
    IF d.copied * 2 >= factor THEN d
    ELSE [cells |-> Move(d.cells, n * d.copied, 0, n * d.copied), copied |-> d.copied * 2]

\* Some copies of s are in the buffer, which has room for factor.
Copied(d, s, factor, N, C, D) ==
    /\ d \in [cells : [1..N -> D], copied : 1..factor]
    /\ Filled(d.cells, s, Len(s) * d.copied, N, C, D)

\* A doubling keeps within the copies that were asked for.
LEMMA DoubleIs ==
    ASSUME NEW C, NEW D, NEW s \in Seq(C), NEW factor \in Nat, NEW N \in Nat, Len(s) * factor <= N,
           NEW d, Copied(d, s, factor, N, C, D)
    PROVE  /\ Copied(Double(d, Len(s), factor), s, factor, N, C, D)
           /\ d.copied \in Nat /\ d.copied >= 1
           /\ \/ d.copied * 2 >= factor /\ Double(d, Len(s), factor).copied = d.copied
              \/ Double(d, Len(s), factor).copied = d.copied * 2
<1> DEFINE n == Len(s)
           k == d.copied
           x == n * k
           c == d.cells
<1>0. /\ d \in [cells : [1..N -> D], copied : 1..factor] /\ k \in 1..factor /\ n \in Nat
      /\ Filled(c, s, x, N, C, D)
  BY DEF Copied
<1>1. k \in Nat /\ k >= 1
  BY <1>0
<1>2. CASE k * 2 >= factor
  BY <1>1, <1>2 DEF Double
<1>3. CASE ~(k * 2 >= factor)
  <2> DEFINE w == Move(c, x, 0, x)
  <2>1. Double(d, n, factor) = [cells |-> w, copied |-> k * 2]
    BY <1>3 DEF Double
  <2>2. k * 2 \in 1..factor
    BY <1>1, <1>3
  <2>3. x \in Nat /\ n * (k * 2) = x + x
    BY <1>0, <1>1
  <2>4. x + x <= N
    <3>1. k * 2 \in Nat /\ k * 2 <= factor
      BY <1>1, <2>2
    <3>2. (k * 2) * n \in Nat /\ (k * 2) * n <= factor * n
      BY <1>0, <3>1, ProductIs
    <3>3. (k * 2) * n = n * (k * 2) /\ factor * n = n * factor /\ n * factor \in Nat
      BY <1>0, <1>1
    <3> HIDE DEF n, k, x
    <3> DEFINE p == n * (k * 2)
               q == n * factor
    <3>4. p <= q /\ q <= N /\ p \in Nat /\ q \in Nat /\ p = x + x
      BY <2>3, <3>2, <3>3 DEF n
    <3> HIDE DEF p, q
    <3> QED
      BY <3>4
  <2>5. x \in 0..x
    BY <2>3
  <2> HIDE DEF x, c
  <2>6. Filled(w, s, x + x, N, C, D)
    BY <1>0, <2>4, <2>5, MoveFills
  <2> HIDE DEF w
  <2>7. w \in [1..N -> D]
    BY <2>6 DEF Filled
  <2> DEFINE e == [cells |-> w, copied |-> k * 2]
  <2>8. e \in [cells : [1..N -> D], copied : 1..factor] /\ e.cells = w /\ e.copied = k * 2
    BY <2>2, <2>7
  <2> HIDE DEF e, k, n
  <2>9. Filled(e.cells, s, n * e.copied, N, C, D)
    BY <2>3, <2>6, <2>8
  <2>10. Copied(e, s, factor, N, C, D)
    BY <2>8, <2>9 DEF Copied, n
  <2>11. Double(d, n, factor) = e
    BY <2>1 DEF e
  <2> QED
    BY <1>1, <2>8, <2>10, <2>11 DEF n, k
<1> QED
  BY <1>2, <1>3

\* The filled part doubles, again and again.
Doublings(g, c, n, factor) ==
    g = [k \in 0..factor |-> IF k = 0 THEN [cells |-> c, copied |-> 1]
                             ELSE Double(g[k - 1], n, factor)]

\* As often as is asked for.
LEMMA DoublesExist ==
    ASSUME NEW C, NEW D, NEW s \in Seq(C), NEW factor \in Nat \ {0}, NEW N \in Nat,
           Len(s) * factor <= N, NEW c, Copied([cells |-> c, copied |-> 1], s, factor, N, C, D)
    PROVE  \E g : Doublings(g, c, Len(s), factor)
<1> DEFINE z == [cells |-> c, copied |-> 1]
           S == {d \in [cells : [1..N -> D], copied : 1..factor] : Copied(d, s, factor, N, C, D)}
           step == [w \in S \X (0 + 1 .. factor) |-> Double(w[1], Len(s), factor)]
<1>0. 0 \in Int /\ factor \in Int /\ 0 <= factor /\ factor \in Nat
  OBVIOUS
<1>1. z \in S
  BY DEF Copied
<1>2. ASSUME NEW d \in S PROVE Double(d, Len(s), factor) \in S
  <2>1. Copied(Double(d, Len(s), factor), s, factor, N, C, D)
    BY DoubleIs
  <2> QED
    BY <2>1 DEF Copied
<1> HIDE DEF S, z
<1>3. step \in [S \X (0 + 1 .. factor) -> S]
  <2>1. ASSUME NEW w \in S \X (0 + 1 .. factor) PROVE Double(w[1], Len(s), factor) \in S
    <3>1. w[1] \in S
      OBVIOUS
    <3> QED
      BY <1>2, <3>1
  <2> QED
    BY <2>1
<1>4. \A d \in S, k \in 0 + 1 .. factor : step[<<d, k>>] = Double(d, Len(s), factor)
  OBVIOUS
<1> HIDE DEF step
<1>5. PICK g \in [0..factor -> S] :
         g = [i \in 0..factor |-> IF i = 0 THEN z ELSE step[<<g[i - 1], i>>]]
  <2>1. Steps(0, factor, S, z, step)
    BY <1>0, <1>1, <1>3 DEF Steps
  <2> QED
    BY <2>1, StepRecursion, SMTT(30)
<1>6. ASSUME NEW i \in 0..factor
      PROVE  g[i] = IF i = 0 THEN z ELSE Double(g[i - 1], Len(s), factor)
  <2>1. CASE i = 0
    BY <1>5, <2>1
  <2>2. CASE i # 0
    <3>1. i \in 0 + 1 .. factor /\ i - 1 \in 0..factor
      BY <1>0, <2>2
    <3>2. g[i - 1] \in S
      BY <1>5, <3>1
    <3> QED
      BY <1>4, <1>5, <2>2, <3>1, <3>2
  <2> QED
    BY <2>1, <2>2
<1>7. g = [i \in 0..factor |-> g[i]]
  BY <1>5
<1>8. g = [k \in 0..factor |-> IF k = 0 THEN z ELSE Double(g[k - 1], Len(s), factor)]
  BY ONLY <1>6, <1>7
<1>9. Doublings(g, c, Len(s), factor)
  BY ONLY <1>8 DEF z, Doublings
<1> QED
  BY <1>9

\* After as many doublings as there are copies to make, one
\* more would be too many.
LEMMA DoublesEnough ==
    ASSUME NEW C, NEW D, NEW s \in Seq(C), NEW factor \in Nat \ {0}, NEW N \in Nat,
           Len(s) * factor <= N, NEW c, Copied([cells |-> c, copied |-> 1], s, factor, N, C, D),
           NEW g, g = [k \in 0..factor |-> IF k = 0 THEN [cells |-> c, copied |-> 1]
                                           ELSE Double(g[k - 1], Len(s), factor)]
    PROVE  /\ Copied(g[factor], s, factor, N, C, D)
           /\ g[factor].copied \in Nat /\ g[factor].copied >= 1
           /\ g[factor].copied * 2 >= factor
<1> DEFINE z == [cells |-> c, copied |-> 1]
           Far(d, k) == d.copied * 2 >= factor \/ d.copied >= k + 1
           T == {k \in 0..factor : Copied(g[k], s, factor, N, C, D) /\ Far(g[k], k)}
<1>0. factor \in Nat /\ factor >= 1
  OBVIOUS
<1>1. g[0] = z /\ z.copied = 1
  BY <1>0
<1>2. 0 \in T
  BY <1>0, <1>1
<1>3. ASSUME NEW k \in 0..factor - 1, k \in T PROVE k + 1 \in T
  <2> DEFINE j == k + 1
             d == g[k]
             e == g[j]
  <2>1. j \in 0..factor /\ j # 0 /\ j - 1 = k /\ k \in Nat
    BY <1>0
  <2>2. e = Double(g[j - 1], Len(s), factor)
    <3>1. g = [i \in 0..factor |-> IF i = 0 THEN [cells |-> c, copied |-> 1]
                                           ELSE Double(g[i - 1], Len(s), factor)]
      OBVIOUS
    <3> HIDE DEF j
    <3> QED
      BY ONLY <2>1, <3>1
  <2>3. Copied(d, s, factor, N, C, D) /\ Far(d, k)
    BY <1>3
  <2>4. e = Double(d, Len(s), factor)
    BY <2>1, <2>2
  <2> HIDE DEF d, e, j, T
  <2>5. /\ Copied(Double(d, Len(s), factor), s, factor, N, C, D)
        /\ d.copied \in Nat /\ d.copied >= 1
        /\ \/ d.copied * 2 >= factor /\ Double(d, Len(s), factor).copied = d.copied
           \/ Double(d, Len(s), factor).copied = d.copied * 2
    <3>1. /\ s \in Seq(C) /\ factor \in Nat /\ N \in Nat /\ Len(s) * factor <= N
          /\ Copied(d, s, factor, N, C, D)
      BY <1>0, <2>3
    <3> QED
      BY ONLY <3>1, DoubleIs
  <2>6. Far(e, j)
    <3>1. CASE d.copied * 2 >= factor /\ Double(d, Len(s), factor).copied = d.copied
      BY <2>4, <3>1
    <3>2. CASE ~(d.copied * 2 >= factor) /\ Double(d, Len(s), factor).copied = d.copied * 2
      <4>1. d.copied >= k + 1
        BY <2>3, <3>2
      <4>2. d.copied * 2 >= j + 1
        BY <2>1, <2>5, <4>1 DEF j
      <4> QED
        BY <2>4, <3>2, <4>2
    <3>3. CASE d.copied * 2 >= factor /\ Double(d, Len(s), factor).copied = d.copied * 2
      <4>1. (d.copied * 2) * 2 >= factor
        BY <1>0, <2>5, <3>3
      <4> QED
        BY <2>4, <3>3, <4>1
    <3> QED
      BY <2>5, <3>1, <3>2, <3>3
  <2>7. j \in 0..factor /\ Copied(g[j], s, factor, N, C, D) /\ Far(g[j], j)
    BY <2>1, <2>4, <2>5, <2>6 DEF e
  <2>8. j \in T
    BY <2>7 DEF T
  <2> QED
    BY <2>8 DEF j
<1>4. factor \in T
  <2> HIDE DEF T
  <2>1. \A k \in 0..factor - 1 : k \in T => k + 1 \in T
    BY <1>3
  <2>2. \A k \in 0..factor : k \in T
    BY <1>0, <1>2, <2>1, UpTo
  <2> QED
    BY <1>0, <2>2
<1> DEFINE d == g[factor]
<1>5. Copied(d, s, factor, N, C, D) /\ Far(d, factor)
  BY <1>4
<1> HIDE DEF d
<1>6. d.copied \in 1..factor
  BY <1>5 DEF Copied
<1>7. d.copied \in Nat /\ d.copied >= 1 /\ d.copied * 2 >= factor
  BY <1>0, <1>5, <1>6
<1> QED
  BY <1>5, <1>7 DEF d

\* _ypSequence_repeat_memcpy fills the buffer with copies of the items.
LEMMA RepeatFills ==
    ASSUME NEW C, NEW D, NEW s \in Seq(C), NEW factor \in Nat \ {0}, NEW N \in Nat,
           Len(s) * factor <= N, NEW c, Filled(c, s, Len(s), N, C, D)
    PROVE  Filled(RepeatCopy(c, factor, Len(s)), s, Len(s) * factor, N, C, D)
<1> DEFINE n == Len(s)
           z == [cells |-> c, copied |-> 1]
           g == CHOOSE f : f = [k \in 0..factor |-> IF k = 0 THEN z
                                           ELSE Double(f[k - 1], n, factor)]
           d == g[factor]
           k == d.copied
           w == d.cells
<1>0. n \in Nat /\ factor \in Nat /\ factor >= 1 /\ n * 1 = n
  OBVIOUS
<1>1. Copied(z, s, factor, N, C, D)
  <2>1. c \in [1..N -> D] /\ z.cells = c /\ z.copied = 1 /\ 1 \in 1..factor
    BY <1>0 DEF Filled
  <2>2. z \in [cells : [1..N -> D], copied : 1..factor]
    BY <2>1
  <2>3. Filled(z.cells, s, n * z.copied, N, C, D)
    <3> HIDE DEF z
    <3> QED
      BY <1>0, <2>1
  <2> QED
    BY <2>2, <2>3 DEF Copied
<1>2. RepeatCopy(c, factor, n) = Move(w, n * k, 0, n * (factor - k))
  BY DEF RepeatCopy, Double
<1>3. \E f : Doublings(f, c, n, factor)
  BY <1>1, DoublesExist
<1>4. g = [i \in 0..factor |-> IF i = 0 THEN [cells |-> c, copied |-> 1]
                                           ELSE Double(g[i - 1], Len(s), factor)]
  BY <1>3 DEF Doublings
<1> HIDE DEF g
<1>5. /\ Copied(g[factor], s, factor, N, C, D)
      /\ g[factor].copied \in Nat /\ g[factor].copied >= 1
      /\ g[factor].copied * 2 >= factor
  BY <1>1, <1>4, DoublesEnough
<1>6. Filled(w, s, n * k, N, C, D) /\ k \in 1..factor
  BY <1>5 DEF Copied
<1>7. n * (factor - k) \in 0..n * k /\ n * k + n * (factor - k) = n * factor
  <2> HIDE DEF n, d
  <2>1. factor - k \in Nat /\ factor - k <= k /\ k \in Nat
    BY <1>0, <1>5, <1>6, SMTT(30) DEF d
  <2>2. (factor - k) * n \in Nat /\ (factor - k) * n <= k * n
    BY <1>0, <2>1, ProductIs
  <2>3. (factor - k) * n = n * (factor - k) /\ k * n = n * k /\ n * k \in Nat
    BY <1>0, <2>1, SMTT(30)
  <2>4. n * k + n * (factor - k) = n * factor
    BY <1>0, <2>1, SMTT(30)
  <2>5. n * (factor - k) \in 0..n * k
    <3> DEFINE p == n * (factor - k)
               q == n * k
    <3>1. p \in Nat /\ q \in Nat /\ p <= q
      BY <2>2, <2>3
    <3> HIDE DEF p, q
    <3>2. p \in 0..q
      BY <3>1
    <3> QED
      BY <3>2 DEF p, q
  <2> QED
    BY <2>4, <2>5
<1> DEFINE a == n * k
           b == n * (factor - k)
<1>8. b \in 0..a /\ a + b <= N /\ Filled(w, s, a, N, C, D) /\ a + b = n * factor
  BY <1>6, <1>7
<1> HIDE DEF a, b, d, n
<1>9. Filled(Move(w, a, 0, b), s, a + b, N, C, D)
  BY <1>8, MoveFills
<1> QED
  BY <1>2, <1>8, <1>9 DEF a, b, n

\* The filled cells are a sequence of items that begins with s.
LEMMA FilledIs ==
    ASSUME NEW C, NEW D, NEW s \in Seq(C), NEW c, NEW a, NEW N \in Nat, Filled(c, s, a, N, C, D)
    PROVE  /\ SubSeq(c, 1, a) \in Seq(C) /\ Len(SubSeq(c, 1, a)) = a
           /\ \A y : Count(SubSeq(c, 1, a), y) =
                     Count(s, y) + Count(SubSeq(SubSeq(c, 1, a), Len(s) + 1, a), y)
           /\ SubSeq(SubSeq(c, 1, a), Len(s) + 1, a) \in Seq(C)
<1> DEFINE u == SubSeq(c, 1, a)
           n == Len(s)
           rest == SubSeq(u, n + 1, a)
           top == SubSeq(u, 1, n)
<1>0. a \in Nat /\ n \in Nat /\ n <= a /\ (\A i \in 1..a : c[i] \in C) /\ \A i \in 1..n : c[i] = s[i]
  BY DEF Filled
<1>1. u = [i \in 1..Len(u) |-> u[i]] /\ Len(u) = a /\ \A i \in 1..a : u[i] = c[i]
  BY <1>0, FirstIs
<1> HIDE DEF u, n
<1>2. u \in [1..a -> C]
  BY <1>0, <1>1
<1>3. u \in Seq(C)
  BY ONLY <1>0, <1>2
<1>4. top = [i \in 1..Len(top) |-> top[i]] /\ Len(top) = n /\ \A i \in 1..n : top[i] = u[i]
  BY <1>0, FirstIs
<1> HIDE DEF top
<1>5. top = s
  <2>1. s = [i \in 1..n |-> s[i]]
    BY DEF n
  <2>2. \A i \in 1..n : top[i] = s[i]
    BY <1>0, <1>1, <1>4
  <2> QED
    BY <1>4, <2>1, <2>2
<1>6. rest \in Seq(C)
  <2>1. n \in 0..Len(u) /\ a \in n..Len(u)
    BY <1>0, <1>1
  <2> QED
    BY <1>3, <2>1, PartIs
<1>7. ASSUME NEW y PROVE Count(u, y) = Count(s, y) + Count(rest, y)
  <2>1. 0 \in 0..Len(u) /\ n \in 0..Len(u) /\ Len(u) \in n..Len(u) /\ 0 + 1 = 1
    BY <1>0, <1>1
  <2>2. Count(SubSeq(u, 0 + 1, Len(u)), y) =
        Count(SubSeq(u, 0 + 1, n), y) + Count(SubSeq(u, n + 1, Len(u)), y)
    BY <1>3, <2>1, PartsCount
  <2>3. SubSeq(u, 1, Len(u)) = u
    BY <1>3, AllIs
  <2> QED
    BY <1>1, <1>5, <2>1, <2>2, <2>3 DEF top
<1> QED
  BY <1>1, <1>3, <1>6, <1>7 DEF u, n

\* list_irepeat
LEMMA IRepeatEven ==
    ASSUME BufferOK, NEW factor \in Int, IRepeat(factor)
    PROVE  BufferOK' /\ Even
<1> DEFINE n == Len(array)
           l == n * factor
<1>0. array \in Seq(Items) /\ n \in Nat /\ alloclen \in Nat /\ alloclen <= LenMax /\ n <= alloclen /\ inline \in BOOLEAN
  BY DEF BufferOK, BufferFits
<1>1. CASE UNCHANGED bufVars
  BY <1>1, StaysEven
<1>2. CASE ~UNCHANGED bufVars
  <2>1. factor \in Nat \ {0} /\ n >= 1
    <3>1. array # <<>> /\ ~(factor < 1)
      BY <1>2 DEF IRepeat, Unchanged, CallClear
    <3> QED
      BY <1>0, <3>1
  <2>2. PICK b \in Buffers(l) :
          LET all == SubSeq(RepeatCopy(After(b, array, n), factor, n), 1, l)
          IN  /\ Take(b) /\ array' = all /\ Incref(SubSeq(all, n + 1, l))
    BY <1>2 DEF IRepeat, Unchanged, CallClear
  <2>3. l \in Nat /\ n <= l
    <3>1. 1 \in Nat /\ factor \in Nat /\ 1 <= factor
      BY <2>1
    <3>2. 1 * n \in Nat /\ 1 * n <= factor * n
      BY <1>0, <3>1, ProductIs
    <3>3. 1 * n = n /\ factor * n = l /\ l \in Nat
      BY <1>0, <3>1
    <3> HIDE DEF n, l
    <3> QED
      BY <3>2, <3>3
  <2> DEFINE N == b.alloclen
             D == Items \cup {Junk}
             c == After(b, array, n)
             r == RepeatCopy(c, factor, n)
             all == SubSeq(r, 1, l)
             new == SubSeq(all, n + 1, l)
             none == <<>>
  <2>4. N \in Nat /\ N <= LenMax /\ l <= N /\ b.inline \in BOOLEAN /\ (b.inline => N <= InlineRoom)
    <3> HIDE DEF l
    <3>1. /\ b.alloclen \in Nat /\ b.alloclen <= LenMax /\ l <= b.alloclen /\ b.inline \in BOOLEAN
          /\ b.inline => b.alloclen <= InlineRoom
      BY <2>3, BuffersAre
    <3> QED
      BY <3>1
  <2>5. /\ alloclen' = N /\ inline' = b.inline /\ array' = all
        /\ refs' = [y \in Items |-> refs[y] + Count(new, y)]
    BY <2>2 DEF Take, Incref
  <2>6. Filled(c, array, n, N, Items, D)
    <3>1. b.alloclen \in Nat /\ Len(array) <= b.alloclen
      <4> HIDE DEF l
      <4> QED
        BY <1>0, <2>3, <2>4
    <3>2. c \in [1..N -> D]
      BY <1>0, <3>1, AfterCells
    <3>3. Buffered(c, array, N)
      BY <1>0, <3>1, AfterIs
    <3>4. \A i \in 1..n : c[i] = array[i] /\ array[i] \in Items
      BY <1>0, <3>3 DEF Buffered
    <3> HIDE DEF c, D, N
    <3> QED
      BY <1>0, <3>1, <3>2, <3>4 DEF Filled, N
  <2> HIDE DEF c, D, N
  <2>7. Filled(r, array, l, N, Items, D)
    <3>1. /\ array \in Seq(Items) /\ factor \in Nat \ {0} /\ N \in Nat
          /\ Len(array) * factor <= N /\ Filled(c, array, Len(array), N, Items, D)
      BY <1>0, <2>1, <2>4, <2>6
    <3> QED
      BY ONLY <3>1, RepeatFills
  <2> HIDE DEF r, l
  <2>8. /\ all \in Seq(Items) /\ Len(all) = l
        /\ \A y : Count(all, y) = Count(array, y) + Count(new, y)
        /\ new \in Seq(Items)
    BY <1>0, <2>4, <2>7, FilledIs
  <2> HIDE DEF all, new, none
  <2>9. none \in Seq(Items) /\ \A y : Count(none, y) = 0
    BY CountNone, EmptySeq DEF none
  <2>10. \A y : Count(array, y) \in Nat /\ Count(new, y) \in Nat
    BY <1>0, <2>8, CountIs
  <2>11. /\ array' \in Seq(Items)
         /\ \A y : Count(array', y) = Count(array, y) - Count(none, y) + Count(new, y)
    BY <2>5, <2>8, <2>9, <2>10
  <2>12. refs' = [y \in Items |-> refs[y] - Count(none, y) + Count(new, y)]
    <3>1. ASSUME NEW y \in Items
          PROVE  refs[y] + Count(new, y) = refs[y] - Count(none, y) + Count(new, y)
      <4>1. refs[y] \in Int
        BY DEF BufferOK
      <4> QED
        BY <2>9, <2>10, <4>1
    <3>2. refs' = [y \in Items |-> refs[y] + Count(new, y)]
      BY <2>5
    <3> QED
      BY ONLY <3>1, <3>2
  <2>13. refs' \in [Items -> Int] /\ Even
    BY <2>8, <2>9, <2>11, <2>12, CountsEven
  <2> QED
    BY <2>4, <2>5, <2>8, <2>13 DEF BufferOK, BufferFits
<1> QED
  BY <1>1, <1>2

(***************************************************************************)
(* The calls under way, and the items that sorts hold meanwhile.           *)
(***************************************************************************)
\* The calls that may be under way.
PlainFrames == [op : {"clear", "extend"}, user : BOOLEAN]
SortFrames ==
    {f \in [op : {"sort"}, user : BOOLEAN, items : Seq(Items), alloclen : Nat,
            keys : Seq(Ranks), reverse : BOOLEAN] :
        Len(f.items) <= f.alloclen /\ f.alloclen <= LenMax}
Frames == PlainFrames \cup SortFrames

\* Where the sorts of a stack of calls hold x.
HeldIn(fs, x) ==
    UNION {{k} \X Places(fs[k].items, x) : k \in {j \in DOMAIN fs : fs[j].op = "sort"}}

\* What a call under way has.
LEMMA SortFrameIs ==
    ASSUME NEW f \in Frames
    PROVE  /\ f.op = "sort" => f \in SortFrames /\ f.items \in Seq(Items) /\ f.alloclen \in Nat /\ f.alloclen <= LenMax
                               /\ Len(f.items) <= f.alloclen /\ f.keys \in Seq(Ranks)
           /\ f.op # "sort" => f \in PlainFrames
           /\ f.user \in BOOLEAN
BY DEF Frames, PlainFrames, SortFrames

\* A place in one of the sorts.
LEMMA HeldMember ==
    ASSUME NEW fs, NEW x, NEW h
    PROVE  h \in HeldIn(fs, x) <=>
           \E k \in DOMAIN fs : fs[k].op = "sort" /\ h \in {k} \X Places(fs[k].items, x)
BY DEF HeldIn

\* The places of one sort.
LEMMA BlockIs ==
    ASSUME NEW f \in Frames, f.op = "sort", NEW k, NEW x
    PROVE  /\ IsFiniteSet({k} \X Places(f.items, x))
           /\ Cardinality({k} \X Places(f.items, x)) = Count(f.items, x)
           /\ Count(f.items, x) \in Nat
<1>1. f.items \in Seq(Items)
  BY SortFrameIs
<1>2. /\ IsFiniteSet(Places(f.items, x)) /\ Count(f.items, x) = Cardinality(Places(f.items, x))
      /\ Count(f.items, x) \in Nat
  BY <1>1, CountIs
<1>3. IsFiniteSet({k}) /\ Cardinality({k}) = 1
  BY FS_Singleton
<1>4. /\ IsFiniteSet({k} \X Places(f.items, x))
      /\ Cardinality({k} \X Places(f.items, x)) = Cardinality({k}) * Cardinality(Places(f.items, x))
  BY <1>2, <1>3, FS_Product
<1> QED
  BY <1>2, <1>3, <1>4

\* Sorts hold finitely many items.
LEMMA HeldIs ==
    ASSUME NEW fs \in Seq(Frames), NEW x
    PROVE  IsFiniteSet(HeldIn(fs, x)) /\ Cardinality(HeldIn(fs, x)) \in Nat
<1> DEFINE D == {j \in DOMAIN fs : fs[j].op = "sort"}
           Block(k) == {k} \X Places(fs[k].items, x)
           T == {Block(k) : k \in D}
           g == [k \in D |-> Block(k)]
<1>1. IsFiniteSet(D)
  <2>1. DOMAIN fs = 1..Len(fs) /\ Len(fs) \in Int
    OBVIOUS
  <2>2. IsFiniteSet(1..Len(fs))
    BY <2>1, FS_Interval
  <2> QED
    BY <2>1, <2>2, FS_Subset
<1>2. \A k \in D : IsFiniteSet(Block(k))
  <2>1. ASSUME NEW k \in D PROVE IsFiniteSet(Block(k))
    <3>1. fs[k] \in Frames /\ fs[k].op = "sort"
      OBVIOUS
    <3> QED
      BY <3>1, BlockIs
  <2> QED
    BY <2>1
<1>3. HeldIn(fs, x) = UNION T
  BY DEF HeldIn
<1> HIDE DEF D, Block
<1>4. g \in [D -> T] /\ \A b \in T : \E k \in D : g[k] = b
  OBVIOUS
<1>5. \A b \in T : IsFiniteSet(b)
  BY <1>2
<1> HIDE DEF T, g
<1>6. g \in Surjection(D, T)
  BY <1>4 DEF Surjection
<1>7. IsFiniteSet(T)
  BY <1>1, <1>6, FS_Surjection
<1>8. IsFiniteSet(UNION T)
  BY <1>5, <1>7, FS_UNION
<1> QED
  BY <1>3, <1>8, FS_CardinalityType

\* What one more call holds.
LEMMA HeldAppend ==
    ASSUME NEW fs \in Seq(Frames), NEW f \in Frames, NEW x
    PROVE  /\ f.op = "sort" => /\ Count(f.items, x) \in Nat
                               /\ Cardinality(HeldIn(Append(fs, f), x)) =
                                  Cardinality(HeldIn(fs, x)) + Count(f.items, x)
           /\ f.op # "sort" => Cardinality(HeldIn(Append(fs, f), x)) = Cardinality(HeldIn(fs, x))
<1> DEFINE n == Len(fs)
           gs == Append(fs, f)
           A == HeldIn(fs, x)
           B == HeldIn(gs, x)
           Block == {n + 1} \X Places(f.items, x)
<1>1. /\ gs \in Seq(Frames) /\ n \in Nat /\ DOMAIN fs = 1..n /\ DOMAIN gs = 1..n + 1
      /\ gs[n + 1] = f /\ \A i \in 1..n : gs[i] = fs[i]
  BY AppendProperties
<1>2. \A h : h \in A <=> \E k \in 1..n : fs[k].op = "sort" /\ h \in {k} \X Places(fs[k].items, x)
  BY <1>1, HeldMember
<1>3. \A h : h \in B <=> \E k \in 1..n + 1 : gs[k].op = "sort" /\ h \in {k} \X Places(gs[k].items, x)
  <2> HIDE DEF gs, n
  <2> QED
    BY <1>1, HeldMember
<1>4. \A h : h \in B <=> h \in A \/ (f.op = "sort" /\ h \in Block)
  <2>1. \A k \in 1..n + 1 : k = n + 1 \/ k \in 1..n
    BY <1>1
  <2>2. (\A k \in 1..n : k \in 1..n + 1) /\ n + 1 \in 1..n + 1
    BY <1>1
  <2> HIDE DEF gs, n, A, B
  <2> QED
    BY <1>1, <1>2, <1>3, <2>1, <2>2
<1>5. A \cap Block = {}
  <2>1. ASSUME NEW h \in A, h \in Block PROVE FALSE
    <3>1. PICK k \in 1..n : h \in {k} \X Places(fs[k].items, x)
      BY <1>2, <2>1
    <3>2. h[1] = k /\ h[1] = n + 1
      BY <2>1, <3>1
    <3> QED
      BY <1>1, <3>1, <3>2
  <2> QED
    BY <2>1
<1>6. IsFiniteSet(A) /\ Cardinality(A) \in Nat
  BY HeldIs
<1>7. CASE f.op = "sort"
  <2>1. /\ IsFiniteSet(Block) /\ Cardinality(Block) = Count(f.items, x)
        /\ Count(f.items, x) \in Nat
    BY <1>7, BlockIs
  <2> HIDE DEF A, B, Block
  <2>2. B = A \cup Block
    BY <1>4, <1>7
  <2>3. Cardinality(A \cup Block) = Cardinality(A) + Cardinality(Block) - Cardinality(A \cap Block)
    BY <1>6, <2>1, FS_Union
  <2>4. Cardinality(A \cap Block) = 0
    BY <1>5, FS_EmptySet
  <2>5. Cardinality(B) = Cardinality(A) + Count(f.items, x)
    BY <1>6, <2>1, <2>2, <2>3, <2>4
  <2> QED
    BY <1>7, <2>1, <2>5 DEF A, B
<1>8. CASE f.op # "sort"
  <2>1. B = A
    <3> HIDE DEF A, B
    <3> QED
      BY <1>4, <1>8
  <2> QED
    BY <1>8, <2>1
<1> QED
  BY <1>7, <1>8

\* The calls below the one on top.
LEMMA BelowIs ==
    ASSUME NEW fs \in Seq(Frames), fs # <<>>
    PROVE  /\ Front(fs) \in Seq(Frames) /\ fs[Len(fs)] \in Frames
           /\ fs = Append(Front(fs), fs[Len(fs)])
<1> DEFINE n == Len(fs)
           m == n - 1
           u == SubSeq(fs, 1, m)
           e == fs[n]
<1>1. n \in Nat /\ n >= 1 /\ m \in Nat /\ m + 1 = n /\ e \in Frames
  OBVIOUS
<1>2. Front(fs) = u
  BY DEF Front
<1>3. u \in Seq(Frames) /\ Len(u) = m /\ \A i \in 1..m : u[i] = fs[i]
  <2>1. u = [i \in 1..Len(u) |-> u[i]] /\ Len(u) = m /\ \A i \in 1..m : u[i] = fs[i]
    <3> HIDE DEF m
    <3> QED
      BY <1>1, FirstIs
  <2>2. \A i \in 1..m : fs[i] \in Frames
    BY <1>1
  <2> HIDE DEF u, m
  <2>3. u \in [1..m -> Frames]
    BY <2>1, <2>2
  <2>4. u \in Seq(Frames)
    BY ONLY <1>1, <2>3
  <2> QED
    BY <2>1, <2>4
<1> HIDE DEF u, m, e
<1>4. fs = Append(u, e)
  <2> DEFINE w == Append(u, e)
  <2>1. /\ w \in Seq(Frames) /\ Len(w) = m + 1 /\ \A i \in 1..m : w[i] = u[i]
        /\ w[m + 1] = e
    BY <1>1, <1>3, AppendProperties
  <2> HIDE DEF w
  <2>2. Len(w) = n
    BY <1>1, <2>1
  <2>3. ASSUME NEW i \in 1..n PROVE w[i] = fs[i]
    <3>1. i \in 1..m \/ i = m + 1
      BY <1>1
    <3> QED
      BY <1>1, <1>3, <2>1, <3>1 DEF e
  <2>4. w = [i \in 1..n |-> w[i]] /\ fs = [i \in 1..n |-> fs[i]]
    BY <2>1, <2>2
  <2>5. fs = w
    BY <2>3, <2>4
  <2> QED
    BY <2>5 DEF w
<1> QED
  BY <1>1, <1>2, <1>3, <1>4 DEF e, u

ListInv ==
    /\ BufferOK
    /\ type \in {"list", "tuple"} /\ hashed \in BOOLEAN
    /\ frames \in Seq(Frames)

\* References come and go with the places of the items, those in sorts
\* included.
Balance ==
    \A x \in Items :
        refs'[x] - Count(array', x) - Cardinality(HeldIn(frames', x)) =
        refs[x] - Count(array, x) - Cardinality(HeldIn(frames, x))

HeldSame == \A x \in Items : Cardinality(HeldIn(frames', x)) = Cardinality(HeldIn(frames, x))

\* What a step does to the calls that are under way.
FramesStep == frames' \in Seq(Frames) /\ HeldSame

\* A call that sorts nothing keeps the references right if it does so
\* within the list.
LEMMA BalanceOf ==
    ASSUME ListInv, BufferOK', FramesStep, type' \in {"list", "tuple"}, hashed' \in BOOLEAN
    PROVE  ListInv' /\ (Even => Balance)
<1>1. ASSUME Even, NEW x \in Items
      PROVE  refs'[x] - Count(array', x) - Cardinality(HeldIn(frames', x)) =
             refs[x] - Count(array, x) - Cardinality(HeldIn(frames, x))
  BY <1>1 DEF Even, FramesStep, HeldSame
<1> QED
  BY <1>1 DEF ListInv, FramesStep, Balance

\* No call begins or ends.
LEMMA FramesKept ==
    ASSUME frames \in Seq(Frames), UNCHANGED frames
    PROVE  FramesStep
BY DEF FramesStep, HeldSame

\* A call begins that holds no items.
LEMMA FramePushed ==
    ASSUME frames \in Seq(Frames), NEW f \in PlainFrames, frames' = Append(frames, f)
    PROVE  FramesStep
<1>1. f \in Frames /\ f.op # "sort"
  BY DEF Frames, PlainFrames
<1>2. Append(frames, f) \in Seq(Frames)
  BY <1>1, AppendProperties
<1>3. ASSUME NEW x \in Items
      PROVE  Cardinality(HeldIn(Append(frames, f), x)) = Cardinality(HeldIn(frames, x))
  BY <1>1, HeldAppend
<1> QED
  BY <1>2, <1>3 DEF FramesStep, HeldSame

\* A call ends that holds no items.
LEMMA FramePopped ==
    ASSUME frames \in Seq(Frames), frames # <<>>, Top.op # "sort", frames' = Front(frames)
    PROVE  FramesStep
<1> DEFINE u == Front(frames)
           f == Top
<1>1. u \in Seq(Frames) /\ f \in Frames /\ frames = Append(u, f) /\ f.op # "sort"
  BY BelowIs DEF Top
<1> HIDE DEF u, f
<1>2. ASSUME NEW x \in Items PROVE Cardinality(HeldIn(frames, x)) = Cardinality(HeldIn(u, x))
  <2>1. Cardinality(HeldIn(Append(u, f), x)) = Cardinality(HeldIn(u, x))
    BY <1>1, HeldAppend
  <2> QED
    BY <1>1, <2>1
<1>3. frames' = u
  BY DEF u
<1> QED
  BY <1>1, <1>2, <1>3 DEF FramesStep, HeldSame

\* The call on top goes on, with the items it holds.
LEMMA FrameSet ==
    ASSUME frames \in Seq(Frames), frames # <<>>, NEW g \in Frames, g.op = Top.op,
           g.op = "sort" => g.items = Top.items, frames' = Append(Front(frames), g)
    PROVE  FramesStep
<1> DEFINE u == Front(frames)
           f == Top
<1>1. u \in Seq(Frames) /\ f \in Frames /\ frames = Append(u, f) /\ g.op = f.op
      /\ (g.op = "sort" => g.items = f.items)
  BY BelowIs DEF Top
<1>2. frames' = Append(u, g)
  OBVIOUS
<1> HIDE DEF u, f
<1>3. Append(u, g) \in Seq(Frames)
  BY <1>1, AppendProperties
<1>4. ASSUME NEW x \in Items
      PROVE  Cardinality(HeldIn(Append(u, g), x)) = Cardinality(HeldIn(frames, x))
  <2>1. CASE g.op = "sort"
    <3>0. f.op = "sort"
      BY <1>1, <2>1
    <3>1. Cardinality(HeldIn(Append(u, g), x)) = Cardinality(HeldIn(u, x)) + Count(g.items, x)
      BY <1>1, <2>1, HeldAppend
    <3>2. Cardinality(HeldIn(Append(u, f), x)) = Cardinality(HeldIn(u, x)) + Count(f.items, x)
      <4>1. u \in Seq(Frames) /\ f \in Frames
        BY <1>1
      <4>2. f.op = "sort" =>
              Cardinality(HeldIn(Append(u, f), x)) = Cardinality(HeldIn(u, x)) + Count(f.items, x)
        BY ONLY <4>1, HeldAppend
      <4> QED
        BY <3>0, <4>2
    <3> QED
      BY <1>1, <2>1, <3>1, <3>2
  <2>2. CASE g.op # "sort"
    <3>1. Cardinality(HeldIn(Append(u, g), x)) = Cardinality(HeldIn(u, x))
      BY <1>1, <2>2, HeldAppend
    <3>2. Cardinality(HeldIn(Append(u, f), x)) = Cardinality(HeldIn(u, x))
      BY <1>1, <2>2, HeldAppend
    <3> QED
      BY <1>1, <3>1, <3>2
  <2> QED
    BY <2>1, <2>2
<1> QED
  BY <1>2, <1>3, <1>4 DEF FramesStep, HeldSame

\* list_clear holds no items.
LEMMA StayOrClear ==
    ASSUME frames \in Seq(Frames), Stay \/ CallClear
    PROVE  FramesStep /\ UNCHANGED <<type, hashed>>
<1>1. CASE Stay
  BY <1>1, FramesKept DEF Stay
<1>2. CASE CallClear
  <2> DEFINE f == [op |-> "clear", user |-> FALSE]
  <2>1. frames' = Append(frames, f) /\ UNCHANGED <<type, hashed>>
    BY <1>2 DEF CallClear
  <2>2. f \in PlainFrames
    BY DEF PlainFrames
  <2> HIDE DEF f
  <2> QED
    BY <2>1, <2>2, FramePushed
<1> QED
  BY <1>1, <1>2

(***************************************************************************)
(* The steps.                                                              *)
(***************************************************************************)
\* The calls that end before anything else runs.
LEMMA InsertEven ==
    ASSUME BufferOK, NEW i \in Int, NEW x \in Items, Insert(i, x)
    PROVE  BufferOK' /\ Even
<1> DEFINE n == Len(array)
           j == IF i < 0 THEN IF i + n < 0 THEN 0 ELSE i + n ELSE IF i > n THEN n ELSE i
           one == <<x>>
<1>0. n \in Nat
  BY DEF BufferOK
<1>1. ReplacePart(j, j, 1, one)
  BY DEF Insert
<1>2. j \in 0..n
  BY <1>0
<1>3. one \in Seq(Items) /\ Len(one) = 1
  OBVIOUS
<1> HIDE DEF j, one
<1>4. Grows(array, one, j, j, 1)
  BY <1>0, <1>2, <1>3 DEF Grows
<1>5. BufferOK' /\ (j <= j => Even)
  BY <1>1, <1>3, <1>4, ReplacePartEven
<1> QED
  BY <1>2, <1>5

\* list_remove
LEMMA RemoveEven ==
    ASSUME BufferOK, NEW x, Remove1(x)
    PROVE  BufferOK' /\ Even
<1>1. CASE UNCHANGED bufVars
  BY <1>1, StaysEven
<1>2. CASE ~UNCHANGED bufVars
  <2>1. PICK i \in Int : PopAt(i, "ok")
    BY <1>2, RemovePops
  <2> QED
    BY <2>1, PopAtEven
<1> QED
  BY <1>1, <1>2

\* list_pop
LEMMA PopEven ==
    ASSUME BufferOK, Pop
    PROVE  BufferOK' /\ Even
<1>1. CASE array = <<>>
  <2>1. UNCHANGED bufVars
    BY <1>1 DEF Pop, Unchanged
  <2> QED
    BY <2>1, StaysEven
<1>2. CASE array # <<>>
  <2>1. array' = Front(array) /\ Decref(<<Last(array)>>) /\ Keep
    BY <1>2 DEF Pop
  <2> QED
    BY <1>2, <2>1, FrontEven
<1> QED
  BY <1>1, <1>2

\* _ypTuple_extend_fromtuple, also of the list by itself.
LEMMA ExtendFromEven ==
    ASSUME BufferOK, NEW x, Argument(x) \in Seq(Items), ExtendFromTuple(x)
    PROVE  BufferOK' /\ Even
<1>1. CASE Argument(x) = <<>>
  <2>1. UNCHANGED bufVars
    BY <1>1 DEF ExtendFromTuple, Unchanged
  <2> QED
    BY <2>1, StaysEven
<1>2. CASE Argument(x) # <<>>
  <2>1. AppendAll(Argument(x))
    BY <1>2 DEF ExtendFromTuple
  <2> QED
    BY <2>1, AppendAllEven
<1> QED
  BY <1>1, <1>2

\* An argument is a sequence of items.
LEMMA ArgumentIs ==
    ASSUME ListInv, NEW x \in Args \cup {Self}
    PROVE  Argument(x) \in Seq(Items)
BY ListAssumption DEF Argument, ListInv, BufferOK

\* Indices are numbers.
LEMMA IndexIs ==
    ASSUME NEW i \in Indices
    PROVE  i \in Int
BY ListAssumption DEF Indices

\* A call that changes what is in the list, or leaves it to list_clear.
LEMMA ChangeIs ==
    ASSUME ListInv, BufferOK', Stay \/ CallClear
    PROVE  ListInv' /\ (Even => Balance)
<1>1. FramesStep /\ UNCHANGED <<type, hashed>>
  BY StayOrClear DEF ListInv
<1> QED
  BY <1>1, BalanceOf DEF ListInv

\* list_delslice ends at once, or goes on as list_clear.
LEMMA DelSliceFrames ==
    ASSUME NEW s, DelSlice(s)
    PROVE  Stay \/ CallClear
<1> DEFINE t == SliceOf(s)
           e == StepError(s[3])
<1> HIDE DEF t, e
<1>1. IF e # "none" THEN Stay /\ Unchanged(e) ELSE DelPart(t)
  BY DEF DelSlice, t, e
<1> QED
  BY <1>1 DEF DelPart

\* list_setslice ends at once, or goes on as list_clear.
LEMMA SetSliceFrames ==
    ASSUME NEW s, NEW x, SetSlice(s, x)
    PROVE  Stay \/ CallClear
<1> DEFINE t == SliceOf(s)
           e == StepError(s[3])
           new == Argument(x)
<1>1. Stay \/ (e = "none" /\ s[3] = 1 /\ new = <<>> /\ DelPart(t))
  BY DEF SetSlice
<1> HIDE DEF t
<1> QED
  BY <1>1 DEF DelPart

\* list_irepeat ends at once, or goes on as list_clear.
LEMMA IRepeatFrames ==
    ASSUME NEW f, IRepeat(f)
    PROVE  Stay \/ CallClear
BY DEF IRepeat

\* list_sort takes the items away.
LEMMA SortSound ==
    ASSUME ListInv, NEW keyed \in BOOLEAN, NEW reverse \in BOOLEAN, Sort(keyed, reverse)
    PROVE  ListInv' /\ Balance
<1>0. /\ array \in Seq(Items) /\ alloclen \in Nat /\ alloclen <= LenMax /\ Len(array) <= alloclen /\ inline \in BOOLEAN
      /\ refs \in [Items -> Int] /\ BufferOK /\ frames \in Seq(Frames)
      /\ UNCHANGED <<type, hashed>>
  BY DEF ListInv, BufferOK, BufferFits, Sort
<1>1. CASE UNCHANGED <<bufVars, frames>>
  <2>1. BufferOK' /\ Even
    BY <1>0, <1>1, StaysEven
  <2>2. FramesStep
    BY <1>0, <1>1, FramesKept
  <2> QED
    BY <1>0, <2>1, <2>2, BalanceOf DEF ListInv
<1>2. CASE ~UNCHANGED <<bufVars, frames>>
  <2>1. Emptied /\ UNCHANGED refs /\ \E n \in DetachedLens : Call(Detached(reverse, keyed, n))
    BY <1>2 DEF Sort, Unchanged
  <2>2. PICK n \in DetachedLens : frames' = Append(frames, Detached(reverse, keyed, n))
    BY <2>1 DEF Call
  <2>3. n \in Nat /\ n <= LenMax /\ Len(array) <= n
    <3>1. CASE inline
      <4>1. n \in Len(array)..LenMax /\ Len(array) \in Nat
        BY <1>0, <2>2, <3>1 DEF DetachedLens
      <4> QED
        BY <4>1, ListAssumption
    <3>2. CASE ~inline
      <4>1. n = alloclen
        BY <2>2, <3>2 DEF DetachedLens
      <4> QED
        BY <1>0, <4>1
    <3> QED
      BY <3>1, <3>2
  <2> DEFINE f == Detached(reverse, keyed, n)
  <2>4. /\ f \in Frames /\ f.op = "sort" /\ f.items = array
    <3>1. f = [op |-> "sort", user |-> keyed, items |-> array, alloclen |-> n,
               keys |-> <<>>, reverse |-> reverse]
      BY DEF Detached
    <3>2. <<>> \in Seq(Ranks)
      BY EmptySeq
    <3> HIDE DEF f
    <3>3. f \in [op : {"sort"}, user : BOOLEAN, items : Seq(Items), alloclen : Nat,
                 keys : Seq(Ranks), reverse : BOOLEAN]
      BY <1>0, <2>3, <3>1, <3>2
    <3>4. f.op = "sort" /\ f.items = array /\ f.alloclen = n
      BY <3>1
    <3> QED
      BY <2>3, <3>3, <3>4 DEF Frames, SortFrames
  <2> HIDE DEF f
  <2>5. frames' = Append(frames, f) /\ frames' \in Seq(Frames)
    <3>1. Append(frames, f) \in Seq(Frames)
      BY <1>0, <2>4, AppendProperties
    <3> QED
      BY <2>2, <3>1 DEF f
  <2>6. array' = <<>> /\ alloclen' = InlineLen /\ inline' = TRUE /\ refs' = refs
    BY <2>1 DEF Emptied
  <2>7. BufferOK'
    <3>1. <<>> \in Seq(Items) /\ Len(<<>>) = 0 /\ InlineLen \in Nat /\ InlineRoom \in Nat
                                               /\ InlineLen <= InlineRoom /\ InlineRoom <= LenMax /\ InlineLen <= LenMax
      BY ListAssumption, EmptySeq
    <3> QED
      BY <1>0, <2>6, <3>1 DEF BufferOK, BufferFits
  <2>8. ASSUME NEW x \in Items
        PROVE  refs'[x] - Count(array', x) - Cardinality(HeldIn(frames', x)) =
               refs[x] - Count(array, x) - Cardinality(HeldIn(frames, x))
    <3>1. Cardinality(HeldIn(Append(frames, f), x)) = Cardinality(HeldIn(frames, x)) + Count(f.items, x)
          /\ Count(f.items, x) \in Nat
      BY <1>0, <2>4, HeldAppend
    <3>2. Count(array', x) = 0
      BY <2>6, CountNone
    <3>3. Cardinality(HeldIn(frames, x)) \in Nat /\ refs[x] \in Int
      BY <1>0, HeldIs
    <3> DEFINE h == Cardinality(HeldIn(frames, x))
               c == Count(array, x)
               r == refs[x]
    <3>4. /\ Cardinality(HeldIn(frames', x)) = h + c /\ refs'[x] = r /\ c \in Nat /\ h \in Nat
          /\ r \in Int
      BY <2>4, <2>5, <2>6, <3>1, <3>3
    <3> HIDE DEF h, c, r
    <3>5. refs'[x] - Count(array', x) - Cardinality(HeldIn(frames', x)) = r - 0 - (h + c)
      BY <3>2, <3>4
    <3>6. r - 0 - (h + c) = r - c - h
      BY <3>4
    <3> QED
      BY <3>5, <3>6 DEF r, c, h
  <2> QED
    BY <1>0, <2>5, <2>7, <2>8 DEF ListInv, Balance
<1> QED
  BY <1>1, <1>2

\* _ypTuple_attach_array: the sort's items go back to the list, or go away.
LEMMA AttachSound ==
    ASSUME ListInv, frames # <<>>, Top.op = "sort", NEW items \in Seq(Items),
           Rearranged(items, Top.items), NEW r, Attach(items, r)
    PROVE  ListInv' /\ Balance
<1> DEFINE u == Front(frames)
           f == Top
           own == f.items
<1>0. /\ array \in Seq(Items) /\ alloclen \in Nat /\ alloclen <= LenMax /\ Len(array) <= alloclen /\ inline \in BOOLEAN
      /\ refs \in [Items -> Int] /\ frames \in Seq(Frames)
      /\ (inline => alloclen <= InlineRoom)
      /\ frames' = u /\ UNCHANGED <<type, hashed>>
  BY DEF ListInv, BufferOK, BufferFits, Attach, Ended
<1>1. u \in Seq(Frames) /\ f \in Frames /\ frames = Append(u, f) /\ f.op = "sort"
  BY <1>0, BelowIs DEF Top
<1>2. own \in Seq(Items) /\ f.alloclen \in Nat /\ f.alloclen <= LenMax /\ Len(own) <= f.alloclen
  <2> HIDE DEF f
  <2> QED
    BY <1>1, SortFrameIs
<1>3. \/ array' = array /\ Keep /\ refs' = [x \in Items |-> refs[x] - Count(own, x)]
      \/ /\ array' = items /\ alloclen' = f.alloclen /\ inline' = FALSE
         /\ refs' = [x \in Items |-> refs[x] - Count(array, x)]
  BY DEF Attach, Decref
<1>4. Len(items) = Len(own) /\ Rearranged(items, own)
  BY DEF Rearranged
<1> HIDE DEF u, f, own
<1>5. \A x : /\ Count(items, x) = Count(own, x) /\ Count(own, x) \in Nat
             /\ Count(array, x) \in Nat /\ Count(items, x) \in Nat
  BY <1>0, <1>2, <1>4, CountRearranged, CountIs
<1>6. refs' \in [Items -> Int]
  BY <1>0, <1>3, <1>5
<1>7. BufferOK'
  <2>1. CASE array' = array /\ Keep
    BY <1>0, <1>6, <2>1 DEF BufferOK, BufferFits, Keep
  <2>2. CASE array' = items /\ alloclen' = f.alloclen /\ inline' = FALSE
    BY <1>2, <1>4, <1>6, <2>2 DEF BufferOK, BufferFits
  <2> QED
    BY <1>3, <2>1, <2>2
<1>8. ASSUME NEW x \in Items
      PROVE  refs'[x] - Count(array', x) - Cardinality(HeldIn(frames', x)) =
             refs[x] - Count(array, x) - Cardinality(HeldIn(frames, x))
  <2> DEFINE h == Cardinality(HeldIn(u, x))
             c == Count(array, x)
             d == Count(own, x)
             e == refs[x]
  <2>1. Cardinality(HeldIn(Append(u, f), x)) = h + Count(f.items, x)
    BY <1>1, HeldAppend
  <2>2. h \in Nat /\ e \in Int
    BY <1>0, <1>1, HeldIs
  <2>3. c \in Nat /\ d \in Nat /\ Count(items, x) = d
    BY <1>5
  <2>4. Cardinality(HeldIn(frames, x)) = h + d /\ Cardinality(HeldIn(frames', x)) = h
    BY <1>0, <1>1, <2>1 DEF own
  <2>5. \/ Count(array', x) = c /\ refs'[x] = e - d
        \/ Count(array', x) = d /\ refs'[x] = e - c
    BY <1>3, <1>5
  <2> HIDE DEF h, c, d, e
  <2>6. \/ refs'[x] - Count(array', x) - Cardinality(HeldIn(frames', x)) = (e - d) - c - h
        \/ refs'[x] - Count(array', x) - Cardinality(HeldIn(frames', x)) = (e - c) - d - h
    BY <2>4, <2>5
  <2>7. (e - d) - c - h = e - c - (h + d) /\ (e - c) - d - h = e - c - (h + d)
    BY <2>2, <2>3
  <2>8. refs[x] - Count(array, x) - Cardinality(HeldIn(frames, x)) = e - c - (h + d)
    BY <2>4 DEF e, c
  <2> QED
    BY <2>6, <2>7, <2>8
<1> QED
  BY <1>0, <1>1, <1>7, <1>8 DEF ListInv, Balance

\* The items of a sort that was updated.
LEMMA NextRunFields ==
    ASSUME NEW s, NEW n, NEW v
    PROVE  [NextRun(s, n) EXCEPT !.s = v].s = v
<1> DEFINE t == NextRun(s, n)
<1>1. DOMAIN t = {"n", "s", "failed"}
  BY DEF NextRun
<1> HIDE DEF t
<1> QED
  BY <1>1 DEF t

\* list_sort keeps every pair.
LEMMA SortPairsKeeps ==
    ASSUME NEW C, NEW s \in Seq(C), NEW reverse
    PROVE  SortPairs(s, reverse).s \in Seq(C) /\ Rearranged(SortPairs(s, reverse).s, s)
<1>1. CASE Len(s) < 2
  BY <1>1, RearrangedSame DEF SortPairs
<1>2. CASE ~(Len(s) < 2)
  <2>0. Len(s) >= 1 /\ Len(s) \in Nat
    BY <1>2
  <2>1. CASE reverse
    <3> DEFINE u == Swapped(s)
               t == NextRun(u, Len(u))
               w == Swapped(t.s)
    <3>1. u \in Seq(C) /\ Rearranged(u, s) /\ Len(u) = Len(s) /\ ToSet(u) = ToSet(s)
      BY SwappedKeeps
    <3>2. SortPairs(s, reverse).s = w
      <4>1. SortPairs(s, reverse) = [NextRun(u, Len(u)) EXCEPT !.s = Swapped(NextRun(u, Len(u)).s)]
        BY <1>2, <2>1 DEF SortPairs, Timsort
      <4> HIDE DEF u
      <4>2. [NextRun(u, Len(u)) EXCEPT !.s = w].s = w
        <5> HIDE DEF w
        <5> QED
          BY NextRunFields
      <4> QED
        BY <4>1, <4>2
    <3> HIDE DEF u
    <3>3. t.s \in Seq(C) /\ Rearranged(t.s, u)
      <4>1. Len(u) >= 1 /\ Len(u) \in Nat
        BY <2>0, <3>1
      <4> QED
        BY <3>1, <4>1, NextRunKeeps
    <3> DEFINE q == t.s
    <3>4. q \in Seq(C) /\ Rearranged(q, u)
      BY <3>3
    <3>5. w = Swapped(q)
      OBVIOUS
    <3> HIDE DEF q, w, t
    <3>6. w \in Seq(C) /\ Rearranged(w, q)
      <4>1. /\ Swapped(q) \in Seq(C) /\ Rearranged(Swapped(q), q)
            /\ Len(Swapped(q)) = Len(q) /\ ToSet(Swapped(q)) = ToSet(q)
        BY <3>4, SwappedKeeps
      <4> QED
        BY <3>5, <4>1
    <3>7. Rearranged(w, u)
      BY <3>4, <3>6, RearrangedAgain
    <3>8. Rearranged(w, s)
      BY <3>1, <3>7, RearrangedAgain
    <3> QED
      BY <3>2, <3>6, <3>8
  <2>2. CASE ~reverse
    <3>1. SortPairs(s, reverse) = NextRun(s, Len(s))
      BY <1>2, <2>2 DEF SortPairs, Timsort
    <3>2. NextRun(s, Len(s)).s \in Seq(C) /\ Rearranged(NextRun(s, Len(s)).s, s)
      BY <2>0, NextRunKeeps
    <3> QED
      BY <3>1, <3>2
  <2> QED
    BY <2>1, <2>2
<1> QED
  BY <1>1, <1>2

\* Each item with its key, and the items in the order of their keys.
PairsOf(pairs, s) ==
    pairs = [i \in DOMAIN s |-> pairs[i]] /\ \A i \in DOMAIN s : pairs[i].item = s[i]

SortedItems(u, pairs, reverse) ==
    u = [i \in DOMAIN pairs |-> SortPairs(pairs, reverse).s[i].item]

\* The items of the sorted pairs are those that were taken away.
LEMMA ItemsSorted ==
    ASSUME NEW C, NEW s \in Seq(C), NEW pairs, PairsOf(pairs, s), NEW reverse,
           NEW u, SortedItems(u, pairs, reverse)
    PROVE  u \in Seq(C) /\ Rearranged(u, s)
<1> DEFINE n == Len(s)
           P == {pairs[i] : i \in 1..n}
           w == SortPairs(pairs, reverse).s
<1>0. n \in Nat /\ DOMAIN s = 1..n /\ \A i \in 1..n : s[i] \in C
  OBVIOUS
<1>1. pairs \in Seq(P) /\ Len(pairs) = n
  <2>1. \A i \in 1..n : pairs[i] \in P
    OBVIOUS
  <2>2. pairs = [i \in 1..n |-> pairs[i]]
    BY <1>0 DEF PairsOf
  <2> HIDE DEF P, n
  <2>3. pairs \in [1..n -> P]
    BY <2>1, <2>2
  <2> QED
    BY ONLY <1>0, <2>3
<1> HIDE DEF P
<1>2. w \in Seq(P) /\ Rearranged(w, pairs)
  BY <1>1, SortPairsKeeps
<1>3. DOMAIN pairs = 1..n
  BY <1>1
<1>4. u = [i \in 1..n |-> w[i].item]
  BY <1>3 DEF SortedItems
<1> HIDE DEF w, n
<1>5. Len(w) = n /\ \E p \in Bijection(1..n, 1..n) : \A i \in 1..n : w[i] = pairs[p[i]]
  BY <1>1, <1>2 DEF Rearranged
<1>6. PICK p \in Bijection(1..n, 1..n) : \A i \in 1..n : w[i] = pairs[p[i]]
  BY <1>5
<1>7. \A i \in 1..n : p[i] \in 1..n
  <2> DEFINE D == 1..n
  <2>1. p \in Bijection(D, D)
    BY <1>6
  <2> HIDE DEF D
  <2>2. p \in [D -> D]
    BY <2>1, BijectionOf
  <2> QED
    BY <2>2 DEF D
<1>8. ASSUME NEW i \in 1..n PROVE u[i] = s[p[i]]
  <2>1. u[i] = w[i].item
    BY <1>4
  <2>2. w[i] = pairs[p[i]] /\ p[i] \in DOMAIN s
    BY <1>0, <1>6, <1>7
  <2> QED
    BY <2>1, <2>2 DEF PairsOf
<1>9. u \in [1..n -> C]
  BY <1>0, <1>4, <1>7, <1>8
<1>10. u \in Seq(C) /\ Len(u) = n
  BY ONLY <1>0, <1>9
<1> QED
  BY <1>6, <1>8, <1>10 DEF Rearranged, n

\* What is on top while a sort runs.
LEMMA SortOnTop ==
    ASSUME ListInv, Running("sort")
    PROVE  /\ frames # <<>> /\ Top.op = "sort" /\ Top.items \in Seq(Items)
<1>1. frames # <<>> /\ Top.op = "sort" /\ frames \in Seq(Frames)
  BY DEF Running, ListInv
<1>2. Top \in Frames
  BY <1>1, BelowIs DEF Top
<1> QED
  BY <1>1, <1>2, SortFrameIs

\* All keys are there: the items go back in order.
LEMMA SortEndsSound ==
    ASSUME ListInv, SortEnds
    PROVE  ListInv' /\ Balance
<1> DEFINE s == Top.items
           rev == Top.reverse
           pairs == [i \in DOMAIN s |-> [key |-> IF Top.keys = <<>> THEN Rank[s[i]]
                                                ELSE Top.keys[i],
                                         item |-> s[i]]]
           u == [i \in DOMAIN pairs |-> SortPairs(pairs, rev).s[i].item]
           r == IF SortPairs(pairs, rev).failed THEN "TypeError" ELSE "ok"
<1>0. Running("sort")
  BY DEF SortEnds
<1>1. frames # <<>> /\ Top.op = "sort" /\ s \in Seq(Items)
  BY <1>0, SortOnTop, Zenon
<1>2. Attach(u, r)
  BY Zenon DEF SortEnds
<1>3. PairsOf(pairs, s)
  BY DEF PairsOf
<1>4. SortedItems(u, pairs, rev)
  BY DEF SortedItems
<1> HIDE DEF u, r, pairs, rev
<1>5. u \in Seq(Items) /\ Rearranged(u, s)
  <2> HIDE DEF s
  <2>1. s \in Seq(Items) /\ PairsOf(pairs, s) /\ SortedItems(u, pairs, rev)
    BY <1>1, <1>3, <1>4
  <2> QED
    BY ONLY <2>1, ItemsSorted
<1> QED
  BY <1>1, <1>2, <1>5, AttachSound, SMTT(30)

\* A key function or a comparison failed: the items go back.
LEMMA SortFailsSound ==
    ASSUME ListInv, SortFails
    PROVE  ListInv' /\ Balance
<1> DEFINE s == Top.items
<1>0. Running("sort")
  BY DEF SortFails
<1>1. frames # <<>> /\ Top.op = "sort" /\ s \in Seq(Items)
  BY <1>0, SortOnTop
<1>2. PICK r \in {"Raised", "MemoryError"} : Attach(s, r)
  BY DEF SortFails
<1>3. Rearranged(s, Top.items)
  BY RearrangedSame
<1> HIDE DEF s
<1> QED
  BY <1>1, <1>2, <1>3, AttachSound

\* A key function returns.
LEMMA KeyReturnsSound ==
    ASSUME ListInv, NEW k \in Ranks, KeyReturns(k)
    PROVE  ListInv' /\ Balance
<1> DEFINE keys == Append(Top.keys, k)
           b == Len(keys) < Len(Top.items)
           g == [Top EXCEPT !.keys = keys, !.user = b]
<1>0. Running("sort") /\ frames' = Append(Front(frames), g) /\ UNCHANGED <<type, hashed, bufVars>>
  BY DEF KeyReturns, Set
<1>1. frames # <<>> /\ Top.op = "sort" /\ frames \in Seq(Frames)
  BY <1>0 DEF Running, ListInv
<1>2. Top \in SortFrames
  <2>1. Top \in Frames
    BY <1>1, BelowIs DEF Top
  <2> QED
    BY <1>1, <2>1, SortFrameIs
<1>3. keys \in Seq(Ranks) /\ b \in BOOLEAN
  <2>1. Top.keys \in Seq(Ranks)
    BY <1>2 DEF SortFrames
  <2> QED
    BY <2>1
<1> HIDE DEF keys, b
<1>4. g \in Frames /\ g.op = "sort" /\ g.items = Top.items
  <2> DEFINE f == Top
  <2>1. f \in [op : {"sort"}, user : BOOLEAN, items : Seq(Items), alloclen : Nat,
               keys : Seq(Ranks), reverse : BOOLEAN] /\ Len(f.items) <= f.alloclen
        /\ f.alloclen <= LenMax
    BY <1>2 DEF SortFrames
  <2>2. g = [f EXCEPT !.keys = keys, !.user = b]
    OBVIOUS
  <2> HIDE DEF f, g
  <2>3. /\ g \in [op : {"sort"}, user : BOOLEAN, items : Seq(Items), alloclen : Nat,
               keys : Seq(Ranks), reverse : BOOLEAN]
        /\ g.items = f.items /\ g.alloclen = f.alloclen /\ g.op = "sort"
    BY <1>3, <2>1, <2>2
  <2> QED
    BY <2>1, <2>3 DEF Frames, SortFrames, f
<1> HIDE DEF g
<1>5. FramesStep
  BY <1>0, <1>1, <1>4, FrameSet
<1>6. BufferOK' /\ Even
  BY <1>0, StaysEven DEF ListInv
<1> QED
  BY <1>0, <1>5, <1>6, BalanceOf DEF ListInv

\* What is on top while a call of another kind runs.
LEMMA PlainOnTop ==
    ASSUME ListInv, NEW op, op # "sort", Running(op)
    PROVE  frames # <<>> /\ Top.op = op /\ Top.op # "sort" /\ Top \in PlainFrames
<1>1. frames # <<>> /\ Top.op = op /\ frames \in Seq(Frames)
  BY DEF Running, ListInv
<1>2. Top \in Frames
  BY <1>1, BelowIs DEF Top
<1> QED
  BY <1>1, <1>2, SortFrameIs

\* list_clear discards the last item.
LEMMA ClearPopsSound ==
    ASSUME ListInv, ClearPops
    PROVE  ListInv' /\ Balance
<1> DEFINE b == Last(array) \in Noisy
           g == [Top EXCEPT !.user = b]
<1>0. /\ Running("clear") /\ array # <<>> /\ array' = Front(array) /\ Decref(<<Last(array)>>)
      /\ frames' = Append(Front(frames), g) /\ Keep /\ UNCHANGED <<type, hashed>>
  BY DEF ClearPops, Set
<1>1. frames # <<>> /\ Top.op = "clear" /\ Top \in PlainFrames
  BY <1>0, PlainOnTop
<1>2. g \in Frames /\ g.op = Top.op /\ g.op # "sort"
  <2> HIDE DEF b
  <2>1. b \in BOOLEAN
    BY DEF b
  <2> QED
    BY <1>1, <2>1 DEF Frames, PlainFrames
<1> HIDE DEF g
<1>3. FramesStep
  BY <1>0, <1>1, <1>2, FrameSet DEF ListInv
<1>4. BufferOK' /\ Even
  BY <1>0, FrontEven DEF ListInv
<1> QED
  BY <1>0, <1>3, <1>4, BalanceOf DEF ListInv

\* The discarded item's deallocation returns to list_clear.
LEMMA ClearResumesSound ==
    ASSUME ListInv, ClearResumes
    PROVE  ListInv' /\ Balance
<1> DEFINE g == [Top EXCEPT !.user = FALSE]
<1>0. /\ Running("clear") /\ UNCHANGED <<type, hashed, bufVars>>
      /\ frames' = Append(Front(frames), g)
  BY DEF ClearResumes, Set
<1>1. frames # <<>> /\ Top.op = "clear" /\ Top \in PlainFrames
  BY <1>0, PlainOnTop
<1>2. g \in Frames /\ g.op = Top.op /\ g.op # "sort"
  BY <1>1 DEF Frames, PlainFrames
<1> HIDE DEF g
<1>3. FramesStep
  BY <1>0, <1>1, <1>2, FrameSet DEF ListInv
<1>4. BufferOK' /\ Even
  BY <1>0, StaysEven DEF ListInv
<1> QED
  BY <1>0, <1>3, <1>4, BalanceOf DEF ListInv

\* list_clear has nothing left to discard.
LEMMA ClearEndsSound ==
    ASSUME ListInv, ClearEnds
    PROVE  ListInv' /\ Balance
<1>0. /\ Running("clear") /\ frames' = Front(frames) /\ UNCHANGED <<type, hashed, array, refs>>
      /\ inline' = TRUE /\ alloclen' = (IF inline THEN alloclen ELSE InlineLen)
      /\ array = <<>>
  BY DEF ClearEnds, Ended
<1>1. frames # <<>> /\ Top.op # "sort"
  BY <1>0, PlainOnTop
<1>2. FramesStep
  BY <1>0, <1>1, FramePopped DEF ListInv
<1>3. BufferOK'
  <2>1. InlineLen \in Nat /\ InlineRoom \in Nat
     /\ InlineLen <= InlineRoom /\ InlineRoom <= LenMax /\ InlineLen <= LenMax /\ Len(<<>>) = 0
    BY ListAssumption
  <2>2. /\ array \in Seq(Items) /\ alloclen \in Nat /\ alloclen <= LenMax /\ refs \in [Items -> Int]
        /\ inline \in BOOLEAN /\ (inline => alloclen <= InlineRoom)
    BY DEF ListInv, BufferOK, BufferFits
  <2>3. alloclen' \in Nat /\ alloclen' <= LenMax /\ alloclen' <= InlineRoom
    BY <1>0, <2>1, <2>2
  <2> QED
    BY <1>0, <2>1, <2>2, <2>3 DEF BufferOK, BufferFits
<1>4. Even
  BY <1>0 DEF Even
<1> QED
  BY <1>0, <1>2, <1>3, <1>4, BalanceOf DEF ListInv

\* list_extend of an iterator begins.
LEMMA ExtendSound ==
    ASSUME ListInv, Extend
    PROVE  ListInv' /\ Balance
<1> DEFINE f == [op |-> "extend", user |-> TRUE]
<1>0. frames' = Append(frames, f) /\ UNCHANGED <<type, hashed, bufVars>>
  BY DEF Extend, Call, Unchanged
<1>1. f \in PlainFrames
  BY DEF PlainFrames
<1> HIDE DEF f
<1>2. FramesStep
  BY <1>0, <1>1, FramePushed DEF ListInv
<1>3. BufferOK' /\ Even
  BY <1>0, StaysEven DEF ListInv
<1> QED
  BY <1>0, <1>2, <1>3, BalanceOf DEF ListInv

\* The iterator yields an item.
LEMMA ItemArrivesSound ==
    ASSUME ListInv, NEW x \in Items, ItemArrives(x)
    PROVE  ListInv' /\ Balance
<1> DEFINE one == <<x>>
<1>0. /\ Running("extend") /\ AppendAll(one) /\ UNCHANGED <<type, hashed>>
      /\ UNCHANGED frames \/ frames' = Front(frames)
  BY DEF ItemArrives, Ended
<1>1. frames # <<>> /\ Top.op # "sort"
  BY <1>0, PlainOnTop
<1>2. FramesStep
  BY <1>0, <1>1, FramesKept, FramePopped DEF ListInv
<1>3. one \in Seq(Items)
  OBVIOUS
<1> HIDE DEF one
<1>4. BufferOK' /\ Even
  BY <1>0, <1>3, AppendAllEven DEF ListInv
<1> QED
  BY <1>0, <1>2, <1>4, BalanceOf DEF ListInv

\* The iterator is exhausted, or fails.
LEMMA ExtendEndsSound ==
    ASSUME ListInv, ExtendEnds
    PROVE  ListInv' /\ Balance
<1>0. Running("extend") /\ frames' = Front(frames) /\ UNCHANGED <<type, hashed, bufVars>>
  BY DEF ExtendEnds, Ended, Unchanged
<1>1. frames # <<>> /\ Top.op # "sort"
  BY <1>0, PlainOnTop
<1>2. FramesStep
  BY <1>0, <1>1, FramePopped DEF ListInv
<1>3. BufferOK' /\ Even
  BY <1>0, StaysEven DEF ListInv
<1> QED
  BY <1>0, <1>2, <1>3, BalanceOf DEF ListInv

\* yp_freeze, yp_hash, and steps of something else.
LEMMA KeptSound ==
    ASSUME ListInv, UNCHANGED <<bufVars, frames>>, type' \in {"list", "tuple"}, hashed' \in BOOLEAN
    PROVE  ListInv' /\ Balance
<1>1. FramesStep
  BY FramesKept DEF ListInv
<1>2. BufferOK' /\ Even
  BY StaysEven DEF ListInv
<1> QED
  BY <1>1, <1>2, BalanceOf

\* A call that changes the list keeps the references right; list_setslice
\* does so for slices that run forward.
LEMMA ChangeSound ==
    ASSUME ListInv, Change
    PROVE  ListInv' /\ (SlicesRunForward => Balance)
<1>0. BufferOK
  BY DEF ListInv
<1>1. ASSUME NEW x \in Items, Append1(x) PROVE ListInv' /\ Balance
  <2> DEFINE one == <<x>>
  <2>1. one \in Seq(Items) /\ AppendAll(one) /\ Stay
    BY <1>1 DEF Append1
  <2> HIDE DEF one
  <2>2. BufferOK' /\ Even
    BY <1>0, <2>1, AppendAllEven
  <2> QED
    BY <2>1, <2>2, ChangeIs
<1>2. ASSUME NEW x \in Items, Remove1(x) PROVE ListInv' /\ Balance
  <2>1. BufferOK' /\ Even
    BY <1>0, <1>2, RemoveEven
  <2>2. Stay
    BY <1>2 DEF Remove1
  <2> QED
    BY <2>1, <2>2, ChangeIs
<1>3. ASSUME NEW x \in Items, NEW i \in Indices, Insert(i, x) PROVE ListInv' /\ Balance
  <2>0. i \in Int
    BY IndexIs
  <2>1. BufferOK' /\ Even
    BY <1>0, <1>3, <2>0, InsertEven
  <2>2. Stay
    BY <1>3 DEF Insert
  <2> QED
    BY <2>1, <2>2, ChangeIs
<1>4. ASSUME NEW x \in Items, NEW i \in Indices, SetIndex(i, x) PROVE ListInv' /\ Balance
  <2>0. i \in Int
    BY IndexIs
  <2>1. BufferOK' /\ Even
    BY <1>0, <1>4, <2>0, SetIndexEven
  <2>2. Stay
    BY <1>4 DEF SetIndex
  <2> QED
    BY <2>1, <2>2, ChangeIs
<1>5. ASSUME NEW i \in Indices, PopIndex(i) \/ DelIndex(i) PROVE ListInv' /\ Balance
  <2>0. i \in Int
    BY IndexIs
  <2>1. Stay /\ (PopAt(i, "item") \/ PopAt(i, "ok"))
    BY <1>5 DEF PopIndex, DelIndex
  <2>2. BufferOK' /\ Even
    BY <1>0, <2>0, <2>1, PopAtEven
  <2> QED
    BY <2>1, <2>2, ChangeIs
<1>6. ASSUME NEW x \in Args \cup {Self}, ExtendFromTuple(x) PROVE ListInv' /\ Balance
  <2>0. Argument(x) \in Seq(Items)
    BY ArgumentIs
  <2>1. BufferOK' /\ Even
    BY <1>0, <1>6, <2>0, ExtendFromEven
  <2>2. Stay
    BY <1>6 DEF ExtendFromTuple
  <2> QED
    BY <2>1, <2>2, ChangeIs
<1>7. ASSUME NEW x \in Args \cup {Self}, NEW s \in Slices, SetSlice(s, x)
      PROVE  ListInv' /\ (SlicesRunForward => Balance)
  <2>0. Argument(x) \in Seq(Items) /\ s \in Int \X Int \X Int
    BY ArgumentIs, ListAssumption
  <2>1. BufferOK' /\ (RunsForward(s) => Even)
    BY <1>0, <1>7, <2>0, SetSliceEven
  <2>2. Stay \/ CallClear
    BY <1>7, SetSliceFrames
  <2>3. Len(array) \in 0..LenMax
    BY <1>0, ListAssumption DEF BufferOK, BufferFits
  <2>4. SlicesRunForward => RunsForward(s)
    BY <2>3 DEF SlicesRunForward, RunsForward, SliceOf
  <2> QED
    BY <2>1, <2>2, <2>4, ChangeIs
<1>8. ASSUME NEW s \in Slices, DelSlice(s) PROVE ListInv' /\ Balance
  <2>0. s \in Int \X Int \X Int
    BY ListAssumption
  <2>1. BufferOK' /\ Even
    BY <1>0, <1>8, <2>0, DelSliceEven
  <2>2. Stay \/ CallClear
    BY <1>8, DelSliceFrames
  <2> QED
    BY <2>1, <2>2, ChangeIs
<1>9. ASSUME NEW f \in Factors, IRepeat(f) PROVE ListInv' /\ Balance
  <2>0. f \in Int
    BY ListAssumption
  <2>1. BufferOK' /\ Even
    BY <1>0, <1>9, <2>0, IRepeatEven
  <2>2. Stay \/ CallClear
    BY <1>9, IRepeatFrames
  <2> QED
    BY <2>1, <2>2, ChangeIs
<1>10. ASSUME Pop PROVE ListInv' /\ Balance
  <2>1. BufferOK' /\ Even
    BY <1>0, <1>10, PopEven
  <2>2. Stay
    BY <1>10 DEF Pop
  <2> QED
    BY <2>1, <2>2, ChangeIs
<1>11. ASSUME ReverseItems PROVE ListInv' /\ Balance
  <2>1. BufferOK' /\ Even
    BY <1>0, <1>11, ReverseEven
  <2>2. Stay
    BY <1>11 DEF ReverseItems
  <2> QED
    BY <2>1, <2>2, ChangeIs
<1>12. ASSUME Clear PROVE ListInv' /\ Balance
  <2>1. CallClear
    BY <1>12 DEF Clear
  <2>2. UNCHANGED bufVars
    BY <2>1 DEF CallClear, Unchanged
  <2>3. BufferOK' /\ Even
    BY <1>0, <2>2, StaysEven
  <2> QED
    BY <2>1, <2>3, ChangeIs
<1>13. ASSUME NEW keyed \in BOOLEAN, NEW reverse \in BOOLEAN, Sort(keyed, reverse)
       PROVE  ListInv' /\ Balance
  BY <1>13, SortSound
<1> QED
  BY <1>1, <1>2, <1>3, <1>4, <1>5, <1>6, <1>7, <1>8, <1>9, <1>10, <1>11, <1>12, <1>13, ExtendSound
     DEF Change

\* Every step keeps the invariant, and the references right.
LEMMA NextSound ==
    ASSUME ListInv, [Next]_vars
    PROVE  ListInv' /\ (SlicesRunForward => Balance)
<1>1. CASE Change
  BY <1>1, ChangeSound
<1>2. CASE Freeze \/ Hash \/ UNCHANGED vars
  <2>1. /\ UNCHANGED <<bufVars, frames>> /\ type' \in {"list", "tuple"} /\ hashed' \in BOOLEAN
    BY <1>2 DEF Freeze, Hash, Unchanged, vars, ListInv
  <2> QED
    BY <2>1, KeptSound
<1>3. CASE ClearPops
  BY <1>3, ClearPopsSound
<1>4. CASE ClearResumes
  BY <1>4, ClearResumesSound
<1>5. CASE ClearEnds
  BY <1>5, ClearEndsSound
<1>6. ASSUME NEW x \in Items, ItemArrives(x) PROVE ListInv' /\ Balance
  BY <1>6, ItemArrivesSound
<1>7. CASE ExtendEnds
  BY <1>7, ExtendEndsSound
<1>8. ASSUME NEW k \in Ranks, KeyReturns(k) PROVE ListInv' /\ Balance
  BY <1>8, KeyReturnsSound
<1>9. CASE SortEnds
  BY <1>9, SortEndsSound
<1>10. CASE SortFails
  BY <1>10, SortFailsSound
<1> QED
  BY <1>1, <1>2, <1>3, <1>4, <1>5, <1>6, <1>7, <1>8, <1>9, <1>10 DEF Next

\* One reference for each place an item is at.
Owned ==
    \A x \in Items : refs[x] = Count(array, x) + Cardinality(HeldIn(frames, x))

\* A new list.
LEMMA InitSound == Init => ListInv /\ Owned
<1> SUFFICES ASSUME Init PROVE ListInv /\ Owned
  OBVIOUS
<1>1. /\ <<>> \in Seq(Items) /\ <<>> \in Seq(Frames) /\ Len(<<>>) = 0
      /\ InlineLen \in Nat /\ InlineRoom \in Nat
      /\ InlineLen <= InlineRoom /\ InlineRoom <= LenMax /\ InlineLen <= LenMax
  BY ListAssumption, EmptySeq
<1>2. ListInv
  <2>1. /\ array = <<>> /\ alloclen = InlineRoom /\ inline = TRUE /\ frames = <<>>
        /\ type = "list" /\ hashed = FALSE /\ refs = [x \in Items |-> 0]
    BY DEF Init
  <2>2. refs \in [Items -> Int]
    BY <2>1
  <2>3. array \in Seq(Items) /\ frames \in Seq(Frames) /\ Len(array) = 0
    BY <1>1, <2>1
  <2>4. BufferFits
    BY <1>1, <2>1, <2>3 DEF BufferFits
  <2>5. BufferOK
    BY <1>1, <2>1, <2>2, <2>3, <2>4 DEF BufferOK
  <2> QED
    BY <2>1, <2>3, <2>5 DEF ListInv
<1>3. ASSUME NEW x \in Items PROVE Count(<<>>, x) = 0 /\ Cardinality(HeldIn(<<>>, x)) = 0
  <2>1. HeldIn(<<>>, x) = {}
    BY DEF HeldIn
  <2> QED
    BY <2>1, CountNone, FS_EmptySet
<1>4. Owned
  <2>1. ASSUME NEW x \in Items PROVE refs[x] = Count(array, x) + Cardinality(HeldIn(frames, x))
    <3>1. refs[x] = 0 /\ array = <<>> /\ frames = <<>>
      BY DEF Init
    <3> QED
      BY <1>3, <3>1
  <2> QED
    BY <2>1 DEF Owned
<1> QED
  BY <1>2, <1>4

\* References that come and go with the places stay one for each place.
LEMMA OwnedStays ==
    ASSUME ListInv, ListInv', Owned, Balance
    PROVE  Owned'
<1>1. ASSUME NEW x \in Items
      PROVE  refs'[x] = Count(array', x) + Cardinality(HeldIn(frames', x))
  <2> DEFINE r == refs'[x]
             c == Count(array', x)
             h == Cardinality(HeldIn(frames', x))
             d == Count(array, x)
             k == Cardinality(HeldIn(frames, x))
  <2>1. r - c - h = refs[x] - d - k /\ refs[x] = d + k
    BY DEF Balance, Owned
  <2>2. r \in Int
    BY DEF ListInv, BufferOK
  <2>3. c \in Nat
    <3>1. array' \in Seq(Items)
      BY DEF ListInv, BufferOK
    <3> QED
      BY <3>1, CountIs
  <2>4. h \in Nat
    <3>1. frames' \in Seq(Frames)
      BY DEF ListInv
    <3> QED
      BY <3>1, HeldIs
  <2>5. d \in Nat /\ k \in Nat
    BY CountIs, HeldIs DEF ListInv, BufferOK
  <2> HIDE DEF r, c, h, d, k
  <2>6. r = c + h
    BY <2>1, <2>2, <2>3, <2>4, <2>5
  <2> QED
    BY <2>6 DEF r, c, h
<1> QED
  BY <1>1 DEF Owned

\* RefsHeld counts the same places.
LEMMA HeldIsOwned ==
    ASSUME ListInv, Owned
    PROVE  RefsHeld
<1>1. \A i \in DOMAIN array : array[i] # Junk
  BY ListAssumption DEF ListInv, BufferOK
<1>2. \A x \in Items : HeldBySorts(x) = HeldIn(frames, x)
  BY DEF HeldBySorts, HeldIn, Places
<1> QED
  BY <1>1, <1>2 DEF RefsHeld, Owned

\* Whatever is called on a list, and whatever its key functions, iterators and
\* discarded items call in turn, its cells hold items, its sorts hold items
\* that fit the buffer they took away, and its buffer is never overrun.
THEOREM ListInvariant == Spec => []ListInv
<1>1. Init => ListInv
  BY InitSound
<1>2. ListInv /\ [Next]_vars => ListInv'
  BY NextSound
<1> QED
  BY <1>1, <1>2, PTL DEF Spec

\* What is in the list fits its buffer.
THEOREM BufferAlwaysFits == Spec => []BufferFits
<1>1. ListInv => BufferFits
  BY DEF ListInv, BufferOK
<1> QED
  BY <1>1, ListInvariant, PTL

\* No reference is leaked or given back twice.
THEOREM RefsAlwaysHeld ==
    ASSUME SlicesRunForward
    PROVE  Spec => []RefsHeld
<1>1. Init => ListInv /\ Owned
  BY InitSound
<1>2. ListInv /\ Owned /\ [Next]_vars => (ListInv /\ Owned)'
  <2> SUFFICES ASSUME ListInv, Owned, [Next]_vars PROVE (ListInv /\ Owned)'
    OBVIOUS
  <2>1. ListInv' /\ Balance
    BY NextSound
  <2>2. Owned'
    BY <2>1, OwnedStays
  <2> QED
    BY <2>1, <2>2
<1>3. ListInv /\ Owned => RefsHeld
  BY HeldIsOwned
<1> QED
  BY <1>1, <1>2, <1>3, PTL DEF Spec

\* Every behaviour that TLC's run explores, in which each step names the call
\* that was made, is one of ypList: what is proved of those holds of these.
THEOREM CallsAreListSteps == CSpec => Spec
<1>1. CInit => Init
  BY DEF CInit
<1>2. ASSUME [CNext]_cvars PROVE [Next]_vars
  <2>1. CASE CChange
    BY <2>1 DEF CChange, Change, Next
  <2>2. CASE CStep
    BY <2>2 DEF CStep, Next
  <2>3. CASE UNCHANGED cvars
    BY <2>3 DEF cvars
  <2> QED
    BY <1>2, <2>1, <2>2, <2>3 DEF CNext
<1> QED
  BY <1>1, <1>2, PTL DEF CSpec, Spec
=============================================================================
