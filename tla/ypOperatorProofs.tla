-------------------------- MODULE ypOperatorProofs --------------------------
(***************************************************************************)
(* What the operators guarantee that the components are built from: those  *)
(* of the hash table (ypHashTable), for any keys, hashes and table sizes   *)
(* that satisfy its assumptions, and the parts of the sort (ypSortOps):    *)
(* the searches, the binary insertion, the runs, and the sort of a short   *)
(* list.                                                                   *)
(*                                                                         *)
(* Recursions are functions whose values exist because something falls at  *)
(* every step, and the least number that could go wrong does not exist     *)
(* (LeastNat).  What rearranges items comes with a bijection of their      *)
(* places (Rearranged).                                                    *)
(***************************************************************************)
EXTENDS ypHashTable, ypSortOps, FiniteSetTheorems, FunctionTheorems, SequenceTheorems, WellFoundedInduction, TLAPS

\* A set of numbers has a least one.
LEMMA LeastNat ==
    ASSUME NEW T \in SUBSET Nat, T # {}
    PROVE  \E x \in T : \A y \in T : x <= y
<1> DEFINE R == StrictSubsetOrdering(Nat)
           Initial == {0 .. x : x \in T}
<1>0. ASSUME NEW x \in T
      PROVE  0 .. x \in FiniteSubsetsOf(Nat)
  <2>1. x \in Int /\ 0 \in Int
      OBVIOUS
  <2>2. IsFiniteSet(0 .. x)
      BY <2>1, FS_Interval
  <2> QED
      BY <2>2 DEF FiniteSubsetsOf
<1>1. Initial \subseteq FiniteSubsetsOf(Nat) /\ Initial # {}
    BY <1>0
<1>2. PICK A \in Initial : \A B \in Initial : ~ (<<B, A>> \in R)
  <2>1. IsWellFoundedOn(R, FiniteSubsetsOf(Nat))
      BY FS_StrictSubsetOrderingWellFounded
  <2> HIDE DEF R, Initial
  <2> QED
      BY <1>1, <2>1, WFMin
<1>3. PICK x \in T : A = 0 .. x
    OBVIOUS
<1>4. ASSUME NEW y \in T, y < x
      PROVE  FALSE
  <2>1. 0 .. y \in SUBSET Nat /\ 0 .. x \in SUBSET Nat /\ 0 .. y \subseteq 0 .. x
      BY <1>4
  <2>2. 0 .. y # 0 .. x
      BY <1>4
  <2>3. <<0 .. y, 0 .. x>> \in R
      BY <2>1, <2>2 DEF StrictSubsetOrdering
  <2> QED
      BY <2>3, <1>2, <1>3
<1> QED
    BY <1>4

(***************************************************************************)
(* The sizes of a hash table.                                              *)
(***************************************************************************)
\* _ypSet_calc_alloclen finds a table size, and the table has room for what
\* was asked: the two assertions at its end, and the one of _ypSet_new.
LEMMA CalcAllocLenFits ==
    ASSUME NEW m \in Nat, m <= SetLenMax
    PROVE  /\ CalcAllocLen(m) \in AllocLens
           /\ CalcAllocLen(m) >= MinEntries(m)
           /\ Space(CalcAllocLen(m), 0) >= m
<1> DEFINE T == {n \in AllocLens : n >= MinEntries(m)}
<1>1. AllocLenMax \in T
    BY TableConstants DEF SetLenMax, MinEntries
<1>2. T \in SUBSET Nat
    BY TableConstants
<1>3. PICK n \in T : \A x \in T : n <= x
    BY <1>1, <1>2, LeastNat
<1>4. /\ CalcAllocLen(m) \in AllocLens
      /\ CalcAllocLen(m) >= MinEntries(m)
    BY <1>3 DEF CalcAllocLen
<1>5. CalcAllocLen(m) \in Nat
    BY <1>4, TableConstants
<1> QED
    BY <1>4, <1>5 DEF MinEntries, Space

\* A push asks for more than the table holds and for no more than is allowed.
LEMMA GrowToBounds ==
    ASSUME NEW l \in Nat, NEW h \in Int, l <= SetLenMax - 1
    PROVE  /\ GrowTo(l, h) \in Nat
           /\ l < GrowTo(l, h) /\ GrowTo(l, h) <= SetLenMax
<1>1. SetLenMax \in Nat
    BY TableConstants DEF SetLenMax
<1>2. AllocHintMax \in Nat
    BY TableConstants
<1> QED
    BY <1>1, <1>2 DEF GrowTo, Clamp

(***************************************************************************)
(* Probes.                                                                 *)
(***************************************************************************)

\* A probe stays in the table.
LEMMA ProbeInTable ==
    ASSUME NEW k \in Keys, NEW n \in AllocLens, NEW j \in 0 .. ProbeLen
    PROVE  Probe[k][n][j] \in 0 .. n - 1
BY ProbeCovers

\* A probe meets every slot.
LEMMA ProbeMeets ==
    ASSUME NEW k \in Keys, NEW n \in AllocLens, NEW s \in 0 .. n - 1
    PROVE  \E j \in 0 .. ProbeLen : Probe[k][n][j] = s
BY ProbeCovers

(***************************************************************************)
(* Tables.                                                                 *)
(***************************************************************************)

\* _ypSet_lookkey on a sound table with a NULL slot returns one slot: that
\* of the key if the table holds it, and otherwise one that may take it.
LEMMA LookKeyFinds ==
    ASSUME NEW n \in AllocLens, NEW table, TableSound(table, n), NEW k \in Keys,
           \E s \in 0 .. n - 1 : table[s].key = NULL
    PROVE  /\ LookKey(table, n, k) # {}
           /\ \A s \in LookKey(table, n, k) :
                 /\ s \in 0 .. n - 1
                 /\ table[s].key = k <=> k \in KeysIn(table)
                 /\ table[s].key # k => /\ table[s].key \in {NULL, Dummy}
                                        /\ OnProbe(table, n, k, s)
<1> DEFINE slot(j) == Probe[k][n][j]
           at(j)   == table[slot(j)].key
           ends    == {j \in 0 .. ProbeLen :
                        /\ at(j) \in {NULL, k}
                        /\ \A i \in 0 .. j - 1 : at(i) \notin {NULL, k}}
           free(j) == {i \in 0 .. j - 1 :
                        /\ at(i) = Dummy
                        /\ \A h \in 0 .. i - 1 : at(h) # Dummy}
           T == {j \in 0 .. ProbeLen : at(j) \in {NULL, k}}
<1>0. /\ ProbeLen \in Nat /\ n \in Nat \ {0}
      /\ NULL \notin Keys /\ Dummy \notin Keys /\ NULL # Dummy
    BY TableConstants
<1>1. \A j \in 0 .. ProbeLen : slot(j) \in 0 .. n - 1
    BY ProbeInTable
<1>2. PICK e \in T : \A j \in T : e <= j
  <2>1. T \in SUBSET Nat /\ T # {}
      BY <1>0, ProbeMeets
  <2> HIDE DEF T
  <2> QED
      BY <2>1, LeastNat
<1>3. ends = {e}
  <2>1. e \in ends
      BY <1>0, <1>2
  <2>2. ASSUME NEW j \in ends
        PROVE  j = e
    <3>1. j \in T /\ e \in 0 .. ProbeLen /\ e <= j
        BY <1>2
    <3>2. ~ (e < j)
        BY <1>0, <2>2, <3>1, <1>2
    <3> QED
        BY <1>0, <3>1, <3>2
  <2> QED
      BY <2>1, <2>2
<1>4. LookKey(table, n, k) = IF at(e) = k \/ free(e) = {} THEN {slot(e)}
                             ELSE {slot(i) : i \in free(e)}
  <2>1. LookKey(table, n, k) =
            UNION {IF at(j) = k \/ free(j) = {} THEN {slot(j)}
                   ELSE {slot(i) : i \in free(j)} : j \in ends}
      BY DEF LookKey
  <2> HIDE DEF ends, at, slot, free
  <2> QED
      BY <2>1, <1>3
<1>5. table \in [0 .. n - 1 -> Entry]
    BY DEF TableSound
<1>6. at(e) = k <=> k \in KeysIn(table)
  <2>1. at(e) = k => slot(e) \in UsedSlots(table)
      BY <1>0, <1>1, <1>5 DEF UsedSlots
  <2>2. ASSUME k \in KeysIn(table), at(e) = NULL
        PROVE  FALSE
    <3>1. PICK s \in UsedSlots(table) : table[s].key = k
        BY <2>2 DEF KeysIn
    <3>2. PICK j \in 0 .. ProbeLen :
              slot(j) = s /\ \A i \in 0 .. j - 1 : at(i) # NULL
        BY <3>1 DEF TableSound, OnProbe
    <3>3. j \in T /\ j # e
        BY <1>0, <2>2, <3>1, <3>2
    <3>4. e \in 0 .. j - 1
        BY <1>0, <1>2, <3>3
    <3> QED
        BY <2>2, <3>2, <3>4
  <2> QED
      BY <1>2, <2>1, <2>2 DEF KeysIn
<1>7. \A i \in 0 .. e - 1 : i \in 0 .. ProbeLen /\ at(i) \notin {NULL, k}
    BY <1>0, <1>2, <1>3
<1>8. at(e) # k => at(e) = NULL
    BY <1>2
<1>9. OnProbe(table, n, k, slot(e))
    BY <1>2, <1>7 DEF OnProbe
<1>10. \A i \in free(e) : /\ slot(i) \in 0 .. n - 1 /\ at(i) = Dummy
                          /\ OnProbe(table, n, k, slot(i))
  <2> SUFFICES ASSUME NEW i \in free(e)
               PROVE  /\ slot(i) \in 0 .. n - 1 /\ at(i) = Dummy
                      /\ OnProbe(table, n, k, slot(i))
      OBVIOUS
  <2>1. i \in 0 .. ProbeLen /\ at(i) = Dummy
      BY <1>7
  <2>2. \A h \in 0 .. i - 1 : h \in 0 .. e - 1
      BY <1>0, <1>2, <2>1
  <2>3. OnProbe(table, n, k, slot(i))
      BY <1>7, <2>1, <2>2 DEF OnProbe
  <2> QED
      BY <1>1, <2>1, <2>3
<1>11. CASE at(e) = k \/ free(e) = {}
  <2>1. LookKey(table, n, k) = {slot(e)} /\ slot(e) \in 0 .. n - 1
      BY <1>1, <1>2, <1>4, <1>11
  <2> QED
      BY <2>1, <1>6, <1>8, <1>9
<1>12. CASE at(e) # k /\ free(e) # {}
  <2>1. LookKey(table, n, k) = {slot(i) : i \in free(e)}
      BY <1>4, <1>12
  <2>2. k \notin KeysIn(table)
      BY <1>6, <1>12
  <2> HIDE DEF free
  <2> QED
      BY <2>1, <2>2, <1>0, <1>10, <1>12, SMTT(30)
<1> QED
    BY <1>11, <1>12


\* _ypSet_movekey_clean stops at a NULL slot where the key may go.
LEMMA CleanSlotFinds ==
    ASSUME NEW n \in AllocLens, NEW table, NEW k \in Keys,
           \E s \in 0 .. n - 1 : table[s].key = NULL
    PROVE  /\ CleanSlot(table, n, k) # {}
           /\ \A s \in CleanSlot(table, n, k) :
                 /\ s \in 0 .. n - 1 /\ table[s].key = NULL
                 /\ OnProbe(table, n, k, s)
<1> DEFINE slot(j) == Probe[k][n][j]
           T == {j \in 0 .. ProbeLen : table[slot(j)].key = NULL}
<1>0. ProbeLen \in Nat
    BY TableConstants
<1>1. T \in SUBSET Nat /\ T # {}
    BY <1>0, ProbeMeets
<1>2. PICK e \in T : \A j \in T : e <= j
  <2> HIDE DEF T
  <2> QED
      BY <1>1, LeastNat
<1>3. slot(e) \in CleanSlot(table, n, k)
    BY <1>0, <1>2 DEF CleanSlot
<1> QED
    BY <1>3, ProbeInTable DEF CleanSlot, OnProbe

\* A table that is at most two thirds full has a NULL slot.
LEMMA NullSlotExists ==
    ASSUME NEW n \in AllocLens, NEW table \in [0 .. n - 1 -> Entry],
           Cardinality(FilledSlots(table)) <= (n * 2) \div 3
    PROVE  \E s \in 0 .. n - 1 : table[s].key = NULL
<1>1. n \in Nat \ {0}
    BY TableConstants
<1>2. Cardinality(0 .. n - 1) = n
    BY <1>1, FS_Interval
<1>3. FilledSlots(table) # 0 .. n - 1
    BY <1>1, <1>2
<1> QED
    BY <1>3 DEF FilledSlots

\* The slots of a table are finitely many.
LEMMA SlotsFinite ==
    ASSUME NEW n \in AllocLens, NEW table \in [0 .. n - 1 -> Entry]
    PROVE  /\ IsFiniteSet(UsedSlots(table)) /\ IsFiniteSet(FilledSlots(table))
           /\ UsedSlots(table) \subseteq FilledSlots(table)
           /\ UsedSlots(table) \subseteq 0 .. n - 1
<1>1. n \in Nat
    BY TableConstants
<1>2. IsFiniteSet(0 .. n - 1)
    BY <1>1, FS_Interval
<1>3. UsedSlots(table) \in SUBSET (0 .. n - 1) /\ FilledSlots(table) \in SUBSET (0 .. n - 1)
    BY DEF UsedSlots, FilledSlots
<1>4. UsedSlots(table) \subseteq FilledSlots(table)
    BY TableConstants DEF UsedSlots, FilledSlots
<1> QED
    BY <1>2, <1>3, <1>4, FS_Subset

\* An empty table is sound.
LEMMA EmptySound ==
    ASSUME NEW n \in AllocLens
    PROVE  /\ TableSound(EmptyTable(n), n)
           /\ UsedSlots(EmptyTable(n)) = {} /\ FilledSlots(EmptyTable(n)) = {}
           /\ KeysIn(EmptyTable(n)) = {}
<1>1. EmptyTable(n) \in [0 .. n - 1 -> Entry]
    BY DEF EmptyTable, Unused, Entry
<1>2. \A s \in 0 .. n - 1 : EmptyTable(n)[s].key = NULL
    BY DEF EmptyTable, Unused
<1>3. UsedSlots(EmptyTable(n)) = {} /\ FilledSlots(EmptyTable(n)) = {}
    BY <1>1, <1>2, TableConstants DEF UsedSlots, FilledSlots
<1> QED
    BY <1>1, <1>3 DEF TableSound, KeysIn

\* Storing an absent key in a slot where it may go keeps a table sound.
LEMMA PutSound ==
    ASSUME NEW n \in AllocLens, NEW table, TableSound(table, n),
           NEW e \in Entry, e.key \in Keys, e.key \notin KeysIn(table),
           NEW s \in 0 .. n - 1, table[s].key \in {NULL, Dummy},
           OnProbe(table, n, e.key, s)
    PROVE  LET new == [table EXCEPT ![s] = e]
           IN  /\ TableSound(new, n)
               /\ UsedSlots(new) = UsedSlots(table) \cup {s}
               /\ FilledSlots(new) = FilledSlots(table) \cup {s}
               /\ KeysIn(new) = KeysIn(table) \cup {e.key}
               /\ s \notin UsedSlots(table)
<1> DEFINE new == [table EXCEPT ![s] = e]
<1>0. /\ NULL \notin Keys /\ Dummy \notin Keys /\ NULL # Dummy
      /\ table \in [0 .. n - 1 -> Entry] /\ n \in Nat
    BY TableConstants DEF TableSound
<1>1. /\ new \in [0 .. n - 1 -> Entry] /\ new[s] = e
      /\ \A r \in 0 .. n - 1 : r # s => new[r] = table[r]
    BY <1>0
<1>2. s \notin UsedSlots(table)
    BY <1>0 DEF UsedSlots
<1>3. UsedSlots(new) = UsedSlots(table) \cup {s}
    BY <1>0, <1>1 DEF UsedSlots
<1>4. FilledSlots(new) = FilledSlots(table) \cup {s}
    BY <1>0, <1>1 DEF FilledSlots
<1> HIDE DEF new
<1>5. KeysIn(new) = KeysIn(table) \cup {e.key}
  <2>1. \A r \in UsedSlots(table) : new[r] = table[r]
      BY <1>0, <1>1, <1>2 DEF UsedSlots
  <2> QED
      BY <1>1, <1>3, <2>1 DEF KeysIn
<1>6. \A q, r \in UsedSlots(new) : new[q].key = new[r].key => q = r
  <2>1. \A r \in UsedSlots(table) : new[r] = table[r] /\ table[r].key # e.key
      BY <1>0, <1>1, <1>2 DEF UsedSlots, KeysIn
  <2> QED
      BY <1>1, <1>3, <2>1 DEF TableSound
<1>7. ASSUME NEW k \in Keys, NEW r, OnProbe(table, n, k, r)
      PROVE  OnProbe(new, n, k, r)
  <2>1. PICK j \in 0 .. ProbeLen :
            /\ Probe[k][n][j] = r
            /\ \A i \in 0 .. j - 1 : table[Probe[k][n][i]].key # NULL
      BY <1>7 DEF OnProbe
  <2>2. \A i \in 0 .. j - 1 : new[Probe[k][n][i]].key # NULL
    <3>1. \A i \in 0 .. j - 1 : i \in 0 .. ProbeLen
        BY TableConstants
    <3> QED
        BY <1>0, <1>1, <2>1, <3>1, ProbeInTable
  <2> QED
      BY <2>1, <2>2 DEF OnProbe
<1>8. \A r \in UsedSlots(new) : OnProbe(new, n, new[r].key, r)
  <2> SUFFICES ASSUME NEW r \in UsedSlots(new)
               PROVE  OnProbe(new, n, new[r].key, r)
      OBVIOUS
  <2>1. CASE r = s
      BY <1>1, <1>7, <2>1
  <2>2. CASE r # s
    <3>1. r \in UsedSlots(table) /\ new[r] = table[r] /\ table[r].key \in Keys
        BY <1>1, <1>3, <2>2 DEF UsedSlots
    <3> QED
        BY <1>7, <3>1 DEF TableSound
  <2> QED
      BY <2>1, <2>2
<1> QED
    BY <1>1, <1>2, <1>3, <1>4, <1>5, <1>6, <1>8 DEF TableSound, new

\* Deleting a key leaves a mark, and so keeps a table sound.
LEMMA RemoveSound ==
    ASSUME NEW n \in AllocLens, NEW table, TableSound(table, n),
           NEW s \in UsedSlots(table)
    PROVE  LET new == RemoveKey(table, s)
           IN  /\ TableSound(new, n)
               /\ UsedSlots(new) = UsedSlots(table) \ {s}
               /\ FilledSlots(new) = FilledSlots(table)
               /\ KeysIn(new) = KeysIn(table) \ {table[s].key}
<1> DEFINE new == RemoveKey(table, s)
<1>0. /\ NULL \notin Keys /\ Dummy \notin Keys /\ NULL # Dummy
      /\ table \in [0 .. n - 1 -> Entry] /\ n \in Nat
      /\ s \in 0 .. n - 1
    BY TableConstants DEF TableSound, UsedSlots
<1>1. /\ new \in [0 .. n - 1 -> Entry] /\ new[s].key = Dummy
      /\ \A r \in 0 .. n - 1 : r # s => new[r] = table[r]
    BY <1>0 DEF RemoveKey, Entry, HashInvalid
<1> HIDE DEF new
<1>2. UsedSlots(new) = UsedSlots(table) \ {s}
    BY <1>0, <1>1 DEF UsedSlots
<1>3. FilledSlots(new) = FilledSlots(table)
    BY <1>0, <1>1 DEF FilledSlots, UsedSlots
<1>4. \A r \in UsedSlots(new) : new[r] = table[r] /\ r \in UsedSlots(table)
    BY <1>0, <1>1, <1>2 DEF UsedSlots
<1>5. KeysIn(new) = KeysIn(table) \ {table[s].key}
  <2>1. \A r \in UsedSlots(table) : r # s => table[r].key # table[s].key
      BY DEF TableSound
  <2> QED
      BY <1>2, <1>4, <2>1 DEF KeysIn
<1>6. \A q, r \in UsedSlots(new) : new[q].key = new[r].key => q = r
    BY <1>4 DEF TableSound
<1>7. \A r \in UsedSlots(new) : OnProbe(new, n, new[r].key, r)
  <2> SUFFICES ASSUME NEW r \in UsedSlots(new)
               PROVE  OnProbe(new, n, new[r].key, r)
      OBVIOUS
  <2>1. PICK j \in 0 .. ProbeLen :
            /\ Probe[new[r].key][n][j] = r
            /\ \A i \in 0 .. j - 1 : table[Probe[new[r].key][n][i]].key # NULL
      BY <1>4 DEF TableSound, OnProbe
  <2>2. new[r].key \in Keys
      BY DEF UsedSlots
  <2>3. \A i \in 0 .. j - 1 : Probe[new[r].key][n][i] \in 0 .. n - 1
      BY <2>2, ProbeInTable, TableConstants
  <2>4. \A i \in 0 .. j - 1 : new[Probe[new[r].key][n][i]].key # NULL
      BY <1>0, <1>1, <2>1, <2>3
  <2> QED
      BY <2>1, <2>4 DEF OnProbe
<1> QED
    BY <1>1, <1>2, <1>3, <1>5, <1>6, <1>7 DEF TableSound, new

\* Writing a hash into a slot that holds no key disturbs nothing else.
LEMMA FingerSound ==
    ASSUME NEW n \in AllocLens, NEW table, TableSound(table, n), NEW h \in Int
    PROVE  LET new == [table EXCEPT ![0].hash = h]
           IN  /\ TableSound(new, n)
               /\ UsedSlots(new) = UsedSlots(table)
               /\ FilledSlots(new) = FilledSlots(table)
               /\ KeysIn(new) = KeysIn(table)
<1> DEFINE new == [table EXCEPT ![0].hash = h]
<1>0. table \in [0 .. n - 1 -> Entry] /\ n \in Nat \ {0}
    BY TableConstants DEF TableSound
<1>1. new \in [0 .. n - 1 -> Entry] /\ \A r \in 0 .. n - 1 : new[r].key = table[r].key
    BY <1>0 DEF Entry
<1> HIDE DEF new
<1>2. UsedSlots(new) = UsedSlots(table) /\ FilledSlots(new) = FilledSlots(table)
    BY <1>0, <1>1 DEF UsedSlots, FilledSlots
<1>3. \A r \in UsedSlots(table) : new[r].key = table[r].key
    BY <1>0, <1>1 DEF UsedSlots
<1>4. KeysIn(new) = KeysIn(table)
    BY <1>2, <1>3 DEF KeysIn
<1>5. \A r \in UsedSlots(new) : OnProbe(new, n, new[r].key, r)
  <2> SUFFICES ASSUME NEW r \in UsedSlots(table)
               PROVE  OnProbe(new, n, table[r].key, r)
      BY <1>2, <1>3
  <2>1. PICK j \in 0 .. ProbeLen :
            /\ Probe[table[r].key][n][j] = r
            /\ \A i \in 0 .. j - 1 : table[Probe[table[r].key][n][i]].key # NULL
      BY DEF TableSound, OnProbe
  <2>2. table[r].key \in Keys
      BY DEF UsedSlots
  <2>3. \A i \in 0 .. j - 1 : Probe[table[r].key][n][i] \in 0 .. n - 1
      BY <2>2, ProbeInTable, TableConstants
  <2> QED
      BY <1>1, <2>1, <2>3 DEF OnProbe
<1> QED
    BY <1>1, <1>2, <1>3, <1>4, <1>5 DEF TableSound, new

\* A recursion that goes on where rank is lower, and stops with val.
Descends(D, V, stop, val, next, rank, M) ==
    /\ stop \in [D -> BOOLEAN] /\ next \in [D -> D] /\ rank \in [D -> Nat]
    /\ M \in Nat /\ \A x \in D : rank[x] < M
    /\ \A x \in D : stop[x] => val[x] \in V
    /\ \A x \in D : ~stop[x] => rank[next[x]] < rank[x]
    /\ V # {}

\* A function that either stops or goes on where the rank is lower exists.
LEMMA TailRecursion ==
    ASSUME NEW D, NEW V, NEW stop, NEW val, NEW next, NEW rank, NEW M,
           Descends(D, V, stop, val, next, rank, M)
    PROVE  \E f \in [D -> V] : f = [x \in D |-> IF stop[x] THEN val[x] ELSE f[next[x]]]
<1> USE DEF Descends
<1> DEFINE Good(f, x) == f[x] = IF stop[x] THEN val[x] ELSE f[next[x]]
           Solved(n) == \E f \in [D -> V] : \A x \in D : rank[x] < n => Good(f, x)
           T == {n \in Nat : ~Solved(n)}
<1>1. Solved(0)
  <2>1. PICK v \in V : TRUE
      OBVIOUS
  <2>2. [x \in D |-> v] \in [D -> V]
      OBVIOUS
  <2>3. \A x \in D : ~(rank[x] < 0)
      OBVIOUS
  <2> QED
      BY <2>2, <2>3
<1>2. ASSUME NEW n \in Nat, Solved(n) PROVE Solved(n + 1)
  <2>1. PICK f \in [D -> V] : \A x \in D : rank[x] < n => Good(f, x)
      BY <1>2
  <2> DEFINE g == [x \in D |-> IF stop[x] THEN val[x] ELSE f[next[x]]]
  <2>2. g \in [D -> V]
      OBVIOUS
  <2>3. ASSUME NEW x \in D, rank[x] < n + 1 PROVE Good(g, x)
    <3>1. CASE stop[x]
        BY <3>1
    <3>2. CASE ~stop[x]
      <4>1. next[x] \in D /\ rank[next[x]] < n
          BY <2>3, <3>2
      <4>2. Good(f, next[x])
          BY <2>1, <4>1
      <4>3. g[x] = f[next[x]] /\ g[next[x]] = f[next[x]]
          BY <3>2, <4>1, <4>2
      <4> QED
          BY <3>2, <4>3
    <3> QED
        BY <3>1, <3>2
  <2> HIDE DEF g
  <2> QED
      BY <2>2, <2>3
<1> HIDE DEF Solved
<1>3. T = {}
  <2> SUFFICES ASSUME T # {} PROVE FALSE
      OBVIOUS
  <2>1. PICK n \in T : \A y \in T : n <= y
      BY LeastNat
  <2>2. n # 0 /\ n \in Nat
      BY <1>1
  <2>3. Solved(n - 1)
      BY <2>1, <2>2
  <2> QED
      BY <1>2, <2>1, <2>2, <2>3
<1>4. Solved(M)
    BY <1>3
<1>5. PICK f \in [D -> V] : \A x \in D : Good(f, x)
    BY <1>4 DEF Solved
<1> QED
    BY <1>5

\* Its values are in the set that those are in where it stops.
LEMMA TailRange ==
    ASSUME NEW D, NEW V, NEW stop, NEW val, NEW next, NEW rank, NEW M,
           Descends(D, V, stop, val, next, rank, M),
           NEW f, f = [x \in D |-> IF stop[x] THEN val[x] ELSE f[next[x]]]
    PROVE  f \in [D -> V]
<1>0. ASSUME NEW x \in D PROVE f[x] = IF stop[x] THEN val[x] ELSE f[next[x]]
    BY DEF Descends
<1>1. ASSUME NEW y \in D, f[y] \notin V PROVE FALSE
  <2> DEFINE T == {rank[x] : x \in {z \in D : f[z] \notin V}}
  <2>0. T \in SUBSET Nat /\ T # {}
    <3>1. \A x \in D : rank[x] \in Nat
        BY DEF Descends
    <3> QED
        BY <1>1, <3>1
  <2>a. \A n : n \in T <=> \E x \in D : rank[x] = n /\ f[x] \notin V
      OBVIOUS
  <2> HIDE DEF T
  <2>1. PICK n \in T : \A t \in T : n <= t
      BY <2>0, LeastNat
  <2>2. PICK x \in D : rank[x] = n /\ f[x] \notin V
      BY <2>1, <2>a
  <2>3. ~stop[x] /\ f[x] = f[next[x]] /\ next[x] \in D /\ rank[next[x]] < rank[x]
      BY <1>0, <2>2 DEF Descends
  <2>4. rank[next[x]] \in T
      BY <2>2, <2>3, <2>a
  <2>5. rank[next[x]] \in Nat /\ n \in Nat
      BY <2>0, <2>1, <2>4
  <2> QED
      BY <2>1, <2>2, <2>3, <2>4, <2>5
<1>2. \A x \in D : f[x] \in V
    BY <1>1
<1> QED
    BY <1>2

\* One step of a binary search, from the bounds w on.
Halved(right, w, f) ==
    LET p == w[1] + (w[2] - w[1]) \div 2
    IN  IF w[1] >= w[2] THEN w[1]
        ELSE IF right[p] = -1 THEN -1
        ELSE f[IF right[p] = 1 THEN <<p + 1, w[2]>> ELSE <<w[1], p>>]

\* f narrows the bounds of a binary search until they meet.
Searches(right, first, last, f) ==
    LET D == (first..last) \X (first..last)
    IN  /\ f \in [D -> {-1} \cup first .. last]
        /\ \A w \in D : f[w] = Halved(right, w, f)
        /\ Bisect(right, first, last) = f[<<first, last>>]

\* Such an f is there.
LEMMA BisectIs ==
    ASSUME NEW right, NEW first \in Int, NEW last \in Int, first <= last,
           \A p \in first .. last - 1 : right[p] \in {-1, 0, 1}
    PROVE  \E f : Searches(right, first, last, f)
<1> DEFINE D == (first..last) \X (first..last)
           V == {-1} \cup first .. last
           mid(w) == w[1] + (w[2] - w[1]) \div 2
           Step(w, f) == IF w[1] >= w[2] THEN w[1]
                         ELSE IF right[mid(w)] = -1 THEN -1
                         ELSE f[IF right[mid(w)] = 1 THEN <<mid(w) + 1, w[2]>>
                                ELSE <<w[1], mid(w)>>]
           B == CHOOSE f : f = [w \in D |-> Step(w, f)]
           stop == [w \in D |-> w[1] >= w[2] \/ right[mid(w)] = -1]
           val == [w \in D |-> IF w[1] >= w[2] THEN w[1] ELSE -1]
           next == [w \in D |-> IF stop[w] THEN w
                                ELSE IF right[mid(w)] = 1 THEN <<mid(w) + 1, w[2]>>
                                ELSE <<w[1], mid(w)>>]
           rank == [w \in D |-> IF w[1] >= w[2] THEN 0 ELSE w[2] - w[1]]
<1>1. Bisect(right, first, last) = B[<<first, last>>]
    BY DEF Bisect
<1>2. ASSUME NEW w \in D, w[1] < w[2]
      PROVE  /\ mid(w) \in w[1] .. w[2] - 1
             /\ mid(w) \in first .. last - 1
             /\ right[mid(w)] \in {-1, 0, 1}
  <2>1. w[1] \in first..last /\ w[2] \in first..last /\ w[1] \in Int /\ w[2] \in Int
    OBVIOUS
  <2>2. mid(w) \in w[1] .. w[2] - 1
    BY <1>2, <2>1
  <2> QED
    BY <2>1, <2>2
<1>a. ASSUME NEW w \in D
      PROVE  w = <<w[1], w[2]>> /\ w[1] \in first..last /\ w[2] \in first..last
  OBVIOUS
<1>b. ASSUME NEW w \in D
      PROVE  /\ stop[w] <=> (w[1] >= w[2] \/ right[mid(w)] = -1)
             /\ val[w] = IF w[1] >= w[2] THEN w[1] ELSE -1
             /\ rank[w] = IF w[1] >= w[2] THEN 0 ELSE w[2] - w[1]
             /\ ~stop[w] => next[w] = IF right[mid(w)] = 1 THEN <<mid(w) + 1, w[2]>>
                                      ELSE <<w[1], mid(w)>>
             /\ stop[w] => next[w] = w
  <2> HIDE DEF mid, D
  <2> QED
    OBVIOUS
<1>3. Descends(D, V, stop, val, next, rank, last - first + 1)
  <2>1. stop \in [D -> BOOLEAN] /\ rank \in [D -> Nat] /\ V # {}
    OBVIOUS
  <2>2. ASSUME NEW w \in D, ~stop[w]
        PROVE  /\ next[w] \in D /\ rank[next[w]] < rank[w]
    <3>1. w = <<w[1], w[2]>> /\ w[1] \in first..last /\ w[2] \in first..last
      BY <1>a
    <3>2. w[1] < w[2]
      <4>1. ~(w[1] >= w[2])
        <5> HIDE DEF mid, stop, val, next, rank, D
        <5> QED
          BY <1>b, <2>2
      <4> QED
        BY <3>1, <4>1
    <3>3. /\ mid(w) \in w[1] .. w[2] - 1 /\ mid(w) \in first .. last - 1
      BY <1>2, <3>2
    <3> HIDE DEF mid
    <3>4. mid(w) + 1 \in first..last /\ mid(w) \in first..last
      BY <3>3
    <3>5. <<mid(w) + 1, w[2]>> \in D /\ <<w[1], mid(w)>> \in D
      BY <3>1, <3>4
    <3>6. rank[w] = w[2] - w[1]
      BY <1>b, <3>1, <3>2
    <3>7. /\ rank[<<mid(w) + 1, w[2]>>] < rank[w]
          /\ rank[<<w[1], mid(w)>>] < rank[w]
      <4>1. /\ rank[<<mid(w) + 1, w[2]>>] =
                 IF mid(w) + 1 >= w[2] THEN 0 ELSE w[2] - (mid(w) + 1)
            /\ rank[<<w[1], mid(w)>>] = IF w[1] >= mid(w) THEN 0 ELSE mid(w) - w[1]
        BY <3>5
      <4> HIDE DEF rank
      <4> QED
        BY <3>1, <3>2, <3>3, <3>6, <4>1
    <3>8. next[w] \in {<<mid(w) + 1, w[2]>>, <<w[1], mid(w)>>}
      <4> HIDE DEF next, stop
      <4> QED
        BY <1>b, <2>2
    <3> HIDE DEF next
    <3> QED
      BY <3>5, <3>7, <3>8
  <2>3. next \in [D -> D]
    <3>1. ASSUME NEW w \in D PROVE next[w] \in D
      BY <1>b, <2>2
    <3> QED
      BY <3>1
  <2>4. \A w \in D : rank[w] < last - first + 1
    OBVIOUS
  <2>5. \A w \in D : stop[w] => val[w] \in V
    <3> HIDE DEF stop, val, D, mid
    <3> QED
      BY <1>a, <1>b
  <2>6. last - first + 1 \in Nat
    OBVIOUS
  <2> QED
    BY <2>1, <2>2, <2>3, <2>4, <2>5, <2>6 DEF Descends
<1>4. \A f : \A w \in D : Step(w, f) = IF stop[w] THEN val[w] ELSE f[next[w]]
    OBVIOUS
<1> HIDE DEF stop, val, next, rank, Step, D, V
<1>5. \E f : f = [w \in D |-> Step(w, f)]
  <2>1. PICK f \in [D -> V] : f = [w \in D |-> IF stop[w] THEN val[w] ELSE f[next[w]]]
    BY <1>3, TailRecursion
  <2>2. f = [w \in D |-> Step(w, f)]
    BY <1>4, <2>1
  <2> QED
    BY <2>2
<1>6. B = [w \in D |-> Step(w, B)]
    BY <1>5
<1> HIDE DEF B
<1>7. B = [w \in D |-> IF stop[w] THEN val[w] ELSE B[next[w]]]
    BY <1>4, <1>6
<1>8. B \in [D -> V]
    BY <1>3, <1>7, TailRange
<1>9. \A w \in D : B[w] = Halved(right, w, B)
    BY <1>6 DEF Step, Halved
<1> QED
    BY <1>1, <1>8, <1>9 DEF V, D, Searches

\* A binary search ends between its bounds, or fails.
LEMMA BisectInRange ==
    ASSUME NEW right, NEW first \in Int, NEW last \in Int, first <= last,
           \A p \in first .. last - 1 : right[p] \in {-1, 0, 1}
    PROVE  Bisect(right, first, last) \in {-1} \cup first .. last
<1>1. PICK f : Searches(right, first, last, f)
    BY BisectIs
<1> QED
    BY <1>1 DEF Searches

\* What a comparison can return.
LEMMA LessIs == \A x, y : Less(x, y) \in {-1, 0, 1} /\ Not(Less(x, y)) \in {-1, 0, 1}
BY DEF Less, Not

\* The leaps of a gallop: how far they may go, and one of them.
Farthest(right, n, hint) == IF right[hint] = 1 THEN n - hint ELSE hint + 1
Onward(right, hint, ofs) ==
    IF right[hint] = 1 THEN right[hint + ofs] ELSE Not(right[hint - ofs])
Leapt(right, n, hint, ofs, f) ==
    IF ofs >= Farthest(right, n, hint) THEN ofs
    ELSE IF Onward(right, hint, ofs) = -1 THEN -1
    ELSE IF Onward(right, hint, ofs) = 1 THEN f[2 * ofs + 1] ELSE ofs
\* The binary search that follows a leap to ofs.
Landed(right, n, hint, ofs) ==
    LET far  == IF ofs > Farthest(right, n, hint) THEN Farthest(right, n, hint) ELSE ofs
        near == ofs \div 2
    IN  IF right[hint] = 1 THEN Bisect(right, hint + near + 1, hint + far)
        ELSE Bisect(right, hint - far + 1, hint - near)

\* f leaps until it is far enough.
Leaps(right, n, hint, f) ==
    LET D == 1..2 * Farthest(right, n, hint) - 1
    IN  /\ f \in [D -> {-1} \cup D]
        /\ \A ofs \in D : f[ofs] = Leapt(right, n, hint, ofs, f)
        /\ Gallop(right, n, hint) = IF right[hint] = -1 \/ f[1] = -1 THEN -1
                                    ELSE Landed(right, n, hint, f[1])

\* Such an f is there.
LEMMA GallopIs ==
    ASSUME NEW right, NEW n \in Nat, NEW hint \in 0 .. n - 1
    PROVE  \E f : Leaps(right, n, hint, f)
<1> DEFINE up == right[hint]
           maxofs == IF up = 1 THEN n - hint ELSE hint + 1
           Goes(ofs) == IF up = 1 THEN right[hint + ofs] ELSE Not(right[hint - ofs])
           D == 1..2 * maxofs - 1
           Step(ofs, f) == IF ofs >= maxofs THEN ofs
                           ELSE IF Goes(ofs) = -1 THEN -1
                           ELSE IF Goes(ofs) = 1 THEN f[2 * ofs + 1] ELSE ofs
           Leap == CHOOSE f : f = [ofs \in D |-> Step(ofs, f)]
           V == {-1} \cup D
           stop == [ofs \in D |-> ofs >= maxofs \/ Goes(ofs) # 1]
           val == [ofs \in D |-> IF ofs >= maxofs \/ Goes(ofs) # -1 THEN ofs ELSE -1]
           next == [ofs \in D |-> IF stop[ofs] THEN ofs ELSE 2 * ofs + 1]
           rank == [ofs \in D |-> 2 * maxofs - ofs]
<1>1. Gallop(right, n, hint) = IF right[hint] = -1 \/ Leap[1] = -1 THEN -1
                               ELSE Landed(right, n, hint, Leap[1])
    BY DEF Gallop, Landed, Farthest
<1>2. maxofs \in Nat /\ maxofs >= 1 /\ hint \in Nat /\ hint < n
    OBVIOUS
<1>3. Descends(D, V, stop, val, next, rank, 2 * maxofs)
  <2> HIDE DEF maxofs, Goes
  <2>1. stop \in [D -> BOOLEAN] /\ rank \in [D -> Nat] /\ V # {} /\ 2 * maxofs \in Nat
    BY <1>2
  <2>2. \A x \in D : rank[x] < 2 * maxofs
    BY <1>2
  <2>3. \A x \in D : val[x] \in V
    OBVIOUS
  <2>4. ASSUME NEW x \in D PROVE next[x] \in D /\ (~stop[x] => rank[next[x]] < rank[x])
    <3>1. CASE stop[x]
      BY <3>1
    <3>2. CASE ~stop[x]
      <4>1. ~(x >= maxofs) /\ next[x] = 2 * x + 1
        BY <3>2
      <4>2. next[x] \in D /\ next[x] > x
        BY <1>2, <4>1
      <4> HIDE DEF next
      <4> QED
        BY <1>2, <4>1, <4>2
    <3> QED
      BY <3>1, <3>2
  <2>5. next \in [D -> D]
    <3>1. \A x \in D : next[x] \in D
      BY <2>4
    <3> QED
      BY <3>1
  <2> HIDE DEF D, V, stop, val, next, rank
  <2> QED
    BY <2>1, <2>2, <2>3, <2>4, <2>5 DEF Descends
<1>4. \A f : \A w \in D : Step(w, f) = IF stop[w] THEN val[w] ELSE f[next[w]]
  <2> HIDE DEF Goes, maxofs, D
  <2> SUFFICES ASSUME NEW f, NEW w \in D
               PROVE  Step(w, f) = IF stop[w] THEN val[w] ELSE f[next[w]]
    OBVIOUS
  <2>1. CASE w >= maxofs \/ Goes(w) # 1
    <3>1. stop[w] /\ val[w] = IF w >= maxofs \/ Goes(w) # -1 THEN w ELSE -1
      BY <2>1
    <3> HIDE DEF stop, val, next
    <3> QED
      BY <2>1, <3>1
  <2>2. CASE ~(w >= maxofs \/ Goes(w) # 1)
    <3>1. ~stop[w] /\ next[w] = 2 * w + 1
      BY <2>2
    <3> HIDE DEF stop, val, next
    <3> QED
      BY <2>2, <3>1
  <2> QED
    BY <2>1, <2>2
<1> HIDE DEF stop, val, next, rank, Step, D, V
<1>a. Leap = [w \in D |-> Step(w, Leap)]
  <2>1. PICK f \in [D -> V] : f = [w \in D |-> IF stop[w] THEN val[w] ELSE f[next[w]]]
    BY <1>3, TailRecursion
  <2>2. f = [w \in D |-> Step(w, f)]
    BY <1>4, <2>1
  <2> QED
    BY <2>2
<1> HIDE DEF Leap
<1>5. Leap \in [D -> V]
  <2>1. Leap = [w \in D |-> IF stop[w] THEN val[w] ELSE Leap[next[w]]]
    BY <1>4, <1>a
  <2> QED
    BY <1>3, <2>1, TailRange
<1> USE DEF D, V, Step
<1>6. Leap = [ofs \in D |-> Step(ofs, Leap)]
    BY <1>a
<1>7. \A ofs \in D : Leap[ofs] = Leapt(right, n, hint, ofs, Leap)
    BY <1>6 DEF Leapt, Farthest, Onward
<1>8. maxofs = Farthest(right, n, hint)
    BY DEF Farthest
<1> HIDE DEF Step, maxofs
<1> QED
    BY <1>1, <1>5, <1>7, <1>8 DEF Leaps

\* The search that follows a leap keeps to the items.
LEMMA LandedIs ==
    ASSUME NEW right, NEW n \in Nat, NEW hint \in 0 .. n - 1,
           NEW ofs \in 1..2 * Farthest(right, n, hint) - 1
    PROVE  \E first \in 0..n, last \in 0..n :
                /\ first <= last /\ Landed(right, n, hint, ofs) = Bisect(right, first, last)
                /\ right[hint] = 1 =>
                     /\ first = hint + ofs \div 2 + 1
                     /\ last = IF ofs > n - hint THEN n ELSE hint + ofs
                /\ right[hint] # 1 =>
                     /\ last = hint - ofs \div 2
                     /\ first = IF ofs > hint + 1 THEN 0 ELSE hint - ofs + 1
<1> DEFINE maxofs == Farthest(right, n, hint)
           far  == IF ofs > maxofs THEN maxofs ELSE ofs
           near == ofs \div 2
<1>1. maxofs = IF right[hint] = 1 THEN n - hint ELSE hint + 1
    BY DEF Farthest
<1>2. maxofs \in Nat /\ maxofs >= 1 /\ ofs \in Nat /\ ofs >= 1 /\ ofs <= 2 * maxofs - 1
    BY <1>1
<1>3. Landed(right, n, hint, ofs) =
        IF right[hint] = 1 THEN Bisect(right, hint + near + 1, hint + far)
        ELSE Bisect(right, hint - far + 1, hint - near)
    BY DEF Landed
<1> HIDE DEF maxofs
<1>4. /\ far \in Nat /\ near \in Nat /\ near + 1 <= far /\ far <= maxofs
      /\ far = IF ofs > maxofs THEN maxofs ELSE ofs
      /\ near = ofs \div 2
    BY <1>2
<1> HIDE DEF far, near
<1>5. CASE right[hint] = 1
    <2> DEFINE first == hint + near + 1
               last == hint + far
    <2>1. first \in 0..n /\ last \in 0..n /\ first <= last
          /\ first = hint + ofs \div 2 + 1
          /\ last = IF ofs > n - hint THEN n ELSE hint + ofs
        BY <1>1, <1>2, <1>4, <1>5
    <2> HIDE DEF first, last
    <2>2. Landed(right, n, hint, ofs) = Bisect(right, first, last)
        BY <1>3, <1>5 DEF first, last
    <2> QED
        BY <1>5, <2>1, <2>2
<1>6. CASE right[hint] # 1
    <2> DEFINE first == hint - far + 1
               last == hint - near
    <2>1. first \in 0..n /\ last \in 0..n /\ first <= last
          /\ last = hint - ofs \div 2
          /\ first = IF ofs > hint + 1 THEN 0 ELSE hint - ofs + 1
        BY <1>1, <1>2, <1>4, <1>6
    <2> HIDE DEF first, last
    <2>2. Landed(right, n, hint, ofs) = Bisect(right, first, last)
        BY <1>3, <1>6 DEF first, last
    <2> QED
        BY <1>6, <2>1, <2>2
<1> QED
    BY <1>5, <1>6

\* gallop_left and gallop_right return a place among the items, or -1,
\* whatever the comparisons return: leaps never leave the items.
LEMMA GallopInRange ==
    ASSUME NEW right, NEW n \in Nat, NEW hint \in 0 .. n - 1,
           \A p \in 0 .. n - 1 : right[p] \in {-1, 0, 1}
    PROVE  Gallop(right, n, hint) \in {-1} \cup 0 .. n
<1> DEFINE D == 1..2 * Farthest(right, n, hint) - 1
<1>1. PICK f : Leaps(right, n, hint, f)
    BY GallopIs
<1>a. /\ f \in [D -> {-1} \cup D]
      /\ Gallop(right, n, hint) = IF right[hint] = -1 \/ f[1] = -1 THEN -1
                                  ELSE Landed(right, n, hint, f[1])
    BY <1>1 DEF Leaps
<1>2. 1 \in D
    BY DEF Farthest
<1>3. CASE right[hint] = -1 \/ f[1] = -1
    BY <1>a, <1>3
<1>4. CASE ~(right[hint] = -1 \/ f[1] = -1)
    <2> DEFINE ofs == f[1]
    <2>1. ofs \in D /\ Gallop(right, n, hint) = Landed(right, n, hint, ofs)
        BY <1>a, <1>2, <1>4
    <2> HIDE DEF ofs
    <2>2. PICK first \in 0..n, last \in 0..n :
             first <= last /\ Landed(right, n, hint, ofs) = Bisect(right, first, last)
        BY <2>1, LandedIs
    <2>3. /\ first \in Int /\ last \in Int /\ first .. last \subseteq 0..n
          /\ \A p \in first .. last - 1 : right[p] \in {-1, 0, 1}
        OBVIOUS
    <2>4. Bisect(right, first, last) \in {-1} \cup first .. last
        BY <2>2, <2>3, BisectInRange
    <2> QED
        BY <2>1, <2>2, <2>3, <2>4
<1> QED
    BY <1>3, <1>4

\* The comparison that decides on the direction of a run, and how far the
\* run goes on from item n.
FirstLess(s) == IF Len(s) < 2 THEN 0 ELSE Less(s[2], s[1])
Counted(s, n, f) ==
    IF n = Len(s) THEN n
    ELSE IF Less(s[n + 1], s[n]) = -1 THEN -1
    ELSE IF Less(s[n + 1], s[n]) = FirstLess(s) THEN f[n + 1] ELSE n
Counts(s, f) ==
    /\ f \in [1..Len(s) -> {-1} \cup 1 .. Len(s)]
    /\ \A n \in 1..Len(s) : f[n] = Counted(s, n, f)
    /\ CountRun(s).n = IF FirstLess(s) = -1 THEN -1 ELSE f[1]
    /\ CountRun(s).descending = (FirstLess(s) = 1)

\* count_run goes from item to item.
LEMMA CountRunIs ==
    ASSUME NEW s, Len(s) \in Nat, Len(s) >= 1
    PROVE  \E f : Counts(s, f)
<1> DEFINE lt == IF Len(s) < 2 THEN 0 ELSE Less(s[2], s[1])
           D == 1..Len(s)
           Step(n, f) == IF n = Len(s) THEN n
                         ELSE LET k == Less(s[n + 1], s[n])
                              IN  IF k = -1 THEN -1 ELSE IF k = lt THEN f[n + 1] ELSE n
           Scan == CHOOSE f : f = [n \in D |-> Step(n, f)]
           V == {-1} \cup D
           cmp(n) == Less(s[n + 1], s[n])
           stop == [n \in D |-> n = Len(s) \/ cmp(n) = -1 \/ cmp(n) # lt]
           val == [n \in D |-> IF n = Len(s) \/ cmp(n) # -1 THEN n ELSE -1]
           next == [n \in D |-> IF stop[n] THEN n ELSE n + 1]
           rank == [n \in D |-> Len(s) - n]
<1>1. CountRun(s).n = IF lt = -1 THEN -1 ELSE Scan[1]
    BY DEF CountRun
<1>2. Descends(D, V, stop, val, next, rank, Len(s) + 1)
  <2> HIDE DEF cmp, lt
  <2>1. stop \in [D -> BOOLEAN] /\ rank \in [D -> Nat] /\ V # {} /\ Len(s) + 1 \in Nat
    OBVIOUS
  <2>2. \A x \in D : rank[x] < Len(s) + 1
    OBVIOUS
  <2>3. \A x \in D : val[x] \in V
    OBVIOUS
  <2>4. ASSUME NEW x \in D PROVE next[x] \in D /\ (~stop[x] => rank[next[x]] < rank[x])
    <3>1. CASE stop[x]
      BY <3>1
    <3>2. CASE ~stop[x]
      <4>1. x # Len(s) /\ next[x] = x + 1
        BY <3>2
      <4>2. next[x] \in D /\ next[x] > x
        BY <4>1
      <4> HIDE DEF next
      <4> QED
        BY <4>1, <4>2
    <3> QED
      BY <3>1, <3>2
  <2>5. next \in [D -> D]
    <3>1. \A x \in D : next[x] \in D
      BY <2>4
    <3> QED
      BY <3>1
  <2> HIDE DEF D, V, stop, val, next, rank
  <2> QED
    BY <2>1, <2>2, <2>3, <2>4, <2>5 DEF Descends
<1>3. \A f : \A w \in D : Step(w, f) = IF stop[w] THEN val[w] ELSE f[next[w]]
  <2> SUFFICES ASSUME NEW f, NEW w \in D
               PROVE  Step(w, f) = IF stop[w] THEN val[w] ELSE f[next[w]]
    OBVIOUS
  <2>0. Step(w, f) = IF w = Len(s) THEN w
                     ELSE IF cmp(w) = -1 THEN -1 ELSE IF cmp(w) = lt THEN f[w + 1] ELSE w
    OBVIOUS
  <2> HIDE DEF cmp, lt, Step, D
  <2>1. CASE w = Len(s) \/ cmp(w) = -1 \/ cmp(w) # lt
    <3>1. stop[w] /\ val[w] = IF w = Len(s) \/ cmp(w) # -1 THEN w ELSE -1
      BY <2>1
    <3> HIDE DEF stop, val, next
    <3> QED
      BY <2>0, <2>1, <3>1
  <2>2. CASE ~(w = Len(s) \/ cmp(w) = -1 \/ cmp(w) # lt)
    <3>1. ~stop[w] /\ next[w] = w + 1
      BY <2>2
    <3> HIDE DEF stop, val, next
    <3> QED
      BY <2>0, <2>2, <3>1
  <2> QED
    BY <2>1, <2>2
<1> HIDE DEF stop, val, next, rank, Step, D, V
<1>4. Scan = [w \in D |-> Step(w, Scan)]
  <2>1. PICK f \in [D -> V] : f = [w \in D |-> IF stop[w] THEN val[w] ELSE f[next[w]]]
    BY <1>2, TailRecursion
  <2>2. f = [w \in D |-> Step(w, f)]
    BY <1>3, <2>1
  <2> QED
    BY <2>2
<1> HIDE DEF Scan
<1>5. Scan \in [D -> V]
  <2>1. Scan = [w \in D |-> IF stop[w] THEN val[w] ELSE Scan[next[w]]]
    BY <1>3, <1>4
  <2> QED
    BY <1>2, <2>1, TailRange
<1>6. \A n \in D : Scan[n] = Counted(s, n, Scan)
    BY <1>4 DEF Step, Counted, FirstLess
<1>7. CountRun(s).descending = (FirstLess(s) = 1)
    BY DEF CountRun, FirstLess
<1> QED
    BY <1>1, <1>5, <1>6, <1>7 DEF Counts, D, V, FirstLess

\* count_run finds at least one item, or fails; from one item of the run to
\* the next the comparisons agree.
LEMMA CountRunTells ==
    ASSUME NEW s, Len(s) \in Nat, Len(s) >= 1
    PROVE  /\ CountRun(s).n \in {-1} \cup 1 .. Len(s)
           /\ CountRun(s).descending \in BOOLEAN
           /\ \A i \in 1..CountRun(s).n - 1 :
                Less(s[i + 1], s[i]) = IF CountRun(s).descending THEN 1 ELSE 0
<1> DEFINE D == 1..Len(s)
           lt == FirstLess(s)
           Alike(x) == \A i \in 1..x - 1 : Less(s[i + 1], s[i]) = lt
<1>1. PICK f : Counts(s, f)
  BY CountRunIs
<1>2. /\ f \in [D -> {-1} \cup D]
      /\ CountRun(s).n = IF lt = -1 THEN -1 ELSE f[1]
      /\ CountRun(s).descending = (lt = 1)
  BY <1>1 DEF Counts
<1>3. ASSUME NEW x \in D
      PROVE  f[x] = IF x = Len(s) THEN x
                    ELSE IF Less(s[x + 1], s[x]) = -1 THEN -1
                    ELSE IF Less(s[x + 1], s[x]) = lt THEN f[x + 1] ELSE x
  BY <1>1 DEF Counts, Counted
<1>4. lt \in {-1, 0, 1}
  BY LessIs DEF FirstLess
<1> HIDE DEF lt
<1> DEFINE T == {Len(s) - x : x \in {y \in D : Alike(y) /\ f[y] # -1 /\ ~Alike(f[y])}}
<1>5. \A k : k \in T <=> \E x \in D : k = Len(s) - x /\ Alike(x) /\ f[x] # -1 /\ ~Alike(f[x])
  OBVIOUS
<1>6. T \in SUBSET Nat
  OBVIOUS
<1> HIDE DEF T
<1>7. ASSUME T # {} PROVE FALSE
  <2>1. PICK k \in T : \A y \in T : k <= y
    BY <1>6, <1>7, LeastNat
  <2>2. PICK x \in D : k = Len(s) - x /\ Alike(x) /\ f[x] # -1 /\ ~Alike(f[x])
    BY <1>5
  <2>3. x # Len(s) /\ Less(s[x + 1], s[x]) = lt /\ f[x] = f[x + 1]
    <3> HIDE DEF Alike
    <3> QED
      BY <1>3, <2>2
  <2>4. x + 1 \in D /\ Len(s) - (x + 1) < Len(s) - x
    BY <2>3
  <2>5. Alike(x + 1)
    <3>1. ASSUME NEW i \in 1..(x + 1) - 1 PROVE Less(s[i + 1], s[i]) = lt
      <4>1. i = x \/ i \in 1..x - 1
        OBVIOUS
      <4> QED
        BY <2>2, <2>3, <4>1
    <3> QED
      BY <3>1
  <2> HIDE DEF Alike
  <2>6. Len(s) - (x + 1) \in T
    BY <1>5, <2>2, <2>3, <2>4, <2>5
  <2> QED
    BY <2>1, <2>2, <2>4, <2>6
<1>8. 1 \in D /\ Alike(1)
  OBVIOUS
<1>9. f[1] # -1 => Alike(f[1])
  BY <1>5, <1>7, <1>8
<1>10. CASE lt = -1
  <2>1. CountRun(s).n = -1 /\ 1..(-1) - 1 = {} /\ CountRun(s).descending \in BOOLEAN
    BY <1>2, <1>10
  <2> QED
    BY <2>1
<1>11. CASE lt # -1
  <2>1. CountRun(s).n = f[1] /\ f[1] \in {-1} \cup D
    BY <1>2, <1>8, <1>11
  <2>2. CASE f[1] = -1
    <3>1. 1..(-1) - 1 = {}
      OBVIOUS
    <3> QED
      BY <1>2, <2>1, <2>2, <3>1
  <2>3. CASE f[1] # -1
    <3>1. \A i \in 1..f[1] - 1 : Less(s[i + 1], s[i]) = lt
      BY <1>9, <2>3
    <3>2. lt = IF CountRun(s).descending THEN 1 ELSE 0
      BY <1>2, <1>4, <1>11
    <3>3. CountRun(s).descending \in BOOLEAN
      BY <1>2
    <3> QED
      BY <2>1, <3>1, <3>2, <3>3
  <2> QED
    BY <2>2, <2>3
<1> QED
  BY <1>10, <1>11

\* A recursion over a..b that starts with z.
Steps(a, b, S, z, step) ==
    /\ a \in Int /\ b \in Int /\ a <= b
    /\ z \in S /\ step \in [S \X (a + 1 .. b) -> S]

\* A function whose value at i comes from that at i - 1 exists.
LEMMA StepRecursion ==
    ASSUME NEW a, NEW b, NEW S, NEW z, NEW step, Steps(a, b, S, z, step)
    PROVE  \E f \in [a..b -> S] :
                f = [i \in a..b |-> IF i = a THEN z ELSE step[<<f[i - 1], i>>]]
<1> USE DEF Steps
<1> DEFINE Good(f, i) == f[i] = IF i = a THEN z ELSE step[<<f[i - 1], i>>]
           Solved(n) == \E f \in [a..b -> S] : \A i \in a..b : i < a + n => Good(f, i)
           T == {n \in Nat : ~Solved(n)}
<1>1. Solved(0)
  <2>1. [i \in a..b |-> z] \in [a..b -> S]
    OBVIOUS
  <2>2. \A i \in a..b : ~(i < a + 0)
    OBVIOUS
  <2> QED
    BY <2>1, <2>2
<1>2. ASSUME NEW n \in Nat, Solved(n) PROVE Solved(n + 1)
  <2>1. PICK f \in [a..b -> S] : \A i \in a..b : i < a + n => Good(f, i)
    BY <1>2
  <2> DEFINE g == [i \in a..b |-> IF i = a THEN z ELSE step[<<f[i - 1], i>>]]
  <2>2. \A i \in a..b : g[i] = IF i = a THEN z ELSE step[<<f[i - 1], i>>]
    OBVIOUS
  <2>3. g \in [a..b -> S]
    <3>1. ASSUME NEW i \in a..b, i # a
          PROVE  step[<<f[i - 1], i>>] \in S
      <4>1. i - 1 \in a..b /\ i \in a + 1 .. b
        BY <3>1
      <4>2. <<f[i - 1], i>> \in S \X (a + 1 .. b)
        BY <4>1
      <4> QED
        BY <4>2
    <3> QED
      BY <3>1
  <2> HIDE DEF g
  <2>4. ASSUME NEW i \in a..b, i < a + (n + 1) PROVE Good(g, i)
    <3>1. CASE i = a
      BY <2>2, <3>1
    <3>2. CASE i # a
      <4>1. i - 1 \in a..b /\ i - 1 < a + n
        BY <2>4, <3>2
      <4>2. g[i - 1] = f[i - 1]
        BY <2>1, <2>2, <4>1
      <4> QED
        BY <2>2, <3>2, <4>2
    <3> QED
      BY <3>1, <3>2
  <2> QED
    BY <2>3, <2>4
<1> HIDE DEF Solved
<1>3. T = {}
  <2> SUFFICES ASSUME T # {} PROVE FALSE
    OBVIOUS
  <2>1. PICK n \in T : \A y \in T : n <= y
    BY LeastNat
  <2>2. n # 0 /\ n \in Nat
    BY <1>1
  <2>3. Solved(n - 1)
    BY <2>1, <2>2
  <2> QED
    BY <1>2, <2>1, <2>2, <2>3
<1>4. Solved(b - a + 1)
  BY <1>3
<1>5. PICK f \in [a..b -> S] : \A i \in a..b : Good(f, i)
  BY <1>4 DEF Solved
<1> QED
  BY <1>5
-----------------------------------------------------------------------------
\* The members of a sequence are its values.
LEMMA ToSetIs ==
    ASSUME NEW C, NEW t \in Seq(C)
    PROVE  ToSet(t) = {t[i] : i \in 1..Len(t)}
BY DEF ToSet

\* Two sequences joined have the members of both.
LEMMA ToSetOfJoin ==
    ASSUME NEW C, NEW t \in Seq(C), NEW u \in Seq(C)
    PROVE  /\ t \o u \in Seq(C) /\ Len(t \o u) = Len(t) + Len(u)
           /\ ToSet(t \o u) = ToSet(t) \cup ToSet(u)
<1> DEFINE w == t \o u
<1>1. /\ w \in Seq(C) /\ Len(w) = Len(t) + Len(u)
      /\ \A i \in 1 .. Len(t) + Len(u) :
            w[i] = IF i <= Len(t) THEN t[i] ELSE u[i - Len(t)]
  BY ConcatProperties
<1>0. Len(t) \in Nat /\ Len(u) \in Nat
  OBVIOUS
<1> HIDE DEF w
<1>2. /\ \A x : x \in ToSet(w) <=> \E i \in 1..Len(t) + Len(u) : x = w[i]
      /\ \A x : x \in ToSet(t) <=> \E i \in 1..Len(t) : x = t[i]
      /\ \A x : x \in ToSet(u) <=> \E i \in 1..Len(u) : x = u[i]
  <2>1. DOMAIN w = 1..Len(t) + Len(u) /\ DOMAIN t = 1..Len(t) /\ DOMAIN u = 1..Len(u)
    BY <1>1
  <2> QED
    BY <2>1 DEF ToSet
<1>3. ASSUME NEW x \in ToSet(w) PROVE x \in ToSet(t) \cup ToSet(u)
  <2>1. PICK i \in 1..Len(t) + Len(u) : x = w[i]
    BY <1>2, <1>3
  <2>2. CASE i <= Len(t)
    BY <1>0, <1>1, <1>2, <2>1, <2>2
  <2>3. CASE i > Len(t)
    <3>1. i - Len(t) \in 1..Len(u) /\ x = u[i - Len(t)]
      BY <1>0, <1>1, <2>1, <2>3
    <3> QED
      BY <1>2, <3>1
  <2> QED
    BY <1>0, <2>2, <2>3
<1>4. ASSUME NEW x \in ToSet(t) PROVE x \in ToSet(w)
  <2>1. PICK i \in 1..Len(t) : x = t[i]
    BY <1>2, <1>4
  <2>2. i \in 1..Len(t) + Len(u) /\ i <= Len(t)
    BY <1>0
  <2> QED
    BY <1>1, <1>2, <2>1, <2>2
<1>5. ASSUME NEW x \in ToSet(u) PROVE x \in ToSet(w)
  <2>1. PICK i \in 1..Len(u) : x = u[i]
    BY <1>2, <1>5
  <2>2. /\ i + Len(t) \in 1..Len(t) + Len(u) /\ ~(i + Len(t) <= Len(t))
        /\ i + Len(t) - Len(t) = i
    BY <1>0
  <2>3. w[i + Len(t)] = u[i]
    BY <1>1, <2>2
  <2> QED
    BY <1>2, <2>1, <2>2, <2>3
<1>6. ToSet(w) = ToSet(t) \cup ToSet(u)
  BY <1>3, <1>4, <1>5
<1> QED
  BY <1>1, <1>6 DEF w

\* The parts of a sequence have its members between them.
LEMMA SplitKeeps ==
    ASSUME NEW C, NEW t \in Seq(C), NEW q \in 0..Len(t)
    PROVE  /\ SubSeq(t, 1, q) \in Seq(C) /\ SubSeq(t, q + 1, Len(t)) \in Seq(C)
           /\ Len(SubSeq(t, 1, q)) = q
           /\ Len(SubSeq(t, q + 1, Len(t))) = Len(t) - q
           /\ ToSet(t) = ToSet(SubSeq(t, 1, q)) \cup ToSet(SubSeq(t, q + 1, Len(t)))
<1>0. Len(t) \in Nat /\ q \in Nat /\ \A i \in 1..Len(t) : t[i] \in C
  OBVIOUS
<1>1. SubSeq(t, 1, q) \in Seq(C) /\ Len(SubSeq(t, 1, q)) = q
  <2>1. 1 \in Int /\ q \in Int /\ \A i \in 1..q : t[i] \in C
    BY <1>0
  <2>2. /\ SubSeq(t, 1, q) \in Seq(C)
        /\ Len(SubSeq(t, 1, q)) = IF 1 <= q THEN q - 1 + 1 ELSE 0
    BY <2>1, SubSeqProperties
  <2> QED
    BY <1>0, <2>2
<1>2. SubSeq(t, q + 1, Len(t)) \in Seq(C) /\ Len(SubSeq(t, q + 1, Len(t))) = Len(t) - q
  <2>1. q + 1 \in Int /\ Len(t) \in Int /\ \A i \in q + 1..Len(t) : t[i] \in C
    BY <1>0
  <2>2. /\ SubSeq(t, q + 1, Len(t)) \in Seq(C)
        /\ Len(SubSeq(t, q + 1, Len(t))) =
                IF q + 1 <= Len(t) THEN Len(t) - (q + 1) + 1 ELSE 0
    BY <2>1, SubSeqProperties
  <2> QED
    BY <1>0, <2>2
<1>3. SubSeq(t, 1, q) \o SubSeq(t, q + 1, Len(t)) = t
  <2>1. /\ 1 \in 1..Len(t) + 1 /\ q \in 1 - 1 .. Len(t) /\ Len(t) \in q..Len(t)
    BY <1>0
  <2>2. SubSeq(t, 1, q) \o SubSeq(t, q + 1, Len(t)) = SubSeq(t, 1, Len(t))
    BY <2>1, ConcatAdjacentSubSeq
  <2> QED
    BY <2>2, SubSeqFull
<1> DEFINE x == SubSeq(t, 1, q)
           y == SubSeq(t, q + 1, Len(t))
<1>4. x \in Seq(C) /\ y \in Seq(C)
  BY <1>1, <1>2
<1>5. x \o y = t
  BY <1>3
<1> HIDE DEF x, y
<1>6. /\ x \o y \in Seq(C) /\ Len(x \o y) = Len(x) + Len(y)
      /\ ToSet(x \o y) = ToSet(x) \cup ToSet(y)
  BY ONLY <1>4, ToSetOfJoin
<1> QED
  BY <1>1, <1>2, <1>5, <1>6 DEF x, y

\* A sequence of one item.
LEMMA SingleIs ==
    ASSUME NEW C, NEW e \in C
    PROVE  <<e>> \in Seq(C) /\ Len(<<e>>) = 1 /\ ToSet(<<e>>) = {e}
<1>1. <<e>> \in Seq(C) /\ Len(<<e>>) = 1 /\ <<e>>[1] = e
  OBVIOUS
<1> DEFINE one == <<e>>
<1>2. one \in Seq(C) /\ Len(one) = 1 /\ one[1] = e
  BY <1>1
<1> HIDE DEF one
<1>3. ToSet(one) = {one[j] : j \in 1..1}
  BY <1>2, ToSetIs
<1>4. ToSet(one) = {e}
  BY <1>2, <1>3
<1> QED
  BY <1>2, <1>4 DEF one

\* u has the items of t, each as often, in any order.
Rearranged(u, t) ==
    /\ Len(u) = Len(t)
    /\ \E p \in Bijection(1..Len(t), 1..Len(t)) : \A i \in 1..Len(t) : u[i] = t[p[i]]

\* What makes a function a bijection.
LEMMA BijectionIs ==
    ASSUME NEW S, NEW T, NEW p \in [S -> T],
           \A i, j \in S : p[i] = p[j] => i = j,
           \A y \in T : \E i \in S : p[i] = y
    PROVE  p \in Bijection(S, T)
<1>1. DOMAIN p = S
  OBVIOUS
<1>2. IsInjective(p)
  BY <1>1 DEF IsInjective
<1> QED
  BY <1>2 DEF Bijection, Injection, Surjection

\* A bijection reaches everything, and nothing twice.
LEMMA BijectionOf ==
    ASSUME NEW S, NEW T, NEW p \in Bijection(S, T)
    PROVE  /\ p \in [S -> T]
           /\ \A i, j \in S : p[i] = p[j] => i = j
           /\ \A y \in T : \E i \in S : p[i] = y
BY DEF Bijection, Injection, Surjection, IsInjective

\* A sequence is its own rearrangement.
LEMMA RearrangedSame ==
    ASSUME NEW t
    PROVE  Rearranged(t, t)
<1> DEFINE D == 1..Len(t)
           p == [i \in D |-> i]
<1>1. p \in [D -> D] /\ \A i \in D : p[i] = i
  OBVIOUS
<1>2. p \in Bijection(D, D)
  <2> HIDE DEF p, D
  <2> QED
    BY <1>1, BijectionIs
<1>3. \A i \in D : t[i] = t[p[i]]
  OBVIOUS
<1> QED
  BY <1>2, <1>3 DEF Rearranged

\* A rearrangement of a rearrangement is one.
LEMMA RearrangedAgain ==
    ASSUME NEW t, NEW u, NEW v, Rearranged(u, t), Rearranged(v, u)
    PROVE  Rearranged(v, t)
<1> DEFINE D == 1..Len(t)
<1>1. PICK p \in Bijection(D, D) : \A i \in D : u[i] = t[p[i]]
  BY DEF Rearranged
<1>2. Len(u) = Len(t) /\ Len(v) = Len(t)
  BY DEF Rearranged
<1>3. PICK q \in Bijection(D, D) : \A i \in D : v[i] = u[q[i]]
  BY <1>2 DEF Rearranged
<1> DEFINE r == [i \in D |-> p[q[i]]]
<1>4. r \in Bijection(D, D)
  <2> HIDE DEF D
  <2> QED
    BY Fun_BijTransitive
<1>5. \A i \in D : v[i] = t[r[i]]
  <2>1. q \in [D -> D]
    BY BijectionOf
  <2> HIDE DEF D
  <2> QED
    BY <1>1, <1>3, <2>1
<1> HIDE DEF r
<1> QED
  BY <1>2, <1>4, <1>5 DEF Rearranged

\* It has the same members.
LEMMA RearrangedMembers ==
    ASSUME NEW C, NEW t \in Seq(C), NEW u \in Seq(C), Rearranged(u, t)
    PROVE  ToSet(u) = ToSet(t)
<1> DEFINE D == 1..Len(t)
<1>1. PICK p \in Bijection(D, D) : \A i \in D : u[i] = t[p[i]]
  BY DEF Rearranged
<1>2. p \in [D -> D] /\ \A y \in D : \E i \in D : p[i] = y
  <2> HIDE DEF D
  <2> QED
    BY BijectionOf
<1>3. ToSet(u) = {u[i] : i \in D} /\ ToSet(t) = {t[i] : i \in D}
  <2>1. Len(u) = Len(t)
    BY DEF Rearranged
  <2> QED
    BY <2>1, ToSetIs
<1> HIDE DEF D
<1> QED
  BY <1>1, <1>2, <1>3

\* Where the jth item was before item i moved to the place behind p.
ShiftedFrom(i, p, j) ==
    IF j <= p THEN j ELSE IF j = p + 1 THEN i ELSE IF j <= i THEN j - 1 ELSE j
Shifts(w, t, i, p) ==
    Len(w) = Len(t) /\ \A j \in 1..Len(t) : w[j] = t[ShiftedFrom(i, p, j)]

\* An item of a sequence moves down it, as in each step of binarysort.
LEMMA ShiftKeeps ==
    ASSUME NEW C, NEW t \in Seq(C), NEW i \in 1..Len(t), NEW p \in 0..i - 1
    PROVE  /\ InsertAt(RemoveAt(t, i), p + 1, t[i]) \in Seq(C)
           /\ Rearranged(InsertAt(RemoveAt(t, i), p + 1, t[i]), t)
           /\ Shifts(InsertAt(RemoveAt(t, i), p + 1, t[i]), t, i, p)
<1> DEFINE n == Len(t)
           r == RemoveAt(t, i)
           w == InsertAt(r, p + 1, t[i])
           from(j) == ShiftedFrom(i, p, j)
           to(j) == IF j <= p THEN j ELSE IF j = i THEN p + 1
                    ELSE IF j < i THEN j + 1 ELSE j
<1>0. n \in Nat /\ i \in Nat /\ p \in Nat /\ p < i /\ i <= n /\ \A j \in 1..n : t[j] \in C
  OBVIOUS
<1>1. /\ r \in Seq(C) /\ Len(r) = n - 1
      /\ \A j \in 1..n - 1 : r[j] = IF j < i THEN t[j] ELSE t[j + 1]
  <2> DEFINE a == SubSeq(t, 1, i - 1)
             b == SubSeq(t, i + 1, n)
  <2>1. /\ a \in Seq(C) /\ Len(a) = i - 1 /\ \A j \in 1..i - 1 : a[j] = t[j]
    OBVIOUS
  <2>2. /\ b \in Seq(C) /\ Len(b) = n - i /\ \A j \in 1..n - i : b[j] = t[i + j]
    OBVIOUS
  <2>3. r = a \o b
    BY DEF RemoveAt
  <2> HIDE DEF a, b, r
  <2>4. /\ a \o b \in Seq(C) /\ Len(a \o b) = Len(a) + Len(b)
        /\ \A j \in 1 .. Len(a) + Len(b) :
              (a \o b)[j] = IF j <= Len(a) THEN a[j] ELSE b[j - Len(a)]
    BY <2>1, <2>2, ConcatProperties
  <2>5. Len(a) + Len(b) = n - 1
    BY <1>0, <2>1, <2>2
  <2>6. ASSUME NEW j \in 1..n - 1 PROVE r[j] = IF j < i THEN t[j] ELSE t[j + 1]
    <3>1. r[j] = IF j <= i - 1 THEN a[j] ELSE b[j - (i - 1)]
      BY <2>1, <2>3, <2>4, <2>5
    <3>2. CASE j < i
      BY <1>0, <2>1, <3>1, <3>2
    <3>3. CASE ~(j < i)
      <4>1. j - (i - 1) \in 1..n - i /\ i + (j - (i - 1)) = j + 1 /\ ~(j <= i - 1)
        BY <1>0, <3>3
      <4> QED
        BY <2>2, <3>1, <3>3, <4>1
    <3> QED
      BY <3>2, <3>3
  <2> QED
    BY <2>3, <2>4, <2>5, <2>6
<1> HIDE DEF r
<1>a. \A j : from(j) = IF j <= p THEN j ELSE IF j = p + 1 THEN i
                     ELSE IF j <= i THEN j - 1 ELSE j
  BY DEF ShiftedFrom
<1> HIDE DEF from
<1>2. /\ w \in Seq(C) /\ Len(w) = n /\ \A j \in 1..n : w[j] = t[from(j)]
  <2> DEFINE a == SubSeq(r, 1, p)
             b == SubSeq(r, p + 1, n - 1)
             one == <<t[i]>>
             h == a \o one
  <2>0. p <= n - 1 /\ n - 1 \in Nat
    BY <1>0
  <2>1. /\ a \in Seq(C) /\ Len(a) = p /\ \A j \in 1..p : a[j] = r[j]
    BY <1>0, <1>1, <2>0
  <2>2. /\ b \in Seq(C) /\ Len(b) = n - 1 - p /\ \A j \in 1..n - 1 - p : b[j] = r[p + j]
    BY <1>0, <1>1, <2>0
  <2>3. one \in Seq(C) /\ Len(one) = 1 /\ one[1] = t[i]
    BY <1>0
  <2>4. w = h \o b
    <3>1. w = SubSeq(r, 1, (p + 1) - 1) \o <<t[i]>> \o SubSeq(r, p + 1, Len(r))
      BY DEF InsertAt
    <3>2. (p + 1) - 1 = p
      BY <1>0
    <3> QED
      BY <1>1, <3>1, <3>2
  <2> HIDE DEF a, b, one, w
  <2>5. /\ h \in Seq(C) /\ Len(h) = p + 1
        /\ \A j \in 1..p + 1 : h[j] = IF j <= p THEN r[j] ELSE t[i]
    <3>1. /\ a \o one \in Seq(C) /\ Len(a \o one) = Len(a) + Len(one)
          /\ \A j \in 1 .. Len(a) + Len(one) :
                (a \o one)[j] = IF j <= Len(a) THEN a[j] ELSE one[j - Len(a)]
      BY <2>1, <2>3, ConcatProperties
    <3>2. ASSUME NEW j \in 1..p + 1 PROVE h[j] = IF j <= p THEN r[j] ELSE t[i]
      <4>1. h[j] = IF j <= p THEN a[j] ELSE one[j - p]
        BY <2>1, <2>3, <3>1
      <4>2. j > p => j - p = 1
        BY <1>0
      <4> QED
        BY <1>0, <2>1, <2>3, <4>1, <4>2
    <3> QED
      BY <2>1, <2>3, <3>1, <3>2
  <2> HIDE DEF h
  <2>6. /\ h \o b \in Seq(C) /\ Len(h \o b) = Len(h) + Len(b)
        /\ \A j \in 1 .. Len(h) + Len(b) :
              (h \o b)[j] = IF j <= Len(h) THEN h[j] ELSE b[j - Len(h)]
    BY <2>2, <2>5, ConcatProperties
  <2>7. Len(h) + Len(b) = n
    BY <1>0, <2>2, <2>5
  <2>8. ASSUME NEW j \in 1..n PROVE w[j] = t[from(j)]
    <3>1. w[j] = IF j <= p + 1 THEN h[j] ELSE b[j - (p + 1)]
      BY <2>4, <2>5, <2>6, <2>7
    <3>2. CASE j <= p
      <4>1. j \in 1..p + 1 /\ j \in 1..n - 1 /\ j < i /\ j <= p + 1
        BY <1>0, <3>2
      <4>2. w[j] = r[j] /\ r[j] = t[j]
        BY <1>1, <2>5, <3>1, <3>2, <4>1
      <4> QED
        BY <1>a, <3>2, <4>2
    <3>3. CASE j = p + 1
      <4>1. j \in 1..p + 1 /\ ~(j <= p)
        BY <1>0, <3>3
      <4>2. w[j] = t[i]
        BY <2>5, <3>1, <3>3, <4>1
      <4> QED
        BY <1>a, <3>3, <4>1, <4>2
    <3>4. CASE j > p + 1
      <4>1. /\ j - (p + 1) \in 1..n - 1 - p /\ p + (j - (p + 1)) = j - 1
            /\ j - 1 \in 1..n - 1 /\ ~(j <= p + 1) /\ ~(j <= p) /\ j # p + 1
            /\ j - 1 < i <=> j <= i
            /\ (j - 1) + 1 = j
        BY <1>0, <3>4
      <4>2. w[j] = r[j - 1]
        BY <2>2, <3>1, <4>1
      <4> QED
        BY <1>1, <1>a, <4>1, <4>2
    <3> QED
      BY <1>0, <3>2, <3>3, <3>4
  <2> QED
    BY <2>4, <2>6, <2>7, <2>8
<1> HIDE DEF w
<1> DEFINE D == 1..n
           q == [j \in D |-> from(j)]
<1>3. \A j \in D : from(j) \in D /\ to(j) \in D /\ from(to(j)) = j /\ to(from(j)) = j
  BY <1>0, <1>a
<1> HIDE DEF to
<1>4. q \in Bijection(D, D)
  <2>1. q \in [D -> D] /\ \A j \in D : q[j] = from(j)
    BY <1>3
  <2> HIDE DEF q, D
  <2>2. ASSUME NEW j \in D, NEW k \in D, q[j] = q[k] PROVE j = k
    BY <1>3, <2>1, <2>2
  <2>3. ASSUME NEW y \in D PROVE \E j \in D : q[j] = y
    BY <1>3, <2>1
  <2> QED
    BY <2>1, <2>2, <2>3, BijectionIs
<1>5. \A j \in D : w[j] = t[q[j]]
  BY <1>2
<1>6. Rearranged(w, t)
  BY <1>2, <1>4, <1>5 DEF Rearranged
<1> QED
  BY <1>2, <1>6 DEF w, r, from, Shifts

\* A sequence turned round has the same items.
LEMMA SwappedKeeps ==
    ASSUME NEW C, NEW t \in Seq(C)
    PROVE  /\ Swapped(t) \in Seq(C) /\ Rearranged(Swapped(t), t)
           /\ Len(Swapped(t)) = Len(t) /\ ToSet(Swapped(t)) = ToSet(t)
           /\ \A i \in 1..Len(t) : Swapped(t)[i] = t[(Len(t) - i) + 1]
<1> DEFINE n == Len(t)
           u == Swapped(t)
           D == 1..n
           p == [i \in D |-> (n - i) + 1]
<1>0. n \in Nat /\ \A i \in D : t[i] \in C
  OBVIOUS
<1>1. \A i \in D : (n - i) + 1 \in D /\ (n - ((n - i) + 1)) + 1 = i
  BY <1>0
<1>2. u = [i \in D |-> t[(n - i) + 1]]
  BY DEF Swapped, Reverse
<1>3. u \in Seq(C) /\ Len(u) = n /\ \A i \in D : u[i] = t[(n - i) + 1]
  <2>1. u \in [D -> C]
    BY <1>0, <1>1, <1>2
  <2> QED
    BY <1>0, <1>2, <2>1
<1> HIDE DEF u
<1>4. p \in [D -> D] /\ \A i \in D : p[i] = (n - i) + 1
  BY <1>1
<1> HIDE DEF p
<1>5. p \in Bijection(D, D)
  <2>1. ASSUME NEW i \in D, NEW j \in D, p[i] = p[j] PROVE i = j
    BY <1>1, <1>4, <2>1
  <2>2. ASSUME NEW y \in D PROVE \E i \in D : p[i] = y
    BY <1>1, <1>4
  <2> HIDE DEF D
  <2> QED
    BY <1>4, <2>1, <2>2, BijectionIs
<1>6. Rearranged(u, t)
  <2>1. \A i \in D : u[i] = t[p[i]]
    BY <1>3, <1>4
  <2> QED
    BY <1>3, <1>5, <2>1 DEF Rearranged
<1>7. ToSet(u) = ToSet(t)
  BY <1>3, <1>6, RearrangedMembers
<1> QED
  BY <1>3, <1>6, <1>7 DEF u

\* u stands in the place of the first k items of t.
Replaces(w, u, t, k) == \A i \in 1..Len(t) : w[i] = IF i <= k THEN u[i] ELSE t[i]

\* The first part of a sequence is rearranged.
LEMMA JoinKeeps ==
    ASSUME NEW C, NEW t \in Seq(C), NEW k \in 0..Len(t), NEW u \in Seq(C),
           Rearranged(u, SubSeq(t, 1, k))
    PROVE  /\ u \o SubSeq(t, k + 1, Len(t)) \in Seq(C)
           /\ Rearranged(u \o SubSeq(t, k + 1, Len(t)), t)
           /\ Replaces(u \o SubSeq(t, k + 1, Len(t)), u, t, k)
<1> DEFINE n == Len(t)
           v == SubSeq(t, k + 1, n)
           h == SubSeq(t, 1, k)
           w == u \o v
           D == 1..n
           H == 1..k
<1>0. n \in Nat /\ k \in Nat /\ k <= n
  OBVIOUS
<1>1. /\ v \in Seq(C) /\ Len(v) = n - k /\ \A i \in 1..n - k : v[i] = t[k + i]
      /\ h \in Seq(C) /\ Len(h) = k /\ \A i \in H : h[i] = t[i]
  BY <1>0
<1>2. Len(u) = k /\ Rearranged(u, h)
  BY <1>1 DEF Rearranged
<1> HIDE DEF v, h
<1>3. PICK p \in Bijection(H, H) : \A i \in H : u[i] = h[p[i]]
  BY <1>1, <1>2 DEF Rearranged
<1>4. /\ w \in Seq(C) /\ Len(w) = n
      /\ \A i \in D : w[i] = IF i <= k THEN u[i] ELSE v[i - k]
  <2>1. /\ u \o v \in Seq(C) /\ Len(u \o v) = Len(u) + Len(v)
        /\ \A i \in 1 .. Len(u) + Len(v) :
              (u \o v)[i] = IF i <= Len(u) THEN u[i] ELSE v[i - Len(u)]
    BY <1>1, ConcatProperties, ZenonT(40)
  <2>2. Len(u) + Len(v) = n
    BY <1>0, <1>1, <1>2
  <2> QED
    BY <1>2, <2>1, <2>2
<1> HIDE DEF w
<1> DEFINE q == [i \in D |-> IF i <= k THEN p[i] ELSE i]
<1>5. /\ p \in [H -> H] /\ \A i, j \in H : p[i] = p[j] => i = j
      /\ \A y \in H : \E i \in H : p[i] = y
  <2> HIDE DEF H
  <2> QED
    BY BijectionOf
<1>6. /\ q \in [D -> D] /\ \A i \in D : q[i] = IF i <= k THEN p[i] ELSE i
      /\ \A i \in D : i <= k => i \in H
      /\ \A i \in H : i \in D /\ i <= k
  <2>1. \A i \in D : i <= k => i \in H
    BY <1>0
  <2>2. \A i \in H : i \in D /\ i <= k
    BY <1>0
  <2> QED
    BY <1>5, <2>1, <2>2
<1> HIDE DEF q
<1>7. q \in Bijection(D, D)
  <2>1. ASSUME NEW i \in D, NEW j \in D, q[i] = q[j] PROVE i = j
    <3>1. CASE i <= k /\ j <= k
      BY <1>5, <1>6, <2>1, <3>1
    <3>2. CASE ~(i <= k) /\ ~(j <= k)
      BY <1>6, <2>1, <3>2
    <3>3. CASE i <= k /\ ~(j <= k)
      <4>1. p[i] \in H /\ p[i] = j
        BY <1>5, <1>6, <2>1, <3>3
      <4> QED
        BY <1>6, <3>3, <4>1
    <3>4. CASE ~(i <= k) /\ j <= k
      <4>1. p[j] \in H /\ p[j] = i
        BY <1>5, <1>6, <2>1, <3>4
      <4> QED
        BY <1>6, <3>4, <4>1
    <3> QED
      BY <3>1, <3>2, <3>3, <3>4
  <2>2. ASSUME NEW y \in D PROVE \E i \in D : q[i] = y
    <3>1. CASE y <= k
      <4>1. PICK i \in H : p[i] = y
        BY <1>5, <1>6, <3>1
      <4> QED
        BY <1>6, <4>1
    <3>2. CASE ~(y <= k)
      BY <1>6, <3>2
    <3> QED
      BY <3>1, <3>2
  <2> HIDE DEF D
  <2> QED
    BY <1>6, <2>1, <2>2, BijectionIs
<1>8. ASSUME NEW i \in D PROVE w[i] = t[q[i]]
  <2>1. CASE i <= k
    <3>1. w[i] = u[i] /\ q[i] = p[i] /\ i \in H /\ p[i] \in H
      BY <1>4, <1>5, <1>6, <2>1
    <3> QED
      BY <1>1, <1>3, <3>1
  <2>2. CASE ~(i <= k)
    <3>1. w[i] = v[i - k] /\ q[i] = i
      BY <1>4, <1>6, <2>2
    <3>2. i - k \in 1..n - k /\ k + (i - k) = i
      BY <1>0, <2>2
    <3> QED
      BY <1>1, <3>1, <3>2, ZenonT(40)
  <2> QED
    BY <2>1, <2>2
<1>9. Rearranged(w, t)
  BY <1>4, <1>7, <1>8 DEF Rearranged
<1>10. ASSUME NEW i \in D PROVE w[i] = IF i <= k THEN u[i] ELSE t[i]
  <2>1. ~(i <= k) => i - k \in 1..n - k /\ k + (i - k) = i
    BY <1>0
  <2> QED
    BY <1>1, <1>4, <2>1, ZenonT(40)
<1> QED
  BY <1>4, <1>9, <1>10 DEF w, v, Replaces

\* binarysort inserts the item at start among those before it.
InsertPlace(b, start) ==
    IF b.failed THEN -1
    ELSE Bisect([p \in 0..start - 2 |-> Not(Less(b.s[start], b.s[p + 1]))], 0, start - 1)
Inserted(b, start) ==
    IF InsertPlace(b, start) = -1 THEN [b EXCEPT !.failed = TRUE]
    ELSE [b EXCEPT !.s = InsertAt(RemoveAt(b.s, start),
                                  InsertPlace(b, start) + 1, b.s[start])]

\* f is what binarysort has done up to each item.
Inserts(s, from, C, f) ==
    /\ \A i \in from..Len(s) :
            /\ f[i] \in [s : Seq(C), failed : BOOLEAN]
            /\ Rearranged(f[i].s, s) /\ Len(f[i].s) = Len(s)
            /\ i # from => f[i] = Inserted(f[i - 1], i)
    /\ f[from] = [s |-> s, failed |-> FALSE]
    /\ BinarySort(s, from) = f[Len(s)]

\* A place to insert an item at is before it.
LEMMA InsertPlaceIs ==
    ASSUME NEW b, NEW start \in Nat, start >= 1
    PROVE  InsertPlace(b, start) \in {-1} \cup 0 .. start - 1
<1> DEFINE right == [p \in 0..start - 2 |-> Not(Less(b.s[start], b.s[p + 1]))]
<1>1. \A p \in 0 .. (start - 1) - 1 : right[p] \in {-1, 0, 1}
  BY LessIs
<1>2. InsertPlace(b, start) = IF b.failed THEN -1 ELSE Bisect(right, 0, start - 1)
  BY DEF InsertPlace
<1> HIDE DEF right
<1>3. 0 \in Int /\ start - 1 \in Int /\ 0 <= start - 1
  OBVIOUS
<1>4. Bisect(right, 0, start - 1) \in {-1} \cup 0 .. start - 1
  BY <1>1, <1>3, BisectInRange
<1> QED
  BY <1>2, <1>4

\* binarysort loses no item, also where a comparison fails.
LEMMA BinarySortIs ==
    ASSUME NEW C, NEW s \in Seq(C), NEW from \in 1..Len(s)
    PROVE  \E f : Inserts(s, from, C, f)
<1> DEFINE D == from..Len(s)
           z == [s |-> s, failed |-> FALSE]
           S == {b \in [s : Seq(C), failed : BOOLEAN] :
                    Rearranged(b.s, s)}
           Place(b, start) == InsertPlace(b, start)
           Insert(b, start) == Inserted(b, start)
           Step(start, f) == IF start = from THEN z ELSE Insert(f[start - 1], start)
           B == CHOOSE f : f = [start \in D |-> Step(start, f)]
           step == [w \in S \X (from + 1 .. Len(s)) |-> Insert(w[1], w[2])]
<1>0. from \in Int /\ Len(s) \in Int /\ from <= Len(s) /\ from >= 1
  OBVIOUS
<1>1. BinarySort(s, from) = B[Len(s)]
  BY DEF BinarySort, Inserted, InsertPlace
<1>2. z \in S
  BY RearrangedSame
<1>3. ASSUME NEW b \in S, NEW start \in from + 1 .. Len(s)
      PROVE  Insert(b, start) \in S
  <2>1. b \in [s : Seq(C), failed : BOOLEAN] /\ Rearranged(b.s, s)
        /\ Len(b.s) = Len(s)
    BY DEF Rearranged
  <2>2. /\ start \in Int /\ 0 <= start - 1 /\ start - 1 \in Int /\ 0 \in Int
        /\ start \in 1..Len(b.s) /\ b.s \in Seq(C)
        /\ 0 .. (start - 1) - 1 = 0 .. start - 2
    BY <1>0, <2>1
  <2>3. Place(b, start) \in {-1} \cup 0 .. start - 1
    BY <2>2, InsertPlaceIs
  <2> HIDE DEF Place
  <2>4. CASE Place(b, start) = -1
    <3>1. Insert(b, start) = [b EXCEPT !.failed = TRUE]
      BY <2>4 DEF Inserted, Place
    <3>2. [b EXCEPT !.failed = TRUE] \in S
      BY <2>1
    <3> QED
      BY <3>1, <3>2
  <2>5. CASE Place(b, start) # -1
    <3> DEFINE t == b.s
               p == Place(b, start)
               u == InsertAt(RemoveAt(t, start), p + 1, t[start])
    <3>1. p \in 0..start - 1
      BY <2>3, <2>5
    <3>2. Insert(b, start) = [b EXCEPT !.s = u]
      BY <2>5 DEF Inserted, Place
    <3>3. t \in Seq(C) /\ start \in 1..Len(t) /\ Rearranged(t, s)
      BY <2>1, <2>2
    <3> HIDE DEF p, t
    <3>a. u \in Seq(C) /\ Rearranged(u, t)
      BY <3>1, <3>3, ShiftKeeps
    <3>4. u \in Seq(C) /\ Rearranged(u, s)
      <4> HIDE DEF u
      <4> QED
        BY <3>3, <3>a, RearrangedAgain
    <3> HIDE DEF u, Insert
    <3>5. [b EXCEPT !.s = u] \in S
      BY <2>1, <3>4
    <3> QED
      BY <3>2, <3>5
  <2> QED
    BY <2>4, <2>5
<1> HIDE DEF Insert, S, z
<1>4. step \in [S \X (from + 1 .. Len(s)) -> S]
  <2>1. ASSUME NEW w \in S \X (from + 1 .. Len(s)) PROVE Insert(w[1], w[2]) \in S
    <3>1. w[1] \in S /\ w[2] \in from + 1 .. Len(s)
      OBVIOUS
    <3> QED
      BY <1>3, <3>1
  <2> QED
    BY <2>1
<1>5. ASSUME NEW f \in [D -> S], NEW start \in D, start # from
      PROVE  step[<<f[start - 1], start>>] = Insert(f[start - 1], start)
  <2>1. start - 1 \in D /\ start \in from + 1 .. Len(s)
    BY <1>0, <1>5
  <2>2. f[start - 1] \in S
    BY <2>1
  <2>3. <<f[start - 1], start>> \in S \X (from + 1 .. Len(s))
    BY <2>1, <2>2
  <2> QED
    BY <2>3
<1>6. PICK f \in [D -> S] :
         f = [i \in D |-> IF i = from THEN z ELSE step[<<f[i - 1], i>>]]
  <2> HIDE DEF step, D
  <2>1. Steps(from, Len(s), S, z, step)
    BY <1>0, <1>2, <1>4 DEF Steps
  <2> QED
    BY <2>1, StepRecursion DEF D
<1>7. f = [i \in D |-> Step(i, f)]
  <2> HIDE DEF D, step
  <2>1. \A i \in D : f[i] = Step(i, f)
    BY <1>5, <1>6
  <2>2. f = [i \in D |-> f[i]]
    BY <1>6
  <2> HIDE DEF Step
  <2> QED
    BY <2>1, <2>2
<1>8. B = [i \in D |-> Step(i, B)]
  <2> HIDE DEF Step
  <2> QED
    BY <1>7
<1> HIDE DEF B
<1>9. \A i \in D : B[i] \in S
  <2> DEFINE T == {i - from : i \in {j \in D : B[j] \notin S}}
  <2>1. \A n : n \in T <=> \E i \in D : i - from = n /\ B[i] \notin S
    OBVIOUS
  <2> HIDE DEF T
  <2>2. ASSUME T # {} PROVE FALSE
    <3>1. T \in SUBSET Nat
      <4>1. ASSUME NEW n \in T PROVE n \in Nat
        <5>1. PICK i \in D : i - from = n
          BY <2>1
        <5> QED
          BY <1>0, <5>1
      <4> QED
        BY <4>1
    <3>2. PICK n \in T : \A y \in T : n <= y
      BY <2>2, <3>1, LeastNat
    <3>3. PICK i \in D : i - from = n /\ B[i] \notin S
      BY <2>1, <3>2
    <3>4. B[i] = Step(i, B)
      BY <1>8, <3>3
    <3>5. i # from
      BY <1>2, <3>3, <3>4
    <3>6. i - 1 \in D /\ i \in from + 1 .. Len(s)
      BY <1>0, <3>3, <3>5
    <3>7. B[i] = Insert(B[i - 1], i)
      BY <3>4, <3>5
    <3>8. B[i - 1] \notin S
      BY <1>3, <3>3, <3>6, <3>7
    <3>9. (i - 1) - from \in T
      BY <2>1, <3>6, <3>8
    <3> QED
      BY <1>0, <3>2, <3>3, <3>6, <3>9
  <2> QED
    BY <2>1, <2>2
<1>10. ASSUME NEW i \in D
       PROVE  /\ B[i] \in [s : Seq(C), failed : BOOLEAN]
              /\ Rearranged(B[i].s, s) /\ Len(B[i].s) = Len(s)
              /\ i # from => B[i] = Inserted(B[i - 1], i)
  <2>1. B[i] \in S
    BY <1>9
  <2>2. B[i] = Step(i, B)
    BY <1>8
  <2> QED
    BY <2>1, <2>2 DEF S, Insert, Rearranged
<1>11. B[from] = z
  BY <1>0, <1>8
<1> HIDE DEF Step, step
<1> QED
  BY <1>1, <1>10, <1>11 DEF Inserts, z

\* Its result is a record with the items.
LEMMA BinarySortKeeps ==
    ASSUME NEW C, NEW s \in Seq(C), NEW from \in 1..Len(s)
    PROVE  /\ BinarySort(s, from).failed \in BOOLEAN
           /\ BinarySort(s, from).s \in Seq(C)
           /\ Rearranged(BinarySort(s, from).s, s)
<1>1. PICK f : Inserts(s, from, C, f)
  BY BinarySortIs
<1>2. Len(s) \in from..Len(s)
  OBVIOUS
<1>3. f[Len(s)] \in [s : Seq(C), failed : BOOLEAN] /\ Rearranged(f[Len(s)].s, s)
  BY <1>1, <1>2 DEF Inserts
<1>4. BinarySort(s, from) = f[Len(s)]
  BY <1>1 DEF Inserts
<1> QED
  BY <1>3, <1>4

\* Finding a run loses no item, and finds one inside the rest of the list.
LEMMA NextRunKeeps ==
    ASSUME NEW C, NEW s \in Seq(C), Len(s) >= 1, NEW minrun \in Nat
    PROVE  /\ NextRun(s, minrun).failed \in BOOLEAN
           /\ NextRun(s, minrun).s \in Seq(C)
           /\ Len(NextRun(s, minrun).s) = Len(s)
           /\ ToSet(NextRun(s, minrun).s) = ToSet(s)
           /\ Rearranged(NextRun(s, minrun).s, s)
           /\ ~NextRun(s, minrun).failed => NextRun(s, minrun).n \in 1..Len(s)
<1> DEFINE run == CountRun(s)
           t   == IF run.descending
                  THEN Swapped(SubSeq(s, 1, run.n)) \o SubSeq(s, run.n + 1, Len(s))
                  ELSE s
           force  == IF Len(s) <= minrun THEN Len(s) ELSE minrun
           head == SubSeq(t, 1, force)
           sorted == BinarySort(head, run.n)
           tail == SubSeq(t, force + 1, Len(s))
           r == NextRun(s, minrun)
<1>0. Len(s) \in Nat
  OBVIOUS
<1>1. run.n \in {-1} \cup 1..Len(s)
  BY <1>0, CountRunTells
<1>2. r = IF run.n = -1 THEN [n |-> 0, s |-> s, failed |-> TRUE]
          ELSE IF run.n >= minrun THEN [n |-> run.n, s |-> t, failed |-> FALSE]
          ELSE [n |-> force, failed |-> sorted.failed, s |-> sorted.s \o tail]
  BY DEF NextRun
<1> HIDE DEF r
<1>3. CASE run.n = -1
  <2>1. r = [n |-> 0, s |-> s, failed |-> TRUE]
    BY <1>2, <1>3
  <2> QED
    BY <2>1, RearrangedSame DEF r
<1>4. CASE run.n # -1
  <2>1. run.n \in 1..Len(s) /\ run.n \in 0..Len(s)
    BY <1>0, <1>1, <1>4
  <2>2. t \in Seq(C) /\ Rearranged(t, s) /\ Len(t) = Len(s) /\ ToSet(t) = ToSet(s)
    <3>1. CASE run.descending
      <4> DEFINE n == run.n
                 h == SubSeq(s, 1, n)
                 u == Swapped(h)
      <4> HIDE DEF n
      <4>1. n \in 0..Len(s)
        BY <2>1 DEF n
      <4>2. h \in Seq(C) /\ Len(h) = n
        BY <4>1, SplitKeeps
      <4>3. u \in Seq(C) /\ Rearranged(u, h)
        <5> HIDE DEF h
        <5> QED
          BY <4>2, SwappedKeeps
      <4> HIDE DEF u
      <4>4. /\ u \o SubSeq(s, n + 1, Len(s)) \in Seq(C)
            /\ Rearranged(u \o SubSeq(s, n + 1, Len(s)), s)
        BY <4>1, <4>3, JoinKeeps
      <4>5. t = u \o SubSeq(s, n + 1, Len(s))
        BY <3>1 DEF u, n
      <4> HIDE DEF t
      <4>6. t \in Seq(C) /\ Rearranged(t, s)
        BY <4>4, <4>5
      <4> QED
        BY <4>6, RearrangedMembers DEF Rearranged
    <3>2. CASE ~run.descending
      BY <3>2, RearrangedSame
    <3> QED
      BY <3>1, <3>2
  <2> HIDE DEF t
  <2>3. CASE run.n >= minrun
    <3>1. r = [n |-> run.n, s |-> t, failed |-> FALSE]
      BY <1>2, <1>4, <2>3
    <3> HIDE DEF run
    <3>2. r.n = run.n /\ r.s = t /\ r.failed = FALSE
      BY <3>1
    <3> QED
      BY <2>1, <2>2, <3>2 DEF r
  <2>4. CASE ~(run.n >= minrun)
    <3>1. /\ force \in 0..Len(t) /\ force >= 1 /\ run.n \in 1..force
          /\ force \in 1..Len(s)
      <4> DEFINE n == run.n
      <4>1. n \in 1..Len(s) /\ ~(n >= minrun)
        BY <2>1, <2>4
      <4> HIDE DEF n
      <4>2. /\ force \in 0..Len(s) /\ force >= 1 /\ n \in 1..force
            /\ force \in 1..Len(s)
        BY <1>0, <4>1
      <4> HIDE DEF force
      <4> QED
        BY <2>2, <4>2 DEF n
    <3> HIDE DEF force
    <3>2. head \in Seq(C) /\ Len(head) = force
      BY <2>2, <3>1, SplitKeeps
    <3>3. /\ sorted.failed \in BOOLEAN /\ sorted.s \in Seq(C)
          /\ Rearranged(sorted.s, head)
      <4> DEFINE n == run.n
      <4>1. n \in 1..Len(head)
        BY <3>1, <3>2
      <4> HIDE DEF n, head
      <4>2. /\ BinarySort(head, n).failed \in BOOLEAN
            /\ BinarySort(head, n).s \in Seq(C)
            /\ Rearranged(BinarySort(head, n).s, head)
        BY <3>2, <4>1, BinarySortKeeps
      <4> QED
        BY <3>2, <4>2 DEF n
    <3> DEFINE u == sorted.s
    <3>a. u \in Seq(C) /\ Rearranged(u, SubSeq(t, 1, force))
      BY <3>3
    <3>b. r = [n |-> force, failed |-> sorted.failed, s |-> u \o tail]
      BY <1>2, <1>4, <2>4
    <3> HIDE DEF u, sorted
    <3>4. /\ u \o SubSeq(t, force + 1, Len(t)) \in Seq(C)
          /\ Rearranged(u \o SubSeq(t, force + 1, Len(t)), t)
      <4>1. t \in Seq(C) /\ force \in 0..Len(t)
        BY <2>2, <3>1
      <4> QED
        BY ONLY <4>1, <3>a, JoinKeeps
    <3>5. u \o tail \in Seq(C) /\ Rearranged(u \o tail, t)
      BY <2>2, <3>4
    <3> DEFINE w == u \o tail
    <3> HIDE DEF w
    <3>6. r.n = force /\ r.failed = sorted.failed /\ r.s = w
      BY <3>b DEF w
    <3>7. w \in Seq(C) /\ Rearranged(w, s) /\ Len(w) = Len(s) /\ ToSet(w) = ToSet(s)
      <4>1. w \in Seq(C) /\ Rearranged(w, t)
        BY <3>5 DEF w
      <4>2. Rearranged(w, s)
        BY <2>2, <4>1, RearrangedAgain
      <4> QED
        BY <4>1, <4>2, RearrangedMembers DEF Rearranged
    <3> QED
      BY <3>1, <3>3, <3>6, <3>7 DEF r
  <2> QED
    BY <2>3, <2>4
<1> QED
  BY <1>3, <1>4

\* The places before c go on, those from c on do not.
Cuts(right, first, last, c) ==
    /\ c \in first .. last
    /\ \A p \in first .. last - 1 : right[p] = IF p < c THEN 1 ELSE 0

\* A binary search finds the place where the comparisons change.
LEMMA BisectPlaces ==
    ASSUME NEW right, NEW first \in Int, NEW last \in Int, first <= last,
           NEW c, Cuts(right, first, last, c)
    PROVE  Bisect(right, first, last) = c
<1> DEFINE D == (first..last) \X (first..last)
           Bad(w) == w[1] <= c /\ c <= w[2] /\ ~(w[1] >= w[2] /\ w[1] = c)
<1>0. c \in first..last /\ \A p \in first .. last - 1 : right[p] = IF p < c THEN 1 ELSE 0
  BY DEF Cuts
<1>1. PICK f : Searches(right, first, last, f)
  <2>1. \A p \in first .. last - 1 : right[p] \in {-1, 0, 1}
    BY <1>0
  <2> QED
    BY <2>1, BisectIs
<1>2. /\ \A w \in D : f[w] = Halved(right, w, f)
      /\ Bisect(right, first, last) = f[<<first, last>>]
  BY <1>1 DEF Searches
<1> DEFINE T == {w[2] - w[1] : w \in {v \in D : v[1] <= c /\ c <= v[2] /\ f[v] # c}}
<1>3. \A k : k \in T <=> \E w \in D : k = w[2] - w[1] /\ w[1] <= c /\ c <= w[2] /\ f[w] # c
  OBVIOUS
<1>4. T \in SUBSET Nat
  <2> SUFFICES ASSUME NEW k \in T PROVE k \in Nat
    OBVIOUS
  <2>1. PICK w \in D : k = w[2] - w[1] /\ w[1] <= c /\ c <= w[2]
    BY <1>3
  <2>2. w[1] \in Int /\ w[2] \in Int /\ c \in Int
    BY <1>0
  <2> QED
    BY <2>1, <2>2
<1> HIDE DEF T
<1>5. ASSUME T # {} PROVE FALSE
  <2>1. PICK k \in T : \A y \in T : k <= y
    BY <1>4, <1>5, LeastNat
  <2>2. PICK w \in D : k = w[2] - w[1] /\ w[1] <= c /\ c <= w[2] /\ f[w] # c
    BY <1>3
  <2> DEFINE u == w[1]
             v == w[2]
             p == u + (v - u) \div 2
  <2>3. u \in first..last /\ v \in first..last /\ w = <<u, v>> /\ u <= c /\ c <= v
    BY <2>2
  <2>4. f[w] = IF u >= v THEN u
               ELSE IF right[p] = -1 THEN -1
               ELSE f[IF right[p] = 1 THEN <<p + 1, v>> ELSE <<u, p>>]
    BY <1>2, <2>2 DEF Halved
  <2>a. k = v - u /\ f[w] # c
    BY <2>2
  <2> HIDE DEF u, v
  <2>5. u < v
    BY <1>0, <2>3, <2>4, <2>a
  <2>6. p \in u .. v - 1 /\ p \in first .. last - 1 /\ p \in Int
    BY <2>3, <2>5
  <2> HIDE DEF p
  <2>7. right[p] = IF p < c THEN 1 ELSE 0
    BY <1>0, <2>6
  <2>8. CASE p < c
    <3>1. f[w] = f[<<p + 1, v>>]
      BY <2>3, <2>4, <2>5, <2>7, <2>8
    <3>2. p + 1 \in first..last /\ p + 1 <= c /\ v - (p + 1) < v - u
      BY <1>0, <2>3, <2>6, <2>8
    <3>3. <<p + 1, v>> \in D /\ <<p + 1, v>>[1] = p + 1 /\ <<p + 1, v>>[2] = v
      BY <2>3, <3>2
    <3>4. v - (p + 1) \in T
      BY <1>3, <2>3, <2>a, <3>1, <3>2, <3>3
    <3> QED
      BY <2>1, <2>3, <2>6, <2>a, <3>2, <3>4
  <2>9. CASE ~(p < c)
    <3>1. f[w] = f[<<u, p>>]
      BY <2>3, <2>4, <2>5, <2>7, <2>9
    <3>2. p \in first..last /\ c <= p /\ p - u < v - u
      BY <1>0, <2>3, <2>6, <2>9
    <3>3. <<u, p>> \in D /\ <<u, p>>[1] = u /\ <<u, p>>[2] = p
      BY <2>3, <3>2
    <3>4. p - u \in T
      BY <1>3, <2>3, <2>a, <3>1, <3>2, <3>3
    <3> QED
      BY <2>1, <2>3, <2>6, <2>a, <3>2, <3>4
  <2> QED
    BY <2>8, <2>9
<1>6. <<first, last>> \in D /\ <<first, last>>[1] = first /\ <<first, last>>[2] = last
  OBVIOUS
<1>7. first <= c /\ c <= last
  BY <1>0
<1> QED
  BY <1>2, <1>3, <1>5, <1>6, <1>7

\* A binary search of some places that does not fail has compared with one.
LEMMA BisectProbes ==
    ASSUME NEW right, NEW first \in Int, NEW last \in Int, first < last,
           \A p \in first .. last - 1 : right[p] \in {-1, 0, 1},
           Bisect(right, first, last) # -1
    PROVE  \E p \in first .. last - 1 : right[p] # -1
<1>1. PICK f : Searches(right, first, last, f)
  BY BisectIs
<1> DEFINE p == first + (last - first) \div 2
<1>2. f[<<first, last>>] = Halved(right, <<first, last>>, f)
  BY <1>1 DEF Searches
<1>3. Bisect(right, first, last) = f[<<first, last>>]
  BY <1>1 DEF Searches
<1>4. p \in first .. last - 1
  OBVIOUS
<1>5. Halved(right, <<first, last>>, f) =
        IF first >= last THEN first
        ELSE IF right[p] = -1 THEN -1
        ELSE f[IF right[p] = 1 THEN <<p + 1, last>> ELSE <<first, p>>]
  BY DEF Halved
<1> HIDE DEF p
<1>6. right[p] # -1
  BY <1>2, <1>3, <1>5
<1> QED
  BY <1>4, <1>6

\* Where the places that go on come first, there is one where that changes.
LEMMA CutExists ==
    ASSUME NEW right, NEW n \in Nat, \A p \in 0 .. n - 1 : right[p] \in {0, 1},
           \A p, q \in 0 .. n - 1 : (p < q /\ right[q] = 1) => right[p] = 1
    PROVE  \E c : Cuts(right, 0, n, c)
<1> DEFINE T == {p \in 0..n : p = n \/ right[p] = 0}
<1>1. T \in SUBSET Nat /\ n \in T
  OBVIOUS
<1>2. PICK c \in T : \A y \in T : c <= y
  BY <1>1, LeastNat
<1>3. c \in 0..n
  BY <1>2
<1>4. ASSUME NEW p \in 0 .. n - 1 PROVE right[p] = IF p < c THEN 1 ELSE 0
  <2>1. CASE p < c
    <3>1. p \notin T
      BY <1>2, <1>3, <2>1
    <3> QED
      BY <2>1, <3>1
  <2>2. CASE p = c
    BY <1>2, <2>2
  <2>3. CASE p > c
    <3>1. c \in 0..n - 1 /\ right[c] = 0
      BY <1>2, <1>3, <2>3
    <3>2. right[p] # 1
      BY <2>3, <3>1
    <3> QED
      BY <1>3, <2>3, <3>2
  <2> QED
    BY <1>3, <2>1, <2>2, <2>3
<1> QED
  BY <1>3, <1>4 DEF Cuts

\* A gallop finds the place where the comparisons change.
LEMMA GallopPlaces ==
    ASSUME NEW right, NEW n \in Nat, NEW hint \in 0 .. n - 1,
           NEW c, Cuts(right, 0, n, c)
    PROVE  Gallop(right, n, hint) = c
<1> DEFINE far == Farthest(right, n, hint)
           D == 1..2 * far - 1
           Goes(x) == Onward(right, hint, x)
\* How many of the leaps go on: those that do not reach c.
           e == IF right[hint] = 1 THEN c - hint - 1 ELSE hint - c
           Nears(x) == x \div 2 < far /\ x \div 2 <= e
           Ends(y) == y \in D /\ Nears(y) /\ (y >= far \/ y > e)
<1>0. c \in 0..n /\ \A p \in 0 .. n - 1 : right[p] = IF p < c THEN 1 ELSE 0
  BY DEF Cuts
<1>1. PICK f : Leaps(right, n, hint, f)
  BY GallopIs
<1>2. /\ \A x \in D : f[x] = Leapt(right, n, hint, x, f)
      /\ Gallop(right, n, hint) = IF right[hint] = -1 \/ f[1] = -1 THEN -1
                                  ELSE Landed(right, n, hint, f[1])
  BY <1>1 DEF Leaps
<1>3. /\ far \in Nat /\ far >= 1 /\ e \in Nat
      /\ right[hint] \in {0, 1} /\ (right[hint] = 1 <=> hint < c)
      /\ far = IF right[hint] = 1 THEN n - hint ELSE hint + 1
  BY <1>0 DEF Farthest
<1>4. ASSUME NEW x \in D, x < far
      PROVE  Goes(x) = IF x <= e THEN 1 ELSE 0
  <2>1. CASE right[hint] = 1
    <3>1. hint + x \in 0 .. n - 1 /\ Goes(x) = right[hint + x]
      BY <1>3, <1>4, <2>1 DEF Onward
    <3>2. right[hint + x] = IF hint + x < c THEN 1 ELSE 0
      BY <1>0, <3>1
    <3>3. e = c - hint - 1
      BY <2>1
    <3> HIDE DEF Goes, e
    <3> QED
      BY <1>0, <3>1, <3>2, <3>3
  <2>2. CASE right[hint] # 1
    <3>1. hint - x \in 0 .. n - 1 /\ Goes(x) = Not(right[hint - x])
      BY <1>3, <1>4, <2>2 DEF Onward
    <3>2. right[hint - x] = IF hint - x < c THEN 1 ELSE 0
      BY <1>0, <3>1
    <3>3. Goes(x) = IF hint - x < c THEN 0 ELSE 1
      BY <3>1, <3>2 DEF Not
    <3>4. e = hint - c
      BY <2>2
    <3> HIDE DEF Goes, e
    <3> QED
      BY <1>0, <3>3, <3>4
  <2> QED
    BY <2>1, <2>2
<1>5. ASSUME NEW x \in D PROVE
        f[x] = IF x >= far THEN x
               ELSE IF Goes(x) = -1 THEN -1
               ELSE IF Goes(x) = 1 THEN f[2 * x + 1] ELSE x
  BY <1>2 DEF Leapt
<1> HIDE DEF Goes, e, far
<1>6. \A x \in D : Nears(x) => Ends(f[x])
  <2> DEFINE T == {2 * far - x : x \in {y \in D : Nears(y) /\ ~Ends(f[y])}}
  <2>1. \A k : k \in T <=> \E x \in D : k = 2 * far - x /\ Nears(x) /\ ~Ends(f[x])
    OBVIOUS
  <2>2. T \in SUBSET Nat
    BY <1>3
  <2> HIDE DEF T
  <2>3. ASSUME T # {} PROVE FALSE
    <3>1. PICK k \in T : \A y \in T : k <= y
      BY <2>2, <2>3, LeastNat
    <3>2. PICK x \in D : k = 2 * far - x /\ Nears(x) /\ ~Ends(f[x])
      BY <2>1
    <3>3. x < far /\ x <= e /\ Goes(x) = 1
      <4>1. CASE x >= far
        <5>1. f[x] = x
          BY <1>5, <4>1
        <5> QED
          BY <3>2, <4>1, <5>1
      <4>2. CASE x < far /\ x > e
        <5>1. Goes(x) = 0
          BY <1>3, <1>4, <4>2
        <5>2. f[x] = x
          BY <1>3, <1>5, <4>2, <5>1
        <5> QED
          BY <3>2, <4>2, <5>2
      <4>3. CASE x < far /\ x <= e
        BY <1>4, <4>3
      <4> QED
        BY <1>3, <4>1, <4>2, <4>3
    <3>4. f[x] = f[2 * x + 1]
      BY <1>3, <1>5, <3>3
    <3>5. 2 * x + 1 \in D /\ (2 * x + 1) \div 2 = x /\ 2 * far - (2 * x + 1) < 2 * far - x
      BY <1>3, <3>3
    <3>6. Nears(2 * x + 1)
      BY <3>3, <3>5
    <3>7. 2 * far - (2 * x + 1) \in T
      BY <2>1, <3>2, <3>4, <3>5, <3>6
    <3> QED
      BY <1>3, <3>1, <3>2, <3>5, <3>7
  <2> QED
    BY <2>1, <2>3
<1>7. 1 \in D /\ Nears(1)
  BY <1>3
<1> DEFINE y == f[1]
<1>8. Ends(y)
  BY <1>6, <1>7
<1>9. Gallop(right, n, hint) = Landed(right, n, hint, y)
  BY <1>2, <1>3, <1>8
<1> HIDE DEF y
<1>10. PICK first \in 0..n, last \in 0..n :
          /\ first <= last /\ Landed(right, n, hint, y) = Bisect(right, first, last)
          /\ right[hint] = 1 =>
               /\ first = hint + y \div 2 + 1
               /\ last = IF y > n - hint THEN n ELSE hint + y
          /\ right[hint] # 1 =>
               /\ last = hint - y \div 2
               /\ first = IF y > hint + 1 THEN 0 ELSE hint - y + 1
  <2>1. y \in 1..2 * Farthest(right, n, hint) - 1
    BY <1>8 DEF far
  <2> QED
    BY <2>1, LandedIs
<1>11. first <= c /\ c <= last
  <2>1. y \in Nat /\ y \div 2 <= e /\ (y >= far \/ y > e) /\ y \div 2 < far
    BY <1>3, <1>8
  <2>2. CASE right[hint] = 1
    <3>1. e = c - hint - 1
      BY <2>2 DEF e
    <3> QED
      BY <1>0, <1>3, <1>10, <2>1, <2>2, <3>1
  <2>3. CASE right[hint] # 1
    <3>1. e = hint - c
      BY <2>3 DEF e
    <3> QED
      BY <1>0, <1>3, <1>10, <2>1, <2>3, <3>1
  <2> QED
    BY <2>2, <2>3
<1>12. Cuts(right, first, last, c)
  BY <1>0, <1>11 DEF Cuts
<1>13. Bisect(right, first, last) = c
  BY <1>10, <1>12, BisectPlaces
<1> QED
  BY <1>9, <1>10, <1>13

\* A gallop that does not fail has compared with the item at its hint.
LEMMA GallopProbes ==
    ASSUME NEW right, NEW n \in Nat, NEW hint \in 0 .. n - 1,
           Gallop(right, n, hint) # -1
    PROVE  right[hint] # -1
BY GallopIs DEF Leaps

-----------------------------------------------------------------------------
\* Keys that the comparison of two items orders, and those it fails on; NaN
\* is neither.
Comparable(x) == x.key \in Int /\ x.key \notin {Unorderable, NaN}
Plain(x) == Comparable(x) \/ x.key = Unorderable

\* What a comparison of plain keys tells.
LEMMA LessTells ==
    ASSUME NEW x, NEW y, Plain(x), Plain(y)
    PROVE  /\ Less(x, y) # -1 <=> Comparable(x) /\ Comparable(y)
           /\ Less(x, y) = 1 <=> Comparable(x) /\ Comparable(y) /\ x.key < y.key
           /\ Less(x, y) = 0 <=> Comparable(x) /\ Comparable(y) /\ y.key <= x.key
           /\ Not(Less(x, y)) # -1 <=> Less(x, y) # -1
           /\ Not(Less(x, y)) = 1 <=> Less(x, y) = 0
           /\ Not(Less(x, y)) = 0 <=> Less(x, y) = 1
BY DEF Less, Not, Plain, Comparable

\* x belongs before y: its key is less, or they are equal and x was first.
Before(first, x, y) ==
    /\ Comparable(x) /\ Comparable(y)
    /\ x.key < y.key \/ (x.key = y.key /\ first[x] < first[y])

\* Items i..j of t are sorted.
InOrder(first, t, i, j) == \A p, q \in i..j : p < q => Before(first, t[p], t[q])

\* Before is transitive.
LEMMA BeforeAgain ==
    ASSUME NEW C, NEW first \in [C -> Int], NEW x \in C, NEW y \in C, NEW z \in C,
           Before(first, x, y), Before(first, y, z)
    PROVE  Before(first, x, z)
BY DEF Before, Comparable

\* It is enough that each item belongs before the next.
LEMMA NextInOrder ==
    ASSUME NEW C, NEW first \in [C -> Int], NEW t, NEW i \in Int, NEW j \in Int,
           \A p \in i..j : t[p] \in C,
           \A p \in i..j - 1 : Before(first, t[p], t[p + 1])
    PROVE  InOrder(first, t, i, j)
<1> DEFINE Wrong(p, q) == p < q /\ ~Before(first, t[p], t[q])
           T == {k \in Nat : \E p, q \in i..j : k = q - p /\ Wrong(p, q)}
<1>1. \A p, q \in i..j : Wrong(p, q) => q - p \in T
  OBVIOUS
<1>2. T \in SUBSET Nat /\ \A k \in T : \E p, q \in i..j : k = q - p /\ Wrong(p, q)
  OBVIOUS
<1> HIDE DEF T
<1>3. ASSUME T # {} PROVE FALSE
  <2>1. PICK k \in T : \A y \in T : k <= y
    BY <1>2, <1>3, LeastNat
  <2>2. PICK p, q \in i..j : k = q - p /\ Wrong(p, q)
    BY <1>2
  <2>3. CASE q = p + 1
    <3>1. p \in i..j - 1
      BY <2>3
    <3> QED
      BY <2>2, <2>3, <3>1
  <2>4. CASE q # p + 1
    <3>1. /\ q - 1 \in i..j /\ q - 1 \in i..j - 1 /\ p < q - 1 /\ (q - 1) - p < q - p
          /\ (q - 1) + 1 = q
      BY <2>2, <2>4
    <3>2. Before(first, t[p], t[q - 1])
      <4>1. (q - 1) - p \notin T
        BY <1>2, <2>1, <2>2, <3>1
      <4> QED
        BY <1>1, <3>1, <4>1
    <3>3. Before(first, t[q - 1], t[q])
      BY <3>1
    <3>4. Before(first, t[p], t[q])
      BY <3>1, <3>2, <3>3, BeforeAgain
    <3> QED
      BY <2>2, <3>4
  <2> QED
    BY <2>3, <2>4
<1> QED
  BY <1>1, <1>3 DEF InOrder

\* The items of t that are not yet sorted are in the order that they came in,
\* behind those that are.
Upcoming(first, t, i, n) ==
    \A p \in 1..n, q \in i + 1..n : p < q => first[t[p]] < first[t[q]]

\* An insertion puts an item in its place, if the comparisons do not fail.
LEMMA InsertOrders ==
    ASSUME NEW C, NEW first \in [C -> Int], NEW b \in [s : Seq(C), failed : BOOLEAN],
           NEW n, n = Len(b.s), NEW i \in 2..n, ~b.failed,
           \A j \in 1..n : Plain(b.s[j]),
           InOrder(first, b.s, 1, i - 1), Upcoming(first, b.s, i - 1, n),
           ~Inserted(b, i).failed
    PROVE  /\ InOrder(first, Inserted(b, i).s, 1, i)
           /\ Upcoming(first, Inserted(b, i).s, i, n)
           /\ \A j \in 1..n : Plain(Inserted(b, i).s[j])
           /\ \A j \in i + 1..n : Inserted(b, i).s[j] = b.s[j]
<1> DEFINE t == b.s
           x == t[i]
           right == [p \in 0..i - 2 |-> Not(Less(t[i], t[p + 1]))]
           c == InsertPlace(b, i)
           u == Inserted(b, i).s
<1>0. n \in Nat /\ i \in Nat /\ i >= 2 /\ i <= n /\ t \in Seq(C) /\ Len(t) = n /\ i \in 1..n
  OBVIOUS
<1>1. c = Bisect(right, 0, i - 1)
  BY DEF InsertPlace
<1>2. c # -1 /\ u = InsertAt(RemoveAt(t, i), c + 1, t[i])
  BY DEF Inserted
<1>a. /\ \A j \in 1..n : t[j] \in C /\ Plain(t[j])
      /\ InOrder(first, t, 1, i - 1) /\ Upcoming(first, t, i - 1, n)
  BY <1>0
<1>b. \A p \in 0..i - 2 : right[p] = Not(Less(x, t[p + 1]))
  OBVIOUS
<1> HIDE DEF t, right, c, u
<1>c. x \in C /\ Plain(x)
  BY <1>0, <1>a
<1> HIDE DEF x
<1>3. /\ \A p \in 0..(i - 1) - 1 : right[p] \in {-1, 0, 1}
      /\ 0 \in Int /\ i - 1 \in Int /\ 0 < i - 1 /\ 0 <= i - 1 /\ i - 1 \in Nat
  BY <1>0, <1>b, LessIs
<1>4. PICK p \in 0..(i - 1) - 1 : right[p] # -1
  BY <1>1, <1>2, <1>3, BisectProbes
<1>5. Comparable(x) /\ \A j \in 1..i - 1 : Comparable(t[j])
  <2>1. p + 1 \in 1..i - 1 /\ p \in 0..i - 2 /\ p + 1 \in 1..n
    BY <1>0
  <2>2. Comparable(x) /\ Comparable(t[p + 1])
    BY <1>4, <1>a, <1>b, <1>c, <2>1, LessTells
  <2>3. ASSUME NEW j \in 1..i - 1 PROVE Comparable(t[j])
    <3>1. j = p + 1 \/ j < p + 1 \/ p + 1 < j
      BY <2>1
    <3> QED
      BY <1>a, <2>1, <2>2, <3>1 DEF InOrder, Before
  <2> QED
    BY <2>2, <2>3
<1>6. ASSUME NEW q \in 0..(i - 1) - 1
      PROVE  /\ right[q] = IF t[q + 1].key <= x.key THEN 1 ELSE 0
             /\ q + 1 \in 1..i - 1
  <2>1. q + 1 \in 1..i - 1 /\ q \in 0..i - 2 /\ q + 1 \in 1..n
    BY <1>0
  <2>2. Comparable(t[q + 1]) /\ Comparable(x) /\ Plain(t[q + 1])
    BY <1>5, <1>a, <2>1
  <2>3. t[q + 1].key \in Int /\ x.key \in Int
    BY <2>2 DEF Comparable
  <2> HIDE DEF Comparable
  <2> DEFINE y == t[q + 1]
  <2> HIDE DEF y
  <2>4. /\ Less(x, y) = 1 <=> x.key < y.key
        /\ Less(x, y) = 0 <=> y.key <= x.key
        /\ Not(Less(x, y)) = 1 <=> Less(x, y) = 0
        /\ Not(Less(x, y)) = 0 <=> Less(x, y) = 1
    BY <1>c, <2>2, LessTells DEF y
  <2>5. right[q] = Not(Less(x, y))
    BY <1>b, <2>1 DEF y
  <2>6. y.key \in Int
    BY <2>3 DEF y
  <2> QED
    BY <2>1, <2>3, <2>4, <2>5, <2>6 DEF y
<1>7. ASSUME NEW q \in 0..(i - 1) - 1, NEW r \in 0..(i - 1) - 1, q < r, right[r] = 1
      PROVE  right[q] = 1
  <2>1. /\ q + 1 \in 1..i - 1 /\ r + 1 \in 1..i - 1 /\ q + 1 < r + 1
    BY <1>0, <1>7
  <2>2. Before(first, t[q + 1], t[r + 1])
    BY <1>a, <2>1 DEF InOrder
  <2>3. t[q + 1].key <= t[r + 1].key /\ t[q + 1].key \in Int /\ t[r + 1].key \in Int
    BY <2>2 DEF Before, Comparable
  <2>4. right[r] = IF t[r + 1].key <= x.key THEN 1 ELSE 0
    BY <1>6
  <2>5. t[r + 1].key <= x.key
    BY <1>7, <2>4
  <2>6. x.key \in Int
    BY <1>5 DEF Comparable
  <2> DEFINE k1 == t[q + 1].key
             k2 == t[r + 1].key
             k3 == x.key
  <2>7. k1 <= k2 /\ k2 <= k3 /\ k1 \in Int /\ k2 \in Int /\ k3 \in Int
    BY <2>3, <2>5, <2>6
  <2> HIDE DEF k1, k2, k3
  <2>8. k1 <= k3
    BY <2>7
  <2>9. t[q + 1].key <= x.key
    BY <2>8 DEF k1, k3
  <2> QED
    BY <1>6, <2>9
<1>8. Cuts(right, 0, i - 1, c)
  <2>1. \A q \in 0..(i - 1) - 1 : right[q] \in {0, 1}
    BY <1>6
  <2>2. PICK d : Cuts(right, 0, i - 1, d)
    BY <1>3, <1>7, <2>1, CutExists
  <2>3. Bisect(right, 0, i - 1) = d
    BY <1>3, <2>2, BisectPlaces
  <2> QED
    BY <1>1, <2>2, <2>3
<1>9. c \in 0..i - 1
  BY <1>8 DEF Cuts
<1>10. ASSUME NEW j \in 1..i - 1
       PROVE  IF j <= c THEN Before(first, t[j], x) ELSE Before(first, x, t[j])
  <2>1. j - 1 \in 0..(i - 1) - 1 /\ (j - 1) + 1 = j /\ j \in 1..n /\ j \in Int
    BY <1>0
  <2>2. right[j - 1] = IF j - 1 < c THEN 1 ELSE 0
    BY <1>8, <2>1 DEF Cuts
  <2>3. right[j - 1] = IF t[j].key <= x.key THEN 1 ELSE 0
    BY <1>6, <2>1
  <2>4. t[j].key <= x.key <=> j <= c
    BY <1>9, <2>1, <2>2, <2>3
  <2>5. Comparable(x) /\ Comparable(t[j]) /\ x.key \in Int /\ t[j].key \in Int
    BY <1>5 DEF Comparable
  <2>6. first[t[j]] < first[x]
    <3>1. j < i /\ i \in (i - 1) + 1..n
      BY <1>0, <2>1
    <3> QED
      BY <1>a, <2>1, <3>1 DEF Upcoming, x
  <2> QED
    BY <2>4, <2>5, <2>6 DEF Before
<1>11. /\ u \in Seq(C) /\ Len(u) = n
       /\ \A j \in 1..n : u[j] = t[ShiftedFrom(i, c, j)]
  <2>1. i \in 1..Len(t)
    BY <1>0
  <2>2. t \in Seq(C) /\ c \in 0..i - 1
    BY <1>0, <1>9
  <2>3. /\ InsertAt(RemoveAt(t, i), c + 1, t[i]) \in Seq(C)
        /\ Shifts(InsertAt(RemoveAt(t, i), c + 1, t[i]), t, i, c)
    BY <2>1, <2>2, ShiftKeeps
  <2> QED
    BY <1>0, <1>2, <2>3 DEF Shifts
<1>12. ASSUME NEW j \in 1..n
       PROVE  /\ u[j] = IF j <= c THEN t[j] ELSE IF j = c + 1 THEN x
                        ELSE IF j <= i THEN t[j - 1] ELSE t[j]
              /\ c + 1 < j => j - 1 \in 1..n
  <2>1. ShiftedFrom(i, c, j) = IF j <= c THEN j ELSE IF j = c + 1 THEN i
                               ELSE IF j <= i THEN j - 1 ELSE j
    BY DEF ShiftedFrom
  <2>2. c + 1 < j => j - 1 \in 1..n
    BY <1>0, <1>9
  <2> QED
    BY <1>11, <2>1, <2>2 DEF x
<1>13. \A j \in i + 1..n : u[j] = t[j] /\ j \in 1..n
  <2> SUFFICES ASSUME NEW j \in i + 1..n PROVE u[j] = t[j] /\ j \in 1..n
    OBVIOUS
  <2>1. j \in 1..n /\ ~(j <= c) /\ j # c + 1 /\ ~(j <= i)
    BY <1>0, <1>9
  <2> QED
    BY <1>12, <2>1
<1>14. ASSUME NEW j \in 1..i
       PROVE  \E k \in 1..i : u[j] = t[k]
  <2>1. j \in 1..n /\ i \in 1..i /\ j \in 1..i /\ (c + 1 < j => j - 1 \in 1..i)
    BY <1>0, <1>9
  <2>2. CASE j <= c
    BY <1>12, <2>1, <2>2
  <2>3. CASE j = c + 1
    <3>1. ~(j <= c)
      BY <1>9, <2>3
    <3>2. u[j] = t[i]
      BY <1>12, <2>1, <2>3, <3>1 DEF x
    <3> QED
      BY <2>1, <3>2
  <2>4. CASE c + 1 < j
    <3>1. ~(j <= c) /\ j # c + 1 /\ j <= i
      BY <1>9, <2>1, <2>4
    <3>2. u[j] = t[j - 1]
      BY <1>12, <2>1, <3>1
    <3> QED
      BY <2>1, <2>4, <3>2
  <2>5. j <= c \/ j = c + 1 \/ c + 1 < j
    BY <1>0, <1>9
  <2> QED
    BY <2>2, <2>3, <2>4, <2>5
<1>15. \A j \in 1..n : Plain(u[j])
  <2> SUFFICES ASSUME NEW j \in 1..n PROVE Plain(u[j])
    OBVIOUS
  <2>1. CASE j <= i
    <3>0. j \in 1..i
      BY <1>0, <2>1
    <3>1. PICK k \in 1..i : u[j] = t[k]
      BY <1>14, <3>0
    <3>2. k \in 1..n
      BY <1>0
    <3> QED
      BY <1>a, <3>1, <3>2
  <2>2. CASE ~(j <= i)
    <3>1. j \in i + 1..n
      BY <1>0, <2>2
    <3> QED
      BY <1>13, <1>a, <3>1
  <2> QED
    BY <2>1, <2>2
<1>16. InOrder(first, u, 1, i)
  <2> SUFFICES ASSUME NEW p1 \in 1..i, NEW q \in 1..i, p1 < q
               PROVE  Before(first, u[p1], u[q])
    BY DEF InOrder
  <2>1. p1 \in 1..n /\ q \in 1..n /\ p1 \in Int /\ q \in Int /\ c \in Int
    BY <1>0, <1>9
  <2>2. CASE q <= c
    <3>1. u[p1] = t[p1] /\ u[q] = t[q] /\ p1 \in 1..i - 1 /\ q \in 1..i - 1
      BY <1>9, <1>12, <2>1, <2>2
    <3> QED
      BY <1>a, <3>1 DEF InOrder
  <2>3. CASE q = c + 1
    <3>1. u[q] = x /\ u[p1] = t[p1] /\ p1 \in 1..i - 1 /\ p1 <= c
      <4>1. p1 <= c /\ ~(q <= c) /\ p1 \in 1..i - 1
        BY <1>9, <2>1, <2>3
      <4> QED
        BY <1>12, <2>1, <2>3, <4>1
    <3> QED
      BY <1>10, <3>1
  <2>4. CASE q > c + 1
    <3>1. u[q] = t[q - 1] /\ q - 1 \in 1..i - 1 /\ q - 1 > c
      <4>1. ~(q <= c) /\ q # c + 1 /\ q <= i /\ q - 1 \in 1..i - 1 /\ q - 1 > c
        BY <1>9, <2>1, <2>4
      <4> QED
        BY <1>12, <2>1, <4>1
    <3>2. CASE p1 <= c
      <4>a. p1 \in 1..i - 1 /\ p1 < q - 1
        BY <1>9, <2>1, <2>4, <3>2
      <4>1. u[p1] = t[p1] /\ p1 \in 1..i - 1 /\ p1 < q - 1
        BY <1>12, <2>1, <3>2, <4>a
      <4> QED
        BY <1>a, <3>1, <4>1 DEF InOrder
    <3>3. CASE p1 = c + 1
      <4>1. ~(p1 <= c) /\ ~(q - 1 <= c)
        BY <2>1, <3>1, <3>3
      <4>2. u[p1] = x
        BY <1>12, <2>1, <3>3, <4>1
      <4> QED
        BY <1>10, <3>1, <4>1, <4>2
    <3>4. CASE p1 > c + 1
      <4>1. ~(p1 <= c) /\ p1 # c + 1 /\ p1 <= i /\ p1 - 1 \in 1..i - 1 /\ p1 - 1 < q - 1
        BY <1>9, <2>1, <3>4
      <4>2. u[p1] = t[p1 - 1]
        BY <1>12, <2>1, <4>1
      <4> QED
        BY <1>a, <3>1, <4>1, <4>2 DEF InOrder
    <3> QED
      BY <2>1, <3>2, <3>3, <3>4
  <2> QED
    BY <2>1, <2>2, <2>3, <2>4
<1>17. Upcoming(first, u, i, n)
  <2> SUFFICES ASSUME NEW p1 \in 1..n, NEW q \in i + 1..n, p1 < q
               PROVE  first[u[p1]] < first[u[q]]
    BY DEF Upcoming
  <2>1. u[q] = t[q] /\ q \in (i - 1) + 1..n
    BY <1>0, <1>13
  <2>2. CASE p1 <= i
    <3>0. p1 \in 1..i
      BY <1>0, <2>2
    <3>1. PICK k \in 1..i : u[p1] = t[k]
      BY <1>14, <3>0
    <3>2. /\ i \in Int /\ n \in Int /\ i <= n
          /\ k \in 1..i /\ q \in i + 1..n
      BY <1>0
    <3>3. k \in 1..n /\ k < q
      BY ONLY <3>2
    <3> QED
      BY <1>a, <2>1, <3>1, <3>3 DEF Upcoming
  <2>3. CASE ~(p1 <= i)
    <3>1. p1 \in i + 1..n
      BY <1>0, <2>3
    <3> QED
      BY <1>13, <1>a, <2>1, <3>1 DEF Upcoming
  <2> QED
    BY <2>2, <2>3
<1> QED
  BY <1>13, <1>15, <1>16, <1>17 DEF t, u

\* binarysort of items of which the first ones are sorted sorts all of them,
\* if the comparisons do not fail.
LEMMA BinarySortOrders ==
    ASSUME NEW C, NEW first \in [C -> Int], NEW s \in Seq(C), NEW n, n = Len(s),
           NEW from \in 1..n, \A j \in 1..n : Plain(s[j]),
           InOrder(first, s, 1, from), Upcoming(first, s, from, n),
           ~BinarySort(s, from).failed
    PROVE  InOrder(first, BinarySort(s, from).s, 1, n)
<1>1. PICK f : Inserts(s, from, C, f)
  BY BinarySortIs
<1>0. n \in Nat /\ from \in Nat /\ from >= 1 /\ from <= n
  OBVIOUS
<1> DEFINE Fine(i) == /\ InOrder(first, f[i].s, 1, i) /\ Upcoming(first, f[i].s, i, n)
                      /\ \A j \in 1..n : Plain(f[i].s[j])
           T == {k \in Nat : k \in from..n /\ ~f[k].failed /\ ~Fine(k)}
<1>2. ASSUME NEW i \in from..n
      PROVE  /\ f[i] \in [s : Seq(C), failed : BOOLEAN] /\ Len(f[i].s) = n
             /\ i # from => f[i] = Inserted(f[i - 1], i)
  BY <1>1 DEF Inserts
<1>3. f[from] = [s |-> s, failed |-> FALSE] /\ BinarySort(s, from) = f[n]
  BY <1>1 DEF Inserts
<1>4. Fine(from)
  <2>1. f[from].s = s
    BY <1>3
  <2> QED
    BY <2>1
<1>5. ASSUME NEW i \in from + 1..n, ~f[i].failed
      PROVE  ~f[i - 1].failed /\ (Fine(i - 1) => Fine(i))
  <2>1. i - 1 \in from..n /\ i \in from..n /\ i # from /\ i \in 2..n
    BY <1>0
  <2> DEFINE b == f[i - 1]
  <2>2. b \in [s : Seq(C), failed : BOOLEAN] /\ Len(b.s) = n /\ f[i] = Inserted(b, i)
    BY <1>2, <2>1
  <2>3. ~b.failed
    <3>1. ASSUME b.failed PROVE f[i].failed
      <4>1. f[i] = [b EXCEPT !.failed = TRUE]
        BY <2>2, <3>1 DEF Inserted, InsertPlace
      <4> HIDE DEF b
      <4> QED
        BY <2>2, <4>1
    <3> QED
      BY <1>5, <3>1
  <2>4. ASSUME Fine(i - 1) PROVE Fine(i)
    <3>1. /\ \A j \in 1..n : Plain(b.s[j])
          /\ InOrder(first, b.s, 1, i - 1) /\ Upcoming(first, b.s, i - 1, n)
      BY <2>4
    <3>2. ~Inserted(b, i).failed
      BY <1>5, <2>2
    <3> HIDE DEF b
    <3>3. /\ InOrder(first, Inserted(b, i).s, 1, i)
          /\ Upcoming(first, Inserted(b, i).s, i, n)
          /\ \A j \in 1..n : Plain(Inserted(b, i).s[j])
      <4>1. n = Len(b.s)
        BY <2>2
      <4> QED
        BY <2>1, <2>2, <2>3, <3>1, <3>2, <4>1, InsertOrders
    <3> QED
      BY <2>2, <3>3
  <2> QED
    BY <2>3, <2>4
<1> HIDE DEF Fine
<1>6. ASSUME T # {} PROVE FALSE
  <2>1. PICK k \in T : \A y \in T : k <= y
    BY <1>6, LeastNat
  <2>2. k \in from + 1..n
    BY <1>4
  <2>3. ~f[k - 1].failed /\ ~Fine(k - 1)
    BY <1>5, <2>2
  <2>4. k - 1 \in T
    BY <1>0, <2>2, <2>3
  <2> QED
    BY <2>1, <2>4
<1>7. n \in from..n /\ ~f[n].failed
  BY <1>0, <1>3
<1>8. Fine(n)
  BY <1>0, <1>6, <1>7
<1> QED
  BY <1>3, <1>8 DEF Fine

\* Two sequences are equal but for their first k items, which are those of
\* the other in some order.
SameBehind(u, t, k, n) ==
    /\ \A i \in k + 1..n : u[i] = t[i]
    /\ {u[i] : i \in 1..k} = {t[i] : i \in 1..k}

\* A rearrangement that leaves the items behind k alone rearranges the others.
LEMMA RearrangedBefore ==
    ASSUME NEW t, NEW u, NEW n \in Nat, Len(t) = n, Rearranged(u, t), NEW k \in 0..n,
           \A i, j \in 1..n : t[i] = t[j] => i = j,
           \A i \in k + 1..n : u[i] = t[i]
    PROVE  SameBehind(u, t, k, n)
<1> DEFINE D == 1..n
<1>1. PICK q \in Bijection(D, D) : \A i \in D : u[i] = t[q[i]]
  BY DEF Rearranged
<1>2. q \in [D -> D] /\ \A y \in D : \E i \in D : q[i] = y
  <2> HIDE DEF D
  <2> QED
    BY BijectionOf
<1>3. ASSUME NEW i \in D, i > k PROVE q[i] = i
  <2>1. i \in k + 1..n
    BY <1>3
  <2> QED
    BY <1>1, <1>2, <2>1
<1>4. ASSUME NEW i \in 1..k PROVE \E j \in 1..k : u[i] = t[j]
  <2>1. i \in D /\ q[i] \in D
    BY <1>2
  <2>2. q[i] <= k
    <3>1. ASSUME q[i] > k PROVE FALSE
      <4> DEFINE j == q[i]
      <4>1. j \in D /\ j > k
        BY <2>1, <3>1
      <4>2. u[j] = t[j] /\ u[i] = t[j]
        BY <1>1, <1>3, <2>1, <4>1
      <4> HIDE DEF j
\* So t[q[j]] is t[j], and u[i] is it too; q is injective.
      <4>3. q[i] = j /\ q[j] = j
        BY <1>3, <4>1 DEF j
      <4>4. i = j
        <5>1. q \in Injection(D, D)
          BY DEF Bijection
        <5> HIDE DEF D
        <5> QED
          BY <2>1, <4>1, <4>3, <5>1 DEF Injection, IsInjective
      <4> QED
        BY <4>1, <4>4
    <3> QED
      BY <2>1, <3>1
  <2>3. q[i] \in 1..k /\ u[i] = t[q[i]]
    BY <1>1, <2>1, <2>2
  <2> QED
    BY <2>3
<1>5. ASSUME NEW j \in 1..k PROVE \E i \in 1..k : u[i] = t[j]
  <2>1. j \in D
    OBVIOUS
  <2>2. PICK i \in D : q[i] = j
    BY <1>2, <2>1
  <2>3. i <= k
    BY <1>3, <2>2
  <2>4. i \in 1..k /\ u[i] = t[j]
    BY <1>1, <2>2, <2>3
  <2> QED
    BY <2>4
<1>6. {u[i] : i \in 1..k} = {t[i] : i \in 1..k}
  <2>1. ASSUME NEW x \in {u[i] : i \in 1..k} PROVE x \in {t[i] : i \in 1..k}
    BY <1>4
  <2>2. ASSUME NEW x \in {t[i] : i \in 1..k} PROVE x \in {u[i] : i \in 1..k}
    <3>1. PICK j \in 1..k : x = t[j]
      OBVIOUS
    <3>2. PICK i \in 1..k : u[i] = t[j]
      BY <1>5
    <3> QED
      BY <3>1, <3>2
  <2> QED
    BY <2>1, <2>2
<1> QED
  BY <1>6 DEF SameBehind

\* A run that is found is sorted, and what is behind it is left alone.
LEMMA NextRunOrders ==
    ASSUME NEW C, NEW first \in [C -> Int], NEW s \in Seq(C), NEW n, n = Len(s), n >= 1,
           NEW minrun \in Nat, \A j \in 1..n : Plain(s[j]),
           \A p, q \in 1..n : p < q => first[s[p]] < first[s[q]],
           NEW r, r = NextRun(s, minrun), ~r.failed
    PROVE  /\ InOrder(first, r.s, 1, r.n)
           /\ SameBehind(r.s, s, r.n, n)
<1> DEFINE run == CountRun(s)
           k == run.n
           down == run.descending
           h == SubSeq(s, 1, k)
           t   == IF down THEN Swapped(h) \o SubSeq(s, k + 1, Len(s)) ELSE s
           force  == IF Len(s) <= minrun THEN Len(s) ELSE minrun
           head == SubSeq(t, 1, force)
           sorted == BinarySort(head, k)
           tail == SubSeq(t, force + 1, Len(s))
<1>0. n \in Nat /\ Len(s) \in Nat /\ Len(s) >= 1 /\ \A j \in 1..n : s[j] \in C
  OBVIOUS
<1>1. r = IF k = -1 THEN [n |-> 0, s |-> s, failed |-> TRUE]
          ELSE IF k >= minrun THEN [n |-> k, s |-> t, failed |-> FALSE]
          ELSE [n |-> force, failed |-> sorted.failed, s |-> sorted.s \o tail]
  BY DEF NextRun
<1>2. /\ k \in {-1} \cup 1..n /\ down \in BOOLEAN
      /\ \A i \in 1..k - 1 : Less(s[i + 1], s[i]) = IF down THEN 1 ELSE 0
  BY <1>0, CountRunTells
<1> HIDE DEF run, k, down, sorted
<1>3. k \in 1..n /\ k \in Nat
  <2>1. k # -1
    BY <1>1
  <2> QED
    BY <1>0, <1>2, <2>1
<1>4. /\ t \in Seq(C) /\ Len(t) = n
      /\ \A i \in 1..n : t[i] = IF down /\ i <= k THEN s[(k - i) + 1] ELSE s[i]
      /\ Rearranged(t, s)
  <2>1. CASE down
    <3>0. k \in 0..Len(s)
      BY <1>0, <1>3
    <3>1. h \in Seq(C) /\ Len(h) = k
      BY <3>0, SplitKeeps
    <3>a. \A i \in 1..k : h[i] = s[i]
      BY <1>0, <1>3
    <3> HIDE DEF h
    <3>2. /\ Swapped(h) \in Seq(C) /\ Rearranged(Swapped(h), h)
          /\ \A i \in 1..Len(h) : Swapped(h)[i] = h[(Len(h) - i) + 1]
      BY <3>1, SwappedKeeps
    <3> DEFINE u == Swapped(h)
    <3>3. u \in Seq(C) /\ Rearranged(u, SubSeq(s, 1, k))
      BY <3>2 DEF h
    <3>b. \A i \in 1..k : u[i] = s[(k - i) + 1]
      <4>1. ASSUME NEW i \in 1..k PROVE (k - i) + 1 \in 1..k
        BY <1>3
      <4> QED
        BY <3>1, <3>2, <3>a, <4>1
    <3> HIDE DEF u
    <3>4. /\ u \o SubSeq(s, k + 1, Len(s)) \in Seq(C)
          /\ Rearranged(u \o SubSeq(s, k + 1, Len(s)), s)
          /\ Replaces(u \o SubSeq(s, k + 1, Len(s)), u, s, k)
      BY <3>0, <3>3, JoinKeeps
    <3>5. t = u \o SubSeq(s, k + 1, Len(s))
      BY <2>1 DEF u
    <3> HIDE DEF t
    <3>6. t \in Seq(C) /\ Rearranged(t, s) /\ \A i \in 1..n : t[i] = IF i <= k THEN u[i] ELSE s[i]
      BY <3>4, <3>5 DEF Replaces
    <3>7. Len(t) = n
      BY <3>6 DEF Rearranged
    <3>8. ASSUME NEW i \in 1..n PROVE t[i] = IF i <= k THEN s[(k - i) + 1] ELSE s[i]
      <4>1. i <= k => i \in 1..k
        BY <1>0
      <4> QED
        BY <3>6, <3>b, <4>1
    <3> QED
      BY <2>1, <3>6, <3>7, <3>8
  <2>2. CASE ~down
    BY <2>2, RearrangedSame
  <2> QED
    BY <2>1, <2>2
<1> HIDE DEF t
<1>5. \A i, j \in 1..n : s[i] = s[j] => i = j
  <2> SUFFICES ASSUME NEW i \in 1..n, NEW j \in 1..n, s[i] = s[j] PROVE i = j
    OBVIOUS
  <2>1. i \in Int /\ j \in Int /\ first[s[i]] \in Int
    BY <1>0
  <2>2. ~(i < j) /\ ~(j < i)
    BY <2>1
  <2> QED
    BY <2>1, <2>2
<1>6. \A i \in 1..n : t[i] \in C /\ Plain(t[i]) /\ (i > k => t[i] = s[i])
  <2> SUFFICES ASSUME NEW i \in 1..n
               PROVE  t[i] \in C /\ Plain(t[i]) /\ (i > k => t[i] = s[i])
    OBVIOUS
  <2>1. i <= k => (k - i) + 1 \in 1..n
    BY <1>0, <1>3
  <2>2. i > k => ~(i <= k)
    BY <1>3
  <2> QED
    BY <1>0, <1>4, <2>1, <2>2
<1>7. InOrder(first, t, 1, k)
  <2>1. ASSUME NEW i \in 1..k - 1 PROVE Before(first, t[i], t[i + 1])
    <3>1. /\ i \in 1..n /\ i + 1 \in 1..n /\ i <= k /\ i + 1 <= k /\ i < i + 1
          /\ k - i \in 1..k - 1 /\ k - i \in 1..n /\ (k - i) + 1 \in 1..n
          /\ (k - (i + 1)) + 1 = k - i
      BY <1>0, <1>3
    <3>2. CASE down
      <4> DEFINE y == s[k - i]
                 x == s[(k - i) + 1]
      <4>1. t[i] = x /\ t[i + 1] = y
        BY <1>4, <3>1, <3>2
      <4>2. Plain(x) /\ Plain(y) /\ Less(x, y) = 1
        BY <1>2, <3>1, <3>2
      <4> HIDE DEF x, y
      <4>3. Comparable(x) /\ Comparable(y) /\ x.key < y.key
        BY <4>2, LessTells
      <4> QED
        BY <4>1, <4>3 DEF Before
    <3>3. CASE ~down
      <4> DEFINE y == s[i + 1]
                 x == s[i]
      <4>1. t[i] = x /\ t[i + 1] = y
        BY <1>4, <3>1, <3>3
      <4>2. Plain(x) /\ Plain(y) /\ Less(y, x) = 0
        BY <1>2, <3>1, <3>3
      <4>3. first[x] < first[y]
        BY <3>1
      <4> HIDE DEF x, y
      <4>4. Comparable(x) /\ Comparable(y) /\ x.key <= y.key
        BY <4>2, LessTells
      <4> QED
        BY <4>1, <4>3, <4>4 DEF Before, Comparable
    <3> QED
      BY <3>2, <3>3
  <2>2. \A i \in 1..k : t[i] \in C
    BY <1>3, <1>6
  <2> DEFINE one == 1
  <2>3. /\ one \in Int /\ k \in Int /\ \A i \in one..k : t[i] \in C
        /\ \A i \in one..k - 1 : Before(first, t[i], t[i + 1])
    BY <1>3, <2>1, <2>2
  <2> HIDE DEF one
  <2>4. InOrder(first, t, one, k)
    BY <2>3, NextInOrder
  <2> QED
    BY <2>4 DEF one
<1>8. ASSUME NEW q \in k + 1..n, NEW p \in 1..n, p < q PROVE first[t[p]] < first[t[q]]
  <2>1. q \in 1..n /\ t[q] = s[q]
    BY <1>0, <1>3, <1>6
  <2>2. PICK j \in 1..n : t[p] = s[j] /\ j < q
    <3>1. CASE down /\ p <= k
      <4>1. (k - p) + 1 \in 1..n /\ (k - p) + 1 < q
        BY <1>0, <1>3, <3>1
      <4> QED
        BY <1>4, <3>1, <4>1
    <3>2. CASE ~(down /\ p <= k)
      BY <1>4, <1>8, <3>2
    <3> QED
      BY <3>1, <3>2
  <2> QED
    BY <2>1, <2>2
<1>9. CASE k >= minrun
  <2>1. r = [n |-> k, s |-> t, failed |-> FALSE]
    BY <1>1, <1>3, <1>9
  <2>2. r.n = k /\ r.s = t
    BY <2>1
  <2>3. \A i \in k + 1..n : t[i] = s[i]
    BY <1>0, <1>3, <1>6
  <2>4. k \in 0..n
    BY <1>3
  <2>5. SameBehind(t, s, k, n)
    BY <1>0, <1>4, <1>5, <2>3, <2>4, RearrangedBefore
  <2> QED
    BY <1>7, <2>2, <2>5
<1>10. CASE ~(k >= minrun)
  <2>1. r = [n |-> force, failed |-> sorted.failed, s |-> sorted.s \o tail]
    BY <1>1, <1>3, <1>10
  <2>2. r.n = force /\ r.s = sorted.s \o tail /\ ~sorted.failed
    <3> DEFINE w == sorted.s \o tail
               bad == sorted.failed
    <3>1. r = [n |-> force, failed |-> bad, s |-> w]
      BY <2>1
    <3> HIDE DEF w, bad, force
    <3>2. r.n = force /\ r.failed = bad /\ r.s = w
      BY <3>1
    <3> QED
      BY <3>2 DEF w, bad
  <2>3. force \in 1..n /\ force \in 0..Len(t) /\ k \in 1..force /\ force \in Nat
    BY <1>0, <1>3, <1>4, <1>10
  <2> HIDE DEF force
  <2>4. head \in Seq(C) /\ Len(head) = force
    BY <1>4, <2>3, SplitKeeps
  <2>5. \A i \in 1..force : head[i] = t[i] /\ i \in 1..n
    BY <1>0, <1>4, <2>3
  <2> HIDE DEF head
  <2>6. \A j \in 1..force : Plain(head[j])
    BY <1>6, <2>5
  <2>7. InOrder(first, head, 1, k)
    <3>1. \A i \in 1..k : i \in 1..force
      BY <2>3
    <3> QED
      BY <1>7, <2>5, <3>1 DEF InOrder
  <2>8. Upcoming(first, head, k, force)
    <3> SUFFICES ASSUME NEW p \in 1..force, NEW q \in k + 1..force, p < q
                 PROVE  first[head[p]] < first[head[q]]
      BY DEF Upcoming
    <3>1. q \in 1..force /\ q \in k + 1..n
      BY <1>0, <1>3, <2>3
    <3> QED
      BY <1>8, <2>5, <3>1
  <2>9. InOrder(first, sorted.s, 1, force)
    <3>1. force = Len(head)
      BY <2>4
    <3>2. ~BinarySort(head, k).failed
      BY <2>2 DEF sorted
    <3>3. InOrder(first, BinarySort(head, k).s, 1, force)
      BY <2>3, <2>4, <2>6, <2>7, <2>8, <3>1, <3>2, BinarySortOrders
    <3> QED
      BY <3>3 DEF sorted
  <2>10. sorted.s \in Seq(C) /\ Rearranged(sorted.s, head)
    <3>1. k \in 1..Len(head)
      BY <2>3, <2>4
    <3> QED
      BY <2>4, <3>1, BinarySortKeeps DEF sorted
  <2> DEFINE v == sorted.s
             w == v \o SubSeq(t, force + 1, Len(t))
  <2>11. v \in Seq(C) /\ Rearranged(v, SubSeq(t, 1, force)) /\ InOrder(first, v, 1, force)
    BY <2>9, <2>10 DEF head
  <2>12. r.s = w
    BY <1>4, <2>2
  <2> HIDE DEF v
  <2>13. /\ w \in Seq(C) /\ Rearranged(w, t)
         /\ \A i \in 1..n : w[i] = IF i <= force THEN v[i] ELSE t[i]
    <3>1. t \in Seq(C) /\ force \in 0..Len(t)
      BY <1>4, <2>3
    <3>2. w \in Seq(C) /\ Rearranged(w, t) /\ Replaces(w, v, t, force)
      BY <2>11, <3>1, JoinKeeps
    <3> HIDE DEF w
    <3> QED
      BY <1>4, <3>2 DEF Replaces
  <2> HIDE DEF w
  <2>14. Rearranged(w, s)
    BY <1>4, <2>13, RearrangedAgain
  <2>15. InOrder(first, w, 1, force)
    <3>1. ASSUME NEW i \in 1..force PROVE w[i] = v[i]
      <4>1. i \in 1..n /\ i <= force
        BY <1>0, <2>3
      <4> QED
        BY <2>13, <4>1
    <3> QED
      BY <2>11, <3>1 DEF InOrder
  <2>16. \A i \in force + 1..n : w[i] = s[i]
    <3> SUFFICES ASSUME NEW i \in force + 1..n PROVE w[i] = s[i]
      OBVIOUS
    <3>1. i \in 1..n /\ ~(i <= force) /\ i > k
      BY <1>0, <1>3, <2>3
    <3> QED
      BY <1>6, <2>13, <3>1
  <2>17. force \in 0..n
    BY <2>3
  <2>18. SameBehind(w, s, force, n)
    BY <1>0, <1>5, <2>14, <2>16, <2>17, RearrangedBefore
  <2> QED
    BY <2>2, <2>12, <2>15, <2>18
<1> QED
  BY <1>9, <1>10
=============================================================================
