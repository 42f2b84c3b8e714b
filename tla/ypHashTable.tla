---------------------------- MODULE ypHashTable ----------------------------
(***************************************************************************)
(* The open-addressing hash table behind nohtyP's sets (ypSetObject) and,  *)
(* as the keyset of a mapping, behind its dicts (src/nohtyP.c, regions     *)
(* "set" and "dict").                                                      *)
(*                                                                         *)
(* A table is a function from slots 0 .. alloclen-1 to entries             *)
(* [key, hash].  Keys stands for the yp_eq-classes of hashable objects:    *)
(* equal objects have equal hashes, and the table compares objects only by *)
(* identity or by "same se_hash and yp_eq".  NULL is a slot never used,    *)
(* Dummy (ypSet_dummy) the mark of a deleted key.                          *)
(***************************************************************************)
EXTENDS Integers, FiniteSets

CONSTANTS
    Keys,           \* yp_eq-classes of hashable objects
    NULL, Dummy,    \* contents of a slot that was never used / deleted
    HashOf,         \* yp_hashC of each key
    AllocLens,      \* the table sizes: AllocLenMin, doubled up to AllocLenMax
    AllocLenMin,    \* ypSet_ALLOCLEN_MIN (8 in the code)
    AllocLenMax,    \* ypSet_ALLOCLEN_MAX (2^30 in the code)
    AllocHintMax,   \* ypSet_ALLOC_HINT_MAX
    ProbeLen        \* bound: probes by which every slot has been visited

PerturbShift == 32      \* 2^ypSet_PERTURB_SHIFT: perturb >>= 5
HashInvalid == -1       \* ypObject_HASH_INVALID

ASSUME TableConstants ==
    /\ IsFiniteSet(Keys)
    /\ NULL \notin Keys /\ Dummy \notin Keys /\ NULL # Dummy
    /\ HashOf \in [Keys -> Nat]
    /\ ProbeLen \in Nat /\ AllocHintMax \in Nat
    /\ AllocLens \subseteq Nat \ {0}
    /\ AllocLenMin \in AllocLens /\ AllocLenMax \in AllocLens
    /\ \A n \in AllocLens :
          /\ AllocLenMin <= n /\ n <= AllocLenMax
          /\ n # AllocLenMin => n % 2 = 0 /\ n \div 2 \in AllocLens
          /\ n # AllocLenMax => 2 * n \in AllocLens

(***************************************************************************)
(* Sizes.  A table is resized when fill reaches 2/3 of its slots.          *)
(***************************************************************************)
SetLenMax == (AllocLenMax * 2) \div 3

MinEntries(minused) == (minused * 3 + 1) \div 2

\* The least table size that fits minused entries.
CalcAllocLen(minused) ==
    CHOOSE n \in AllocLens :
        /\ n >= MinEntries(minused)
        /\ \A m \in AllocLens : m >= MinEntries(minused) => n <= m

\* Keys that can be added before the next resize.
Space(alloclen, fill) ==
    LET free == (alloclen * 2) \div 3 - fill
    IN  IF free > 0 THEN free ELSE 0

Clamp(x, low, high) == IF x < low THEN low ELSE IF x > high THEN high ELSE x

\* How many entries to make room for when a push finds no space: one more
\* than len, and the caller's hint.
GrowTo(len, growhint) ==
    LET newlen == len + 1 + Clamp(growhint, 0, AllocHintMax)
    IN  IF newlen > SetLenMax THEN SetLenMax ELSE newlen

(***************************************************************************)
(* Probing.  Probe[k][n][j] is the j-th slot visited for key k in a table  *)
(* of n slots: i = hash, then i = 5i + perturb + 1 with perturb = hash,    *)
(* hash >> 5, hash >> 10 ...  n divides 2^64, so reducing i modulo n at    *)
(* each step is what masking it does.                                      *)
(***************************************************************************)
ProbeSequence(h, n) ==
    LET walk[j \in 0 .. ProbeLen] ==
            IF j = 0 THEN [i |-> h % n, perturb |-> h]
            ELSE LET last == walk[j-1]
                 IN  [i |-> (5 * last.i + last.perturb + 1) % n,
                      perturb |-> last.perturb \div PerturbShift]
    IN  [j \in 0 .. ProbeLen |-> walk[j].i]

Probe == [k \in Keys |-> [n \in AllocLens |-> ProbeSequence(HashOf[k], n)]]

\* Once perturb is zero, i -> 5i+1 mod 2^m runs through every slot.  The code
\* relies on it: a lookup ends only because it meets a NULL slot.
ASSUME ProbeCovers ==
    \A k \in Keys, n \in AllocLens :
        {Probe[k][n][j] : j \in 0 .. ProbeLen} = 0 .. n - 1

(***************************************************************************)
(* Tables.                                                                 *)
(***************************************************************************)
Entry == [key : Keys \cup {NULL, Dummy}, hash : Int]

Unused == [key |-> NULL, hash |-> 0]        \* what yp_memset(0) leaves

EmptyTable(n) == [s \in 0 .. n - 1 |-> Unused]

UsedSlots(table) == {s \in DOMAIN table : table[s].key \in Keys}

FilledSlots(table) == {s \in DOMAIN table : table[s].key # NULL}

KeysIn(table) == {table[s].key : s \in UsedSlots(table)}

\* The slots _ypSet_lookkey may return for key k: none when the probe never
\* ends (no slot holds k and none is NULL), else the slot that holds k, or
\* the first deleted slot on the way to the first NULL one, or that one.
LookKey(table, n, k) ==
    LET slot(j) == Probe[k][n][j]
        at(j)   == table[slot(j)].key
        ends    == {j \in 0 .. ProbeLen :
                        /\ at(j) \in {NULL, k}
                        /\ \A i \in 0 .. j - 1 : at(i) \notin {NULL, k}}
        free(j) == {i \in 0 .. j - 1 :
                        /\ at(i) = Dummy
                        /\ \A h \in 0 .. i - 1 : at(h) # Dummy}
    IN  UNION {IF at(j) = k \/ free(j) = {} THEN {slot(j)}
               ELSE {slot(i) : i \in free(j)} : j \in ends}

\* The slot _ypSet_movekey_clean stops at: the first NULL one.
CleanSlot(table, n, k) ==
    LET slot(j) == Probe[k][n][j]
    IN  {slot(j) : j \in {j \in 0 .. ProbeLen :
            /\ table[slot(j)].key = NULL
            /\ \A i \in 0 .. j - 1 : table[slot(i)].key # NULL}}

PutKey(table, s, k) == [table EXCEPT ![s] = [key |-> k, hash |-> HashOf[k]]]

\* Seeded fault: the slot is cleared, not marked.
RemoveKeyAsNull(table, s) == [table EXCEPT ![s] = Unused]

\* _ypSet_removekey leaves a mark, so that probes still run past the slot.
RemoveKey(table, s) ==
    [table EXCEPT ![s] = [key |-> Dummy, hash |-> HashInvalid]]

(***************************************************************************)
(* In a sound table no key is stored twice, and every key is on its own    *)
(* probe sequence with no NULL slot before it.                             *)
(***************************************************************************)
OnProbe(table, n, k, s) ==
    \E j \in 0 .. ProbeLen :
        /\ Probe[k][n][j] = s
        /\ \A i \in 0 .. j - 1 : table[Probe[k][n][i]].key # NULL

TableSound(table, n) ==
    /\ table \in [0 .. n - 1 -> Entry]
    /\ \A r, s \in UsedSlots(table) : table[r].key = table[s].key => r = s
    /\ \A s \in UsedSlots(table) : OnProbe(table, n, table[s].key, s)
=============================================================================
