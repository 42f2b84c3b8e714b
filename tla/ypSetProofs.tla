---------------------------- MODULE ypSetProofs ----------------------------
(***************************************************************************)
(* Proofs about ypSet, for any keys, hashes, table sizes and arguments.    *)
(***************************************************************************)
EXTENDS ypSet, ypOperatorProofs

(***************************************************************************)
(* The inductive invariant.  The properties of ypSet speak of lookups and  *)
(* counters; what makes them inductive is that every key stays reachable   *)
(* on its probe sequence (TableSound), also while a resize is under way.        *)
(***************************************************************************)
TableInv ==
    /\ TableSound(table, alloclen)
    /\ fill = Cardinality(FilledSlots(table))
    /\ len = Cardinality(UsedSlots(table))
    /\ NullRemains
    /\ \A s \in UsedSlots(table) : table[s].hash = HashOf[table[s].key]

NoResize == pending = NULL /\ oldkeys = NoTable /\ scan = 0 /\ keysleft = 0

Resizing ==
    /\ pending \in Keys /\ op # "idle"
    /\ \E n \in AllocLens : TableSound(oldkeys, n)
    /\ \A s \in Unmoved : oldkeys[s].hash = HashOf[oldkeys[s].key]
    /\ keysleft = Cardinality(Unmoved)
    /\ \A s \in Unmoved : oldkeys[s].key \notin KeysIn(table) \cup {pending}
    /\ pending \notin KeysIn(table)
    /\ FilledSlots(table) = UsedSlots(table)
    /\ Space(alloclen, fill) > keysleft

IInv == TypeOK /\ TableInv /\ (NoResize \/ Resizing) /\ SpaceleftFresh

LEMMA InitIInv == Init => IInv
<1> SUFFICES ASSUME Init PROVE IInv
    OBVIOUS
<1>1. AllocLenMin \in AllocLens /\ AllocLenMin \in Nat
    BY TableConstants
<1>2. /\ TableSound(table, alloclen) /\ UsedSlots(table) = {} /\ FilledSlots(table) = {}
    BY <1>1, EmptySound DEF Init
<1>3. TypeOK
    BY <1>1, <1>2 DEF Init, TypeOK, TableSound
<1>4. TableInv
    BY <1>1, <1>2, FS_EmptySet DEF Init, TableInv, NullRemains
<1> QED
    BY <1>3, <1>4 DEF Init, IInv, NoResize, SpaceleftFresh

\* Steps that leave the table alone.
LEMMA TableKept ==
    ASSUME IInv, UNCHANGED <<setVars, resizeVars>>,
           op' \in Ops \cup {"idle"}, spaceleft' \in Int, hint' \in Int,
           todo' \subseteq Keys, before' \subseteq Keys, arg' \subseteq Keys,
           op' = "idle" => pending = NULL,
           op' # "idle" /\ pending = NULL => spaceleft' = Space(alloclen, fill)
    PROVE  IInv'
<1>1. TypeOK'
    BY DEF IInv, TypeOK, setVars, resizeVars
<1>2. TableInv'
    BY DEF IInv, TableInv, NullRemains, setVars
<1>3. NoResize' \/ Resizing'
    BY TableConstants DEF IInv, NoResize, Resizing, Unmoved, setVars, resizeVars
<1>4. SpaceleftFresh'
    BY DEF SpaceleftFresh, setVars, resizeVars
<1> QED
    BY <1>1, <1>2, <1>3, <1>4 DEF IInv

\* A call returns.
LEMMA ReturnKept ==
    ASSUME IInv, pending = NULL, UNCHANGED <<setVars, resizeVars>>, NEW r, Return(r)
    PROVE  IInv'
BY TableKept DEF Return

\* What a lookup returns in a state of the invariant.
LEMMA LookupInv ==
    ASSUME IInv, NEW k \in Keys
    PROVE  /\ LookKey(table, alloclen, k) # {}
           /\ \A s \in LookKey(table, alloclen, k) :
                 /\ s \in 0 .. alloclen - 1
                 /\ Found(s, k) <=> k \in KeysIn(table)
                 /\ ~Found(s, k) => /\ table[s].key \in {NULL, Dummy}
                                    /\ OnProbe(table, alloclen, k, s)
<1>1. alloclen \in AllocLens /\ TableSound(table, alloclen)
    BY DEF IInv, TypeOK, TableInv
<1>2. \E s \in 0 .. alloclen - 1 : table[s].key = NULL
    BY <1>1, NullSlotExists DEF IInv, TypeOK, TableInv, NullRemains
<1> QED
    BY <1>1, <1>2, LookKeyFinds DEF Found

\* The counters after a key was stored in a slot.
LEMMA CountsAfterPut ==
    ASSUME IInv, NEW e \in Entry, e.key \in Keys, e.key \notin KeysIn(table),
           e.hash = HashOf[e.key],
           NEW s \in 0 .. alloclen - 1, table[s].key \in {NULL, Dummy},
           OnProbe(table, alloclen, e.key, s)
    PROVE  LET new == [table EXCEPT ![s] = e]
           IN  /\ TableSound(new, alloclen)
               /\ KeysIn(new) = KeysIn(table) \cup {e.key}
               /\ UsedSlots(new) = UsedSlots(table) \cup {s}
               /\ FilledSlots(new) = FilledSlots(table) \cup {s}
               /\ Cardinality(UsedSlots(new)) = len + 1
               /\ Cardinality(FilledSlots(new)) =
                      IF table[s].key = NULL THEN fill + 1 ELSE fill
               /\ \A r \in UsedSlots(new) : new[r].hash = HashOf[new[r].key]
<1> DEFINE new == [table EXCEPT ![s] = e]
<1>1. /\ alloclen \in AllocLens /\ TableSound(table, alloclen)
      /\ table \in [0 .. alloclen - 1 -> Entry]
    BY DEF IInv, TypeOK, TableInv
<1>2. /\ TableSound(new, alloclen)
      /\ UsedSlots(new) = UsedSlots(table) \cup {s}
      /\ FilledSlots(new) = FilledSlots(table) \cup {s}
      /\ KeysIn(new) = KeysIn(table) \cup {e.key}
      /\ s \notin UsedSlots(table)
    BY <1>1, PutSound
<1>3. IsFiniteSet(UsedSlots(table)) /\ IsFiniteSet(FilledSlots(table))
    BY <1>1, SlotsFinite
<1>4. Cardinality(UsedSlots(new)) = len + 1
    BY <1>2, <1>3, FS_AddElement DEF IInv, TableInv
<1>5. s \in FilledSlots(table) <=> table[s].key # NULL
    BY <1>1 DEF FilledSlots
<1>6. Cardinality(FilledSlots(new)) = IF table[s].key = NULL THEN fill + 1 ELSE fill
    BY <1>2, <1>3, <1>5, FS_AddElement DEF IInv, TableInv
<1>7. \A r \in UsedSlots(new) : new[r].hash = HashOf[new[r].key]
  <2>1. new[s] = e /\ \A r \in UsedSlots(table) : r # s => new[r] = table[r]
      BY <1>1 DEF UsedSlots
  <2> HIDE DEF new
  <2> QED
      BY <1>2, <2>1 DEF IInv, TableInv
<1> QED
    BY <1>2, <1>4, <1>6, <1>7

\* _ypSet_push_newkey, for an absent key: it is stored, the table is resized
\* for it, or the call fails.
LEMMA PushNewKeyInv ==
    ASSUME IInv, pending = NULL, op \in Ops, NEW k \in Keys,
           NEW s \in LookKey(table, alloclen, k), ~Found(s, k),
           NEW growhint \in Int, PushNewKey(s, k, growhint)
    PROVE  IInv'
<1> DEFINE e == [key |-> k, hash |-> HashOf[k]]
<1>0. /\ e \in Entry /\ e.key = k /\ e.hash = HashOf[k] /\ "idle" \notin Ops
      /\ NULL \notin Keys
    BY TableConstants DEF Entry, Ops, AddOps
<1>1. /\ s \in 0 .. alloclen - 1 /\ k \notin KeysIn(table)
      /\ table[s].key \in {NULL, Dummy} /\ OnProbe(table, alloclen, k, s)
    BY LookupInv
<1>2. /\ alloclen \in AllocLens /\ alloclen \in Nat /\ fill \in Nat /\ len \in Nat
      /\ spaceleft = Space(alloclen, fill) /\ fill <= (alloclen * 2) \div 3
      /\ NoResize
    BY <1>0, TableConstants DEF IInv, TypeOK, SpaceleftFresh, TableInv, NullRemains, Resizing
<1>3. CASE /\ spaceleft > 0 \/ table[s].key = Dummy
           /\ MoveKey(s, k) /\ Continue(k)
  <2>1. table' = [table EXCEPT ![s] = e]
      BY <1>3 DEF MoveKey, PutKey
  <2>2. /\ TableSound(table', alloclen)
        /\ Cardinality(UsedSlots(table')) = len + 1
        /\ Cardinality(FilledSlots(table')) =
               IF table[s].key = NULL THEN fill + 1 ELSE fill
        /\ \A r \in UsedSlots(table') : table'[r].hash = HashOf[table'[r].key]
    <3>1. /\ e.key \in Keys /\ e.key \notin KeysIn(table) /\ e.hash = HashOf[e.key]
          /\ OnProbe(table, alloclen, e.key, s) /\ e \in Entry
        BY <1>0, <1>1
    <3> DEFINE new == [table EXCEPT ![s] = e]
    <3> HIDE DEF e
    <3>2. /\ TableSound(new, alloclen)
          /\ Cardinality(UsedSlots(new)) = len + 1
          /\ Cardinality(FilledSlots(new)) =
                 IF table[s].key = NULL THEN fill + 1 ELSE fill
          /\ \A r \in UsedSlots(new) : new[r].hash = HashOf[new[r].key]
        BY <1>1, <3>1, CountsAfterPut
    <3> QED
        BY <2>1, <3>2
  <2>3. /\ fill' = IF table[s].key = NULL THEN fill + 1 ELSE fill
        /\ spaceleft' = IF table[s].key = NULL THEN spaceleft - 1 ELSE spaceleft
        /\ len' = len + 1
        /\ UNCHANGED <<alloclen, pending, oldkeys, scan, keysleft>>
        /\ UNCHANGED <<op, hint, before, arg>> /\ todo' = todo \ {k}
      BY <1>3 DEF MoveKey, Continue, resizeVars
  <2>4. table[s].key = NULL => spaceleft > 0
      BY <1>3, TableConstants
  <2>5. spaceleft' = Space(alloclen, fill') /\ fill' <= (alloclen * 2) \div 3
      BY <1>2, <2>3, <2>4 DEF Space
  <2>6. TypeOK'
    <3>1. table' \in [0 .. alloclen - 1 -> Entry]
        BY <2>2 DEF TableSound
    <3>2. spaceleft' \in Int /\ fill' \in Nat /\ len' \in Nat
        BY <1>2, <2>3, <2>5 DEF Space
    <3> QED
        BY <1>2, <2>3, <3>1, <3>2 DEF IInv, TypeOK
  <2>7. TableInv'
      BY <2>2, <2>3, <2>5 DEF TableInv, NullRemains
  <2>8. NoResize' /\ SpaceleftFresh'
      BY <1>2, <2>3, <2>5 DEF NoResize, SpaceleftFresh
  <2> QED
      BY <2>6, <2>7, <2>8 DEF IInv
<1>4. CASE \E r : Return(r) /\ UNCHANGED <<setVars, resizeVars>>
    BY <1>4, ReturnKept
<1>5. CASE /\ len <= SetLenMax - 1
           /\ BeginResize(k, GrowTo(len, growhint))
           /\ Continue(k) /\ UNCHANGED spaceleft
  <2> DEFINE m == GrowTo(len, growhint)
  <2>1. m \in Nat /\ len < m /\ m <= SetLenMax
      BY <1>2, <1>5, GrowToBounds
  <2>2. /\ table' = EmptyTable(alloclen') /\ fill' = 0 /\ len' = 0
        /\ alloclen' = CalcAllocLen(m)
        /\ pending' = k /\ oldkeys' = table /\ scan' = 0 /\ keysleft' = len
        /\ UNCHANGED <<op, hint, before, arg, spaceleft>> /\ todo' = todo \ {k}
      BY <1>5 DEF BeginResize, Continue
  <2>3. alloclen' \in AllocLens /\ Space(alloclen', 0) >= m
    <3> HIDE DEF m
    <3> QED
      BY <2>1, <2>2, CalcAllocLenFits
  <2>4. /\ TableSound(table', alloclen')
        /\ UsedSlots(table') = {} /\ FilledSlots(table') = {} /\ KeysIn(table') = {}
      BY <2>2, <2>3, EmptySound
  <2>5. alloclen' \in Nat
      BY <2>3, TableConstants
  <2>6. TypeOK'
    <3>1. table' \in [0 .. alloclen' - 1 -> Entry]
        BY <2>4 DEF TableSound
    <3> QED
        BY <1>2, <2>2, <2>3, <3>1 DEF IInv, TypeOK
  <2>7. TableInv'
    <3>1. fill' <= (alloclen' * 2) \div 3
        BY <2>2, <2>5
    <3>2. fill' = Cardinality(FilledSlots(table')) /\ len' = Cardinality(UsedSlots(table'))
        BY <2>2, <2>4, FS_EmptySet
    <3> QED
        BY <2>4, <3>1, <3>2 DEF TableInv, NullRemains
  <2>8. Unmoved' = UsedSlots(table)
    <3>1. UsedSlots(table) \subseteq 0 .. alloclen - 1
        BY <1>2, SlotsFinite DEF IInv, TypeOK
    <3>2. \A r \in UsedSlots(table) : r >= 0
        BY <3>1
    <3> QED
        BY <2>2, <3>2 DEF Unmoved
  <2>9. Resizing'
    <3>1. TableSound(table, alloclen) /\ len = Cardinality(UsedSlots(table))
        BY DEF IInv, TableInv
    <3>2. \A r \in UsedSlots(table) : table[r].hash = HashOf[table[r].key] /\ table[r].key # k
        BY <1>1 DEF IInv, TableInv, KeysIn
    <3>3. Space(alloclen', fill') > keysleft'
        BY <1>2, <2>1, <2>2, <2>3, <2>5 DEF Space
    <3> QED
        BY <1>0, <1>2, <2>2, <2>4, <2>8, <3>1, <3>2, <3>3 DEF Resizing
  <2>10. SpaceleftFresh'
      BY <1>0, <2>2 DEF SpaceleftFresh
  <2> QED
      BY <2>6, <2>7, <2>9, <2>10 DEF IInv
<1> QED
    BY <1>3, <1>4, <1>5 DEF PushNewKey


\* The table after a key was deleted from it.
LEMMA DropKeyInv ==
    ASSUME IInv, pending = NULL, op \in Ops, NEW k \in Keys,
           NEW s \in LookKey(table, alloclen, k), Found(s, k),
           DropKey(s), Continue(k), UNCHANGED spaceleft
    PROVE  IInv'
<1>1. /\ alloclen \in AllocLens /\ TableSound(table, alloclen)
      /\ fill \in Nat /\ len \in Nat /\ "idle" \notin Ops
      /\ table \in [0 .. alloclen - 1 -> Entry]
    BY DEF IInv, TypeOK, TableInv, Ops, AddOps
<1>2. s \in UsedSlots(table)
    BY <1>1, LookupInv DEF Found, UsedSlots
<1>3. /\ table' = RemoveKey(table, s) /\ len' = len - 1
      /\ UNCHANGED <<alloclen, fill, pending, oldkeys, scan, keysleft, spaceleft>>
      /\ UNCHANGED <<op, hint, before, arg>> /\ todo' = todo \ {k}
    BY DEF DropKey, Continue, resizeVars
<1>4. /\ TableSound(table', alloclen)
      /\ UsedSlots(table') = UsedSlots(table) \ {s}
      /\ FilledSlots(table') = FilledSlots(table)
    BY <1>1, <1>2, <1>3, RemoveSound
<1>5. len' = Cardinality(UsedSlots(table')) /\ len' \in Nat
  <2>1. IsFiniteSet(UsedSlots(table))
      BY <1>1, SlotsFinite
  <2>2. Cardinality(UsedSlots(table')) = len - 1 /\ IsFiniteSet(UsedSlots(table'))
      BY <1>2, <1>4, <2>1, FS_RemoveElement DEF IInv, TableInv
  <2> QED
      BY <1>3, <2>2, FS_CardinalityType
<1>6. \A r \in UsedSlots(table') : table'[r].hash = HashOf[table'[r].key]
  <2>1. \A r \in UsedSlots(table') : table'[r] = table[r] /\ r \in UsedSlots(table)
      BY <1>1, <1>3, <1>4 DEF RemoveKey, UsedSlots
  <2> QED
      BY <2>1 DEF IInv, TableInv
<1>7. TypeOK'
    BY <1>1, <1>3, <1>4, <1>5 DEF IInv, TypeOK, TableSound
<1>8. TableInv'
    BY <1>3, <1>4, <1>5, <1>6 DEF IInv, TableInv, NullRemains
<1>9. NoResize' /\ SpaceleftFresh'
    BY <1>1, <1>3, TableConstants
    DEF IInv, NoResize, Resizing, SpaceleftFresh
<1> QED
    BY <1>7, <1>8, <1>9 DEF IInv

\* A resize has an unused slot for the next key, which no slot holds yet.
LEMMA ResizeMoveInv ==
    ASSUME IInv, ResizeMove
    PROVE  IInv'
<1>1. Resizing
    BY TableConstants DEF IInv, NoResize, ResizeMove
<1>2. /\ alloclen \in AllocLens /\ alloclen \in Nat /\ TableSound(table, alloclen)
      /\ fill \in Nat /\ len \in Nat /\ keysleft \in Nat /\ keysleft > 0
      /\ scan \in Nat
      /\ table \in [0 .. alloclen - 1 -> Entry]
      /\ fill <= (alloclen * 2) \div 3
    BY TableConstants DEF IInv, TypeOK, TableInv, NullRemains, ResizeMove
<1>3. PICK n \in AllocLens : TableSound(oldkeys, n)
    BY <1>1 DEF Resizing
<1>4. PICK s \in UsedSlots(oldkeys) :
          /\ s >= scan /\ \A r \in UsedSlots(oldkeys) : r >= scan => s <= r
          /\ \E t \in CleanSlot(table, alloclen, oldkeys[s].key) :
                table' = [table EXCEPT ![t] = oldkeys[s]]
          /\ scan' = s + 1
    BY DEF ResizeMove
<1>5. PICK t \in CleanSlot(table, alloclen, oldkeys[s].key) :
          table' = [table EXCEPT ![t] = oldkeys[s]]
    BY <1>4
<1>6. /\ s \in Unmoved /\ s \in Nat /\ oldkeys \in [0 .. n - 1 -> Entry]
      /\ UsedSlots(oldkeys) \subseteq 0 .. n - 1
      /\ oldkeys[s] \in Entry /\ oldkeys[s].key \in Keys
      /\ oldkeys[s].key \notin KeysIn(table)
      /\ oldkeys[s].hash = HashOf[oldkeys[s].key]
  <2>1. s \in Unmoved
      BY <1>4 DEF Unmoved
  <2>2. oldkeys \in [0 .. n - 1 -> Entry]
      BY <1>3 DEF TableSound
  <2>3. UsedSlots(oldkeys) \subseteq 0 .. n - 1
      BY <2>2, SlotsFinite
  <2>4. s \in Nat /\ oldkeys[s] \in Entry /\ oldkeys[s].key \in Keys
      BY <1>4, <2>2, <2>3 DEF UsedSlots
  <2> QED
      BY <1>1, <2>1, <2>2, <2>3, <2>4 DEF Resizing
<1>7. /\ t \in 0 .. alloclen - 1 /\ table[t].key = NULL
      /\ OnProbe(table, alloclen, oldkeys[s].key, t)
  <2>1. \E q \in 0 .. alloclen - 1 : table[q].key = NULL
      BY <1>2, NullSlotExists DEF IInv, TableInv
  <2> QED
      BY <1>2, <1>5, <1>6, <2>1, CleanSlotFinds
<1>8. /\ TableSound(table', alloclen)
      /\ KeysIn(table') = KeysIn(table) \cup {oldkeys[s].key}
      /\ UsedSlots(table') = UsedSlots(table) \cup {t}
      /\ FilledSlots(table') = FilledSlots(table) \cup {t}
      /\ Cardinality(UsedSlots(table')) = len + 1
      /\ Cardinality(FilledSlots(table')) = fill + 1
      /\ \A r \in UsedSlots(table') : table'[r].hash = HashOf[table'[r].key]
  <2> DEFINE new == [table EXCEPT ![t] = oldkeys[s]]
  <2>1. /\ TableSound(new, alloclen)
        /\ KeysIn(new) = KeysIn(table) \cup {oldkeys[s].key}
        /\ UsedSlots(new) = UsedSlots(table) \cup {t}
        /\ FilledSlots(new) = FilledSlots(table) \cup {t}
        /\ Cardinality(UsedSlots(new)) = len + 1
        /\ Cardinality(FilledSlots(new)) =
               IF table[t].key = NULL THEN fill + 1 ELSE fill
        /\ \A r \in UsedSlots(new) : new[r].hash = HashOf[new[r].key]
      BY <1>6, <1>7, CountsAfterPut
  <2> QED
      BY <1>5, <1>7, <2>1
<1>9. /\ fill' = fill + 1 /\ len' = len + 1 /\ keysleft' = keysleft - 1
      /\ UNCHANGED <<alloclen, pending, oldkeys>>
      /\ UNCHANGED <<op, todo, spaceleft, hint, before, arg>>
    BY DEF ResizeMove, frameVars
<1>10. Unmoved' = Unmoved \ {s}
  <2>1. \A r \in UsedSlots(oldkeys) : r \in Int
      BY <1>6
  <2>2. \A r \in UsedSlots(oldkeys) : r >= s + 1 <=> (r >= scan /\ r # s)
      BY <1>2, <1>4, <1>6, <2>1
  <2> QED
      BY <1>4, <1>9, <2>2 DEF Unmoved
<1>11. keysleft' = Cardinality(Unmoved')
  <2>1. IsFiniteSet(Unmoved)
    <3>1. IsFiniteSet(UsedSlots(oldkeys))
        BY <1>3, <1>6, SlotsFinite
    <3> QED
        BY <3>1, FS_Subset DEF Unmoved
  <2> QED
      BY <1>1, <1>6, <1>9, <1>10, <2>1, FS_RemoveElement DEF Resizing
<1>12. fill' <= (alloclen * 2) \div 3 /\ Space(alloclen, fill') > keysleft'
    BY <1>1, <1>2, <1>9 DEF Resizing, Space
<1>13. Resizing'
  <2>1. \A r \in Unmoved' : oldkeys[r].key \notin KeysIn(table')
    <3>1. \A r \in Unmoved' : r \in UsedSlots(oldkeys) /\ r # s /\ r \in Unmoved
        BY <1>10 DEF Unmoved
    <3>2. \A r \in Unmoved' : oldkeys[r].key # oldkeys[s].key
        BY <1>3, <1>4, <3>1 DEF TableSound
    <3> QED
        BY <1>1, <1>8, <3>1, <3>2 DEF Resizing
  <2>2. pending \notin KeysIn(table')
      BY <1>1, <1>6, <1>8 DEF Resizing
  <2>3. FilledSlots(table') = UsedSlots(table')
      BY <1>1, <1>8 DEF Resizing
  <2>4. \A r \in Unmoved' : /\ oldkeys[r].hash = HashOf[oldkeys[r].key]
                            /\ oldkeys[r].key # pending
      BY <1>1, <1>10 DEF Resizing
  <2>5. pending' \in Keys /\ op' # "idle"
      BY <1>1, <1>9 DEF Resizing
  <2> QED
      BY <1>3, <1>9, <1>11, <1>12, <2>1, <2>2, <2>3, <2>4, <2>5 DEF Resizing
<1>14. TypeOK'
  <2>1. scan' \in Nat /\ keysleft' \in Nat /\ fill' \in Nat /\ len' \in Nat
      BY <1>2, <1>4, <1>6, <1>9
  <2> QED
      BY <1>8, <1>9, <2>1 DEF IInv, TypeOK, TableSound
<1>15. TableInv'
    BY <1>8, <1>9, <1>12 DEF TableInv, NullRemains
<1>16. SpaceleftFresh'
    BY <1>1, <1>9, TableConstants DEF Resizing, SpaceleftFresh
<1> QED
    BY <1>13, <1>14, <1>15, <1>16 DEF IInv

\* When all keys have moved there is still room for the pending one.
LEMMA ResizeDoneInv ==
    ASSUME IInv, ResizeDone
    PROVE  IInv'
<1>1. Resizing
    BY TableConstants DEF IInv, NoResize, ResizeDone
<1> DEFINE e == [key |-> pending, hash |-> HashOf[pending]]
<1>2. /\ alloclen \in AllocLens /\ alloclen \in Nat /\ TableSound(table, alloclen)
      /\ fill \in Nat /\ len \in Nat /\ keysleft = 0
      /\ table \in [0 .. alloclen - 1 -> Entry]
      /\ fill <= (alloclen * 2) \div 3
      /\ pending \in Keys /\ pending \notin KeysIn(table)
    BY <1>1, TableConstants
    DEF IInv, TypeOK, TableInv, NullRemains, ResizeDone, Resizing
<1>3. PICK t \in CleanSlot(table, alloclen, pending) :
          table' = [table EXCEPT ![t] = e]
    BY DEF ResizeDone, PutKey
<1>4. /\ t \in 0 .. alloclen - 1 /\ table[t].key = NULL
      /\ OnProbe(table, alloclen, pending, t)
  <2>1. \E q \in 0 .. alloclen - 1 : table[q].key = NULL
      BY <1>2, NullSlotExists DEF IInv, TableInv
  <2> QED
      BY <1>2, <1>3, <2>1, CleanSlotFinds
<1>5. /\ TableSound(table', alloclen)
      /\ Cardinality(UsedSlots(table')) = len + 1
      /\ Cardinality(FilledSlots(table')) = fill + 1
      /\ \A r \in UsedSlots(table') : table'[r].hash = HashOf[table'[r].key]
  <2>1. /\ e \in Entry /\ e.key \in Keys /\ e.key \notin KeysIn(table)
        /\ e.hash = HashOf[e.key] /\ OnProbe(table, alloclen, e.key, t)
      BY <1>2, <1>4, TableConstants DEF Entry
  <2> DEFINE new == [table EXCEPT ![t] = e]
  <2> HIDE DEF e
  <2>2. /\ TableSound(new, alloclen)
        /\ Cardinality(UsedSlots(new)) = len + 1
        /\ Cardinality(FilledSlots(new)) =
               IF table[t].key = NULL THEN fill + 1 ELSE fill
        /\ \A r \in UsedSlots(new) : new[r].hash = HashOf[new[r].key]
      BY <1>4, <2>1, CountsAfterPut
  <2> QED
      BY <1>3, <1>4, <2>2
<1>6. /\ fill' = fill + 1 /\ len' = len + 1
      /\ spaceleft' = Space(alloclen, fill')
      /\ pending' = NULL /\ oldkeys' = NoTable /\ scan' = 0 /\ keysleft' = 0
      /\ UNCHANGED <<alloclen, op, todo, hint, before, arg>>
    BY DEF ResizeDone
<1>7. fill' <= (alloclen * 2) \div 3
    BY <1>1, <1>2, <1>6 DEF Resizing, Space
<1>8. TypeOK'
  <2>1. fill' \in Nat /\ len' \in Nat /\ spaceleft' \in Int
      BY <1>2, <1>6 DEF Space
  <2> QED
      BY <1>5, <1>6, <2>1 DEF IInv, TypeOK, TableSound
<1>9. TableInv'
    BY <1>5, <1>6, <1>7 DEF TableInv, NullRemains
<1>10. NoResize' /\ SpaceleftFresh'
    BY <1>6 DEF NoResize, SpaceleftFresh
<1> QED
    BY <1>8, <1>9, <1>10 DEF IInv

LEMMA ClearInv ==
    ASSUME IInv, Clear
    PROVE  IInv'
<1>1. AllocLenMin \in AllocLens /\ AllocLenMin \in Nat
    BY TableConstants
<1>2. /\ table' = EmptyTable(AllocLenMin) /\ alloclen' = AllocLenMin
      /\ fill' = 0 /\ len' = 0 /\ op = "idle"
      /\ UNCHANGED <<pending, oldkeys, scan, keysleft>>
      /\ UNCHANGED <<op, todo, spaceleft, hint, before, arg>>
    BY DEF Clear, resizeVars, frameVars
<1>3. /\ TableSound(table', alloclen')
      /\ UsedSlots(table') = {} /\ FilledSlots(table') = {}
    BY <1>1, <1>2, EmptySound
<1>4. TypeOK'
    BY <1>1, <1>2, <1>3 DEF IInv, TypeOK, TableSound
<1>5. TableInv'
  <2>1. fill' <= (alloclen' * 2) \div 3
      BY <1>1, <1>2
  <2>2. fill' = Cardinality(FilledSlots(table')) /\ len' = Cardinality(UsedSlots(table'))
      BY <1>2, <1>3, FS_EmptySet
  <2> QED
      BY <1>3, <2>1, <2>2 DEF TableInv, NullRemains
<1>6. NoResize' /\ SpaceleftFresh'
    BY <1>2 DEF IInv, NoResize, Resizing, SpaceleftFresh
<1> QED
    BY <1>4, <1>5, <1>6 DEF IInv

\* set_pop: the finger goes into a slot that holds no key.
LEMMA PopInv ==
    ASSUME IInv, Pop
    PROVE  IInv'
<1>1. /\ op = "idle" /\ UNCHANGED <<pending, oldkeys, scan, keysleft>>
      /\ UNCHANGED <<op, todo, spaceleft, hint, before, arg>>
    BY DEF Pop, resizeVars, frameVars
<1>2. /\ alloclen \in AllocLens /\ alloclen \in Nat \ {0} /\ TableSound(table, alloclen)
      /\ fill \in Nat /\ len \in Nat
      /\ table \in [0 .. alloclen - 1 -> Entry]
    BY TableConstants DEF IInv, TypeOK, TableInv
<1>3. CASE UNCHANGED setVars
    BY <1>1, <1>3, TableKept DEF IInv, TypeOK, setVars, resizeVars, Resizing, NoResize
<1>4. CASE /\ len >= 1
           /\ \E s \in PopSlot :
                 table' = [RemoveKey(table, s) EXCEPT ![0].hash = s + 1]
           /\ len' = len - 1 /\ UNCHANGED <<alloclen, fill>>
  <2>1. PICK s \in PopSlot : table' = [RemoveKey(table, s) EXCEPT ![0].hash = s + 1]
      BY <1>4
  <2>2. s \in UsedSlots(table) /\ (0 \in UsedSlots(table) => s = 0)
      BY <2>1 DEF PopSlot
  <2>3. s \in Int /\ s + 1 \in Int
      BY <1>2, <2>2 DEF UsedSlots
  <2> DEFINE left == RemoveKey(table, s)
  <2>4. /\ TableSound(left, alloclen)
        /\ UsedSlots(left) = UsedSlots(table) \ {s}
        /\ FilledSlots(left) = FilledSlots(table)
      BY <1>2, <2>2, RemoveSound
  <2>5. \A r \in UsedSlots(left) : left[r] = table[r] /\ r # 0
      BY <1>2, <2>2, <2>4 DEF RemoveKey, UsedSlots
  <2> HIDE DEF left
  <2>6. /\ TableSound([left EXCEPT ![0].hash = s + 1], alloclen)
        /\ UsedSlots([left EXCEPT ![0].hash = s + 1]) = UsedSlots(left)
        /\ FilledSlots([left EXCEPT ![0].hash = s + 1]) = FilledSlots(left)
      BY <1>2, <2>3, <2>4, FingerSound
  <2>7. /\ TableSound(table', alloclen)
        /\ UsedSlots(table') = UsedSlots(table) \ {s}
        /\ FilledSlots(table') = FilledSlots(table)
      BY <2>1, <2>4, <2>6 DEF left
  <2>8. \A r \in UsedSlots(table') : table'[r].hash = HashOf[table'[r].key]
    <3>1. left \in [0 .. alloclen - 1 -> Entry]
        BY <2>4 DEF TableSound
    <3>2. \A r \in UsedSlots(table') : table'[r] = table[r] /\ r \in UsedSlots(table)
        BY <2>1, <2>4, <2>5, <2>7, <3>1 DEF left, UsedSlots
    <3> QED
        BY <3>2 DEF IInv, TableInv
  <2>9. len' = Cardinality(UsedSlots(table')) /\ len' \in Nat
    <3>1. IsFiniteSet(UsedSlots(table))
        BY <1>2, SlotsFinite
    <3>2. Cardinality(UsedSlots(table) \ {s}) = Cardinality(UsedSlots(table)) - 1
        BY <2>2, <3>1, FS_RemoveElement
    <3>3. len = Cardinality(UsedSlots(table))
        BY DEF IInv, TableInv
    <3>4. len' = len - 1 /\ len >= 1
        BY <1>4
    <3> QED
        BY <1>2, <2>7, <3>2, <3>3, <3>4
  <2>10. TypeOK'
      BY <1>1, <1>2, <1>4, <2>7, <2>9 DEF IInv, TypeOK, TableSound
  <2>11. TableInv'
      BY <1>4, <2>7, <2>8, <2>9 DEF IInv, TableInv, NullRemains
  <2>12. NoResize' /\ SpaceleftFresh'
      BY <1>1 DEF IInv, NoResize, Resizing, SpaceleftFresh
  <2> QED
      BY <2>10, <2>11, <2>12 DEF IInv
<1> QED
    BY <1>3, <1>4 DEF Pop


\* The steps of the loops.
LEMMA StepInv ==
    ASSUME IInv, Step
    PROVE  IInv'
<1>0. /\ op \in Ops \cup {"idle"} /\ todo \subseteq Keys /\ arg \subseteq Keys
      /\ before \subseteq Keys /\ hint \in Int /\ spaceleft \in Int
      /\ "idle" \notin Ops /\ NULL \notin Keys
      /\ op # "idle" /\ pending = NULL => spaceleft = Space(alloclen, fill)
    BY TableConstants DEF IInv, TypeOK, SpaceleftFresh, Ops, AddOps
<1>1. Cardinality(todo) - 1 \in Int
  <2>1. IsFiniteSet(todo)
      BY <1>0, TableConstants, FS_Subset
  <2> QED
      BY <2>1, FS_CardinalityType
\* A step that only goes on to the next key, or returns.
<1>2. ASSUME pending = NULL, op \in Ops, UNCHANGED <<setVars, resizeVars>>,
             \/ /\ UNCHANGED spaceleft
                /\ \E k : Continue(k)
             \/ \E r : Return(r)
      PROVE  IInv'
  <2>1. CASE UNCHANGED spaceleft /\ \E k : Continue(k)
      BY <1>0, <1>2, <2>1, TableKept DEF Continue
  <2>2. CASE \E r : Return(r)
      BY <1>2, <2>2, ReturnKept
  <2> QED
      BY <1>2, <2>1, <2>2
<1>3. ASSUME NEW k \in Keys, UpdateStep(k)
      PROVE  IInv'
  <2>1. pending = NULL /\ op \in Ops
      BY <1>3 DEF UpdateStep, Running, Ops, AddOps
  <2>2. PICK s \in LookKey(table, alloclen, k) :
            \/ /\ Found(s, k)
               /\ Continue(k)
               /\ UNCHANGED <<setVars, resizeVars, spaceleft>>
            \/ /\ ~Found(s, k)
               /\ PushNewKey(s, k, IF op = "update_iter" THEN hint
                                   ELSE Cardinality(todo) - 1)
      BY <1>3 DEF UpdateStep
  <2>3. (IF op = "update_iter" THEN hint ELSE Cardinality(todo) - 1) \in Int
      BY <1>0, <1>1
  <2>4. CASE Found(s, k)
      BY <1>2, <2>1, <2>2, <2>4
  <2>5. CASE ~Found(s, k)
      BY <2>1, <2>2, <2>3, <2>5, PushNewKeyInv
  <2> QED
      BY <2>4, <2>5
<1>4. ASSUME NEW k \in Keys, PushUniqueStep(k)
      PROVE  IInv'
  <2>1. pending = NULL /\ op \in Ops
      BY <1>4 DEF PushUniqueStep, Running, Ops, AddOps
  <2>2. PICK s \in LookKey(table, alloclen, k) :
            \/ Found(s, k) /\ Return("KeyError") /\ UNCHANGED <<setVars, resizeVars>>
            \/ ~Found(s, k) /\ PushNewKey(s, k, 0)
      BY <1>4 DEF PushUniqueStep
  <2>3. CASE Found(s, k)
      BY <1>2, <2>1, <2>2, <2>3
  <2>4. CASE ~Found(s, k)
      BY <2>1, <2>2, <2>4, PushNewKeyInv
  <2> QED
      BY <2>3, <2>4
<1>5. ASSUME NEW k \in Keys, SymmetricDifferenceStep(k)
      PROVE  IInv'
  <2>1. pending = NULL /\ op \in Ops
      BY <1>5 DEF SymmetricDifferenceStep, Running, Ops, AddOps
  <2>2. PICK s \in LookKey(table, alloclen, k) :
            \/ Found(s, k) /\ DropKey(s) /\ Continue(k) /\ UNCHANGED spaceleft
            \/ ~Found(s, k) /\ PushNewKey(s, k, Cardinality(todo) - 1)
      BY <1>5 DEF SymmetricDifferenceStep
  <2>3. CASE Found(s, k)
      BY <2>1, <2>2, <2>3, DropKeyInv
  <2>4. CASE ~Found(s, k)
      BY <1>1, <2>1, <2>2, <2>4, PushNewKeyInv
  <2> QED
      BY <2>3, <2>4
<1>6. ASSUME NEW k \in Keys, RemoveStep(k)
      PROVE  IInv'
  <2>1. pending = NULL /\ op \in Ops
      BY <1>6 DEF RemoveStep, Running, RemoveOps, ToEmptyOps, Ops, AddOps
  <2>2. PICK s \in LookKey(table, alloclen, k) :
            \/ Found(s, k) /\ DropKey(s) /\ Continue(k) /\ UNCHANGED spaceleft
            \/ Return("KeyError") /\ UNCHANGED <<setVars, resizeVars>>
            \/ Continue(k) /\ UNCHANGED <<setVars, resizeVars, spaceleft>>
      BY <1>6 DEF RemoveStep
  <2>3. CASE Found(s, k) /\ DropKey(s) /\ Continue(k) /\ UNCHANGED spaceleft
      BY <2>1, <2>2, <2>3, DropKeyInv
  <2> QED
      BY <1>2, <2>1, <2>2, <2>3
<1>7. ASSUME NEW k \in Keys, IntersectionStep(k)
      PROVE  IInv'
  <2>1. /\ pending = NULL /\ op \in Ops
        /\ Continue(k) /\ UNCHANGED spaceleft
      BY <1>7 DEF IntersectionStep, Running, Ops, AddOps
  <2>2. PICK s \in UsedSlots(table) :
            /\ Found(s, k)
            /\ \/ UNCHANGED <<setVars, resizeVars>>
               \/ DropKey(s)
      BY <1>7 DEF IntersectionStep
  <2>3. CASE UNCHANGED <<setVars, resizeVars>>
      BY <1>2, <2>1, <2>3
  <2>4. CASE DropKey(s)
    <3>1. s \in LookKey(table, alloclen, k)
      <4>1. k \in KeysIn(table)
          BY <2>2 DEF KeysIn, Found
      <4>2. PICK r \in LookKey(table, alloclen, k) : Found(r, k)
          BY <4>1, LookupInv
      <4>3. r \in UsedSlots(table)
          BY <4>2, LookupInv DEF UsedSlots, Found, IInv, TypeOK
      <4> QED
          BY <2>2, <4>2, <4>3 DEF IInv, TableInv, TableSound, Found
    <3> QED
        BY <2>1, <2>2, <2>4, <3>1, DropKeyInv
  <2> QED
      BY <2>2, <2>3, <2>4
<1>8. ASSUME NEW k \in Keys, IterNext(k) \/ IterNextIntersection(k)
      PROVE  IInv'
  <2>1. /\ pending = NULL /\ UNCHANGED <<setVars, resizeVars, op, spaceleft, before>>
        /\ hint' = hint - 1 /\ arg' = arg \cup {k}
        /\ todo' \in {{k}, todo \ {k}}
      BY <1>8 DEF IterNext, IterNextIntersection, Running, Yields
  <2> QED
      BY <1>0, <2>1, TableKept
<1>9. ASSUME DifferenceEmpty \/ IterStop \/ IterRaise \/ Done
      PROVE  IInv'
  <2>1. pending = NULL /\ UNCHANGED <<setVars, resizeVars>> /\ \E r : Return(r)
      BY <1>9 DEF DifferenceEmpty, IterStop, IterRaise, Done, Running
  <2> QED
      BY <2>1, ReturnKept
<1>10. ASSUME IterStopIntersection
       PROVE  IInv'
  <2>1. /\ pending = NULL /\ op \in Ops
        /\ op' = "intersection_rest" /\ hint' = 0
        /\ UNCHANGED <<setVars, resizeVars, todo, spaceleft, before, arg>>
      BY <1>10 DEF IterStopIntersection, Running, Ops, AddOps
  <2>2. "intersection_rest" \in Ops /\ 0 \in Int
      BY DEF Ops
  <2> QED
      BY <1>0, <2>1, <2>2, TableKept
<1> QED
    BY <1>3, <1>4, <1>5, <1>6, <1>7, <1>8, <1>9, <1>10,
       ResizeMoveInv, ResizeDoneInv DEF Step

\* A raise changes no table.
LEMMA KeyRaisesInv ==
    ASSUME IInv, NEW k \in Keys, KeyRaises(k)
    PROVE  IInv'
<1>1. pending = NULL /\ UNCHANGED <<setVars, resizeVars>> /\ Return("TypeError")
    BY DEF KeyRaises, Running
<1> QED
    BY <1>1, ReturnKept

\* The contents are keys.
LEMMA ContentsAreKeys ==
    ASSUME IInv
    PROVE  Contents \subseteq Keys
BY DEF Contents, KeysIn, UsedSlots

\* The beginning of a call.
LEMMA CallInv ==
    ASSUME IInv, Call
    PROVE  IInv'
<1>0. /\ op = "idle" => pending = NULL
      /\ AddOps \subseteq Ops /\ Contents \subseteq Keys
    BY ContentsAreKeys DEF IInv, NoResize, Resizing, Ops
<1>1. ASSUME NEW name \in Ops, NEW X, X \subseteq Keys, NEW left, left \subseteq Keys,
             NEW h \in Int, Begin(name, X, left, h)
      PROVE  IInv'
  <2>1. /\ op = "idle" /\ op' = name /\ todo' = left /\ arg' = X
        /\ before' = Contents /\ hint' = h
        /\ spaceleft' = Space(alloclen, fill)
        /\ UNCHANGED <<setVars, resizeVars>>
      BY <1>1 DEF Begin
  <2>2. spaceleft' \in Int
    <3>1. alloclen \in Int /\ fill \in Int
        BY TableConstants DEF IInv, TypeOK
    <3> QED
        BY <2>1, <3>1 DEF Space
  <2> QED
      BY <1>0, <1>1, <2>1, <2>2, TableKept
<1>2. ASSUME NEW k \in Keys,
             BeginPush(k) \/ BeginPushUnique(k) \/ BeginRemove(k) \/ BeginDiscard(k)
      PROVE  IInv'
  <2>1. PICK name \in {"push", "pushunique", "remove", "discard"} :
            Begin(name, {k}, {k}, 0)
      BY <1>2 DEF BeginPush, BeginPushUnique, BeginRemove, BeginDiscard
  <2>2. name \in Ops /\ {k} \subseteq Keys /\ 0 \in Int
      BY DEF Ops, AddOps
  <2> QED
      BY <1>1, <2>1, <2>2
<1>3. ASSUME NEW X \in Args,
             \/ BeginUpdate(X) \/ BeginSymmetricDifference(X)
             \/ BeginDifference(X) \/ BeginIntersection(X)
      PROVE  IInv'
  <2>1. X \subseteq Keys
      BY CallConstants
  <2>2. PICK name \in {"update", "symmetric_difference", "difference", "intersection"},
             left \in {X, Contents} : Begin(name, X, left, 0)
      BY <1>3 DEF BeginUpdate, BeginSymmetricDifference, BeginDifference,
                  BeginIntersection
  <2>3. name \in Ops /\ left \subseteq Keys /\ 0 \in Int
      BY <1>0, <2>1 DEF Ops, AddOps
  <2> QED
      BY <1>1, <2>1, <2>2, <2>3
<1>4. ASSUME NEW h \in Hints,
             \/ BeginUpdateIter(h) \/ BeginDifferenceIter(h)
             \/ BeginIntersectionIter(h)
      PROVE  IInv'
  <2>1. h \in Int
      BY CallConstants
  <2>2. CASE \E name \in {"update_iter", "difference_iter", "intersection_iter"},
                left \in {{}, Contents} : Begin(name, {}, left, h)
    <3>1. PICK name \in {"update_iter", "difference_iter", "intersection_iter"},
               left \in {{}, Contents} : Begin(name, {}, left, h)
        BY <2>2
    <3>2. name \in Ops /\ left \subseteq Keys /\ {} \subseteq Keys
        BY <1>0 DEF Ops, AddOps
    <3> QED
        BY <1>1, <2>1, <3>1, <3>2
  <2>3. CASE op = "idle" /\ Return("MemoryError") /\ UNCHANGED <<setVars, resizeVars>>
      BY <1>0, <2>3, ReturnKept
  <2> QED
      BY <1>4, <2>2, <2>3
      DEF BeginUpdateIter, BeginDifferenceIter, BeginIntersectionIter
<1> QED
    BY <1>2, <1>3, <1>4, ClearInv, PopInv DEF Call

LEMMA NextIInv == IInv /\ [Next]_vars => IInv'
<1>1. ASSUME IInv, UNCHANGED vars
      PROVE  IInv'
    BY <1>1, TableKept
    DEF vars, frameVars, setVars, resizeVars, IInv, TypeOK, NoResize, Resizing,
        SpaceleftFresh
<1> QED
    BY <1>1, CallInv, StepInv, KeyRaisesInv DEF Next

\* The invariant holds in every reachable state.
THEOREM Invariance == Spec => []IInv
BY InitIInv, NextIInv, PTL DEF Spec

\* Every variable keeps its type.
THEOREM TypeCorrect == Spec => []TypeOK
<1>1. IInv => TypeOK
    BY DEF IInv
<1> QED
    BY <1>1, Invariance, PTL

\* Whatever was pushed, removed and moved before, a lookup returns, and finds
\* a key exactly if the table holds it.
THEOREM LookupsAreExact == Spec => []LookupExact
<1>1. IInv => LookupExact
    BY LookupInv, TableConstants DEF LookupExact, Found, UsedSlots
<1> QED
    BY <1>1, Invariance, PTL


\* len, fill and the count of a resize are what the loops take them for.
THEOREM CountsAreRight == Spec => []CountsMatch
<1>1. ASSUME IInv
      PROVE  CountsMatch
  <2>1. fill = Cardinality(FilledSlots(table)) /\ len = Cardinality(UsedSlots(table))
      BY <1>1 DEF IInv, TableInv
  <2>2. CASE NoResize
    <3>1. Unmoved = {}
        BY <2>2 DEF NoResize, Unmoved, UsedSlots, NoTable
    <3> QED
        BY <2>1, <2>2, <3>1, FS_EmptySet DEF NoResize, CountsMatch
  <2>3. CASE Resizing
      BY <2>1, <2>3 DEF Resizing, CountsMatch
  <2> QED
      BY <1>1, <2>2, <2>3 DEF IInv
<1> QED
    BY <1>1, Invariance, PTL

\* No key is stored twice, in one table or in the two of a resize.
THEOREM KeysAreUnique == Spec => []NoDuplicates
<1>1. ASSUME IInv
      PROVE  NoDuplicates
  <2>1. \A r, s \in UsedSlots(table) : table[r].key = table[s].key => r = s
      BY <1>1 DEF IInv, TableInv, TableSound
  <2>2. CASE NoResize
    <3>1. Unmoved = {} /\ pending \notin Contents
        BY <1>1, <2>2, ContentsAreKeys, TableConstants
        DEF NoResize, Unmoved, UsedSlots, NoTable
    <3> QED
        BY <2>1, <3>1 DEF NoDuplicates
  <2>3. CASE Resizing
    <3>1. /\ \A s \in Unmoved : oldkeys[s].key \notin KeysIn(table) \cup {pending}
          /\ pending \notin KeysIn(table)
        BY <2>3 DEF Resizing
    <3>2. \A r \in UsedSlots(table) : table[r].key \in KeysIn(table)
        BY DEF KeysIn
    <3>3. pending \notin Contents
        BY <3>1 DEF Contents, Unmoved
    <3> QED
        BY <2>1, <3>1, <3>2, <3>3 DEF NoDuplicates
  <2> QED
      BY <1>1, <2>2, <2>3 DEF IInv
<1> QED
    BY <1>1, Invariance, PTL

\* A NULL slot is always left, a loop's space is the table's, a resize has
\* the room it needs, and every key keeps its hash.
THEOREM SpaceIsRight ==
    Spec => [](NullRemains /\ SpaceleftFresh /\ ResizeHasRoom /\ HashesKept)
<1>1. ASSUME IInv
      PROVE  NullRemains /\ SpaceleftFresh /\ ResizeHasRoom /\ HashesKept
  <2>1. /\ NullRemains /\ SpaceleftFresh
        /\ \A s \in UsedSlots(table) : table[s].hash = HashOf[table[s].key]
      BY <1>1 DEF IInv, TableInv
  <2>2. CASE NoResize
      BY <2>1, <2>2 DEF NoResize, ResizeHasRoom, HashesKept, Unmoved, UsedSlots, NoTable
  <2>3. CASE Resizing
      BY <2>1, <2>3 DEF Resizing, ResizeHasRoom, HashesKept
  <2> QED
      BY <1>1, <2>1, <2>2, <2>3 DEF IInv
<1> QED
    BY <1>1, Invariance, PTL

\* No search finger of set_pop, and no mark of a deleted key, ever replaces
\* the hash of a key, which comparing and hashing sets read.
THEOREM HashesAreKept == Spec => []HashesKept
BY SpaceIsRight, PTL

(***************************************************************************)
(* The set implements SetSpec, for any keys, hashes, table sizes,          *)
(* arguments and iterators: every step of a loop is a stutter of the       *)
(* abstract set, and every return has the effect and the result that       *)
(* SetSpec gives the call.                                                 *)
(***************************************************************************)

\* The keys of the set and the one a resize is making room for.
Held == Contents \cup ({pending} \ {NULL})

(***************************************************************************)
(* What a call has done so far: arg \ todo are the keys it has dealt with. *)
(* An iterator may yield a key twice, so that todo may hold a key that was *)
(* dealt with before.                                                      *)
(***************************************************************************)
AddsSoFar ==
    op \in {"push", "update", "update_iter"} =>
        /\ before \cup (arg \ todo) \subseteq Held
        /\ Held \subseteq before \cup arg

UniqueSoFar ==
    op = "pushunique" =>
        /\ Held = before \cup (arg \ todo) /\ todo \subseteq arg
        /\ \A j, k \in arg : j = k
        /\ (arg \ todo) \cap before = {}

TogglesSoFar ==
    op = "symmetric_difference" =>
        /\ Held = (before \ (arg \ todo)) \cup ((arg \ todo) \ before)
        /\ todo \subseteq arg

RemovesSoFar ==
    op \in {"discard", "difference", "difference_iter"} =>
        /\ before \ arg \subseteq Held
        /\ Held \subseteq before \ (arg \ todo)

RemoveSoFar ==
    op = "remove" =>
        /\ Held = before \ (arg \ todo) /\ todo \subseteq arg
        /\ \A j, k \in arg : j = k
        /\ arg \ todo \subseteq before

MeetsSoFar ==
    /\ op \in {"intersection", "intersection_rest"} =>
            /\ Held = todo \cup (before \cap arg) /\ todo \subseteq before
    /\ op = "intersection_rest" => todo \cap arg = {}
    /\ op = "intersection_iter" => Held = before /\ todo = before \ arg

FrameInv ==
    /\ op = "idle" => arg = {}
    /\ pending # NULL => op \in AddOps
    /\ op \in {"push", "update", "update_iter", "discard", "difference",
               "difference_iter"} => todo \subseteq arg
    /\ AddsSoFar /\ UniqueSoFar /\ TogglesSoFar
    /\ RemovesSoFar /\ RemoveSoFar /\ MeetsSoFar

RInv == IInv /\ FrameInv

(***************************************************************************)
(* What the table's operations do to Held.                                 *)
(***************************************************************************)
LEMMA IdleHeld == ASSUME pending = NULL PROVE Held = Contents
BY DEF Held

LEMMA ContentsNoResize == ASSUME NoResize PROVE Contents = KeysIn(table)
BY DEF Contents, NoResize, NoTable, UsedSlots

LEMMA NotResizing == ASSUME IInv, pending = NULL PROVE NoResize
BY TableConstants DEF IInv, Resizing

LEMMA HeldKept ==
    ASSUME UNCHANGED <<setVars, resizeVars>>
    PROVE  Held' = Held /\ Contents' = Contents
BY DEF Held, Contents, setVars, resizeVars

LEMMA MoveHeld ==
    ASSUME IInv, pending = NULL, NEW k \in Keys, NEW s \in LookKey(table, alloclen, k),
           ~Found(s, k), MoveKey(s, k)
    PROVE  Held' = Held \cup {k} /\ pending' = NULL
<1> DEFINE e == [key |-> k, hash |-> HashOf[k]]
<1>1. /\ e \in Entry /\ e.key = k /\ e.key \in Keys /\ e.hash = HashOf[e.key]
    BY TableConstants DEF Entry
<1>2. /\ s \in 0 .. alloclen - 1 /\ e.key \notin KeysIn(table)
      /\ table[s].key \in {NULL, Dummy} /\ OnProbe(table, alloclen, e.key, s)
    BY LookupInv
<1>3. /\ table' = [table EXCEPT ![s] = e]
      /\ UNCHANGED <<pending, oldkeys, scan, keysleft>>
    BY DEF MoveKey, PutKey, resizeVars
<1> HIDE DEF e
<1>4. KeysIn(table') = KeysIn(table) \cup {e.key}
    BY <1>1, <1>2, <1>3, CountsAfterPut
<1>5. NoResize /\ NoResize'
    BY <1>3, NotResizing DEF NoResize
<1>6. Contents' = KeysIn(table')
    BY <1>5, ContentsNoResize DEF Contents, NoResize, NoTable, UsedSlots
<1> QED
    BY <1>1, <1>3, <1>4, <1>5, <1>6, ContentsNoResize, IdleHeld DEF Held

LEMMA BeginResizeHeld ==
    ASSUME IInv, pending = NULL, NEW k \in Keys, NEW m, m \in Nat, m <= SetLenMax,
           BeginResize(k, m)
    PROVE  Held' = Held \cup {k}
<1>1. /\ table' = EmptyTable(alloclen') /\ alloclen' = CalcAllocLen(m)
      /\ pending' = k /\ oldkeys' = table /\ scan' = 0
    BY DEF BeginResize
<1>2. alloclen' \in AllocLens
    BY <1>1, CalcAllocLenFits
<1>3. KeysIn(table') = {}
    BY <1>1, <1>2, EmptySound
<1>4. {r \in UsedSlots(table) : r >= 0} = UsedSlots(table)
  <2>1. UsedSlots(table) \subseteq 0 .. alloclen - 1
      BY SlotsFinite DEF IInv, TypeOK
  <2> QED
      BY <2>1
<1>5. Contents' = KeysIn(table)
    BY <1>1, <1>3, <1>4 DEF Contents, KeysIn
<1>6. Contents = KeysIn(table)
    BY NotResizing, ContentsNoResize
<1> QED
    BY <1>1, <1>5, <1>6, TableConstants DEF Held

LEMMA DropHeld ==
    ASSUME IInv, pending = NULL, NEW k \in Keys, NEW s \in UsedSlots(table),
           Found(s, k), DropKey(s)
    PROVE  Held' = Held \ {k} /\ pending' = NULL
<1>1. /\ table' = RemoveKey(table, s)
      /\ UNCHANGED <<pending, oldkeys, scan, keysleft>>
    BY DEF DropKey, resizeVars
<1>2. KeysIn(table') = KeysIn(table) \ {k}
  <2>1. alloclen \in AllocLens /\ TableSound(table, alloclen) /\ table[s].key = k
      BY DEF IInv, TypeOK, TableInv, Found
  <2>2. KeysIn(RemoveKey(table, s)) = KeysIn(table) \ {table[s].key}
      BY <2>1, RemoveSound
  <2> QED
      BY <1>1, <2>1, <2>2
<1>3. NoResize /\ NoResize'
    BY <1>1, NotResizing DEF NoResize
<1>4. Contents' = KeysIn(table')
    BY <1>3, ContentsNoResize DEF Contents, NoResize, NoTable, UsedSlots
<1> QED
    BY <1>1, <1>2, <1>3, <1>4, ContentsNoResize, IdleHeld DEF Held

\* A key moves from the old table of a resize to the new one.
LEMMA ResizeMoveHeld ==
    ASSUME IInv, ResizeMove
    PROVE  Held' = Held /\ pending' = pending
<1>1. Resizing
    BY TableConstants DEF IInv, NoResize, ResizeMove
<1>2. PICK s \in UsedSlots(oldkeys) :
          /\ s >= scan /\ \A r \in UsedSlots(oldkeys) : r >= scan => s <= r
          /\ \E t \in CleanSlot(table, alloclen, oldkeys[s].key) :
                table' = [table EXCEPT ![t] = oldkeys[s]]
          /\ scan' = s + 1
    BY DEF ResizeMove
<1>3. PICK t \in CleanSlot(table, alloclen, oldkeys[s].key) :
          table' = [table EXCEPT ![t] = oldkeys[s]]
    BY <1>2
<1>4. PICK n \in AllocLens : TableSound(oldkeys, n)
    BY <1>1 DEF Resizing
<1>5. /\ UsedSlots(oldkeys) \subseteq 0 .. n - 1 /\ scan \in Nat
      /\ oldkeys[s] \in Entry /\ oldkeys[s].key \in Keys
  <2>1. oldkeys \in [0 .. n - 1 -> Entry]
      BY <1>4 DEF TableSound
  <2>2. UsedSlots(oldkeys) \subseteq 0 .. n - 1
      BY <2>1, SlotsFinite
  <2> QED
      BY <2>1, <2>2 DEF UsedSlots, IInv, TypeOK
<1>6. /\ oldkeys[s].key \notin KeysIn(table)
      /\ oldkeys[s].hash = HashOf[oldkeys[s].key]
    BY <1>1, <1>2 DEF Resizing, Unmoved
<1>7. /\ t \in 0 .. alloclen - 1 /\ table[t].key = NULL
      /\ OnProbe(table, alloclen, oldkeys[s].key, t)
  <2>1. alloclen \in AllocLens /\ TableSound(table, alloclen)
      BY DEF IInv, TypeOK, TableInv
  <2>2. \E q \in 0 .. alloclen - 1 : table[q].key = NULL
      BY <2>1, NullSlotExists DEF IInv, TypeOK, TableInv, NullRemains
  <2> QED
      BY <1>3, <1>5, <2>1, <2>2, CleanSlotFinds
<1>8. KeysIn(table') = KeysIn(table) \cup {oldkeys[s].key}
    BY <1>3, <1>5, <1>6, <1>7, CountsAfterPut
<1>9. {r \in UsedSlots(oldkeys) : r >= s + 1}
          = {r \in UsedSlots(oldkeys) : r >= scan} \ {s}
    BY <1>2, <1>5
<1>10. pending' = pending /\ oldkeys' = oldkeys
    BY DEF ResizeMove
<1>11. Contents' = Contents
    BY <1>2, <1>8, <1>9, <1>10 DEF Contents
<1> QED
    BY <1>10, <1>11 DEF Held

\* The pending key is in.
LEMMA ResizeDoneHeld ==
    ASSUME IInv, ResizeDone
    PROVE  Held' = Held /\ pending' = NULL
<1> DEFINE e == [key |-> pending, hash |-> HashOf[pending]]
<1>1. Resizing /\ keysleft = 0
    BY TableConstants DEF IInv, NoResize, ResizeDone
<1>2. /\ alloclen \in AllocLens /\ TableSound(table, alloclen)
      /\ pending \in Keys /\ pending \notin KeysIn(table)
    BY <1>1 DEF IInv, TypeOK, TableInv, Resizing
<1>3. PICK t \in CleanSlot(table, alloclen, pending) :
          table' = [table EXCEPT ![t] = e]
    BY DEF ResizeDone, PutKey
<1>4. /\ t \in 0 .. alloclen - 1 /\ table[t].key = NULL
      /\ OnProbe(table, alloclen, pending, t)
  <2>1. \E q \in 0 .. alloclen - 1 : table[q].key = NULL
      BY <1>2, NullSlotExists DEF IInv, TypeOK, TableInv, NullRemains
  <2> QED
      BY <1>2, <1>3, <2>1, CleanSlotFinds
<1>5. /\ e \in Entry /\ e.key = pending /\ e.key \in Keys /\ e.hash = HashOf[e.key]
    BY <1>2, TableConstants DEF Entry
<1> HIDE DEF e
<1>6. KeysIn(table') = KeysIn(table) \cup {pending}
    BY <1>2, <1>3, <1>4, <1>5, CountsAfterPut
<1>7. Unmoved = {}
  <2>1. PICK n \in AllocLens : TableSound(oldkeys, n)
      BY <1>1 DEF Resizing
  <2>2. IsFiniteSet(UsedSlots(oldkeys))
      BY <2>1, SlotsFinite DEF TableSound
  <2>3. IsFiniteSet(Unmoved)
      BY <2>2, FS_Subset DEF Unmoved
  <2> QED
      BY <1>1, <2>3, FS_EmptySet DEF Resizing
<1>8. NoResize' /\ pending' = NULL
    BY DEF ResizeDone, NoResize
<1>9. Contents = KeysIn(table)
    BY <1>7 DEF Contents, Unmoved
<1>10. Contents' = KeysIn(table')
    BY <1>8, ContentsNoResize DEF Contents, NoResize, NoTable, UsedSlots
<1> QED
    BY <1>2, <1>6, <1>8, <1>9, <1>10, TableConstants DEF Held

\* A push stores its key, makes room for it, or fails and returns.
LEMMA PushNewKeyHeld ==
    ASSUME IInv, pending = NULL, op \in Ops, NEW k \in Keys,
           NEW s \in LookKey(table, alloclen, k), ~Found(s, k),
           NEW growhint \in Int, PushNewKey(s, k, growhint)
    PROVE  \/ Held' = Held \cup {k} /\ Continue(k)
           \/ /\ UNCHANGED <<setVars, resizeVars>>
              /\ \E r \in {"MemoryError", "MemorySizeOverflowError"} : Return(r)
<1>1. CASE MoveKey(s, k) /\ Continue(k)
    BY <1>1, MoveHeld
<1>2. CASE /\ len <= SetLenMax - 1
           /\ BeginResize(k, GrowTo(len, growhint)) /\ Continue(k)
  <2>1. len \in Nat
      BY DEF IInv, TypeOK
  <2>2. GrowTo(len, growhint) \in Nat /\ GrowTo(len, growhint) <= SetLenMax
      BY <1>2, <2>1, GrowToBounds
  <2> QED
      BY <1>2, <2>2, BeginResizeHeld
<1> QED
    BY <1>1, <1>2 DEF PushNewKey

(***************************************************************************)
(* The simulation.  While a call runs the abstract set does not change;    *)
(* when it returns, its contents become what is held.                      *)
(***************************************************************************)
LEMMA GoesOn ==
    ASSUME op \in Ops, UNCHANGED <<op, before, arg, ret>>
    PROVE  UNCHANGED Abstract!vars
BY DEF Abstract!vars, ContentsSeen, CallSeen, Ops, AddOps

LEMMA Returns ==
    ASSUME RInv, op \in Ops, pending = NULL, NEW r, Return(r),
           UNCHANGED <<setVars, resizeVars>>
    PROVE  /\ Abstract!Return(r, Held) /\ FrameInv'
           /\ ContentsSeen = before /\ CallSeen.keys = arg
<1>1. op' = "idle" /\ todo' = {} /\ arg' = {} /\ ret' = r
    BY DEF Return
<1>2. Contents' = Held
    BY IdleHeld, HeldKept
<1>3. ContentsSeen' = Held /\ CallSeen' = Abstract!NoCall
    BY <1>1, <1>2 DEF ContentsSeen, CallSeen, Abstract!NoCall
<1>4. FrameInv'
    BY <1>1, HeldKept
    DEF FrameInv, AddsSoFar, UniqueSoFar, TogglesSoFar, RemovesSoFar, RemoveSoFar,
        MeetsSoFar, resizeVars
<1> QED
    BY <1>1, <1>3, <1>4 DEF Abstract!Return, ContentsSeen, CallSeen, Ops, AddOps

\* FrameInv is kept by a step that deals with key k as the call is meant to.
LEMMA DealsWith ==
    ASSUME RInv, op \in Ops, pending = NULL, NEW k \in todo, Continue(k),
           pending' # NULL => op \in AddOps,
           op \in {"push", "pushunique", "update", "update_iter"} =>
               Held' = Held \cup {k},
           op = "pushunique" => k \notin Held,
           op = "symmetric_difference" =>
               Held' = IF k \in Held THEN Held \ {k} ELSE Held \cup {k},
           op \in RemoveOps => Held' = Held \ {k},
           op = "remove" => k \in Held,
           op = "intersection" =>
               Held' = IF k \in arg THEN Held ELSE Held \ {k},
           op # "intersection_iter"
    PROVE  FrameInv'
<1>1. UNCHANGED <<op, before, arg>> /\ todo' = todo \ {k}
    BY DEF Continue
<1>2. op \in Ops /\ op # "idle"
    BY DEF Ops, AddOps
<1>3. k \in arg => arg \ todo' = (arg \ todo) \cup {k}
    BY <1>1
<1>4. AddsSoFar' /\ UniqueSoFar'
  <2>1. CASE op \in {"push", "pushunique", "update", "update_iter"}
      BY <1>1, <1>3, <2>1 DEF RInv, FrameInv, AddsSoFar, UniqueSoFar
  <2> QED
      BY <1>1, <2>1 DEF AddsSoFar, UniqueSoFar
<1>5. TogglesSoFar'
  <2>1. CASE op = "symmetric_difference"
      BY <1>1, <1>3, <2>1 DEF RInv, FrameInv, TogglesSoFar
  <2> QED
      BY <1>1, <2>1 DEF TogglesSoFar
<1>6. RemovesSoFar' /\ RemoveSoFar'
  <2>1. CASE op \in RemoveOps
      BY <1>1, <1>3, <2>1 DEF RInv, FrameInv, RemovesSoFar, RemoveSoFar, RemoveOps, ToEmptyOps
  <2> QED
      BY <1>1, <2>1 DEF RemovesSoFar, RemoveSoFar, RemoveOps, ToEmptyOps
<1>7. MeetsSoFar'
  <2>1. CASE op \in {"intersection", "intersection_rest"}
      BY <1>1, <2>1 DEF RInv, FrameInv, MeetsSoFar, RemoveOps, ToEmptyOps
  <2> QED
      BY <1>1, <2>1 DEF MeetsSoFar
<1> QED
    BY <1>1, <1>2, <1>4, <1>5, <1>6, <1>7 DEF RInv, FrameInv

\* The outcome of a lookup, in terms of what is held.
LEMMA LookupHeld ==
    ASSUME IInv, pending = NULL, NEW k \in Keys, NEW s \in LookKey(table, alloclen, k)
    PROVE  /\ Found(s, k) <=> k \in Held
           /\ Found(s, k) => s \in UsedSlots(table)
<1>1. Held = KeysIn(table)
    BY NotResizing, ContentsNoResize, IdleHeld
<1>2. table \in [0 .. alloclen - 1 -> Entry]
    BY DEF IInv, TypeOK
<1> QED
    BY <1>1, <1>2, LookupInv DEF Found, UsedSlots

Simulates == FrameInv' /\ [Abstract!Next]_(Abstract!vars)

\* The failures of a push that found no memory.
LEMMA PushFails ==
    ASSUME RInv, op \in AddOps, pending = NULL, NEW k \in todo, k \notin Held,
           UNCHANGED <<setVars, resizeVars>>,
           NEW r \in {"MemoryError", "MemorySizeOverflowError"}, Return(r)
    PROVE  Simulates
<1>1. /\ Abstract!Return(r, Held) /\ FrameInv'
      /\ ContentsSeen = before /\ CallSeen.keys = arg
    BY Returns DEF Ops
<1>2. CallSeen.op = op /\ r \in Abstract!MemoryErrors
    BY DEF CallSeen, AddOps, Abstract!MemoryErrors
<1>6. r \in Abstract!Errors
    BY <1>2 DEF Abstract!Errors
<1>3. CASE op \in {"push", "update", "update_iter"}
  <2>1. Held = before \cup (Held \cap arg) /\ Held \cap arg \in SUBSET arg
      BY <1>3 DEF RInv, FrameInv, AddsSoFar
  <2> DEFINE X == Held \cap arg
  <2>2. X \in SUBSET CallSeen.keys /\ Abstract!Return(r, ContentsSeen \cup X)
      BY <1>1, <2>1
  <2> HIDE DEF X
  <2>3. Abstract!Add
      BY <1>2, <1>3, <1>6, <2>2 DEF Abstract!Add, Abstract!AddOps
  <2> QED
      BY <1>1, <2>3 DEF Simulates, Abstract!Next
<1>4. CASE op = "pushunique"
  <2>1. Held = before /\ arg \cap before = {}
      BY <1>4 DEF RInv, FrameInv, UniqueSoFar
  <2>2. Abstract!PushUnique
      BY <1>1, <1>2, <1>4, <2>1 DEF Abstract!PushUnique
  <2> QED
      BY <1>1, <2>2 DEF Simulates, Abstract!Next
<1>5. CASE op = "symmetric_difference"
  <2>1. Held = Abstract!SymDiff(before, arg \ todo) /\ arg \ todo \in SUBSET arg
      BY <1>5 DEF RInv, FrameInv, TogglesSoFar, Abstract!SymDiff
  <2>2. Abstract!SymmetricDifference
      BY <1>1, <1>2, <1>5, <1>6, <2>1 DEF Abstract!SymmetricDifference
  <2> QED
      BY <1>1, <2>2 DEF Simulates, Abstract!Next
<1> QED
    BY <1>3, <1>4, <1>5 DEF AddOps

\* What was done before a key raised stays done.
LEMMA KeyRaisesSimulates ==
    ASSUME RInv, NEW k \in Keys, KeyRaises(k)
    PROVE  Simulates
<1>0. /\ op \in Ops \ {"intersection_iter"} /\ pending = NULL /\ k \in todo
      /\ UNCHANGED <<setVars, resizeVars>> /\ Return("TypeError")
    BY DEF KeyRaises, Running
<1>1. /\ Abstract!Return("TypeError", Held) /\ FrameInv'
      /\ ContentsSeen = before /\ CallSeen.keys = arg
    BY <1>0, Returns
<1>2. CallSeen.op = IF op = "intersection_rest" THEN "intersection_iter" ELSE op
    BY DEF CallSeen
<1>3. "TypeError" \in Abstract!Errors
    BY DEF Abstract!Errors
<1>4. CASE op \in {"push", "update", "update_iter"}
  <2> DEFINE X == Held \cap arg
  <2>1. Held = before \cup X /\ X \in SUBSET arg
      BY <1>4 DEF RInv, FrameInv, AddsSoFar
  <2> HIDE DEF X
  <2>2. Abstract!Add
      BY <1>1, <1>2, <1>3, <1>4, <2>1 DEF Abstract!Add, Abstract!AddOps
  <2> QED
      BY <1>1, <2>2 DEF Simulates, Abstract!Next
<1>5. CASE op = "pushunique"
  <2>1. Held = before
      BY <1>0, <1>5 DEF RInv, FrameInv, UniqueSoFar
  <2>2. Abstract!PushUnique
      BY <1>1, <1>2, <1>5, <2>1 DEF Abstract!PushUnique
  <2> QED
      BY <1>1, <2>2 DEF Simulates, Abstract!Next
<1>6. CASE op = "symmetric_difference"
  <2>1. Held = Abstract!SymDiff(before, arg \ todo) /\ arg \ todo \in SUBSET arg
      BY <1>6 DEF RInv, FrameInv, TogglesSoFar, Abstract!SymDiff
  <2>2. Abstract!SymmetricDifference
      BY <1>1, <1>2, <1>3, <1>6, <2>1 DEF Abstract!SymmetricDifference
  <2> QED
      BY <1>1, <2>2 DEF Simulates, Abstract!Next
<1>7. CASE op = "remove"
  <2>1. Held = before
      BY <1>0, <1>7 DEF RInv, FrameInv, RemoveSoFar
  <2>2. Abstract!Remove
      BY <1>1, <1>2, <1>7, <2>1 DEF Abstract!Remove
  <2> QED
      BY <1>1, <2>2 DEF Simulates, Abstract!Next
<1>8. CASE op \in {"discard", "difference", "difference_iter"}
  <2> DEFINE X == arg \ Held
  <2>1. Held = before \ X /\ X \in SUBSET arg
      BY <1>8 DEF RInv, FrameInv, RemovesSoFar
  <2> HIDE DEF X
  <2>2. Abstract!Drop
      BY <1>1, <1>2, <1>8, <2>1 DEF Abstract!Drop, Abstract!DropOps
  <2> QED
      BY <1>1, <2>2 DEF Simulates, Abstract!Next
<1>9. CASE op \in {"intersection", "intersection_rest"}
  <2> DEFINE X == before \ Held
  <2>1. Held = before \ X /\ X \in SUBSET (before \ arg)
      BY <1>9 DEF RInv, FrameInv, MeetsSoFar
  <2> HIDE DEF X
  <2>2. Abstract!Meet
      BY <1>1, <1>2, <1>9, <2>1 DEF Abstract!Meet, Abstract!MeetOps
  <2> QED
      BY <1>1, <2>2 DEF Simulates, Abstract!Next
<1> QED
    BY <1>0, <1>4, <1>5, <1>6, <1>7, <1>8, <1>9 DEF Ops, AddOps

LEMMA StepSimulates ==
    ASSUME RInv, Step
    PROVE  Simulates
<1>0. /\ IInv /\ todo \subseteq Keys /\ arg \subseteq Keys /\ NULL \notin Keys
      /\ "idle" \notin Ops /\ AddOps \subseteq Ops /\ RemoveOps \subseteq Ops
    BY TableConstants
    DEF RInv, IInv, TypeOK, Ops, AddOps, RemoveOps, ToEmptyOps
<1>1. ASSUME op \in Ops, UNCHANGED <<op, before, arg, ret>>, FrameInv'
      PROVE  Simulates
    BY <1>1, GoesOn DEF Simulates
<1>2. \A k : Continue(k) => UNCHANGED <<op, before, arg, ret>>
    BY DEF Continue
<1>3. hint \in Int /\ Cardinality(todo) - 1 \in Int
  <2>1. IsFiniteSet(todo)
      BY <1>0, TableConstants, FS_Subset
  <2> QED
      BY <2>1, FS_CardinalityType DEF RInv, IInv, TypeOK
\* A push of an absent key, whatever becomes of it.
<1>4. ASSUME NEW k \in todo, pending = NULL, op \in AddOps,
             NEW s \in LookKey(table, alloclen, k), ~Found(s, k),
             NEW growhint \in Int, PushNewKey(s, k, growhint)
      PROVE  Simulates
  <2>1. k \in Keys /\ op \in Ops /\ k \notin Held
      BY <1>0, <1>4, LookupHeld
  <2>2. CASE Held' = Held \cup {k} /\ Continue(k)
    <3>1. /\ op \notin RemoveOps /\ op # "intersection" /\ op # "intersection_iter"
        BY <1>4 DEF AddOps, RemoveOps, ToEmptyOps
    <3>2. FrameInv'
        BY <1>4, <2>1, <2>2, <3>1, DealsWith DEF RemoveOps, ToEmptyOps
    <3> QED
        BY <1>1, <1>2, <2>1, <2>2, <3>2
  <2>3. CASE /\ UNCHANGED <<setVars, resizeVars>>
             /\ \E r \in {"MemoryError", "MemorySizeOverflowError"} : Return(r)
      BY <1>4, <2>1, <2>3, PushFails
  <2> QED
      BY <1>0, <1>4, <2>1, <2>2, <2>3, PushNewKeyHeld
<1>5. ASSUME NEW k \in Keys, UpdateStep(k)
      PROVE  Simulates
  <2>1. /\ pending = NULL /\ op \in {"push", "update", "update_iter"} /\ k \in todo
        /\ op \in AddOps /\ op \in Ops
      BY <1>5 DEF UpdateStep, Running, Ops, AddOps
  <2>2. PICK s \in LookKey(table, alloclen, k) :
            \/ /\ Found(s, k)
               /\ Continue(k)
               /\ UNCHANGED <<setVars, resizeVars, spaceleft>>
            \/ /\ ~Found(s, k)
               /\ PushNewKey(s, k, IF op = "update_iter" THEN hint
                                   ELSE Cardinality(todo) - 1)
      BY <1>5 DEF UpdateStep
  <2>3. (IF op = "update_iter" THEN hint ELSE Cardinality(todo) - 1) \in Int
      BY <1>3
  <2>4. CASE Found(s, k)
    <3>1. k \in Held /\ Held' = Held /\ Continue(k) /\ pending' = NULL
        BY <1>0, <2>1, <2>2, <2>4, LookupHeld, HeldKept DEF resizeVars
    <3>2. Held' = Held \cup {k}
        BY <3>1
    <3>3. FrameInv'
        BY <2>1, <3>1, <3>2, DealsWith DEF RemoveOps, ToEmptyOps
    <3> QED
        BY <1>1, <1>2, <2>1, <3>1, <3>3
  <2>5. CASE ~Found(s, k)
      BY <1>4, <2>1, <2>2, <2>3, <2>5
  <2> QED
      BY <2>4, <2>5
<1>6. ASSUME NEW k \in Keys, PushUniqueStep(k)
      PROVE  Simulates
  <2>1. pending = NULL /\ op = "pushunique" /\ k \in todo /\ op \in AddOps /\ op \in Ops
      BY <1>6 DEF PushUniqueStep, Running, Ops, AddOps
  <2>2. PICK s \in LookKey(table, alloclen, k) :
            \/ Found(s, k) /\ Return("KeyError") /\ UNCHANGED <<setVars, resizeVars>>
            \/ ~Found(s, k) /\ PushNewKey(s, k, 0)
      BY <1>6 DEF PushUniqueStep
  <2>3. CASE Found(s, k)
    <3>1. /\ Abstract!Return("KeyError", Held) /\ FrameInv'
          /\ ContentsSeen = before /\ CallSeen.keys = arg /\ CallSeen.op = op
        BY <2>1, <2>2, <2>3, Returns DEF CallSeen
    <3>2. Held = before /\ arg \subseteq before
        BY <1>0, <2>1, <2>3, LookupHeld DEF RInv, FrameInv, UniqueSoFar
    <3>3. Abstract!PushUnique
        BY <2>1, <3>1, <3>2 DEF Abstract!PushUnique
    <3> QED
        BY <3>1, <3>3 DEF Simulates, Abstract!Next
  <2>4. CASE ~Found(s, k)
      BY <1>4, <2>1, <2>2, <2>4
  <2> QED
      BY <2>3, <2>4
<1>7. ASSUME NEW k \in Keys, SymmetricDifferenceStep(k)
      PROVE  Simulates
  <2>1. /\ pending = NULL /\ op = "symmetric_difference" /\ k \in todo
        /\ op \in AddOps /\ op \in Ops
      BY <1>7 DEF SymmetricDifferenceStep, Running, Ops, AddOps
  <2>2. PICK s \in LookKey(table, alloclen, k) :
            \/ Found(s, k) /\ DropKey(s) /\ Continue(k) /\ UNCHANGED spaceleft
            \/ ~Found(s, k) /\ PushNewKey(s, k, Cardinality(todo) - 1)
      BY <1>7 DEF SymmetricDifferenceStep
  <2>3. CASE Found(s, k)
    <3>1. /\ k \in Held /\ Held' = Held \ {k} /\ Continue(k) /\ pending' = NULL
        BY <1>0, <2>1, <2>2, <2>3, LookupHeld, DropHeld
    <3>2. FrameInv'
        BY <2>1, <3>1, DealsWith DEF RemoveOps, ToEmptyOps
    <3> QED
        BY <1>1, <1>2, <2>1, <3>1, <3>2
  <2>4. CASE ~Found(s, k)
      BY <1>3, <1>4, <2>1, <2>2, <2>4
  <2> QED
      BY <2>3, <2>4
<1>8. ASSUME NEW k \in Keys, RemoveStep(k)
      PROVE  Simulates
  <2>1. /\ pending = NULL /\ op \in RemoveOps /\ k \in todo /\ op \in Ops
        /\ op \notin {"push", "pushunique", "update", "update_iter"}
        /\ op # "symmetric_difference" /\ op # "intersection" /\ op # "intersection_iter"
      BY <1>0, <1>8 DEF RemoveStep, Running, RemoveOps, ToEmptyOps
  <2>2. PICK s \in LookKey(table, alloclen, k) :
            \/ /\ Found(s, k)
               /\ DropKey(s) /\ Continue(k) /\ UNCHANGED spaceleft
            \/ /\ ~Found(s, k) /\ op = "remove"
               /\ Return("KeyError") /\ UNCHANGED <<setVars, resizeVars>>
            \/ /\ ~Found(s, k) /\ op # "remove"
               /\ Continue(k) /\ UNCHANGED <<setVars, resizeVars, spaceleft>>
      BY <1>8 DEF RemoveStep
  <2>3. CASE Found(s, k)
    <3>1. /\ k \in Held /\ Held' = Held \ {k} /\ Continue(k) /\ pending' = NULL
        BY <1>0, <2>1, <2>2, <2>3, LookupHeld, DropHeld
    <3>2. FrameInv'
        BY <2>1, <3>1, DealsWith
    <3> QED
        BY <1>1, <1>2, <2>1, <3>1, <3>2
  <2>4. CASE ~Found(s, k) /\ op = "remove"
    <3>1. /\ Abstract!Return("KeyError", Held) /\ FrameInv'
          /\ ContentsSeen = before /\ CallSeen.keys = arg /\ CallSeen.op = op
        BY <2>1, <2>2, <2>4, Returns DEF CallSeen
    <3>2. Held = before /\ arg \cap before = {}
      <4>1. k \notin Held /\ k \in arg /\ \A j \in arg : j = k
          BY <1>0, <2>1, <2>4, LookupHeld DEF RInv, FrameInv, RemoveSoFar
      <4>2. Held = before \ (arg \ todo)
          BY <2>4 DEF RInv, FrameInv, RemoveSoFar
      <4> QED
          BY <2>1, <4>1, <4>2
    <3>3. Abstract!Remove
        BY <2>4, <3>1, <3>2 DEF Abstract!Remove
    <3> QED
        BY <3>1, <3>3 DEF Simulates, Abstract!Next
  <2>5. CASE ~Found(s, k) /\ op # "remove"
    <3>1. /\ k \notin Held /\ Held' = Held /\ Continue(k) /\ pending' = NULL
        BY <1>0, <2>1, <2>2, <2>5, LookupHeld, HeldKept DEF resizeVars
    <3>2. Held' = Held \ {k}
        BY <3>1
    <3>3. FrameInv'
        BY <2>1, <2>5, <3>1, <3>2, DealsWith
    <3> QED
        BY <1>1, <1>2, <2>1, <3>1, <3>3
  <2> QED
      BY <2>3, <2>4, <2>5
<1>9. ASSUME NEW k \in Keys, IntersectionStep(k)
      PROVE  Simulates
  <2>1. /\ pending = NULL /\ op = "intersection" /\ k \in todo /\ op \in Ops
        /\ Continue(k)
      BY <1>9 DEF IntersectionStep, Running, Ops
  <2>2. PICK s \in UsedSlots(table) :
            /\ Found(s, k)
            /\ \/ k \in arg /\ UNCHANGED <<setVars, resizeVars>>
               \/ k \notin arg /\ DropKey(s)
      BY <1>9 DEF IntersectionStep
  <2>3. CASE k \in arg
    <3>1. Held' = Held /\ pending' = NULL
        BY <2>1, <2>2, <2>3, HeldKept DEF resizeVars
    <3>2. FrameInv'
        BY <2>1, <2>3, <3>1, DealsWith DEF RemoveOps, ToEmptyOps
    <3> QED
        BY <1>1, <1>2, <2>1, <3>2
  <2>4. CASE k \notin arg
    <3>1. Held' = Held \ {k} /\ pending' = NULL
        BY <1>0, <2>1, <2>2, <2>4, DropHeld
    <3>2. FrameInv'
        BY <2>1, <2>4, <3>1, DealsWith DEF RemoveOps, ToEmptyOps
    <3> QED
        BY <1>1, <1>2, <2>1, <3>2
  <2> QED
      BY <2>3, <2>4
<1>10. ASSUME NEW k \in Keys, IterNext(k) \/ IterNextIntersection(k)
       PROVE  Simulates
  <2>1. /\ pending = NULL /\ Held' = Held
        /\ UNCHANGED <<op, before, ret, pending>> /\ arg' = arg \cup {k}
      BY <1>10, HeldKept
      DEF IterNext, IterNextIntersection, Running, Yields, resizeVars
  <2>2. Contents' = Contents
      BY <1>10, HeldKept DEF IterNext, IterNextIntersection, Yields
  <2>3. op \in {"update_iter", "difference_iter", "intersection_iter"}
      BY <1>10 DEF IterNext, IterNextIntersection, Running, IterOps
  <2>4. Abstract!Yield(k)
      BY <2>1, <2>3
      DEF Abstract!Yield, Abstract!IterOps, CallSeen, ContentsSeen
  <2>5. CASE op \in {"update_iter", "difference_iter"}
    <3>1. todo = {} /\ todo' = {k}
        BY <1>10, <2>5 DEF IterNext, IterNextIntersection, Running
    <3> QED
        BY <2>1, <2>4, <2>5, <3>1
        DEF RInv, FrameInv, AddsSoFar, UniqueSoFar, TogglesSoFar, RemovesSoFar,
            RemoveSoFar, MeetsSoFar, Simulates, Abstract!Next
  <2>6. CASE op = "intersection_iter"
    <3>1. todo' = todo \ {k}
        BY <1>10, <2>6 DEF IterNext, IterNextIntersection, Running, IterOps
    <3> QED
        BY <2>1, <2>4, <2>6, <3>1
        DEF RInv, FrameInv, AddsSoFar, UniqueSoFar, TogglesSoFar, RemovesSoFar,
            RemoveSoFar, MeetsSoFar, Simulates, Abstract!Next
  <2> QED
      BY <2>3, <2>5, <2>6
<1>11. ASSUME IterStopIntersection
       PROVE  Simulates
  <2>1. /\ op = "intersection_iter" /\ op' = "intersection_rest" /\ pending = NULL
        /\ UNCHANGED <<before, arg, ret, todo, pending>> /\ Held' = Held
      BY <1>11, HeldKept DEF IterStopIntersection, Running, resizeVars
  <2>2. UNCHANGED Abstract!vars
      BY <2>1 DEF Abstract!vars, ContentsSeen, CallSeen
  <2>3. FrameInv'
      BY <2>1 DEF RInv, FrameInv, AddsSoFar, UniqueSoFar, TogglesSoFar, RemovesSoFar,
                  RemoveSoFar, MeetsSoFar
  <2> QED
      BY <2>2, <2>3 DEF Simulates
\* The returns: every key was dealt with, or an iterator raised.
<1>12. ASSUME Done \/ IterStop \/ IterRaise \/ DifferenceEmpty
       PROVE  Simulates
  <2>1. /\ pending = NULL /\ op \in Ops /\ UNCHANGED <<setVars, resizeVars>>
        /\ \/ Return("None") /\ op # "intersection_iter" /\ todo = {}
           \/ /\ Return("None") /\ op \in ToEmptyOps
              /\ todo # {} /\ len < 1
           \/ /\ Return("Exception") /\ op = "intersection_iter"
           \/ /\ Return("Exception") /\ todo = {}
              /\ op \in {"update_iter", "difference_iter"}
      BY <1>12 DEF Done, IterStop, IterRaise, DifferenceEmpty, Running, Ops, AddOps,
                   ToEmptyOps, IterOps
  <2>2. PICK r \in {"None", "Exception"} : Return(r)
      BY <2>1
  <2>3. \A q : Return(q) => /\ Abstract!Return(q, Held) /\ FrameInv'
                            /\ ContentsSeen = before /\ CallSeen.keys = arg
      BY <2>1, Returns
  <2>4. CallSeen.op = IF op = "intersection_rest" THEN "intersection_iter" ELSE op
      BY DEF CallSeen
  <2>5. CASE Return("None") /\ op # "intersection_iter" /\ todo = {}
    <3>1. /\ Abstract!Return("None", Held) /\ FrameInv'
          /\ ContentsSeen = before /\ CallSeen.keys = arg
        BY <2>3, <2>5
    <3>2. CASE op \in {"push", "update", "update_iter"}
      <4>1. Held = before \cup arg
          BY <2>5, <3>2 DEF RInv, FrameInv, AddsSoFar
      <4> QED
          BY <2>4, <3>1, <3>2, <4>1
          DEF Simulates, Abstract!Next, Abstract!Add, Abstract!AddOps
    <3>3. CASE op = "pushunique"
      <4>1. Held = before \cup arg /\ arg \cap before = {}
          BY <2>5, <3>3 DEF RInv, FrameInv, UniqueSoFar
      <4> QED
          BY <2>4, <3>1, <3>3, <4>1 DEF Simulates, Abstract!Next, Abstract!PushUnique
    <3>4. CASE op = "symmetric_difference"
      <4>1. Held = Abstract!SymDiff(before, arg)
          BY <2>5, <3>4 DEF RInv, FrameInv, TogglesSoFar, Abstract!SymDiff
      <4> QED
          BY <2>4, <3>1, <3>4, <4>1
          DEF Simulates, Abstract!Next, Abstract!SymmetricDifference
    <3>5. CASE op \in {"discard", "difference", "difference_iter"}
      <4>1. Held = before \ arg
          BY <2>5, <3>5 DEF RInv, FrameInv, RemovesSoFar
      <4> QED
          BY <2>4, <3>1, <3>5, <4>1
          DEF Simulates, Abstract!Next, Abstract!Drop, Abstract!DropOps
    <3>6. CASE op = "remove"
      <4>1. Held = before \ arg /\ arg \subseteq before
          BY <2>5, <3>6 DEF RInv, FrameInv, RemoveSoFar
      <4> QED
          BY <2>4, <3>1, <3>6, <4>1 DEF Simulates, Abstract!Next, Abstract!Remove
    <3>7. CASE op \in {"intersection", "intersection_rest"}
      <4>1. Held = before \cap arg
          BY <2>5, <3>7 DEF RInv, FrameInv, MeetsSoFar
      <4> QED
          BY <2>4, <3>1, <3>7, <4>1
          DEF Simulates, Abstract!Next, Abstract!Meet, Abstract!MeetOps
    <3> QED
        BY <2>1, <2>5, <3>2, <3>3, <3>4, <3>5, <3>6, <3>7 DEF Ops, AddOps
  <2>6. CASE /\ Return("None") /\ op \in ToEmptyOps /\ todo # {} /\ len < 1
    <3>1. Held = {}
      <4>1. len = Cardinality(UsedSlots(table)) /\ len = 0 /\ IsFiniteSet(UsedSlots(table))
          BY <1>0, <2>6, SlotsFinite DEF IInv, TypeOK, TableInv
      <4>2. UsedSlots(table) = {}
          BY <4>1, FS_EmptySet
      <4> QED
          BY <1>0, <2>1, <4>2, NotResizing, ContentsNoResize, IdleHeld DEF KeysIn
    <3>2. op = "difference" /\ Held = before \ arg
        BY <2>6, <3>1 DEF ToEmptyOps, RInv, FrameInv, RemovesSoFar, MeetsSoFar
    <3> QED
        BY <2>3, <2>4, <2>6, <3>2
        DEF Simulates, Abstract!Next, Abstract!Drop, Abstract!DropOps
  <2>7. CASE Return("Exception") /\ op = "intersection_iter"
    <3>1. Held = before
        BY <2>7 DEF RInv, FrameInv, MeetsSoFar
    <3> QED
        BY <2>3, <2>4, <2>7, <3>1
        DEF Simulates, Abstract!Next, Abstract!Meet, Abstract!MeetOps, Abstract!IterOps
  <2>8. CASE /\ Return("Exception") /\ todo = {}
             /\ op \in {"update_iter", "difference_iter"}
    <3>1. /\ op = "update_iter" => Held = before \cup arg
          /\ op = "difference_iter" => Held = before \ arg
        BY <2>8 DEF RInv, FrameInv, AddsSoFar, RemovesSoFar
    <3> QED
        BY <2>3, <2>4, <2>8, <3>1
        DEF Simulates, Abstract!Next, Abstract!Add, Abstract!AddOps, Abstract!Drop,
            Abstract!DropOps, Abstract!IterOps
  <2> QED
      BY <2>1, <2>5, <2>6, <2>7, <2>8
<1>13. ASSUME ResizeMove \/ ResizeDone
       PROVE  Simulates
  <2>1. /\ UNCHANGED <<op, todo, before, arg, ret>> /\ pending # NULL
      BY <1>13 DEF ResizeMove, ResizeDone, frameVars
  <2>2. Held' = Held /\ pending' \in {pending, NULL}
      BY <1>0, <1>13, ResizeMoveHeld, ResizeDoneHeld
  <2>3. op \in AddOps
      BY <2>1 DEF RInv, FrameInv
  <2>4. FrameInv'
      BY <2>1, <2>2, <2>3
      DEF RInv, FrameInv, AddsSoFar, UniqueSoFar, TogglesSoFar, RemovesSoFar,
          RemoveSoFar, MeetsSoFar
  <2> QED
      BY <1>0, <1>1, <2>1, <2>3, <2>4
<1> QED
    BY <1>5, <1>6, <1>7, <1>8, <1>9, <1>10, <1>11, <1>12, <1>13
    DEF Step

LEMMA CallSimulates ==
    ASSUME RInv, Call
    PROVE  Simulates
<1>0. /\ IInv /\ "idle" \notin Ops /\ Contents \subseteq Keys
      /\ op = "idle" => pending = NULL /\ Held = Contents
  <2>1. op = "idle" => pending = NULL
      BY DEF RInv, IInv, NoResize, Resizing
  <2> QED
      BY <2>1, ContentsAreKeys, IdleHeld DEF RInv, Ops, AddOps
<1>1. ASSUME NEW name \in Abstract!SetOps, NEW X \in SUBSET Keys,
             name \in Abstract!IterOps => X = {},
             NEW left, NEW h, Begin(name, X, left, h),
             left = IF name \in {"intersection", "intersection_iter"}
                    THEN Contents ELSE X,
             name \in {"pushunique", "remove"} => \A j, k \in X : j = k
      PROVE  Simulates
  <2>1. /\ op = "idle" /\ op' = name /\ todo' = left /\ arg' = X
        /\ before' = Contents /\ UNCHANGED <<pending, ret>>
        /\ Held' = Contents /\ pending = NULL
      BY <1>0, <1>1, HeldKept DEF Begin, resizeVars
  <2>2. name \notin {"idle", "intersection_rest"}
      BY DEF Abstract!SetOps, Abstract!AddOps, Abstract!DropOps, Abstract!MeetOps
  <2>3. Abstract!Begin(name, X)
      BY <1>1, <2>1, <2>2 DEF Abstract!Begin, ContentsSeen, CallSeen
  <2>4. FrameInv'
      BY <1>1, <2>1, <2>2
      DEF FrameInv, AddsSoFar, UniqueSoFar, TogglesSoFar, RemovesSoFar, RemoveSoFar,
          MeetsSoFar, Abstract!IterOps
  <2> QED
      BY <2>3, <2>4 DEF Simulates, Abstract!Next
<1>2. /\ {"push", "pushunique", "remove", "discard"} \subseteq Abstract!SetOps
      /\ {"update", "symmetric_difference", "difference", "intersection"}
             \subseteq Abstract!SetOps
      /\ Abstract!IterOps \subseteq Abstract!SetOps
      /\ Abstract!IterOps = {"update_iter", "difference_iter", "intersection_iter"}
    BY DEF Abstract!SetOps, Abstract!AddOps, Abstract!DropOps, Abstract!MeetOps,
           Abstract!IterOps
\* The calls that return at once.
<1>3. ASSUME NEW r, NEW c, op = "idle", UNCHANGED <<op, arg, pending>>, ret' = r,
             Contents' = c
      PROVE  Abstract!Return(r, c) /\ FrameInv' /\ CallSeen.op = "idle"
             /\ ContentsSeen = Contents
    BY <1>0, <1>3
    DEF RInv, FrameInv, Abstract!Return, Abstract!NoCall, ContentsSeen, CallSeen,
        AddsSoFar, UniqueSoFar, TogglesSoFar, RemovesSoFar, RemoveSoFar, MeetsSoFar
<1>4. ASSUME NEW k \in Keys,
             BeginPush(k) \/ BeginPushUnique(k) \/ BeginRemove(k) \/ BeginDiscard(k)
      PROVE  Simulates
  <2>1. PICK name \in {"push", "pushunique", "remove", "discard"} :
            Begin(name, {k}, {k}, 0)
      BY <1>4 DEF BeginPush, BeginPushUnique, BeginRemove, BeginDiscard
  <2> QED
      BY <1>1, <1>2, <2>1
<1>5. ASSUME NEW X \in Args,
             \/ BeginUpdate(X) \/ BeginSymmetricDifference(X)
             \/ BeginDifference(X) \/ BeginIntersection(X)
      PROVE  Simulates
  <2>1. PICK name \in {"update", "symmetric_difference", "difference", "intersection"},
             left \in {X, Contents} :
                    /\ Begin(name, X, left, 0)
                    /\ left = IF name = "intersection" THEN Contents ELSE X
      BY <1>5 DEF BeginUpdate, BeginSymmetricDifference, BeginDifference,
                  BeginIntersection
  <2>2. X \in SUBSET Keys
      BY CallConstants
  <2> QED
      BY <1>1, <1>2, <2>1, <2>2
<1>6. ASSUME NEW h \in Hints,
             \/ BeginUpdateIter(h) \/ BeginDifferenceIter(h)
             \/ BeginIntersectionIter(h)
      PROVE  Simulates
  <2>1. CASE \E name \in Abstract!IterOps, left \in {{}, Contents} :
                /\ Begin(name, {}, left, h)
                /\ left = IF name = "intersection_iter" THEN Contents ELSE {}
    <3>1. PICK name \in Abstract!IterOps, left \in {{}, Contents} :
              /\ Begin(name, {}, left, h)
              /\ left = IF name = "intersection_iter" THEN Contents ELSE {}
        BY <2>1
    <3> QED
        BY <1>1, <1>2, <3>1
  <2>2. CASE op = "idle" /\ Return("MemoryError") /\ UNCHANGED <<setVars, resizeVars>>
    <3>1. op' = "idle" /\ arg' = {} /\ ret' = "MemoryError" /\ Contents' = Contents
          /\ arg = {} /\ UNCHANGED pending
        BY <2>2, HeldKept DEF Return, RInv, FrameInv, resizeVars
    <3>2. Abstract!MeetFails /\ FrameInv'
        BY <1>3, <2>2, <3>1 DEF Abstract!MeetFails
    <3> QED
        BY <3>2 DEF Simulates, Abstract!Next
  <2> QED
      BY <1>2, <1>6, <2>1, <2>2
      DEF BeginUpdateIter, BeginDifferenceIter, BeginIntersectionIter
<1>7. ASSUME Clear
      PROVE  Simulates
  <2>1. /\ op = "idle" /\ UNCHANGED <<op, arg, pending>> /\ ret' = "None"
        /\ UNCHANGED <<oldkeys, scan, keysleft>> /\ table' = EmptyTable(AllocLenMin)
      BY <1>7 DEF Clear, resizeVars, frameVars
  <2>2. NoResize /\ NoResize'
      BY <1>0, <2>1, NotResizing DEF NoResize
  <2>3. Contents' = {}
    <3>1. KeysIn(table') = {}
        BY <2>1, EmptySound, TableConstants
    <3> QED
        BY <2>2, <3>1 DEF Contents, NoResize, NoTable, UsedSlots
  <2>4. Abstract!Clear /\ FrameInv'
      BY <1>3, <2>1, <2>3 DEF Abstract!Clear
  <2> QED
      BY <2>4 DEF Simulates, Abstract!Next
<1>8. ASSUME Pop
      PROVE  Simulates
  <2>1. /\ op = "idle" /\ UNCHANGED <<op, arg, pending, oldkeys, scan, keysleft>>
      BY <1>8 DEF Pop, resizeVars, frameVars
  <2>2. NoResize /\ NoResize' /\ Contents = KeysIn(table)
      BY <1>0, <2>1, NotResizing, ContentsNoResize DEF NoResize
  <2>3. /\ alloclen \in AllocLens /\ TableSound(table, alloclen) /\ len \in Nat
        /\ table \in [0 .. alloclen - 1 -> Entry] /\ IsFiniteSet(UsedSlots(table))
        /\ len = Cardinality(UsedSlots(table))
      BY <1>0, SlotsFinite DEF IInv, TypeOK, TableInv
  <2>4. CASE len < 1 /\ ret' = "KeyError" /\ UNCHANGED setVars
    <3>1. UsedSlots(table) = {}
        BY <2>3, <2>4, FS_EmptySet
    <3>2. Contents = {} /\ Contents' = Contents
        BY <2>1, <2>2, <2>4, <3>1 DEF KeysIn, Contents, setVars
    <3>3. Abstract!Pop /\ FrameInv'
        BY <1>3, <2>1, <2>4, <3>2 DEF Abstract!Pop
    <3> QED
        BY <3>3 DEF Simulates, Abstract!Next
  <2>5. CASE \E s \in PopSlot :
                /\ table' = [RemoveKey(table, s) EXCEPT ![0].hash = s + 1]
                /\ ret' = table[s].key
    <3>1. PICK s \in PopSlot :
              /\ table' = [RemoveKey(table, s) EXCEPT ![0].hash = s + 1]
              /\ ret' = table[s].key
        BY <2>5
    <3>2. s \in UsedSlots(table) /\ s + 1 \in Int
        BY <2>3, <3>1 DEF PopSlot, UsedSlots
    <3> DEFINE left == RemoveKey(table, s)
    <3>3. TableSound(left, alloclen) /\ KeysIn(left) = KeysIn(table) \ {table[s].key}
      <4>1. alloclen \in AllocLens /\ TableSound(table, alloclen) /\ s \in UsedSlots(table)
          BY <2>3, <3>2
      <4> QED
          BY <4>1, RemoveSound
    <3> HIDE DEF left
    <3>4. KeysIn([left EXCEPT ![0].hash = s + 1]) = KeysIn(left)
        BY <2>3, <3>2, <3>3, FingerSound
    <3>5. KeysIn(table') = KeysIn(table) \ {table[s].key}
        BY <3>1, <3>3, <3>4 DEF left
    <3>6. Contents' = Contents \ {table[s].key} /\ table[s].key \in Contents
      <4>1. Contents' = KeysIn(table')
          BY <2>2 DEF Contents, NoResize, NoTable, UsedSlots
      <4> QED
          BY <2>2, <3>2, <3>5, <4>1 DEF KeysIn
    <3>7. Abstract!Pop /\ FrameInv'
        BY <1>3, <2>1, <3>1, <3>6 DEF Abstract!Pop
    <3> QED
        BY <3>7 DEF Simulates, Abstract!Next
  <2> QED
      BY <1>8, <2>4, <2>5 DEF Pop
<1> QED
    BY <1>4, <1>5, <1>6, <1>7, <1>8 DEF Call

LEMMA InitSimulates == Init => RInv /\ Abstract!Init
<1> SUFFICES ASSUME Init PROVE RInv /\ Abstract!Init
    OBVIOUS
<1>1. IInv
    BY InitIInv
<1>2. /\ op = "idle" /\ arg = {} /\ pending = NULL /\ ret = "None"
      /\ oldkeys = NoTable /\ table = EmptyTable(AllocLenMin)
    BY DEF Init
<1>3. Contents = {}
  <2>1. KeysIn(table) = {}
      BY <1>2, EmptySound, TableConstants
  <2> QED
      BY <1>2, <2>1 DEF Contents, NoTable, UsedSlots
<1>4. FrameInv
    BY <1>2 DEF FrameInv, AddsSoFar, UniqueSoFar, TogglesSoFar, RemovesSoFar,
                RemoveSoFar, MeetsSoFar
<1> QED
    BY <1>1, <1>2, <1>3, <1>4 DEF RInv, Abstract!Init, Abstract!NoCall, CallSeen,
                                  ContentsSeen

LEMMA NextSimulates == RInv /\ [Next]_vars => RInv' /\ [Abstract!Next]_(Abstract!vars)
<1> SUFFICES ASSUME RInv, [Next]_vars
             PROVE  RInv' /\ [Abstract!Next]_(Abstract!vars)
    OBVIOUS
<1>1. IInv'
    BY NextIInv DEF RInv
<1>2. CASE Next
    BY <1>1, <1>2, CallSimulates, StepSimulates, KeyRaisesSimulates
    DEF Next, Simulates, RInv
<1>3. CASE UNCHANGED vars
  <2>1. Held' = Held /\ Contents' = Contents
      BY <1>3, HeldKept DEF vars
  <2>2. /\ UNCHANGED <<op, todo, before, arg, ret, pending>>
      BY <1>3 DEF vars, frameVars, resizeVars
  <2>3. FrameInv'
      BY <2>1, <2>2
      DEF RInv, FrameInv, AddsSoFar, UniqueSoFar, TogglesSoFar, RemovesSoFar,
          RemoveSoFar, MeetsSoFar
  <2>4. UNCHANGED Abstract!vars
      BY <2>1, <2>2 DEF Abstract!vars, ContentsSeen, CallSeen
  <2> QED
      BY <1>1, <2>3, <2>4 DEF RInv
<1> QED
    BY <1>2, <1>3

\* Every call on a set is atomic to its caller and has the effect SetSpec
\* gives it: what _ypSet_update_fromset and its siblings do one key at a
\* time, across resizes, failures and misbehaving iterators, adds up to one
\* change of a mathematical set.
THEOREM Refinement == Spec => ImplementsSetSpec
BY InitSimulates, NextSimulates, PTL DEF Spec, ImplementsSetSpec, Abstract!Spec
=============================================================================
