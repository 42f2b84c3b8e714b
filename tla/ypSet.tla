------------------------------- MODULE ypSet -------------------------------
(***************************************************************************)
(* One nohtyP set object (src/nohtyP.c, region "set"): its hash table, and *)
(* the calls that change it, one loop iteration per step.                  *)
(*                                                                         *)
(* op is the call in progress ("idle" between calls).  A call visits the   *)
(* keys of its argument: todo are the ones left, taken in any order since  *)
(* the order is that of the argument's own table.  spaceleft is the        *)
(* caller's local copy of _ypSet_space_remaining.  When a push finds no    *)
(* room, pending is its key and oldkeys, scan and keysleft are the locals  *)
(* of _ypSet_resize, which moves the old table's keys one by one.  before  *)
(* and arg are history: the contents when the call was made, and the keys  *)
(* its argument gave.                                                      *)
(***************************************************************************)
EXTENDS ypHashTable

CONSTANTS
    Args,           \* the other sets calls are made with (subsets of Keys)
    Hints,          \* what an iterator may answer to length_hint
    HintFloor       \* bound: an iterator stops once hint is this low

ASSUME CallConstants ==
    /\ Args \subseteq SUBSET Keys
    /\ Hints \subseteq Int /\ HintFloor \in Int

VARIABLES
    table, alloclen, fill, len,             \* the set object
    pending, oldkeys, scan, keysleft,       \* a resize
    op, todo, spaceleft, hint,              \* the call's frame
    before, arg,                            \* history of the call
    ret                                     \* what the last call returned

setVars    == <<table, alloclen, fill, len>>
resizeVars == <<pending, oldkeys, scan, keysleft>>
frameVars  == <<op, todo, spaceleft, hint, before, arg>>
vars       == <<setVars, resizeVars, frameVars, ret>>

AddOps  == {"push", "pushunique", "update", "update_iter",
            "symmetric_difference"}
Ops     == AddOps \cup {"remove", "discard", "difference", "intersection",
                        "difference_iter", "intersection_iter",
                        "intersection_rest"}
NoTable == [s \in {} |-> Unused]

Init ==
    /\ table = EmptyTable(AllocLenMin) /\ alloclen = AllocLenMin
    /\ fill = 0 /\ len = 0
    /\ pending = NULL /\ oldkeys = NoTable /\ scan = 0 /\ keysleft = 0
    /\ op = "idle" /\ todo = {} /\ spaceleft = 0 /\ hint = 0
    /\ before = {} /\ arg = {} /\ ret = "None"

\* The keys of the set; during a resize some are still in the old table.
Contents == KeysIn(table)
            \cup {oldkeys[s].key : s \in {s \in UsedSlots(oldkeys) : s >= scan}}

(***************************************************************************)
(* Calls and returns.                                                      *)
(***************************************************************************)
Begin(name, X, left, h) ==
    /\ op = "idle"
    /\ op' = name /\ todo' = left /\ arg' = X
    /\ before' = Contents
    /\ spaceleft' = Space(alloclen, fill) /\ hint' = h
    /\ UNCHANGED <<setVars, resizeVars, ret>>

Return(r) ==
    /\ op' = "idle" /\ todo' = {} /\ arg' = {} /\ before' = {}
    /\ spaceleft' = 0 /\ hint' = 0 /\ ret' = r

\* Seeded fault: the loop does not advance.
ContinueSame(k) == UNCHANGED <<op, todo, hint, before, arg, ret>>

Continue(k) ==
    /\ todo' = todo \ {k}
    /\ UNCHANGED <<op, hint, before, arg, ret>>

Running(names) == op \in names /\ pending = NULL

(***************************************************************************)
(* The table's own operations.                                             *)
(***************************************************************************)
Found(s, k) == table[s].key = k

\* Seeded fault: a reused slot is taken off the space left.
MoveKeyTakesSpace(s, k) ==
    /\ table' = PutKey(table, s, k)
    /\ len' = len + 1 /\ spaceleft' = spaceleft - 1
    /\ fill' = IF table[s].key = NULL THEN fill + 1 ELSE fill
    /\ UNCHANGED <<alloclen, resizeVars>>

\* _ypSet_movekey: only a slot that was NULL takes up space.
MoveKey(s, k) ==
    /\ table' = PutKey(table, s, k)
    /\ len' = len + 1
    /\ \/ /\ table[s].key = NULL
          /\ fill' = fill + 1 /\ spaceleft' = spaceleft - 1
       \/ /\ table[s].key # NULL
          /\ UNCHANGED <<fill, spaceleft>>
    /\ UNCHANGED <<alloclen, resizeVars>>

\* Seeded faults: a deleted slot counts as free; len is left alone.
DropKeyFreesSlot(s) ==
    /\ table' = RemoveKey(table, s) /\ len' = len - 1 /\ fill' = fill - 1
    /\ UNCHANGED <<alloclen, resizeVars>>

DropKeyKeepsLen(s) ==
    /\ table' = RemoveKey(table, s)
    /\ UNCHANGED <<alloclen, fill, len, resizeVars>>

DropKey(s) ==
    /\ table' = RemoveKey(table, s) /\ len' = len - 1
    /\ UNCHANGED <<alloclen, fill, resizeVars>>

\* _ypSet_resize up to its loop: a clean table, the old one set aside.
BeginResize(k, minused) ==
    /\ alloclen' = CalcAllocLen(minused)
    /\ table' = EmptyTable(alloclen') /\ fill' = 0 /\ len' = 0
    /\ pending' = k /\ oldkeys' = table /\ scan' = 0 /\ keysleft' = len

\* _ypSet_push_newkey, for a key that is absent and belongs at s.
PushNewKey(s, k, growhint) ==
    \/ /\ spaceleft > 0 \/ table[s].key = Dummy
       /\ MoveKey(s, k)
       /\ Continue(k)
    \/ /\ spaceleft <= 0 /\ table[s].key # Dummy
       /\ \/ /\ len > SetLenMax - 1
             /\ Return("MemorySizeOverflowError")
             /\ UNCHANGED <<setVars, resizeVars>>
          \/ /\ len <= SetLenMax - 1        \* the allocation fails
             /\ Return("MemoryError")
             /\ UNCHANGED <<setVars, resizeVars>>
          \/ /\ len <= SetLenMax - 1
             /\ BeginResize(k, GrowTo(len, growhint))
             /\ Continue(k)
             /\ UNCHANGED spaceleft

\* Seeded fault: the scan stays on the entry it moved.
ResizeMoveAgain ==
    /\ pending # NULL /\ keysleft > 0
    /\ \E s \in UsedSlots(oldkeys) :
          /\ s >= scan /\ \A r \in UsedSlots(oldkeys) : r >= scan => s <= r
          /\ \E t \in CleanSlot(table, alloclen, oldkeys[s].key) :
                table' = [table EXCEPT ![t] = oldkeys[s]]
          /\ scan' = s
    /\ fill' = fill + 1 /\ len' = len + 1 /\ keysleft' = keysleft - 1
    /\ UNCHANGED <<alloclen, pending, oldkeys, frameVars, ret>>

\* One iteration of _ypSet_resize's loop: the next used entry moves.
ResizeMove ==
    /\ pending # NULL /\ keysleft > 0
    /\ \E s \in UsedSlots(oldkeys) :
          /\ s >= scan /\ \A r \in UsedSlots(oldkeys) : r >= scan => s <= r
          /\ \E t \in CleanSlot(table, alloclen, oldkeys[s].key) :
                table' = [table EXCEPT ![t] = oldkeys[s]]
          /\ scan' = s + 1
    /\ fill' = fill + 1 /\ len' = len + 1 /\ keysleft' = keysleft - 1
    /\ UNCHANGED <<alloclen, pending, oldkeys, frameVars, ret>>

\* Seeded fault: the key that had no room is forgotten.
ResizeDoneWithoutKey ==
    /\ pending # NULL /\ keysleft = 0
    /\ spaceleft' = Space(alloclen, fill)
    /\ pending' = NULL /\ oldkeys' = NoTable /\ scan' = 0 /\ keysleft' = 0
    /\ UNCHANGED <<setVars, op, todo, hint, before, arg, ret>>

\* The loop is over: the pending key goes in, and the caller goes on.
ResizeDone ==
    /\ pending # NULL /\ keysleft = 0
    /\ \E t \in CleanSlot(table, alloclen, pending) :
          table' = PutKey(table, t, pending)
    /\ fill' = fill + 1 /\ len' = len + 1
    /\ spaceleft' = Space(alloclen, fill')
    /\ pending' = NULL /\ oldkeys' = NoTable /\ scan' = 0 /\ keysleft' = 0
    /\ UNCHANGED <<alloclen, op, todo, hint, before, arg, ret>>

(***************************************************************************)
(* set_push, set_pushunique, _ypSet_update_fromset and _fromiter.  A push  *)
(* is an update with one key: nothing is left after it, its growhint is 0. *)
(***************************************************************************)
BeginPush(k)       == Begin("push", {k}, {k}, 0)
BeginPushUnique(k) == Begin("pushunique", {k}, {k}, 0)
BeginUpdate(X)     == Begin("update", X, X, 0)

UpdateStep(k) ==
    /\ Running({"push", "update", "update_iter"}) /\ k \in todo
    /\ \E s \in LookKey(table, alloclen, k) :
          \/ /\ Found(s, k)
             /\ Continue(k)
             /\ UNCHANGED <<setVars, resizeVars, spaceleft>>
          \/ /\ ~Found(s, k)
             /\ PushNewKey(s, k, IF op = "update_iter" THEN hint
                                 ELSE Cardinality(todo) - 1)

PushUniqueStep(k) ==
    /\ Running({"pushunique"}) /\ k \in todo
    /\ \E s \in LookKey(table, alloclen, k) :
          \/ Found(s, k) /\ Return("KeyError") /\ UNCHANGED <<setVars, resizeVars>>
          \/ ~Found(s, k) /\ PushNewKey(s, k, 0)

(***************************************************************************)
(* _ypSet_symmetric_difference_update_fromset, so and other distinct.      *)
(***************************************************************************)
BeginSymmetricDifference(X) == Begin("symmetric_difference", X, X, 0)

SymmetricDifferenceStep(k) ==
    /\ Running({"symmetric_difference"}) /\ k \in todo
    /\ \E s \in LookKey(table, alloclen, k) :
          \/ Found(s, k) /\ DropKey(s) /\ Continue(k) /\ UNCHANGED spaceleft
          \/ ~Found(s, k) /\ PushNewKey(s, k, Cardinality(todo) - 1)

(***************************************************************************)
(* set_remove (discard does not raise) and _ypSet_difference_update_from-  *)
(* set, whose loop also stops once the set is empty.                       *)
(***************************************************************************)
ToEmptyOps == {"difference", "intersection_rest"}
RemoveOps  == {"remove", "discard", "difference_iter"} \cup ToEmptyOps

BeginRemove(k)     == Begin("remove", {k}, {k}, 0)
BeginDiscard(k)    == Begin("discard", {k}, {k}, 0)
BeginDifference(X) == Begin("difference", X, X, 0)

RemoveStep(k) ==
    /\ Running(RemoveOps) /\ k \in todo
    /\ op \in ToEmptyOps => len > 0
    /\ \E s \in LookKey(table, alloclen, k) :
          \/ /\ Found(s, k)
             /\ DropKey(s) /\ Continue(k) /\ UNCHANGED spaceleft
          \/ /\ ~Found(s, k) /\ op = "remove"
             /\ Return("KeyError") /\ UNCHANGED <<setVars, resizeVars>>
          \/ /\ ~Found(s, k) /\ op # "remove"
             /\ Continue(k) /\ UNCHANGED <<setVars, resizeVars, spaceleft>>

DifferenceEmpty ==
    /\ Running(ToEmptyOps) /\ todo # {} /\ len < 1
    /\ Return("None") /\ UNCHANGED <<setVars, resizeVars>>

(***************************************************************************)
(* _ypSet_intersection_update_fromset walks its own table.  todo are its   *)
(* keys not yet compared with the other set's.                             *)
(***************************************************************************)
BeginIntersection(X) == Begin("intersection", X, Contents, 0)

IntersectionStep(k) ==
    /\ Running({"intersection"}) /\ k \in todo
    /\ \E s \in UsedSlots(table) :
          /\ Found(s, k)
          /\ \A r \in UsedSlots(table) : table[r].key \in todo => s <= r
          /\ \/ k \in arg /\ UNCHANGED <<setVars, resizeVars>>
             \/ k \notin arg /\ DropKey(s)
    /\ Continue(k) /\ UNCHANGED spaceleft

(***************************************************************************)
(* The same updates from an iterator: it yields any keys, then stops or    *)
(* raises.  Its length_hint need not be true.  An intersection first       *)
(* copies the set, takes away from the copy what is yielded, and then      *)
(* removes what the copy still holds ("intersection_rest"): todo is that   *)
(* copy.                                                                   *)
(***************************************************************************)
BeginUpdateIter(h)     == Begin("update_iter", {}, {}, h)
BeginDifferenceIter(h) == Begin("difference_iter", {}, {}, h)
BeginIntersectionIter(h) ==
    \/ Begin("intersection_iter", {}, Contents, h)
    \/ /\ op = "idle"                    \* the copy cannot be allocated
       /\ Return("MemoryError") /\ UNCHANGED <<setVars, resizeVars>>

IterOps == {"update_iter", "difference_iter"}

Yields(k) ==
    /\ hint > HintFloor
    /\ hint' = hint - 1 /\ arg' = arg \cup {k}
    /\ UNCHANGED <<setVars, resizeVars, op, spaceleft, before, ret>>

IterNext(k) ==
    /\ Running(IterOps) /\ todo = {}
    /\ Yields(k) /\ todo' = {k}

IterNextIntersection(k) ==
    /\ Running({"intersection_iter"})
    /\ Yields(k) /\ todo' = todo \ {k}

IterStop ==
    /\ Running(IterOps) /\ todo = {}
    /\ Return("None") /\ UNCHANGED <<setVars, resizeVars>>

IterStopIntersection ==
    /\ Running({"intersection_iter"})
    /\ op' = "intersection_rest" /\ hint' = 0
    /\ UNCHANGED <<setVars, resizeVars, todo, spaceleft, before, arg, ret>>

IterRaise ==
    /\ \/ Running(IterOps) /\ todo = {}
       \/ Running({"intersection_iter"})
    /\ Return("Exception") /\ UNCHANGED <<setVars, resizeVars>>

\* The hash of k, or its comparison with a key of the same hash, raises: the
\* call ends halfway.  The loops over another set take the hash from its
\* table.  (When that happens to a key taken off the copy of an
\* intersection, the set is as IterRaise leaves it.)
Rehashed == {"push", "pushunique", "remove", "discard"} \cup IterOps
LookedIn == IF op = "intersection" THEN arg ELSE KeysIn(table)

KeyRaises(k) ==
    /\ Running(Ops \ {"intersection_iter"}) /\ k \in todo
    /\ op \in ToEmptyOps => len > 0
    /\ op \in Rehashed \/ \E x \in LookedIn : HashOf[x] = HashOf[k]
    /\ Return("TypeError") /\ UNCHANGED <<setVars, resizeVars>>

\* Every key was visited.
Done ==
    /\ Running(Ops \ (IterOps \cup {"intersection_iter"})) /\ todo = {}
    /\ Return("None") /\ UNCHANGED <<setVars, resizeVars>>

(***************************************************************************)
(* set_clear, and the updates of a set with itself that empty it.          *)
(***************************************************************************)
Clear ==
    /\ op = "idle"
    /\ table' = EmptyTable(AllocLenMin) /\ alloclen' = AllocLenMin
    /\ fill' = 0 /\ len' = 0 /\ ret' = "None"
    /\ UNCHANGED <<resizeVars, frameVars>>

(***************************************************************************)
(* set_pop takes the key in slot 0 if there is one; otherwise the se_hash  *)
(* of slot 0 is a search finger, made in bounds before it is used.         *)
(***************************************************************************)
FingerStart ==
    LET i == table[0].hash IN IF i > alloclen - 1 \/ i < 1 THEN 1 ELSE i

\* The first used slot met from the finger, going round slots 1 .. mask.
PopSlot ==
    LET steps(s) == (s - FingerStart) % (alloclen - 1)
    IN  IF 0 \in UsedSlots(table) THEN {0}
        ELSE {s \in UsedSlots(table) :
                \A r \in UsedSlots(table) : steps(s) <= steps(r)}

\* Seeded fault: the finger is left one slot past the popped one, not in
\* slot 0.
PopFingerFirst ==
    /\ op = "idle" /\ len >= 1
    /\ \E s \in PopSlot :
          /\ table' = [table EXCEPT ![s].key = Dummy, ![(s + 1) % alloclen].hash = s]
          /\ ret' = table[s].key
    /\ len' = len - 1
    /\ UNCHANGED <<alloclen, fill, resizeVars, frameVars>>

Pop ==
    /\ op = "idle"
    /\ \/ /\ len < 1
          /\ ret' = "KeyError" /\ UNCHANGED setVars
       \/ /\ len >= 1
          /\ \E s \in PopSlot :
                /\ table' = [RemoveKey(table, s) EXCEPT ![0].hash = s + 1]
                /\ ret' = table[s].key
          /\ len' = len - 1
          /\ UNCHANGED <<alloclen, fill>>
    /\ UNCHANGED <<resizeVars, frameVars>>

(***************************************************************************)
(* The specification.                                                      *)
(***************************************************************************)
Call ==
    \/ \E k \in Keys : \/ BeginPush(k) \/ BeginPushUnique(k)
                       \/ BeginRemove(k) \/ BeginDiscard(k)
    \/ \E X \in Args : \/ BeginUpdate(X) \/ BeginSymmetricDifference(X)
                       \/ BeginDifference(X) \/ BeginIntersection(X)
    \/ \E h \in Hints : \/ BeginUpdateIter(h) \/ BeginDifferenceIter(h)
                        \/ BeginIntersectionIter(h)
    \/ Clear
    \/ Pop

Step ==
    \/ ResizeMove
    \/ ResizeDone
    \/ \E k \in Keys : \/ UpdateStep(k) \/ PushUniqueStep(k)
                       \/ SymmetricDifferenceStep(k) \/ RemoveStep(k)
                       \/ IntersectionStep(k)
                       \/ IterNext(k) \/ IterNextIntersection(k)
    \/ DifferenceEmpty
    \/ IterStop
    \/ IterStopIntersection
    \/ IterRaise
    \/ Done

Next == Call \/ Step \/ \E k \in Keys : KeyRaises(k)

Spec == Init /\ [][Next]_vars

\* The library runs a call to its end before its caller runs again. Whether a
\* key raises is the caller's: no call returns by counting on it.
FairSpec == Spec /\ WF_vars(Step)

(***************************************************************************)
(* Properties.                                                             *)
(***************************************************************************)
\* Unmoved are the entries a resize still has to move.
Unmoved == {s \in UsedSlots(oldkeys) : s >= scan}

\* The variables have their types.
TypeOK ==
    /\ alloclen \in AllocLens /\ table \in [0 .. alloclen - 1 -> Entry]
    /\ fill \in Nat /\ len \in Nat
    /\ pending \in Keys \cup {NULL} /\ scan \in Nat /\ keysleft \in Nat
    /\ \/ oldkeys = NoTable
       \/ \E n \in AllocLens : oldkeys \in [0 .. n - 1 -> Entry]
    /\ op \in Ops \cup {"idle"} /\ spaceleft \in Int /\ hint \in Int
    /\ todo \subseteq Keys /\ before \subseteq Keys /\ arg \subseteq Keys

\* The counters the code keeps are the numbers of slots they stand for, so
\* that every "for (i = 0; keysleft > 0; i++)" ends inside the table.
CountsMatch ==
    /\ fill = Cardinality(FilledSlots(table))
    /\ len = Cardinality(UsedSlots(table))
    /\ keysleft = Cardinality(Unmoved)

\* At most two thirds of the slots were ever filled: a NULL slot is left,
\* where every unsuccessful probe of _ypSet_lookkey ends.
NullRemains == fill <= (alloclen * 2) \div 3

\* No key is stored twice, also not once in each table of a resize.
NoDuplicates ==
    /\ \A r, s \in UsedSlots(table) : table[r].key = table[s].key => r = s
    /\ \A r \in UsedSlots(table), s \in Unmoved :
            table[r].key # oldkeys[s].key
    /\ pending \notin Contents

\* Between the loops of a resize _ypSet_lookkey always returns, and finds a
\* key if and only if the set holds it, past any number of deleted slots
\* and of keys with the same hash.
LookupExact ==
    pending = NULL =>
        \A k \in Keys :
            /\ LookKey(table, alloclen, k) # {}
            /\ \A s \in LookKey(table, alloclen, k) :
                  /\ Found(s, k) <=> k \in KeysIn(table)
                  /\ ~Found(s, k) => s \notin UsedSlots(table)

\* A loop's own count of the space left never differs from the table's: the
\* assertion yp_ASSERT1(*spaceleft == _ypSet_space_remaining(so)).
SpaceleftFresh ==
    op # "idle" /\ pending = NULL => spaceleft = Space(alloclen, fill)

\* While a resize moves keys the new table holds no deleted entry and has
\* room for the keys still to come and the pending one.
ResizeHasRoom ==
    pending # NULL =>
        /\ FilledSlots(table) = UsedSlots(table)
        /\ Space(alloclen, fill) > keysleft

\* A search finger, or a mark of a deleted key, never replaces the hash of a
\* key: equality and hashing of sets read se_hash instead of the key.
HashesKept ==
    /\ \A s \in UsedSlots(table) : table[s].hash = HashOf[table[s].key]
    /\ \A s \in Unmoved : oldkeys[s].hash = HashOf[oldkeys[s].key]

\* To its caller every call is atomic: it has the effect and the result that
\* SetSpec gives it, or fails the way SetSpec allows, at the moment it
\* returns.
CallSeen ==
    [op |-> IF op = "intersection_rest" THEN "intersection_iter" ELSE op,
     keys |-> arg]

ContentsSeen == IF op = "idle" THEN Contents ELSE before

Abstract == INSTANCE SetSpec
    WITH contents <- ContentsSeen, call <- CallSeen

ImplementsSetSpec == Abstract!Spec

\* Every call returns: no loop of the table runs forever.
CallsReturn == []<>(op = "idle")
=============================================================================
