------------------------------- MODULE ypDict -------------------------------
(***************************************************************************)
(* nohtyP's dict and frozendict objects (src/nohtyP.c, region "dict"), and *)
(* the keysets they share.                                                 *)
(*                                                                         *)
(* A dict is an array of values in the order of a hash table, its keyset,  *)
(* that holds the keys.  A copy shares the keyset of the original.  So a   *)
(* key is never removed from a keyset and a keyset is never resized: a     *)
(* dict drops the value only, and when there is no room for a new key it   *)
(* moves its items to a keyset of its own.                                 *)
(*                                                                         *)
(* dicts[d] is a ypDictObject: finger is ob_alloclen, which dict_popitem   *)
(* uses as its search finger; inline says that ob_data is the inline       *)
(* buffer, fixed that the object was allocated with alloclen_fixed.        *)
(* keysets[n] is a keyset and refs its ob_refcnt.  call is the frame of    *)
(* the call in progress: the dict self it changes, the item it is about to *)
(* add, its locals spaceleft, ks (the keyset _ypDict_update_fromdict read  *)
(* before its loop), scan (its position in other) and hint (items to come).*)
(* resize are the locals of _ypDict_resize.  before is history: the items  *)
(* of self when an update from another dict began.                         *)
(***************************************************************************)
EXTENDS ypHashTable

CONSTANTS
    Dicts,          \* the dict objects there may be
    Keysets,        \* memory for keysets
    Values,         \* the objects dicts hold as values
    InlineLen,      \* values that fit the inline buffer
    Hints,          \* numbers of items, or what length_hint answers
    HintFloor       \* bound: an iterator stops once hint is this low

ASSUME DictConstants ==
    /\ IsFiniteSet(Dicts) /\ IsFiniteSet(Keysets)
    /\ Cardinality(Keysets) > Cardinality(Dicts)
    /\ NULL \notin Values /\ NULL \notin Keysets /\ NULL \notin Dicts
    /\ InlineLen \in Nat /\ InlineLen >= AllocLenMin
    /\ Hints \subseteq Int /\ HintFloor \in Int
    /\ AllocHintMax <= SetLenMax

VARIABLES dicts, keysets, call, resize, ret
vars == <<dicts, keysets, call, resize, ret>>

NoValues(n) == [s \in 0 .. n - 1 |-> NULL]

FreeDict   == [kind |-> "free", keyset |-> NULL, values |-> NoValues(0),
               len |-> 0, finger |-> 0, inline |-> FALSE, fixed |-> FALSE]
FreeKeyset == [table |-> EmptyTable(0), alloclen |-> 0, fill |-> 0, refs |-> 0]
NoItem     == [key |-> NULL, value |-> NULL]
NoItems    == [k \in {} |-> k]
NoCall     == [op |-> "idle", self |-> NULL, other |-> NULL, ks |-> NULL,
               scan |-> 0, item |-> NoItem, spaceleft |-> 0, hint |-> 0,
               before |-> NoItems]
NoResize   == [ks |-> NULL, values |-> NoValues(0), scan |-> 0, left |-> 0]

None == <<"None">>

Init ==
    /\ dicts = [d \in Dicts |-> FreeDict]
    /\ keysets = [n \in Keysets |-> FreeKeyset]
    /\ call = NoCall /\ resize = NoResize /\ ret = None

(***************************************************************************)
(* Dicts and keysets.                                                      *)
(***************************************************************************)
Idle       == call.op = "idle"
Free(d)    == dicts[d].kind = "free"
Mutable(d) == dicts[d].kind = "dict"

Table(d)    == keysets[dicts[d].keyset].table
AllocLen(d) == keysets[dicts[d].keyset].alloclen

\* Seeded fault: the keys of this dict are counted, not those of the keyset.
SpaceLeftOfDict(d) == Space(AllocLen(d), dicts[d].len)

SpaceLeft(d) == Space(AllocLen(d), keysets[dicts[d].keyset].fill)

Valued(values) == {s \in DOMAIN values : values[s] # NULL}

\* The items of a dict: the keys of the slots that have a value.
ItemsOf(table, values) ==
    [k \in {table[s].key : s \in Valued(values)} |->
        values[CHOOSE s \in Valued(values) : table[s].key = k]]

Items(d) == IF Free(d) THEN NoItems ELSE ItemsOf(Table(d), dicts[d].values)

\* The slots _ypSet_lookkey finds for k in the keyset of d.
Lookup(d, k) == LookKey(Table(d), AllocLen(d), k)

\* Memory for one more keyset.
FreshKeyset == CHOOSE n \in Keysets : keysets[n].refs = 0

NewKeyset(alloclen) == [table |-> EmptyTable(alloclen), alloclen |-> alloclen,
                        fill |-> 0, refs |-> 1]

\* yp_decref on a keyset.
Release(ksets, n) ==
    IF ksets[n].refs = 1 THEN [ksets EXCEPT ![n] = FreeKeyset]
    ELSE [ksets EXCEPT ![n].refs = @ - 1]

\* A buffer for n values is inline if it fits; ob_alloclen is its length.
BufferLen(n) == IF n <= InlineLen THEN InlineLen ELSE n

NewDict(type, n, alloclen, fixed) ==
    [kind |-> type, keyset |-> n, values |-> NoValues(alloclen), len |-> 0,
     finger |-> IF fixed THEN alloclen ELSE BufferLen(alloclen),
     inline |-> fixed \/ alloclen <= InlineLen, fixed |-> fixed]

Fails(e) ==
    /\ ret' = <<e>> /\ call' = NoCall /\ UNCHANGED <<dicts, keysets, resize>>

(***************************************************************************)
(* Objects are made, copied, frozen and deallocated.                       *)
(***************************************************************************)
New(d) ==
    /\ Idle /\ Free(d)
    /\ \/ /\ dicts' = [dicts EXCEPT
                 ![d] = NewDict("dict", FreshKeyset, AllocLenMin, FALSE)]
          /\ keysets' = [keysets EXCEPT ![FreshKeyset] = NewKeyset(AllocLenMin)]
          /\ ret' = None
          /\ UNCHANGED <<call, resize>>
       \/ Fails("MemoryError")

\* Seeded fault: the keyset does not know of the copy.
ShareKeysetOnly(n) == keysets

ShareKeyset(n) == [keysets EXCEPT ![n].refs = @ + 1]

\* _ypDict_copy, o not empty: the keyset is shared, the values are copied.
Copy(d, o, type) ==
    /\ Idle /\ Free(d) /\ ~Free(o) /\ dicts[o].len > 0
    /\ type = "frozendict" => Mutable(o)
    /\ \/ /\ dicts' = [dicts EXCEPT ![d] =
                [NewDict(type, dicts[o].keyset, AllocLen(o), type = "frozendict")
                    EXCEPT !.values = dicts[o].values, !.len = dicts[o].len]]
          /\ keysets' = ShareKeyset(dicts[o].keyset)
          /\ ret' = None
          /\ UNCHANGED <<call, resize>>
       \/ Fails("MemoryError")

\* An empty frozen copy is yp_frozendict_empty; an unfrozen one is new.
CopyEmpty(d, o) == ~Free(o) /\ dicts[o].len = 0 /\ New(d)

Freeze(d) ==
    /\ Idle /\ Mutable(d)
    /\ dicts' = [dicts EXCEPT ![d].kind = "frozendict"]
    /\ ret' = None /\ UNCHANGED <<keysets, call, resize>>

\* The last reference goes: the keyset is released with the dict.
Dealloc(d) ==
    /\ Idle /\ ~Free(d)
    /\ keysets' = Release(keysets, dicts[d].keyset)
    /\ dicts' = [dicts EXCEPT ![d] = FreeDict]
    /\ UNCHANGED <<call, resize, ret>>

(***************************************************************************)
(* Calls that look items up or take them away.                             *)
(***************************************************************************)
\* A slot with no value has no item, whether its key is k or not.
GetItem(d, k) ==
    /\ Idle /\ ~Free(d)
    /\ \E s \in Lookup(d, k) :
          ret' = IF dicts[d].values[s] = NULL THEN <<"KeyError">>
                 ELSE <<dicts[d].values[s]>>
    /\ UNCHANGED <<dicts, keysets, call, resize>>

\* Seeded faults: the count is kept; the key goes with the value.
DropValueKeepsLen(d, s) ==
    /\ dicts' = [dicts EXCEPT ![d].values[s] = NULL]
    /\ UNCHANGED keysets

DropValueAndKey(d, s) ==
    /\ dicts' = [dicts EXCEPT ![d].values[s] = NULL, ![d].len = @ - 1]
    /\ keysets' = [keysets EXCEPT
           ![dicts[d].keyset].table = RemoveKey(@, s)]

\* The key stays in the keyset.
DropValue(d, s) ==
    /\ dicts' = [dicts EXCEPT ![d].values[s] = NULL, ![d].len = @ - 1]
    /\ UNCHANGED keysets

Absent(d) == ret' = <<"KeyError">> /\ UNCHANGED <<dicts, keysets>>

PopValue(d, k) ==
    /\ Idle /\ Mutable(d)
    /\ \E s \in Lookup(d, k) :
          \/ dicts[d].values[s] = NULL /\ Absent(d)
          \/ /\ dicts[d].values[s] # NULL
             /\ DropValue(d, s)
             /\ ret' = <<dicts[d].values[s]>>
    /\ UNCHANGED <<call, resize>>

DelItem(d, k) ==
    /\ Idle /\ Mutable(d)
    /\ \E s \in Lookup(d, k) :
          \/ dicts[d].values[s] = NULL /\ Absent(d)
          \/ dicts[d].values[s] # NULL /\ DropValue(d, s) /\ ret' = None
    /\ UNCHANGED <<call, resize>>

\* The first slot with a value met from the finger, going round the table.
PopItemSlot(d) ==
    LET finger == dicts[d].finger
        start  == IF finger >= AllocLen(d) THEN 0 ELSE finger
        steps(s) == (s - start) % AllocLen(d)
    IN  CHOOSE s \in Valued(dicts[d].values) :
            \A r \in Valued(dicts[d].values) : steps(s) <= steps(r)

PopItem(d) ==
    /\ Idle /\ Mutable(d)
    /\ \/ dicts[d].len < 1 /\ Absent(d)
       \/ LET s == PopItemSlot(d)
          IN  /\ dicts[d].len >= 1
              /\ dicts' = [dicts EXCEPT ![d].values[s] = NULL,
                               ![d].len = @ - 1, ![d].finger = s + 1]
              /\ ret' = <<Table(d)[s].key, dicts[d].values[s]>>
              /\ UNCHANGED keysets
    /\ UNCHANGED <<call, resize>>

\* A new keyset comes first, so that a failure changes nothing.  A buffer
\* that was inline already keeps its ob_alloclen.
Clear(d) ==
    /\ Idle /\ Mutable(d)
    /\ \/ LET n == FreshKeyset
          IN  /\ keysets' = [Release(keysets, dicts[d].keyset)
                                EXCEPT ![n] = NewKeyset(AllocLenMin)]
              /\ dicts' = [dicts EXCEPT ![d] =
                    [NewDict("dict", n, AllocLenMin, FALSE) EXCEPT
                        !.finger = IF dicts[d].inline THEN dicts[d].finger
                                   ELSE InlineLen]]
              /\ ret' = None
              /\ UNCHANGED <<call, resize>>
       \/ Fails("MemoryError")

(***************************************************************************)
(* Calls that add items.                                                   *)
(***************************************************************************)
Frame(name, d, o, ks, left, item, h) ==
    [op |-> name, self |-> d, other |-> o, ks |-> ks, scan |-> 0,
     item |-> item, spaceleft |-> left, hint |-> h,
     before |-> IF name = "update" THEN Items(d) ELSE NoItems]

Begin(name, d, o, item, h) ==
    /\ Idle /\ Mutable(d)
    /\ call' = Frame(name, d, o, dicts[d].keyset, SpaceLeft(d), item, h)
    /\ UNCHANGED <<dicts, keysets, resize, ret>>

BeginSetItem(d, k, v)    == Begin("setitem", d, NULL, [key |-> k, value |-> v], 0)
BeginSetDefault(d, k, v) == Begin("setdefault", d, NULL, [key |-> k, value |-> v], 0)

\* hint is what length_hint said for an iterator, and the number of items
\* given to yp_updateK.
BeginUpdateIter(d, h) == Begin("update_iter", d, NULL, NoItem, h)
BeginUpdateK(d, n)    == Begin("updateK", d, NULL, NoItem, n)

\* _ypDict_update_fromdict.  Only updates in which no resize comes before the
\* last item begin here: ypDictStale has the others.
UpdateFrom(d, o) ==
    d # o /\ ~Free(o) /\ Begin("update", d, o, NoItem, dicts[o].len)

RoomForItems(d, o) ==
    \/ Cardinality(DOMAIN Items(o) \ KeysIn(Table(d))) <= SpaceLeft(d)
    \/ dicts[o].len = 1

BeginUpdate(d, o) ==
    Mutable(d) /\ ~Free(o) /\ RoomForItems(d, o) /\ UpdateFrom(d, o)

\* Seeded fault: room for one item less.
HintedOneLess(h) == (IF h > AllocHintMax THEN AllocHintMax ELSE h) - 1

\* The room a constructor asks for.
Hinted(h) == IF h > AllocHintMax THEN AllocHintMax ELSE h

\* _ypDictKV, _ypDict_fromkeysNV: a dict of the right size, then its items.
BeginDictK(d, type, n) ==
    /\ Idle /\ Free(d) /\ n > 0
    /\ \/ LET ks    == FreshKeyset
              size  == CalcAllocLen(Hinted(n))
              fixed == n <= AllocHintMax /\ type = "frozendict"
          IN  /\ dicts' = [dicts EXCEPT ![d] = NewDict(type, ks, size, fixed)]
              /\ keysets' = [keysets EXCEPT ![ks] = NewKeyset(size)]
              /\ call' = Frame("dictK", d, NULL, ks, Space(size, 0), NoItem, n)
              /\ UNCHANGED <<resize, ret>>
       \/ Fails("MemoryError")

(***************************************************************************)
(* The items of a call, one after the other.                               *)
(***************************************************************************)
ItemByItem == {"update_iter", "updateK", "dictK"}
OneItemOps == {"setitem", "setdefault"}
Ops        == ItemByItem \cup OneItemOps \cup {"update"}

Awaiting(ops) == call.op \in ops /\ call.item = NoItem

NextItem(k, v) ==
    /\ Awaiting(ItemByItem)
    /\ call.hint > (IF call.op = "update_iter" THEN HintFloor ELSE 0)
    /\ call' = [call EXCEPT !.item = [key |-> k, value |-> v], !.hint = @ - 1]
    /\ UNCHANGED <<dicts, keysets, resize, ret>>

\* _ypDict_update_fromdict: the next slot of other that has a value.
NextOfOther ==
    /\ Awaiting({"update"}) /\ call.hint > 0
    /\ \E s \in Valued(dicts[call.other].values) :
          /\ s >= call.scan
          /\ \A r \in Valued(dicts[call.other].values) : r >= call.scan => s <= r
          /\ call' = [call EXCEPT !.scan = s + 1, !.hint = @ - 1,
                          !.item = [key   |-> Table(call.other)[s].key,
                                    value |-> dicts[call.other].values[s]]]
    /\ UNCHANGED <<dicts, keysets, resize, ret>>

Return(r) == call' = NoCall /\ ret' = r

\* Seeded fault: the last item is left out.
EndOfItemsEarly ==
    /\ \/ Awaiting({"update", "updateK", "dictK"}) /\ call.hint <= 1
       \/ Awaiting({"update_iter"})
    /\ Return(None) /\ UNCHANGED <<dicts, keysets, resize>>

EndOfItems ==
    /\ \/ Awaiting({"update", "updateK", "dictK"}) /\ call.hint = 0
       \/ Awaiting({"update_iter"})
    /\ Return(None) /\ UNCHANGED <<dicts, keysets, resize>>

\* Seeded fault: the dict that was being made stays.
GiveUpKeepsDict(e) == Return(<<e>>) /\ UNCHANGED <<dicts, keysets, resize>>

\* A constructor gives up the dict it was making.
GiveUp(e) ==
    /\ Return(<<e>>) /\ UNCHANGED resize
    /\ \/ call.op # "dictK" /\ UNCHANGED <<dicts, keysets>>
       \/ /\ call.op = "dictK"
          /\ keysets' = Release(keysets, dicts[call.self].keyset)
          /\ dicts' = [dicts EXCEPT ![call.self] = FreeDict]

\* The iterator raised, or an argument is an exception.
ItemRaises == Awaiting(ItemByItem) /\ GiveUp("Exception")

\* Seeded fault: the same item comes again.
ItemDoneAgain(left) ==
    \/ call.op \in OneItemOps /\ Return(None)
    \/ /\ call.op \notin OneItemOps
       /\ call' = [call EXCEPT !.spaceleft = left]
       /\ UNCHANGED ret

\* An item went in; spaceleft is now left.
ItemDone(left) ==
    \/ call.op = "setitem" /\ Return(None)
    \/ call.op = "setdefault" /\ Return(<<call.item.value>>)
    \/ /\ call.op \notin OneItemOps
       /\ call' = [call EXCEPT !.item = NoItem, !.spaceleft = left]
       /\ UNCHANGED ret

(***************************************************************************)
(* Pushing one item.                                                       *)
(***************************************************************************)
Pushing == call.item # NoItem /\ resize = NoResize

Self == call.self

SetValue(d, s, v) ==
    [d EXCEPT !.values[s] = v,
              !.len = IF d.values[s] = NULL THEN @ + 1 ELSE @]

\* _ypDict_push_existingkey: the keyset, perhaps another dict, has the key.
PushExistingKey(s) ==
    /\ dicts' = [dicts EXCEPT ![Self] = SetValue(dicts[Self], s, call.item.value)]
    /\ ItemDone(call.spaceleft)
    /\ UNCHANGED <<keysets, resize>>

\* yp_setdefault gives back the value there is.
KeepValue(s) ==
    /\ call.op = "setdefault" /\ dicts[Self].values[s] # NULL
    /\ Return(<<dicts[Self].values[s]>>)
    /\ UNCHANGED <<dicts, keysets, resize>>

\* _ypDict_resize up to its loop.  The new values are in a buffer of their
\* own: the inline one only if it is not in use.
BeginResize(d, minused) ==
    LET alloclen == CalcAllocLen(minused)
        inline   == alloclen <= InlineLen /\ ~dicts[d].inline
    IN  /\ keysets' = [keysets EXCEPT ![FreshKeyset] = NewKeyset(alloclen)]
        /\ resize' = [ks |-> FreshKeyset, values |-> dicts[d].values,
                      scan |-> 0, left |-> dicts[d].len]
        /\ dicts' = [dicts EXCEPT
              ![d].values = NoValues(alloclen), ![d].inline = inline,
              ![d].finger = IF inline THEN InlineLen ELSE alloclen]

\* _ypDict_push_newkey: room is counted in the keyset, whoever put its keys
\* there.  Otherwise this dict, and no other, gets a new keyset.
PushNewKey(s) ==
    LET n    == dicts[Self].keyset
        slot == keysets[n].table[s]
        used == IF slot.key = NULL THEN 1 ELSE 0
    IN  \/ /\ call.spaceleft > 0 \/ slot.key = Dummy
           /\ keysets' = [keysets EXCEPT ![n].table = PutKey(@, s, call.item.key),
                                         ![n].fill = @ + used]
           /\ dicts' = [dicts EXCEPT ![Self].values[s] = call.item.value,
                                     ![Self].len = @ + 1]
           /\ ItemDone(call.spaceleft - used)
           /\ UNCHANGED resize
        \/ /\ call.spaceleft <= 0 /\ slot.key # Dummy
           /\ \/ dicts[Self].len > SetLenMax - 1 /\ GiveUp("MemorySizeOverflowError")
              \/ dicts[Self].len <= SetLenMax - 1 /\ GiveUp("MemoryError")
              \/ /\ dicts[Self].len <= SetLenMax - 1
                 /\ BeginResize(Self, GrowTo(dicts[Self].len,
                                  IF call.op \in OneItemOps THEN 0 ELSE call.hint))
                 /\ UNCHANGED <<call, ret>>

\* _ypDict_update_fromdict reads mp->keyset once, the other calls for each
\* item.
KeysetKnown == call.op = "update" => call.ks = dicts[Self].keyset

PushItem ==
    /\ Pushing /\ KeysetKnown
    /\ \E s \in Lookup(Self, call.item.key) :
          \/ KeepValue(s)
          \/ /\ Table(Self)[s].key \in Keys
             /\ call.op = "setdefault" => dicts[Self].values[s] = NULL
             /\ PushExistingKey(s)
          \/ Table(Self)[s].key \notin Keys /\ PushNewKey(s)

\* The hash of a key, or its comparison with a key of the keyset, raises: in
\* a call that looks an item up or takes it away, and in one that adds items.
LookupRaises == Idle /\ (\E d \in Dicts : ~Free(d)) /\ Fails("TypeError")
PushRaises == Pushing /\ GiveUp("TypeError")

\* One iteration of _ypDict_resize: the next item moves, its value with it.
ResizeMove ==
    /\ resize.left > 0
    /\ \E s \in Valued(resize.values) :
          /\ s >= resize.scan
          /\ \A r \in Valued(resize.values) : r >= resize.scan => s <= r
          /\ \E t \in CleanSlot(keysets[resize.ks].table,
                          keysets[resize.ks].alloclen, Table(Self)[s].key) :
                /\ keysets' = [keysets EXCEPT
                      ![resize.ks].table = [@ EXCEPT ![t] = Table(Self)[s]],
                      ![resize.ks].fill = @ + 1]
                /\ dicts' = [dicts EXCEPT
                      ![Self].values[t] = resize.values[s]]
          /\ resize' = [resize EXCEPT !.scan = s + 1, !.left = @ - 1]
    /\ UNCHANGED <<call, ret>>

\* The old keyset is released, and the item that had no room goes in.
ResizeDone ==
    /\ resize # NoResize /\ resize.left = 0
    /\ LET n == resize.ks
       IN  \E t \in CleanSlot(keysets[n].table, keysets[n].alloclen, call.item.key) :
              /\ keysets' = [Release(keysets, dicts[Self].keyset) EXCEPT
                    ![n].table = PutKey(@, t, call.item.key), ![n].fill = @ + 1]
              /\ dicts' = [dicts EXCEPT ![Self].keyset = n,
                    ![Self].values[t] = call.item.value, ![Self].len = @ + 1]
              /\ ItemDone(Space(keysets[n].alloclen, keysets[n].fill + 1))
    /\ resize' = NoResize

(***************************************************************************)
(* The specification.                                                      *)
(***************************************************************************)
Call ==
    \E d \in Dicts :
        \/ New(d) \/ Freeze(d) \/ Dealloc(d) \/ PopItem(d) \/ Clear(d)
        \/ \E o \in Dicts :
              \/ CopyEmpty(d, o) \/ BeginUpdate(d, o)
              \/ \E type \in {"dict", "frozendict"} : Copy(d, o, type)
        \/ \E k \in Keys :
              \/ GetItem(d, k) \/ PopValue(d, k) \/ DelItem(d, k)
              \/ \E v \in Values : BeginSetItem(d, k, v) \/ BeginSetDefault(d, k, v)
        \/ \E h \in Hints :
              \/ BeginUpdateIter(d, h) \/ BeginUpdateK(d, h)
              \/ \E type \in {"dict", "frozendict"} : BeginDictK(d, type, h)

Step ==
    \/ \E k \in Keys, v \in Values : NextItem(k, v)
    \/ NextOfOther \/ EndOfItems \/ ItemRaises
    \/ PushItem
    \/ ResizeMove \/ ResizeDone

Next == Call \/ LookupRaises \/ PushRaises \/ Step

Spec == Init /\ [][Next]_vars

\* The library runs a call to its end before its caller runs again. Whether a
\* key raises is the caller's: no call returns by counting on it.
FairSpec == Spec /\ WF_vars(Step)

(***************************************************************************)
(* Properties.                                                             *)
(***************************************************************************)
Live == {n \in Keysets : keysets[n].refs > 0}

Resizing == resize # NoResize

\* A keyset lives exactly as long as dicts use it: its reference count is
\* the number of them, and of the resize that is filling it.
RefsCountUsers ==
    \A n \in Keysets :
        keysets[n].refs = Cardinality({d \in Dicts : dicts[d].keyset = n})
                          + (IF resize.ks = n THEN 1 ELSE 0)

\* Every keyset, whoever added its keys, is a sound table with no deleted
\* entries, whose fill is right and which keeps a NULL slot for a probe to
\* end at.
KeysetsSound ==
    \A n \in Live :
        LET ks == keysets[n]
        IN  /\ TableSound(ks.table, ks.alloclen)
            /\ FilledSlots(ks.table) = UsedSlots(ks.table)
            /\ ks.fill = Cardinality(FilledSlots(ks.table))
            /\ ks.fill <= (ks.alloclen * 2) \div 3

\* A value array lines up with its keyset: as long, with a key at every
\* value, and with len values, so that every "for (i = 0; valuesleft > 0;
\* i++)" ends inside it.
ValuesLineUp ==
    \A d \in Dicts : ~Free(d) /\ ~(Resizing /\ d = Self) =>
        /\ DOMAIN dicts[d].values = DOMAIN Table(d)
        /\ Valued(dicts[d].values) \subseteq UsedSlots(Table(d))
        /\ dicts[d].len = Cardinality(Valued(dicts[d].values))

\* A constructor that is told the number of its items never resizes: the
\* comment of _ypDict_update_fromiterable calls this important, and a
\* frozendict allocated with alloclen_fixed could not be resized at all.
FixedNeverResized ==
    Resizing => ~dicts[Self].fixed
                /\ (call.op = "dictK" => dicts[Self].len >= AllocHintMax)

\* While a dict uses a keyset, the keyset keeps its size and no key moves or
\* goes: "potentially shared among multiple dicts, so we cannot remove keys
\* or resize it".
KeysetsOnlyGrow ==
    [][\A n \in Keysets : n \in Live /\ n \in Live' =>
          \A s \in DOMAIN keysets[n].table :
             \/ keysets[n].table[s].key = NULL /\ s \in DOMAIN keysets'[n].table
             \/ keysets'[n].table[s] = keysets[n].table[s]]_vars

\* To their callers dicts are maps of their own, changed by nothing but the
\* calls made on them: see DictSpec.
ItemsSeen(d) ==
    IF d # Self \/ Free(d) THEN Items(d)
    ELSE IF call.op = "update" THEN call.before
    ELSE IF ~Resizing THEN Items(d)
    ELSE [k \in DOMAIN ItemsOf(keysets[resize.ks].table, dicts[d].values)
                \cup DOMAIN ItemsOf(Table(d), resize.values) |->
             resize.values[CHOOSE s \in Valued(resize.values) : Table(d)[s].key = k]]

CallSeen ==
    IF Idle THEN [op |-> "idle", arg |-> NoItems]
    ELSE [op |-> call.op, self |-> Self,
          arg |-> IF call.op = "update" THEN Items(call.other)
                  ELSE [k \in {call.item.key} \ {NULL} |-> call.item.value]]

Abstract == INSTANCE DictSpec
    WITH items <- [d \in Dicts |-> ItemsSeen(d)],
         kind <- [d \in Dicts |-> dicts[d].kind],
         call <- CallSeen

ImplementsDictSpec == Abstract!Spec

\* Every call returns.
CallsReturn == []<>Idle
=============================================================================
