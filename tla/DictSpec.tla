------------------------------ MODULE DictSpec ------------------------------
(***************************************************************************)
(* What nohtyP's dicts promise their caller (src/nohtyP.h, "Mapping        *)
(* Operations"): each is a finite map of its own.  A copy has the items of *)
(* the original at that moment, and nothing done to one is ever seen in    *)
(* the other; a frozendict never changes.                                  *)
(*                                                                         *)
(* items[d] is the map d holds, kind[d] its type.  call is the call in     *)
(* progress: op, the dict it changes, the type it makes that dict, and the *)
(* items its argument gave that were not added yet.  A call with one       *)
(* argument takes effect as a whole; from an iterator each item is in the  *)
(* dict by the time the next one is asked for.                             *)
(***************************************************************************)
CONSTANTS Dicts, Keys, Values

VARIABLES items, kind, call, ret
vars == <<items, kind, call, ret>>

NoItems == [k \in {} |-> k]
OneItem(k, v) == [x \in {k} |-> v]

Merge(f, g) ==
    [k \in DOMAIN f \cup DOMAIN g |-> IF k \in DOMAIN g THEN g[k] ELSE f[k]]

Without(f, k) == [x \in DOMAIN f \ {k} |-> f[x]]

NoCall == [op |-> "idle", arg |-> NoItems]
None   == <<"None">>
Idle   == call.op = "idle"

MemoryErrors == {<<"MemoryError">>, <<"MemorySizeOverflowError">>}
Errors       == MemoryErrors \cup {<<"TypeError">>}
ItemByItem   == {"update_iter", "updateK", "dictK"}

Init ==
    /\ items = [d \in Dicts |-> NoItems]
    /\ kind = [d \in Dicts |-> "free"]
    /\ call = NoCall /\ ret = None

Return(r) == call' = NoCall /\ ret' = r

Free(d)    == kind[d] = "free"
Mutable(d) == kind[d] = "dict"

(***************************************************************************)
(* Calls that take effect at once.                                         *)
(***************************************************************************)
Create(d, type, map) ==
    /\ Idle /\ Free(d)
    /\ items' = [items EXCEPT ![d] = map]
    /\ kind' = [kind EXCEPT ![d] = type]
    /\ ret' = None /\ UNCHANGED call

New(d) == Create(d, "dict", NoItems)

\* A frozendict is its own frozen copy.
Copy(d, o, type) ==
    /\ ~Free(o)
    /\ \/ type = "dict"
       \/ Mutable(o) /\ items[o] # NoItems
    /\ Create(d, type, items[o])

Dealloc(d) ==
    /\ Idle /\ ~Free(d)
    /\ items' = [items EXCEPT ![d] = NoItems]
    /\ kind' = [kind EXCEPT ![d] = "free"]
    /\ UNCHANGED <<call, ret>>

Freeze(d) ==
    /\ Idle /\ Mutable(d)
    /\ kind' = [kind EXCEPT ![d] = "frozendict"]
    /\ ret' = None /\ UNCHANGED <<items, call>>

GetItem(d, k) ==
    /\ Idle /\ ~Free(d)
    /\ ret' = IF k \in DOMAIN items[d] THEN <<items[d][k]>> ELSE <<"KeyError">>
    /\ UNCHANGED <<items, kind, call>>

\* yp_popvalue gives the value back, yp_delitem does not.
Remove(d, k) ==
    /\ Idle /\ Mutable(d)
    /\ \/ k \in DOMAIN items[d] /\ ret' \in {<<items[d][k]>>, None}
       \/ k \notin DOMAIN items[d] /\ ret' = <<"KeyError">>
    /\ items' = [items EXCEPT ![d] = Without(@, k)]
    /\ UNCHANGED <<kind, call>>

PopItem(d) ==
    /\ Idle /\ Mutable(d)
    /\ \/ \E k \in DOMAIN items[d] :
             /\ ret' = <<k, items[d][k]>>
             /\ items' = [items EXCEPT ![d] = Without(@, k)]
       \/ items[d] = NoItems /\ ret' = <<"KeyError">> /\ UNCHANGED items
    /\ UNCHANGED <<kind, call>>

Clear(d) ==
    /\ Idle /\ Mutable(d)
    /\ items' = [items EXCEPT ![d] = NoItems]
    /\ ret' = None /\ UNCHANGED <<kind, call>>

\* New, Copy and Clear need memory, and a key that is looked for may raise.
CallFails ==
    /\ Idle /\ ret' \in {<<"MemoryError">>, <<"TypeError">>}
    /\ UNCHANGED <<items, kind, call>>

(***************************************************************************)
(* Calls that add items.                                                   *)
(***************************************************************************)
Begin(name, d, map) ==
    /\ Idle /\ Mutable(d)
    /\ call' = [op |-> name, self |-> d, arg |-> map]
    /\ UNCHANGED <<items, kind, ret>>

BeginSetItem(d, k, v)    == Begin("setitem", d, OneItem(k, v))
BeginSetDefault(d, k, v) == Begin("setdefault", d, OneItem(k, v))
BeginUpdate(d, o)        == ~Free(o) /\ Begin("update", d, items[o])
BeginUpdateIter(d)       == Begin("update_iter", d, NoItems)
BeginUpdateK(d)          == Begin("updateK", d, NoItems)

BeginDictK(d, type) ==
    /\ Idle /\ Free(d)
    /\ kind' = [kind EXCEPT ![d] = type]
    /\ call' = [op |-> "dictK", self |-> d, arg |-> NoItems]
    /\ UNCHANGED <<items, ret>>

Yield(k, v) ==
    /\ call.op \in ItemByItem /\ call.arg = NoItems
    /\ call' = [call EXCEPT !.arg = OneItem(k, v)]
    /\ UNCHANGED <<items, kind, ret>>

Added(map) == [items EXCEPT ![call.self] = Merge(@, map)]

AddYielded ==
    /\ call.op \in ItemByItem /\ call.arg # NoItems
    /\ items' = Added(call.arg)
    /\ call' = [call EXCEPT !.arg = NoItems]
    /\ UNCHANGED <<kind, ret>>

\* A failing update may have added some of the items.
Add ==
    /\ call.op \in {"setitem", "update"}
    /\ \/ Return(None) /\ items' = Added(call.arg)
       \/ \E K \in SUBSET DOMAIN call.arg, e \in Errors :
             /\ Return(e)
             /\ K # DOMAIN call.arg
             /\ items' = Added([k \in K |-> call.arg[k]])
    /\ UNCHANGED kind

SetDefault ==
    /\ call.op = "setdefault"
    /\ \E k \in DOMAIN call.arg :
          \/ /\ k \in DOMAIN items[call.self]
             /\ Return(<<items[call.self][k]>>)
             /\ UNCHANGED items
          \/ /\ k \notin DOMAIN items[call.self]
             /\ \/ Return(<<call.arg[k]>>) /\ items' = Added(call.arg)
                \/ \E e \in MemoryErrors : Return(e) /\ UNCHANGED items
          \/ Return(<<"TypeError">>) /\ UNCHANGED items
    /\ UNCHANGED kind

\* Items that were added stay, but a dict that was being made is discarded.
EndItems ==
    /\ call.op \in ItemByItem
    /\ \/ call.arg = NoItems /\ Return(None) /\ UNCHANGED <<items, kind>>
       \/ /\ \/ call.arg = NoItems /\ Return(<<"Exception">>)
             \/ call.arg # NoItems /\ \E e \in Errors : Return(e)
          /\ \/ call.op # "dictK" /\ UNCHANGED <<items, kind>>
             \/ /\ call.op = "dictK"
                /\ items' = [items EXCEPT ![call.self] = NoItems]
                /\ kind' = [kind EXCEPT ![call.self] = "free"]

Next ==
    \/ \E d \in Dicts :
          \/ New(d) \/ Dealloc(d) \/ Freeze(d) \/ PopItem(d) \/ Clear(d)
          \/ BeginUpdateIter(d) \/ BeginUpdateK(d)
          \/ \E o \in Dicts : BeginUpdate(d, o)
          \/ \E type \in {"dict", "frozendict"} :
                BeginDictK(d, type) \/ \E o \in Dicts : Copy(d, o, type)
          \/ \E k \in Keys :
                \/ GetItem(d, k) \/ Remove(d, k)
                \/ \E v \in Values : BeginSetItem(d, k, v) \/ BeginSetDefault(d, k, v)
    \/ \E k \in Keys, v \in Values : Yield(k, v)
    \/ CallFails \/ AddYielded \/ Add \/ SetDefault \/ EndItems

Spec == Init /\ [][Next]_vars
=============================================================================
