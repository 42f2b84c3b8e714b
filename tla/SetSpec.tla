------------------------------ MODULE SetSpec ------------------------------
(***************************************************************************)
(* What a nohtyP set promises its caller (src/nohtyP.h, "Set Operations"): *)
(* a mathematical set, changed by each call as a whole, at the moment the  *)
(* call returns.  call is the call in progress and the keys its argument   *)
(* gave so far; ret is what the last call returned: "None", an exception,  *)
(* or the key that was popped.                                             *)
(*                                                                         *)
(* A call that fails halfway keeps what it did: each failing action says   *)
(* how much of its effect may remain.  "TypeError" is what a key's own     *)
(* hash or comparison raises, "Exception" what an iterator does.           *)
(***************************************************************************)
CONSTANT Keys

VARIABLES contents, call, ret
vars == <<contents, call, ret>>

NoCall == [op |-> "idle", keys |-> {}]

AddOps  == {"push", "update", "update_iter"}
DropOps == {"discard", "difference", "difference_iter"}
MeetOps == {"intersection", "intersection_iter"}
IterOps == {"update_iter", "difference_iter", "intersection_iter"}
SetOps  == AddOps \cup DropOps \cup MeetOps
           \cup {"pushunique", "remove", "symmetric_difference"}

MemoryErrors == {"MemoryError", "MemorySizeOverflowError"}
Errors       == MemoryErrors \cup {"TypeError"}

SymDiff(a, b) == (a \ b) \cup (b \ a)

Init == contents = {} /\ call = NoCall /\ ret = "None"

\* An iterator has given nothing yet.
Begin(name, X) ==
    /\ call.op = "idle"
    /\ name \in IterOps => X = {}
    /\ call' = [op |-> name, keys |-> X]
    /\ UNCHANGED <<contents, ret>>

Yield(k) ==
    /\ call.op \in IterOps
    /\ call' = [op |-> call.op, keys |-> call.keys \cup {k}]
    /\ UNCHANGED <<contents, ret>>

Return(r, c) == call' = NoCall /\ ret' = r /\ contents' = c

Add ==
    /\ call.op \in AddOps
    /\ \/ Return("None", contents \cup call.keys)
       \* Part of the keys was added when memory ran out or a key raised.
       \/ \E X \in SUBSET call.keys, e \in Errors : Return(e, contents \cup X)
       \* The iterator raised, after the keys it gave were added.
       \/ call.op \in IterOps /\ Return("Exception", contents \cup call.keys)

PushUnique ==
    /\ call.op = "pushunique"
    /\ \/ /\ call.keys \cap contents = {}
          /\ \/ Return("None", contents \cup call.keys)
             \/ \E e \in MemoryErrors : Return(e, contents)
       \/ call.keys \subseteq contents /\ Return("KeyError", contents)
       \/ Return("TypeError", contents)

SymmetricDifference ==
    /\ call.op = "symmetric_difference"
    /\ \/ Return("None", SymDiff(contents, call.keys))
       \/ \E X \in SUBSET call.keys, e \in Errors :
             Return(e, SymDiff(contents, X))

Remove ==
    /\ call.op = "remove"
    /\ \/ call.keys \subseteq contents /\ Return("None", contents \ call.keys)
       \/ call.keys \cap contents = {} /\ Return("KeyError", contents)
       \/ Return("TypeError", contents)

\* Removing keys needs no memory: only a key or an iterator can fail.
Drop ==
    /\ call.op \in DropOps
    /\ \/ Return("None", contents \ call.keys)
       \/ call.op \in IterOps /\ Return("Exception", contents \ call.keys)
       \/ \E X \in SUBSET call.keys : Return("TypeError", contents \ X)

\* The iterator is exhausted before the set is touched; then a key can raise.
Meet ==
    /\ call.op \in MeetOps
    /\ \/ Return("None", contents \cap call.keys)
       \/ call.op \in IterOps /\ Return("Exception", contents)
       \/ \E X \in SUBSET (contents \ call.keys) : Return("TypeError", contents \ X)

\* No memory for the copy an intersection with an iterator needs.
MeetFails == call.op = "idle" /\ Return("MemoryError", contents)

Clear == call.op = "idle" /\ Return("None", {})

Pop ==
    /\ call.op = "idle"
    /\ \/ \E k \in contents : Return(k, contents \ {k})
       \/ contents = {} /\ Return("KeyError", contents)

Next ==
    \/ \E name \in SetOps, X \in SUBSET Keys : Begin(name, X)
    \/ \E k \in Keys : Yield(k)
    \/ Add \/ PushUnique \/ SymmetricDifference
    \/ Remove \/ Drop \/ Meet \/ MeetFails
    \/ Clear \/ Pop

Spec == Init /\ [][Next]_vars
=============================================================================
