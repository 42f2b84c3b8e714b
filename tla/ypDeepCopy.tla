----------------------------- MODULE ypDeepCopy -----------------------------
(***************************************************************************)
(* yp_unfrozen_deepcopy, yp_frozen_deepcopy, yp_deepcopy and               *)
(* yp_deepfreeze, of graphs of objects that share items and contain        *)
(* themselves.  The C stack is a sequence of frames, the last of which     *)
(* runs; a visitor leaves what it returns in result, for the frame below.  *)
(*                                                                         *)
(* Copies are numbered as they are made, after the immortals.  A copy      *)
(* counts its references, the memo's included; the memo also keeps the     *)
(* originals alive, which nothing here would release.  The items of a set  *)
(* are in the order of its table.  Any allocation may fail.                *)
(***************************************************************************)
EXTENDS Integers, Sequences, FiniteSets, SequencesExt

CONSTANTS
    Obj, Root,      \* the originals, and the one that is copied
    Leaf,           \* the kinds of originals without items
    ItemsMax,       \* bound: items of a container
    Limits          \* bound: values of _yp_recursion_limit

ASSUME DeepCopyAssumption ==
    /\ Root \in Obj /\ ItemsMax \in Nat /\ Limits \subseteq Nat
    /\ \A n \in Leaf : /\ n.pair \notin {"tuple", "set"} /\ n.mutable \in BOOLEAN
                      /\ n = [pair |-> n.pair, mutable |-> n.mutable, items |-> <<>>]

VARIABLES graph, mode, limit, heap, memo, stack, result

vars == <<graph, mode, limit, heap, memo, stack, result>>

Node(pair, mutable, items) ==
    [pair |-> pair, mutable |-> mutable, items |-> items]
Counted(node, refs) ==
    [pair |-> node.pair, mutable |-> node.mutable, items |-> node.items,
     refs |-> refs]

\* Numbers 1 to 4: a preallocated integer, yp_tuple_empty,
\* yp_frozenset_empty and yp_None.
ImmortalObjects ==
    [i \in 1..4 |->
        Counted(Node(<<"small", "tuple", "set", "None">>[i], FALSE, <<>>), 1)]
Immortals == DOMAIN ImmortalObjects
None == 4
Pending == 0        \* result: nothing has been returned yet
Exception == -1

ItemsOf(n) == UNION {[1 .. m -> Obj] : m \in 0 .. n}
Nodes ==
    Leaf \cup {Node("tuple", b, s) : b \in BOOLEAN, s \in ItemsOf(ItemsMax)}
         \cup {Node("set", b, s) : b \in BOOLEAN,
                    s \in {t \in ItemsOf(ItemsMax) : IsInjective(t)}}

\* The objects of S and those within them: what every set has that has the
\* items of its members.
Closed(g, T) == \A x \in T : Range(g[x].items) \subseteq T
Within(g, S) ==
    {y \in DOMAIN g : \A T \in SUBSET DOMAIN g :
        S \subseteq T /\ Closed(g, T) => y \in T}

\* A set's keys were hashable when they were added.
Hashable(g, x) ==
    \A y \in Within(g, {x}) :
        /\ ~g[y].mutable /\ g[y].pair # "invalidated"
        /\ y \notin Within(g, Range(g[y].items))

\* Equal keys: the small integers are one, and so are the empty tuples.
Alike(g, x, y) ==
    /\ g[x].pair = g[y].pair /\ g[x].pair \in {"small", "tuple", "set"}
    /\ g[x].items = g[y].items

Graphs ==
    {g \in [Obj -> Nodes] :
        /\ Within(g, {Root}) = Obj
        /\ \A x \in Obj : g[x].pair = "set" =>
            \A i, j \in DOMAIN g[x].items :
                /\ Hashable(g, g[x].items[i])
                /\ i # j => ~Alike(g, g[x].items[i], g[x].items[j])}

\* Frames: a visitor of x; the copying ("tuple", "set") or the traversal of x;
\* the call itself; and yp_decref of everything a frame owns.  A copying frame
\* owns the copy it makes and, behind that, those of the items it has visited.
Frame(kind, x, own) == [kind |-> kind, of |-> x, own |-> own]
Visit(x) == Frame("visit", x, <<>>)

Init ==
    /\ graph \in Graphs /\ limit \in Limits
    /\ mode \in {"unfrozen", "frozen", "sametype", "deepfreeze"}
    /\ heap = ImmortalObjects /\ memo = <<>> /\ result = Pending
    /\ stack = <<Frame("call", Root, <<>>), Visit(Root)>>
-----------------------------------------------------------------------------
IncRef(h, i) == IF i \in Immortals THEN h ELSE [h EXCEPT ![i].refs = @ + 1]

Top == Last(stack)
X == graph[Top.of]
Depth == Cardinality({k \in DOMAIN stack : stack[k].kind \in {"tuple", "set"}})

Return(r) == result' = r /\ stack' = Front(stack)
Raise == Return(Exception)

\* The table of copies, or, for a deep freeze, the set of what was visited.
Known(x) == x \in DOMAIN memo
Memoized(x, i) ==
    [y \in DOMAIN memo \cup {x} |-> IF y = x THEN i ELSE memo[y]]

\* Seeded fault: everything becomes what the outermost object is.
FreezeLikeRoot(x) ==
    mode = "frozen" \/ (mode = "sametype" /\ ~graph[Root].mutable)

\* Whether the visitor calls tp_frozen_deepcopy.
Freeze(x) ==
    mode = "frozen" \/ (mode = "sametype" /\ ~graph[x].mutable)
-----------------------------------------------------------------------------
Visiting == stack # <<>> /\ Top.kind = "visit"

\* _yp_deepcopy_visitor: the copy that exists is returned.
MemoHit ==
    /\ Visiting /\ mode # "deepfreeze" /\ Known(Top.of)
    /\ heap' = IncRef(heap, memo[Top.of]) /\ Return(memo[Top.of])
    /\ UNCHANGED <<graph, mode, limit, memo>>

\* _yp_deepcopy_memo_getitem: no memory for the key to look up.
MemoFails ==
    /\ Visiting /\ mode # "deepfreeze" /\ memo # <<>>
    /\ Raise /\ UNCHANGED <<graph, mode, limit, heap, memo>>

\* _yp_deepcopy_visitor: the limit is reached.
TooDeep ==
    /\ Visiting /\ mode # "deepfreeze" /\ ~Known(Top.of) /\ Depth > limit
    /\ Raise /\ UNCHANGED <<graph, mode, limit, heap, memo>>

\* _yp_deepcopy_visitor: the object's own method is called.
Entering(pairs) ==
    /\ Visiting /\ mode # "deepfreeze" /\ ~Known(Top.of) /\ Depth <= limit
    /\ X.pair \in pairs

Fresh == Len(heap) + 1
NewCopy(refs) ==
    Append(heap, Counted(Node(X.pair, ~Freeze(Top.of), <<>>), refs))

\* Functions have no deep copy yet, and invalidated objects none.
CannotCopy ==
    /\ Entering({"function", "invalidated"}) /\ Raise
    /\ UNCHANGED <<graph, mode, limit, heap, memo>>

\* int_frozen_deepcopy of a preallocated integer, tuple_frozen_deepcopy and
\* frozenset_frozen_deepcopy of nothing: an immortal is returned.
ImmortalCopy ==
    IF Freeze(Top.of) /\ X.items = <<>>
    THEN {i \in Immortals : ImmortalObjects[i].pair = X.pair} ELSE {}

CopyImmortal ==
    /\ Entering({"small", "tuple", "set"})
    /\ \E i \in ImmortalCopy : Return(i)
    /\ UNCHANGED <<graph, mode, limit, heap, memo>>

\* _ypInt_deepcopy: made and memoized, or neither.
CopyInt ==
    /\ Entering({"int", "small"}) /\ ImmortalCopy = {}
    /\ \/ Raise /\ UNCHANGED <<heap, memo>>
       \/ /\ heap' = NewCopy(2) /\ memo' = Memoized(Top.of, Fresh)
          /\ Return(Fresh)
    /\ UNCHANGED <<graph, mode, limit>>

\* The running frame becomes another one.
Becomes(frame) == stack' = [stack EXCEPT ![Len(stack)] = frame]

\* The frame in which a container's items are copied or traversed.
Enter(kind, copy) ==
    Becomes(Frame(kind, Top.of, <<copy>>)) /\ result' = Pending

\* Seeded fault: a tuple's copy is not found while it has no items.
NotMemoized(x, i) == memo

\* _ypTuple_deepcopy memoizes the copy before it has items.
MemoizedFirst(x, i) == Memoized(x, i)

\* _ypTuple_deepcopy up to its loop: the object, the memo and the array may
\* each fail, the last once the copy is in the memo.
StartTuple ==
    /\ Entering({"tuple"}) /\ ImmortalCopy = {}
    /\ \/ Raise /\ UNCHANGED <<heap, memo>>
       \/ /\ memo' = MemoizedFirst(Top.of, Fresh)
          /\ \/ X.items = <<>> /\ heap' = NewCopy(2) /\ Return(Fresh)
             \/ X.items # <<>> /\ heap' = NewCopy(1) /\ Raise
             \/ X.items # <<>> /\ heap' = NewCopy(2) /\ Enter("tuple", Fresh)
    /\ UNCHANGED <<graph, mode, limit>>

\* _ypSet_deepcopy up to its loop.
StartSet ==
    /\ Entering({"set"}) /\ ImmortalCopy = {}
    /\ \/ Raise /\ UNCHANGED heap
       \/ heap' = NewCopy(1) /\ Enter("set", Fresh)
    /\ UNCHANGED <<graph, mode, limit, memo>>
-----------------------------------------------------------------------------
InItems == stack # <<>> /\ Top.kind \in {"tuple", "set", "traverse"}
Copy == Top.own[1]
Remain == Len(Top.own) <= Len(X.items)

\* The next item is visited.
VisitItem ==
    /\ InItems /\ result = Pending /\ Remain
    /\ stack' = Append(stack, Visit(X.items[Len(Top.own)]))
    /\ UNCHANGED <<graph, mode, limit, heap, memo, result>>

\* What the copy of a key must be for yp_hashC not to raise.
KeyHashes(i) == Hashable(heap, i)

\* The array, or the new set, owns what the visitor returned.
KeepItem ==
    /\ InItems /\ result > 0 /\ (Top.kind = "set" => KeyHashes(result))
    /\ Becomes([Top EXCEPT !.own = Append(@, result)]) /\ result' = Pending
    /\ UNCHANGED <<graph, mode, limit, heap, memo>>

\* _ypSet_deepcopy: the copy of the key cannot be one; it is released first.
KeyUnhashable ==
    /\ InItems /\ result > 0 /\ Top.kind = "set" /\ ~KeyHashes(result)
    /\ stack' = Append(stack, Frame("release", Top.of, <<result>>))
    /\ result' = Exception /\ UNCHANGED <<graph, mode, limit, heap, memo>>

\* Seeded fault: the copies made so far are left behind.
CopyOnly == SubSeq(Top.own, 1, 1)

\* What a container that fails owns: its own copy and those of its items.
GivenUp == Top.own

\* The exception of an item is passed on.
GiveUp ==
    /\ InItems /\ result = Exception
    /\ Becomes(Frame("release", Top.of, GivenUp))
    /\ UNCHANGED <<graph, mode, limit, heap, memo, result>>

\* _ypTuple_attach_array, which nothing can refuse here: no other code runs.
FinishTuple ==
    /\ InItems /\ Top.kind = "tuple" /\ result = Pending /\ ~Remain
    /\ heap' = [heap EXCEPT ![Copy].items = Tail(Top.own)] /\ Return(Copy)
    /\ UNCHANGED <<graph, mode, limit, memo>>

\* _ypSet_deepcopy after its loop: the memo may fail.
FinishSet ==
    /\ InItems /\ Top.kind = "set" /\ result = Pending /\ ~Remain
    /\ \/ /\ Becomes(Frame("release", Top.of, GivenUp)) /\ result' = Exception
          /\ UNCHANGED <<heap, memo>>
       \/ /\ heap' = [heap EXCEPT ![Copy].items = Tail(Top.own), ![Copy].refs = @ + 1]
          /\ memo' = Memoized(Top.of, Copy) /\ Return(Copy)
    /\ UNCHANGED <<graph, mode, limit>>
-----------------------------------------------------------------------------
Releasing == stack # <<>> /\ Top.kind = "release"

\* yp_decref of the last one; the last reference releases the items too.
Release ==
    LET i == Last(Top.own)
        kept == Front(Top.own)
    IN  /\ Releasing /\ Top.own # <<>>
        /\ IF i \in Immortals
           THEN Becomes([Top EXCEPT !.own = kept]) /\ UNCHANGED heap
           ELSE IF heap[i].refs > 1
           THEN /\ Becomes([Top EXCEPT !.own = kept])
                /\ heap' = [heap EXCEPT ![i].refs = @ - 1]
           ELSE /\ Becomes([Top EXCEPT !.own = kept \o heap[i].items])
                /\ heap' = [heap EXCEPT ![i].refs = 0, ![i].items = <<>>]
        /\ UNCHANGED <<graph, mode, limit, memo, result>>

\* What was to be released is; the result is passed on.
Released ==
    /\ Releasing /\ Top.own = <<>> /\ Return(result)
    /\ UNCHANGED <<graph, mode, limit, heap, memo>>
-----------------------------------------------------------------------------
\* Seeded fault: what is immutable already is taken to be so throughout.
MutableOnly(x) == graph[x].mutable

\* _yp_deepfreeze goes on into every object it has not visited.
Traversed(x) == TRUE

\* _yp_deepfreeze: the object is noted, frozen, and its items visited.
DeepFreeze ==
    /\ Visiting /\ mode = "deepfreeze"
    /\ \/ Known(Top.of) /\ Return(None) /\ UNCHANGED <<graph, memo>>
       \/ ~Known(Top.of) /\ Raise /\ UNCHANGED <<graph, memo>>
       \/ /\ ~Known(Top.of) /\ memo' = Memoized(Top.of, None)
          /\ IF X.pair = "invalidated" THEN Raise /\ UNCHANGED graph
             ELSE /\ graph' = [graph EXCEPT ![Top.of].mutable = FALSE]
                  /\ IF Traversed(Top.of) THEN Enter("traverse", None)
                     ELSE Return(None)
    /\ UNCHANGED <<mode, limit, heap>>

FinishTraverse ==
    /\ InItems /\ Top.kind = "traverse" /\ result = Pending /\ ~Remain
    /\ Return(None) /\ UNCHANGED <<graph, mode, limit, heap, memo>>

\* The call releases its memo, whose copies dict has the references, and
\* returns.
FinishCall ==
    /\ stack # <<>> /\ Top.kind = "call"
    /\ LET keys == SetToSeq(DOMAIN memo)
       IN  Becomes(Frame("release", Root, [k \in DOMAIN keys |-> memo[keys[k]]]))
    /\ memo' = <<>> /\ UNCHANGED <<graph, mode, limit, heap, result>>

Returned == stack = <<>> /\ UNCHANGED vars

Next ==
    \/ MemoHit \/ MemoFails \/ TooDeep \/ CannotCopy
    \/ CopyImmortal \/ CopyInt
    \/ StartTuple \/ StartSet \/ VisitItem \/ KeepItem \/ KeyUnhashable
    \/ GiveUp \/ FinishTuple \/ FinishSet \/ Release \/ Released
    \/ DeepFreeze \/ FinishTraverse \/ FinishCall \/ Returned

Spec == Init /\ [][Next]_vars
-----------------------------------------------------------------------------
Copies == DOMAIN heap \ Immortals

\* Where i occurs in some of the sequences of own.
Places(own, i) ==
    UNION {{k} \X {l \in DOMAIN own[k] : own[k][l] = i} : k \in DOMAIN own}
InCopies(i) == Places([j \in Copies |-> heap[j].items], i)
InFrames(i) == Places([k \in DOMAIN stack |-> stack[k].own], i)
InMemo(i) == {x \in DOMAIN memo : memo[x] = i}

\* Every copy has exactly one reference for each place that holds it: an
\* item of a copy, a copy under way and what it has gathered, what is about
\* to be released, the memo, and what has just been returned.  Whatever
\* fails, and at whichever point, nothing is lost but what copies hold of
\* each other, and nothing is released twice (_ypTuple_deepcopy,
\* _ypSet_deepcopy, nohtyP.c:12404, 15430).
RefsExact ==
    \A i \in Copies :
        heap[i].refs =
            Cardinality(InCopies(i)) + Cardinality(InFrames(i))
            + Cardinality(InMemo(i)) + (IF result = i THEN 1 ELSE 0)

SameKind(x, i) ==
    /\ heap[i].refs > 0 /\ heap[i].pair = graph[x].pair
    /\ heap[i].mutable =
        CASE mode = "unfrozen" -> TRUE [] mode = "frozen" -> FALSE
          [] mode = "sametype" -> graph[x].mutable

\* f tells the copy of each object.
Renames(f) ==
    /\ f[Root] = result
    /\ \A x \in Obj : /\ SameKind(x, f[x])
                      /\ Len(heap[f[x]].items) = Len(graph[x].items)
                      /\ \A k \in DOMAIN graph[x].items :
                            heap[f[x]].items[k] = f[graph[x].items[k]]
    /\ \A x, y \in Obj : f[x] = f[y] => x = y \/ f[x] \in Immortals

\* A deep copy that is returned has the shape of the original: objects that
\* were shared or contained themselves still are and do, each has one copy,
\* and each copy is as mutable as the call promises (nohtyP.h:1486-1512).
CopyFaithful ==
    stack = <<>> /\ mode # "deepfreeze" /\ result # Exception =>
        \E f \in [Obj -> DOMAIN heap] : Renames(f)

\* However objects contain each other, none is copied while its own copy is
\* under way: the memo, and not the recursion limit, ends the recursion
\* (nohtyP.c:12418, and 15442 on sets that contain themselves).
NeverWithinItself ==
    \A j, k \in DOMAIN stack :
        /\ {stack[j].kind, stack[k].kind} \subseteq {"tuple", "set"}
        /\ stack[j].of = stack[k].of
        => j = k

\* A deep freeze that returns without an exception has frozen everything
\* that can be reached, what only immutable objects lead to included
\* (nohtyP.c:3470-3493).
FreezeReachesAll ==
    stack = <<>> /\ mode = "deepfreeze" /\ result # Exception =>
        \A x \in Obj : ~graph[x].mutable
=============================================================================
