------------------------------ MODULE ypList ------------------------------
(***************************************************************************)
(* One list of nohtyP, from its creation until it has become a tuple: its  *)
(* items, the buffer that holds them, the references it holds, and the     *)
(* calls that are under way.                                               *)
(*                                                                         *)
(* The items are in the object itself (inline) or in a buffer of their     *)
(* own; alloclen says how many fit.  A buffer is only ever reached through *)
(* len, so cells past it are not kept.                                     *)
(*                                                                         *)
(* frames is the C stack of the calls that run other code before they      *)
(* return: list_sort's key function, list_extend's iterator, list_clear's  *)
(* discarded items.  That code may call anything on the list again.        *)
(* Discards in the other calls happen while the list is between two        *)
(* states; items whose discarding reaches back to the list are left out    *)
(* there, as the code's own notes do.                                      *)
(***************************************************************************)
EXTENDS ypSortOps

CONSTANTS
    Items,
    Noisy,          \* the items whose discarding runs other code
    Rank,           \* [Items -> Int]: how yp_lt orders them
    Ranks,          \* what a key function may return
    LenMax,         \* ypTuple_LEN_MAX
    InlineLen,      \* how many items fit inline, as the code computes it
    InlineRoom,     \* and as the memory given to this object has room for
    Slack,          \* how much more than asked for yp_malloc may give
    KeysOnStack,    \* MERGESTATE_TEMP_SIZE/2
    DepthMax,       \* how deep calls are nested
    Factors, Slices, Args,  \* arguments that the calls are tried with
    Self            \* the list itself, as an argument

ASSUME ListAssumption ==
    /\ Noisy \subseteq Items /\ Junk \notin Items
    /\ LenMax \in Nat /\ LenMax <= SSizeMax
    /\ InlineRoom \in 0..LenMax /\ InlineLen \in 0..InlineRoom
    /\ Slack \subseteq Nat /\ Factors \subseteq Int
    /\ \A x \in Args : x \in Seq(Items)
    /\ Slices \subseteq Int \X Int \X Int

VARIABLES
    type,       \* "list", or "tuple" once frozen
    hashed,     \* ob_hash is cached
    array,      \* the cells below ob_len
    alloclen,
    inline,     \* ob_data is the inline buffer
    refs,       \* references to each item, held by the list and its calls
    frames,
    result      \* what the last call returned

bufVars == <<array, alloclen, inline, refs>>
vars == <<type, hashed, bufVars, frames, result>>

\* _ypMem_malloc_container_variable takes alloclen from the size it was given;
\* later calls that come back to the inline buffer count on less.
Init ==
    /\ type = "list" /\ hashed = FALSE
    /\ array = <<>> /\ alloclen = InlineRoom /\ inline = TRUE
    /\ refs = [x \in Items |-> 0]
    /\ frames = <<>> /\ result = "ok"
-----------------------------------------------------------------------------
Top == frames[Len(frames)]
UserRuns == frames # <<>> => Top.user

Count(s, x) == Cardinality({i \in DOMAIN s : s[i] = x})
Incref(s) == refs' = [x \in Items |-> refs[x] + Count(s, x)]
Decref(s) == refs' = [x \in Items |-> refs[x] - Count(s, x)]

\* The buffers _ypMem_realloc_container_variable may choose.  It copies
\* nothing; "moved" tells the caller to.
Buffers(required) ==
    IF required <= InlineLen
    THEN {[moved |-> ~inline, inline |-> TRUE, alloclen |-> InlineLen]}
    ELSE [moved : IF inline THEN {TRUE} ELSE BOOLEAN, inline : {FALSE},
          alloclen : {n \in required..LenMax : n - required \in Slack}]
MayLackMemory(required) == required > InlineLen

Take(b) == alloclen' = b.alloclen /\ inline' = b.inline
Keep == UNCHANGED <<alloclen, inline>>
Stay == UNCHANGED <<type, hashed, frames>>

\* The n cells of a buffer whose first cells are s.
Cells(s, n) == s \o Fresh(n - Len(s))
\* What is in the buffer after a move that kept the first n cells.
After(b, cells, n) == IF b.moved THEN CopyCells(Fresh(b.alloclen), 0, cells, 0, n)
                      ELSE Cells(cells, b.alloclen)

Returns(r) == result' = r
Unchanged(r) == Returns(r) /\ UNCHANGED bufVars

\* _ypTuple_extend_grow, then s at the end
GrowAnyway(required, s) ==
    \/ \E b \in Buffers(required) :
          LET cells == After(b, array, Len(array))
          IN  /\ Take(b) /\ Incref(s) /\ Returns("ok")
              /\ array' = SubSeq(CopyCells(cells, Len(array), s, 0, Len(s)),
                                 1, required)
    \/ MayLackMemory(required) /\ Unchanged("MemoryError")

\* _ypTuple_push, _ypTuple_extend_fromtuple
AppendAll(s) ==
    LET newLen == Len(array) + Len(s)
    IN  IF newLen > LenMax THEN Unchanged("MemorySizeOverflowError")
        ELSE IF alloclen < newLen THEN GrowAnyway(newLen, s)
        ELSE /\ Keep /\ Incref(s) /\ Returns("ok")
             /\ array' = SubSeq(CopyCells(Cells(array, alloclen), Len(array),
                                          s, 0, Len(s)), 1, newLen)

\* ypTuple_ELEMMOVE on a buffer that holds len items
ElemMove(cells, len, dest, src) == Move(cells, dest, src, len - src)

\* _ypTuple_setslice_grow and _ypTuple_setslice_elemmove, then x at start:
\* the items of array[start:stop] are discarded, those behind them moved by
\* growBy.  A new buffer gets the two parts that stay one by one.
ReplacePart(start, stop, growBy, x) ==
    LET newLen == Len(array) + growBy
        gone   == SubSeq(array, start + 1, stop)
        Put(cells) ==
            /\ array' = SubSeq(CopyCells(cells, start, x, 0, Len(x)), 1, newLen)
            /\ refs' = [y \in Items |-> refs[y] - Count(gone, y) + Count(x, y)]
            /\ Returns("ok")
        InPlace(n) == ElemMove(Cells(array, n), Len(array), stop + growBy, stop)
        Split(n) == CopyCells(CopyCells(Fresh(n), 0, array, 0, start),
                              stop + growBy, array, stop, Len(array) - stop)
    IN  IF growBy > 0 /\ newLen > LenMax
        THEN Unchanged("MemorySizeOverflowError")
        ELSE IF growBy > 0 /\ alloclen < newLen
        THEN \/ \E b \in Buffers(newLen) :
                   /\ Take(b)
                   /\ Put(IF b.moved THEN Split(b.alloclen)
                          ELSE InPlace(b.alloclen))
             \/ MayLackMemory(newLen) /\ Unchanged("MemoryError")
        ELSE Keep /\ Put(InPlace(alloclen))
-----------------------------------------------------------------------------
(* The calls that end before anything else runs.                           *)
Begin == UserRuns /\ type = "list"
Argument(x) == IF x = Self THEN array ELSE x

Append1(x) == Begin /\ Stay /\ AppendAll(<<x>>)

ExtendFromTuple(x) ==
    /\ Begin /\ Stay
    /\ IF Argument(x) = <<>> THEN Unchanged("ok") ELSE AppendAll(Argument(x))

\* Seeded fault: -1 stands for the end and not for the last item.
InsertFromEnd(i, x) ==
    /\ Begin /\ Stay
    /\ LET j == IF i < 0 THEN IF i + Len(array) < 0 THEN 0
                             ELSE i + Len(array) + 1
                ELSE IF i > Len(array) THEN Len(array) ELSE i
       IN  ReplacePart(j, j, 1, <<x>>)

Insert(i, x) ==
    /\ Begin /\ Stay
    /\ LET j == IF i < 0 THEN IF i + Len(array) < 0 THEN 0 ELSE i + Len(array)
                ELSE IF i > Len(array) THEN Len(array) ELSE i
       IN  ReplacePart(j, j, 1, <<x>>)

SetIndex(i, x) ==
    /\ Begin /\ Stay
    /\ IF ~InBounds(Len(array), i) THEN Unchanged("IndexError")
       ELSE LET j == Adjusted(Len(array), i) + 1
            IN  /\ array' = [array EXCEPT ![j] = x]
                /\ refs' = [y \in Items |-> refs[y] - Count(<<array[j]>>, y)
                                           + Count(<<x>>, y)]
                /\ Keep /\ Returns("ok")

\* _ypTuple_popindex: the item goes to the caller, or is discarded.
PopAt(i, r) ==
    IF ~InBounds(Len(array), i) THEN Unchanged("IndexError")
    ELSE LET j == Adjusted(Len(array), i)
         IN  /\ array' = SubSeq(ElemMove(array, Len(array), j, j + 1),
                                1, Len(array) - 1)
             /\ Decref(<<array[j + 1]>>)
             /\ Keep /\ Returns(IF r = "item" THEN array[j + 1] ELSE r)
PopIndex(i) == Begin /\ Stay /\ PopAt(i, "item")
DelIndex(i) == Begin /\ Stay /\ PopAt(i, "ok")
Pop == /\ Begin /\ Stay
       /\ IF array = <<>> THEN Unchanged("IndexError")
          ELSE /\ array' = Front(array) /\ Decref(<<Last(array)>>)
               /\ Keep /\ Returns(Last(array))

Remove1(x) ==
    /\ Begin /\ Stay
    /\ LET found == SelectInSeq(array, LAMBDA y : y = x)
       IN  IF found = 0 THEN Unchanged("ValueError") ELSE PopAt(found - 1, "ok")

\* _list_reverse_slice
ReverseItems ==
    /\ Begin /\ Stay /\ array' = Swapped(array) /\ Returns("ok")
    /\ Keep /\ UNCHANGED refs

\* list_clear is a loop of its own.
CallClear == /\ Len(frames) < DepthMax
             /\ frames' = Append(frames, [op |-> "clear", user |-> FALSE])
             /\ Unchanged("ok") /\ UNCHANGED <<type, hashed>>

\* list_delslice, once the indices are adjusted
DelPart(s) ==
    IF s.n < 1 THEN Stay /\ Unchanged("ok")
    ELSE IF s.n >= Len(array) THEN CallClear
    ELSE /\ Decref(ItemsAt(array, s))
         /\ array' = SubSeq(DelsliceMove(array, Len(array), s),
                            1, Len(array) - s.n)
         /\ Keep /\ Stay /\ Returns("ok")

SliceOf(s) == AdjustIndices(Len(array), s[1], s[2], s[3])
\* Which item of the slice is at position p.
PartOf(t, p) == CHOOSE i \in 1..t.n : SliceIndex(t, i - 1) = p

\* No slice of step 1 among those tried stops before it starts: list_setslice
\* would move the items behind it over others that stay.
SlicesRunForward ==
    \A s \in Slices, n \in 0..LenMax :
        s[3] = 1 => LET t == AdjustIndices(n, s[1], s[2], 1) IN t.start <= t.stop

DelSlice(s) ==
    /\ Begin
    /\ IF StepError(s[3]) # "none" THEN Stay /\ Unchanged(StepError(s[3]))
       ELSE DelPart(SliceOf(s))

SetSlice(s, x) ==
    LET t == SliceOf(s)
        items == Argument(x)
    IN  /\ Begin
        /\ \/ IF StepError(s[3]) # "none"
              THEN Stay /\ Unchanged(StepError(s[3]))
              ELSE IF s[3] = 1
              THEN IF items = <<>> THEN DelPart(t)
                   ELSE /\ Stay
                        /\ ReplacePart(t.start, t.stop, Len(items) - t.n, items)
              ELSE /\ Stay
                   /\ IF Len(items) # t.n THEN Unchanged("ValueError")
                      ELSE /\ array' = [k \in DOMAIN array |->
                                IF \E i \in 0..t.n-1 : SliceIndex(t, i) = k - 1
                                THEN items[PartOf(t, k - 1)] ELSE array[k]]
                           /\ refs' = [y \in Items |-> refs[y]
                                 - Count(ItemsAt(array, t), y) + Count(items, y)]
                           /\ Keep /\ Returns("ok")
           \* the copy that is made of the list itself
           \/ x = Self /\ array # <<>> /\ Stay /\ Unchanged("MemoryError")

\* It grows even when there is room.
IRepeat(factor) ==
    /\ Begin
    /\ IF array = <<>> \/ factor = 1 THEN Stay /\ Unchanged("ok")
       ELSE IF factor < 1 THEN CallClear
       ELSE IF factor > LenMax \div Len(array)
       THEN Stay /\ Unchanged("MemorySizeOverflowError")
       ELSE /\ Stay
            /\ LET newLen == Len(array) * factor
               IN  \/ \E b \in Buffers(newLen) :
                        LET all == SubSeq(RepeatCopy(
                                       After(b, array, Len(array)),
                                       factor, Len(array)), 1, newLen)
                        IN  /\ Take(b) /\ array' = all /\ Returns("ok")
                            /\ Incref(SubSeq(all, Len(array) + 1, newLen))
                   \/ MayLackMemory(newLen) /\ Unchanged("MemoryError")
-----------------------------------------------------------------------------
(* yp_freeze and yp_hash.                                                  *)
Freeze == /\ UserRuns /\ type' = "tuple" /\ Unchanged("ok")
          /\ UNCHANGED <<hashed, frames>>
Hash   == /\ UserRuns /\ type = "tuple" /\ hashed' = TRUE /\ Unchanged("ok")
          /\ UNCHANGED <<type, frames>>

(* The calls that run other code.                                          *)
Call(f) == frames' = Append(frames, f)
Set(f)  == frames' = Append(Front(frames), f)
Ended   == frames' = Front(frames)
Running(op) == frames # <<>> /\ Top.op = op
Room == Len(frames) < DepthMax

Clear == Begin /\ CallClear

ClearPops ==
    /\ Running("clear") /\ ~Top.user /\ array # <<>>
    /\ array' = Front(array) /\ Decref(<<Last(array)>>)
    /\ Set([Top EXCEPT !.user = Last(array) \in Noisy])
    /\ Returns("ok") /\ Keep /\ UNCHANGED <<type, hashed>>

ClearResumes ==
    /\ Running("clear") /\ Top.user /\ Set([Top EXCEPT !.user = FALSE])
    /\ UNCHANGED <<type, hashed, bufVars, result>>

\* Seeded fault: alloclen stays that of the freed buffer.
ClearEndsKeepsAlloclen ==
    /\ Running("clear") /\ ~Top.user /\ array = <<>> /\ Ended
    /\ inline' = TRUE
    /\ Returns("ok") /\ UNCHANGED <<type, hashed, array, alloclen, refs>>

\* _ypMem_realloc_container_variable_clear
ClearEnds ==
    /\ Running("clear") /\ ~Top.user /\ array = <<>> /\ Ended
    /\ inline' = TRUE /\ alloclen' = IF inline THEN alloclen ELSE InlineLen
    /\ Returns("ok") /\ UNCHANGED <<type, hashed, array, refs>>

Extend == /\ Begin /\ Room /\ Call([op |-> "extend", user |-> TRUE])
          /\ Unchanged("ok") /\ UNCHANGED <<type, hashed>>

\* _ypTuple_extend_fromminiiter's loop.  It does not look at the type.
ItemArrives(x) ==
    /\ Running("extend") /\ AppendAll(<<x>>) /\ UNCHANGED <<type, hashed>>
    /\ IF result' = "ok" THEN UNCHANGED frames ELSE Ended

ExtendEnds == /\ Running("extend") /\ Ended
              /\ \E e \in {"ok", "Raised"} : Unchanged(e)
              /\ UNCHANGED <<type, hashed>>

\* list_sort takes the items away (_ypTuple_detach_array).  Inline items
\* need a buffer of their own.
Detached(reverse, keyed, n) ==
    [op |-> "sort", user |-> keyed, items |-> array, alloclen |-> n,
     keys |-> <<>>, reverse |-> reverse]
Emptied == array' = <<>> /\ alloclen' = InlineLen /\ inline' = TRUE
DetachedLens == IF inline THEN {n \in Len(array)..LenMax : n - Len(array) \in Slack}
                ELSE {alloclen}

Sort(keyed, reverse) ==
    /\ Begin /\ UNCHANGED <<type, hashed>>
    /\ IF array = <<>> THEN Unchanged("ok") /\ UNCHANGED frames
       ELSE \/ /\ Room /\ Emptied /\ Returns("ok") /\ UNCHANGED refs
               /\ \E n \in DetachedLens : Call(Detached(reverse, keyed, n))
            \/ inline /\ Unchanged("MemoryError") /\ UNCHANGED frames

\* The key function has returned k for the next item.
KeyReturns(k) ==
    /\ Running("sort") /\ Top.user
    /\ LET keys == Append(Top.keys, k)
       IN  Set([Top EXCEPT !.keys = keys, !.user = Len(keys) < Len(Top.items)])
    /\ UNCHANGED <<type, hashed, bufVars, result>>

\* list_sort of fewer than 64 items is a single run; ypSort has the longer
\* ones.  A pair is a key and its item.
Timsort(s) == NextRun(s, Len(s))

\* A reversed sort is a sort of the reversed items, reversed.
SortPairs(s, reverse) ==
    IF Len(s) < 2 THEN [s |-> s, failed |-> FALSE]
    ELSE IF reverse
         THEN LET t == Timsort(Swapped(s)) IN [t EXCEPT !.s = Swapped(t.s)]
         ELSE Timsort(s)

\* Seeded fault: the items that were added meanwhile are not discarded.
AttachOver(items, r) ==
    /\ Ended /\ UNCHANGED <<type, hashed>>
    /\ array' = items /\ alloclen' = Top.alloclen /\ inline' = FALSE
    /\ UNCHANGED refs
    /\ Returns(IF array # <<>> THEN "ValueError" ELSE r)

\* _ypTuple_attach_array, for the sort on top that would return r.
Attach(items, r) ==
    /\ Ended /\ UNCHANGED <<type, hashed>>
    /\ \/ /\ hashed
          /\ Decref(Top.items) /\ Returns("Exception")
          /\ Keep /\ UNCHANGED array
       \/ /\ ~hashed /\ array # <<>> /\ inline
          /\ Decref(Top.items) /\ Returns("MemoryError")
          /\ Keep /\ UNCHANGED array
       \/ /\ ~hashed
          /\ array' = items /\ alloclen' = Top.alloclen /\ inline' = FALSE
          /\ Decref(array)
          /\ Returns(IF array # <<>> THEN "ValueError" ELSE r)

SortEnds ==
    /\ Running("sort") /\ ~Top.user
    /\ LET pairs == [i \in DOMAIN Top.items |->
                        [key |-> IF Top.keys = <<>> THEN Rank[Top.items[i]]
                                 ELSE Top.keys[i],
                         item |-> Top.items[i]]]
           sorted == SortPairs(pairs, Top.reverse)
       IN  Attach([i \in DOMAIN pairs |-> sorted.s[i].item],
                  IF sorted.failed THEN "TypeError" ELSE "ok")

\* The key function raised, or there was no memory for the keys.
SortFails ==
    /\ Running("sort") /\ Top.user
    /\ \/ Attach(Top.items, "Raised")
       \/ /\ Len(Top.items) >= KeysOnStack /\ Top.keys = <<>>
          /\ Attach(Top.items, "MemoryError")
-----------------------------------------------------------------------------
Indices == -LenMax-1..LenMax

Change ==
    \/ \E x \in Items : \/ Append1(x) \/ Remove1(x)
                         \/ \E i \in Indices : Insert(i, x) \/ SetIndex(i, x)
    \/ \E i \in Indices : PopIndex(i) \/ DelIndex(i)
    \/ \E x \in Args \cup {Self} : \/ ExtendFromTuple(x)
                                    \/ \E s \in Slices : SetSlice(s, x)
    \/ \E s \in Slices : DelSlice(s)
    \/ \E f \in Factors : IRepeat(f)
    \/ Pop \/ ReverseItems \/ Clear \/ Extend
    \/ \E keyed, reverse \in BOOLEAN : Sort(keyed, reverse)

Next ==
    \/ Change \/ Freeze \/ Hash
    \/ ClearPops \/ ClearResumes \/ ClearEnds
    \/ \E x \in Items : ItemArrives(x)
    \/ ExtendEnds
    \/ \E k \in Ranks : KeyReturns(k)
    \/ SortEnds \/ SortFails

Spec == Init /\ [][Next]_vars
-----------------------------------------------------------------------------
\* Nothing is ever read or written outside the buffer: what is in the list
\* fits the buffer, and alloclen is never that of a larger one once the items
\* are inline again.
BufferFits ==
    /\ Len(array) <= alloclen
    /\ inline => alloclen <= InlineRoom

\* Where the sorts that are under way hold x.
HeldBySorts(x) ==
    UNION {{k} \X {i \in DOMAIN frames[k].items : frames[k].items[i] = x} :
           k \in {j \in DOMAIN frames : frames[j].op = "sort"}}

\* The list and the sorts that hold its items own one reference for each
\* place an item is at, and no place is left uninitialised: whatever calls
\* ran inside each other, no item is leaked or given back twice.
RefsHeld ==
    /\ \A i \in DOMAIN array : array[i] # Junk
    /\ \A x \in Items :
          refs[x] = Count(array, x) + Cardinality(HeldBySorts(x))
=============================================================================
