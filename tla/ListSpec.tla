------------------------------ MODULE ListSpec ------------------------------
(***************************************************************************)
(* What nohtyP promises of one list: a sequence of items, with the calls   *)
(* that change it.  No buffers and no reference counts.  A slice is the    *)
(* set of positions that "Common sequence operations" of nohtyP.h says it  *)
(* selects.                                                                *)
(*                                                                         *)
(* Three calls run other code before they end: a sort calls its key        *)
(* function, an extend asks an iterator for items, and clear discards      *)
(* items one at a time.  Such a call is a record on calls; whatever it     *)
(* runs may change the same list.                                          *)
(***************************************************************************)
EXTENDS Integers, Sequences, FiniteSets, SequencesExt

CONSTANTS
    Items,
    Rank,           \* [Items -> Int]: how yp_lt orders them
    Ranks,          \* what a key function may return
    Unorderable,    \* the rank that yp_lt fails on
    SSizeMax,
    LenMax,
    Factors, Slices, Args,      \* arguments that the calls are tried with
    Self                        \* the list itself, as an argument

VARIABLES
    type, hashed, contents,
    calls,      \* the calls under way, innermost last
    call,       \* the last call or step, with its arguments
    result
vars == <<type, hashed, contents, calls, call, result>>

Default == -SSizeMax - 1

Init == /\ type = "list" /\ hashed = FALSE /\ contents = <<>>
        /\ calls = <<>> /\ call = <<"none">> /\ result = "ok"

Wrapped(n, i) == IF i < 0 THEN i + n ELSE i
Lesser(a, b)  == IF a < b THEN a ELSE b
Greater(a, b) == IF a < b THEN b ELSE a

\* The positions of c[start:stop:step], in C's counting.
Positions(n, start, stop, step) ==
    LET first == IF start = Default THEN IF step > 0 THEN 0 ELSE n - 1
                 ELSE IF step > 0 THEN Greater(0, Wrapped(n, start))
                 ELSE Lesser(n - 1, Wrapped(n, start))
        end   == IF stop = Default THEN IF step > 0 THEN n ELSE -1
                 ELSE Wrapped(n, stop)
    IN  {p \in 0..n-1 : IF step > 0
                        THEN first <= p /\ p < end /\ ((p - first) % step) = 0
                        ELSE /\ end < p /\ p <= first
                             /\ ((first - p) % (-step)) = 0}

InOrder(P, step) == IF step > 0 THEN SetToSortSeq(P, <) ELSE SetToSortSeq(P, >)

\* c without the slice s
Without(c, s) ==
    LET P == Positions(Len(c), s[1], s[2], s[3])
        kept == SetToSortSeq((0..Len(c)-1) \ P, <)
    IN  [k \in DOMAIN kept |-> c[kept[k] + 1]]

\* Where c[start:] begins, and where c[:stop] ends.
FirstOf(n, i) == IF i = Default THEN 0
                 ELSE Lesser(n, Greater(0, Wrapped(n, i)))
EndOf(n, i)   == IF i = Default THEN n
                 ELSE Lesser(n, Greater(0, Wrapped(n, i)))

\* c with x in the place of the slice s
Replaced(c, s, x) ==
    IF s[3] = 1
    THEN LET first == FirstOf(Len(c), s[1])
             end   == Greater(first, EndOf(Len(c), s[2]))
         IN  SubSeq(c, 1, first) \o x \o SubSeq(c, end + 1, Len(c))
    ELSE LET p == InOrder(Positions(Len(c), s[1], s[2], s[3]), s[3])
         IN  [k \in DOMAIN c |->
                IF \E j \in DOMAIN p : p[j] = k - 1
                THEN x[CHOOSE j \in DOMAIN p : p[j] = k - 1] ELSE c[k]]

Repeat(c, factor) == [k \in 1..(Len(c) * factor) |-> c[((k - 1) % Len(c)) + 1]]

\* A reordering o of 1..n that sorts, and keeps what the order does not
\* distinguish as it was.
Sorts(o, ranks, reverse) ==
    \A j, k \in DOMAIN o : j < k =>
        IF ranks[o[j]] = ranks[o[k]] THEN o[j] < o[k]
        ELSE (ranks[o[j]] < ranks[o[k]]) # reverse

Orders(n) == {o \in [1..n -> 1..n] : \A j, k \in 1..n : j # k => o[j] # o[k]}
Reordered(c, o) == [k \in DOMAIN c |-> c[o[k]]]
-----------------------------------------------------------------------------
Top    == calls[Len(calls)]
\* The list's user has control: there is no call, or the one on top has
\* called out.
UserRuns == calls # <<>> => Top.user

Becomes(c, r) == contents' = c /\ result' = r
Fails(e) == Becomes(contents, e)
Steady == UNCHANGED <<type, hashed, calls>>

\* A call that changes the list at once: it is a list, and its user calls.
Changeable == UserRuns /\ type = "list"
Atomic  == Changeable /\ Steady

\* The list becomes c.  It may only be refused that when it gets longer.
Resized(c) ==
    \/ Len(c) <= LenMax /\ Becomes(c, "ok")
    \/ Len(c) > LenMax /\ Fails("MemorySizeOverflowError")
    \/ Len(c) > Len(contents) /\ Len(c) <= LenMax /\ Fails("MemoryError")

\* An argument: an item sequence, or the list itself.
Argument(x) == IF x = Self THEN contents ELSE x

\* c[i] exists; its place, from 1.
HasIndex(i) == Wrapped(Len(contents), i) \in 0..Len(contents)-1
At(i) == Wrapped(Len(contents), i) + 1

Append1(x)         == Atomic /\ Resized(Append(contents, x))
ExtendFromTuple(x) == Atomic /\ Resized(contents \o Argument(x))
Insert(i, x) ==
    Atomic /\ Resized(InsertAt(contents, FirstOf(Len(contents), i) + 1, x))
SetIndex(i, x) ==
    Atomic /\ IF HasIndex(i) THEN Becomes(ReplaceAt(contents, At(i), x), "ok")
              ELSE Fails("IndexError")
PopIndex(i) ==
    Atomic /\ IF HasIndex(i)
              THEN Becomes(RemoveAt(contents, At(i)), contents[At(i)])
              ELSE Fails("IndexError")
DelIndex(i) ==
    Atomic /\ IF HasIndex(i) THEN Becomes(RemoveAt(contents, At(i)), "ok")
              ELSE Fails("IndexError")
Pop == PopIndex(-1)
Remove1(x) ==
    Atomic /\ IF Contains(contents, x)
              THEN Becomes(RemoveFirst(contents, x), "ok")
              ELSE Fails("ValueError")
ReverseItems == Atomic /\ Becomes(Reverse(contents), "ok")

\* The slice of all items is deleted, and the list repeated no times, as
\* clear does it; a list that has nothing needs no clearing.
Begins(frame, c) ==
    /\ Changeable
    /\ calls' = Append(calls, frame) /\ contents' = c /\ result' = "ok"
    /\ UNCHANGED <<type, hashed>>
Clear == Begins([op |-> "clear", user |-> FALSE], contents)

DelSlice(s) ==
    LET rest == Without(contents, s)
    IN  \/ s[3] = 0 /\ Atomic /\ Fails("ValueError")
        \/ s[3] < -SSizeMax /\ Atomic /\ Fails("SystemLimitationError")
        \/ /\ s[3] \notin {0, Default}
           /\ IF rest = <<>> /\ contents # <<>> THEN Clear
              ELSE Atomic /\ Becomes(rest, "ok")

\* A slice that skips items can only be given as many as it has.  The list
\* as its own argument is copied first, and there may be no memory for that.
SetSlice(s, x) ==
    \/ x = Self /\ contents # <<>> /\ Atomic /\ Fails("MemoryError")
    \/ IF s[3] = 1
       THEN IF Argument(x) = <<>> THEN DelSlice(s)
            ELSE Atomic /\ Resized(Replaced(contents, s, Argument(x)))
       ELSE /\ Atomic
            /\ IF s[3] = 0 THEN Fails("ValueError")
               ELSE IF s[3] < -SSizeMax THEN Fails("SystemLimitationError")
               ELSE IF Len(Argument(x)) #
                       Cardinality(Positions(Len(contents), s[1], s[2], s[3]))
               THEN Fails("ValueError")
               ELSE Becomes(Replaced(contents, s, Argument(x)), "ok")

IRepeat(factor) ==
    IF factor < 1 /\ contents # <<>> THEN Clear
    ELSE Atomic /\ IF contents = <<>> THEN Becomes(<<>>, "ok")
                   ELSE Resized(Repeat(contents, factor))

\* The list becomes a tuple, and a tuple may be hashed.
Freeze == /\ UserRuns /\ type' = "tuple" /\ result' = "ok"
          /\ UNCHANGED <<hashed, contents, calls>>
Hash   == /\ UserRuns /\ type = "tuple" /\ hashed' = TRUE /\ result' = "ok"
          /\ UNCHANGED <<type, contents, calls>>

Ends(c, r) ==
    /\ calls' = Front(calls) /\ Becomes(c, r) /\ UNCHANGED <<type, hashed>>

\* clear takes the last item away, lets the user see it go, and goes on.
ClearStep ==
    /\ calls # <<>> /\ Top.op = "clear"
    /\ \/ /\ ~Top.user /\ contents # <<>>
          /\ contents' = Front(contents)
          /\ calls' \in {Append(Front(calls), [Top EXCEPT !.user = u]) :
                            u \in BOOLEAN}
          /\ result' = "ok" /\ UNCHANGED <<type, hashed>>
       \/ /\ Top.user
          /\ calls' = Append(Front(calls), [Top EXCEPT !.user = FALSE])
          /\ UNCHANGED <<type, hashed, contents, result>>
       \/ ~Top.user /\ contents = <<>> /\ Ends(<<>>, "ok")

\* extend appends what the iterator yields, when it yields it, also to a
\* list that has become a tuple meanwhile.
Extend == Begins([op |-> "extend", user |-> TRUE], contents)
ItemArrives(x) ==
    /\ calls # <<>> /\ Top.op = "extend"
    /\ UNCHANGED <<type, hashed>> /\ Resized(Append(contents, x))
    /\ calls' = IF result' = "ok" THEN calls ELSE Front(calls)
ExtendEnds ==
    /\ calls # <<>> /\ Top.op = "extend"
    /\ \E e \in {"ok", "Raised"} : Ends(contents, e)

\* sort holds all the items until it ends: meanwhile the list is empty.
Sort(keyed, reverse) ==
    IF contents = <<>> THEN Atomic /\ Becomes(<<>>, "ok")
    ELSE \/ Begins([op |-> "sort", user |-> keyed, items |-> contents,
                    keys |-> <<>>, reverse |-> reverse], <<>>)
         \/ Atomic /\ Fails("MemoryError")

\* A key function has returned.
KeyReturns(k) ==
    /\ calls # <<>> /\ Top.op = "sort" /\ Top.user
    /\ LET keys == Append(Top.keys, k)
       IN  calls' = Append(Front(calls),
                      [Top EXCEPT !.keys = keys,
                                  !.user = Len(keys) < Len(Top.items)])
    /\ UNCHANGED <<type, hashed, contents, result>>

\* The items come back in order, or in some order when they cannot be
\* compared or a key function failed.  If the list is no longer empty its
\* new items are dropped, and the caller told so.  Only a hash taken in the
\* meantime, or a lack of memory for that change, loses the items.
SortEnds ==
    /\ calls # <<>> /\ Top.op = "sort"
    /\ LET ranks == IF Top.keys # <<>> THEN Top.keys
                    ELSE [k \in DOMAIN Top.items |-> Rank[Top.items[k]]]
       IN  \/ /\ hashed /\ Ends(contents, "Exception")
           \/ /\ ~hashed /\ contents # <<>> /\ Ends(contents, "MemoryError")
           \/ /\ ~hashed
              /\ \E o \in Orders(Len(Top.items)), r \in {"ok", "TypeError",
                                                   "Raised", "MemoryError"} :
                     /\ r = "ok" => /\ Len(ranks) = Len(Top.items)
                                    /\ Sorts(o, ranks, Top.reverse)
                     /\ r = "TypeError" =>
                            /\ Len(ranks) = Len(Top.items) /\ Len(ranks) > 1
                            /\ \E k \in DOMAIN ranks : ranks[k] = Unorderable
                     /\ r \in {"Raised", "MemoryError"} =>
                            Top.user /\ \A k \in DOMAIN o : o[k] = k
                     /\ Ends(Reordered(Top.items, o),
                             IF contents # <<>> THEN "ValueError" ELSE r)

Indices == -LenMax-1..LenMax

Change ==
    \/ \E x \in Items :
          \/ call' = <<"append", x>> /\ Append1(x)
          \/ call' = <<"remove", x>> /\ Remove1(x)
          \/ \E i \in Indices : \/ call' = <<"insert", i, x>> /\ Insert(i, x)
                                \/ call' = <<"setindex", i, x>> /\ SetIndex(i, x)
    \/ \E i \in Indices : \/ call' = <<"popindex", i>> /\ PopIndex(i)
                          \/ call' = <<"delindex", i>> /\ DelIndex(i)
    \/ \E x \in Args \cup {Self} :
          \/ call' = <<"extend from", x>> /\ ExtendFromTuple(x)
          \/ \E s \in Slices : call' = <<"setslice", s, x>> /\ SetSlice(s, x)
    \/ \E s \in Slices : call' = <<"delslice", s>> /\ DelSlice(s)
    \/ \E f \in Factors : call' = <<"irepeat", f>> /\ IRepeat(f)
    \/ \E keyed, reverse \in BOOLEAN :
          call' = <<"sort", keyed, reverse>> /\ Sort(keyed, reverse)
    \/ call' = <<"pop">> /\ Pop
    \/ call' = <<"reverse">> /\ ReverseItems
    \/ call' = <<"clear">> /\ Clear
    \/ call' = <<"extend">> /\ Extend
    \/ call' = <<"freeze">> /\ Freeze
    \/ call' = <<"hash">> /\ Hash

\* A step of the innermost call under way.
Step ==
    \/ call' = <<"clear steps">> /\ ClearStep
    \/ \E x \in Items : call' = <<"item", x>> /\ ItemArrives(x)
    \/ call' = <<"extend ends">> /\ ExtendEnds
    \/ \E k \in Ranks : call' = <<"key", k>> /\ KeyReturns(k)
    \/ call' = <<"sort ends">> /\ SortEnds

Next == Change \/ Step

Spec == Init /\ [][Next]_vars
=============================================================================
