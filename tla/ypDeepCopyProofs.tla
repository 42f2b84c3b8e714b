--------------------------- MODULE ypDeepCopyProofs ---------------------------
(***************************************************************************)
(* Proofs about deep copies and deep freezes of any graph of objects, at   *)
(* any recursion limit and whichever allocations fail.                     *)
(*                                                                         *)
(* First what the steps are, by what they do to the stack and the copies   *)
(* (Steps), the types, and which frames call which (StackInv).  Then why   *)
(* nothing is copied within itself (ChainInv), what every visitor was      *)
(* called for (CalledInv), and what a deep freeze has visited (FreezeInv). *)
(* Then the references, by counting the places that hold a copy            *)
(* (RefsExact), and the copies themselves: what is memoized is filled with *)
(* the copies of the original's items, or will be (CopyInv), so that what  *)
(* the call returns is the original again (DoneInv).                       *)
(***************************************************************************)
EXTENDS ypDeepCopy, FiniteSetTheorems, SequenceTheorems, FunctionTheorems, TLAPS

(***************************************************************************)
(* The types of the state.                                                 *)
(***************************************************************************)
Pairs == {"small", "tuple", "set", "None"} \cup {n.pair : n \in Leaf}
OriginalType == [pair : Pairs, mutable : BOOLEAN, items : Seq(Obj)]
CopyType == [pair : Pairs, mutable : BOOLEAN, items : Seq(Nat), refs : Nat]
FrameKinds == {"call", "visit", "tuple", "set", "traverse", "release"}
FrameType == [kind : FrameKinds, of : Obj, own : Seq(Nat)]
Modes == {"unfrozen", "frozen", "sametype", "deepfreeze"}

\* What copies and frames hold is numbered.
Numbered(h, st) ==
    /\ \A j \in DOMAIN h : \A k \in DOMAIN h[j].items : h[j].items[k] \in DOMAIN h
    /\ \A p \in DOMAIN st : \A l \in DOMAIN st[p].own : st[p].own[l] \in DOMAIN h

TypeInv ==
    /\ graph \in [Obj -> OriginalType] /\ mode \in Modes
    /\ heap \in Seq(CopyType) /\ Len(heap) >= 4
    /\ \A i \in Immortals : heap[i] = ImmortalObjects[i]
    /\ IsFiniteSet(DOMAIN memo) /\ DOMAIN memo \subseteq Obj
    /\ memo \in [DOMAIN memo -> DOMAIN heap]
    /\ stack \in Seq(FrameType) /\ Numbered(heap, stack)
    /\ result \in {Pending, Exception} \cup DOMAIN heap

(***************************************************************************)
(* What a step does to the stack.                                          *)
(***************************************************************************)
Popped ==
    /\ stack' \in Seq(FrameType) /\ Len(stack') = Len(stack) - 1
    /\ \A p \in 1 .. Len(stack) - 1 : stack'[p] = stack[p]
Became(f) ==
    /\ stack' \in Seq(FrameType) /\ Len(stack') = Len(stack)
    /\ stack'[Len(stack)] = f
    /\ \A p \in 1 .. Len(stack) - 1 : stack'[p] = stack[p]
Pushed(f) ==
    /\ stack' \in Seq(FrameType) /\ Len(stack') = Len(stack) + 1
    /\ stack'[Len(stack) + 1] = f
    /\ \A p \in 1 .. Len(stack) : stack'[p] = stack[p]

\* Nothing but the frames and the result changes.
Unmoved == UNCHANGED <<graph, mode, limit, heap, memo>>

\* The immortals are numbered 1 to 4, and have no items.
LEMMA ImmortalsAre ==
    /\ Immortals = 1 .. 4
    /\ \A i \in 1 .. 4 : /\ ImmortalObjects[i] \in CopyType
                         /\ ImmortalObjects[i].items = <<>>
                         /\ ~ImmortalObjects[i].mutable /\ ImmortalObjects[i].refs = 1
<1>1. Immortals = 1 .. 4
    BY DEF Immortals, ImmortalObjects
<1>2. ASSUME NEW i \in 1 .. 4
      PROVE  /\ ImmortalObjects[i] \in CopyType
             /\ ImmortalObjects[i].items = <<>>
             /\ ~ImmortalObjects[i].mutable /\ ImmortalObjects[i].refs = 1
    <2>1. i = 1 \/ i = 2 \/ i = 3 \/ i = 4
        BY <1>2
    <2>2. <<"small", "tuple", "set", "None">>[i] \in Pairs
        BY <2>1 DEF Pairs
    <2> QED
        BY <2>2 DEF ImmortalObjects, Counted, Node, CopyType
<1> QED
    BY <1>1, <1>2

\* The last frame runs.
LEMMA TopIs ==
    ASSUME TypeInv, stack # <<>>
    PROVE  /\ Len(stack) \in Nat \ {0} /\ DOMAIN stack = 1 .. Len(stack)
           /\ Top = stack[Len(stack)] /\ Top \in FrameType
           /\ Top.of \in Obj /\ Top.own \in Seq(Nat) /\ Top.kind \in FrameKinds
           /\ X = graph[Top.of] /\ X \in OriginalType
<1>1. /\ Len(stack) \in Nat \ {0} /\ DOMAIN stack = 1 .. Len(stack)
      /\ Top = stack[Len(stack)] /\ Top \in FrameType
    BY EmptySeq, LenProperties DEF TypeInv, Top, Last
<1>2. Top.of \in Obj /\ Top.own \in Seq(Nat) /\ Top.kind \in FrameKinds
    BY <1>1 DEF FrameType
<1> QED
    BY <1>1, <1>2 DEF TypeInv, X

\* A frame returns.
LEMMA PoppedShape ==
    ASSUME TypeInv, stack # <<>>, stack' = Front(stack)
    PROVE  Popped
<1>1. Len(stack) \in Nat \ {0} /\ stack \in Seq(FrameType)
    BY TopIs DEF TypeInv
<1>2. stack' = SubSeq(stack, 1, Len(stack) - 1)
    BY DEF Front
<1>3. Len(stack) - 1 \in Nat /\ \A p \in 1 .. Len(stack) - 1 : stack[p] \in FrameType
    BY <1>1, ElementOfSeq
<1> DEFINE t == SubSeq(stack, 1, Len(stack) - 1)
<1>4. /\ t \in Seq(FrameType)
      /\ Len(t) = IF 1 <= Len(stack) - 1 THEN Len(stack) - 1 - 1 + 1 ELSE 0
      /\ \A p \in 1 .. Len(stack) - 1 - 1 + 1 : t[p] = stack[1 + p - 1]
    BY ONLY <1>1, <1>3, SubSeqProperties
<1>5. stack' = t
    BY <1>2
<1> HIDE DEF t
<1>6. Len(t) = Len(stack) - 1
    <2>1. CASE Len(stack) = 1
        BY <1>4, <2>1
    <2>2. CASE Len(stack) > 1
        <3>1. 1 <= Len(stack) - 1 /\ Len(stack) - 1 - 1 + 1 = Len(stack) - 1
            BY <1>1, <2>2
        <3> QED
            BY <1>4, <3>1
    <2>3. ASSUME NEW n \in Nat \ {0}
          PROVE  n = 1 \/ n > 1
        OBVIOUS
    <2> QED
        BY ONLY <1>1, <2>1, <2>2, <2>3
<1>7. \A p \in 1 .. Len(stack) - 1 : t[p] = stack[p]
    BY <1>1, <1>4
<1> QED
    BY <1>4, <1>5, <1>6, <1>7 DEF Popped

\* A frame becomes another.
LEMMA BecameShape ==
    ASSUME TypeInv, stack # <<>>, NEW f \in FrameType, Becomes(f)
    PROVE  Became(f)
<1>1. Len(stack) \in Nat \ {0} /\ stack \in Seq(FrameType)
    BY TopIs DEF TypeInv
<1>2. stack' = [stack EXCEPT ![Len(stack)] = f]
    BY DEF Becomes
<1>3. stack' \in Seq(FrameType) /\ Len(stack') = Len(stack)
    BY <1>1, <1>2, ExceptSeq
<1>4. Len(stack) \in 1 .. Len(stack)
    BY <1>1
<1>5. \A j \in 1 .. Len(stack) :
        [stack EXCEPT ![Len(stack)] = f][j] = IF j = Len(stack) THEN f ELSE stack[j]
    BY ONLY <1>1, <1>4, f \in FrameType, ExceptSeq
<1>6. stack'[Len(stack)] = f /\ \A p \in 1 .. Len(stack) - 1 : stack'[p] = stack[p]
    BY <1>1, <1>2, <1>4, <1>5
<1> QED
    BY <1>3, <1>6 DEF Became

\* A frame calls another.
LEMMA PushedShape ==
    ASSUME TypeInv, NEW f \in FrameType, stack' = Append(stack, f)
    PROVE  Pushed(f)
BY AppendProperties DEF TypeInv, Pushed

\* A frame of the kinds there are, of an object, that owns numbers.
LEMMA FrameIs ==
    ASSUME NEW k \in FrameKinds, NEW x \in Obj, NEW own \in Seq(Nat)
    PROVE  /\ Frame(k, x, own) \in FrameType /\ Frame(k, x, own).kind = k
           /\ Frame(k, x, own).of = x /\ Frame(k, x, own).own = own
BY DEF Frame, FrameType

(***************************************************************************)
(* The stack: which frames call which, and what they own.                  *)
(***************************************************************************)
ItemKinds == {"tuple", "set", "traverse"}

\* What the kind of a frame says of it.
Framed(p) ==
    LET f == stack[p]
    IN  /\ f.kind = "call" => p = 1
        /\ p = 1 => f.kind \in {"call", "release"}
        /\ f.kind \in {"visit", "release"} => p = Len(stack)
        /\ f.kind \in {"visit", "call"} => f.own = <<>>
        /\ f.kind \in {"tuple", "set"} =>
              /\ mode # "deepfreeze" /\ f.kind = graph[f.of].pair
              /\ f.own[1] \notin Immortals
        /\ f.kind = "traverse" => mode = "deepfreeze"
        /\ f.kind \in ItemKinds =>
              /\ Len(f.own) \in 1 .. Len(graph[f.of].items) + 1
              /\ p < Len(stack) \/ result # Pending =>
                    Len(f.own) <= Len(graph[f.of].items)
        /\ p = Len(stack) /\ f.kind = "visit" => result = Pending
        /\ p = Len(stack) /\ f.kind \in {"call", "release"} => result # Pending
        /\ p # 1 /\ f.kind = "release" => result = Exception

\* The call has released its memo, or is about to.
Finishing == stack = <<>> \/ stack[1].kind = "release"

StackInv ==
    /\ \A p \in DOMAIN stack : Framed(p)
    /\ Finishing => memo = <<>>
    /\ stack = <<>> => result # Pending

(***************************************************************************)
(* The steps, by what they do to the stack and to the copies.              *)
(***************************************************************************)
Underneath == stack # <<>> /\ UNCHANGED <<mode, limit>>
Visits == Underneath /\ Top.kind = "visit"
Items == Underneath /\ Top.kind \in {"tuple", "set", "traverse"} /\ UNCHANGED graph

\* What frozen_deepcopy gives for an empty object.
ImmortalsOf(x) ==
    IF Freeze(x) /\ graph[x].items = <<>> /\ graph[x].pair \in {"small", "tuple", "set"}
    THEN {i \in Immortals : ImmortalObjects[i].pair = graph[x].pair} ELSE {}

\* An object whose copy has to be made.
New(x) == mode # "deepfreeze" /\ ~Known(x) /\ ImmortalsOf(x) = {}

VisitRaises == Visits /\ Popped /\ result' = Exception /\ Unmoved
VisitKnown ==
    /\ Visits /\ Popped /\ mode # "deepfreeze" /\ Known(Top.of)
    /\ heap' = IncRef(heap, memo[Top.of]) /\ result' = memo[Top.of]
    /\ UNCHANGED <<graph, memo>>
VisitImmortal ==
    /\ Visits /\ Popped /\ mode # "deepfreeze" /\ ~Known(Top.of)
    /\ result' \in ImmortalsOf(Top.of) /\ Unmoved
VisitMakes ==
    /\ Visits /\ Popped /\ New(Top.of) /\ X.pair \in {"int", "small", "tuple"}
    /\ (X.pair = "tuple" => X.items = <<>>)
    /\ heap' = NewCopy(2) /\ memo' = Memoized(Top.of, Fresh) /\ result' = Fresh
    /\ UNCHANGED graph
TupleRaises ==
    /\ Visits /\ Popped /\ New(Top.of) /\ X.pair = "tuple" /\ X.items # <<>>
    /\ heap' = NewCopy(1) /\ memo' = Memoized(Top.of, Fresh) /\ result' = Exception
    /\ UNCHANGED graph
TupleStarts ==
    /\ Visits /\ New(Top.of) /\ X.pair = "tuple" /\ X.items # <<>>
    /\ Became(Frame("tuple", Top.of, <<Fresh>>))
    /\ heap' = NewCopy(2) /\ memo' = Memoized(Top.of, Fresh) /\ result' = Pending
    /\ UNCHANGED graph
SetStarts ==
    /\ Visits /\ New(Top.of) /\ X.pair = "set"
    /\ Became(Frame("set", Top.of, <<Fresh>>))
    /\ heap' = NewCopy(1) /\ result' = Pending /\ UNCHANGED <<graph, memo>>
FreezeKnown ==
    /\ Visits /\ Popped /\ mode = "deepfreeze" /\ Known(Top.of)
    /\ result' = None /\ Unmoved
FreezeRaises ==
    /\ Visits /\ Popped /\ mode = "deepfreeze" /\ ~Known(Top.of)
    /\ memo' = Memoized(Top.of, None) /\ result' = Exception
    /\ UNCHANGED <<graph, heap>>
FreezeStarts ==
    /\ Visits /\ mode = "deepfreeze" /\ ~Known(Top.of)
    /\ Became(Frame("traverse", Top.of, <<None>>))
    /\ graph' = [graph EXCEPT ![Top.of].mutable = FALSE]
    /\ memo' = Memoized(Top.of, None) /\ result' = Pending /\ UNCHANGED heap

ItemStarts ==
    /\ Items /\ result = Pending /\ Remain
    /\ Pushed(Visit(X.items[Len(Top.own)])) /\ UNCHANGED result /\ Unmoved
ItemEnds ==
    /\ Items /\ result > 0
    /\ Became(Frame(Top.kind, Top.of, Append(Top.own, result)))
    /\ result' = Pending /\ Unmoved
ItemRefused ==
    /\ Items /\ Top.kind = "set" /\ result > 0
    /\ Pushed(Frame("release", Top.of, <<result>>))
    /\ result' = Exception /\ Unmoved
ItemsGivenUp ==
    /\ Items /\ (result = Exception \/ (result = Pending /\ ~Remain /\ Top.kind = "set"))
    /\ Became(Frame("release", Top.of, Top.own))
    /\ result' = Exception /\ Unmoved
TupleEnds ==
    /\ Items /\ Top.kind = "tuple" /\ result = Pending /\ ~Remain /\ Popped
    /\ heap' = [heap EXCEPT ![Copy].items = Tail(Top.own)]
    /\ result' = Copy /\ UNCHANGED memo
SetEnds ==
    /\ Items /\ Top.kind = "set" /\ result = Pending /\ ~Remain /\ Popped
    /\ heap' = [heap EXCEPT ![Copy].items = Tail(Top.own), ![Copy].refs = @ + 1]
    /\ memo' = Memoized(Top.of, Copy) /\ result' = Copy
TraverseEnds ==
    /\ Items /\ Top.kind = "traverse" /\ result = Pending /\ ~Remain /\ Popped
    /\ result' = None /\ Unmoved

Releases ==
    /\ Underneath /\ Top.kind = "release" /\ Top.own # <<>>
    /\ UNCHANGED <<graph, memo, result>>
ReleaseImmortal ==
    /\ Releases /\ Last(Top.own) \in Immortals
    /\ Became(Frame("release", Top.of, Front(Top.own))) /\ UNCHANGED heap
ReleaseOne ==
    /\ Releases /\ Last(Top.own) \notin Immortals /\ heap[Last(Top.own)].refs > 1
    /\ Became(Frame("release", Top.of, Front(Top.own)))
    /\ heap' = [heap EXCEPT ![Last(Top.own)].refs = @ - 1]
ReleaseLast ==
    /\ Releases /\ Last(Top.own) \notin Immortals /\ ~(heap[Last(Top.own)].refs > 1)
    /\ Became(Frame("release", Top.of, Front(Top.own) \o heap[Last(Top.own)].items))
    /\ heap' = [heap EXCEPT ![Last(Top.own)].refs = 0, ![Last(Top.own)].items = <<>>]
ReleaseEnds ==
    /\ Underneath /\ Top.kind = "release" /\ Top.own = <<>> /\ Popped
    /\ UNCHANGED result /\ Unmoved

\* The references of the memo, in an order of the copied objects.
IsMemoOf(own) ==
    \E keys \in Seq(Obj) :
        /\ Len(own) = Len(keys) /\ IsInjective(keys) /\ Range(keys) = DOMAIN memo
        /\ \A k \in 1 .. Len(keys) : own[k] = memo[keys[k]]
CallEnds ==
    /\ Underneath /\ Top.kind = "call" /\ memo' = <<>>
    /\ \E own \in Seq(Nat) : IsMemoOf(own) /\ Became(Frame("release", Root, own))
    /\ UNCHANGED <<graph, heap, result>>

Steps ==
    \/ VisitRaises \/ VisitKnown \/ VisitImmortal \/ VisitMakes \/ TupleRaises
    \/ TupleStarts \/ SetStarts \/ FreezeKnown \/ FreezeRaises \/ FreezeStarts
    \/ ItemStarts \/ ItemEnds \/ ItemRefused \/ ItemsGivenUp \/ TupleEnds
    \/ SetEnds \/ TraverseEnds \/ ReleaseImmortal \/ ReleaseOne \/ ReleaseLast
    \/ ReleaseEnds \/ CallEnds

\* The frame with other numbers.
LEMMA OwnChanges ==
    ASSUME TypeInv, stack # <<>>, NEW own \in Seq(Nat)
    PROVE  /\ [Top EXCEPT !.own = own] = Frame(Top.kind, Top.of, own)
           /\ Frame(Top.kind, Top.of, own) \in FrameType
BY TopIs DEF FrameType, Frame

\* One number is a sequence of numbers.
LEMMA Single ==
    ASSUME NEW i \in Nat
    PROVE  <<i>> \in Seq(Nat) /\ Len(<<i>>) = 1 /\ <<i>>[1] = i
OBVIOUS

\* A frame that owns one number.
LEMMA FrameSingle ==
    ASSUME NEW k \in FrameKinds, NEW x \in Obj, NEW i \in Nat
    PROVE  /\ Frame(k, x, <<i>>) \in FrameType /\ Frame(k, x, <<i>>).own = <<i>>
           /\ Frame(k, x, <<i>>).of = x /\ Frame(k, x, <<i>>).kind = k
<1>1. <<i>> \in Seq(Nat)
    BY Single
<1>2. \A own \in Seq(Nat) :
        /\ Frame(k, x, own) \in FrameType /\ Frame(k, x, own).own = own
        /\ Frame(k, x, own).of = x /\ Frame(k, x, own).kind = k
    BY FrameIs
<1> QED
    BY ONLY <1>1, <1>2, Zenon

\* What a step finds: the numbers it can add to a frame.
LEMMA NumbersAre ==
    ASSUME TypeInv
    PROVE  /\ Len(heap) \in Nat /\ DOMAIN heap = 1 .. Len(heap)
           /\ Fresh \in Nat /\ None \in Nat
           /\ (result > 0 => result \in DOMAIN heap /\ result \in Nat)
<1>1. Len(heap) \in Nat /\ DOMAIN heap = 1 .. Len(heap)
    BY LenProperties DEF TypeInv
<1>2. result \in {Pending, Exception} \cup DOMAIN heap
    BY DEF TypeInv
<1>3. result > 0 => result \in DOMAIN heap /\ result \in Nat
    BY <1>1, <1>2 DEF Pending, Exception
<1> QED
    BY <1>1, <1>3 DEF Fresh, None

\* The immortal copy of the visited object.
LEMMA ImmortalCopyIs ==
    ASSUME stack # <<>>
    PROVE  /\ ImmortalsOf(Top.of) \subseteq ImmortalCopy
           /\ X.pair \in {"small", "tuple", "set"} => ImmortalsOf(Top.of) = ImmortalCopy
           /\ X.pair \notin {"small", "tuple", "set"} => ImmortalsOf(Top.of) = {}
BY DEF ImmortalsOf, ImmortalCopy, X

\* The visits that copy.
LEMMA VisitSteps ==
    ASSUME TypeInv,
           MemoHit \/ MemoFails \/ TooDeep \/ CannotCopy \/ CopyImmortal \/ CopyInt
    PROVE  Steps
<1>1. stack # <<>> /\ Top.kind = "visit" /\ UNCHANGED <<mode, limit>> /\ mode # "deepfreeze"
    BY DEF MemoHit, MemoFails, TooDeep, CannotCopy, CopyImmortal, CopyInt, Visiting, Entering
<1>2. Visits
    BY <1>1 DEF Visits, Underneath
<1>3. stack' = Front(stack) => Popped
    BY <1>1, PoppedShape
<1>4. ASSUME MemoFails \/ TooDeep \/ CannotCopy
      PROVE  VisitRaises
    BY <1>2, <1>3, <1>4
       DEF MemoFails, TooDeep, CannotCopy, Raise, Return, VisitRaises, Unmoved
<1>5. ASSUME MemoHit
      PROVE  VisitKnown
    BY <1>1, <1>2, <1>3, <1>5 DEF MemoHit, Return, VisitKnown
<1>6. ASSUME CopyImmortal
      PROVE  VisitImmortal
    <2>1. X.pair \in {"small", "tuple", "set"} /\ ~Known(Top.of)
        BY <1>6 DEF CopyImmortal, Entering
    <2>2. ImmortalsOf(Top.of) = ImmortalCopy
        BY <2>1, <1>1, ImmortalCopyIs
    <2>3. result' \in ImmortalCopy /\ stack' = Front(stack) /\ Unmoved
        BY <1>6 DEF CopyImmortal, Return, Unmoved
    <2> QED
        BY <1>1, <1>2, <1>3, <2>1, <2>2, <2>3 DEF VisitImmortal
<1>7. ASSUME CopyInt
      PROVE  VisitRaises \/ VisitMakes
    <2>1. /\ X.pair \in {"int", "small"} /\ ~Known(Top.of) /\ ImmortalCopy = {}
          /\ UNCHANGED <<graph, mode, limit>>
        BY <1>7 DEF CopyInt, Entering
    <2>2. CASE Raise /\ UNCHANGED <<heap, memo>>
        BY <1>2, <1>3, <2>1, <2>2 DEF Raise, Return, VisitRaises, Unmoved
    <2>3. CASE heap' = NewCopy(2) /\ memo' = Memoized(Top.of, Fresh) /\ Return(Fresh)
        <3>1. ImmortalsOf(Top.of) = {}
            BY <1>1, <2>1, ImmortalCopyIs
        <3>2. New(Top.of)
            BY <1>1, <2>1, <3>1 DEF New
        <3>3. Popped /\ result' = Fresh
            BY <1>3, <2>3 DEF Return
        <3>4. X.pair \in {"int", "small", "tuple"} /\ X.pair # "tuple"
            BY <2>1
        <3> QED
            BY <1>2, <2>1, <2>3, <3>2, <3>3, <3>4 DEF VisitMakes
    <2> QED
        BY <1>7, <2>2, <2>3 DEF CopyInt
<1> QED
    BY <1>4, <1>5, <1>6, <1>7 DEF Steps

\* The copying of a tuple and of a set begins.
LEMMA StartSteps ==
    ASSUME TypeInv, StartTuple \/ StartSet
    PROVE  Steps
<1>1. stack # <<>> /\ Top.kind = "visit" /\ UNCHANGED <<mode, limit>> /\ mode # "deepfreeze"
    BY DEF StartTuple, StartSet, Visiting, Entering
<1>2. /\ X.pair \in {"tuple", "set"} /\ ~Known(Top.of) /\ ImmortalCopy = {}
      /\ UNCHANGED graph
    BY DEF StartTuple, StartSet, Entering
<1>3. Visits /\ New(Top.of)
    BY <1>1, <1>2, ImmortalCopyIs DEF Visits, Underneath, New
<1>4. stack' = Front(stack) => Popped
    BY <1>1, PoppedShape
<1>5. ASSUME NEW k \in {"tuple", "set"}, Enter(k, Fresh)
      PROVE  Became(Frame(k, Top.of, <<Fresh>>)) /\ result' = Pending
    <2>1. Frame(k, Top.of, <<Fresh>>) \in FrameType
        BY <1>1, TopIs, NumbersAre, Single, FrameIs DEF FrameKinds
    <2>2. Becomes(Frame(k, Top.of, <<Fresh>>)) /\ result' = Pending
        BY <1>5 DEF Enter
    <2> QED
        BY <1>1, <2>1, <2>2, BecameShape
<1>6. ASSUME Raise, UNCHANGED <<heap, memo>>
      PROVE  VisitRaises
    BY <1>1, <1>2, <1>3, <1>4, <1>6 DEF Raise, Return, VisitRaises, Unmoved
<1>7. ASSUME StartTuple
      PROVE  Steps
    <2>0. X.pair = "tuple"
        BY <1>7 DEF StartTuple, Entering
    <2>1. CASE Raise /\ UNCHANGED <<heap, memo>>
        BY <2>1, <1>6 DEF Steps
    <2>2. CASE /\ memo' = MemoizedFirst(Top.of, Fresh) /\ X.items = <<>>
               /\ heap' = NewCopy(2) /\ Return(Fresh)
        <3>1. VisitMakes
            BY <1>2, <1>3, <1>4, <2>0, <2>2 DEF VisitMakes, MemoizedFirst, Return
        <3> QED
            BY <3>1 DEF Steps
    <2>3. CASE /\ memo' = MemoizedFirst(Top.of, Fresh) /\ X.items # <<>>
               /\ heap' = NewCopy(1) /\ Raise
        <3>1. TupleRaises
            BY <1>2, <1>3, <1>4, <2>0, <2>3 DEF TupleRaises, MemoizedFirst, Raise, Return
        <3> QED
            BY <3>1 DEF Steps
    <2>4. CASE /\ memo' = MemoizedFirst(Top.of, Fresh) /\ X.items # <<>>
               /\ heap' = NewCopy(2) /\ Enter("tuple", Fresh)
        <3>1. TupleStarts
            BY <1>2, <1>3, <1>5, <2>0, <2>4 DEF TupleStarts, MemoizedFirst
        <3> QED
            BY <3>1 DEF Steps
    <2> QED
        BY <1>7, <2>1, <2>2, <2>3, <2>4 DEF StartTuple
<1>8. ASSUME StartSet
      PROVE  Steps
    <2>0. X.pair = "set" /\ UNCHANGED memo
        BY <1>8 DEF StartSet, Entering
    <2>1. CASE Raise /\ UNCHANGED heap
        BY <2>0, <2>1, <1>6 DEF Steps
    <2>2. CASE heap' = NewCopy(1) /\ Enter("set", Fresh)
        <3>1. SetStarts
            BY <1>2, <1>3, <1>5, <2>0, <2>2 DEF SetStarts
        <3> QED
            BY <3>1 DEF Steps
    <2> QED
        BY <1>8, <2>1, <2>2 DEF StartSet
<1> QED
    BY <1>7, <1>8

\* The visits that freeze.
LEMMA FreezeSteps ==
    ASSUME TypeInv, DeepFreeze
    PROVE  Steps
<1>1. /\ stack # <<>> /\ Top.kind = "visit" /\ UNCHANGED <<mode, limit, heap>>
      /\ mode = "deepfreeze"
    BY DEF DeepFreeze, Visiting
<1>2. Visits
    BY <1>1 DEF Visits, Underneath
<1>3. stack' = Front(stack) => Popped
    BY <1>1, PoppedShape
<1>4. CASE Known(Top.of) /\ Return(None) /\ UNCHANGED <<graph, memo>>
    <2>1. FreezeKnown
        BY <1>1, <1>2, <1>3, <1>4 DEF FreezeKnown, Return, Unmoved
    <2> QED
        BY <2>1 DEF Steps
<1>5. CASE ~Known(Top.of) /\ Raise /\ UNCHANGED <<graph, memo>>
    <2>1. VisitRaises
        BY <1>1, <1>2, <1>3, <1>5 DEF VisitRaises, Raise, Return, Unmoved
    <2> QED
        BY <2>1 DEF Steps
<1>6. CASE ~Known(Top.of) /\ memo' = Memoized(Top.of, None) /\ Raise /\ UNCHANGED graph
    <2>1. FreezeRaises
        BY <1>1, <1>2, <1>3, <1>6 DEF FreezeRaises, Raise, Return
    <2> QED
        BY <2>1 DEF Steps
<1>7. CASE /\ ~Known(Top.of) /\ memo' = Memoized(Top.of, None)
           /\ graph' = [graph EXCEPT ![Top.of].mutable = FALSE]
           /\ Enter("traverse", None)
    <2>1. Frame("traverse", Top.of, <<None>>) \in FrameType
        BY <1>1, TopIs, NumbersAre, Single, FrameIs DEF FrameKinds
    <2>2. Becomes(Frame("traverse", Top.of, <<None>>)) /\ result' = Pending
        BY <1>7 DEF Enter
    <2>3. Became(Frame("traverse", Top.of, <<None>>))
        BY <1>1, <2>1, <2>2, BecameShape
    <2>4. FreezeStarts
        BY <1>1, <1>2, <1>7, <2>2, <2>3 DEF FreezeStarts
    <2> QED
        BY <2>4 DEF Steps
<1> QED
    BY <1>4, <1>5, <1>6, <1>7 DEF DeepFreeze, Traversed

\* The last number of a sequence, and those before it.
LEMMA LastIs ==
    ASSUME NEW s \in Seq(Nat), s # <<>>
    PROVE  /\ Len(s) \in Nat \ {0} /\ Last(s) = s[Len(s)] /\ Last(s) \in Nat
           /\ Front(s) \in Seq(Nat) /\ Len(Front(s)) = Len(s) - 1
           /\ \A l \in 1 .. Len(s) - 1 : Front(s)[l] = s[l]
<1>1. Len(s) \in Nat \ {0} /\ \A l \in 1 .. Len(s) : s[l] \in Nat
    BY EmptySeq, ElementOfSeq
<1>2. Last(s) = s[Len(s)] /\ Last(s) \in Nat
    BY <1>1 DEF Last
<1> DEFINE t == SubSeq(s, 1, Len(s) - 1)
<1>3. Len(s) - 1 \in Int /\ \A l \in 1 .. Len(s) - 1 : s[l] \in Nat
    BY <1>1
<1>4. /\ t \in Seq(Nat)
      /\ Len(t) = IF 1 <= Len(s) - 1 THEN Len(s) - 1 - 1 + 1 ELSE 0
      /\ \A l \in 1 .. Len(s) - 1 - 1 + 1 : t[l] = s[1 + l - 1]
    BY ONLY <1>3, SubSeqProperties
<1>5. Front(s) = t
    BY DEF Front
<1> HIDE DEF t
<1>6. Len(t) = Len(s) - 1
    <2>1. CASE Len(s) = 1
        BY <1>4, <2>1
    <2>2. CASE Len(s) > 1
        <3>1. 1 <= Len(s) - 1 /\ Len(s) - 1 - 1 + 1 = Len(s) - 1
            BY <1>1, <2>2
        <3> QED
            BY <1>4, <3>1
    <2>3. ASSUME NEW n \in Nat \ {0}
          PROVE  n = 1 \/ n > 1
        OBVIOUS
    <2> QED
        BY ONLY <1>1, <2>1, <2>2, <2>3
<1>7. \A l \in 1 .. Len(s) - 1 : t[l] = s[l]
    BY <1>1, <1>4
<1> QED
    BY <1>1, <1>2, <1>4, <1>5, <1>6, <1>7

\* The copying, or the traversal, of the items.
LEMMA ItemSteps ==
    ASSUME TypeInv, StackInv,
           \/ VisitItem \/ KeepItem \/ KeyUnhashable \/ GiveUp \/ FinishTuple
           \/ FinishSet \/ FinishTraverse
    PROVE  Steps
<1>1. /\ stack # <<>> /\ Top.kind \in {"tuple", "set", "traverse"}
      /\ UNCHANGED <<graph, mode, limit>>
    BY DEF VisitItem, KeepItem, KeyUnhashable, GiveUp, FinishTuple, FinishSet,
           FinishTraverse, InItems
<1>2. Items
    BY <1>1 DEF Items, Underneath
<1>3. stack' = Front(stack) => Popped
    BY <1>1, PoppedShape
<1>4. Top.of \in Obj /\ Top.own \in Seq(Nat) /\ Top.kind \in FrameKinds
    BY <1>1, TopIs
<1>5. ASSUME VisitItem
      PROVE  ItemStarts
    <2>1. /\ result = Pending /\ Remain /\ Unmoved /\ UNCHANGED result
          /\ stack' = Append(stack, Visit(X.items[Len(Top.own)]))
        BY <1>5 DEF VisitItem, Unmoved
    <2>2. X.items \in Seq(Obj) /\ Len(Top.own) \in Nat
        BY <1>1, <1>4, TopIs DEF OriginalType
    <2>3. Framed(Len(stack))
        BY <1>1, TopIs DEF StackInv
    <2>4. Len(Top.own) \in 1 .. Len(X.items) + 1
        BY <1>1, <2>3, TopIs DEF Framed, ItemKinds
    <2>5. Len(Top.own) \in 1 .. Len(X.items)
        BY <2>1, <2>2, <2>4 DEF Remain
    <2>6. X.items[Len(Top.own)] \in Obj
        BY <2>2, <2>5, ElementOfSeq
    <2>7. <<>> \in Seq(Nat) /\ "visit" \in FrameKinds
        BY EmptySeq DEF FrameKinds
    <2>8. Visit(X.items[Len(Top.own)]) \in FrameType
        BY <2>6, <2>7, FrameIs DEF Visit
    <2> QED
        BY <1>2, <2>1, <2>8, PushedShape DEF ItemStarts
<1>6. ASSUME KeepItem
      PROVE  ItemEnds
    <2>1. /\ result > 0 /\ Becomes([Top EXCEPT !.own = Append(@, result)])
          /\ result' = Pending /\ Unmoved
        BY <1>6 DEF KeepItem, Unmoved
    <2>2. Append(Top.own, result) \in Seq(Nat)
        BY <1>4, <2>1, NumbersAre, AppendProperties
    <2>3. [Top EXCEPT !.own = Append(Top.own, result)]
            = Frame(Top.kind, Top.of, Append(Top.own, result))
        BY <1>1, <2>2, OwnChanges
    <2>4. Became(Frame(Top.kind, Top.of, Append(Top.own, result)))
        BY <1>1, <2>1, <2>2, <2>3, OwnChanges, BecameShape
    <2> QED
        BY <1>2, <2>1, <2>4 DEF ItemEnds
<1>7. ASSUME KeyUnhashable
      PROVE  ItemRefused
    <2>1. /\ result > 0 /\ Top.kind = "set" /\ result' = Exception /\ Unmoved
          /\ stack' = Append(stack, Frame("release", Top.of, <<result>>))
        BY <1>7 DEF KeyUnhashable, Unmoved
    <2>2. Frame("release", Top.of, <<result>>) \in FrameType
        BY <1>4, <2>1, NumbersAre, Single, FrameIs DEF FrameKinds
    <2> QED
        BY <1>2, <2>1, <2>2, PushedShape DEF ItemRefused
<1>8. ASSUME Becomes(Frame("release", Top.of, Top.own))
      PROVE  Became(Frame("release", Top.of, Top.own))
    BY <1>1, <1>4, <1>8, FrameIs, BecameShape DEF FrameKinds
<1>9. ASSUME GiveUp
      PROVE  ItemsGivenUp
    BY <1>2, <1>8, <1>9 DEF GiveUp, GivenUp, ItemsGivenUp, Unmoved
<1>10. ASSUME FinishTuple
       PROVE  TupleEnds
    BY <1>2, <1>3, <1>10 DEF FinishTuple, TupleEnds, Return
<1>11. ASSUME FinishSet
       PROVE  ItemsGivenUp \/ SetEnds
    BY <1>2, <1>3, <1>8, <1>11 DEF FinishSet, ItemsGivenUp, SetEnds, Return, GivenUp, Unmoved
<1>12. ASSUME FinishTraverse
       PROVE  TraverseEnds
    BY <1>2, <1>3, <1>12 DEF FinishTraverse, TraverseEnds, Return, Unmoved
<1> QED
    BY <1>5, <1>6, <1>7, <1>9, <1>10, <1>11, <1>12 DEF Steps

\* What a frame owns is released.
LEMMA ReleaseSteps ==
    ASSUME TypeInv, Release \/ Released
    PROVE  Steps
<1>1. /\ stack # <<>> /\ Top.kind = "release" /\ UNCHANGED <<graph, mode, limit, memo, result>>
    BY DEF Release, Released, Releasing, Return
<1>2. Top.of \in Obj /\ Top.own \in Seq(Nat)
    BY <1>1, TopIs
<1>3. ASSUME Released
      PROVE  ReleaseEnds
    <2>1. Top.own = <<>> /\ stack' = Front(stack) /\ Unmoved
        BY <1>3 DEF Released, Return, Unmoved
    <2> QED
        BY <1>1, <2>1, PoppedShape DEF ReleaseEnds, Underneath
<1>4. ASSUME NEW own \in Seq(Nat), Becomes([Top EXCEPT !.own = own])
      PROVE  Became(Frame("release", Top.of, own))
    BY <1>1, <1>4, OwnChanges, BecameShape
<1>5. ASSUME Release
      PROVE  ReleaseImmortal \/ ReleaseOne \/ ReleaseLast
    <2> DEFINE i == Last(Top.own)
               kept == Front(Top.own)
    <2>1. Top.own # <<>>
        BY <1>5 DEF Release
    <2>2. Releases
        BY <1>1, <2>1 DEF Releases, Underneath
    <2>3. kept \in Seq(Nat) /\ i = Top.own[Len(Top.own)] /\ Len(Top.own) \in Nat \ {0}
        BY <1>2, <2>1, LastIs
    <2>4. heap[i].items \in Seq(Nat)
        <3>1. Len(Top.own) \in DOMAIN Top.own
            BY <1>2, <2>3
        <3>2. i \in DOMAIN heap
            BY <1>1, <2>3, <3>1, TopIs DEF TypeInv, Numbered
        <3>3. heap[i] \in CopyType
            BY <3>2, NumbersAre, ElementOfSeq DEF TypeInv
        <3> QED
            BY <3>3 DEF CopyType
    <2>5. kept \o heap[i].items \in Seq(Nat)
        BY <2>3, <2>4, ConcatProperties
    <2>6. CASE i \in Immortals
        <3>1. Becomes([Top EXCEPT !.own = kept]) /\ UNCHANGED heap
            BY <1>5, <2>6 DEF Release
        <3> QED
            BY <1>4, <2>2, <2>3, <2>6, <3>1 DEF ReleaseImmortal
    <2>7. CASE i \notin Immortals /\ heap[i].refs > 1
        <3>1. /\ Becomes([Top EXCEPT !.own = kept])
              /\ heap' = [heap EXCEPT ![i].refs = @ - 1]
            BY <1>5, <2>7 DEF Release
        <3> QED
            BY <1>4, <2>2, <2>3, <2>7, <3>1 DEF ReleaseOne
    <2>8. CASE i \notin Immortals /\ ~(heap[i].refs > 1)
        <3>1. /\ Becomes([Top EXCEPT !.own = kept \o heap[i].items])
              /\ heap' = [heap EXCEPT ![i].refs = 0, ![i].items = <<>>]
            BY <1>5, <2>8 DEF Release
        <3> QED
            BY <1>4, <2>2, <2>5, <2>8, <3>1 DEF ReleaseLast
    <2> QED
        BY <2>6, <2>7, <2>8
<1> QED
    BY <1>3, <1>5 DEF Steps

\* A finite set has an order.
LEMMA Ordered ==
    ASSUME NEW S, IsFiniteSet(S)
    PROVE  /\ SetToSeq(S) \in Seq(S) /\ IsInjective(SetToSeq(S))
           /\ Range(SetToSeq(S)) = S
<1> DEFINE n == Cardinality(S)
<1>1. n \in Nat /\ ExistsBijection(1 .. n, S)
    BY FS_CardinalityType
<1>2. PICK f \in Bijection(1 .. n, S) : TRUE
    BY <1>1 DEF ExistsBijection
<1>3. f \in [1 .. n -> S] /\ IsInjective(f)
    BY <1>2 DEF Bijection, Injection, IsInjective
<1>4. SetToSeq(S) = CHOOSE g \in [1 .. n -> S] : IsInjective(g)
    BY DEF SetToSeq
<1> DEFINE s == SetToSeq(S)
<1>5. s \in [1 .. n -> S] /\ IsInjective(s)
    BY <1>3, <1>4
<1> HIDE DEF s
<1>6. s \in Injection(1 .. n, S)
    BY <1>5 DEF Injection, IsInjective
<1>7. IsFiniteSet(1 .. n) /\ Cardinality(1 .. n) = n
    BY <1>1, FS_Interval
<1>8. s \in Surjection(1 .. n, S)
    BY <1>6, <1>7, FS_Injection
<1>9. Range(s) = S
    BY <1>5, <1>8 DEF Range, Surjection
<1>10. s \in Seq(S)
    BY <1>1, <1>5, SeqDef
<1> QED
    BY <1>5, <1>9, <1>10 DEF s

\* The call ends.
LEMMA CallSteps ==
    ASSUME TypeInv, FinishCall
    PROVE  Steps
<1>1. /\ stack # <<>> /\ Top.kind = "call" /\ memo' = <<>>
      /\ UNCHANGED <<graph, mode, limit, heap, result>>
    BY DEF FinishCall
<1> DEFINE keys == SetToSeq(DOMAIN memo)
           own == [k \in DOMAIN keys |-> memo[keys[k]]]
<1>2. Becomes(Frame("release", Root, own))
    BY DEF FinishCall
<1>3. /\ keys \in Seq(DOMAIN memo) /\ IsInjective(keys) /\ Range(keys) = DOMAIN memo
    BY Ordered DEF TypeInv
<1> HIDE DEF keys
<1>4. Len(keys) \in Nat /\ DOMAIN keys = 1 .. Len(keys)
    BY <1>3, LenProperties
<1>5. keys \in Seq(Obj)
    BY <1>3, SeqMonotonic DEF TypeInv
<1>6. \A k \in 1 .. Len(keys) : memo[keys[k]] \in Nat
    BY <1>3, ElementOfSeq, NumbersAre DEF TypeInv
<1>7. own \in [1 .. Len(keys) -> Nat]
    BY <1>4, <1>6
<1>8. own \in Seq(Nat) /\ Len(own) = Len(keys)
    BY <1>4, <1>7, SeqDef, LenProperties
<1>9. \A k \in 1 .. Len(keys) : own[k] = memo[keys[k]]
    BY <1>4
<1> HIDE DEF own
<1>10. IsMemoOf(own)
    BY <1>3, <1>5, <1>8, <1>9 DEF IsMemoOf
<1>11. Root \in Obj /\ "release" \in FrameKinds
    BY DeepCopyAssumption DEF FrameKinds
<1>12. Became(Frame("release", Root, own))
    BY <1>1, <1>2, <1>8, <1>11, FrameIs, BecameShape
<1>13. CallEnds
    BY <1>1, <1>8, <1>10, <1>12 DEF CallEnds, Underneath
<1> QED
    BY <1>13 DEF Steps

\* Every step is one of Steps, or changes nothing.
LEMMA StepsAre ==
    ASSUME TypeInv, StackInv, [Next]_vars
    PROVE  Steps \/ UNCHANGED vars
BY VisitSteps, StartSteps, FreezeSteps, ItemSteps, ReleaseSteps, CallSteps DEF Next, Returned

(***************************************************************************)
(* What a step does to the copies.                                         *)
(***************************************************************************)
HeapAt(i, items, refs) ==
    /\ heap' \in Seq(CopyType) /\ Len(heap') = Len(heap)
    /\ heap'[i].pair = heap[i].pair /\ heap'[i].mutable = heap[i].mutable
    /\ heap'[i].items = items /\ heap'[i].refs = refs
    /\ \A j \in 1 .. Len(heap) : j # i => heap'[j] = heap[j]
HeapGrown(refs) ==
    /\ heap' \in Seq(CopyType) /\ Len(heap') = Len(heap) + 1
    /\ heap'[Fresh].pair = X.pair /\ heap'[Fresh].mutable = ~Freeze(Top.of)
    /\ heap'[Fresh].items = <<>> /\ heap'[Fresh].refs = refs
    /\ \A j \in 1 .. Len(heap) : heap'[j] = heap[j]

\* A copy's fields are replaced.
LEMMA HeapAtIs ==
    ASSUME TypeInv, NEW i \in DOMAIN heap, NEW items \in Seq(Nat), NEW refs \in Nat,
           heap' = [heap EXCEPT ![i] =
                        [pair |-> heap[i].pair, mutable |-> heap[i].mutable,
                         items |-> items, refs |-> refs]]
    PROVE  HeapAt(i, items, refs)
<1>1. heap \in Seq(CopyType) /\ i \in 1 .. Len(heap) /\ Len(heap) \in Nat
    BY NumbersAre DEF TypeInv
<1>2. heap[i] \in CopyType
    BY <1>1, ElementOfSeq
<1> DEFINE c == [pair |-> heap[i].pair, mutable |-> heap[i].mutable,
                 items |-> items, refs |-> refs]
<1>3. c \in CopyType
    BY <1>2 DEF CopyType
<1>4. /\ c.pair = heap[i].pair /\ c.mutable = heap[i].mutable
      /\ c.items = items /\ c.refs = refs
    OBVIOUS
<1>5. heap' = [heap EXCEPT ![i] = c]
    OBVIOUS
<1> HIDE DEF c
<1>6. /\ [heap EXCEPT ![i] = c] \in Seq(CopyType)
      /\ Len([heap EXCEPT ![i] = c]) = Len(heap)
      /\ \A j \in 1 .. Len(heap) : [heap EXCEPT ![i] = c][j] = IF j = i THEN c ELSE heap[j]
    BY ONLY <1>1, <1>3, ExceptSeq
<1> QED
    BY <1>1, <1>4, <1>5, <1>6 DEF HeapAt

\* A record of a copy is its fields.
LEMMA CopyIs ==
    ASSUME TypeInv, NEW i \in DOMAIN heap
    PROVE  /\ heap[i] \in CopyType /\ heap[i].items \in Seq(Nat) /\ heap[i].refs \in Nat
           /\ heap[i].mutable \in BOOLEAN /\ heap[i].pair \in Pairs
           /\ heap[i] = [pair |-> heap[i].pair, mutable |-> heap[i].mutable,
                         items |-> heap[i].items, refs |-> heap[i].refs]
<1>1. heap[i] \in CopyType
    BY NumbersAre, ElementOfSeq DEF TypeInv
<1> QED
    BY <1>1 DEF CopyType

\* The ways in which a copy changes.
LEMMA HeapChanges ==
    ASSUME TypeInv, NEW i \in DOMAIN heap, NEW items \in Seq(Nat)
    PROVE  /\ heap' = [heap EXCEPT ![i].refs = @ + 1] =>
                HeapAt(i, heap[i].items, heap[i].refs + 1)
           /\ heap' = [heap EXCEPT ![i].refs = @ - 1] /\ heap[i].refs > 1 =>
                HeapAt(i, heap[i].items, heap[i].refs - 1)
           /\ heap' = [heap EXCEPT ![i].refs = 0, ![i].items = <<>>] =>
                HeapAt(i, <<>>, 0)
           /\ heap' = [heap EXCEPT ![i].items = items] =>
                HeapAt(i, items, heap[i].refs)
           /\ heap' = [heap EXCEPT ![i].items = items, ![i].refs = @ + 1] =>
                HeapAt(i, items, heap[i].refs + 1)
<1> DEFINE At(s, r) == [pair |-> heap[i].pair, mutable |-> heap[i].mutable,
                        items |-> s, refs |-> r]
<1>1. /\ heap[i].items \in Seq(Nat) /\ heap[i].refs \in Nat
      /\ heap[i] = At(heap[i].items, heap[i].refs)
    BY CopyIs
<1>2. ASSUME heap' = [heap EXCEPT ![i].refs = @ + 1]
      PROVE  HeapAt(i, heap[i].items, heap[i].refs + 1)
    <2>1. [heap[i] EXCEPT !.refs = @ + 1] = At(heap[i].items, heap[i].refs + 1)
        BY <1>1, SMTT(30)
    <2>2. heap' = [heap EXCEPT ![i] = At(heap[i].items, heap[i].refs + 1)]
        BY <1>2, <2>1
    <2>3. heap[i].refs + 1 \in Nat
        BY <1>1
    <2> QED
        BY <1>1, <2>2, <2>3, HeapAtIs
<1>3. ASSUME heap' = [heap EXCEPT ![i].refs = @ - 1], heap[i].refs > 1
      PROVE  HeapAt(i, heap[i].items, heap[i].refs - 1)
    <2>1. [heap[i] EXCEPT !.refs = @ - 1] = At(heap[i].items, heap[i].refs - 1)
        BY <1>1
    <2>2. heap' = [heap EXCEPT ![i] = At(heap[i].items, heap[i].refs - 1)]
        BY <1>3, <2>1
    <2>3. heap[i].refs - 1 \in Nat
        BY <1>1, <1>3
    <2> QED
        BY <1>1, <2>2, <2>3, HeapAtIs
<1>4. ASSUME heap' = [heap EXCEPT ![i].refs = 0, ![i].items = <<>>]
      PROVE  HeapAt(i, <<>>, 0)
    <2>0. /\ [heap[i] EXCEPT !.refs = 0] = At(heap[i].items, 0)
          /\ [At(heap[i].items, 0) EXCEPT !.items = <<>>] = At(<<>>, 0)
        BY <1>1
    <2>1. [[heap[i] EXCEPT !.refs = 0] EXCEPT !.items = <<>>] = At(<<>>, 0)
        BY ONLY <2>0
    <2>2. heap' = [heap EXCEPT ![i] = [[heap[i] EXCEPT !.refs = 0] EXCEPT !.items = <<>>]]
        BY <1>4
    <2>3. heap' = [heap EXCEPT ![i] = At(<<>>, 0)]
        BY <2>1, <2>2
    <2> QED
        BY <2>3, HeapAtIs, EmptySeq
<1>5. ASSUME heap' = [heap EXCEPT ![i].items = items]
      PROVE  HeapAt(i, items, heap[i].refs)
    <2>1. [heap[i] EXCEPT !.items = items] = At(items, heap[i].refs)
        BY <1>1
    <2>2. heap' = [heap EXCEPT ![i] = At(items, heap[i].refs)]
        BY <1>5, <2>1
    <2> QED
        BY <1>1, <2>2, HeapAtIs
<1>6. ASSUME heap' = [heap EXCEPT ![i].items = items, ![i].refs = @ + 1]
      PROVE  HeapAt(i, items, heap[i].refs + 1)
    <2>0. /\ [heap[i] EXCEPT !.items = items] = At(items, heap[i].refs)
          /\ [At(items, heap[i].refs) EXCEPT !.refs = heap[i].refs + 1]
                = At(items, heap[i].refs + 1)
        BY <1>1, SMTT(30)
    <2>1. [[heap[i] EXCEPT !.items = items] EXCEPT !.refs = heap[i].refs + 1]
            = At(items, heap[i].refs + 1)
        BY ONLY <2>0
    <2>2. heap' = [heap EXCEPT ![i] =
                     [[heap[i] EXCEPT !.items = items] EXCEPT !.refs = heap[i].refs + 1]]
        BY <1>1, <1>6
    <2>3. heap' = [heap EXCEPT ![i] = At(items, heap[i].refs + 1)]
        BY <2>1, <2>2
    <2>4. heap[i].refs + 1 \in Nat
        BY <1>1
    <2> QED
        BY <1>1, <2>3, <2>4, HeapAtIs
<1> QED
    BY <1>2, <1>3, <1>4, <1>5, <1>6

\* A copy is made.
LEMMA HeapGrows ==
    ASSUME TypeInv, stack # <<>>, NEW refs \in Nat, heap' = NewCopy(refs)
    PROVE  HeapGrown(refs)
<1> DEFINE c == Counted(Node(X.pair, ~Freeze(Top.of), <<>>), refs)
<1>1. X.pair \in Pairs /\ Freeze(Top.of) \in BOOLEAN
    BY TopIs DEF OriginalType, Freeze
<1>2. /\ c \in CopyType /\ c.pair = X.pair /\ c.mutable = ~Freeze(Top.of)
      /\ c.items = <<>> /\ c.refs = refs
    BY <1>1 DEF Counted, Node, CopyType
<1>3. heap' = Append(heap, c)
    BY DEF NewCopy
<1> HIDE DEF c
<1>4. heap \in Seq(CopyType) /\ Len(heap) \in Nat
    BY NumbersAre DEF TypeInv
<1>5. /\ Append(heap, c) \in Seq(CopyType) /\ Len(Append(heap, c)) = Len(heap) + 1
      /\ \A j \in 1 .. Len(heap) : Append(heap, c)[j] = heap[j]
      /\ Append(heap, c)[Len(heap) + 1] = c
    BY <1>2, <1>4, AppendProperties
<1> QED
    BY <1>2, <1>3, <1>5 DEF HeapGrown, Fresh

\* What keeps the types of the copies, and their numbers.
HeapKept ==
    /\ heap' \in Seq(CopyType) /\ Len(heap') >= Len(heap)
    /\ \A i \in Immortals : heap'[i] = ImmortalObjects[i]
    /\ \A j \in DOMAIN heap' : \A k \in DOMAIN heap'[j].items :
          heap'[j].items[k] \in DOMAIN heap'

\* The copies that change keep it.
LEMMA HeapAtKept ==
    ASSUME TypeInv, NEW i \in DOMAIN heap \ Immortals, NEW items \in Seq(Nat),
           NEW refs \in Nat, HeapAt(i, items, refs),
           \A k \in DOMAIN items : items[k] \in DOMAIN heap
    PROVE  HeapKept
<1>1. /\ heap' \in Seq(CopyType) /\ Len(heap') = Len(heap) /\ Len(heap) \in Nat
      /\ heap'[i].items = items
      /\ \A j \in 1 .. Len(heap) : j # i => heap'[j] = heap[j]
      /\ DOMAIN heap = 1 .. Len(heap)
    BY NumbersAre DEF HeapAt
<1>2. DOMAIN heap' = 1 .. Len(heap)
    BY <1>1, LenProperties
<1>3. Immortals = 1 .. 4 /\ Len(heap) >= 4 /\ \A j \in Immortals : heap[j] = ImmortalObjects[j]
    BY ImmortalsAre DEF TypeInv
<1>4. \A j \in Immortals : heap'[j] = ImmortalObjects[j]
    BY <1>1, <1>3
<1>5. \A j \in DOMAIN heap : \A k \in DOMAIN heap[j].items : heap[j].items[k] \in DOMAIN heap
    BY DEF TypeInv, Numbered
<1>6. \A j \in DOMAIN heap' : \A k \in DOMAIN heap'[j].items :
          heap'[j].items[k] \in DOMAIN heap'
    BY <1>1, <1>2, <1>5
<1> QED
    BY <1>1, <1>4, <1>6 DEF HeapKept

\* So does the copy that is made.
LEMMA HeapGrownKept ==
    ASSUME TypeInv, NEW refs \in Nat, HeapGrown(refs)
    PROVE  HeapKept
<1>1. /\ heap' \in Seq(CopyType) /\ Len(heap') = Len(heap) + 1 /\ Len(heap) \in Nat
      /\ heap'[Len(heap) + 1].items = <<>>
      /\ \A j \in 1 .. Len(heap) : heap'[j] = heap[j]
      /\ DOMAIN heap = 1 .. Len(heap)
    BY NumbersAre DEF HeapGrown, Fresh
<1>2. DOMAIN heap' = 1 .. Len(heap) + 1
    BY <1>1, LenProperties
<1>3. Immortals = 1 .. 4 /\ Len(heap) >= 4 /\ \A j \in Immortals : heap[j] = ImmortalObjects[j]
    BY ImmortalsAre DEF TypeInv
<1>4. \A j \in Immortals : heap'[j] = ImmortalObjects[j]
    BY <1>1, <1>3
<1>5. \A j \in DOMAIN heap : \A k \in DOMAIN heap[j].items : heap[j].items[k] \in DOMAIN heap
    BY DEF TypeInv, Numbered
<1>6. ASSUME NEW j \in DOMAIN heap', NEW k \in DOMAIN heap'[j].items
      PROVE  heap'[j].items[k] \in DOMAIN heap'
    <2>1. CASE j = Len(heap) + 1
        BY <1>1, <1>6, <2>1
    <2>2. CASE j # Len(heap) + 1
        BY <1>1, <1>2, <1>5, <1>6, <2>2
    <2> QED
        BY <2>1, <2>2
<1> QED
    BY <1>1, <1>4, <1>6 DEF HeapKept

\* And what does not change.
LEMMA HeapSameKept ==
    ASSUME TypeInv, UNCHANGED heap
    PROVE  HeapKept
BY NumbersAre DEF TypeInv, Numbered, HeapKept

(***************************************************************************)
(* The types are invariant.                                                *)
(***************************************************************************)
GraphKept ==
    /\ graph' \in [Obj -> OriginalType]
    /\ \A x \in Obj : graph'[x].items = graph[x].items /\ graph'[x].pair = graph[x].pair
MemoKept ==
    /\ IsFiniteSet(DOMAIN memo') /\ DOMAIN memo' \subseteq Obj
    /\ memo' \in [DOMAIN memo' -> DOMAIN heap']
FrameNumbered(f) == f \in FrameType /\ \A l \in DOMAIN f.own : f.own[l] \in DOMAIN heap'
StackKept ==
    Popped \/ \E f \in FrameType : FrameNumbered(f) /\ (Became(f) \/ Pushed(f))
ResultKept == result' \in {Pending, Exception} \cup DOMAIN heap'

\* An entry of the memo.
LEMMA MemoizedIs ==
    ASSUME NEW x, NEW i, memo' = Memoized(x, i)
    PROVE  /\ DOMAIN memo' = DOMAIN memo \cup {x} /\ memo'[x] = i
           /\ \A y \in DOMAIN memo : y # x => memo'[y] = memo[y]
BY DEF Memoized

\* A new entry.
LEMMA MemoizedKept ==
    ASSUME TypeInv, HeapKept, NEW x \in Obj, NEW i \in DOMAIN heap', memo' = Memoized(x, i)
    PROVE  MemoKept
<1>1. DOMAIN heap \subseteq DOMAIN heap'
    <2>1. Len(heap') \in Nat /\ Len(heap) \in Nat /\ Len(heap') >= Len(heap)
          /\ DOMAIN heap' = 1 .. Len(heap') /\ DOMAIN heap = 1 .. Len(heap)
        BY NumbersAre, LenProperties DEF HeapKept
    <2> QED
        BY <2>1
<1>2. DOMAIN memo' = DOMAIN memo \cup {x} /\ memo' = [y \in DOMAIN memo \cup {x} |-> memo'[y]]
    BY DEF Memoized
<1>3. \A y \in DOMAIN memo \cup {x} : memo'[y] \in DOMAIN heap'
    BY <1>1, MemoizedIs, ZenonT(60) DEF TypeInv
<1>4. IsFiniteSet(DOMAIN memo')
    BY <1>2, FS_AddElement DEF TypeInv
<1> QED
    BY <1>2, <1>3, <1>4 DEF MemoKept, TypeInv

\* A memo that does not change.
LEMMA MemoSameKept ==
    ASSUME TypeInv, HeapKept, memo' = memo
    PROVE  MemoKept
<1>1. DOMAIN heap \subseteq DOMAIN heap'
    <2>1. Len(heap') \in Nat /\ Len(heap) \in Nat /\ Len(heap') >= Len(heap)
          /\ DOMAIN heap' = 1 .. Len(heap') /\ DOMAIN heap = 1 .. Len(heap)
        BY NumbersAre, LenProperties DEF HeapKept
    <2> QED
        BY <2>1
<1> QED
    BY <1>1 DEF MemoKept, TypeInv

\* The parts make the invariant.
LEMMA TypePartsKept ==
    ASSUME TypeInv, HeapKept, GraphKept, MemoKept, StackKept, ResultKept, UNCHANGED mode
    PROVE  TypeInv'
<1>1. DOMAIN heap \subseteq DOMAIN heap' /\ Len(heap') >= 4
    <2>1. Len(heap') \in Nat /\ Len(heap) \in Nat /\ Len(heap') >= Len(heap)
          /\ DOMAIN heap' = 1 .. Len(heap') /\ DOMAIN heap = 1 .. Len(heap)
        BY NumbersAre, LenProperties DEF HeapKept
    <2> QED
        BY <2>1 DEF TypeInv
<1>2. \A j \in DOMAIN heap' : \A k \in DOMAIN heap'[j].items : heap'[j].items[k] \in DOMAIN heap'
    BY DEF HeapKept
<1>3. stack' \in Seq(FrameType)
    BY DEF StackKept, Popped, Became, Pushed
<1>4. stack \in Seq(FrameType) /\ Len(stack) \in Nat /\ DOMAIN stack = 1 .. Len(stack)
      /\ Len(stack') \in Nat /\ DOMAIN stack' = 1 .. Len(stack')
    BY <1>3, LenProperties DEF TypeInv
<1>5. \A p \in DOMAIN stack : \A l \in DOMAIN stack[p].own : stack[p].own[l] \in DOMAIN heap'
    BY <1>1 DEF TypeInv, Numbered
<1>6. \A p \in DOMAIN stack' : \A l \in DOMAIN stack'[p].own : stack'[p].own[l] \in DOMAIN heap'
    <2>1. CASE Popped
        BY <1>4, <1>5, <2>1 DEF Popped
    <2>2. ASSUME NEW f \in FrameType, FrameNumbered(f), Became(f),
                 NEW p \in DOMAIN stack', NEW l \in DOMAIN stack'[p].own
          PROVE  stack'[p].own[l] \in DOMAIN heap'
        BY <1>4, <1>5, <2>2 DEF Became, FrameNumbered
    <2>3. ASSUME NEW f \in FrameType, FrameNumbered(f), Pushed(f),
                 NEW p \in DOMAIN stack', NEW l \in DOMAIN stack'[p].own
          PROVE  stack'[p].own[l] \in DOMAIN heap'
        BY <1>4, <1>5, <2>3 DEF Pushed, FrameNumbered
    <2> QED
        BY <2>1, <2>2, <2>3 DEF StackKept
<1> QED
    BY <1>1, <1>2, <1>3, <1>6
       DEF TypeInv, Numbered, HeapKept, GraphKept, MemoKept, ResultKept

\* The frame that runs, and what it owns.
LEMMA TopFramed ==
    ASSUME TypeInv, StackInv, stack # <<>>
    PROVE  /\ Framed(Len(stack))
           /\ \A l \in 1 .. Len(Top.own) : Top.own[l] \in DOMAIN heap
           /\ Top.kind \in ItemKinds => Len(Top.own) \in 1 .. Len(X.items) + 1
           /\ Top.kind \in {"tuple", "set"} => Copy \in DOMAIN heap \ Immortals
<1>1. Framed(Len(stack))
    BY TopIs DEF StackInv
<1>2. \A l \in 1 .. Len(Top.own) : Top.own[l] \in DOMAIN heap
    BY TopIs, LenProperties DEF TypeInv, Numbered
<1>3. Top.kind \in ItemKinds => Len(Top.own) \in 1 .. Len(X.items) + 1
    BY <1>1, TopIs DEF Framed
<1>4. ASSUME Top.kind \in {"tuple", "set"}
      PROVE  Copy \in DOMAIN heap \ Immortals
    <2>1. Len(Top.own) \in 1 .. Len(X.items) + 1 /\ Top.own[1] \notin Immortals
        BY <1>1, <1>3, <1>4, TopIs DEF Framed, ItemKinds
    <2>2. Len(X.items) \in Nat /\ Len(Top.own) \in Nat
        BY TopIs, LenProperties DEF OriginalType
    <2> QED
        BY <1>2, <2>1, <2>2 DEF Copy
<1> QED
    BY <1>1, <1>2, <1>3, <1>4

\* The immortals are copies like the others, as far as types go.
LEMMA ImmortalsNumbered ==
    ASSUME TypeInv
    PROVE  Immortals \subseteq DOMAIN heap /\ None \in DOMAIN heap
BY ImmortalsAre, NumbersAre DEF TypeInv, None

\* What is visited and returns at once.
LEMMA TypeVisits ==
    ASSUME TypeInv, StackInv,
           \/ VisitRaises \/ VisitKnown \/ VisitImmortal \/ VisitMakes \/ TupleRaises
           \/ TupleStarts \/ SetStarts
    PROVE  TypeInv'
<1>1. /\ stack # <<>> /\ UNCHANGED <<graph, mode, limit>>
      /\ Top.of \in Obj
    BY TopIs DEF VisitRaises, VisitKnown, VisitImmortal, VisitMakes, TupleRaises,
       TupleStarts, SetStarts, Visits, Underneath, Unmoved
<1>2. GraphKept
    BY <1>1 DEF GraphKept, TypeInv
<1>3. ASSUME HeapGrown(1) \/ HeapGrown(2)
      PROVE  HeapKept /\ Fresh \in DOMAIN heap'
    <2>1. HeapKept
        BY <1>3, HeapGrownKept
    <2>2. Len(heap') = Len(heap) + 1
        BY <1>3 DEF HeapGrown
    <2>3. DOMAIN heap' = 1 .. Len(heap')
        BY <2>1, LenProperties DEF HeapKept
    <2> QED
        BY <2>1, <2>2, <2>3, NumbersAre DEF Fresh
<1>4. CASE VisitRaises \/ VisitImmortal
    <2>1. Unmoved /\ Popped /\ result' \in {Exception} \cup Immortals
        BY <1>4 DEF VisitRaises, VisitImmortal, ImmortalsOf
    <2>2. HeapKept
        BY <2>1, HeapSameKept DEF Unmoved
    <2>3. MemoKept
        BY <2>1, <2>2, MemoSameKept DEF Unmoved
    <2>4. ResultKept
        BY <2>1, ImmortalsNumbered DEF ResultKept, Unmoved
    <2> QED
        BY <1>1, <1>2, <2>1, <2>2, <2>3, <2>4, TypePartsKept DEF StackKept
<1>5. CASE VisitKnown
    <2>1. /\ Popped /\ heap' = IncRef(heap, memo[Top.of]) /\ result' = memo[Top.of]
          /\ memo' = memo /\ memo[Top.of] \in DOMAIN heap
        BY <1>5 DEF VisitKnown, Known, TypeInv
    <2>2. HeapKept /\ DOMAIN heap' = DOMAIN heap
        <3>1. CASE memo[Top.of] \in Immortals
            BY <2>1, <3>1, HeapSameKept DEF IncRef
        <3>2. CASE memo[Top.of] \notin Immortals
            <4> DEFINE i == memo[Top.of]
            <4>1. heap' = [heap EXCEPT ![i].refs = @ + 1]
                BY <2>1, <3>2 DEF IncRef
            <4>2. /\ heap[i].items \in Seq(Nat) /\ heap[i].refs + 1 \in Nat
                  /\ \A k \in DOMAIN heap[i].items : heap[i].items[k] \in DOMAIN heap
                BY <2>1, CopyIs DEF TypeInv, Numbered
            <4>3. HeapAt(i, heap[i].items, heap[i].refs + 1)
                BY <2>1, <4>1, <4>2, HeapChanges
            <4>4. HeapKept
                BY <2>1, <3>2, <4>2, <4>3, HeapAtKept
            <4>5. Len(heap') = Len(heap) /\ DOMAIN heap' = 1 .. Len(heap')
                BY <4>3, LenProperties DEF HeapAt
            <4> QED
                BY <4>4, <4>5, NumbersAre
        <3> QED
            BY <3>1, <3>2
    <2>3. MemoKept /\ ResultKept
        BY <2>1, <2>2, MemoSameKept DEF ResultKept
    <2> QED
        BY <1>1, <1>2, <2>1, <2>2, <2>3, TypePartsKept DEF StackKept
<1>6. CASE VisitMakes \/ TupleRaises
    <2>1. /\ Popped /\ memo' = Memoized(Top.of, Fresh) /\ result' \in {Exception, Fresh}
          /\ (heap' = NewCopy(1) \/ heap' = NewCopy(2))
        BY <1>6 DEF VisitMakes, TupleRaises
    <2>2. HeapKept /\ Fresh \in DOMAIN heap'
        BY <1>1, <1>3, <2>1, HeapGrows
    <2>3. MemoKept /\ ResultKept
        BY <1>1, <2>1, <2>2, MemoizedKept DEF ResultKept
    <2> QED
        BY <1>1, <1>2, <2>1, <2>2, <2>3, TypePartsKept DEF StackKept
<1>7. CASE TupleStarts \/ SetStarts
    <2>1. /\ memo' = Memoized(Top.of, Fresh) \/ memo' = memo
          /\ result' = Pending /\ (heap' = NewCopy(1) \/ heap' = NewCopy(2))
        BY <1>7 DEF TupleStarts, SetStarts
    <2>2. HeapKept /\ Fresh \in DOMAIN heap'
        BY <1>1, <1>3, <2>1, HeapGrows
    <2>3. MemoKept /\ ResultKept
        BY <1>1, <2>1, <2>2, MemoizedKept, MemoSameKept DEF ResultKept
    <2>4. PICK k \in {"tuple", "set"} : Became(Frame(k, Top.of, <<Fresh>>))
        BY <1>7 DEF TupleStarts, SetStarts
    <2>5. Frame(k, Top.of, <<Fresh>>) \in FrameType /\ Frame(k, Top.of, <<Fresh>>).own = <<Fresh>>
        <3>1. k \in FrameKinds /\ Fresh \in Nat
            BY NumbersAre DEF FrameKinds
        <3> QED
            BY <1>1, <3>1, FrameSingle
    <2>6. FrameNumbered(Frame(k, Top.of, <<Fresh>>))
        BY <2>2, <2>5 DEF FrameNumbered
    <2> QED
        BY <1>1, <1>2, <2>2, <2>3, <2>4, <2>5, <2>6, TypePartsKept DEF StackKept
<1> QED
    BY <1>4, <1>5, <1>6, <1>7

\* What is frozen.
LEMMA TypeFreezes ==
    ASSUME TypeInv, StackInv, FreezeKnown \/ FreezeRaises \/ FreezeStarts
    PROVE  TypeInv'
<1>1. /\ stack # <<>> /\ UNCHANGED <<mode, limit, heap>>
      /\ Top.of \in Obj
    BY TopIs DEF FreezeKnown, FreezeRaises, FreezeStarts, Visits, Underneath, Unmoved
<1>2. HeapKept /\ None \in DOMAIN heap'
    BY <1>1, HeapSameKept, ImmortalsNumbered
<1>3. GraphKept
    <2>1. CASE graph' = graph
        BY <2>1 DEF GraphKept, TypeInv
    <2>2. CASE graph' = [graph EXCEPT ![Top.of].mutable = FALSE]
        <3>1. graph \in [Obj -> OriginalType]
            BY DEF TypeInv
        <3>2. graph[Top.of] \in OriginalType
            BY <1>1, <3>1
        <3>3. /\ [graph[Top.of] EXCEPT !.mutable = FALSE] \in OriginalType
              /\ [graph[Top.of] EXCEPT !.mutable = FALSE].items = graph[Top.of].items
              /\ [graph[Top.of] EXCEPT !.mutable = FALSE].pair = graph[Top.of].pair
            BY <3>2 DEF OriginalType
        <3>4. graph' = [graph EXCEPT ![Top.of] = [graph[Top.of] EXCEPT !.mutable = FALSE]]
            BY <2>2
        <3>5. graph' \in [Obj -> OriginalType]
            BY <3>1, <3>3, <3>4
        <3>6. \A x \in Obj : graph'[x] = IF x = Top.of
                THEN [graph[Top.of] EXCEPT !.mutable = FALSE] ELSE graph[x]
            BY <1>1, <3>1, <3>4
        <3> QED
            BY <3>3, <3>5, <3>6 DEF GraphKept
    <2> QED
        BY <2>1, <2>2 DEF FreezeKnown, FreezeRaises, FreezeStarts, Unmoved
<1>4. MemoKept
    BY <1>1, <1>2, MemoizedKept, MemoSameKept
       DEF FreezeKnown, FreezeRaises, FreezeStarts, Unmoved
<1>5. ResultKept
    BY <1>2 DEF FreezeKnown, FreezeRaises, FreezeStarts, ResultKept
<1>6. StackKept
    <2>1. CASE Popped
        BY <2>1 DEF StackKept
    <2>2. CASE Became(Frame("traverse", Top.of, <<None>>))
        <3>1. /\ Frame("traverse", Top.of, <<None>>) \in FrameType
              /\ Frame("traverse", Top.of, <<None>>).own = <<None>>
            <4>1. "traverse" \in FrameKinds /\ None \in Nat
                BY NumbersAre DEF FrameKinds
            <4> QED
                BY <1>1, <4>1, FrameSingle
        <3>2. FrameNumbered(Frame("traverse", Top.of, <<None>>))
            BY <1>2, <3>1 DEF FrameNumbered
        <3> QED
            BY <2>2, <3>1, <3>2 DEF StackKept
    <2> QED
        BY <2>1, <2>2 DEF FreezeKnown, FreezeRaises, FreezeStarts
<1> QED
    BY <1>1, <1>2, <1>3, <1>4, <1>5, <1>6, TypePartsKept

\* What becomes of the items.
LEMMA TypeItems ==
    ASSUME TypeInv, StackInv,
           \/ ItemStarts \/ ItemEnds \/ ItemRefused \/ ItemsGivenUp \/ TupleEnds
           \/ SetEnds \/ TraverseEnds
    PROVE  TypeInv'
<1>1. /\ stack # <<>> /\ UNCHANGED <<graph, mode, limit>>
      /\ Top.of \in Obj /\ Top.own \in Seq(Nat) /\ Top.kind \in {"tuple", "set", "traverse"}
    BY TopIs DEF ItemStarts, ItemEnds, ItemRefused, ItemsGivenUp, TupleEnds,
       SetEnds, TraverseEnds, Items, Underneath
<1>2. GraphKept
    BY <1>1 DEF GraphKept, TypeInv
<1>3. DOMAIN Top.own = 1 .. Len(Top.own) /\ Len(Top.own) \in Nat
    BY <1>1, LenProperties
<1>4. \A l \in 1 .. Len(Top.own) : Top.own[l] \in DOMAIN heap
    BY <1>1, TopFramed
<1>5. ASSUME Unmoved, ResultKept, StackKept
      PROVE  TypeInv'
    <2>1. HeapKept
        BY <1>5, HeapSameKept DEF Unmoved
    <2>2. MemoKept
        BY <1>5, <2>1, MemoSameKept DEF Unmoved
    <2> QED
        BY <1>1, <1>2, <1>5, <2>1, <2>2, TypePartsKept
<1>6. CASE ItemStarts
    <2> DEFINE f == Visit(X.items[Len(Top.own)])
    <2>1. Pushed(f) /\ Unmoved /\ UNCHANGED result
        BY <1>6 DEF ItemStarts
    <2>2. f \in FrameType
        <3>1. stack'[Len(stack) + 1] = f /\ stack' \in Seq(FrameType) /\ Len(stack') = Len(stack) + 1
            BY <2>1 DEF Pushed
        <3>2. Len(stack) + 1 \in 1 .. Len(stack')
            BY <1>1, <3>1, TopIs
        <3> QED
            BY <3>1, <3>2, ElementOfSeq
    <2>3. f.own = <<>>
        BY DEF Visit, Frame
    <2>4. FrameNumbered(f)
        BY <2>2, <2>3 DEF FrameNumbered
    <2> QED
        BY <1>5, <2>1, <2>2, <2>4 DEF StackKept, ResultKept, TypeInv, Unmoved
<1>7. CASE ItemEnds
    <2> DEFINE own == Append(Top.own, result)
               f == Frame(Top.kind, Top.of, own)
    <2>1. Became(f) /\ Unmoved /\ result' = Pending /\ result > 0
        BY <1>7 DEF ItemEnds
    <2>2. result \in DOMAIN heap /\ result \in Nat
        BY <2>1, NumbersAre
    <2>3. /\ own \in Seq(Nat) /\ Len(own) = Len(Top.own) + 1
          /\ own[Len(Top.own) + 1] = result
          /\ \A l \in 1 .. Len(Top.own) : own[l] = Top.own[l]
        BY <1>1, <2>2, AppendProperties
    <2>4. DOMAIN own = 1 .. Len(Top.own) + 1
        BY <2>3, LenProperties
    <2>5. f \in FrameType /\ f.own = own
        <3> HIDE DEF own
        <3>1. Top.kind \in FrameKinds
            BY <1>1, TopIs
        <3> QED
            BY <1>1, <2>3, <3>1, FrameIs
    <2>6. \A l \in DOMAIN own : own[l] \in DOMAIN heap
        BY <1>3, <1>4, <2>2, <2>3, <2>4
    <2>7. FrameNumbered(f)
        BY <2>1, <2>5, <2>6 DEF FrameNumbered, Unmoved
    <2> QED
        BY <1>5, <2>1, <2>5, <2>7 DEF StackKept, ResultKept
<1>8. CASE ItemRefused
    <2> DEFINE f == Frame("release", Top.of, <<result>>)
    <2>1. Pushed(f) /\ Unmoved /\ result' = Exception /\ result > 0
        BY <1>8 DEF ItemRefused
    <2>2. result \in DOMAIN heap /\ result \in Nat
        BY <2>1, NumbersAre
    <2>3. f \in FrameType /\ f.own = <<result>>
        <3>1. "release" \in FrameKinds
            BY DEF FrameKinds
        <3> QED
            BY <1>1, <2>2, <3>1, FrameSingle
    <2>4. FrameNumbered(f)
        BY <2>1, <2>2, <2>3 DEF FrameNumbered, Unmoved
    <2> QED
        BY <1>5, <2>1, <2>3, <2>4 DEF StackKept, ResultKept
<1>9. CASE ItemsGivenUp
    <2> DEFINE f == Frame("release", Top.of, Top.own)
    <2>1. Became(f) /\ Unmoved /\ result' = Exception
        BY <1>9 DEF ItemsGivenUp
    <2>2. f \in FrameType /\ f.own = Top.own
        BY <1>1, FrameIs DEF FrameKinds
    <2>3. FrameNumbered(f)
        BY <1>3, <1>4, <2>1, <2>2 DEF FrameNumbered, Unmoved
    <2> QED
        BY <1>5, <2>1, <2>2, <2>3 DEF StackKept, ResultKept
<1>10. CASE TraverseEnds
    BY <1>5, <1>10, ImmortalsNumbered DEF TraverseEnds, StackKept, ResultKept, Unmoved
<1>11. CASE TupleEnds \/ SetEnds
    <2>1. /\ Popped /\ result' = Copy
          /\ \/ heap' = [heap EXCEPT ![Copy].items = Tail(Top.own)]
             \/ heap' = [heap EXCEPT ![Copy].items = Tail(Top.own), ![Copy].refs = @ + 1]
          /\ memo' = memo \/ memo' = Memoized(Top.of, Copy)
        BY <1>11 DEF TupleEnds, SetEnds
    <2>2. Copy \in DOMAIN heap \ Immortals
        BY <1>1, <1>11, TopFramed DEF TupleEnds, SetEnds
    <2>3. Top.own # <<>>
        BY <1>1, TopFramed, EmptySeq DEF ItemKinds
    <2>4. /\ Tail(Top.own) \in Seq(Nat) /\ Len(Tail(Top.own)) = Len(Top.own) - 1
          /\ \A l \in 1 .. Len(Tail(Top.own)) : Tail(Top.own)[l] = Top.own[l + 1]
        BY <1>1, <2>3, HeadTailProperties
    <2>5. DOMAIN Tail(Top.own) = 1 .. Len(Top.own) - 1
        BY <2>4, LenProperties
    <2>6. \A l \in DOMAIN Tail(Top.own) : Tail(Top.own)[l] \in DOMAIN heap
        BY <1>3, <1>4, <2>4, <2>5, SMTT(30)
    <2>7. heap[Copy].refs \in Nat /\ heap[Copy].refs + 1 \in Nat
        BY <2>2, CopyIs
    <2>8. HeapAt(Copy, Tail(Top.own), heap[Copy].refs) \/ HeapAt(Copy, Tail(Top.own), heap[Copy].refs + 1)
        BY <2>1, <2>2, <2>4, HeapChanges
    <2>9. HeapKept
        BY <2>2, <2>4, <2>6, <2>7, <2>8, HeapAtKept
    <2>10. Copy \in DOMAIN heap'
        <3>1. Len(heap') = Len(heap) /\ heap' \in Seq(CopyType)
            BY <2>8 DEF HeapAt
        <3> QED
            BY <2>2, <3>1, LenProperties, NumbersAre
    <2>11. MemoKept /\ ResultKept
        BY <1>1, <2>1, <2>9, <2>10, MemoizedKept, MemoSameKept DEF ResultKept
    <2> QED
        BY <1>1, <1>2, <2>1, <2>9, <2>11, TypePartsKept DEF StackKept
<1> QED
    BY <1>6, <1>7, <1>8, <1>9, <1>10, <1>11

\* What is released.
LEMMA TypeReleases ==
    ASSUME TypeInv, StackInv,
           ReleaseImmortal \/ ReleaseOne \/ ReleaseLast \/ ReleaseEnds \/ CallEnds
    PROVE  TypeInv'
<1>1. /\ stack # <<>> /\ UNCHANGED <<graph, mode, limit, result>>
      /\ Top.of \in Obj /\ Top.own \in Seq(Nat)
    BY TopIs DEF ReleaseImmortal, ReleaseOne, ReleaseLast, ReleaseEnds, CallEnds,
       Releases, Underneath, Unmoved
<1>2. GraphKept
    BY <1>1 DEF GraphKept, TypeInv
<1>3. DOMAIN Top.own = 1 .. Len(Top.own) /\ Len(Top.own) \in Nat
    BY <1>1, LenProperties
<1>4. \A l \in 1 .. Len(Top.own) : Top.own[l] \in DOMAIN heap
    BY <1>1, TopFramed
<1>5. "release" \in FrameKinds
    BY DEF FrameKinds
<1>6. CASE ReleaseImmortal \/ ReleaseOne \/ ReleaseLast
    <2>1. Top.own # <<>> /\ memo' = memo
        BY <1>6 DEF ReleaseImmortal, ReleaseOne, ReleaseLast, Releases
    <2> DEFINE i == Last(Top.own)
               kept == Front(Top.own)
               all == kept \o heap[i].items
    <2>2. /\ i = Top.own[Len(Top.own)] /\ Len(Top.own) \in Nat \ {0}
          /\ kept \in Seq(Nat) /\ Len(kept) = Len(Top.own) - 1
          /\ \A l \in 1 .. Len(Top.own) - 1 : kept[l] = Top.own[l]
        BY <1>1, <2>1, LastIs
    <2>3. i \in DOMAIN heap
        BY <1>4, <2>2
    <2> HIDE DEF i, kept
    <2>4. DOMAIN kept = 1 .. Len(Top.own) - 1
        BY <2>2, LenProperties
    <2>5. \A l \in DOMAIN kept : kept[l] \in DOMAIN heap
        BY <1>3, <1>4, <2>2, <2>4
    <2>6. /\ heap[i].items \in Seq(Nat) /\ heap[i].refs \in Nat
          /\ \A k \in DOMAIN heap[i].items : heap[i].items[k] \in DOMAIN heap
        BY <2>3, CopyIs DEF TypeInv, Numbered
    <2>7. /\ all \in Seq(Nat) /\ \A l \in DOMAIN all : all[l] \in DOMAIN heap
        <3>1. /\ all \in Seq(Nat) /\ Len(all) = Len(kept) + Len(heap[i].items)
              /\ \A l \in 1 .. Len(kept) + Len(heap[i].items) :
                    all[l] = IF l <= Len(kept) THEN kept[l] ELSE heap[i].items[l - Len(kept)]
            BY <2>2, <2>6, ConcatProperties, ZenonT(60)
        <3> HIDE DEF all
        <3>2. /\ DOMAIN all = 1 .. Len(kept) + Len(heap[i].items) /\ DOMAIN kept = 1 .. Len(kept)
              /\ DOMAIN heap[i].items = 1 .. Len(heap[i].items)
              /\ Len(kept) \in Nat /\ Len(heap[i].items) \in Nat
            BY <2>2, <2>6, <3>1, LenProperties
        <3>3. ASSUME NEW l \in DOMAIN all
              PROVE  all[l] \in DOMAIN heap
            <4>1. CASE l <= Len(kept)
                BY <2>5, <3>1, <3>2, <4>1
            <4>2. CASE ~(l <= Len(kept))
                <5>1. l - Len(kept) \in DOMAIN heap[i].items
                    BY <3>2, <4>2
                <5> QED
                    BY <2>6, <3>1, <3>2, <4>2, <5>1
            <4> QED
                BY <4>1, <4>2
        <3> QED
            BY <3>1, <3>3
    <2> HIDE DEF all
    <2>8. HeapKept /\ DOMAIN heap' = DOMAIN heap
        <3>1. CASE ReleaseImmortal
            BY <3>1, HeapSameKept DEF ReleaseImmortal
        <3>2. CASE ReleaseOne
            <4>1. /\ heap' = [heap EXCEPT ![i].refs = @ - 1] /\ heap[i].refs > 1
                  /\ i \notin Immortals
                BY <3>2 DEF ReleaseOne, i
            <4>2a. heap[i].refs - 1 \in Nat
                BY <2>6, <4>1
            <4>2b. HeapAt(i, heap[i].items, heap[i].refs - 1)
                BY <2>3, <2>6, <4>1, HeapChanges
            <4>2. HeapAt(i, heap[i].items, heap[i].refs - 1) /\ heap[i].refs - 1 \in Nat
                BY <4>2a, <4>2b
            <4>3. Len(heap') = Len(heap) /\ DOMAIN heap' = 1 .. Len(heap')
                BY <4>2, LenProperties DEF HeapAt
            <4> QED
                BY <2>3, <2>6, <4>1, <4>2, <4>3, HeapAtKept, NumbersAre
        <3>3. CASE ReleaseLast
            <4>1. /\ heap' = [heap EXCEPT ![i].refs = 0, ![i].items = <<>>]
                  /\ i \notin Immortals
                BY <3>3 DEF ReleaseLast, i
            <4>2. HeapAt(i, <<>>, 0) /\ <<>> \in Seq(Nat)
                BY <2>3, <4>1, HeapChanges, EmptySeq
            <4>3. Len(heap') = Len(heap) /\ DOMAIN heap' = 1 .. Len(heap')
                BY <4>2, LenProperties DEF HeapAt
            <4>4. i \in DOMAIN heap \ Immortals /\ 0 \in Nat
                  /\ \A k \in DOMAIN <<>> : <<>>[k] \in DOMAIN heap
                BY <2>3, <4>1
            <4>5. HeapKept
                BY <4>2, <4>4, HeapAtKept
            <4> QED
                BY <4>3, <4>5, NumbersAre
        <3> QED
            BY <1>6, <3>1, <3>2, <3>3
    <2>9. MemoKept /\ ResultKept
        BY <1>1, <2>1, <2>8, MemoSameKept DEF ResultKept, TypeInv
    <2>10. ASSUME NEW own \in Seq(Nat), \A l \in DOMAIN own : own[l] \in DOMAIN heap
           PROVE  /\ Frame("release", Top.of, own) \in FrameType
                  /\ FrameNumbered(Frame("release", Top.of, own))
        <3>1. /\ Frame("release", Top.of, own) \in FrameType
              /\ Frame("release", Top.of, own).own = own
            BY <1>1, <1>5, FrameIs
        <3> QED
            BY <2>8, <2>10, <3>1 DEF FrameNumbered
    <2>11. Became(Frame("release", Top.of, kept)) \/ Became(Frame("release", Top.of, all))
        BY <1>6 DEF ReleaseImmortal, ReleaseOne, ReleaseLast, i, kept, all
    <2>12. StackKept
        BY <2>2, <2>5, <2>7, <2>10, <2>11 DEF StackKept
    <2> QED
        BY <1>1, <1>2, <2>8, <2>9, <2>12, TypePartsKept
<1>7. CASE ReleaseEnds
    <2>1. HeapKept /\ Popped /\ memo' = memo
        BY <1>7, HeapSameKept DEF ReleaseEnds, Unmoved
    <2>2. MemoKept /\ ResultKept
        BY <1>1, <1>7, <2>1, MemoSameKept DEF ResultKept, TypeInv, ReleaseEnds, Unmoved
    <2> QED
        BY <1>1, <1>2, <2>1, <2>2, TypePartsKept DEF StackKept
<1>8. CASE CallEnds
    <2>1. HeapKept /\ heap' = heap /\ memo' = <<>>
        BY <1>8, HeapSameKept DEF CallEnds
    <2>2. DOMAIN memo' = {}
        BY <2>1
    <2>3. MemoKept
        BY <2>1, <2>2, FS_EmptySet DEF MemoKept
    <2>4. ResultKept
        BY <1>1, <2>1 DEF ResultKept, TypeInv
    <2>5. PICK own \in Seq(Nat) : IsMemoOf(own) /\ Became(Frame("release", Root, own))
        BY <1>8 DEF CallEnds
    <2>6. DOMAIN own = 1 .. Len(own) /\ Len(own) \in Nat
        BY LenProperties
    <2>7. \A l \in DOMAIN own : own[l] \in DOMAIN heap
        <3>1. PICK keys \in Seq(Obj) :
                /\ Len(own) = Len(keys) /\ Range(keys) = DOMAIN memo
                /\ \A k \in 1 .. Len(keys) : own[k] = memo[keys[k]]
            BY <2>5 DEF IsMemoOf
        <3>2. \A k \in 1 .. Len(keys) : keys[k] \in DOMAIN memo
            BY <3>1, LenProperties DEF Range
        <3> QED
            BY <2>6, <3>1, <3>2 DEF TypeInv
    <2>8. /\ Frame("release", Root, own) \in FrameType
          /\ Frame("release", Root, own).own = own
        BY <1>5, FrameIs, DeepCopyAssumption
    <2>9. FrameNumbered(Frame("release", Root, own))
        BY <2>1, <2>7, <2>8 DEF FrameNumbered
    <2> QED
        BY <1>1, <1>2, <2>1, <2>3, <2>4, <2>5, <2>8, <2>9, TypePartsKept DEF StackKept
<1> QED
    BY <1>6, <1>7, <1>8

\* Every step keeps the types.
LEMMA TypeStep ==
    ASSUME TypeInv, StackInv, [Next]_vars
    PROVE  TypeInv'
<1>1. CASE Steps
    BY <1>1, TypeVisits, TypeFreezes, TypeItems, TypeReleases DEF Steps
<1>2. CASE UNCHANGED vars
    BY <1>2 DEF vars, TypeInv, Numbered
<1> QED
    BY <1>1, <1>2, StepsAre

(***************************************************************************)
(* The stack is invariant.                                                 *)
(***************************************************************************)

\* Who runs above the call, and who in its place.
LEMMA Above ==
    ASSUME TypeInv, StackInv, stack # <<>>
    PROVE  /\ Top.kind \in {"visit", "tuple", "set", "traverse"} => Len(stack) > 1
           /\ Top.kind = "call" => Len(stack) = 1
           /\ Len(stack) > 1 => stack[1].kind = "call" /\ ~Finishing
           /\ Top.kind = "release" /\ Len(stack) > 1 => result = Exception
           /\ Top.kind = "visit" => result = Pending
           /\ Top.kind \in {"release", "call"} => result # Pending
<1>1. /\ Len(stack) \in Nat \ {0} /\ 1 \in DOMAIN stack /\ Len(stack) \in DOMAIN stack
      /\ Top = stack[Len(stack)]
    BY TopIs
<1>2. Framed(1) /\ Framed(Len(stack))
    BY <1>1 DEF StackInv
<1>3. Top.kind \in {"visit", "tuple", "set", "traverse"} => Len(stack) # 1
    BY <1>1, <1>2 DEF Framed
<1>4. Len(stack) > 1 => stack[1].kind = "call"
    BY <1>1, <1>2 DEF Framed
<1>5. Len(stack) > 1 => ~Finishing
    BY <1>1, <1>4 DEF Finishing
<1>6. Len(stack) # 1 => Len(stack) > 1
    BY <1>1
<1>7. Top.kind = "call" => Len(stack) = 1
    BY <1>1, <1>2 DEF Framed
<1>8. /\ Top.kind = "release" /\ Len(stack) > 1 => result = Exception
      /\ Top.kind = "visit" => result = Pending
      /\ Top.kind \in {"release", "call"} => result # Pending
    BY <1>1, <1>2 DEF Framed
<1> QED
    BY <1>3, <1>4, <1>5, <1>6, <1>7, <1>8

\* A frame that waits for the one above stays as it should be.
LEMMA CoveredKept ==
    ASSUME TypeInv, StackInv, GraphKept, UNCHANGED mode, NEW p \in 1 .. Len(stack) - 1,
           stack'[p] = stack[p], p # Len(stack') \/ result' # Pending
    PROVE  Framed(p)'
<1>1. Len(stack) \in Nat /\ p \in DOMAIN stack /\ p < Len(stack) /\ p # Len(stack)
    BY LenProperties DEF TypeInv
<1>2. Framed(p) /\ stack[p].of \in Obj
    <2>1. stack[p] \in FrameType
        BY <1>1, LenProperties, ElementOfSeq DEF TypeInv
    <2> QED
        BY <1>1, <2>1 DEF StackInv, FrameType
<1>3. stack[p].kind # "visit" /\ stack[p].kind # "release"
    BY <1>1, <1>2 DEF Framed
<1>4. /\ graph'[stack[p].of].items = graph[stack[p].of].items
      /\ graph'[stack[p].of].pair = graph[stack[p].of].pair
    BY <1>2 DEF GraphKept
<1>5. Immortals' = Immortals
    BY DEF Immortals, ImmortalObjects
<1> QED
    BY <1>1, <1>2, <1>3, <1>4, <1>5 DEF Framed

\* The frame below runs.
LEMMA StackPopped ==
    ASSUME TypeInv, StackInv, stack # <<>>, GraphKept, UNCHANGED mode, Popped,
           Top.kind # "call", result' # Pending, Finishing => memo' = <<>>
    PROVE  StackInv'
<1>1. Len(stack) \in Nat \ {0} /\ stack' \in Seq(FrameType) /\ Len(stack') = Len(stack) - 1
    BY TopIs DEF Popped
<1>2. DOMAIN stack' = 1 .. Len(stack) - 1
    BY <1>1, LenProperties
<1>3. \A p \in DOMAIN stack' : Framed(p)'
    BY <1>1, <1>2, CoveredKept DEF Popped
<1>4. Finishing' => Finishing
    <2>1. CASE Len(stack) = 1
        <3>1. 1 \in DOMAIN stack /\ Framed(1)
            BY <1>1, TopIs DEF StackInv
        <3>2. Top.kind \in {"call", "release"}
            BY <2>1, <3>1, TopIs DEF Framed
        <3> QED
            BY <2>1, <3>2, TopIs DEF Finishing
    <2>2. CASE Len(stack) > 1
        <3>1. 1 \in 1 .. Len(stack) - 1 /\ Len(stack') # 0
            BY <1>1, <2>2
        <3>2. stack'[1] = stack[1] /\ stack' # <<>>
            BY <3>1, EmptySeq DEF Popped
        <3> QED
            BY <3>2 DEF Finishing
    <2> QED
        BY <1>1, <2>1, <2>2
<1> QED
    BY <1>3, <1>4 DEF StackInv

\* The running frame becomes another.
LEMMA StackBecame ==
    ASSUME TypeInv, StackInv, stack # <<>>, GraphKept, UNCHANGED mode,
           NEW f \in FrameType, Became(f), NEW n, n = Len(stack'), Framed(n)',
           Len(stack) = 1 => memo' = <<>>
    PROVE  StackInv'
<1>1. Len(stack) \in Nat \ {0} /\ stack' \in Seq(FrameType) /\ Len(stack') = Len(stack)
    BY TopIs DEF Became
<1>2. DOMAIN stack' = 1 .. Len(stack) /\ stack' # <<>>
    BY <1>1, LenProperties, EmptySeq
<1>3. ASSUME NEW p \in DOMAIN stack'
      PROVE  Framed(p)'
    <2>1. CASE p = n
        BY <2>1
    <2>2. CASE p # n
        <3>1. p \in 1 .. Len(stack) - 1 /\ p # Len(stack')
            BY <1>1, <1>2, <2>2
        <3>2. stack'[p] = stack[p]
            BY <3>1 DEF Became
        <3> QED
            BY <3>1, <3>2, CoveredKept
    <2> QED
        BY <2>1, <2>2
<1>4. Finishing' => memo' = <<>>
    <2>1. CASE Len(stack) = 1
        BY <1>1, <2>1
    <2>2. CASE Len(stack) > 1
        <3>1. stack'[1] = stack[1]
            BY <1>1, <2>2 DEF Became
        <3> QED
            BY <1>2, <2>2, <3>1, Above DEF Finishing
    <2> QED
        BY <1>1, <2>1, <2>2
<1> QED
    BY <1>2, <1>3, <1>4 DEF StackInv

\* The running frame calls another.
LEMMA StackPushed ==
    ASSUME TypeInv, StackInv, stack # <<>>, GraphKept, UNCHANGED mode,
           Top.kind \in ItemKinds, Len(Top.own) <= Len(X.items),
           NEW f \in FrameType, Pushed(f), NEW n, n = Len(stack'), Framed(n)'
    PROVE  StackInv'
<1>1. Len(stack) \in Nat \ {0} /\ stack' \in Seq(FrameType) /\ Len(stack') = Len(stack) + 1
    BY TopIs DEF Pushed
<1>2. DOMAIN stack' = 1 .. Len(stack) + 1 /\ stack' # <<>>
    BY <1>1, LenProperties, EmptySeq
<1>3. ASSUME NEW p \in DOMAIN stack'
      PROVE  Framed(p)'
    <2>1. CASE p = n
        BY <2>1
    <2>2. CASE p \in 1 .. Len(stack) - 1
        <3>1. p # Len(stack')
            BY <1>1, <2>2
        <3>2. stack'[p] = stack[p]
            BY <1>1, <2>2 DEF Pushed
        <3> QED
            BY <2>2, <3>1, <3>2, CoveredKept
    <2>3. CASE p = Len(stack)
        <3>1. Framed(Len(stack)) /\ Top.of \in Obj /\ Top = stack[Len(stack)] /\ X = graph[Top.of]
            BY <1>1, TopIs DEF StackInv
        <3>2. stack'[p] = Top /\ Len(stack) # Len(stack')
            BY <1>1, <2>3, <3>1 DEF Pushed
        <3>3. graph'[Top.of].items = X.items /\ graph'[Top.of].pair = X.pair
            BY <3>1 DEF GraphKept
        <3>4. Immortals' = Immortals
            BY DEF Immortals, ImmortalObjects
        <3> QED
            BY <2>3, <3>1, <3>2, <3>3, <3>4 DEF Framed, ItemKinds
    <2> QED
        BY <1>1, <1>2, <2>1, <2>2, <2>3
<1>4. ~Finishing'
    <2>1. Len(stack) > 1
        BY Above DEF ItemKinds
    <2>2. stack'[1] = stack[1]
        BY <1>1, <2>1 DEF Pushed
    <2> QED
        BY <1>2, <2>1, <2>2, Above DEF Finishing
<1> QED
    BY <1>2, <1>3, <1>4 DEF StackInv

\* What a frame that runs next is like.
Runs(f, n) ==
    \/ f.kind = "visit" /\ n # 1 /\ f.own = <<>> /\ result' = Pending
    \/ /\ f.kind = "release" /\ result' # Pending
       /\ n # 1 => result' = Exception
    \/ /\ f.kind = "traverse" /\ n # 1 /\ mode = "deepfreeze" /\ result' = Pending
       /\ Len(f.own) \in 1 .. Len(graph[f.of].items) + 1
    \/ /\ f.kind \in {"tuple", "set"} /\ n # 1 /\ mode # "deepfreeze"
       /\ f.kind = graph[f.of].pair /\ result' = Pending
       /\ Len(f.own) \in 1 .. Len(graph[f.of].items) + 1
       /\ f.own[1] \notin Immortals

\* The frame that runs next is one of its kind.
LEMMA NextFramed ==
    ASSUME GraphKept, UNCHANGED mode, NEW n \in Nat, n = Len(stack'), NEW f,
           stack'[n] = f, f.of \in Obj,
           Runs(f, n)
    PROVE  Framed(n)'
<1>1. /\ graph'[f.of].items = graph[f.of].items
      /\ graph'[f.of].pair = graph[f.of].pair
    BY DEF GraphKept
<1>2. Immortals' = Immortals
    BY DEF Immortals, ImmortalObjects
<1> QED
    BY <1>1, <1>2 DEF Framed, ItemKinds, Runs

\* The lengths of the frame that runs.
LEMMA TopLens ==
    ASSUME TypeInv, StackInv, stack # <<>>
    PROVE  /\ Len(Top.own) \in Nat /\ Len(X.items) \in Nat
           /\ Top.kind \in ItemKinds /\ result # Pending => Len(Top.own) <= Len(X.items)
           /\ Top.kind \in ItemKinds => Len(Top.own) \in 1 .. Len(X.items) + 1
           /\ Len(stack) \in Nat \ {0}
<1>1. Len(Top.own) \in Nat /\ Len(X.items) \in Nat
    BY TopIs, LenProperties DEF OriginalType
<1>2. Framed(Len(stack))
    BY TopFramed
<1> QED
    BY <1>1, <1>2, TopIs, TopFramed DEF Framed

\* Graph and mode do not matter when they do not change.
LEMMA SameGraphKept ==
    ASSUME TypeInv, UNCHANGED graph
    PROVE  GraphKept
BY DEF GraphKept, TypeInv

\* What is frozen.
LEMMA FreezeGraphKept ==
    ASSUME TypeInv, NEW x \in Obj, graph' = [graph EXCEPT ![x].mutable = FALSE]
    PROVE  /\ GraphKept /\ ~graph'[x].mutable
           /\ \A y \in Obj : y # x => graph'[y] = graph[y]
<1>1. graph \in [Obj -> OriginalType]
    BY DEF TypeInv
<1>2. graph[x] \in OriginalType
    BY <1>1
<1>3. /\ [graph[x] EXCEPT !.mutable = FALSE] \in OriginalType
      /\ [graph[x] EXCEPT !.mutable = FALSE].items = graph[x].items
      /\ [graph[x] EXCEPT !.mutable = FALSE].pair = graph[x].pair
      /\ ~[graph[x] EXCEPT !.mutable = FALSE].mutable
    BY <1>2 DEF OriginalType
<1>4. graph' = [graph EXCEPT ![x] = [graph[x] EXCEPT !.mutable = FALSE]]
    OBVIOUS
<1>5. graph' \in [Obj -> OriginalType]
    BY <1>1, <1>3, <1>4
<1>6. \A y \in Obj : graph'[y] = IF y = x
        THEN [graph[x] EXCEPT !.mutable = FALSE] ELSE graph[y]
    BY <1>1, <1>4
<1> QED
    BY <1>3, <1>5, <1>6 DEF GraphKept

\* The steps in which the running frame returns.
LEMMA StackReturns ==
    ASSUME TypeInv, StackInv,
           \/ VisitRaises \/ VisitKnown \/ VisitImmortal \/ VisitMakes \/ TupleRaises
           \/ FreezeKnown \/ FreezeRaises \/ TupleEnds \/ SetEnds \/ TraverseEnds
           \/ ReleaseEnds
    PROVE  StackInv'
<1>1. /\ stack # <<>> /\ UNCHANGED <<graph, mode>> /\ Popped
      /\ Top.kind \in {"visit", "tuple", "set", "traverse", "release"}
    BY DEF VisitRaises, VisitKnown, VisitImmortal, VisitMakes, TupleRaises, FreezeKnown,
       FreezeRaises, TupleEnds, SetEnds, TraverseEnds, ReleaseEnds, Visits, Items,
       Underneath, Unmoved
<1>2. GraphKept
    BY <1>1, SameGraphKept
<1>3. result' # Pending
    <2>1. CASE VisitRaises \/ TupleRaises \/ FreezeRaises \/ FreezeKnown \/ TraverseEnds
        BY <2>1 DEF VisitRaises, TupleRaises, FreezeRaises, FreezeKnown, TraverseEnds,
           Exception, None, Pending
    <2>2. CASE VisitKnown
        <3>1. result' \in DOMAIN heap
            BY <2>2 DEF VisitKnown, Known, TypeInv
        <3> QED
            BY <3>1, NumbersAre DEF Pending
    <2>3. CASE VisitImmortal
        <3>1. result' \in 1 .. 4
            BY <2>3, ImmortalsAre DEF VisitImmortal, ImmortalsOf
        <3> QED
            BY <3>1 DEF Pending
    <2>4. CASE VisitMakes
        <3>1. result' = Len(heap) + 1
            BY <2>4 DEF VisitMakes, Fresh
        <3> QED
            BY <3>1, NumbersAre DEF Pending
    <2>5. CASE TupleEnds \/ SetEnds
        <3>1. result' = Copy /\ Copy \in DOMAIN heap
            BY <1>1, <2>5, TopFramed DEF TupleEnds, SetEnds
        <3> QED
            BY <3>1, NumbersAre DEF Pending
    <2>6. CASE ReleaseEnds
        BY <2>6, Above DEF ReleaseEnds, Underneath
    <2> QED
        BY <2>1, <2>2, <2>3, <2>4, <2>5, <2>6
<1>4. Finishing => memo' = <<>>
    <2>1. CASE Top.kind = "release"
        <3>1. memo' = memo
            BY <2>1 DEF VisitRaises, VisitKnown, VisitImmortal, VisitMakes, TupleRaises,
               FreezeKnown, FreezeRaises, TupleEnds, SetEnds, TraverseEnds, ReleaseEnds,
               Visits, Items, Unmoved
        <3> QED
            BY <3>1 DEF StackInv
    <2>2. CASE Top.kind # "release"
        BY <1>1, <2>2, Above
    <2> QED
        BY <2>1, <2>2
<1> QED
    BY <1>1, <1>2, <1>3, <1>4, StackPopped

\* The steps in which the running frame becomes another.
LEMMA StackChanges ==
    ASSUME TypeInv, StackInv,
           \/ TupleStarts \/ SetStarts \/ FreezeStarts \/ ItemEnds \/ ItemsGivenUp
           \/ ReleaseImmortal \/ ReleaseOne \/ ReleaseLast \/ CallEnds
    PROVE  StackInv'
<1>1. /\ stack # <<>> /\ UNCHANGED mode
      /\ Top.of \in Obj /\ Top.own \in Seq(Nat)
    BY TopIs DEF TupleStarts, SetStarts, FreezeStarts, ItemEnds, ItemsGivenUp,
       ReleaseImmortal, ReleaseOne, ReleaseLast, CallEnds, Visits, Items, Underneath, Releases
<1>2. GraphKept
    <2>1. CASE FreezeStarts
        BY <1>1, <2>1, FreezeGraphKept DEF FreezeStarts
    <2>2. CASE ~FreezeStarts
        BY <2>2, SameGraphKept DEF TupleStarts, SetStarts, ItemEnds, ItemsGivenUp,
           ReleaseImmortal, ReleaseOne, ReleaseLast, CallEnds, Items, Releases, Unmoved
    <2> QED
        BY <2>1, <2>2
<1>0. PICK n \in Nat \ {0} : n = Len(stack)
    BY <1>1, TopIs
<1>3. n \in Nat \ {0} /\ (Top.kind # "visit" \/ n # 1)
    <2>1. Top.kind = "visit" => Len(stack) > 1
        BY <1>1, Above
    <2> QED
        BY <1>0, <2>1
<1>4. ASSUME NEW f, Became(f)
      PROVE  stack'[n] = f /\ n = Len(stack') /\ f \in FrameType
    <2>1. stack'[n] = f /\ n = Len(stack') /\ stack' \in Seq(FrameType)
        BY <1>0, <1>4 DEF Became
    <2>2. n \in 1 .. Len(stack')
        BY <1>3, <2>1
    <2> QED
        BY <2>1, <2>2, ElementOfSeq
<1>5. ASSUME NEW f, Became(f), f.of \in Obj, n = 1 => memo' = <<>>, Runs(f, n)
      PROVE  StackInv'
    <2>1. stack'[n] = f /\ n = Len(stack') /\ f \in FrameType
        BY <1>4, <1>5
    <2>2. Framed(n)'
        BY <1>1, <1>2, <1>3, <1>5, <2>1, NextFramed
    <2> QED
        BY <1>0, <1>1, <1>2, <1>5, <2>1, <2>2, StackBecame
<1>6. Len(graph[Top.of].items) \in Nat
    BY <1>1, TopIs, LenProperties DEF OriginalType
<1>7. CASE TupleStarts \/ SetStarts
    <2>1. PICK k \in {"tuple", "set"} : Became(Frame(k, Top.of, <<Fresh>>)) /\ X.pair = k
        BY <1>7 DEF TupleStarts, SetStarts
    <2> DEFINE f == Frame(k, Top.of, <<Fresh>>)
    <2>2. f.of = Top.of /\ f.kind = k /\ f.own = <<Fresh>>
        BY DEF Frame
    <2>3. Len(f.own) = 1 /\ f.own[1] = Fresh
        BY <2>2
    <2>4. Fresh \notin Immortals
        BY NumbersAre, ImmortalsAre DEF TypeInv, Fresh
    <2>5. Top.kind = "visit" /\ mode # "deepfreeze" /\ result' = Pending /\ X = graph[Top.of]
        BY <1>1, <1>7, TopIs DEF TupleStarts, SetStarts, Visits, New
    <2> HIDE DEF f
    <2>6. Len(f.own) \in 1 .. Len(graph[f.of].items) + 1
        BY <1>6, <2>2, <2>3
    <2>7. Became(f) /\ f.kind = graph[f.of].pair
        BY <2>1, <2>2, <2>5 DEF f
    <2>8. Runs(f, n) /\ n # 1
        BY <1>3, <2>1, <2>2, <2>3, <2>4, <2>5, <2>6, <2>7 DEF Runs
    <2> QED
        BY <1>1, <1>5, <2>2, <2>7, <2>8
<1>8. CASE FreezeStarts
    <2> DEFINE f == Frame("traverse", Top.of, <<None>>)
    <2>1. f.of = Top.of /\ f.kind = "traverse" /\ f.own = <<None>>
        BY DEF Frame
    <2>2. Len(f.own) = 1
        BY <2>1
    <2>3. Top.kind = "visit" /\ mode = "deepfreeze" /\ result' = Pending /\ Became(f)
        BY <1>8 DEF FreezeStarts, Visits
    <2> HIDE DEF f
    <2>4. Len(f.own) \in 1 .. Len(graph[f.of].items) + 1
        BY <1>6, <2>1, <2>2
    <2>5. Runs(f, n) /\ n # 1
        BY <1>3, <2>1, <2>3, <2>4 DEF Runs
    <2> QED
        BY <1>1, <1>5, <2>1, <2>3, <2>5
<1>9. CASE ItemEnds
    <2> DEFINE own == Append(Top.own, result)
               f == Frame(Top.kind, Top.of, own)
    <2>1. Became(f) /\ result' = Pending /\ result > 0 /\ Top.kind \in {"tuple", "set", "traverse"}
        BY <1>9 DEF ItemEnds, Items
    <2>2. f.of = Top.of /\ f.kind = Top.kind /\ f.own = own
        BY DEF Frame
    <2>3. result \in Nat /\ result # Pending
        BY <2>1, NumbersAre DEF Pending
    <2>4. /\ own \in Seq(Nat) /\ Len(own) = Len(Top.own) + 1
          /\ \A l \in 1 .. Len(Top.own) : own[l] = Top.own[l]
        BY <1>1, <2>3, AppendProperties
    <2> HIDE DEF own, f
    <2>5. /\ Len(Top.own) \in 1 .. Len(X.items) /\ Len(X.items) \in Nat /\ X = graph[Top.of]
          /\ n # 1
        BY <1>1, <1>3, <2>1, <2>3, TopIs, <1>0, TopLens, Above DEF ItemKinds
    <2>6. own[1] = Top.own[1] /\ Len(own) \in 1 .. Len(X.items) + 1
        <3>1. 1 \in 1 .. Len(Top.own)
            BY <2>5
        <3>2. own[1] = Top.own[1]
            BY <2>4, <3>1
        <3>3. Len(Top.own) + 1 \in 1 .. Len(X.items) + 1
            BY <2>5
        <3> QED
            BY <2>4, <3>2, <3>3
    <2>7. Framed(Len(stack)) /\ Top = stack[Len(stack)]
        BY <1>1, TopFramed, TopIs
    <2>8. CASE Top.kind = "traverse"
        <3>1. mode = "deepfreeze"
            BY <2>7, <2>8 DEF Framed
        <3>2. Runs(f, n)
            BY <2>1, <2>2, <2>5, <2>6, <2>8, <3>1 DEF Runs
        <3> QED
            BY <1>1, <1>5, <2>1, <2>2, <2>5, <3>2
    <2>9. CASE Top.kind \in {"tuple", "set"}
        <3>1. mode # "deepfreeze" /\ Top.kind = X.pair /\ Top.own[1] \notin Immortals
            BY <2>5, <2>7, <2>9 DEF Framed
        <3>2. Runs(f, n)
            BY <2>1, <2>2, <2>5, <2>6, <2>9, <3>1 DEF Runs
        <3> QED
            BY <1>1, <1>5, <2>1, <2>2, <2>5, <3>2
    <2> QED
        BY <2>1, <2>8, <2>9
<1>10. ASSUME NEW x \in Obj, NEW own, Became(Frame("release", x, own)), result' # Pending,
              n # 1 => result' = Exception, n = 1 => memo' = <<>>
       PROVE  StackInv'
    <2> DEFINE f == Frame("release", x, own)
    <2>1. f.of = x /\ f.kind = "release"
        BY DEF Frame
    <2>2. Became(f)
        BY <1>10
    <2> HIDE DEF f
    <2>3. Runs(f, n)
        BY <1>10, <2>1 DEF Runs
    <2> QED
        BY <1>5, <1>10, <2>1, <2>2, <2>3
<1>11. CASE ItemsGivenUp
    <2>1. /\ Became(Frame("release", Top.of, Top.own)) /\ result' = Exception
          /\ Top.kind \in {"tuple", "set", "traverse"}
        BY <1>11 DEF ItemsGivenUp, Items
    <2>2. n > 1
        BY <1>0, <1>1, <2>1, Above
    <2> QED
        BY <1>1, <1>10, <2>1, <2>2 DEF Exception, Pending
<1>12. CASE ReleaseImmortal \/ ReleaseOne \/ ReleaseLast
    <2>1. Top.kind = "release" /\ UNCHANGED <<memo, result>>
        BY <1>12 DEF ReleaseImmortal, ReleaseOne, ReleaseLast, Releases, Underneath
    <2>2. PICK own : Became(Frame("release", Top.of, own))
        BY <1>12 DEF ReleaseImmortal, ReleaseOne, ReleaseLast
    <2>3. /\ result' # Pending /\ (n > 1 => result' = Exception)
        BY <1>0, <1>1, <2>1, Above
    <2>4. n = 1 => memo' = <<>>
        BY <1>0, <1>1, <2>1, TopIs DEF StackInv, Finishing
    <2>5. n # 1 => n > 1
        BY <1>3
    <2> QED
        BY <1>1, <1>10, <2>2, <2>3, <2>4, <2>5
<1>13. CASE CallEnds
    <2>1. Top.kind = "call" /\ UNCHANGED result /\ memo' = <<>>
        BY <1>13 DEF CallEnds, Underneath
    <2>2. PICK own : Became(Frame("release", Root, own))
        BY <1>13 DEF CallEnds
    <2>3. result' # Pending /\ n = 1
        BY <1>0, <1>1, <2>1, Above
    <2> QED
        BY <1>10, <2>1, <2>2, <2>3, DeepCopyAssumption
<1> QED
    BY <1>7, <1>8, <1>9, <1>11, <1>12, <1>13

\* The steps in which the running frame calls another.
LEMMA StackCalls ==
    ASSUME TypeInv, StackInv, ItemStarts \/ ItemRefused
    PROVE  StackInv'
<1>1. /\ stack # <<>> /\ UNCHANGED <<graph, mode>> /\ Top.kind \in ItemKinds /\ Top.of \in Obj
    BY TopIs DEF ItemStarts, ItemRefused, Items, Underneath, ItemKinds
<1>2. GraphKept
    BY <1>1, SameGraphKept
<1>0. PICK n \in Nat : n = Len(stack) + 1
    BY <1>1, TopIs
<1>3. n \in Nat /\ n # 1 /\ Len(stack) \in Nat
    BY <1>0, <1>1, TopIs
<1>4. ASSUME NEW f, Pushed(f)
      PROVE  stack'[n] = f /\ n = Len(stack') /\ f \in FrameType
    <2>1. stack'[n] = f /\ n = Len(stack') /\ stack' \in Seq(FrameType)
        BY <1>0, <1>4 DEF Pushed
    <2>2. n \in 1 .. Len(stack')
        BY <1>0, <1>3, <2>1
    <2> QED
        BY <2>1, <2>2, ElementOfSeq
<1>5. CASE ItemStarts
    <2> DEFINE f == Visit(X.items[Len(Top.own)])
    <2>1. Pushed(f) /\ result' = Pending /\ Remain
        BY <1>5 DEF ItemStarts
    <2>2. f.kind = "visit" /\ f.own = <<>>
        BY DEF Visit, Frame
    <2> HIDE DEF f
    <2>3. stack'[n] = f /\ n = Len(stack') /\ f \in FrameType /\ f.of \in Obj
        BY <1>4, <2>1 DEF FrameType
    <2>4. Runs(f, n)
        BY <1>3, <2>1, <2>2 DEF Runs
    <2>5. Framed(n)'
        BY <1>1, <1>2, <1>3, <2>3, <2>4, NextFramed
    <2>6. Len(Top.own) <= Len(X.items)
        BY <2>1 DEF Remain
    <2> QED
        BY <1>1, <1>2, <2>1, <2>3, <2>5, <2>6, StackPushed
<1>6. CASE ItemRefused
    <2> DEFINE f == Frame("release", Top.of, <<result>>)
    <2>1. Pushed(f) /\ result' = Exception /\ result > 0
        BY <1>6 DEF ItemRefused
    <2>2. f.kind = "release"
        BY DEF Frame
    <2> HIDE DEF f
    <2>3. stack'[n] = f /\ n = Len(stack') /\ f \in FrameType /\ f.of \in Obj
        BY <1>4, <2>1 DEF FrameType
    <2>4. result' # Pending /\ Len(Top.own) <= Len(X.items)
        BY <1>1, <2>1, TopLens DEF Exception, Pending
    <2>5. Runs(f, n)
        BY <2>1, <2>2, <2>4 DEF Runs
    <2>6. Framed(n)'
        BY <1>1, <1>2, <1>3, <2>3, <2>5, NextFramed
    <2> QED
        BY <1>1, <1>2, <2>3, <2>1, <2>4, <2>6, StackPushed
<1> QED
    BY <1>5, <1>6

\* Every step keeps the stack as it should be.
LEMMA StackStep ==
    ASSUME TypeInv, StackInv, [Next]_vars
    PROVE  StackInv'
<1>1. CASE Steps
    BY <1>1, StackReturns, StackChanges, StackCalls DEF Steps
<1>2. CASE UNCHANGED vars
    BY <1>2 DEF vars, StackInv, Framed, Finishing, Immortals, ImmortalObjects
<1> QED
    BY <1>1, <1>2, StepsAre

(***************************************************************************)
(* The initial states.                                                     *)
(***************************************************************************)

\* The originals are typed, and those without items are neither tuples nor sets.
LEMMA NodesTyped ==
    ASSUME NEW n \in Nodes
    PROVE  /\ n \in OriginalType
           /\ n.pair \notin {"tuple", "set"} => n.items = <<>>
           /\ Len(n.items) <= ItemsMax
<1>1. ASSUME NEW s \in ItemsOf(ItemsMax)
      PROVE  s \in Seq(Obj) /\ Len(s) <= ItemsMax
    <2>1. PICK m \in 0 .. ItemsMax : s \in [1 .. m -> Obj]
        BY DEF ItemsOf
    <2>2. m \in Nat /\ m <= ItemsMax
        BY DeepCopyAssumption
    <2>3. s \in Seq(Obj)
        BY <2>1, <2>2, SeqDef
    <2>4. Len(s) = m
        BY <2>1, <2>2, <2>3, LenProperties
    <2> QED
        BY <2>2, <2>3, <2>4
<1>2. ASSUME NEW pair \in {"tuple", "set"}, NEW b \in BOOLEAN, NEW s \in Seq(Obj),
             n = Node(pair, b, s)
      PROVE  n \in OriginalType /\ n.pair = pair /\ n.items = s
    BY <1>2 DEF Node, OriginalType, Pairs
<1>3. CASE n \in Leaf
    <2>1. /\ n.pair \notin {"tuple", "set"} /\ n.mutable \in BOOLEAN
          /\ n = [pair |-> n.pair, mutable |-> n.mutable, items |-> <<>>]
        BY <1>3, DeepCopyAssumption
    <2>2. <<>> \in Seq(Obj) /\ Len(<<>>) = 0
        BY EmptySeq
    <2>3. n.pair \in Pairs
        BY <1>3 DEF Pairs
    <2>4. n.items = <<>>
        BY <2>1
    <2>5. [pair |-> n.pair, mutable |-> n.mutable, items |-> <<>>] \in OriginalType
        BY <2>1, <2>2, <2>3 DEF OriginalType
    <2>6. n \in OriginalType
        BY <2>1, <2>5
    <2> QED
        BY <2>2, <2>4, <2>6, DeepCopyAssumption
<1>4. CASE \E b \in BOOLEAN, s \in ItemsOf(ItemsMax) : n = Node("tuple", b, s)
    BY <1>1, <1>2, <1>4
<1>5. CASE \E b \in BOOLEAN, s \in ItemsOf(ItemsMax) : n = Node("set", b, s)
    BY <1>1, <1>2, <1>5
<1> QED
    BY <1>3, <1>4, <1>5 DEF Nodes

\* The types hold initially.
LEMMA TypeInit ==
    ASSUME Init
    PROVE  TypeInv
<1>1. graph \in [Obj -> Nodes]
    BY DEF Init, Graphs
<1>2. graph \in [Obj -> OriginalType]
    BY <1>1, NodesTyped
<1>3. mode \in Modes
    BY DEF Init, Modes
<1>4. heap = ImmortalObjects /\ DOMAIN heap = 1 .. 4
    BY ImmortalsAre DEF Init, Immortals
<1>5. heap \in [1 .. 4 -> CopyType]
    BY <1>4, ImmortalsAre DEF ImmortalObjects
<1>6. heap \in Seq(CopyType) /\ Len(heap) = 4
    <2>1. heap \in Seq(CopyType)
        <3>1. 4 \in Nat
            OBVIOUS
        <3> QED
            BY ONLY <1>5, <3>1, SeqDef
    <2>2. Len(heap) \in Nat /\ 1 .. Len(heap) = 1 .. 4
        BY <1>4, <2>1, LenProperties
    <2>3. ASSUME NEW n \in Nat, 1 .. n = 1 .. 4
          PROVE  n = 4
        <3>1. 4 \in 1 .. 4
            OBVIOUS
        <3>2. 4 \in 1 .. n
            BY ONLY <2>3, <3>1, Zenon
        <3>3. n \in 1 .. n
            BY <3>2
        <3>4. n \in 1 .. 4
            BY ONLY <2>3, <3>3, Zenon
        <3> QED
            BY <3>2, <3>4
    <2>4. Len(heap) = 4
        BY ONLY <2>2, <2>3
    <2> QED
        BY <2>1, <2>4
<1>7. memo = <<>> /\ DOMAIN memo = {} /\ IsFiniteSet({})
    BY FS_EmptySet DEF Init
<1>8. memo \in [DOMAIN memo -> DOMAIN heap] /\ DOMAIN memo \subseteq Obj
    BY <1>7
<1>9. stack = <<Frame("call", Root, <<>>), Visit(Root)>>
    BY DEF Init
<1>10. /\ Frame("call", Root, <<>>) \in FrameType /\ Frame("call", Root, <<>>).own = <<>>
       /\ Visit(Root) \in FrameType /\ Visit(Root).own = <<>>
    <2>1. "call" \in FrameKinds /\ "visit" \in FrameKinds /\ <<>> \in Seq(Nat) /\ Root \in Obj
        BY DeepCopyAssumption, EmptySeq DEF FrameKinds
    <2>2. ASSUME NEW k \in FrameKinds
          PROVE  Frame(k, Root, <<>>) \in FrameType /\ Frame(k, Root, <<>>).own = <<>>
        <3>1. \A own \in Seq(Nat) :
                Frame(k, Root, own) \in FrameType /\ Frame(k, Root, own).own = own
            BY <2>1, FrameIs
        <3> QED
            BY ONLY <2>1, <3>1, Zenon
    <2> QED
        BY <2>1, <2>2 DEF Visit
<1>11. stack \in Seq(FrameType)
    BY <1>9, <1>10
<1>12. Numbered(heap, stack)
    <2>1. \A j \in DOMAIN heap : heap[j].items = <<>>
        BY <1>4, ImmortalsAre
    <2>2. \A p \in DOMAIN stack : stack[p].own = <<>>
        BY <1>9, <1>10
    <2> QED
        BY <2>1, <2>2 DEF Numbered
<1>13. result = Pending
    BY DEF Init
<1> QED
    BY <1>2, <1>3, <1>4, <1>6, <1>7, <1>8, <1>11, <1>12, <1>13 DEF TypeInv

\* The stack is as it should be initially.
LEMMA StackInit ==
    ASSUME Init
    PROVE  StackInv
<1>1. stack = <<Frame("call", Root, <<>>), Visit(Root)>> /\ result = Pending
    BY DEF Init
<1>2. /\ DOMAIN stack = 1 .. 2 /\ Len(stack) = 2 /\ stack # <<>>
      /\ stack[1].kind = "call" /\ stack[1].own = <<>>
      /\ stack[2].kind = "visit" /\ stack[2].own = <<>>
    BY <1>1 DEF Visit, Frame
<1>3. Framed(1) /\ Framed(2)
    BY <1>1, <1>2 DEF Framed, ItemKinds
<1>4. \A p \in DOMAIN stack : Framed(p)
    <2>1. \A p \in 1 .. 2 : p = 1 \/ p = 2
        OBVIOUS
    <2> QED
        BY <1>2, <1>3, <2>1
<1> QED
    BY <1>2, <1>4 DEF StackInv, Finishing

(***************************************************************************)
(* What is within what.                                                    *)
(***************************************************************************)

\* The items of what is within are within.
LEMMA WithinClosed ==
    ASSUME NEW g, NEW S \in SUBSET DOMAIN g,
           \A x \in DOMAIN g : Range(g[x].items) \subseteq DOMAIN g
    PROVE  /\ S \subseteq Within(g, S) /\ Within(g, S) \subseteq DOMAIN g
           /\ Closed(g, Within(g, S))
<1>1. S \subseteq Within(g, S) /\ Within(g, S) \subseteq DOMAIN g
    BY DEF Within
<1>2. ASSUME NEW x \in Within(g, S), NEW y \in Range(g[x].items)
      PROVE  y \in Within(g, S)
    <2>1. x \in DOMAIN g /\ y \in DOMAIN g
        BY <1>1, <1>2
    <2>2. ASSUME NEW T \in SUBSET DOMAIN g, S \subseteq T, Closed(g, T)
          PROVE  y \in T
        <3>1. x \in T
            BY <2>2 DEF Within
        <3> QED
            BY <2>2, <3>1, <1>2 DEF Closed
    <2> QED
        BY <2>1, <2>2 DEF Within
<1> QED
    BY <1>1, <1>2 DEF Closed

\* It is the least such set.
LEMMA WithinLeast ==
    ASSUME NEW g, NEW S, NEW T \in SUBSET DOMAIN g, S \subseteq T, Closed(g, T)
    PROVE  Within(g, S) \subseteq T
BY DEF Within

\* What is within something within is within.
LEMMA WithinWithin ==
    ASSUME NEW g, NEW S \in SUBSET DOMAIN g, NEW x \in Within(g, S),
           \A y \in DOMAIN g : Range(g[y].items) \subseteq DOMAIN g
    PROVE  Within(g, {x}) \subseteq Within(g, S)
<1>1. Within(g, S) \subseteq DOMAIN g /\ Closed(g, Within(g, S))
    BY WithinClosed
<1>2. {x} \subseteq Within(g, S)
    OBVIOUS
<1> QED
    BY <1>1, <1>2, WithinLeast

\* The items of the originals are originals.
LEMMA ItemsAre ==
    ASSUME TypeInv
    PROVE  /\ DOMAIN graph = Obj
           /\ \A x \in DOMAIN graph : Range(graph[x].items) \subseteq DOMAIN graph
           /\ \A x \in Obj : /\ graph[x].items \in Seq(Obj) /\ Len(graph[x].items) \in Nat
                             /\ DOMAIN graph[x].items = 1 .. Len(graph[x].items)
                             /\ \A k \in DOMAIN graph[x].items :
                                    /\ graph[x].items[k] \in Range(graph[x].items)
                                    /\ graph[x].items[k] \in Obj
<1>1. graph \in [Obj -> OriginalType]
    BY DEF TypeInv
<1>2. \A x \in Obj : graph[x].items \in Seq(Obj)
    BY <1>1 DEF OriginalType
<1>3. ASSUME NEW x \in Obj
      PROVE  /\ Len(graph[x].items) \in Nat
             /\ DOMAIN graph[x].items = 1 .. Len(graph[x].items)
             /\ \A k \in DOMAIN graph[x].items : graph[x].items[k] \in Obj
    BY <1>2, LenProperties, ElementOfSeq
<1> QED
    BY <1>1, <1>2, <1>3 DEF Range

\* A set is not within one of its keys.
LEMMA SetNotWithin ==
    ASSUME TypeInv, graph \in Graphs, NEW x \in Obj, graph[x].pair = "set",
           NEW k \in DOMAIN graph[x].items
    PROVE  x \notin Within(graph, {graph[x].items[k]})
<1> DEFINE y == graph[x].items[k]
           R == Range(graph[x].items)
<1>1. /\ DOMAIN graph = Obj /\ \A z \in DOMAIN graph : Range(graph[z].items) \subseteq DOMAIN graph
      /\ y \in R /\ R \subseteq Obj
    BY ItemsAre
<1>2. Hashable(graph, y)
    BY DEF Graphs
<1>3. SUFFICES ASSUME x \in Within(graph, {y})
               PROVE  FALSE
    OBVIOUS
<1>4. x \notin Within(graph, R)
    BY <1>2, <1>3 DEF Hashable
<1> HIDE DEF y, R
<1>5. y \in Within(graph, R)
    BY <1>1, WithinClosed
<1>6. Within(graph, {y}) \subseteq Within(graph, R)
    BY <1>1, <1>5, WithinWithin
<1> QED
    BY <1>3, <1>4, <1>6

(***************************************************************************)
(* No object is copied while its copy is under way.  The frames are linked *)
(* by the items they have come to, and a set is not within its own keys.   *)
(***************************************************************************)
Current(p) == graph[stack[p].of].items[Len(stack[p].own)]

\* What a frame above another copies or visits is within the item that the
\* lower one has come to.
Linked(p, q) ==
    stack[p].kind \in ItemKinds /\ stack[q].kind \in ItemKinds \cup {"visit"} =>
        stack[q].of \in Within(graph, {Current(p)})

\* A tuple is in the memo while it is copied, and what is traversed always is; a
\* set that is copied is not.
Noted(p) ==
    /\ stack[p].kind \in {"tuple", "traverse"} => stack[p].of \in DOMAIN memo
    /\ stack[p].kind = "set" => stack[p].of \notin DOMAIN memo

Distinct(p, q) ==
    /\ {stack[p].kind, stack[q].kind} \subseteq {"tuple", "set"}
    /\ stack[p].of = stack[q].of
    => p = q

ChainInv ==
    /\ mode # "deepfreeze" =>
          graph \in Graphs /\ \A p, q \in DOMAIN stack : p < q => Linked(p, q)
    /\ \A p \in DOMAIN stack : Noted(p)
    /\ \A p, q \in DOMAIN stack : Distinct(p, q)

\* The links of frames that stay.
LEMMA LinkedKept ==
    ASSUME NEW p, NEW q, stack'[p].of = stack[p].of, stack'[p].kind = stack[p].kind,
           stack'[p].own = stack[p].own, stack'[q].of = stack[q].of,
           stack'[q].kind = stack[q].kind,
           UNCHANGED graph, Linked(p, q)
    PROVE  Linked(p, q)'
BY DEF Linked, Current, Within, Closed, ItemKinds

\* The frame below runs.
LEMMA ChainPopped ==
    ASSUME TypeInv, ChainInv, stack # <<>>, UNCHANGED mode,
           mode # "deepfreeze" => UNCHANGED graph, Popped,
           DOMAIN memo \subseteq DOMAIN memo',
           \A p \in 1 .. Len(stack) - 1 :
                stack[p].kind = "set" => stack[p].of \notin DOMAIN memo'
    PROVE  ChainInv'
<1>1. /\ Len(stack) \in Nat \ {0} /\ Len(stack') = Len(stack) - 1 /\ stack' \in Seq(FrameType)
      /\ DOMAIN stack = 1 .. Len(stack)
      /\ \A p \in 1 .. Len(stack) - 1 : stack'[p] = stack[p]
    BY TopIs DEF Popped
<1>2. DOMAIN stack' = 1 .. Len(stack) - 1
    BY <1>1, LenProperties
<1>3. \A p \in DOMAIN stack' : p \in DOMAIN stack /\ stack'[p] = stack[p]
    BY <1>1, <1>2
<1>4. ASSUME NEW p \in DOMAIN stack'
      PROVE  Noted(p)'
    BY <1>2, <1>3 DEF Noted, ChainInv
<1>5. ASSUME NEW p \in DOMAIN stack', NEW q \in DOMAIN stack'
      PROVE  Distinct(p, q)'
    BY <1>3 DEF Distinct, ChainInv
<1>6. ASSUME mode' # "deepfreeze"
      PROVE  graph' \in Graphs /\ \A p, q \in DOMAIN stack' : p < q => Linked(p, q)'
    BY <1>3, <1>6, LinkedKept DEF ChainInv
<1>7. Graphs' = Graphs
    BY DEF Graphs
<1> QED
    BY <1>4, <1>5, <1>6, <1>7 DEF ChainInv

\* The running frame becomes another.
LEMMA ChainBecame ==
    ASSUME TypeInv, ChainInv, stack # <<>>, UNCHANGED mode,
           mode # "deepfreeze" => UNCHANGED graph, NEW f, Became(f),
           f.kind \in ItemKinds \cup {"visit"} =>
                Top.kind \in ItemKinds \cup {"visit"} /\ f.of = Top.of,
           DOMAIN memo \subseteq DOMAIN memo',
           \A p \in 1 .. Len(stack) - 1 :
                stack[p].kind = "set" => stack[p].of \notin DOMAIN memo',
           f.kind \in {"tuple", "traverse"} => f.of \in DOMAIN memo',
           f.kind = "set" => f.of \notin DOMAIN memo',
           f.kind \in {"tuple", "set"} =>
                \A p \in 1 .. Len(stack) - 1 :
                    stack[p].kind \in {"tuple", "set"} => stack[p].of # f.of
    PROVE  ChainInv'
<1>0. PICK n \in Nat \ {0} : n = Len(stack)
    BY TopIs
<1>1. /\ Len(stack') = n /\ stack' \in Seq(FrameType)
      /\ DOMAIN stack = 1 .. n /\ stack[n] = Top
      /\ stack'[n] = f
      /\ \A p \in 1 .. n - 1 : stack'[p] = stack[p]
    BY <1>0, TopIs DEF Became
<1>2. DOMAIN stack' = 1 .. n
    BY <1>1, LenProperties
<1>3. \A p \in 1 .. n : p = n \/ p \in 1 .. n - 1
    BY <1>0
<1>4. ASSUME NEW p \in DOMAIN stack'
      PROVE  Noted(p)'
    BY <1>0, <1>1, <1>2, <1>3 DEF Noted, ChainInv
<1>5. ASSUME NEW p \in DOMAIN stack', NEW q \in DOMAIN stack'
      PROVE  Distinct(p, q)'
    <2>1. CASE p \in 1 .. n - 1 /\ q \in 1 .. n - 1
        BY <1>1, <1>2, <2>1 DEF Distinct, ChainInv
    <2>2. CASE p = n /\ q \in 1 .. n - 1
        BY <1>0, <1>1, <2>2 DEF Distinct
    <2>3. CASE p \in 1 .. n - 1 /\ q = n
        BY <1>0, <1>1, <2>3 DEF Distinct
    <2>4. CASE p = n /\ q = n
        BY <2>4 DEF Distinct
    <2> QED
        BY <1>2, <1>3, <2>1, <2>2, <2>3, <2>4
<1>6. ASSUME mode' # "deepfreeze", NEW p \in DOMAIN stack', NEW q \in DOMAIN stack', p < q
      PROVE  Linked(p, q)'
    <2>1. UNCHANGED graph /\ Linked(p, q)
        BY <1>1, <1>2, <1>6 DEF ChainInv
    <2>2. p \in 1 .. n - 1 /\ stack'[p] = stack[p]
        BY <1>0, <1>1, <1>2, <1>6
    <2>3. CASE q \in 1 .. n - 1
        BY <1>1, <2>1, <2>2, <2>3, LinkedKept
    <2>4. CASE q = n
        <3>1. CASE f.kind \in ItemKinds \cup {"visit"}
            BY <1>1, <2>1, <2>2, <2>4, <3>1 DEF Linked, Current, Within, Closed, ItemKinds
        <3>2. CASE f.kind \notin ItemKinds \cup {"visit"}
            BY <1>1, <2>4, <3>2 DEF Linked, ItemKinds
        <3> QED
            BY <3>1, <3>2
    <2> QED
        BY <1>2, <1>3, <2>3, <2>4
<1>7. Graphs' = Graphs
    BY DEF Graphs
<1> QED
    BY <1>4, <1>5, <1>6, <1>7 DEF ChainInv

\* The running frame calls another.
LEMMA ChainPushed ==
    ASSUME TypeInv, ChainInv, stack # <<>>, UNCHANGED <<graph, mode>>,
           NEW f, Pushed(f), Top.kind \in ItemKinds, Len(Top.own) \in DOMAIN X.items,
           \/ f.kind = "release"
           \/ f.kind = "visit" /\ f.of = X.items[Len(Top.own)],
           DOMAIN memo' = DOMAIN memo
    PROVE  ChainInv'
<1>0. PICK n \in Nat \ {0} : n = Len(stack)
    BY TopIs
<1>1. /\ Len(stack') = n + 1 /\ stack' \in Seq(FrameType)
      /\ DOMAIN stack = 1 .. n /\ stack[n] = Top /\ X = graph[Top.of] /\ Top.of \in Obj
      /\ stack'[n + 1] = f
      /\ \A p \in 1 .. n : stack'[p] = stack[p]
    BY <1>0, TopIs DEF Pushed
<1>2. DOMAIN stack' = 1 .. n + 1
    BY <1>1, LenProperties
<1>3. \A p \in 1 .. n + 1 : p = n + 1 \/ p \in 1 .. n
    BY <1>0
<1>4. ASSUME NEW p \in DOMAIN stack'
      PROVE  Noted(p)'
    <2>1. CASE p \in 1 .. n
        BY <1>1, <2>1 DEF Noted, ChainInv
    <2>2. CASE p = n + 1
        BY <1>1, <2>2 DEF Noted
    <2> QED
        BY <1>2, <1>3, <2>1, <2>2
<1>5. ASSUME NEW p \in DOMAIN stack', NEW q \in DOMAIN stack'
      PROVE  Distinct(p, q)'
    <2>1. CASE p \in 1 .. n /\ q \in 1 .. n
        BY <1>1, <2>1 DEF Distinct, ChainInv
    <2>2. CASE p = n + 1
        BY <1>1, <2>2 DEF Distinct
    <2>3. CASE q = n + 1
        BY <1>1, <2>3 DEF Distinct
    <2> QED
        BY <1>2, <1>3, <2>1, <2>2, <2>3
<1>6. ASSUME mode' # "deepfreeze", NEW p \in DOMAIN stack', NEW q \in DOMAIN stack', p < q
      PROVE  Linked(p, q)'
    <2>1. p \in 1 .. n /\ stack'[p] = stack[p]
        BY <1>0, <1>1, <1>2, <1>6
    <2>2. CASE q \in 1 .. n
        <3>1. Linked(p, q)
            BY <1>1, <1>6, <2>1, <2>2 DEF ChainInv
        <3> QED
            BY <1>1, <2>1, <2>2, <3>1, LinkedKept
    <2>3. CASE q = n + 1
        <3>1. CASE f.kind = "release"
            BY <1>1, <2>3, <3>1 DEF Linked, ItemKinds
        <3>2. CASE f.kind = "visit" /\ f.of = X.items[Len(Top.own)]
            <4> DEFINE S == {Current(p)}
            <4>1. f.of \in Obj /\ f.of \in Range(X.items)
                BY <1>1, <3>2, ItemsAre
            <4>2. CASE p = n
                <5>1. Current(p) = f.of
                    BY <1>1, <3>2, <4>2 DEF Current
                <5>2. f.of \in Within(graph, {f.of})
                    BY <4>1, ItemsAre, WithinClosed
                <5>3. f.of \in Within(graph, S)
                    BY <5>1, <5>2
                <5> HIDE DEF S
                <5>4. stack'[q].of = f.of
                    BY <1>1, <2>3
                <5> QED
                    BY <2>1, <5>3, <5>4 DEF Linked, Current, Within, Closed, S
            <4>3. CASE p # n
                <5>1. p < n /\ n \in DOMAIN stack
                    BY <1>0, <1>1, <2>1, <4>3
                <5>2. Linked(p, n)
                    BY <1>1, <1>6, <2>1, <5>1 DEF ChainInv
                <5>3. CASE stack[p].kind \notin ItemKinds
                    BY <2>1, <5>3 DEF Linked, ItemKinds
                <5>4. CASE stack[p].kind \in ItemKinds
                    <6>1. Top.of \in Within(graph, S)
                        BY <1>1, <5>2, <5>4 DEF Linked
                    <6>2. f.of \in Within(graph, S)
                        BY <1>1, <4>1, <6>1, ItemsAre DEF Within, Closed
                    <6>3. stack'[q].of = f.of
                        BY <1>1, <2>3
                    <6> QED
                        BY <2>1, <6>2, <6>3 DEF Linked, Current, Within, Closed
                <5> QED
                    BY <5>3, <5>4
            <4> QED
                BY <4>2, <4>3
        <3> QED
            BY <3>1, <3>2
    <2> QED
        BY <1>2, <1>3, <2>2, <2>3
<1>7. Graphs' = Graphs
    BY DEF Graphs
<1> QED
    BY <1>4, <1>5, <1>6, <1>7 DEF ChainInv

\* The links hold initially.
LEMMA ChainInit ==
    ASSUME Init
    PROVE  ChainInv
<1>1. stack = <<Frame("call", Root, <<>>), Visit(Root)>> /\ graph \in Graphs
    BY DEF Init
<1>2. /\ DOMAIN stack = 1 .. 2 /\ stack[1].kind = "call" /\ stack[2].kind = "visit"
    BY <1>1 DEF Visit, Frame
<1>3. \A p \in DOMAIN stack : p = 1 \/ p = 2
    BY <1>2
<1>4. \A p, q \in DOMAIN stack : p < q => Linked(p, q)
    <2>1. \A p \in DOMAIN stack : stack[p].kind \notin ItemKinds
        BY <1>2, <1>3 DEF ItemKinds
    <2> QED
        BY <2>1 DEF Linked
<1>5. (\A p \in DOMAIN stack : Noted(p)) /\ \A p, q \in DOMAIN stack : Distinct(p, q)
    BY <1>2, <1>3 DEF Noted, Distinct
<1> QED
    BY <1>1, <1>4, <1>5 DEF ChainInv

\* A frame that copies is of an object of its kind.
LEMMA CopyFrames ==
    ASSUME TypeInv, StackInv, NEW p \in DOMAIN stack, stack[p].kind \in {"tuple", "set"}
    PROVE  /\ stack[p].of \in Obj /\ graph[stack[p].of].pair = stack[p].kind
           /\ mode # "deepfreeze"
<1>1. Framed(p)
    BY DEF StackInv
<1>2. stack[p] \in FrameType
    BY LenProperties, ElementOfSeq DEF TypeInv
<1> QED
    BY <1>1, <1>2 DEF Framed, FrameType

\* Every step keeps the links.
LEMMA ChainStep ==
    ASSUME TypeInv, StackInv, ChainInv, [Next]_vars
    PROVE  ChainInv'
<1>0. ASSUME stack # <<>>
      PROVE  /\ DOMAIN stack = 1 .. Len(stack) /\ Len(stack) \in Nat \ {0}
             /\ Top = stack[Len(stack)] /\ Len(stack) \in DOMAIN stack
             /\ X = graph[Top.of] /\ Top.of \in Obj /\ Top.own \in Seq(Nat)
             /\ \A p \in 1 .. Len(stack) - 1 : p \in DOMAIN stack /\ p < Len(stack)
    BY <1>0, TopIs
<1>1. \A p \in DOMAIN stack : stack[p].kind = "set" => stack[p].of \notin DOMAIN memo
    BY DEF ChainInv, Noted
<1>2. CASE \/ VisitRaises \/ VisitKnown \/ VisitImmortal \/ FreezeKnown \/ TupleEnds
           \/ TraverseEnds \/ ReleaseEnds
    <2>1. stack # <<>> /\ Popped /\ UNCHANGED <<graph, mode, memo>>
        BY <1>2 DEF VisitRaises, VisitKnown, VisitImmortal, FreezeKnown, TupleEnds,
           TraverseEnds, ReleaseEnds, Visits, Items, Underneath, Unmoved
    <2> QED
        BY <1>0, <1>1, <2>1, ChainPopped
<1>3. CASE VisitMakes \/ TupleRaises
    <2>1. /\ stack # <<>> /\ Popped /\ UNCHANGED <<graph, mode>>
          /\ memo' = Memoized(Top.of, Fresh) /\ X.pair # "set"
        BY <1>3 DEF VisitMakes, TupleRaises, Visits, Underneath
    <2>2. DOMAIN memo' = DOMAIN memo \cup {Top.of}
        BY <2>1, MemoizedIs
    <2>3. ASSUME NEW p \in 1 .. Len(stack) - 1, stack[p].kind = "set"
          PROVE  stack[p].of \notin DOMAIN memo'
        <3>1. p \in DOMAIN stack
            BY <1>0, <2>1
        <3>2. graph[stack[p].of].pair = "set"
            BY <2>3, <3>1, CopyFrames
        <3> QED
            BY <1>0, <1>1, <2>1, <2>2, <2>3, <3>1, <3>2
    <2> QED
        BY <2>1, <2>2, <2>3, ChainPopped
<1>4. CASE FreezeRaises \/ FreezeStarts
    <2>1. stack # <<>> /\ UNCHANGED mode /\ mode = "deepfreeze" /\ Top.kind = "visit"
          /\ memo' = Memoized(Top.of, None)
        BY <1>4 DEF FreezeRaises, FreezeStarts, Visits, Underneath
    <2>2. DOMAIN memo' = DOMAIN memo \cup {Top.of}
        BY <2>1, MemoizedIs
    <2>3. \A p \in 1 .. Len(stack) - 1 : stack[p].kind # "set"
        BY <1>0, <2>1, CopyFrames
    <2>4. CASE FreezeRaises
        <3>1. Popped
            BY <2>4 DEF FreezeRaises
        <3> QED
            BY <2>1, <2>2, <2>3, <3>1, ChainPopped
    <2>5. CASE FreezeStarts
        <3> DEFINE f == Frame("traverse", Top.of, <<None>>)
        <3>1. Became(f)
            BY <2>5 DEF FreezeStarts
        <3>2. f.kind = "traverse" /\ f.of = Top.of
            BY DEF Frame
        <3> HIDE DEF f
        <3> QED
            BY <2>1, <2>2, <2>3, <3>1, <3>2, ChainBecame
    <2> QED
        BY <1>4, <2>4, <2>5
<1>5. CASE TupleStarts
    <2>1. /\ stack # <<>> /\ UNCHANGED <<graph, mode>> /\ Top.kind = "visit"
          /\ memo' = Memoized(Top.of, Fresh) /\ X.pair = "tuple"
          /\ Top.of \notin DOMAIN memo
        BY <1>5 DEF TupleStarts, Visits, Underneath, New, Known
    <2>2. DOMAIN memo' = DOMAIN memo \cup {Top.of}
        BY <2>1, MemoizedIs
    <2>3. ASSUME NEW p \in 1 .. Len(stack) - 1, stack[p].kind \in {"tuple", "set"}
          PROVE  stack[p].of # Top.of
        <3>1. p \in DOMAIN stack
            BY <1>0, <2>1
        <3>2. graph[stack[p].of].pair = stack[p].kind /\ Noted(p)
            BY <2>3, <3>1, CopyFrames DEF ChainInv
        <3> QED
            BY <1>0, <2>1, <2>3, <3>2 DEF Noted
    <2>4. \A p \in 1 .. Len(stack) - 1 :
                stack[p].kind = "set" => stack[p].of \notin DOMAIN memo'
        BY <1>0, <1>1, <2>1, <2>2, <2>3
    <2> DEFINE f == Frame("tuple", Top.of, <<Fresh>>)
    <2>5. Became(f)
        BY <1>5 DEF TupleStarts
    <2>6. f.kind = "tuple" /\ f.of = Top.of
        BY DEF Frame
    <2> HIDE DEF f
    <2> QED
        BY <2>1, <2>2, <2>3, <2>4, <2>5, <2>6, ChainBecame
<1>6. CASE SetStarts
    <2>1. /\ stack # <<>> /\ UNCHANGED <<graph, mode, memo>> /\ Top.kind = "visit"
          /\ X.pair = "set" /\ Top.of \notin DOMAIN memo /\ mode # "deepfreeze"
        BY <1>6 DEF SetStarts, Visits, Underneath, New, Known
    <2>2. ASSUME NEW p \in 1 .. Len(stack) - 1, stack[p].kind \in {"tuple", "set"}
          PROVE  stack[p].of # Top.of
        <3>1. p \in DOMAIN stack /\ p < Len(stack) /\ Framed(p)
            BY <1>0, <2>1 DEF StackInv
        <3>2. graph[stack[p].of].pair = stack[p].kind
            BY <2>2, <3>1, CopyFrames
        <3>3. SUFFICES ASSUME stack[p].of = Top.of
                       PROVE  FALSE
            OBVIOUS
        <3>4. /\ Linked(p, Len(stack)) /\ graph \in Graphs
            BY <1>0, <2>1, <3>1 DEF ChainInv
        <3>5. Top.of \in Within(graph, {Current(p)})
            BY <1>0, <2>1, <2>2, <3>4 DEF Linked, ItemKinds
        <3>6. Len(stack[p].own) \in 1 .. Len(X.items) + 1 /\ Len(stack[p].own) <= Len(X.items)
            BY <1>0, <2>1, <2>2, <3>1, <3>3 DEF Framed, ItemKinds
        <3>7. Len(stack[p].own) \in DOMAIN X.items
            BY <1>0, <2>1, <3>6, ItemsAre
        <3> QED
            BY <1>0, <2>1, <3>3, <3>4, <3>5, <3>7, SetNotWithin DEF Current
    <2> DEFINE f == Frame("set", Top.of, <<Fresh>>)
    <2>3. Became(f)
        BY <1>6 DEF SetStarts
    <2>4. f.kind = "set" /\ f.of = Top.of
        BY DEF Frame
    <2> HIDE DEF f
    <2>5. \A p \in 1 .. Len(stack) - 1 :
                stack[p].kind = "set" => stack[p].of \notin DOMAIN memo'
        BY <1>0, <1>1, <2>1
    <2> QED
        BY <2>1, <2>2, <2>3, <2>4, <2>5, ChainBecame
<1>7. CASE ItemEnds
    <2>1. /\ stack # <<>> /\ UNCHANGED <<graph, mode, memo>>
          /\ Top.kind \in {"tuple", "set", "traverse"}
        BY <1>7 DEF ItemEnds, Items, Underneath, Unmoved
    <2> DEFINE f == Frame(Top.kind, Top.of, Append(Top.own, result))
    <2>2. Became(f)
        BY <1>7 DEF ItemEnds
    <2>3. f.kind = Top.kind /\ f.of = Top.of
        BY DEF Frame
    <2> HIDE DEF f
    <2>4. Noted(Len(stack))
        BY <1>0, <2>1 DEF ChainInv
    <2>5. \A p \in 1 .. Len(stack) - 1 :
                stack[p].kind = "set" => stack[p].of \notin DOMAIN memo'
        BY <1>0, <1>1, <2>1
    <2>6. f.kind \in {"tuple", "set"} =>
                \A p \in 1 .. Len(stack) - 1 :
                    stack[p].kind \in {"tuple", "set"} => stack[p].of # f.of
        <3>1. ASSUME NEW p \in 1 .. Len(stack) - 1
              PROVE  Distinct(p, Len(stack)) /\ p # Len(stack)
            <4>1. p \in DOMAIN stack /\ Len(stack) \in DOMAIN stack /\ p < Len(stack)
                BY <1>0, <2>1
            <4>2. p # Len(stack)
                BY ONLY <4>1
            <4> QED
                BY <4>1, <4>2 DEF ChainInv
        <3> QED
            BY <1>0, <2>1, <2>3, <3>1 DEF Distinct
    <2>7. /\ f.kind \in {"tuple", "traverse"} => f.of \in DOMAIN memo'
          /\ f.kind = "set" => f.of \notin DOMAIN memo'
        BY <1>0, <2>1, <2>3, <2>4 DEF Noted
    <2>8. Top.kind \in ItemKinds
        BY <2>1 DEF ItemKinds
    <2> QED
        BY <2>1, <2>2, <2>3, <2>5, <2>6, <2>7, <2>8, ChainBecame
<1>8. CASE ItemsGivenUp \/ ReleaseImmortal \/ ReleaseOne \/ ReleaseLast
    <2>1. stack # <<>> /\ UNCHANGED <<graph, mode, memo>>
        BY <1>8 DEF ItemsGivenUp, ReleaseImmortal, ReleaseOne, ReleaseLast, Items,
           Releases, Underneath, Unmoved
    <2>2. PICK own : Became(Frame("release", Top.of, own))
        BY <1>8 DEF ItemsGivenUp, ReleaseImmortal, ReleaseOne, ReleaseLast
    <2> DEFINE f == Frame("release", Top.of, own)
    <2>3. f.kind = "release" /\ Became(f)
        BY <2>2 DEF Frame
    <2> HIDE DEF f
    <2>4. \A p \in 1 .. Len(stack) - 1 :
                stack[p].kind = "set" => stack[p].of \notin DOMAIN memo'
        BY <1>0, <1>1, <2>1
    <2>5. f.kind \notin ItemKinds \cup {"visit"}
        BY <2>3 DEF ItemKinds
    <2> QED
        BY <2>1, <2>3, <2>4, <2>5, ChainBecame
<1>9. CASE ItemStarts \/ ItemRefused
    <2>1. /\ stack # <<>> /\ UNCHANGED <<graph, mode, memo>> /\ Top.kind \in ItemKinds
        BY <1>9 DEF ItemStarts, ItemRefused, Items, Underneath, Unmoved, ItemKinds
    <2>2. Len(Top.own) <= Len(X.items)
        BY <1>9, <2>1, TopLens DEF ItemStarts, ItemRefused, Remain, Pending
    <2>3. Len(Top.own) \in DOMAIN X.items
        BY <1>0, <2>1, <2>2, TopLens, ItemsAre
    <2>4. CASE ItemStarts
        <3> DEFINE f == Visit(X.items[Len(Top.own)])
        <3>1. f.kind = "visit" /\ f.of = X.items[Len(Top.own)]
            BY DEF Visit, Frame
        <3>2. Pushed(f)
            BY <2>4 DEF ItemStarts
        <3> HIDE DEF f
        <3> QED
            BY <2>1, <2>3, <3>1, <3>2, ChainPushed
    <2>5. CASE ItemRefused
        <3> DEFINE f == Frame("release", Top.of, <<result>>)
        <3>1. f.kind = "release"
            BY DEF Frame
        <3>2. Pushed(f)
            BY <2>5 DEF ItemRefused
        <3> HIDE DEF f
        <3> QED
            BY <2>1, <2>3, <3>1, <3>2, ChainPushed
    <2> QED
        BY <1>9, <2>4, <2>5
<1>10. CASE SetEnds
    <2>1. /\ stack # <<>> /\ UNCHANGED <<graph, mode>> /\ Top.kind = "set" /\ Popped
          /\ memo' = Memoized(Top.of, Copy)
        BY <1>10 DEF SetEnds, Items, Underneath
    <2>2. DOMAIN memo' = DOMAIN memo \cup {Top.of}
        BY <2>1, MemoizedIs
    <2>3. ASSUME NEW p \in 1 .. Len(stack) - 1, stack[p].kind = "set"
          PROVE  stack[p].of \notin DOMAIN memo'
        <3>0. p < Len(stack) /\ Len(stack) \in Nat
            BY <1>0, <2>1
        <3>1. p \in DOMAIN stack /\ p # Len(stack) /\ Len(stack) \in DOMAIN stack
            <4>1. p # Len(stack)
                BY ONLY <3>0
            <4> QED
                BY <1>0, <2>1, <4>1
        <3>2. Distinct(p, Len(stack))
            BY <3>1 DEF ChainInv
        <3>3. stack[p].of # Top.of
            BY <1>0, <2>1, <2>3, <3>1, <3>2 DEF Distinct
        <3> QED
            BY <1>1, <2>2, <2>3, <3>1, <3>3
    <2> QED
        BY <2>1, <2>2, <2>3, ChainPopped
<1>11. CASE CallEnds
    <2>1. /\ stack # <<>> /\ UNCHANGED <<graph, mode>> /\ Top.kind = "call" /\ memo' = <<>>
        BY <1>11 DEF CallEnds, Underneath
    <2>2. PICK own : Became(Frame("release", Root, own))
        BY <1>11 DEF CallEnds
    <2>3. Len(stack) = 1
        BY <2>1, Above
    <2>4. /\ stack'[1].kind = "release" /\ stack' \in Seq(FrameType) /\ Len(stack') = 1
        <3>1. Frame("release", Root, own).kind = "release"
            BY DEF Frame
        <3> QED
            BY <2>2, <2>3, <3>1 DEF Became
    <2>5. DOMAIN stack' = {1}
        BY <2>4, LenProperties
    <2>6. \A p \in DOMAIN stack' : Noted(p)'
        BY <2>4, <2>5 DEF Noted
    <2>7. \A p, q \in DOMAIN stack' : Distinct(p, q)' /\ ~(p < q)
        BY <2>5 DEF Distinct
    <2>8. mode' # "deepfreeze" => graph' \in Graphs'
        BY <2>1 DEF ChainInv, Graphs
    <2> QED
        BY <2>6, <2>7, <2>8 DEF ChainInv
<1>12. CASE UNCHANGED vars
    BY <1>12 DEF vars, ChainInv, Noted, Distinct, Linked, Current
<1> QED
    BY <1>2, <1>3, <1>4, <1>5, <1>6, <1>7, <1>8, <1>9, <1>10, <1>11, <1>12, StepsAre DEF Steps

(***************************************************************************)
(* What a frame waits for is what the frame above it is of.                *)
(***************************************************************************)
Awaited(p) == IF p = 1 THEN Root ELSE Current(p)
Wanted == Awaited(Len(stack))

CalledInv ==
    /\ Within(graph, {Root}) = Obj
    /\ result # Exception =>
          \A p \in DOMAIN stack : p + 1 \in DOMAIN stack => stack[p + 1].of = Awaited(p)

\* The frames are of objects, and own numbers.
LEMMA FramesAre ==
    ASSUME TypeInv
    PROVE  /\ DOMAIN stack = 1 .. Len(stack) /\ Len(stack) \in Nat
           /\ \A p \in DOMAIN stack : /\ stack[p] \in FrameType /\ stack[p].of \in Obj
                                       /\ stack[p].own \in Seq(Nat)
                                       /\ stack[p].kind \in FrameKinds
<1>1. DOMAIN stack = 1 .. Len(stack) /\ Len(stack) \in Nat
    BY LenProperties DEF TypeInv
<1>2. \A p \in DOMAIN stack : stack[p] \in FrameType
    BY <1>1, ElementOfSeq DEF TypeInv
<1> QED
    BY <1>1, <1>2 DEF FrameType

\* What no step changes.
LEMMA StepIs ==
    ASSUME TypeInv, StackInv, Steps
    PROVE  /\ stack # <<>> /\ UNCHANGED mode /\ GraphKept
           /\ mode # "deepfreeze" => UNCHANGED graph
<1>1. stack # <<>> /\ UNCHANGED mode
    BY DEF Steps, VisitRaises, VisitKnown, VisitImmortal, VisitMakes, TupleRaises,
       TupleStarts, SetStarts, FreezeKnown, FreezeRaises, FreezeStarts, ItemStarts,
       ItemEnds, ItemRefused, ItemsGivenUp, TupleEnds, SetEnds, TraverseEnds,
       ReleaseImmortal, ReleaseOne, ReleaseLast, ReleaseEnds, CallEnds,
       Visits, Items, Releases, Underneath
<1>2. CASE FreezeStarts
    BY <1>1, <1>2, TopIs, FreezeGraphKept DEF FreezeStarts
<1>3. CASE UNCHANGED graph
    BY <1>1, <1>3, SameGraphKept
<1> QED
    BY <1>1, <1>2, <1>3 DEF Steps, VisitRaises, VisitKnown, VisitImmortal, VisitMakes, TupleRaises,
       TupleStarts, SetStarts, FreezeKnown, FreezeRaises, FreezeStarts, ItemStarts,
       ItemEnds, ItemRefused, ItemsGivenUp, TupleEnds, SetEnds, TraverseEnds,
       ReleaseImmortal, ReleaseOne, ReleaseLast, ReleaseEnds, CallEnds,
       Visits, Items, Releases, Underneath, Unmoved

\* An exception is not forgotten.
LEMMA ExceptionKept ==
    ASSUME TypeInv, StackInv, Steps, result = Exception
    PROVE  result' = Exception
<1>1. stack # <<>> /\ Top.kind # "visit"
    BY StepIs, Above DEF Pending, Exception
<1> QED
    BY <1>1 DEF Steps, VisitRaises, VisitKnown, VisitImmortal, VisitMakes, TupleRaises,
       TupleStarts, SetStarts, FreezeKnown, FreezeRaises, FreezeStarts, ItemStarts,
       ItemEnds, ItemRefused, ItemsGivenUp, TupleEnds, SetEnds, TraverseEnds,
       ReleaseImmortal, ReleaseOne, ReleaseLast, ReleaseEnds, CallEnds,
       Visits, Items, Releases, Underneath, Unmoved, Pending,
       Exception

\* What is within depends on the items alone.
LEMMA WithinKept ==
    ASSUME TypeInv, GraphKept, NEW S
    PROVE  Within(graph', S) = Within(graph, S)
<1>1. DOMAIN graph = Obj /\ DOMAIN graph' = Obj
    BY DEF TypeInv, GraphKept
<1>2. \A x \in Obj : graph'[x].items = graph[x].items
    BY DEF GraphKept
<1>3. \A T \in SUBSET Obj : Closed(graph', T) <=> Closed(graph, T)
    BY <1>2 DEF Closed
<1> QED
    BY <1>1, <1>3 DEF Within

\* What the frames that stay wait for.
LEMMA AwaitedKept ==
    ASSUME TypeInv, GraphKept, NEW p \in DOMAIN stack, stack'[p].of = stack[p].of,
           stack'[p].own = stack[p].own
    PROVE  Awaited(p)' = Awaited(p)
<1>1. stack[p].of \in Obj
    BY FramesAre
<1>2. graph'[stack[p].of].items = graph[stack[p].of].items
    BY <1>1 DEF GraphKept
<1> QED
    BY <1>2 DEF Awaited, Current

\* Initially the call waits for the copy of Root.
LEMMA CalledInit ==
    ASSUME Init
    PROVE  CalledInv
<1>1. stack = <<Frame("call", Root, <<>>), Visit(Root)>> /\ Within(graph, {Root}) = Obj
    BY DEF Init, Graphs
<1>2. DOMAIN stack = 1 .. 2 /\ stack[2].of = Root
    BY <1>1 DEF Visit, Frame
<1>3. \A p \in 1 .. 2 : p + 1 \in 1 .. 2 => p = 1
    OBVIOUS
<1> QED
    BY <1>1, <1>2, <1>3 DEF CalledInv, Awaited

\* Every step keeps that.
LEMMA CalledStep ==
    ASSUME TypeInv, StackInv, CalledInv, [Next]_vars
    PROVE  CalledInv'
<1>1. CASE UNCHANGED vars
    BY <1>1 DEF vars, CalledInv, Awaited, Current
<1>2. CASE Steps
    <2>1. stack # <<>>
        BY <1>2, StepIs
    <2>2. GraphKept
        BY <1>2, StepIs
    <2>3. Within(graph, {Root})' = Obj
        BY <2>2, WithinKept DEF CalledInv
    <2>4. PICK n \in Nat \ {0} : n = Len(stack) /\ DOMAIN stack = 1 .. n /\ Top = stack[n]
        BY <2>1, TopIs
    <2>5. SUFFICES ASSUME result' # Exception, NEW p \in DOMAIN stack', p + 1 \in DOMAIN stack'
                   PROVE  stack'[p + 1].of = Awaited(p)'
        BY <2>3 DEF CalledInv
    <2>6. \A q \in DOMAIN stack : q + 1 \in DOMAIN stack => stack[q + 1].of = Awaited(q)
        BY <1>2, <2>5, ExceptionKept DEF CalledInv
    <2>7. CASE Popped
        <3>1. stack' \in Seq(FrameType) /\ Len(stack') = n - 1
            BY <2>4, <2>7 DEF Popped
        <3>2. DOMAIN stack' = 1 .. n - 1
            BY <2>4, <3>1, LenProperties
        <3>3. /\ p \in DOMAIN stack /\ stack'[p] = stack[p]
              /\ p + 1 \in DOMAIN stack /\ stack'[p + 1] = stack[p + 1]
            BY <2>4, <2>5, <2>7, <3>2 DEF Popped
        <3> QED
            BY <2>2, <2>6, <3>3, AwaitedKept
    <2>8. ASSUME NEW f, Became(f), f.of = Top.of \/ n = 1
          PROVE  stack'[p + 1].of = Awaited(p)'
        <3>1. stack' \in Seq(FrameType) /\ Len(stack') = n
            BY <2>4, <2>8 DEF Became
        <3>2. DOMAIN stack' = 1 .. n
            BY <2>4, <3>1, LenProperties
        <3>3. /\ p \in 1 .. n - 1 /\ p \in DOMAIN stack /\ stack'[p] = stack[p]
              /\ p + 1 \in DOMAIN stack /\ n # 1 /\ p + 1 \in 1 .. n
            BY <2>4, <2>5, <2>8, <3>2 DEF Became
        <3>4. stack'[p + 1].of = stack[p + 1].of
            <4>1. CASE p + 1 = n
                BY <2>4, <2>8, <3>3, <4>1 DEF Became
            <4>2. CASE p + 1 # n
                <5>1. p + 1 \in 1 .. n - 1
                    BY <3>3, <4>2
                <5> QED
                    BY <2>4, <2>8, <5>1 DEF Became
            <4> QED
                BY <4>1, <4>2
        <3> QED
            BY <2>2, <2>6, <3>3, <3>4, AwaitedKept
    <2>9. CASE ItemStarts
        <3> DEFINE f == Visit(X.items[Len(Top.own)])
        <3>1. f.of = X.items[Len(Top.own)]
            BY DEF Visit, Frame
        <3>2. Pushed(f)
            BY <2>9 DEF ItemStarts
        <3> HIDE DEF f
        <3>3. stack' \in Seq(FrameType) /\ Len(stack') = n + 1
            BY <2>4, <3>2 DEF Pushed
        <3>4. DOMAIN stack' = 1 .. n + 1
            BY <2>4, <3>3, LenProperties
        <3>5. p \in DOMAIN stack /\ stack'[p] = stack[p]
            BY <2>4, <2>5, <3>2, <3>4 DEF Pushed
        <3>6. CASE p = n
            <4>1. n > 1
                BY <2>4, <2>9, Above DEF ItemStarts, Items, Underneath
            <4>2. stack'[p + 1] = f
                BY <2>4, <3>2, <3>6 DEF Pushed
            <4>3. Awaited(p) = f.of
                BY <2>4, <3>1, <3>6, <4>1, TopIs, <2>1 DEF Awaited, Current
            <4> QED
                BY <2>2, <3>5, <4>2, <4>3, AwaitedKept
        <3>7. CASE p # n
            <4>1. p + 1 \in DOMAIN stack /\ stack'[p + 1] = stack[p + 1]
                BY <2>4, <3>2, <3>5, <3>7 DEF Pushed
            <4> QED
                BY <2>2, <2>6, <3>5, <4>1, AwaitedKept
        <3> QED
            BY <3>6, <3>7
    <2>10. CASE CallEnds
        <3>1. n = 1
            BY <2>4, <2>10, Above DEF CallEnds, Underneath
        <3> QED
            BY <2>8, <2>10, <3>1 DEF CallEnds
    <2>11. CASE TupleStarts \/ SetStarts \/ FreezeStarts \/ ItemEnds \/ ItemsGivenUp
                \/ ReleaseImmortal \/ ReleaseOne \/ ReleaseLast
        <3>1. \A k, x, own : Frame(k, x, own).of = x
            BY DEF Frame
        <3>2. \E k, own : Became(Frame(k, Top.of, own))
            BY <2>11 DEF TupleStarts, SetStarts, FreezeStarts, ItemEnds, ItemsGivenUp,
               ReleaseImmortal, ReleaseOne, ReleaseLast
        <3> QED
            BY <2>8, <3>1, <3>2
    <2>12. CASE ItemRefused
        BY <2>5, <2>12 DEF ItemRefused
    <2> QED
        BY <1>2, <2>7, <2>9, <2>10, <2>11, <2>12 DEF Steps, VisitRaises, VisitKnown,
           VisitImmortal, VisitMakes, TupleRaises, FreezeKnown, FreezeRaises, TupleEnds,
           SetEnds, TraverseEnds, ReleaseEnds
<1> QED
    BY <1>1, <1>2, StepsAre

\* What steps there are when the call itself runs, and when it is waiting.
LEMMA FinishingIs ==
    ASSUME TypeInv, StackInv, Steps
    PROVE  /\ Len(stack) > 1 => ~Finishing /\ ~Finishing'
           /\ Len(stack) = 1 => Finishing'
           /\ Len(stack) = 1 /\ ~CallEnds => Finishing
           /\ Len(stack) = 1 \/ Len(stack) > 1
<1>1. stack # <<>>
    BY StepIs
<1>2. PICK n \in Nat \ {0} : n = Len(stack) /\ DOMAIN stack = 1 .. n /\ Top = stack[n]
    BY <1>1, TopIs
<1>3. n = 1 \/ n > 1
    <2>1. ASSUME NEW m \in Nat \ {0}
          PROVE  m = 1 \/ m > 1
        OBVIOUS
    <2> QED
        BY <2>1
<1>4. ASSUME n > 1
      PROVE  ~Finishing /\ ~Finishing'
    <2>1. stack[1].kind = "call" /\ ~Finishing
        BY <1>1, <1>2, <1>4, Above
    <2>2. \/ Popped
          \/ \E f : Became(f)
          \/ \E f : Pushed(f)
        BY DEF Steps, VisitRaises, VisitKnown, VisitImmortal, VisitMakes, TupleRaises,
           TupleStarts, SetStarts, FreezeKnown, FreezeRaises, FreezeStarts, ItemStarts,
           ItemEnds, ItemRefused, ItemsGivenUp, TupleEnds, SetEnds, TraverseEnds,
           ReleaseImmortal, ReleaseOne, ReleaseLast, ReleaseEnds, CallEnds
    <2>3. stack' \in Seq(FrameType) /\ Len(stack') >= 1 /\ stack'[1] = stack[1]
        BY <1>2, <1>4, <2>2 DEF Popped, Became, Pushed
    <2>4. stack' # <<>>
        BY <2>3, EmptySeq
    <2> QED
        BY <2>1, <2>3, <2>4 DEF Finishing
<1>5. ASSUME n = 1
      PROVE  Finishing' /\ (~CallEnds => Finishing)
    <2>1. Framed(n) /\ (Top.kind = "call" \/ Top.kind = "release")
        BY <1>2, <1>5 DEF StackInv, Framed
    <2>2. \A x, own : Frame("release", x, own).kind = "release"
        BY DEF Frame
    <2>3. CASE Popped
        <3>1. stack' \in Seq(FrameType) /\ Len(stack') = 0
            BY <1>2, <1>5, <2>3 DEF Popped
        <3>2. stack' = <<>>
            BY <3>1, EmptySeq
        <3>3. Top.kind = "release"
            BY <2>1, <2>3, <3>1, <1>2, <1>5 DEF Steps, VisitRaises, VisitKnown,
               VisitImmortal, VisitMakes, TupleRaises,
               TupleStarts, SetStarts, FreezeKnown, FreezeRaises, FreezeStarts, ItemStarts,
               ItemEnds, ItemRefused, ItemsGivenUp, TupleEnds, SetEnds, TraverseEnds,
               ReleaseImmortal, ReleaseOne, ReleaseLast, ReleaseEnds, CallEnds,
               Visits, Items, Releases, Underneath, Became
        <3> QED
            BY <1>2, <1>5, <3>2, <3>3 DEF Finishing
    <2>4. CASE \E x, own : Became(Frame("release", x, own)) /\ (CallEnds \/ Releases)
        <3>1. stack'[1].kind = "release"
            BY <1>2, <1>5, <2>2, <2>4 DEF Became
        <3> QED
            BY <1>2, <1>5, <2>4, <3>1 DEF Finishing, Releases
    <2>5. Popped \/ (CallEnds /\ \E x, own : Became(Frame("release", x, own)))
            \/ (Releases /\ \E x, own : Became(Frame("release", x, own)))
        BY <2>1 DEF Steps, VisitRaises, VisitKnown, VisitImmortal, VisitMakes, TupleRaises,
           TupleStarts, SetStarts, FreezeKnown, FreezeRaises, FreezeStarts, ItemStarts,
           ItemEnds, ItemRefused, ItemsGivenUp, TupleEnds, SetEnds, TraverseEnds,
           ReleaseImmortal, ReleaseOne, ReleaseLast, ReleaseEnds, CallEnds,
           Visits, Items
    <2> QED
        BY <2>3, <2>4, <2>5
<1> QED
    BY <1>2, <1>3, <1>4, <1>5

(***************************************************************************)
(* A deep freeze: what was visited is frozen, and its items are visited or *)
(* will be.                                                                *)
(***************************************************************************)
\* Item k of x has yet to be visited.
Ahead(p, x, k) ==
    stack[p].kind = "traverse" /\ stack[p].of = x /\ Len(stack[p].own) <= k
Settled(x) ==
    /\ ~graph[x].mutable
    /\ \A k \in DOMAIN graph[x].items :
        graph[x].items[k] \in DOMAIN memo \/ \E p \in DOMAIN stack : Ahead(p, x, k)

FreezeInv ==
    mode = "deepfreeze" =>
        /\ heap = ImmortalObjects
        /\ result # Exception /\ ~Finishing =>
              /\ \A x \in DOMAIN memo : Settled(x)
              /\ result # Pending => Wanted \in DOMAIN memo
        /\ result # Exception /\ Finishing => \A x \in Obj : ~graph[x].mutable

\* Initially nothing was visited.
LEMMA FreezeInit ==
    ASSUME Init
    PROVE  FreezeInv
<1>1. /\ heap = ImmortalObjects /\ memo = <<>> /\ result = Pending
      /\ stack = <<Frame("call", Root, <<>>), Visit(Root)>>
    BY DEF Init
<1>2. DOMAIN memo = {} /\ stack # <<>> /\ stack[1].kind = "call"
    BY <1>1 DEF Frame
<1> QED
    BY <1>1, <1>2 DEF FreezeInv, Finishing

\* What is settled stays so.
LEMMA SettledKept ==
    ASSUME TypeInv, GraphKept, NEW x \in Obj, Settled(x), DOMAIN memo \subseteq DOMAIN memo',
           ~graph'[x].mutable,
           \A p \in DOMAIN stack : \A k \in DOMAIN graph[x].items :
                Ahead(p, x, k) => \/ graph[x].items[k] \in DOMAIN memo'
                                  \/ p \in DOMAIN stack' /\ Ahead(p, x, k)'
    PROVE  Settled(x)'
<1>1. graph'[x].items = graph[x].items
    BY DEF GraphKept
<1> QED
    BY <1>1 DEF Settled

\* What runs during a deep freeze.
LEMMA FreezeRuns ==
    ASSUME TypeInv, StackInv, FreezeInv, Steps, mode = "deepfreeze"
    PROVE  /\ \/ VisitRaises \/ FreezeKnown \/ FreezeRaises \/ FreezeStarts \/ ItemStarts
              \/ ItemEnds \/ ItemsGivenUp \/ TraverseEnds \/ ReleaseImmortal \/ ReleaseEnds
              \/ CallEnds
           /\ UNCHANGED heap /\ Top.kind \notin {"tuple", "set"}
<1>1. stack # <<>> /\ Framed(Len(stack)) /\ Top = stack[Len(stack)]
    BY StepIs, TopIs, TopFramed
<1>2. Top.kind \notin {"tuple", "set"}
    BY <1>1 DEF Framed
<1>3. ~ReleaseOne /\ ~ReleaseLast
    <2>1. SUFFICES ASSUME Top.own # <<>>, Last(Top.own) \notin Immortals
                   PROVE  FALSE
        BY DEF ReleaseOne, ReleaseLast, Releases
    <2>2. Top.own \in Seq(Nat)
        BY <1>1, TopIs
    <2>3. Last(Top.own) = Top.own[Len(Top.own)] /\ Len(Top.own) \in 1 .. Len(Top.own)
        BY <2>1, <2>2, LastIs
    <2>4. Last(Top.own) \in DOMAIN heap
        BY <1>1, <2>3, TopFramed
    <2> QED
        BY <2>1, <2>4 DEF FreezeInv, Immortals
<1>4. ~VisitKnown /\ ~VisitImmortal /\ ~VisitMakes /\ ~TupleRaises /\ ~TupleStarts
      /\ ~SetStarts
    BY DEF VisitKnown, VisitImmortal, VisitMakes, TupleRaises, TupleStarts, SetStarts, New
<1>5. ~ItemRefused /\ ~TupleEnds /\ ~SetEnds
    BY <1>2 DEF ItemRefused, TupleEnds, SetEnds
<1> QED
    BY <1>2, <1>3, <1>4, <1>5 DEF Steps, Unmoved, VisitRaises, FreezeKnown, FreezeRaises,
       FreezeStarts, ItemStarts, ItemEnds, ItemsGivenUp, TraverseEnds, ReleaseImmortal,
       ReleaseEnds, CallEnds

\* A frame that returns leaves what its object was visited for.
LEMMA AwaitedBelow ==
    ASSUME TypeInv, StackInv, CalledInv, GraphKept, stack # <<>>, Len(stack) > 1, Popped,
           result # Exception
    PROVE  Wanted' = Top.of
<1>1. PICK n \in Nat \ {0} : n = Len(stack) /\ DOMAIN stack = 1 .. n /\ Top = stack[n] /\ n > 1
    BY TopIs
<1>2. /\ Len(stack') = n - 1 /\ n - 1 \in DOMAIN stack /\ stack'[n - 1] = stack[n - 1]
      /\ (n - 1) + 1 = n /\ n \in DOMAIN stack
    BY <1>1 DEF Popped
<1>3. stack[n].of = Awaited(n - 1)
    BY <1>2 DEF CalledInv
<1>4. PICK m : m = n - 1
    OBVIOUS
<1>5. Awaited(m)' = Awaited(m)
    BY <1>2, <1>4, AwaitedKept
<1>6. Len(stack') = m /\ Awaited(m) = Top.of
    BY <1>1, <1>2, <1>3, <1>4
<1> HIDE <1>4
<1>7. Awaited(m)' = Top.of
    BY <1>5, <1>6
<1> QED
    BY <1>6, <1>7 DEF Wanted, Awaited, Current

\* Every step keeps that.
LEMMA FreezeStep ==
    ASSUME TypeInv, StackInv, ChainInv, CalledInv, FreezeInv, [Next]_vars
    PROVE  FreezeInv'
<1>1. CASE UNCHANGED vars
    <2>1. UNCHANGED <<graph, mode, heap, memo, stack, result>>
        BY <1>1 DEF vars
    <2>2. Finishing' = Finishing /\ Wanted' = Wanted
        BY <2>1 DEF Finishing, Wanted, Awaited, Current
    <2>3. \A x : Settled(x) => Settled(x)'
        BY <2>1 DEF Settled, Ahead
    <2>4. ImmortalObjects' = ImmortalObjects
        BY DEF ImmortalObjects
    <2> QED
        BY <2>1, <2>2, <2>3, <2>4 DEF FreezeInv
<1>2. CASE mode # "deepfreeze" /\ Steps
    BY <1>2, StepIs DEF FreezeInv
<1>3. CASE mode = "deepfreeze" /\ Steps
    <2>1. stack # <<>> /\ GraphKept /\ UNCHANGED mode
        BY <1>3, StepIs
    <2>2. PICK n \in Nat \ {0} : n = Len(stack) /\ DOMAIN stack = 1 .. n /\ Top = stack[n]
        BY <2>1, TopIs
    <2>3. Immortals' = Immortals /\ ImmortalObjects' = ImmortalObjects
        BY DEF Immortals, ImmortalObjects
    <2>4. heap' = ImmortalObjects'
        BY <1>3, <2>3, FreezeRuns DEF FreezeInv
    <2>5. SUFFICES ASSUME result' # Exception
                   PROVE  /\ ~Finishing' =>
                              /\ \A x \in DOMAIN memo' : Settled(x)'
                              /\ result' # Pending => Wanted' \in DOMAIN memo'
                          /\ Finishing' => \A x \in Obj : ~graph'[x].mutable
        BY <2>4 DEF FreezeInv
    <2>6. result # Exception
        BY <1>3, <2>5, ExceptionKept
    <2>7. CASE CallEnds
        <3>1. n = 1 /\ Top.kind = "call" /\ UNCHANGED <<graph, result>>
            BY <2>1, <2>2, <2>7, Above DEF CallEnds, Underneath
        <3>2. Finishing' /\ ~Finishing
            BY <1>3, <2>1, <2>2, <3>1, FinishingIs DEF Finishing
        <3>3. result # Pending
            BY <2>1, <3>1, Above
        <3>4. Root \in DOMAIN memo /\ \A x \in DOMAIN memo : Settled(x)
            BY <1>3, <2>2, <2>6, <3>1, <3>2, <3>3 DEF FreezeInv, Wanted, Awaited
        <3>5. \A p \in DOMAIN stack : stack[p].kind = "call"
            BY <2>2, <3>1
        <3>6. Closed(graph, DOMAIN memo)
            <4>1. ASSUME NEW x \in DOMAIN memo, NEW y \in Range(graph[x].items)
                  PROVE  y \in DOMAIN memo
                <5>1. PICK k \in DOMAIN graph[x].items : y = graph[x].items[k]
                    BY DEF Range
                <5> QED
                    BY <3>4, <3>5, <5>1 DEF Settled, Ahead
            <4> QED
                BY <4>1 DEF Closed
        <3>7. DOMAIN memo \in SUBSET DOMAIN graph
            BY DEF TypeInv
        <3>8. Obj \subseteq DOMAIN memo
            BY <3>4, <3>6, <3>7, WithinLeast DEF CalledInv
        <3> QED
            BY <3>1, <3>2, <3>4, <3>8 DEF Settled
    <2>8. CASE n = 1 /\ ~CallEnds
        <3>1. Finishing /\ Finishing'
            BY <1>3, <2>2, <2>8, FinishingIs
        <3>2. Top.kind \in {"call", "release"}
            BY <2>1, <2>2, <2>8, TopFramed DEF Framed
        <3>3. UNCHANGED graph
            BY <1>3, <2>8, <3>2, FreezeRuns DEF VisitRaises, FreezeKnown, FreezeRaises,
               FreezeStarts, ItemStarts, ItemEnds, ItemsGivenUp, TraverseEnds,
               ReleaseImmortal, ReleaseEnds, Visits, Items, Releases, Unmoved
        <3> QED
            BY <1>3, <2>6, <3>1, <3>3 DEF FreezeInv
    <2>9. CASE n > 1
        <3>1. ~Finishing /\ ~Finishing'
            BY <1>3, <2>2, <2>9, FinishingIs
        <3>2. /\ \A x \in DOMAIN memo : Settled(x)
              /\ result # Pending => Wanted \in DOMAIN memo
            BY <1>3, <2>6, <3>1 DEF FreezeInv
        <3>3. DOMAIN memo \subseteq Obj
            BY DEF TypeInv
        <3>4. SUFFICES /\ \A x \in DOMAIN memo' : Settled(x)'
                       /\ result' # Pending => Wanted' \in DOMAIN memo'
            BY <3>1
        <3>5. ASSUME Popped, UNCHANGED <<graph, memo>>, Top.of \in DOMAIN memo,
                     Top.kind # "traverse" \/ Len(Top.own) > Len(X.items)
              PROVE  /\ \A x \in DOMAIN memo' : Settled(x)'
                     /\ Wanted' \in DOMAIN memo'
            <4>1. Wanted' = Top.of
                BY <2>1, <2>2, <2>6, <2>9, <3>5, AwaitedBelow
            <4>2. stack' \in Seq(FrameType) /\ Len(stack') = n - 1
                BY <2>2, <3>5 DEF Popped
            <4>3. DOMAIN stack' = 1 .. n - 1
                BY <2>2, <4>2, LenProperties
            <4>4. ASSUME NEW x \in DOMAIN memo, NEW p \in DOMAIN stack,
                         NEW k \in DOMAIN graph[x].items, Ahead(p, x, k)
                  PROVE  p \in DOMAIN stack' /\ Ahead(p, x, k)'
                <5>1. CASE p = n
                    <6>1. Top.kind = "traverse" /\ Top.of = x /\ Len(Top.own) <= k
                        BY <2>2, <4>4, <5>1 DEF Ahead
                    <6>2. x \in Obj /\ k \in 1 .. Len(X.items) /\ Len(X.items) \in Nat
                        BY <2>1, <3>3, <6>1, ItemsAre, TopIs
                    <6>3. Len(Top.own) \in Nat
                        BY <2>1, TopLens
                    <6> QED
                        BY <3>5, <6>1, <6>2, <6>3
                <5>2. CASE p # n
                    <6>1. p \in 1 .. n - 1 /\ stack'[p] = stack[p]
                        BY <2>2, <3>5, <5>2 DEF Popped
                    <6> QED
                        BY <4>3, <4>4, <6>1 DEF Ahead
                <5> QED
                    BY <5>1, <5>2
            <4>5. ASSUME NEW x \in DOMAIN memo
                  PROVE  Settled(x)'
                <5>1. Settled(x) /\ x \in Obj /\ ~graph'[x].mutable
                    BY <3>2, <3>3, <3>5 DEF Settled
                <5> QED
                    BY <2>1, <3>5, <4>4, <5>1, SettledKept
            <4> QED
                BY <3>5, <4>1, <4>5
        <3>6. CASE FreezeKnown
            BY <3>5, <3>6 DEF FreezeKnown, Known, Visits, Underneath, Unmoved
        <3>7. CASE FreezeStarts
            <4> DEFINE f == Frame("traverse", Top.of, <<None>>)
            <4>1. f.kind = "traverse" /\ f.of = Top.of /\ Len(f.own) = 1
                BY Single DEF Frame, None
            <4>2. /\ Became(f) /\ memo' = Memoized(Top.of, None) /\ result' = Pending
                  /\ graph' = [graph EXCEPT ![Top.of].mutable = FALSE] /\ Top.kind = "visit"
                BY <3>7 DEF FreezeStarts, Visits
            <4> HIDE DEF f
            <4>3. stack' \in Seq(FrameType) /\ Len(stack') = n
                BY <2>2, <4>2 DEF Became
            <4>4. DOMAIN stack' = 1 .. n /\ n \in 1 .. n
                BY <2>2, <4>3, LenProperties
            <4>5. DOMAIN memo' = DOMAIN memo \cup {Top.of}
                BY <4>2, MemoizedIs
            <4>6. Top.of \in Obj
                BY <2>1, TopIs
            <4>7. ASSUME NEW x \in Obj, x = Top.of
                  PROVE  Settled(x)'
                <5>1. ~graph'[x].mutable
                    BY <4>2, <4>7, FreezeGraphKept
                <5>2. graph'[x].items = graph[x].items
                    BY <2>1 DEF GraphKept
                <5>3. ASSUME NEW k \in DOMAIN graph[x].items
                      PROVE  \E p \in DOMAIN stack' : Ahead(p, x, k)'
                    <6>1. 1 <= k
                        BY <5>3, ItemsAre
                    <6>2. stack'[n] = f
                        BY <2>2, <4>2 DEF Became
                    <6>3. Ahead(n, x, k)'
                        BY <4>1, <4>7, <6>1, <6>2 DEF Ahead
                    <6> QED
                        BY <4>4, <6>3
                <5> QED
                    BY <5>1, <5>2, <5>3 DEF Settled
            <4>8. ASSUME NEW x \in DOMAIN memo, x # Top.of
                  PROVE  Settled(x)'
                <5>1. Settled(x) /\ x \in Obj
                    BY <3>2, <3>3
                <5>2. ~graph'[x].mutable
                    BY <4>2, <4>6, <4>8, <5>1, FreezeGraphKept DEF Settled
                <5>3. ASSUME NEW p \in DOMAIN stack, NEW k, Ahead(p, x, k)
                      PROVE  p \in DOMAIN stack' /\ Ahead(p, x, k)'
                    <6>1. p # n
                        BY <2>2, <4>2, <5>3 DEF Ahead
                    <6>2. p \in 1 .. n - 1 /\ stack'[p] = stack[p]
                        BY <2>2, <4>2, <6>1 DEF Became
                    <6> QED
                        BY <2>2, <4>4, <5>3, <6>2 DEF Ahead
                <5> QED
                    BY <2>1, <4>5, <5>1, <5>2, <5>3, SettledKept
            <4>9. \A x \in DOMAIN memo' : Settled(x)'
                BY <4>5, <4>6, <4>7, <4>8
            <4> QED
                BY <4>2, <4>9
        <3>8. CASE ItemStarts
            <4>1. UNCHANGED <<graph, memo, result>> /\ result = Pending
                BY <3>8 DEF ItemStarts, Unmoved
            <4>2. PICK f : Pushed(f)
                BY <3>8 DEF ItemStarts
            <4>3. stack' \in Seq(FrameType) /\ Len(stack') = n + 1
                BY <2>2, <4>2 DEF Pushed
            <4>4. DOMAIN stack' = 1 .. n + 1
                BY <2>2, <4>3, LenProperties
            <4>5. \A p \in DOMAIN stack : p \in DOMAIN stack' /\ stack'[p] = stack[p]
                BY <2>2, <4>2, <4>4 DEF Pushed
            <4>6. ASSUME NEW x \in DOMAIN memo
                  PROVE  Settled(x)'
                <5>1. Settled(x) /\ x \in Obj /\ ~graph'[x].mutable
                    BY <3>2, <3>3, <4>1 DEF Settled
                <5>2. ASSUME NEW p \in DOMAIN stack, NEW k, Ahead(p, x, k)
                      PROVE  p \in DOMAIN stack' /\ Ahead(p, x, k)'
                    BY <4>5, <5>2 DEF Ahead
                <5> QED
                    BY <2>1, <4>1, <5>1, <5>2, SettledKept
            <4> QED
                BY <4>1, <4>6
        <3>9. CASE ItemEnds
            <4> DEFINE f == Frame(Top.kind, Top.of, Append(Top.own, result))
            <4>1. /\ UNCHANGED <<graph, memo>> /\ result' = Pending /\ result > 0 /\ Became(f)
                  /\ Top.kind \in {"tuple", "set", "traverse"}
                BY <3>9 DEF ItemEnds, Unmoved, Items
            <4>2. /\ f.kind = Top.kind /\ f.of = Top.of /\ Len(f.own) = Len(Top.own) + 1
                  /\ Len(Top.own) \in Nat
                <5>1. Top.own \in Seq(Nat) /\ result \in Nat
                    BY <2>1, <4>1, TopIs, NumbersAre
                <5> QED
                    BY <5>1, AppendProperties, LenProperties DEF Frame
            <4> HIDE DEF f
            <4>3. stack' \in Seq(FrameType) /\ Len(stack') = n
                BY <2>2, <4>1 DEF Became
            <4>4. DOMAIN stack' = 1 .. n /\ stack'[n] = f
                BY <2>2, <4>1, <4>3, LenProperties DEF Became
            <4>5. Top.kind = "traverse"
                BY <1>3, <4>1, FreezeRuns
            <4>6. X.items[Len(Top.own)] \in DOMAIN memo
                <5>1. result # Pending /\ n # 1
                    BY <2>9, <4>1 DEF Pending
                <5> QED
                    BY <2>1, <2>2, <3>2, <5>1, TopIs DEF Wanted, Awaited, Current
            <4>7. ASSUME NEW x \in DOMAIN memo
                  PROVE  Settled(x)'
                <5>1. Settled(x) /\ x \in Obj /\ ~graph'[x].mutable
                    BY <3>2, <3>3, <4>1 DEF Settled
                <5>2. ASSUME NEW p \in DOMAIN stack, NEW k \in DOMAIN graph[x].items,
                             Ahead(p, x, k)
                      PROVE  \/ graph[x].items[k] \in DOMAIN memo'
                             \/ p \in DOMAIN stack' /\ Ahead(p, x, k)'
                    <6>1. CASE p = n
                        <7>1. Top.of = x /\ Len(Top.own) <= k /\ X = graph[x]
                            BY <2>1, <2>2, <5>2, <6>1, TopIs DEF Ahead
                        <7>2. k \in Nat
                            BY <5>1, ItemsAre
                        <7>3. CASE k = Len(Top.own)
                            BY <4>1, <4>6, <7>1, <7>3
                        <7>4. CASE k # Len(Top.own)
                            <8>1. Len(f.own) <= k
                                BY <4>2, <7>1, <7>2, <7>4
                            <8> QED
                                BY <2>2, <4>2, <4>4, <4>5, <6>1, <7>1, <8>1 DEF Ahead
                        <7> QED
                            BY <7>3, <7>4
                    <6>2. CASE p # n
                        <7>1. p \in 1 .. n - 1 /\ stack'[p] = stack[p]
                            BY <2>2, <4>1, <6>2 DEF Became
                        <7> QED
                            BY <2>2, <4>4, <5>2, <7>1 DEF Ahead
                    <6> QED
                        BY <6>1, <6>2
                <5> QED
                    BY <2>1, <4>1, <5>1, <5>2, SettledKept
            <4> QED
                BY <4>1, <4>7
        <3>10. CASE TraverseEnds
            <4>1. Popped /\ UNCHANGED <<graph, memo>> /\ Top.kind = "traverse" /\ ~Remain
                BY <3>10 DEF TraverseEnds, Items, Unmoved
            <4>2. Len(Top.own) > Len(X.items)
                BY <2>1, <4>1, TopLens DEF Remain
            <4>3. Top.of \in DOMAIN memo
                BY <2>1, <2>2, <4>1 DEF ChainInv, Noted
            <4> QED
                BY <3>5, <4>1, <4>2, <4>3
        <3>11. Top.kind # "release"
            BY <2>1, <2>2, <2>6, <2>9, Above
        <3>12. Top.kind # "call"
            BY <2>1, <2>2, <2>9, Above
        <3>13. ~VisitRaises /\ ~FreezeRaises /\ ~ItemsGivenUp /\ ~ReleaseImmortal
               /\ ~ReleaseEnds /\ ~CallEnds
            BY <2>5, <3>11, <3>12 DEF VisitRaises, FreezeRaises, ItemsGivenUp,
               ReleaseImmortal, ReleaseEnds, Releases, CallEnds
        <3>14. FreezeKnown \/ FreezeStarts \/ ItemStarts \/ ItemEnds \/ TraverseEnds
            BY <1>3, <3>13, FreezeRuns
        <3> QED
            BY <3>6, <3>7, <3>8, <3>9, <3>10, <3>14
    <2> QED
        BY <1>3, <2>2, <2>7, <2>8, <2>9, FinishingIs
<1> QED
    BY <1>1, <1>2, <1>3, StepsAre

(***************************************************************************)
(* Counting the places that hold a copy.                                   *)
(***************************************************************************)
At(s, i) == {l \in DOMAIN s : s[l] = i}
Occ(s, i) == Cardinality(At(s, i))

\* What is mapped one to one is as many.
LEMMA SameCount ==
    ASSUME NEW S, NEW T, IsFiniteSet(S), NEW p \in [S -> T],
           \A a, b \in S : p[a] = p[b] => a = b,
           \A t \in T : \E a \in S : p[a] = t
    PROVE  IsFiniteSet(T) /\ Cardinality(T) = Cardinality(S)
<1>1. p \in Injection(S, T)
    BY DEF Injection, IsInjective
<1>2. p \in Surjection(S, T)
    BY DEF Surjection
<1>3. ExistsBijection(S, T)
    BY <1>1, <1>2 DEF ExistsBijection, Bijection
<1> QED
    BY <1>3, FS_Bijection

\* A sequence holds a number so many times.
LEMMA OccIs ==
    ASSUME NEW s \in Seq(Nat), NEW i
    PROVE  /\ IsFiniteSet(At(s, i)) /\ Occ(s, i) \in Nat
           /\ (\E l \in DOMAIN s : s[l] = i) <=> Occ(s, i) # 0
<1>1. Len(s) \in Nat /\ DOMAIN s = 1 .. Len(s) /\ 1 \in Int /\ Len(s) \in Int
    BY LenProperties
<1>2. IsFiniteSet(DOMAIN s)
    BY <1>1, FS_Interval
<1>3. At(s, i) \in SUBSET DOMAIN s
    BY DEF At
<1>4. IsFiniteSet(At(s, i))
    BY <1>2, <1>3, FS_Subset
<1>5. Occ(s, i) \in Nat
    BY <1>4, FS_CardinalityType DEF Occ
<1>6. Occ(s, i) = 0 <=> At(s, i) = {}
    BY <1>4, FS_EmptySet DEF Occ
<1> QED
    BY <1>4, <1>5, <1>6 DEF At

\* What a concatenation holds.
LEMMA OccConcat ==
    ASSUME NEW s \in Seq(Nat), NEW t \in Seq(Nat), NEW i
    PROVE  s \o t \in Seq(Nat) /\ Occ(s \o t, i) = Occ(s, i) + Occ(t, i)
<1> DEFINE u == s \o t
           n == Len(s)
           B == At(u, i) \ At(s, i)
           p == [l \in At(t, i) |-> l + n]
<1>1. /\ Len(s) \in Nat /\ DOMAIN s = 1 .. Len(s)
      /\ Len(t) \in Nat /\ DOMAIN t = 1 .. Len(t)
    BY LenProperties
<1>2. /\ u \in Seq(Nat) /\ Len(u) = Len(s) + Len(t)
      /\ \A l \in 1 .. Len(s) + Len(t) : u[l] = IF l <= Len(s) THEN s[l] ELSE t[l - Len(s)]
    BY ConcatProperties
<1>3. DOMAIN u = 1 .. Len(s) + Len(t)
    BY <1>2, LenProperties
<1> HIDE DEF u
<1>4. At(s, i) \subseteq At(u, i)
    BY <1>1, <1>2, <1>3 DEF At
<1>5. ASSUME NEW l \in DOMAIN t
      PROVE  l + n \in DOMAIN u /\ l + n \notin DOMAIN s /\ u[l + n] = t[l]
    <2>1. /\ l + n \in 1 .. Len(s) + Len(t) /\ ~(l + n <= Len(s))
          /\ (l + n) - Len(s) = l
        BY <1>1
    <2>2. u[l + n] = t[l]
        BY <1>2, <2>1
    <2> QED
        BY <1>1, <1>3, <2>1, <2>2
<1>6. p \in [At(t, i) -> B]
    BY <1>5 DEF At
<1>7. \A a, b \in At(t, i) : p[a] = p[b] => a = b
    BY <1>1 DEF At
<1>8. ASSUME NEW b \in B
      PROVE  \E a \in At(t, i) : p[a] = b
    <2>1. b \in 1 .. Len(s) + Len(t) /\ u[b] = i /\ ~(b \in 1 .. n /\ s[b] = i)
        BY <1>1, <1>3, <1>8 DEF At
    <2>2. b > n
        BY <1>1, <1>2, <2>1
    <2>3. b - n \in 1 .. Len(t) /\ t[b - n] = i /\ (b - n) + n = b
        BY <1>1, <1>2, <2>1, <2>2, SMTT(30)
    <2> QED
        BY <1>1, <2>3 DEF At
<1>9. IsFiniteSet(At(s, i)) /\ IsFiniteSet(At(t, i)) /\ IsFiniteSet(At(u, i))
    BY <1>2, OccIs
<1>10. IsFiniteSet(B) /\ Cardinality(B) = Occ(t, i)
    <2> HIDE DEF B, p
    <2> QED
        BY <1>6, <1>7, <1>8, <1>9, SameCount DEF Occ
<1>11. At(u, i) \cap At(s, i) = At(s, i)
    BY <1>4
<1>12. Cardinality(B) = Occ(u, i) - Occ(s, i)
    BY <1>9, <1>11, FS_Difference DEF Occ
<1>13. Occ(u, i) \in Nat /\ Occ(s, i) \in Nat
    BY <1>2, OccIs
<1>14. Occ(u, i) = Occ(s, i) + Occ(t, i)
    BY <1>10, <1>12, <1>13
<1> QED
    BY <1>2, <1>14 DEF u

\* What short sequences hold.
LEMMA OccShort ==
    ASSUME NEW i
    PROVE  /\ Occ(<<>>, i) = 0
           /\ \A a \in Nat : Occ(<<a>>, i) = IF a = i THEN 1 ELSE 0
<1>1. Occ(<<>>, i) = 0
    <2>1. At(<<>>, i) = {}
        BY DEF At
    <2> QED
        BY <2>1, FS_EmptySet DEF Occ
<1>2. ASSUME NEW a \in Nat
      PROVE  Occ(<<a>>, i) = IF a = i THEN 1 ELSE 0
    <2>1. DOMAIN <<a>> = {1} /\ <<a>>[1] = a
        OBVIOUS
    <2>2. At(<<a>>, i) = IF a = i THEN {1} ELSE {}
        BY <2>1 DEF At
    <2> QED
        BY <2>2, FS_EmptySet, FS_Singleton DEF Occ
<1> QED
    BY <1>1, <1>2

\* The first and the last of a sequence, and one more.
LEMMA OccEnds ==
    ASSUME NEW s \in Seq(Nat), NEW i
    PROVE  /\ s # <<>> =>
                /\ Occ(s, i) = Occ(Tail(s), i) + IF s[1] = i THEN 1 ELSE 0
                /\ Occ(s, i) = Occ(Front(s), i) + IF Last(s) = i THEN 1 ELSE 0
           /\ \A a \in Nat : Occ(Append(s, a), i) = Occ(s, i) + IF a = i THEN 1 ELSE 0
<1>0. Occ(s, i) \in Nat
    BY OccIs
<1>1. ASSUME s # <<>>
      PROVE  Occ(s, i) = Occ(Tail(s), i) + IF s[1] = i THEN 1 ELSE 0
    <2>1. Len(s) \in Nat \ {0}
        BY <1>1, EmptySeq
    <2>2. s[1] \in Nat
        BY <2>1, ElementOfSeq
    <2>3. /\ Tail(s) \in Seq(Nat) /\ Len(Tail(s)) = Len(s) - 1
          /\ \A l \in 1 .. Len(Tail(s)) : Tail(s)[l] = s[l + 1]
        BY <1>1, HeadTailProperties
    <2> DEFINE h == <<s[1]>>
               t == Tail(s)
    <2>4. h \in Seq(Nat) /\ Len(h) = 1 /\ h[1] = s[1]
        BY <2>2
    <2>5. t \in Seq(Nat) /\ Len(t) = Len(s) - 1 /\ \A l \in 1 .. Len(s) - 1 : t[l] = s[l + 1]
        BY <2>3
    <2>6. Occ(h, i) = IF s[1] = i THEN 1 ELSE 0
        BY <2>2, OccShort
    <2>12. h \in Seq(Nat) /\ t \in Seq(Nat)
        BY <2>4, <2>5
    <2> HIDE DEF h, t
    <2>7. /\ h \o t \in Seq(Nat) /\ Len(h \o t) = Len(h) + Len(t)
          /\ \A l \in 1 .. Len(h) + Len(t) :
                (h \o t)[l] = IF l <= Len(h) THEN h[l] ELSE t[l - Len(h)]
        BY ONLY <2>12, ConcatProperties
    <2>8. ASSUME NEW l \in 1 .. Len(s)
          PROVE  (h \o t)[l] = s[l]
        <3>1. CASE l = 1
            BY <2>1, <2>4, <2>5, <2>7, <3>1
        <3>2. CASE l # 1
            <4>1. l - 1 \in 1 .. Len(s) - 1 /\ ~(l <= 1) /\ l \in 1 .. 1 + (Len(s) - 1)
                  /\ (l - 1) + 1 = l
                BY <2>1, <3>2
            <4> QED
                BY <2>4, <2>5, <2>7, <4>1
        <3> QED
            BY <3>1, <3>2
    <2>9. Len(h \o t) = Len(s)
        BY <2>1, <2>4, <2>5, <2>7
    <2>10. h \o t = s
        BY <2>7, <2>8, <2>9, SeqEqual
    <2>11. Occ(s, i) = Occ(h, i) + Occ(t, i) /\ Occ(t, i) \in Nat
        BY <2>4, <2>5, <2>10, OccConcat, OccIs, ZenonT(60)
    <2> QED
        BY <2>6, <2>11 DEF t
<1>2. ASSUME NEW a \in Nat, NEW r \in Seq(Nat)
      PROVE  Occ(Append(r, a), i) = Occ(r, i) + IF a = i THEN 1 ELSE 0
    <2> DEFINE h == <<a>>
    <2>1. h \in Seq(Nat) /\ Len(h) = 1 /\ h[1] = a
        OBVIOUS
    <2>2. Occ(h, i) = IF a = i THEN 1 ELSE 0
        BY OccShort
    <2> HIDE DEF h
    <2>3. /\ Append(r, a) \in Seq(Nat) /\ Len(Append(r, a)) = Len(r) + 1
          /\ \A l \in 1 .. Len(r) : Append(r, a)[l] = r[l]
          /\ Append(r, a)[Len(r) + 1] = a
        BY AppendProperties
    <2>4. /\ r \o h \in Seq(Nat) /\ Len(r \o h) = Len(r) + Len(h)
          /\ \A l \in 1 .. Len(r) + Len(h) :
                (r \o h)[l] = IF l <= Len(r) THEN r[l] ELSE h[l - Len(r)]
        BY <2>1, ConcatProperties
    <2>5. Len(r) \in Nat
        BY LenProperties
    <2>6. \A l \in 1 .. Len(r) + 1 : Append(r, a)[l] = (r \o h)[l]
        BY <2>1, <2>3, <2>4, <2>5
    <2>7. Append(r, a) = r \o h
        BY <2>1, <2>3, <2>4, <2>6, SeqEqual
    <2> QED
        BY <2>1, <2>2, <2>7, OccConcat
<1>3. ASSUME s # <<>>
      PROVE  Occ(s, i) = Occ(Front(s), i) + IF Last(s) = i THEN 1 ELSE 0
    <2>1. /\ Len(s) \in Nat \ {0} /\ Last(s) = s[Len(s)] /\ Last(s) \in Nat
          /\ Front(s) \in Seq(Nat) /\ Len(Front(s)) = Len(s) - 1
          /\ \A l \in 1 .. Len(s) - 1 : Front(s)[l] = s[l]
        BY <1>3, LastIs
    <2> DEFINE t == Append(Front(s), Last(s))
    <2>2. /\ t \in Seq(Nat) /\ Len(t) = Len(s)
          /\ \A l \in 1 .. Len(s) - 1 : t[l] = s[l]
          /\ t[Len(s)] = s[Len(s)]
        <3>1. /\ t \in Seq(Nat) /\ Len(t) = Len(Front(s)) + 1
              /\ \A l \in 1 .. Len(Front(s)) : t[l] = Front(s)[l]
              /\ t[Len(Front(s)) + 1] = Last(s)
            BY <2>1, AppendProperties
        <3> HIDE DEF t
        <3> QED
            BY <2>1, <3>1
    <2> HIDE DEF t
    <2>3. \A l \in 1 .. Len(s) : t[l] = s[l]
        <3>1. \A l \in 1 .. Len(s) : l \in 1 .. Len(s) - 1 \/ l = Len(s)
            BY <2>1
        <3> QED
            BY <2>2, <3>1
    <2>4. t = s
        BY <2>2, <2>3, SeqEqual
    <2> QED
        BY <1>2, <2>1, <2>4 DEF t
<1> QED
    BY <1>1, <1>2, <1>3

\* There are finitely many places.
LEMMA PlacesFinite ==
    ASSUME NEW own, NEW i, IsFiniteSet(DOMAIN own),
           \A k \in DOMAIN own : own[k] \in Seq(Nat)
    PROVE  IsFiniteSet(Places(own, i)) /\ Cardinality(Places(own, i)) \in Nat
<1> DEFINE f == [k \in DOMAIN own |-> {k} \X At(own[k], i)]
           S == {f[k] : k \in DOMAIN own}
<1>1. ASSUME NEW k \in DOMAIN own
      PROVE  IsFiniteSet({k} \X At(own[k], i))
    <2>1. IsFiniteSet(At(own[k], i)) /\ IsFiniteSet({k})
        BY OccIs, FS_Singleton
    <2> QED
        BY <2>1, FS_Product
<1>2. f \in Surjection(DOMAIN own, S)
    BY DEF Surjection
<1>3. IsFiniteSet(S) /\ \A T \in S : IsFiniteSet(T)
    <2>1. \A T \in S : IsFiniteSet(T)
        BY <1>1
    <2> HIDE DEF f, S
    <2> QED
        BY <1>2, <2>1, FS_Surjection
<1>4. UNION S = Places(own, i)
    BY DEF Places, At
<1> HIDE DEF S
<1>5. IsFiniteSet(UNION S)
    BY <1>3, FS_UNION
<1> QED
    BY <1>4, <1>5, FS_CardinalityType

\* The places in one of the sequences, and those in the others.
LEMMA PlacesSplit ==
    ASSUME NEW own, NEW rest, NEW i, NEW k \in DOMAIN own, IsFiniteSet(DOMAIN own),
           \A j \in DOMAIN own : own[j] \in Seq(Nat),
           DOMAIN rest = DOMAIN own \ {k}, \A j \in DOMAIN rest : rest[j] = own[j]
    PROVE  Cardinality(Places(own, i)) = Cardinality(Places(rest, i)) + Occ(own[k], i)
<1> DEFINE A == At(own[k], i)
           P == {k} \X A
           R == Places(rest, i)
<1>1. IsFiniteSet(A) /\ Cardinality(A) = Occ(own[k], i) /\ Occ(own[k], i) \in Nat
    BY OccIs DEF Occ
<1>2. IsFiniteSet(P) /\ Cardinality(P) = Occ(own[k], i)
    <2>1. IsFiniteSet({k}) /\ Cardinality({k}) = 1
        BY FS_Singleton
    <2> HIDE DEF A
    <2>2. IsFiniteSet(P) /\ Cardinality(P) = 1 * Cardinality(A)
        BY <1>1, <2>1, FS_Product
    <2> QED
        BY <1>1, <2>2
<1>3. IsFiniteSet(R)
    <2>1. IsFiniteSet(DOMAIN rest)
        BY FS_RemoveElement
    <2> QED
        BY <2>1, PlacesFinite
<1>4. Places(own, i) = R \cup P
    BY DEF Places, At
<1>5. R \cap P = {}
    BY DEF Places
<1> HIDE DEF R, P, A
<1>6. Cardinality(R \cup P) = Cardinality(R) + Cardinality(P) - Cardinality({})
    BY <1>2, <1>3, <1>5, FS_Union
<1>7. Cardinality({}) = 0 /\ Cardinality(R) \in Nat
    BY <1>3, FS_EmptySet, FS_CardinalityType
<1> QED
    BY <1>1, <1>2, <1>4, <1>6, <1>7 DEF R

\* What changes when one of the sequences does.
LEMMA PlacesChange ==
    ASSUME NEW own, NEW own1, NEW i, NEW k \in DOMAIN own, IsFiniteSet(DOMAIN own),
           DOMAIN own1 = DOMAIN own,
           \A j \in DOMAIN own : own[j] \in Seq(Nat) /\ own1[j] \in Seq(Nat),
           \A j \in DOMAIN own : j # k => own1[j] = own[j]
    PROVE  Cardinality(Places(own1, i)) + Occ(own[k], i)
                = Cardinality(Places(own, i)) + Occ(own1[k], i)
<1> DEFINE rest == [j \in DOMAIN own \ {k} |-> own[j]]
<1>1. /\ DOMAIN rest = DOMAIN own \ {k} /\ \A j \in DOMAIN rest : rest[j] = own[j]
      /\ \A j \in DOMAIN rest : rest[j] = own1[j] /\ rest[j] \in Seq(Nat)
      /\ DOMAIN rest = DOMAIN own1 \ {k}
    OBVIOUS
<1> HIDE DEF rest
<1>2. Cardinality(Places(own, i)) = Cardinality(Places(rest, i)) + Occ(own[k], i)
    BY <1>1, PlacesSplit
<1>3. Cardinality(Places(own1, i)) = Cardinality(Places(rest, i)) + Occ(own1[k], i)
    BY <1>1, PlacesSplit
<1>4. /\ Occ(own[k], i) \in Nat /\ Occ(own1[k], i) \in Nat
    BY OccIs
<1>5. Cardinality(Places(rest, i)) \in Nat
    <2>1. IsFiniteSet(DOMAIN rest)
        BY <1>1, FS_RemoveElement
    <2> QED
        BY <1>1, <2>1, PlacesFinite
<1> QED
    BY <1>2, <1>3, <1>4, <1>5

(***************************************************************************)
(* What a step changes of the references.                                  *)
(***************************************************************************)

\* The copies, and what they hold.
LEMMA CopiesAre ==
    ASSUME TypeInv
    PROVE  /\ Copies = 5 .. Len(heap) /\ IsFiniteSet(Copies) /\ Copies \subseteq DOMAIN heap
           /\ \A j \in Copies : heap[j].items \in Seq(Nat) /\ heap[j].refs \in Nat
<1>1. Immortals = 1 .. 4 /\ DOMAIN heap = 1 .. Len(heap) /\ Len(heap) \in Nat
    BY ImmortalsAre, NumbersAre
<1>2. Copies = 5 .. Len(heap)
    BY <1>1 DEF Copies
<1>3. IsFiniteSet(Copies)
    BY <1>1, <1>2, FS_Interval
<1>4. Copies \subseteq DOMAIN heap
    BY DEF Copies
<1> QED
    BY <1>2, <1>3, <1>4, CopyIs

\* The places counted are finitely many.
LEMMA HeldFinite ==
    ASSUME TypeInv, NEW i
    PROVE  /\ IsFiniteSet(InCopies(i)) /\ Cardinality(InCopies(i)) \in Nat
           /\ IsFiniteSet(InFrames(i)) /\ Cardinality(InFrames(i)) \in Nat
           /\ IsFiniteSet(InMemo(i)) /\ Cardinality(InMemo(i)) \in Nat
<1>1. IsFiniteSet(InCopies(i)) /\ Cardinality(InCopies(i)) \in Nat
    BY CopiesAre, PlacesFinite DEF InCopies
<1>2. IsFiniteSet(InFrames(i)) /\ Cardinality(InFrames(i)) \in Nat
    <2>1. IsFiniteSet(DOMAIN stack)
        BY FramesAre, FS_Interval
    <2> QED
        BY <2>1, FramesAre, PlacesFinite DEF InFrames
<1>3. InMemo(i) \in SUBSET DOMAIN memo /\ IsFiniteSet(DOMAIN memo)
    BY DEF InMemo, TypeInv
<1> QED
    BY <1>1, <1>2, <1>3, FS_Subset, FS_CardinalityType

\* The items of a copy are replaced.
LEMMA CopiesAt ==
    ASSUME TypeInv, NEW j \in Copies, NEW items \in Seq(Nat), NEW refs \in Nat,
           HeapAt(j, items, refs), NEW i
    PROVE  /\ Copies' = Copies /\ Cardinality(InCopies(i)') \in Nat
           /\ Cardinality(InCopies(i)') + Occ(heap[j].items, i)
                = Cardinality(InCopies(i)) + Occ(items, i)
<1>1. /\ DOMAIN heap = 1 .. Len(heap) /\ heap' \in Seq(CopyType) /\ Len(heap') = Len(heap)
      /\ heap'[j].items = items /\ \A c \in 1 .. Len(heap) : c # j => heap'[c] = heap[c]
    BY NumbersAre DEF HeapAt
<1>2. DOMAIN heap' = DOMAIN heap
    BY <1>1, LenProperties
<1>3. Copies' = Copies
    BY <1>2 DEF Copies, Immortals, ImmortalObjects
<1> DEFINE own == [c \in Copies |-> heap[c].items]
           own1 == [c \in Copies |-> heap'[c].items]
<1>4. /\ DOMAIN own = Copies /\ DOMAIN own1 = Copies
      /\ \A c \in Copies : own[c] = heap[c].items /\ own1[c] = heap'[c].items
    OBVIOUS
<1>5. \A c \in Copies : own[c] \in Seq(Nat) /\ own1[c] \in Seq(Nat) /\ (c # j => own1[c] = own[c])
    BY <1>1, <1>4, CopiesAre
<1>6. own[j] = heap[j].items /\ own1[j] = items
    BY <1>1, <1>4
<1>7. InCopies(i) = Places(own, i) /\ InCopies(i)' = Places(own1, i)
    BY <1>3 DEF InCopies
<1> HIDE DEF own, own1
<1>8. /\ IsFiniteSet(DOMAIN own) /\ j \in DOMAIN own /\ DOMAIN own1 = DOMAIN own
      /\ \A c \in DOMAIN own : own[c] \in Seq(Nat) /\ own1[c] \in Seq(Nat)
      /\ \A c \in DOMAIN own : c # j => own1[c] = own[c]
    BY <1>4, <1>5, CopiesAre
<1>9. Cardinality(Places(own1, i)) + Occ(own[j], i) = Cardinality(Places(own, i)) + Occ(own1[j], i)
    BY ONLY <1>8, PlacesChange
<1>10. Cardinality(Places(own1, i)) \in Nat
    BY <1>8, PlacesFinite
<1> QED
    BY <1>3, <1>6, <1>7, <1>9, <1>10

\* A copy without items is made.
LEMMA CopiesGrown ==
    ASSUME TypeInv, NEW refs \in Nat, HeapGrown(refs), NEW i
    PROVE  /\ Copies' = Copies \cup {Fresh} /\ Fresh \notin Copies
           /\ Cardinality(InCopies(i)') = Cardinality(InCopies(i))
<1>1. /\ DOMAIN heap = 1 .. Len(heap) /\ heap' \in Seq(CopyType) /\ Len(heap') = Len(heap) + 1
      /\ Len(heap) \in Nat /\ Len(heap) >= 4
      /\ heap'[Fresh].items = <<>> /\ \A c \in 1 .. Len(heap) : heap'[c] = heap[c]
      /\ Fresh = Len(heap) + 1 /\ Immortals = 1 .. 4
    BY NumbersAre, ImmortalsAre DEF HeapGrown, Fresh, TypeInv
<1>2. DOMAIN heap' = 1 .. Len(heap) + 1
    BY <1>1, LenProperties
<1>3. Immortals' = Immortals
    BY DEF Immortals, ImmortalObjects
<1>4. Copies' = Copies \cup {Fresh} /\ Fresh \notin Copies
    BY <1>1, <1>2, <1>3 DEF Copies
<1> DEFINE own == [c \in Copies' |-> heap'[c].items]
           rest == [c \in Copies |-> heap[c].items]
<1>5. /\ DOMAIN own = Copies' /\ DOMAIN rest = Copies
      /\ \A c \in Copies' : own[c] = heap'[c].items
      /\ \A c \in Copies : rest[c] = heap[c].items
    OBVIOUS
<1>8. InCopies(i) = Places(rest, i) /\ InCopies(i)' = Places(own, i)
    BY DEF InCopies
<1> HIDE DEF own, rest
<1>6. /\ \A c \in Copies : own[c] = rest[c] /\ rest[c] \in Seq(Nat)
      /\ own[Fresh] = <<>> /\ Fresh \in DOMAIN own
    BY <1>1, <1>4, <1>5, CopiesAre
<1>7. /\ \A c \in DOMAIN own : own[c] \in Seq(Nat)
      /\ IsFiniteSet(DOMAIN own) /\ DOMAIN rest = DOMAIN own \ {Fresh}
    <2>1. \A c \in DOMAIN own : c \in Copies \/ c = Fresh
        BY <1>4, <1>5
    <2>2. \A c \in DOMAIN own : own[c] \in Seq(Nat)
        BY <1>6, <2>1, EmptySeq
    <2>3. IsFiniteSet(Copies \cup {Fresh})
        BY CopiesAre, FS_AddElement
    <2> QED
        BY <1>4, <1>5, <2>2, <2>3
<1>9. Cardinality(Places(own, i)) = Cardinality(Places(rest, i)) + Occ(own[Fresh], i)
    BY <1>5, <1>6, <1>7, PlacesSplit
<1> QED
    BY <1>4, <1>6, <1>8, <1>9, OccShort, HeldFinite

\* No copy changes.
LEMMA CopiesSame ==
    ASSUME UNCHANGED heap, NEW i
    PROVE  Copies' = Copies /\ InCopies(i)' = InCopies(i)
BY DEF Copies, InCopies, Places, Immortals, ImmortalObjects

\* An interval but its last.
LEMMA IntervalEnds ==
    ASSUME NEW n \in Nat \ {0}
    PROVE  /\ IsFiniteSet(1 .. n) /\ n \in 1 .. n /\ 1 .. n - 1 = (1 .. n) \ {n}
<1>1. n \in 1 .. n /\ n \in Int /\ 1 \in Int
    OBVIOUS
<1>2. \A p : p \in 1 .. n - 1 <=> p \in 1 .. n /\ p # n
    OBVIOUS
<1>3. IsFiniteSet(1 .. n)
    BY <1>1, FS_Interval
<1>4. 1 .. n - 1 = (1 .. n) \ {n}
    BY <1>2
<1> QED
    BY <1>1, <1>3, <1>4

\* A frame returns.
LEMMA FramesPopped ==
    ASSUME TypeInv, stack # <<>>, Popped, NEW i
    PROVE  /\ Cardinality(InFrames(i)') \in Nat
           /\ Cardinality(InFrames(i)') + Occ(Top.own, i) = Cardinality(InFrames(i))
<1>1. PICK n \in Nat \ {0} : n = Len(stack) /\ DOMAIN stack = 1 .. n /\ Top = stack[n]
    BY TopIs
<1>2. /\ stack' \in Seq(FrameType) /\ Len(stack') = n - 1
      /\ \A p \in 1 .. n - 1 : stack'[p] = stack[p]
    BY <1>1 DEF Popped
<1>3. DOMAIN stack' = 1 .. n - 1
    BY <1>1, <1>2, LenProperties
<1> DEFINE own == [p \in 1 .. n |-> stack[p].own]
           rest == [p \in 1 .. n - 1 |-> stack[p].own]
<1>4. InFrames(i) = Places(own, i)
    BY <1>1 DEF InFrames
<1>5. InFrames(i)' = Places(rest, i)
    <2>1. [p \in 1 .. n - 1 |-> stack'[p].own] = rest
        BY <1>2
    <2> QED
        BY <1>3, <2>1 DEF InFrames
<1>6. /\ DOMAIN own = 1 .. n /\ DOMAIN rest = 1 .. n - 1 /\ own[n] = Top.own
      /\ \A p \in 1 .. n : own[p] = stack[p].own
      /\ \A p \in 1 .. n - 1 : rest[p] = own[p]
    BY <1>1
<1> HIDE DEF own, rest
<1>7. /\ IsFiniteSet(DOMAIN own) /\ n \in DOMAIN own /\ DOMAIN rest = DOMAIN own \ {n}
      /\ \A p \in DOMAIN own : own[p] \in Seq(Nat)
      /\ \A p \in DOMAIN rest : rest[p] = own[p]
    BY <1>1, <1>6, FramesAre, IntervalEnds
<1>8. Cardinality(Places(own, i)) = Cardinality(Places(rest, i)) + Occ(own[n], i)
    BY ONLY <1>7, PlacesSplit
<1>9. Cardinality(Places(rest, i)) \in Nat
    <2>1. IsFiniteSet(DOMAIN rest) /\ \A p \in DOMAIN rest : rest[p] \in Seq(Nat)
        BY <1>7, FS_RemoveElement
    <2> QED
        BY <2>1, PlacesFinite
<1> QED
    BY <1>4, <1>5, <1>6, <1>8, <1>9

\* A frame becomes another.
LEMMA FramesBecame ==
    ASSUME TypeInv, stack # <<>>, NEW f, Became(f), NEW i
    PROVE  /\ f.own \in Seq(Nat) /\ Cardinality(InFrames(i)') \in Nat
           /\ Cardinality(InFrames(i)') + Occ(Top.own, i)
                = Cardinality(InFrames(i)) + Occ(f.own, i)
<1>1. PICK n \in Nat \ {0} : n = Len(stack) /\ DOMAIN stack = 1 .. n /\ Top = stack[n]
    BY TopIs
<1>2. /\ stack' \in Seq(FrameType) /\ Len(stack') = n /\ stack'[n] = f
      /\ \A p \in 1 .. n - 1 : stack'[p] = stack[p]
    BY <1>1 DEF Became
<1>3. DOMAIN stack' = 1 .. n
    BY <1>1, <1>2, LenProperties
<1>4. \A p \in 1 .. n : p = n \/ p \in 1 .. n - 1
    BY <1>1
<1>5. f.own \in Seq(Nat)
    <2>1. f \in FrameType
        BY <1>1, <1>2, ElementOfSeq
    <2> QED
        BY <2>1 DEF FrameType
<1> DEFINE own == [p \in 1 .. n |-> stack[p].own]
           own1 == [p \in 1 .. n |-> stack'[p].own]
<1>6. InFrames(i) = Places(own, i) /\ InFrames(i)' = Places(own1, i)
    BY <1>1, <1>3 DEF InFrames
<1>7. /\ DOMAIN own = 1 .. n /\ DOMAIN own1 = 1 .. n
      /\ own[n] = Top.own /\ own1[n] = f.own
      /\ \A p \in 1 .. n : own[p] = stack[p].own
      /\ \A p \in 1 .. n - 1 : own1[p] = own[p]
    BY <1>1, <1>2
<1> HIDE DEF own, own1
<1>8. /\ IsFiniteSet(DOMAIN own) /\ n \in DOMAIN own /\ DOMAIN own1 = DOMAIN own
      /\ \A p \in DOMAIN own : own[p] \in Seq(Nat) /\ own1[p] \in Seq(Nat)
      /\ \A p \in DOMAIN own : p # n => own1[p] = own[p]
    <2>1. IsFiniteSet(DOMAIN own) /\ n \in DOMAIN own /\ DOMAIN own1 = DOMAIN own
        BY <1>7, IntervalEnds
    <2>2. \A p \in DOMAIN own : p # n => own1[p] = own[p]
        BY <1>4, <1>7
    <2>3. \A p \in DOMAIN own : own[p] \in Seq(Nat)
        BY <1>1, <1>7, FramesAre
    <2>4. \A p \in DOMAIN own : own1[p] \in Seq(Nat)
        BY <1>5, <1>7, <2>2, <2>3
    <2> QED
        BY <2>1, <2>2, <2>3, <2>4
<1>9. Cardinality(Places(own1, i)) + Occ(own[n], i) = Cardinality(Places(own, i)) + Occ(own1[n], i)
    BY ONLY <1>8, PlacesChange
<1>10. Cardinality(Places(own1, i)) \in Nat
    BY <1>8, PlacesFinite
<1> QED
    BY <1>5, <1>6, <1>7, <1>9, <1>10

\* A frame calls another.
LEMMA FramesPushed ==
    ASSUME TypeInv, NEW f, Pushed(f), NEW i
    PROVE  /\ f.own \in Seq(Nat)
           /\ Cardinality(InFrames(i)') = Cardinality(InFrames(i)) + Occ(f.own, i)
<1>1. PICK n \in Nat : n = Len(stack) /\ DOMAIN stack = 1 .. n
    BY FramesAre
<1>2. /\ stack' \in Seq(FrameType) /\ Len(stack') = n + 1 /\ stack'[n + 1] = f
      /\ \A p \in 1 .. n : stack'[p] = stack[p]
    BY <1>1 DEF Pushed
<1>3. DOMAIN stack' = 1 .. n + 1
    BY <1>1, <1>2, LenProperties
<1>4. \A p \in 1 .. n + 1 : p = n + 1 \/ p \in 1 .. n
    BY <1>1
<1>5. f.own \in Seq(Nat)
    <2>1. n + 1 \in 1 .. Len(stack')
        BY <1>1, <1>2
    <2>2. f \in FrameType
        BY <1>2, <2>1, ElementOfSeq
    <2> QED
        BY <2>2 DEF FrameType
<1> DEFINE own == [p \in 1 .. n + 1 |-> stack'[p].own]
           rest == [p \in 1 .. n |-> stack[p].own]
           m == n + 1
<1>6. InFrames(i) = Places(rest, i) /\ InFrames(i)' = Places(own, i)
    BY <1>1, <1>3 DEF InFrames
<1>7. /\ DOMAIN own = 1 .. m /\ DOMAIN rest = 1 .. n /\ own[m] = f.own
      /\ \A p \in 1 .. n : rest[p] = stack[p].own /\ rest[p] = own[p]
    BY <1>1, <1>2
<1> HIDE DEF own, rest
<1>8. /\ IsFiniteSet(DOMAIN own) /\ m \in DOMAIN own /\ DOMAIN rest = DOMAIN own \ {m}
      /\ \A p \in DOMAIN own : own[p] \in Seq(Nat)
      /\ \A p \in DOMAIN rest : rest[p] = own[p]
    <2>1. m \in Nat \ {0} /\ m - 1 = n
        BY <1>1
    <2>2. IsFiniteSet(1 .. m) /\ 1 .. n = (1 .. m) \ {m} /\ m \in 1 .. m
        BY <2>1, IntervalEnds
    <2>3. \A p \in DOMAIN own : own[p] \in Seq(Nat)
        BY <1>1, <1>4, <1>5, <1>7, FramesAre
    <2> QED
        BY <1>7, <2>2, <2>3
<1> HIDE DEF m
<1>9. Cardinality(Places(own, i)) = Cardinality(Places(rest, i)) + Occ(own[m], i)
    BY ONLY <1>8, PlacesSplit
<1> QED
    BY <1>5, <1>6, <1>7, <1>9

\* An object is memoized that was not.
LEMMA MemoAdded ==
    ASSUME TypeInv, NEW x, x \notin DOMAIN memo, NEW v, memo' = Memoized(x, v), NEW i
    PROVE  /\ Cardinality(InMemo(i)') \in Nat
           /\ Cardinality(InMemo(i)') = Cardinality(InMemo(i)) + IF v = i THEN 1 ELSE 0
<1>1. /\ DOMAIN memo' = DOMAIN memo \cup {x} /\ memo'[x] = v
      /\ \A y \in DOMAIN memo : y # x => memo'[y] = memo[y]
    BY MemoizedIs
<1>2. InMemo(i)' = IF v = i THEN InMemo(i) \cup {x} ELSE InMemo(i)
    BY <1>1 DEF InMemo
<1>3. IsFiniteSet(InMemo(i)) /\ x \notin InMemo(i) /\ Cardinality(InMemo(i)) \in Nat
    BY HeldFinite DEF InMemo
<1> QED
    BY <1>2, <1>3, FS_AddElement

\* The references of the memo are handed to the frame that releases them.
LEMMA MemoHanded ==
    ASSUME TypeInv, NEW own \in Seq(Nat), IsMemoOf(own), NEW i
    PROVE  Occ(own, i) = Cardinality(InMemo(i))
<1>1. PICK keys \in Seq(Obj) :
        /\ Len(own) = Len(keys) /\ IsInjective(keys) /\ Range(keys) = DOMAIN memo
        /\ \A k \in 1 .. Len(keys) : own[k] = memo[keys[k]]
    BY DEF IsMemoOf
<1>2. DOMAIN keys = 1 .. Len(keys) /\ DOMAIN own = 1 .. Len(keys)
    BY <1>1, LenProperties
<1> DEFINE S == At(own, i)
           p == [k \in S |-> keys[k]]
<1>3. p \in [S -> InMemo(i)]
    BY <1>1, <1>2 DEF At, InMemo, Range
<1>4. \A a, b \in S : p[a] = p[b] => a = b
    BY <1>1, <1>2 DEF At, IsInjective
<1>5. \A t \in InMemo(i) : \E a \in S : p[a] = t
    BY <1>1, <1>2 DEF At, InMemo, Range
<1>6. IsFiniteSet(S)
    BY OccIs
<1> HIDE DEF S, p
<1>7. Cardinality(InMemo(i)) = Cardinality(S)
    BY <1>3, <1>4, <1>5, <1>6, SameCount
<1> QED
    BY <1>7 DEF S, Occ

\* What is not numbered yet is nowhere.
LEMMA FreshNowhere ==
    ASSUME TypeInv
    PROVE  /\ Cardinality(InCopies(Fresh)) = 0 /\ Cardinality(InFrames(Fresh)) = 0
           /\ Cardinality(InMemo(Fresh)) = 0 /\ result # Fresh
           /\ Fresh \notin DOMAIN heap
<1>1. Fresh \notin DOMAIN heap
    BY NumbersAre DEF Fresh
<1>2. InCopies(Fresh) = {}
    <2>1. \A j \in Copies : \A k \in DOMAIN heap[j].items : heap[j].items[k] # Fresh
        BY <1>1, CopiesAre DEF TypeInv, Numbered
    <2> QED
        BY <2>1 DEF InCopies, Places
<1>3. InFrames(Fresh) = {}
    <2>1. \A p \in DOMAIN stack : \A k \in DOMAIN stack[p].own : stack[p].own[k] # Fresh
        BY <1>1 DEF TypeInv, Numbered
    <2> QED
        BY <2>1 DEF InFrames, Places
<1>4. InMemo(Fresh) = {}
    BY <1>1 DEF InMemo, TypeInv
<1>5. result # Fresh
    BY <1>1, NumbersAre DEF TypeInv, Pending, Exception, Fresh
<1> QED
    BY <1>1, <1>2, <1>3, <1>4, <1>5, FS_EmptySet

(***************************************************************************)
(* Every copy has a reference for each place that holds it.                *)
(***************************************************************************)
Got(i) == IF result = i THEN 1 ELSE 0
\* The places that hold copy i.
Held(i) ==
    Cardinality(InCopies(i)) + Cardinality(InFrames(i)) + Cardinality(InMemo(i)) + Got(i)

\* The copy that is made next has no items yet.
Unfilled ==
    stack # <<>> /\ Top.kind \in {"tuple", "set"} /\ result = Pending =>
        heap[Copy].items = <<>>

\* There are no copies initially.
LEMMA RefsInit ==
    ASSUME Init
    PROVE  RefsExact
<1>1. Copies = {}
    BY DEF Init, Copies, Immortals
<1> QED
    BY <1>1 DEF RefsExact

\* What a frame that waits for nothing owns.
LEMMA TopOwnsNone ==
    ASSUME TypeInv, StackInv, stack # <<>>, Top.kind \in {"visit", "call"}
    PROVE  Top.own = <<>>
BY TopIs, TopFramed DEF Framed

\* Parts that stay, and those that do not count a copy.
LEMMA HeldParts ==
    ASSUME TypeInv, NEW i
    PROVE  /\ Cardinality(InCopies(i)) \in Nat /\ Cardinality(InFrames(i)) \in Nat
           /\ Cardinality(InMemo(i)) \in Nat /\ Got(i) \in Nat /\ Got(i)' \in Nat
           /\ memo' = memo => Cardinality(InMemo(i)') = Cardinality(InMemo(i))
           /\ result' = result => Got(i)' = Got(i)
           /\ i \in Nat \ (0 .. 4) =>
                /\ result \in {Pending, Exception} \cup Immortals => Got(i) = 0
                /\ result' \in {Pending, Exception} \cup Immortals => Got(i)' = 0
<1>1. Immortals = 1 .. 4
    BY ImmortalsAre
<1> QED
    BY <1>1, HeldFinite DEF Got, InMemo, Pending, Exception

\* The first of four summands is set apart.
LEMMA FirstApart ==
    ASSUME NEW a \in Nat, NEW b \in Nat, NEW c \in Nat, NEW d \in Nat
    PROVE  a + b + c + d = a + (b + c + d)
OBVIOUS

\* Every step keeps that.
LEMMA RefsStep ==
    ASSUME TypeInv, StackInv, ChainInv, Unfilled, RefsExact, Steps,
           mode = "deepfreeze" => heap' = ImmortalObjects
    PROVE  RefsExact'
<1>0. Immortals = 1 .. 4 /\ Immortals' = Immortals
    BY ImmortalsAre DEF Immortals, ImmortalObjects
<1>1. CASE mode = "deepfreeze"
    <2>1. Copies' = {}
        BY <1>0, <1>1 DEF Copies, Immortals
    <2> QED
        BY <2>1 DEF RefsExact
<1>2. CASE mode # "deepfreeze"
    <2>1. stack # <<>>
        BY StepIs
    <2>2. PICK n \in Nat \ {0} : n = Len(stack) /\ DOMAIN stack = 1 .. n /\ Top = stack[n]
        BY <2>1, TopIs
    <2>3. Top.own \in Seq(Nat) /\ Framed(n)
        BY <2>1, <2>2, TopIs DEF StackInv
    <2>4. \A i \in Copies : i \in Nat \ (0 .. 4) /\ i \in DOMAIN heap /\ heap[i].refs \in Nat
        BY CopiesAre, NumbersAre
    <2>5. \A i \in Copies : heap[i].refs = Held(i)
        BY DEF RefsExact, Held, Got
    <2>6. SUFFICES \A i \in Copies' : heap'[i].refs = Held(i)'
        BY DEF RefsExact, Held, Got
    <2>7. CASE VisitRaises \/ VisitImmortal
        <3>1. /\ Popped /\ UNCHANGED <<heap, memo>> /\ Top.kind = "visit"
              /\ result' = Exception \/ result' \in ImmortalsOf(Top.of)
            BY <2>7 DEF VisitRaises, VisitImmortal, Visits, Unmoved
        <3>2. /\ result \in {Pending, Exception} \cup Immortals
              /\ result' \in {Pending, Exception} \cup Immortals
            BY <2>1, <3>1, Above DEF ImmortalsOf
        <3>3. Top.own = <<>>
            BY <2>1, <3>1, TopOwnsNone
        <3>4. ASSUME NEW i \in Copies
              PROVE  heap'[i].refs = Held(i)'
            <4>1. Cardinality(InFrames(i)') = Cardinality(InFrames(i))
                BY <2>1, <3>1, <3>3, FramesPopped, OccShort
            <4>2. Cardinality(InCopies(i)') = Cardinality(InCopies(i))
                BY <3>1, CopiesSame
            <4>3. /\ Cardinality(InMemo(i)') = Cardinality(InMemo(i))
                  /\ Got(i) = 0 /\ Got(i)' = 0
                BY <2>4, <3>1, <3>2, HeldParts
            <4> QED
                BY <2>5, <3>1, <4>1, <4>2, <4>3 DEF Held
        <3> QED
            BY <3>1, <3>4, CopiesSame
    <2>8. CASE VisitKnown
        <3> DEFINE v == memo[Top.of]
        <3>1. /\ Popped /\ UNCHANGED memo /\ Top.kind = "visit" /\ Top.of \in DOMAIN memo
              /\ heap' = IncRef(heap, v) /\ result' = v
            BY <2>8 DEF VisitKnown, Visits, Known
        <3>2. v \in DOMAIN heap /\ result = Pending /\ Top.own = <<>>
            BY <2>1, <3>1, Above, TopOwnsNone DEF TypeInv
        <3> HIDE DEF v
        <3>3. ASSUME NEW i \in Copies
              PROVE  /\ Cardinality(InFrames(i)') = Cardinality(InFrames(i))
                     /\ Cardinality(InMemo(i)') = Cardinality(InMemo(i))
                     /\ Got(i) = 0 /\ Got(i)' = IF v = i THEN 1 ELSE 0
            <4>1. Cardinality(InFrames(i)') = Cardinality(InFrames(i))
                BY <2>1, <3>1, <3>2, FramesPopped, OccShort
            <4> QED
                BY <2>4, <3>1, <3>2, <4>1, HeldParts DEF Got
        <3>4. CASE v \in Immortals
            <4>1. UNCHANGED heap
                BY <3>1, <3>4 DEF IncRef
            <4>2. ASSUME NEW i \in Copies
                  PROVE  heap'[i].refs = Held(i)'
                <5>1. v # i /\ Cardinality(InCopies(i)') = Cardinality(InCopies(i))
                    BY <3>4, <4>1, CopiesSame DEF Copies
                <5> QED
                    BY <2>5, <3>3, <4>1, <5>1 DEF Held
            <4> QED
                BY <4>1, <4>2, CopiesSame
        <3>5. CASE v \notin Immortals
            <4>1. v \in Copies /\ heap[v].items \in Seq(Nat) /\ heap[v].refs + 1 \in Nat
                BY <3>2, <3>5, CopiesAre DEF Copies
            <4>2. HeapAt(v, heap[v].items, heap[v].refs + 1)
                BY <3>1, <3>2, <3>5, <4>1, HeapChanges DEF IncRef
            <4>3. ASSUME NEW i \in Copies
                  PROVE  heap'[i].refs = Held(i)'
                <5>1. heap'[i].refs = heap[i].refs + IF v = i THEN 1 ELSE 0
                    BY <2>4, <4>2, NumbersAre DEF HeapAt
                <5>2. Cardinality(InCopies(i)') = Cardinality(InCopies(i))
                    <6>1. /\ Cardinality(InCopies(i)') \in Nat /\ Cardinality(InCopies(i)) \in Nat
                          /\ Occ(heap[v].items, i) \in Nat
                          /\ Cardinality(InCopies(i)') + Occ(heap[v].items, i)
                                = Cardinality(InCopies(i)) + Occ(heap[v].items, i)
                        BY <4>1, <4>2, CopiesAt, HeldFinite, OccIs
                    <6> QED
                        BY <6>1
                <5> QED
                    BY <2>5, <3>3, <5>1, <5>2, HeldParts DEF Held
            <4> QED
                BY <4>1, <4>2, <4>3, CopiesAt
        <3> QED
            BY <3>4, <3>5
    <2>9. ASSUME NEW refs \in {1, 2}, heap' = NewCopy(refs), Top.kind = "visit",
                 \A i \in Copies \cup {Fresh} :
                    /\ Cardinality(InFrames(i)') \in Nat /\ Cardinality(InMemo(i)') \in Nat
                    /\ Cardinality(InFrames(i)') + Cardinality(InMemo(i)') + Got(i)'
                          = Cardinality(InFrames(i)) + Cardinality(InMemo(i))
                            + IF Fresh = i THEN refs ELSE 0
          PROVE  \A i \in Copies' : heap'[i].refs = Held(i)'
        <3>1. HeapGrown(refs) /\ refs \in Nat
            BY <2>1, <2>9, HeapGrows
        <3>2. ASSUME NEW i \in Copies \cup {Fresh}
              PROVE  heap'[i].refs = Held(i)'
            <4>1. Cardinality(InCopies(i)') = Cardinality(InCopies(i))
                BY <3>1, CopiesGrown
            <4>2. /\ Cardinality(InCopies(i)) \in Nat /\ Cardinality(InFrames(i)) \in Nat
                  /\ Cardinality(InMemo(i)) \in Nat
                  /\ Cardinality(InFrames(i)') \in Nat /\ Cardinality(InMemo(i)') \in Nat
                  /\ Got(i)' \in Nat
                BY <2>9, HeldParts
            <4>3. CASE i = Fresh
                <5>1. heap'[i].refs = refs
                    BY <3>1, <4>3 DEF HeapGrown
                <5>2. /\ Cardinality(InCopies(i)) = 0 /\ Cardinality(InFrames(i)) = 0
                      /\ Cardinality(InMemo(i)) = 0
                    BY <4>3, FreshNowhere
                <5>3. Cardinality(InFrames(i)') + Cardinality(InMemo(i)') + Got(i)' = refs
                    BY <2>9, <3>1, <4>3, <5>2
                <5> HIDE <2>9
                <5>4. Held(i)' = Cardinality(InCopies(i)') + Cardinality(InFrames(i)')
                                    + Cardinality(InMemo(i)') + Got(i)'
                    BY DEF Held
                <5> QED
                    BY <4>1, <4>2, <5>1, <5>2, <5>3, <5>4
            <4>4. CASE i # Fresh
                <5>1. i \in Copies /\ heap'[i].refs = heap[i].refs
                    BY <2>4, <3>1, <4>4, NumbersAre DEF HeapGrown
                <5>2. Got(i) = 0
                    BY <2>1, <2>4, <2>9, <5>1, Above, HeldParts
                <5>3. Cardinality(InFrames(i)') + Cardinality(InMemo(i)') + Got(i)'
                        = Cardinality(InFrames(i)) + Cardinality(InMemo(i))
                    BY <2>9, <4>2, <4>4
                <5> QED
                    BY <2>5, <4>1, <4>2, <5>1, <5>2, <5>3 DEF Held
            <4> QED
                BY <4>3, <4>4
        <3> QED
            BY <3>1, <3>2, CopiesGrown
    <2>10. CASE VisitMakes \/ TupleRaises
        <3>1. PICK refs \in {1, 2} : heap' = NewCopy(refs) /\ (refs = 2 <=> result' = Fresh)
                                   /\ (refs = 1 => result' = Exception)
            <4>1. Fresh # Exception
                BY NumbersAre DEF Exception
            <4> QED
                BY <2>10, <4>1 DEF VisitMakes, TupleRaises
        <3>2. /\ Popped /\ Top.kind = "visit" /\ Top.of \notin DOMAIN memo
              /\ memo' = Memoized(Top.of, Fresh) /\ Top.own = <<>>
            BY <2>1, <2>10, TopOwnsNone DEF VisitMakes, TupleRaises, Visits, New, Known
        <3>3. ASSUME NEW i \in Copies \cup {Fresh}
              PROVE  /\ Cardinality(InFrames(i)') \in Nat /\ Cardinality(InMemo(i)') \in Nat
                     /\ Cardinality(InFrames(i)') + Cardinality(InMemo(i)') + Got(i)'
                          = Cardinality(InFrames(i)) + Cardinality(InMemo(i))
                            + IF Fresh = i THEN refs ELSE 0
            <4>1. /\ Cardinality(InFrames(i)') \in Nat
                  /\ Cardinality(InFrames(i)') = Cardinality(InFrames(i))
                BY <2>1, <3>2, FramesPopped, OccShort
            <4>2. /\ Cardinality(InMemo(i)') \in Nat
                  /\ Cardinality(InMemo(i)') = Cardinality(InMemo(i)) + IF Fresh = i THEN 1 ELSE 0
                BY <3>2, MemoAdded
            <4>3. Got(i)' = IF Fresh = i /\ refs = 2 THEN 1 ELSE 0
                <5>1. i # Exception
                    BY <2>4, NumbersAre DEF Exception
                <5> QED
                    BY <3>1, <5>1 DEF Got
            <4> QED
                BY <3>1, <4>1, <4>2, <4>3, HeldParts
        <3> QED
            BY <2>9, <3>1, <3>2, <3>3
    <2>11. CASE TupleStarts \/ SetStarts
        <3>1. PICK refs \in {1, 2}, k \in {"tuple", "set"} :
                /\ heap' = NewCopy(refs) /\ Became(Frame(k, Top.of, <<Fresh>>))
                /\ refs = 2 => memo' = Memoized(Top.of, Fresh)
                /\ refs = 1 => memo' = memo
            BY <2>11 DEF TupleStarts, SetStarts
        <3>2. /\ result' = Pending /\ Top.kind = "visit" /\ Top.of \notin DOMAIN memo
              /\ Top.own = <<>> /\ Top.of \in Obj
            BY <2>1, <2>11, TopOwnsNone, TopIs DEF TupleStarts, SetStarts, Visits, New, Known
        <3> DEFINE f == Frame(k, Top.of, <<Fresh>>)
        <3>3. f.own = <<Fresh>> /\ Became(f)
            BY <3>1 DEF Frame
        <3> HIDE DEF f
        <3>4. ASSUME NEW i \in Copies \cup {Fresh}
              PROVE  /\ Cardinality(InFrames(i)') \in Nat /\ Cardinality(InMemo(i)') \in Nat
                     /\ Cardinality(InFrames(i)') + Cardinality(InMemo(i)') + Got(i)'
                          = Cardinality(InFrames(i)) + Cardinality(InMemo(i))
                            + IF Fresh = i THEN refs ELSE 0
            <4>1. /\ Cardinality(InFrames(i)') \in Nat /\ Cardinality(InFrames(i)) \in Nat
                  /\ Cardinality(InFrames(i)')
                        = Cardinality(InFrames(i)) + IF Fresh = i THEN 1 ELSE 0
                <5>1. Occ(<<Fresh>>, i) = IF Fresh = i THEN 1 ELSE 0
                    BY NumbersAre, OccShort
                <5>2. Occ(<<>>, i) = 0
                    BY OccShort
                <5>3. /\ Cardinality(InFrames(i)') \in Nat
                      /\ Cardinality(InFrames(i)') + Occ(Top.own, i)
                            = Cardinality(InFrames(i)) + Occ(f.own, i)
                    BY <2>1, <3>3, FramesBecame
                <5> QED
                    BY <3>2, <3>3, <5>1, <5>2, <5>3, HeldParts
            <4>2. /\ Cardinality(InMemo(i)') \in Nat /\ Cardinality(InMemo(i)) \in Nat
                  /\ Cardinality(InMemo(i)')
                        = Cardinality(InMemo(i)) + IF Fresh = i /\ refs = 2 THEN 1 ELSE 0
                BY <3>1, <3>2, MemoAdded, HeldParts
            <4>3. Got(i)' = 0
                BY <2>4, <3>2, NumbersAre DEF Got, Pending, Fresh
            <4> QED
                BY <3>1, <4>1, <4>2, <4>3
        <3> QED
            BY <2>9, <3>1, <3>2, <3>4
    <2>12. ASSUME UNCHANGED <<heap, memo>>,
                  \A i \in Copies : /\ Cardinality(InFrames(i)') \in Nat
                                    /\ Cardinality(InFrames(i)') + Got(i)'
                                            = Cardinality(InFrames(i)) + Got(i)
           PROVE  \A i \in Copies' : heap'[i].refs = Held(i)'
        <3>1. ASSUME NEW i \in Copies
              PROVE  heap'[i].refs = Held(i)'
            <4>1. /\ Cardinality(InCopies(i)') = Cardinality(InCopies(i))
                  /\ Cardinality(InMemo(i)') = Cardinality(InMemo(i))
                BY <2>12, CopiesSame, HeldParts
            <4> QED
                BY <2>5, <2>12, <4>1, HeldParts DEF Held
        <3> QED
            BY <2>12, <3>1, CopiesSame
    <2>13. CASE ItemStarts
        <3> DEFINE f == Visit(X.items[Len(Top.own)])
        <3>1. f.own = <<>> /\ Pushed(f) /\ UNCHANGED <<heap, memo, result>>
            BY <2>13 DEF ItemStarts, Visit, Frame, Unmoved
        <3> HIDE DEF f
        <3>2. ASSUME NEW i \in Copies
              PROVE  /\ Cardinality(InFrames(i)') \in Nat
                     /\ Cardinality(InFrames(i)') + Got(i)' = Cardinality(InFrames(i)) + Got(i)
            <4>1. Cardinality(InFrames(i)') = Cardinality(InFrames(i))
                BY <3>1, FramesPushed, OccShort, HeldParts
            <4> QED
                BY <3>1, <4>1, HeldParts
        <3> QED
            BY <2>12, <3>1, <3>2
    <2>14. CASE ItemEnds
        <3> DEFINE f == Frame(Top.kind, Top.of, Append(Top.own, result))
        <3>1. /\ f.own = Append(Top.own, result) /\ Became(f) /\ UNCHANGED <<heap, memo>>
              /\ result' = Pending /\ result \in Nat
            BY <2>14, NumbersAre DEF ItemEnds, Frame, Unmoved
        <3> HIDE DEF f
        <3>2. ASSUME NEW i \in Copies
              PROVE  /\ Cardinality(InFrames(i)') \in Nat
                     /\ Cardinality(InFrames(i)') + Got(i)' = Cardinality(InFrames(i)) + Got(i)
            <4>1. Occ(f.own, i) = Occ(Top.own, i) + Got(i) /\ Occ(Top.own, i) \in Nat
                BY <2>3, <3>1, OccEnds, OccIs DEF Got
            <4>2. /\ Cardinality(InFrames(i)') \in Nat
                  /\ Cardinality(InFrames(i)') + Occ(Top.own, i)
                        = Cardinality(InFrames(i)) + Occ(f.own, i)
                BY <2>1, <3>1, FramesBecame
            <4>3. Got(i)' = 0
                BY <2>4, <3>1, HeldParts
            <4> QED
                BY <4>1, <4>2, <4>3, HeldParts
        <3> QED
            BY <2>12, <3>1, <3>2
    <2>15. CASE ItemRefused
        <3> DEFINE f == Frame("release", Top.of, <<result>>)
        <3>1. /\ f.own = <<result>> /\ Pushed(f) /\ UNCHANGED <<heap, memo>>
              /\ result' = Exception /\ result \in Nat
            BY <2>15, NumbersAre DEF ItemRefused, Frame, Unmoved
        <3> HIDE DEF f
        <3>2. ASSUME NEW i \in Copies
              PROVE  /\ Cardinality(InFrames(i)') \in Nat
                     /\ Cardinality(InFrames(i)') + Got(i)' = Cardinality(InFrames(i)) + Got(i)
            <4>1. Occ(f.own, i) = Got(i)
                BY <3>1, OccShort DEF Got
            <4>2. Cardinality(InFrames(i)') = Cardinality(InFrames(i)) + Occ(f.own, i)
                BY <3>1, FramesPushed
            <4>3. Got(i)' = 0
                BY <2>4, <3>1, HeldParts
            <4> QED
                BY <4>1, <4>2, <4>3, HeldParts
        <3> QED
            BY <2>12, <3>1, <3>2
    <2>16. CASE ItemsGivenUp
        <3> DEFINE f == Frame("release", Top.of, Top.own)
        <3>1. /\ f.own = Top.own /\ Became(f) /\ UNCHANGED <<heap, memo>>
              /\ result' = Exception /\ result \in {Pending, Exception}
            BY <2>16 DEF ItemsGivenUp, Frame, Unmoved
        <3> HIDE DEF f
        <3>2. ASSUME NEW i \in Copies
              PROVE  /\ Cardinality(InFrames(i)') \in Nat
                     /\ Cardinality(InFrames(i)') + Got(i)' = Cardinality(InFrames(i)) + Got(i)
            <4>1. /\ Cardinality(InFrames(i)') \in Nat
                  /\ Cardinality(InFrames(i)') + Occ(Top.own, i)
                        = Cardinality(InFrames(i)) + Occ(f.own, i)
                BY <2>1, <3>1, FramesBecame
            <4>2. Got(i)' = 0 /\ Got(i) = 0
                BY <2>4, <3>1, HeldParts
            <4>3. Occ(Top.own, i) \in Nat
                BY <2>3, OccIs
            <4> QED
                BY <3>1, <4>1, <4>2, <4>3, HeldParts
        <3> QED
            BY <2>12, <3>1, <3>2
    <2>17. CASE ReleaseEnds
        <3>1. Top.own = <<>> /\ Popped /\ UNCHANGED <<heap, memo, result>>
            BY <2>17 DEF ReleaseEnds, Unmoved
        <3>2. ASSUME NEW i \in Copies
              PROVE  /\ Cardinality(InFrames(i)') \in Nat
                     /\ Cardinality(InFrames(i)') + Got(i)' = Cardinality(InFrames(i)) + Got(i)
            <4>1. Cardinality(InFrames(i)') = Cardinality(InFrames(i))
                BY <2>1, <3>1, FramesPopped, OccShort
            <4> QED
                BY <3>1, <4>1, HeldParts
        <3> QED
            BY <2>12, <3>1, <3>2
    <2>18. ASSUME NEW j \in Copies, NEW items \in Seq(Nat), NEW refs \in Nat,
                  HeapAt(j, items, refs),
                  \A i \in Copies :
                    /\ Cardinality(InFrames(i)') \in Nat /\ Cardinality(InMemo(i)') \in Nat
                    /\ Cardinality(InFrames(i)') + Cardinality(InMemo(i)') + Got(i)'
                            + Occ(items, i) + (IF i = j THEN heap[j].refs - refs ELSE 0)
                          = Cardinality(InFrames(i)) + Cardinality(InMemo(i)) + Got(i)
                            + Occ(heap[j].items, i)
           PROVE  \A i \in Copies' : heap'[i].refs = Held(i)'
        <3>1. ASSUME NEW i \in Copies
              PROVE  heap'[i].refs = Held(i)'
            <4>1. /\ Cardinality(InCopies(i)') \in Nat
                  /\ Cardinality(InCopies(i)') + Occ(heap[j].items, i)
                        = Cardinality(InCopies(i)) + Occ(items, i)
                BY <2>18, CopiesAt
            <4>2. /\ heap'[i].refs = IF i = j THEN refs ELSE heap[i].refs
                BY <2>4, <2>18, NumbersAre DEF HeapAt
            <4>3. /\ Cardinality(InFrames(i)') \in Nat /\ Cardinality(InMemo(i)') \in Nat
                  /\ Occ(items, i) \in Nat /\ Occ(heap[j].items, i) \in Nat
                  /\ heap[i].refs \in Nat /\ heap[j].refs \in Nat
                BY <2>4, <2>18, CopiesAre, OccIs
            <4>4. heap[i].refs = Cardinality(InCopies(i)) + Cardinality(InFrames(i))
                                    + Cardinality(InMemo(i)) + Got(i)
                BY <2>5 DEF Held
            <4>5. /\ Cardinality(InFrames(i)') + Cardinality(InMemo(i)') + Got(i)'
                        + Occ(items, i) + (IF i = j THEN heap[j].refs - refs ELSE 0)
                      = Cardinality(InFrames(i)) + Cardinality(InMemo(i)) + Got(i)
                        + Occ(heap[j].items, i)
                BY <2>18
            <4>6. heap'[i].refs = Cardinality(InCopies(i)') + Cardinality(InFrames(i)')
                                    + Cardinality(InMemo(i)') + Got(i)'
                <5>1. /\ Cardinality(InCopies(i)) \in Nat /\ Cardinality(InFrames(i)) \in Nat
                      /\ Cardinality(InMemo(i)) \in Nat /\ Got(i) \in Nat /\ Got(i)' \in Nat
                    BY HeldParts
                <5>2. refs \in Nat
                    BY <2>18
                <5>3. PICK k1 \in Nat :
                        k1 = Cardinality(InFrames(i)') + Cardinality(InMemo(i)') + Got(i)'
                    BY ONLY <4>3, <5>1
                <5>4. PICK k0 \in Nat :
                        k0 = Cardinality(InFrames(i)) + Cardinality(InMemo(i)) + Got(i)
                    BY ONLY <5>1
                <5>5. /\ heap[i].refs = Cardinality(InCopies(i)) + k0
                      /\ Cardinality(InCopies(i)') + Cardinality(InFrames(i)')
                            + Cardinality(InMemo(i)') + Got(i)' = Cardinality(InCopies(i)') + k1
                    <6>1. heap[i].refs = Cardinality(InCopies(i)) + k0
                        <7>1. Cardinality(InCopies(i)) + Cardinality(InFrames(i))
                                    + Cardinality(InMemo(i)) + Got(i)
                                = Cardinality(InCopies(i)) + (Cardinality(InFrames(i))
                                    + Cardinality(InMemo(i)) + Got(i))
                            BY ONLY <5>1, FirstApart
                        <7> QED
                            BY ONLY <4>4, <5>4, <7>1
                    <6>2. Cardinality(InCopies(i)') + Cardinality(InFrames(i)')
                            + Cardinality(InMemo(i)') + Got(i)' = Cardinality(InCopies(i)') + k1
                        <7>1. Cardinality(InCopies(i)') + Cardinality(InFrames(i)')
                                    + Cardinality(InMemo(i)') + Got(i)'
                                = Cardinality(InCopies(i)') + (Cardinality(InFrames(i)')
                                    + Cardinality(InMemo(i)') + Got(i)')
                            BY ONLY <4>1, <4>3, <5>1, FirstApart
                        <7> QED
                            BY ONLY <5>3, <7>1
                    <6> QED
                        BY ONLY <6>1, <6>2
                <5>6. k1 + Occ(items, i) + (IF i = j THEN heap[j].refs - refs ELSE 0)
                        = k0 + Occ(heap[j].items, i)
                    BY ONLY <4>5, <5>3, <5>4
                <5>7. PICK o1 \in Nat, o0 \in Nat : o1 = Occ(items, i) /\ o0 = Occ(heap[j].items, i)
                    BY ONLY <4>3
                <5>8. PICK c1 \in Nat, c0 \in Nat :
                        c1 = Cardinality(InCopies(i)') /\ c0 = Cardinality(InCopies(i))
                    BY ONLY <4>1, <5>1
                <5>9. c1 + o0 = c0 + o1
                    BY ONLY <4>1, <5>7, <5>8
                <5>10. heap'[i].refs = c1 + k1
                    <6>1. CASE i = j
                        <7>1. heap'[i].refs = refs
                            BY ONLY <4>2, <6>1
                        <7>2. heap[j].refs = c0 + k0
                            BY ONLY <5>5, <5>8, <6>1
                        <7>3. k1 + o1 + (heap[j].refs - refs) = k0 + o0
                            BY ONLY <5>6, <5>7, <6>1
                        <7>4. k1 + o1 + (c0 + k0 - refs) = k0 + o0
                            BY ONLY <7>2, <7>3
                        <7>5. PICK r \in Nat : r = refs
                            BY ONLY <5>2
                        <7>6. k1 + o1 + (c0 + k0 - r) = k0 + o0
                            BY ONLY <7>4, <7>5
                        <7>7. r = c1 + k1
                            BY ONLY <5>9, <7>6
                        <7> QED
                            BY ONLY <7>1, <7>5, <7>7
                    <6>2. CASE i # j
                        <7>1. k1 + o1 = k0 + o0
                            BY ONLY <5>6, <5>7, <6>2
                        <7>2. heap'[i].refs = c0 + k0
                            BY ONLY <4>2, <5>5, <5>8, <6>2
                        <7> QED
                            BY ONLY <5>9, <7>1, <7>2
                    <6> QED
                        BY ONLY <6>1, <6>2
                <5> QED
                    BY ONLY <5>5, <5>8, <5>10
            <4> QED
                BY <4>6 DEF Held
        <3> QED
            BY <2>18, <3>1, CopiesAt
    <2>19. CASE TupleEnds \/ SetEnds
        <3> DEFINE c == Copy
                   items == Tail(Top.own)
        <3>1. /\ Top.kind \in {"tuple", "set"} /\ Popped /\ result = Pending /\ result' = c
            BY <2>19 DEF TupleEnds, SetEnds
        <3>2. c \in Copies /\ c = Top.own[1] /\ c \in Nat
            BY <2>1, <3>1, TopFramed, NumbersAre DEF Copies, Copy
        <3>3. Top.own # <<>>
            <4>1. Len(Top.own) \in 1 .. Len(X.items) + 1 /\ Len(X.items) \in Nat
                BY <2>1, <3>1, TopLens DEF ItemKinds
            <4>2. Len(Top.own) # 0
                BY <4>1
            <4> QED
                BY <4>2, EmptySeq
        <3>4. /\ items \in Seq(Nat)
              /\ \A i : Occ(Top.own, i) = Occ(items, i) + IF c = i THEN 1 ELSE 0
            BY <2>3, <3>2, <3>3, HeadTailProperties, OccEnds
        <3>5. heap[c].items = <<>> /\ heap[c].refs \in Nat /\ c \in DOMAIN heap
            BY <2>1, <2>4, <3>1, <3>2 DEF Unfilled
        <3>6. PICK refs \in Nat :
                /\ HeapAt(c, items, refs)
                /\ \/ refs = heap[c].refs /\ UNCHANGED memo
                   \/ /\ refs = heap[c].refs + 1 /\ memo' = Memoized(Top.of, c)
                      /\ Top.of \notin DOMAIN memo
            <4>1. /\ TupleEnds => heap' = [heap EXCEPT ![c].items = items] /\ UNCHANGED memo
                  /\ SetEnds =>
                        /\ heap' = [heap EXCEPT ![c].items = items, ![c].refs = @ + 1]
                        /\ memo' = Memoized(Top.of, c) /\ Top.kind = "set"
                BY DEF TupleEnds, SetEnds
            <4>2. Noted(n)
                BY <2>2 DEF ChainInv
            <4> HIDE DEF c, items
            <4>3. /\ TupleEnds => HeapAt(c, items, heap[c].refs)
                  /\ SetEnds => HeapAt(c, items, heap[c].refs + 1)
                BY <3>4, <3>5, <4>1, HeapChanges
            <4>4. SetEnds => Top.of \notin DOMAIN memo
                BY <2>2, <4>1, <4>2 DEF Noted
            <4>5. heap[c].refs + 1 \in Nat
                BY <3>5
            <4> QED
                BY <2>19, <3>5, <4>1, <4>3, <4>4, <4>5
        <3> HIDE DEF c, items
        <3>7. ASSUME NEW i \in Copies
              PROVE  /\ Cardinality(InFrames(i)') \in Nat /\ Cardinality(InMemo(i)') \in Nat
                     /\ Cardinality(InFrames(i)') + Cardinality(InMemo(i)') + Got(i)'
                            + Occ(items, i) + (IF i = c THEN heap[c].refs - refs ELSE 0)
                          = Cardinality(InFrames(i)) + Cardinality(InMemo(i)) + Got(i)
                            + Occ(heap[c].items, i)
            <4>1. /\ Cardinality(InFrames(i)') \in Nat
                  /\ Cardinality(InFrames(i)') + Occ(Top.own, i) = Cardinality(InFrames(i))
                BY <2>1, <3>1, FramesPopped
            <4>2. Occ(items, i) \in Nat /\ Occ(heap[c].items, i) = 0
                BY <3>4, <3>5, OccIs, OccShort
            <4>3. Got(i) = 0
                BY <2>4, <3>1, HeldParts
            <4>4. Got(i)' = IF c = i THEN 1 ELSE 0
                BY <3>1 DEF Got
            <4>5. Occ(Top.own, i) = Occ(items, i) + IF c = i THEN 1 ELSE 0
                BY <3>4
            <4>6. CASE refs = heap[c].refs /\ UNCHANGED memo
                BY <3>5, <4>1, <4>2, <4>3, <4>4, <4>5, <4>6, HeldParts
            <4>7. CASE /\ refs = heap[c].refs + 1 /\ memo' = Memoized(Top.of, c)
                       /\ Top.of \notin DOMAIN memo
                <5>1. /\ Cardinality(InMemo(i)') \in Nat
                      /\ Cardinality(InMemo(i)') = Cardinality(InMemo(i)) + IF c = i THEN 1 ELSE 0
                    BY <4>7, MemoAdded
                <5>2. heap[c].refs - refs = -1
                    BY <3>5, <4>7
                <5> QED
                    BY <4>1, <4>2, <4>3, <4>4, <4>5, <5>1, <5>2, HeldParts
            <4> QED
                BY <3>6, <4>6, <4>7
        <3> QED
            BY <2>18, <3>2, <3>4, <3>6, <3>7
    <2>20. CASE TraverseEnds
        BY <1>2, <2>2, <2>3, <2>20 DEF TraverseEnds, Framed
    <2>21. CASE CallEnds
        <3>1. PICK own \in Seq(Nat) : IsMemoOf(own) /\ Became(Frame("release", Root, own))
            BY <2>21 DEF CallEnds
        <3> DEFINE f == Frame("release", Root, own)
        <3>2. f.own = own /\ Became(f)
            BY <3>1 DEF Frame
        <3> HIDE DEF f
        <3>3. UNCHANGED <<heap, result>> /\ memo' = <<>> /\ Top.own = <<>>
            BY <2>1, <2>21, TopOwnsNone DEF CallEnds
        <3>4. ASSUME NEW i \in Copies
              PROVE  heap'[i].refs = Held(i)'
            <4>1. Occ(own, i) = Cardinality(InMemo(i)) /\ Occ(Top.own, i) = 0
                BY <3>1, <3>3, MemoHanded, OccShort
            <4>2. /\ Cardinality(InFrames(i)') \in Nat
                  /\ Cardinality(InFrames(i)') + Occ(Top.own, i)
                        = Cardinality(InFrames(i)) + Occ(f.own, i)
                BY <2>1, <3>2, FramesBecame
            <4>3. InMemo(i)' = {} /\ Cardinality({}) = 0
                BY <3>3, FS_EmptySet DEF InMemo
            <4>4. /\ Cardinality(InCopies(i)') = Cardinality(InCopies(i)) /\ Got(i)' = Got(i)
                BY <3>3, CopiesSame, HeldParts
            <4>5. Cardinality(InFrames(i)') = Cardinality(InFrames(i)) + Cardinality(InMemo(i))
                BY <3>2, <4>1, <4>2, HeldParts
            <4> QED
                BY <2>5, <3>3, <4>3, <4>4, <4>5, HeldParts DEF Held
        <3> QED
            BY <3>3, <3>4, CopiesSame
    <2>22. CASE ReleaseImmortal
        <3> DEFINE f == Frame("release", Top.of, Front(Top.own))
        <3>1. /\ f.own = Front(Top.own) /\ Became(f) /\ UNCHANGED <<heap, memo, result>>
              /\ Top.own # <<>> /\ Last(Top.own) \in Immortals
            BY <2>22 DEF ReleaseImmortal, Releases, Frame
        <3> HIDE DEF f
        <3>2. ASSUME NEW i \in Copies
              PROVE  /\ Cardinality(InFrames(i)') \in Nat
                     /\ Cardinality(InFrames(i)') + Got(i)' = Cardinality(InFrames(i)) + Got(i)
            <4>1. /\ Cardinality(InFrames(i)') \in Nat
                  /\ Cardinality(InFrames(i)') + Occ(Top.own, i)
                        = Cardinality(InFrames(i)) + Occ(f.own, i)
                  /\ f.own \in Seq(Nat)
                BY <2>1, <3>1, FramesBecame
            <4>2. Last(Top.own) # i
                BY <3>1 DEF Copies
            <4>3. Occ(Top.own, i) = Occ(f.own, i) + 0 /\ Occ(f.own, i) \in Nat
                BY <2>3, <3>1, <4>1, <4>2, OccEnds, OccIs
            <4> QED
                BY <3>1, <4>1, <4>3, HeldParts
        <3> QED
            BY <2>12, <3>1, <3>2
    <2>23. CASE ReleaseOne \/ ReleaseLast
        <3> DEFINE l == Last(Top.own)
        <3>1. /\ UNCHANGED <<memo, result>> /\ Top.own # <<>> /\ l \notin Immortals
              /\ Top.kind = "release"
            BY <2>23 DEF ReleaseOne, ReleaseLast, Releases
        <3>2. /\ Len(Top.own) \in Nat \ {0} /\ l = Top.own[Len(Top.own)] /\ l \in Nat
              /\ Front(Top.own) \in Seq(Nat)
            BY <2>3, <3>1, LastIs
        <3>3. l \in Copies /\ heap[l].refs \in Nat /\ heap[l].items \in Seq(Nat)
              /\ l \in DOMAIN heap
            <4>1. Len(Top.own) \in 1 .. Len(Top.own)
                BY <3>2
            <4>2. l \in Copies
                BY <2>1, <3>1, <3>2, <4>1, TopFramed DEF Copies
            <4> QED
                BY <4>2, CopiesAre
        <3>4. \A i : Occ(Top.own, i) = Occ(Front(Top.own), i) + IF l = i THEN 1 ELSE 0
            BY <2>3, <3>1, OccEnds
        <3>5. CASE ReleaseOne
            <4> DEFINE f == Frame("release", Top.of, Front(Top.own))
                       items == heap[l].items
            <4>1. /\ f.own = Front(Top.own) /\ Became(f) /\ heap[l].refs > 1
                  /\ heap' = [heap EXCEPT ![l].refs = @ - 1]
                BY <3>5 DEF ReleaseOne, Frame
            <4>2. heap[l].refs - 1 \in Nat
                BY <3>3, <4>1
            <4> HIDE DEF f, l
            <4>3. HeapAt(l, items, heap[l].refs - 1)
                BY <3>3, <4>1, HeapChanges
            <4>4. ASSUME NEW i \in Copies
                  PROVE  /\ Cardinality(InFrames(i)') \in Nat /\ Cardinality(InMemo(i)') \in Nat
                         /\ Cardinality(InFrames(i)') + Cardinality(InMemo(i)') + Got(i)'
                              + Occ(items, i)
                              + (IF i = l THEN heap[l].refs - (heap[l].refs - 1) ELSE 0)
                            = Cardinality(InFrames(i)) + Cardinality(InMemo(i)) + Got(i)
                              + Occ(heap[l].items, i)
                <5>1. /\ Cardinality(InFrames(i)') \in Nat
                      /\ Cardinality(InFrames(i)') + Occ(Top.own, i)
                            = Cardinality(InFrames(i)) + Occ(f.own, i)
                    BY <2>1, <4>1, FramesBecame
                <5>2. Occ(f.own, i) \in Nat /\ Occ(items, i) \in Nat
                    BY <3>2, <3>3, <4>1, OccIs
                <5>3. Occ(Top.own, i) = Occ(f.own, i) + IF l = i THEN 1 ELSE 0
                    BY <3>4, <4>1
                <5>4. heap[l].refs - (heap[l].refs - 1) = 1
                    BY <3>3
                <5>5. /\ Cardinality(InFrames(i)) \in Nat /\ Cardinality(InMemo(i)) \in Nat
                      /\ Cardinality(InMemo(i)') = Cardinality(InMemo(i))
                      /\ Got(i) \in Nat /\ Got(i)' = Got(i)
                    BY <3>1, HeldParts
                <5>6. Cardinality(InFrames(i)') + (IF i = l THEN 1 ELSE 0)
                        = Cardinality(InFrames(i))
                    <6>1. CASE i = l
                        BY ONLY <5>1, <5>2, <5>3, <5>5, <6>1
                    <6>2. CASE i # l
                        BY ONLY <5>1, <5>2, <5>3, <5>5, <6>2
                    <6> QED
                        BY ONLY <6>1, <6>2
                <5>7. (IF i = l THEN heap[l].refs - (heap[l].refs - 1) ELSE 0) = (IF i = l THEN 1 ELSE 0)
                    BY ONLY <5>4
                <5>8. PICK e \in Nat : e = (IF i = l THEN 1 ELSE 0)
                    OBVIOUS
                <5> QED
                    BY ONLY <5>1, <5>2, <5>5, <5>6, <5>7, <5>8
            <4> QED
                BY <2>18, <3>3, <4>2, <4>3, <4>4
        <3>6. CASE ReleaseLast
            <4> DEFINE f == Frame("release", Top.of, Front(Top.own) \o heap[l].items)
            <4>1. /\ f.own = Front(Top.own) \o heap[l].items /\ Became(f)
                  /\ ~(heap[l].refs > 1)
                  /\ heap' = [heap EXCEPT ![l].refs = 0, ![l].items = <<>>]
                BY <3>6 DEF ReleaseLast, Frame
            <4> HIDE DEF f, l
            <4>2. HeapAt(l, <<>>, 0) /\ <<>> \in Seq(Nat)
                BY <3>3, <4>1, HeapChanges, EmptySeq
            <4>3. heap[l].refs = 1
                <5>1. <<n, Len(Top.own)>> \in InFrames(l)
                    <6>1. Len(Top.own) \in DOMAIN Top.own
                        BY <2>3, <3>2, LenProperties
                    <6> QED
                        BY <2>2, <3>2, <6>1 DEF InFrames, Places
                <5>2. Cardinality(InFrames(l)) # 0
                    BY <5>1, HeldFinite, FS_EmptySet
                <5>3. heap[l].refs >= 1
                    BY <2>5, <3>3, <5>2, HeldParts DEF Held
                <5> QED
                    BY <3>3, <4>1, <5>3
            <4>4. ASSUME NEW i \in Copies
                  PROVE  /\ Cardinality(InFrames(i)') \in Nat /\ Cardinality(InMemo(i)') \in Nat
                         /\ Cardinality(InFrames(i)') + Cardinality(InMemo(i)') + Got(i)'
                              + Occ(<<>>, i)
                              + (IF i = l THEN heap[l].refs - 0 ELSE 0)
                            = Cardinality(InFrames(i)) + Cardinality(InMemo(i)) + Got(i)
                              + Occ(heap[l].items, i)
                <5>1. /\ Cardinality(InFrames(i)') \in Nat
                      /\ Cardinality(InFrames(i)') + Occ(Top.own, i)
                            = Cardinality(InFrames(i)) + Occ(f.own, i)
                    BY <2>1, <4>1, FramesBecame
                <5>2. /\ Occ(f.own, i) = Occ(Front(Top.own), i) + Occ(heap[l].items, i)
                      /\ Occ(Front(Top.own), i) \in Nat /\ Occ(heap[l].items, i) \in Nat
                    BY <3>2, <3>3, <4>1, OccConcat, OccIs
                <5>3. Occ(Top.own, i) = Occ(Front(Top.own), i) + IF l = i THEN 1 ELSE 0
                    BY <3>4
                <5>4. Occ(<<>>, i) = 0 /\ heap[l].refs - 0 = 1
                    BY <4>3, OccShort
                <5>5. /\ Cardinality(InFrames(i)) \in Nat /\ Cardinality(InMemo(i)) \in Nat
                      /\ Cardinality(InMemo(i)') = Cardinality(InMemo(i))
                      /\ Got(i) \in Nat /\ Got(i)' = Got(i)
                    BY <3>1, HeldParts
                <5>6. Cardinality(InFrames(i)') + (IF i = l THEN 1 ELSE 0)
                        = Cardinality(InFrames(i)) + Occ(heap[l].items, i)
                    <6>1. CASE i = l
                        BY ONLY <5>1, <5>2, <5>3, <5>5, <6>1
                    <6>2. CASE i # l
                        BY ONLY <5>1, <5>2, <5>3, <5>5, <6>2
                    <6> QED
                        BY ONLY <6>1, <6>2
                <5>7. (IF i = l THEN heap[l].refs - 0 ELSE 0) = (IF i = l THEN 1 ELSE 0)
                    BY ONLY <5>4
                <5>8. PICK e \in Nat : e = (IF i = l THEN 1 ELSE 0)
                    OBVIOUS
                <5>9. Occ(<<>>, i) = 0
                    BY OccShort
                <5>10. Cardinality(InFrames(i)') + Cardinality(InMemo(i)) + Got(i) + 0 + e
                        = Cardinality(InFrames(i)) + Cardinality(InMemo(i)) + Got(i)
                          + Occ(heap[l].items, i)
                    <6>1. Cardinality(InFrames(i)') + e
                            = Cardinality(InFrames(i)) + Occ(heap[l].items, i)
                        BY ONLY <5>6, <5>8
                    <6>2. PICK f1 \in Nat, f0 \in Nat, m \in Nat, g \in Nat, h \in Nat :
                            /\ f1 = Cardinality(InFrames(i)') /\ f0 = Cardinality(InFrames(i))
                            /\ m = Cardinality(InMemo(i)) /\ g = Got(i)
                            /\ h = Occ(heap[l].items, i)
                        BY ONLY <5>1, <5>2, <5>5
                    <6>3. f1 + e = f0 + h
                        BY ONLY <6>1, <6>2
                    <6>4. f1 + m + g + 0 + e = f0 + m + g + h
                        BY ONLY <6>3
                    <6> QED
                        BY ONLY <6>2, <6>4
                <5> QED
                    BY ONLY <5>1, <5>5, <5>7, <5>8, <5>9, <5>10
            <4> QED
                BY <2>18, <3>3, <4>2, <4>4
        <3> QED
            BY <2>23, <3>5, <3>6
    <2>24. ~FreezeKnown /\ ~FreezeRaises /\ ~FreezeStarts
        BY <1>2 DEF FreezeKnown, FreezeRaises, FreezeStarts
    <2> QED
        BY <2>7, <2>8, <2>10, <2>11, <2>13, <2>14, <2>15, <2>16, <2>17, <2>19, <2>20, <2>21,
           <2>22, <2>23, <2>24 DEF Steps
<1> QED
    BY <1>1, <1>2

(***************************************************************************)
(* What has been copied, what is being copied, and what is returned.       *)
(***************************************************************************)
\* i is the copy of x, or an immortal that serves as one.
IsCopy(x, i) == (x \in DOMAIN memo /\ i = memo[x]) \/ i \in ImmortalsOf(x)
LikeOriginal(x, i) ==
    heap[i].pair = graph[x].pair /\ heap[i].mutable = ~Freeze(x)
Filled(x, items) ==
    /\ Len(items) = Len(graph[x].items)
    /\ \A k \in DOMAIN graph[x].items : IsCopy(graph[x].items[k], items[k])
Gathering(p, x) == stack[p].kind = "tuple" /\ stack[p].of = x
\* The copy of x is like it, with the copies of its items; those of a tuple
\* may still be gathered.
Copied(x) ==
    /\ memo[x] \in Copies /\ ImmortalsOf(x) = {} /\ LikeOriginal(x, memo[x])
    /\ Filled(x, heap[memo[x]].items) \/ \E p \in DOMAIN stack : Gathering(p, x)
MakesCopy(p) == stack[p].kind \in {"tuple", "set"}
\* What a frame that copies has made: its copy, still empty, and those of the
\* items before the next.
Made(p) ==
    LET x == stack[p].of
        own == stack[p].own
    IN  /\ own[1] \in Copies /\ LikeOriginal(x, own[1]) /\ heap[own[1]].items = <<>>
        /\ ImmortalsOf(x) = {}
        /\ \A l \in 2 .. Len(own) : IsCopy(graph[x].items[l - 1], own[l])
        /\ stack[p].kind = "tuple" => memo[x] = own[1]
        /\ stack[p].kind = "set" => \A y \in DOMAIN memo : memo[y] # own[1]
\* Two sets that are copied do not share a copy, and no two originals do.
Apart(p, q) ==
    /\ stack[p].kind = "set" /\ stack[q].kind = "set"
    /\ stack[p].own[1] = stack[q].own[1]
    => p = q
OneToOne(x, y) == memo[x] = memo[y] => x = y
CopyInv ==
    mode # "deepfreeze" /\ result # Exception /\ ~Finishing =>
        /\ \A x \in DOMAIN memo : Copied(x)
        /\ \A x, y \in DOMAIN memo : OneToOne(x, y)
        /\ \A p \in DOMAIN stack : MakesCopy(p) => Made(p)
        /\ \A p, q \in DOMAIN stack : Apart(p, q)
        /\ result # Pending => IsCopy(Wanted, result)

\* What a step keeps of the memo and of a copy.
MemoGrows ==
    DOMAIN memo \subseteq DOMAIN memo' /\ \A y \in DOMAIN memo : memo'[y] = memo[y]
Steady(j) ==
    /\ heap'[j].pair = heap[j].pair /\ heap'[j].mutable = heap[j].mutable
    /\ heap'[j].items = heap[j].items

\* Nothing is copied initially.
LEMMA CopyInit ==
    ASSUME Init
    PROVE  CopyInv
<1>1. /\ memo = <<>> /\ result = Pending /\ TypeInv
      /\ stack = <<Frame("call", Root, <<>>), Visit(Root)>>
    BY TypeInit DEF Init
<1>2. DOMAIN memo = {}
    BY <1>1
<1>3. /\ DOMAIN stack = {1, 2} /\ stack[1].kind = "call" /\ stack[2].kind = "visit"
    BY <1>1 DEF Frame, Visit
<1>4. \A p \in DOMAIN stack : ~MakesCopy(p) /\ stack[p].kind # "set"
    BY <1>3 DEF MakesCopy
<1> QED
    BY <1>1, <1>2, <1>4 DEF CopyInv, Apart

\* An object has one immortal copy at most, which is like it.
LEMMA ImmortalsOne ==
    ASSUME TypeInv, NEW x \in Obj
    PROVE  /\ \A i, j \in ImmortalsOf(x) : i = j
           /\ \A i \in ImmortalsOf(x) :
                /\ i \in Immortals /\ heap[i].items = <<>> /\ graph[x].items = <<>>
                /\ LikeOriginal(x, i) /\ heap[i].refs = 1
<1>1. Immortals = 1 .. 4
    BY ImmortalsAre
<1>2. /\ ImmortalObjects[1].pair = "small" /\ ImmortalObjects[2].pair = "tuple"
      /\ ImmortalObjects[3].pair = "set" /\ ImmortalObjects[4].pair = "None"
    BY DEF ImmortalObjects, Counted, Node
<1>3. \A i \in Immortals : i = 1 \/ i = 2 \/ i = 3 \/ i = 4
    BY <1>1
<1>4. \A i, j \in Immortals : ImmortalObjects[i].pair = ImmortalObjects[j].pair => i = j
    BY <1>2, <1>3
<1>5. \A i \in ImmortalsOf(x) :
        /\ i \in Immortals /\ Freeze(x) /\ graph[x].items = <<>>
        /\ ImmortalObjects[i].pair = graph[x].pair
    BY DEF ImmortalsOf
<1>6. \A i \in Immortals : heap[i] = ImmortalObjects[i]
    BY DEF TypeInv
<1>7. \A i \in Immortals : /\ heap[i].items = <<>> /\ heap[i].refs = 1
                           /\ heap[i].mutable = FALSE
    BY <1>1, <1>6, ImmortalsAre, ImmortalsNumbered, CopyIs
<1>8. \A i \in ImmortalsOf(x) :
        /\ i \in Immortals /\ heap[i].items = <<>> /\ graph[x].items = <<>>
        /\ heap[i].refs = 1 /\ heap[i].pair = graph[x].pair
        /\ heap[i].mutable = FALSE /\ Freeze(x)
    BY <1>5, <1>6, <1>7
<1>9. \A i \in ImmortalsOf(x) : LikeOriginal(x, i)
    BY <1>8 DEF LikeOriginal
<1>10. \A i, j \in ImmortalsOf(x) : i = j
    BY <1>4, <1>5
<1> QED
    BY <1>8, <1>9, <1>10

\* While the graph stays, a copy is one.
LEMMA ImmortalsStay ==
    ASSUME UNCHANGED <<graph, mode>>, NEW x
    PROVE  ImmortalsOf(x)' = ImmortalsOf(x) /\ Freeze(x)' = Freeze(x)
<1>1. Immortals' = Immortals /\ ImmortalObjects' = ImmortalObjects
    BY DEF Immortals, ImmortalObjects
<1>2. Freeze(x)' = Freeze(x)
    BY DEF Freeze
<1> QED
    BY <1>1, <1>2 DEF ImmortalsOf

\* A copy of an object stays one.
LEMMA IsCopyKept ==
    ASSUME UNCHANGED <<graph, mode>>, MemoGrows, NEW x, NEW i, IsCopy(x, i)
    PROVE  IsCopy(x, i)'
BY ImmortalsStay DEF IsCopy, MemoGrows

\* What is filled with the copies of an object's items stays so.
LEMMA FilledKept ==
    ASSUME UNCHANGED <<graph, mode>>, MemoGrows, NEW x, NEW items, Filled(x, items)
    PROVE  Filled(x, items)'
<1>1. ASSUME NEW k \in DOMAIN graph[x].items
      PROVE  IsCopy(graph[x].items[k], items[k])'
    <2>1. PICK y : y = graph[x].items[k] /\ IsCopy(y, items[k])
        BY DEF Filled
    <2>2. PICK i : i = items[k]
        OBVIOUS
    <2>3. IsCopy(y, i)'
        BY <2>1, <2>2, IsCopyKept
    <2> QED
        BY <2>1, <2>2, <2>3
<1> QED
    BY <1>1 DEF Filled

\* A copy that stays the same stays like its original.
LEMMA LikeKept ==
    ASSUME UNCHANGED <<graph, mode>>, NEW x, NEW i, LikeOriginal(x, i), Steady(i)
    PROVE  LikeOriginal(x, i)'
BY ImmortalsStay DEF LikeOriginal, Steady

\* What has been copied stays so.
LEMMA CopiedKept ==
    ASSUME TypeInv, UNCHANGED <<graph, mode>>, MemoGrows, DOMAIN heap \subseteq DOMAIN heap',
           NEW x \in DOMAIN memo, Copied(x), Steady(memo[x]),
           \A p \in DOMAIN stack : Gathering(p, x) => p \in DOMAIN stack' /\ Gathering(p, x)'
    PROVE  Copied(x)'
<1>1. PICK i : i = memo[x] /\ i = memo'[x]
    BY DEF MemoGrows
<1>2. i \in Copies'
    BY <1>1 DEF Copied, Copies, Immortals, ImmortalObjects
<1>3. LikeOriginal(x, i)'
    BY <1>1, LikeKept DEF Copied
<1>4. ImmortalsOf(x)' = {}
    BY ImmortalsStay DEF Copied
<1>5. CASE Filled(x, heap[memo[x]].items)
    <2>1. PICK items : items = heap[i].items /\ Filled(x, items)
        BY <1>1, <1>5
    <2>2. Filled(x, items)' /\ items = heap'[memo'[x]].items
        BY <1>1, <2>1, FilledKept DEF Steady
    <2>3. Filled(x, heap[memo[x]].items)'
        BY <2>2
    <2> QED
        BY <1>1, <1>2, <1>3, <1>4, <2>3 DEF Copied
<1>6. CASE \E p \in DOMAIN stack : Gathering(p, x)
    BY <1>1, <1>2, <1>3, <1>4, <1>6 DEF Copied
<1> QED
    BY <1>5, <1>6 DEF Copied

\* What is under way stays so.
LEMMA MadeKept ==
    ASSUME TypeInv, UNCHANGED <<graph, mode>>, MemoGrows, DOMAIN heap \subseteq DOMAIN heap',
           NEW p \in DOMAIN stack, Made(p), stack'[p] = stack[p], Steady(stack[p].own[1]),
           stack[p].kind = "tuple" => stack[p].of \in DOMAIN memo,
           stack[p].kind = "set" =>
                \A y \in DOMAIN memo' \ DOMAIN memo : memo'[y] # stack[p].own[1]
    PROVE  Made(p)'
<1>1. PICK x, own : x = stack[p].of /\ own = stack[p].own
    OBVIOUS
<1>2. PICK i : i = own[1]
    OBVIOUS
<1>3. i \in Copies' /\ heap'[i].items = <<>>
    BY <1>1, <1>2 DEF Made, Copies, Immortals, ImmortalObjects, Steady
<1>4. LikeOriginal(x, i)' /\ ImmortalsOf(x)' = {}
    BY <1>1, <1>2, LikeKept, ImmortalsStay DEF Made
<1>5. ASSUME NEW l \in 2 .. Len(own)
      PROVE  IsCopy(graph[x].items[l - 1], own[l])'
    <2>1. PICK y, j : y = graph[x].items[l - 1] /\ j = own[l] /\ IsCopy(y, j)
        BY <1>1 DEF Made
    <2>2. IsCopy(y, j)'
        BY <2>1, IsCopyKept
    <2> QED
        BY <2>1, <2>2
<1>6. stack[p].kind = "tuple" => memo'[x] = i
    BY <1>1, <1>2 DEF Made, MemoGrows
<1>7. stack[p].kind = "set" => \A y \in DOMAIN memo' : memo'[y] # i
    BY <1>1, <1>2 DEF Made, MemoGrows
<1> QED
    BY <1>1, <1>2, <1>3, <1>4, <1>5, <1>6, <1>7 DEF Made

\* The steps of a copy that goes on.
LEMMA CopyRuns ==
    ASSUME TypeInv, StackInv, Steps, mode # "deepfreeze", result' # Exception, ~Finishing'
    PROVE  /\ result # Exception /\ ~Finishing /\ Len(stack) > 1
           /\ \/ VisitKnown \/ VisitImmortal \/ VisitMakes \/ TupleStarts \/ SetStarts
              \/ ItemStarts \/ ItemEnds \/ TupleEnds \/ SetEnds
<1>1. Len(stack) > 1 /\ ~Finishing
    BY FinishingIs
<1>2. result # Exception
    BY ExceptionKept
<1>3. stack # <<>>
    BY StepIs
<1>4. ~VisitRaises /\ ~TupleRaises /\ ~ItemRefused /\ ~ItemsGivenUp
    BY DEF VisitRaises, TupleRaises, ItemRefused, ItemsGivenUp
<1>5. ~FreezeKnown /\ ~FreezeRaises /\ ~FreezeStarts
    BY DEF FreezeKnown, FreezeRaises, FreezeStarts
<1>6. Top.kind # "release" /\ Top.kind # "call"
    <2>1. Top.kind = "call" => Len(stack) = 1
        BY <1>3, Above
    <2>2. Top.kind = "release" /\ Len(stack) > 1 => result = Exception
        BY <1>3, Above
    <2>3. Len(stack) # 1
        <3>1. PICK n \in Nat : n = Len(stack)
            BY <1>3, TopIs
        <3>2. n > 1
            BY <1>1, <3>1
        <3>3. n # 1
            BY <3>2
        <3> QED
            BY <3>1, <3>3, SMTT(30)
    <2> QED
        BY ONLY <1>1, <1>2, <2>1, <2>2, <2>3
<1>7. ~ReleaseImmortal /\ ~ReleaseOne /\ ~ReleaseLast /\ ~ReleaseEnds /\ ~CallEnds
    BY <1>6 DEF ReleaseImmortal, ReleaseOne, ReleaseLast, ReleaseEnds, CallEnds, Releases
<1>8. ~TraverseEnds
    BY <1>3, TopFramed, TopIs DEF TraverseEnds, Framed
<1> QED
    BY <1>1, <1>2, <1>4, <1>5, <1>7, <1>8 DEF Steps

\* The frames below the top, and what becomes of it.
LEMMA Below ==
    ASSUME TypeInv, stack # <<>>, NEW n, n = Len(stack)
    PROVE  /\ n \in Nat \ {0} /\ DOMAIN stack = 1 .. n /\ Top = stack[n] /\ n \in DOMAIN stack
           /\ \A p \in DOMAIN stack : p = n \/ p \in 1 .. n - 1
           /\ \A p \in 1 .. n - 1 : p \in DOMAIN stack /\ p # n
           /\ Popped =>
                /\ DOMAIN stack' = 1 .. n - 1 /\ n \notin DOMAIN stack'
                /\ \A p \in 1 .. n - 1 : stack'[p] = stack[p]
           /\ \A f : Became(f) =>
                /\ DOMAIN stack' = DOMAIN stack /\ stack'[n] = f
                /\ \A p \in 1 .. n - 1 : stack'[p] = stack[p]
           /\ \A f : Pushed(f) =>
                /\ DOMAIN stack' = 1 .. n + 1 /\ stack'[n + 1] = f
                /\ \A p \in DOMAIN stack : stack'[p] = stack[p]
<1>1. n \in Nat \ {0} /\ DOMAIN stack = 1 .. n /\ Top = stack[n]
    BY TopIs
<1>2. n \in DOMAIN stack /\ \A p \in DOMAIN stack : p = n \/ p \in 1 .. n - 1
    BY <1>1
<1>3. \A p \in 1 .. n - 1 : p \in DOMAIN stack /\ p # n
    BY <1>1
<1>4. ASSUME Popped
      PROVE  /\ DOMAIN stack' = 1 .. n - 1 /\ n \notin DOMAIN stack'
             /\ \A p \in 1 .. n - 1 : stack'[p] = stack[p]
    <2>1. DOMAIN stack' = 1 .. Len(stack')
        BY <1>4, LenProperties DEF Popped
    <2> QED
        BY <1>1, <1>4, <2>1 DEF Popped
<1>5. ASSUME NEW f, Became(f)
      PROVE  /\ DOMAIN stack' = DOMAIN stack /\ stack'[n] = f
             /\ \A p \in 1 .. n - 1 : stack'[p] = stack[p]
    <2>1. DOMAIN stack' = 1 .. Len(stack')
        BY <1>5, LenProperties DEF Became
    <2> QED
        BY <1>1, <1>5, <2>1 DEF Became
<1>6. ASSUME NEW f, Pushed(f)
      PROVE  /\ DOMAIN stack' = 1 .. n + 1 /\ stack'[n + 1] = f
             /\ \A p \in DOMAIN stack : stack'[p] = stack[p]
    <2>1. DOMAIN stack' = 1 .. Len(stack')
        BY <1>6, LenProperties DEF Pushed
    <2> QED
        BY <1>1, <1>6, <2>1 DEF Pushed
<1> QED
    BY <1>1, <1>2, <1>3, <1>4, <1>5, <1>6

\* A copy goes on when what is new is as it should be, and what was there
\* stays.
LEMMA CopyMoves ==
    ASSUME TypeInv, StackInv, ChainInv, CopyInv, mode # "deepfreeze", result # Exception,
           ~Finishing, UNCHANGED <<graph, mode>>, MemoGrows, DOMAIN heap \subseteq DOMAIN heap',
           stack # <<>>, NEW n, n = Len(stack),
           \A p \in 1 .. n - 1 : p \in DOMAIN stack' /\ stack'[p] = stack[p],
           \A p \in DOMAIN stack' : p \in 1 .. n - 1 \/ p = n \/ stack'[p].kind = "visit",
           n \in DOMAIN stack' /\ MakesCopy(n)' => Made(n)',
           n \in DOMAIN stack' /\ stack'[n].kind = "set" =>
                \A q \in 1 .. n - 1 : stack[q].kind = "set" =>
                    stack[q].own[1] # stack'[n].own[1],
           \A x \in DOMAIN memo :
                \/ Copied(x)'
                \/ /\ Steady(memo[x])
                   /\ Gathering(n, x) => n \in DOMAIN stack' /\ Gathering(n, x)',
           \A x \in DOMAIN memo' \ DOMAIN memo :
                /\ Copied(x)' /\ \A y \in DOMAIN memo' : memo'[y] = memo'[x] => x = y
                /\ \A p \in 1 .. n - 1 : MakesCopy(p) => stack[p].own[1] # memo'[x],
           \A p \in 1 .. n - 1 : MakesCopy(p) => Steady(stack[p].own[1]),
           result' # Pending => IsCopy(Wanted, result)'
    PROVE  CopyInv'
<1>1. /\ n \in Nat \ {0} /\ DOMAIN stack = 1 .. n /\ n \in DOMAIN stack
      /\ \A p \in DOMAIN stack : p = n \/ p \in 1 .. n - 1
      /\ \A p \in 1 .. n - 1 : p \in DOMAIN stack /\ p # n
    BY Below
<1>2. /\ \A x \in DOMAIN memo : Copied(x)
      /\ \A x, y \in DOMAIN memo : OneToOne(x, y)
      /\ \A p \in DOMAIN stack : MakesCopy(p) => Made(p)
      /\ \A p, q \in DOMAIN stack : Apart(p, q)
    BY DEF CopyInv
<1>3. ASSUME NEW x \in DOMAIN memo'
      PROVE  Copied(x)'
    <2>1. CASE x \in DOMAIN memo /\ Steady(memo[x])
                /\ (Gathering(n, x) => n \in DOMAIN stack' /\ Gathering(n, x)')
        <3>1. ASSUME NEW p \in DOMAIN stack, Gathering(p, x)
              PROVE  p \in DOMAIN stack' /\ Gathering(p, x)'
            <4>1. CASE p = n
                BY <2>1, <3>1, <4>1
            <4>2. CASE p \in 1 .. n - 1
                <5>1. p \in DOMAIN stack' /\ stack'[p] = stack[p]
                    BY <4>2
                <5> QED
                    BY <3>1, <5>1 DEF Gathering
            <4> QED
                BY <1>1, <4>1, <4>2
        <3> QED
            BY <1>2, <2>1, <3>1, CopiedKept
    <2> QED
        BY <2>1
<1>4. ASSUME NEW x \in DOMAIN memo', NEW y \in DOMAIN memo'
      PROVE  OneToOne(x, y)'
    <2>1. CASE x \in DOMAIN memo /\ y \in DOMAIN memo
        BY <1>2, <2>1 DEF OneToOne, MemoGrows
    <2>2. CASE x \notin DOMAIN memo \/ y \notin DOMAIN memo
        BY <2>2 DEF OneToOne
    <2> QED
        BY <2>1, <2>2
<1>5. ASSUME NEW p \in 1 .. n - 1, MakesCopy(p)
      PROVE  Made(p)'
    <2>1. p \in DOMAIN stack /\ Made(p) /\ Noted(p) /\ stack'[p] = stack[p]
        BY <1>1, <1>2, <1>5 DEF ChainInv
    <2>2. /\ Steady(stack[p].own[1])
          /\ \A y \in DOMAIN memo' \ DOMAIN memo : memo'[y] # stack[p].own[1]
        BY <1>5
    <2>3. stack[p].kind = "tuple" => stack[p].of \in DOMAIN memo
        BY <2>1 DEF Noted
    <2> QED
        BY <2>1, <2>2, <2>3, MadeKept
<1>6. ASSUME NEW p \in DOMAIN stack', MakesCopy(p)'
      PROVE  Made(p)'
    <2>1. p = n \/ p \in 1 .. n - 1
        BY <1>6 DEF MakesCopy
    <2>2. CASE p \in 1 .. n - 1
        <3>1. MakesCopy(p)
            BY <1>6, <2>2 DEF MakesCopy
        <3> QED
            BY <1>5, <2>2, <3>1
    <2> QED
        BY <1>6, <2>1, <2>2
<1>7. ASSUME NEW p \in DOMAIN stack', NEW q \in DOMAIN stack'
      PROVE  Apart(p, q)'
    <2>1. SUFFICES ASSUME stack'[p].kind = "set", stack'[q].kind = "set",
                          stack'[p].own[1] = stack'[q].own[1]
                   PROVE  p = q
        BY DEF Apart
    <2>2. (p = n \/ p \in 1 .. n - 1) /\ (q = n \/ q \in 1 .. n - 1)
        BY <2>1
    <2>3. CASE p \in 1 .. n - 1 /\ q \in 1 .. n - 1
        BY <1>1, <1>2, <2>1, <2>3 DEF Apart
    <2>4. CASE p = n /\ q \in 1 .. n - 1
        BY <2>1, <2>4
    <2>5. CASE q = n /\ p \in 1 .. n - 1
        BY <2>1, <2>5
    <2> QED
        BY <2>2, <2>3, <2>4, <2>5
<1> QED
    BY <1>3, <1>4, <1>6, <1>7 DEF CopyInv

\* A copy that exists, or an immortal, is returned.
LEMMA CopyFinds ==
    ASSUME TypeInv, StackInv, ChainInv, CalledInv, CopyInv, mode # "deepfreeze",
           result' # Exception, ~Finishing', VisitKnown \/ VisitImmortal
    PROVE  CopyInv'
<1>1. result # Exception /\ ~Finishing /\ Len(stack) > 1 /\ stack # <<>> /\ GraphKept
    <2>1. Steps
        BY DEF Steps
    <2> QED
        BY <2>1, CopyRuns, StepIs
<1>2. PICK n : n = Len(stack)
    OBVIOUS
<1>3. /\ Popped /\ UNCHANGED <<graph, mode, memo>> /\ Top.kind = "visit"
    BY DEF VisitKnown, VisitImmortal, Visits, Underneath, Unmoved
<1>4. /\ \A j \in DOMAIN heap : Steady(j) /\ j \in DOMAIN heap'
    <2>1. CASE UNCHANGED heap
        BY <2>1 DEF Steady
    <2>2. CASE ~UNCHANGED heap
        <3>1. PICK v : v = memo[Top.of] /\ Top.of \in DOMAIN memo /\ heap' = IncRef(heap, v)
            BY <2>2 DEF VisitKnown, VisitImmortal, Unmoved, Known
        <3>2. v \in DOMAIN heap /\ heap' = [heap EXCEPT ![v].refs = @ + 1]
            BY <2>2, <3>1 DEF TypeInv, IncRef
        <3>3. heap[v].items \in Seq(Nat)
            BY <3>2, CopyIs
        <3>4. HeapAt(v, heap[v].items, heap[v].refs + 1)
            BY <3>2, <3>3, HeapChanges
        <3>5. \A j \in 1 .. Len(heap) : Steady(j)
            BY <3>4 DEF HeapAt, Steady
        <3> QED
            BY <3>4, <3>5, NumbersAre, LenProperties DEF HeapAt
    <2> QED
        BY <2>1, <2>2
<1>5. MemoGrows /\ DOMAIN heap \subseteq DOMAIN heap' /\ DOMAIN memo' = DOMAIN memo
    BY <1>3, <1>4 DEF MemoGrows
<1>6. /\ n \in Nat \ {0} /\ n \notin DOMAIN stack' /\ Top = stack[n]
      /\ \A p \in 1 .. n - 1 : p \in DOMAIN stack' /\ stack'[p] = stack[p]
      /\ \A p \in DOMAIN stack' : p \in 1 .. n - 1
      /\ \A p \in 1 .. n - 1 : p \in DOMAIN stack
    BY <1>1, <1>2, <1>3, Below
<1>7. \A x \in DOMAIN memo : memo[x] \in DOMAIN heap
    BY DEF TypeInv
<1>8. ASSUME NEW x \in DOMAIN memo
      PROVE  Steady(memo[x]) /\ ~Gathering(n, x)
    BY <1>3, <1>4, <1>6, <1>7 DEF Gathering
<1>9. ASSUME NEW p \in 1 .. n - 1, MakesCopy(p)
      PROVE  Steady(stack[p].own[1])
    <2>1. stack[p].own[1] \in Copies
        BY <1>1, <1>6, <1>9 DEF CopyInv, Made
    <2> QED
        BY <1>4, <2>1, CopiesAre
<1>10. IsCopy(Wanted, result)'
    <2>1. PICK x, i : x = Top.of /\ i = result' /\ IsCopy(x, i)
        BY DEF VisitKnown, VisitImmortal, IsCopy, Known
    <2>2. IsCopy(x, i)'
        BY <1>3, <1>5, <2>1, IsCopyKept
    <2>3. Wanted' = x
        BY <1>1, <1>3, <2>1, AwaitedBelow
    <2> QED
        BY <2>1, <2>2, <2>3
<1> QED
    BY <1>1, <1>2, <1>3, <1>5, <1>6, <1>8, <1>9, <1>10, CopyMoves

\* A copy is made, of an object without items or before its items are copied.
LEMMA CopyMade ==
    ASSUME TypeInv, StackInv, ChainInv, CalledInv, CopyInv, mode # "deepfreeze",
           result' # Exception, ~Finishing', VisitMakes \/ TupleStarts \/ SetStarts
    PROVE  CopyInv'
<1>1. result # Exception /\ ~Finishing /\ Len(stack) > 1 /\ stack # <<>> /\ GraphKept
    <2>1. Steps
        BY DEF Steps
    <2> QED
        BY <2>1, CopyRuns, StepIs
<1>2. PICK n, x, i : n = Len(stack) /\ x = Top.of /\ i = Fresh
    OBVIOUS
<1>3. /\ UNCHANGED <<graph, mode>> /\ Top.kind = "visit"
      /\ x \notin DOMAIN memo /\ ImmortalsOf(x) = {}
      /\ VisitMakes => Popped /\ heap' = NewCopy(2) /\ memo' = Memoized(x, i) /\ result' = i
      /\ TupleStarts => /\ Became(Frame("tuple", x, <<i>>)) /\ heap' = NewCopy(2)
                        /\ memo' = Memoized(x, i) /\ result' = Pending
      /\ SetStarts => /\ Became(Frame("set", x, <<i>>)) /\ heap' = NewCopy(1)
                      /\ memo' = memo /\ result' = Pending
    BY <1>2 DEF VisitMakes, TupleStarts, SetStarts, Visits, Underneath, New, Known
<1>4. /\ i \in Copies' /\ i \notin DOMAIN heap /\ heap'[i].pair = graph[x].pair
      /\ heap'[i].mutable = ~Freeze(x) /\ heap'[i].items = <<>>
      /\ \A j \in DOMAIN heap : Steady(j) /\ j \in DOMAIN heap'
    <2>1. PICK refs \in Nat : HeapGrown(refs)
        BY <1>1, <1>3, HeapGrows
    <2>2. /\ heap'[i].pair = graph[x].pair /\ heap'[i].items = <<>>
          /\ heap'[i].mutable = ~Freeze(x)
        <3>1. X = graph[x]
            BY <1>1, <1>2, TopIs
        <3>2. heap'[i].pair = graph[x].pair /\ heap'[i].items = <<>>
            BY <1>2, <2>1, <3>1 DEF HeapGrown
        <3>3. heap'[i].mutable = ~Freeze(x)
            BY ONLY <1>2, <2>1, Zenon DEF HeapGrown
        <3> QED
            BY ONLY <3>2, <3>3
    <2>3. i \in Copies' /\ i \notin DOMAIN heap
        BY <1>2, <2>1, CopiesGrown, FreshNowhere
    <2>4. /\ DOMAIN heap = 1 .. Len(heap) /\ Len(heap) \in Nat
          /\ DOMAIN heap' = 1 .. Len(heap) + 1
          /\ \A j \in 1 .. Len(heap) : heap'[j] = heap[j]
        BY <2>1, NumbersAre, LenProperties DEF HeapGrown
    <2>5. \A j \in DOMAIN heap : Steady(j) /\ j \in DOMAIN heap'
        BY <2>4 DEF Steady
    <2> QED
        BY <2>2, <2>3, <2>5
<1>5. LikeOriginal(x, i)'
    BY <1>3, <1>4, ImmortalsStay DEF LikeOriginal
<1>6. ImmortalsOf(x)' = {}
    BY <1>3, ImmortalsStay
<1>7. /\ VisitMakes \/ TupleStarts =>
            DOMAIN memo' = DOMAIN memo \cup {x} /\ memo'[x] = i
      /\ SetStarts => DOMAIN memo' = DOMAIN memo
      /\ MemoGrows /\ DOMAIN heap \subseteq DOMAIN heap'
    <2>1. VisitMakes \/ TupleStarts =>
            /\ DOMAIN memo' = DOMAIN memo \cup {x} /\ memo'[x] = i
            /\ \A y \in DOMAIN memo : y # x => memo'[y] = memo[y]
        BY <1>3, MemoizedIs
    <2> QED
        BY <1>3, <1>4, <2>1 DEF MemoGrows
<1>8. /\ n \in Nat \ {0} /\ Top = stack[n]
      /\ \A p \in 1 .. n - 1 : p \in DOMAIN stack' /\ stack'[p] = stack[p] /\ p \in DOMAIN stack
      /\ \A p \in DOMAIN stack' : p \in 1 .. n - 1 \/ p = n
      /\ VisitMakes => n \notin DOMAIN stack'
      /\ TupleStarts => stack'[n] = Frame("tuple", x, <<i>>)
      /\ SetStarts => stack'[n] = Frame("set", x, <<i>>)
    <2>1. /\ n \in Nat \ {0} /\ DOMAIN stack = 1 .. n /\ Top = stack[n] /\ n \in DOMAIN stack
          /\ \A p \in DOMAIN stack : p = n \/ p \in 1 .. n - 1
          /\ \A p \in 1 .. n - 1 : p \in DOMAIN stack /\ p # n
        BY <1>1, <1>2, Below
    <2>2. CASE VisitMakes
        <3>1. /\ DOMAIN stack' = 1 .. n - 1 /\ n \notin DOMAIN stack'
              /\ \A p \in 1 .. n - 1 : stack'[p] = stack[p]
            BY <1>1, <1>2, <1>3, <2>2, Below
        <3>2. ~TupleStarts /\ ~SetStarts
            <4>1. result' # Pending
                BY <1>2, <1>3, <2>2, NumbersAre DEF Pending, Fresh
            <4> QED
                BY <1>3, <4>1
        <3> QED
            BY <2>1, <3>1, <3>2
    <2>3. CASE TupleStarts \/ SetStarts
        <3>1. PICK f : /\ Became(f)
                       /\ TupleStarts => f = Frame("tuple", x, <<i>>)
                       /\ SetStarts => f = Frame("set", x, <<i>>)
            <4>1. ~TupleStarts \/ ~SetStarts
                BY DEF TupleStarts, SetStarts
            <4> QED
                BY <1>3, <2>3, <4>1
        <3>2. /\ DOMAIN stack' = DOMAIN stack /\ stack'[n] = f
              /\ \A p \in 1 .. n - 1 : stack'[p] = stack[p]
            BY <1>1, <1>2, <3>1, Below
        <3>3. ~VisitMakes
            <4>1. i # Pending
                BY <1>2, NumbersAre DEF Pending, Fresh
            <4> QED
                BY <1>3, <2>3, <4>1
        <3> QED
            BY <2>1, <3>1, <3>2, <3>3
    <2> QED
        BY <2>2, <2>3
<1>9. \A y \in DOMAIN memo : memo[y] \in DOMAIN heap /\ memo[y] # i /\ memo'[y] # i
    BY <1>4, <1>7 DEF TypeInv, MemoGrows
<1>10. ASSUME NEW y \in DOMAIN memo
       PROVE  Steady(memo[y]) /\ ~Gathering(n, y)
    BY <1>3, <1>4, <1>8, <1>9 DEF Gathering
<1>11. ASSUME NEW p \in 1 .. n - 1, MakesCopy(p)
       PROVE  Steady(stack[p].own[1]) /\ stack[p].own[1] # i
    <2>1. stack[p].own[1] \in Copies
        BY <1>1, <1>8, <1>11 DEF CopyInv, Made
    <2> QED
        BY <1>4, <2>1, CopiesAre
<1>12. n \in DOMAIN stack' => TupleStarts \/ SetStarts
    BY <1>8
<1>13. i \in Nat /\ x \in Obj /\ X = graph[x]
    BY <1>1, <1>2, NumbersAre, TopIs
<1>14. ASSUME n \in DOMAIN stack'
       PROVE  /\ stack'[n].of = x /\ stack'[n].own = <<i>>
              /\ \/ TupleStarts /\ stack'[n].kind = "tuple"
                 \/ SetStarts /\ stack'[n].kind = "set"
    <2>1. PICK k \in {"tuple", "set"} :
            /\ stack'[n] = Frame(k, x, <<i>>)
            /\ (TupleStarts /\ k = "tuple") \/ (SetStarts /\ k = "set")
        BY <1>8, <1>12, <1>14
    <2>2. k \in FrameKinds
        BY DEF FrameKinds
    <2> QED
        BY <1>13, <2>1, <2>2, FrameSingle
<1>15. ASSUME n \in DOMAIN stack'
       PROVE  Made(n)'
    <2>1. stack'[n].own[1] = i /\ Len(stack'[n].own) = 1 /\ stack'[n].of = x
        BY <1>13, <1>14, <1>15, Single
    <2>2. \A l \in 2 .. Len(stack'[n].own) : FALSE
        BY <2>1
    <2>3. stack'[n].kind = "tuple" => memo'[x] = i
        BY <1>7, <1>14, <1>15
    <2>4. stack'[n].kind = "set" => \A y \in DOMAIN memo' : memo'[y] # i
        BY <1>7, <1>9, <1>14, <1>15
    <2> QED
        BY <1>4, <1>5, <1>6, <2>1, <2>2, <2>3, <2>4 DEF Made
<1>16. ASSUME n \in DOMAIN stack', NEW q \in 1 .. n - 1, stack[q].kind = "set"
       PROVE  stack[q].own[1] # stack'[n].own[1]
    <2>1. stack'[n].own[1] = i
        BY <1>13, <1>14, <1>16, Single
    <2> QED
        BY <1>11, <1>16, <2>1 DEF MakesCopy
<1>17. ASSUME NEW y \in DOMAIN memo', y \notin DOMAIN memo
       PROVE  /\ Copied(y)' /\ \A z \in DOMAIN memo' : memo'[z] = memo'[y] => y = z
              /\ \A p \in 1 .. n - 1 : MakesCopy(p) => stack[p].own[1] # memo'[y]
    <2>1. y = x /\ memo'[x] = i /\ (VisitMakes \/ TupleStarts)
        BY <1>7, <1>17
    <2>2. \A z \in DOMAIN memo' : z # x => memo'[z] # i
        BY <1>7, <1>9, <2>1
    <2>3. CASE VisitMakes
        <3>1. graph[x].items = <<>>
            <4>1. graph[x].pair = "tuple" => graph[x].items = <<>>
                BY <1>13, <2>3 DEF VisitMakes
            <4>2. graph[x].pair \in {"int", "small", "tuple"} /\ graph[x] \in Nodes
                BY <1>13, <2>3 DEF VisitMakes, ChainInv, Graphs
            <4> QED
                BY <4>1, <4>2, NodesTyped
        <3>2. graph'[x].items = <<>> /\ heap'[memo'[x]].items = <<>> /\ DOMAIN <<>> = {}
            BY <1>3, <1>4, <2>1, <3>1
        <3>3. Filled(x, heap[memo[x]].items)'
            BY <3>2 DEF Filled
        <3> QED
            BY <1>4, <1>5, <1>6, <1>11, <2>1, <2>2, <3>3 DEF Copied
    <2>4. CASE TupleStarts
        <3>1. n \in DOMAIN stack'
            <4>1. DOMAIN stack' = DOMAIN stack /\ n \in DOMAIN stack
                BY <1>1, <1>2, <1>3, <2>4, Below
            <4> QED
                BY <4>1
        <3>2. Gathering(n, x)'
            BY <1>13, <1>8, <2>4, FrameSingle DEF Gathering, FrameKinds
        <3> QED
            BY <1>4, <1>5, <1>6, <1>11, <2>1, <2>2, <3>1, <3>2 DEF Copied
    <2> QED
        BY <2>1, <2>3, <2>4
<1>18. result' # Pending => IsCopy(Wanted, result)'
    <2>1. SUFFICES ASSUME VisitMakes
                   PROVE  IsCopy(Wanted, result)'
        BY <1>3
    <2>2. Wanted' = x
        BY <1>1, <1>2, <1>3, <2>1, AwaitedBelow
    <2> QED
        BY <1>3, <1>7, <2>1, <2>2 DEF IsCopy
<1> QED
    <2>1. /\ n \in DOMAIN stack' /\ MakesCopy(n)' => Made(n)'
          /\ n \in DOMAIN stack' /\ stack'[n].kind = "set" =>
                \A q \in 1 .. n - 1 : stack[q].kind = "set" =>
                    stack[q].own[1] # stack'[n].own[1]
        BY <1>15, <1>16
    <2>2. \A p \in 1 .. n - 1 : MakesCopy(p) => Steady(stack[p].own[1])
        BY <1>11
    <2> QED
        BY <1>1, <1>2, <1>3, <1>7, <1>8, <1>10, <1>17, <1>18, <2>1, <2>2, CopyMoves, ZenonT(60)

\* The next item is visited, or its copy is kept.
LEMMA CopyItems ==
    ASSUME TypeInv, StackInv, ChainInv, CalledInv, CopyInv, mode # "deepfreeze",
           result' # Exception, ~Finishing', ItemStarts \/ ItemEnds
    PROVE  CopyInv'
<1>1. result # Exception /\ ~Finishing /\ Len(stack) > 1 /\ stack # <<>> /\ GraphKept
    <2>1. Steps
        BY DEF Steps
    <2> QED
        BY <2>1, CopyRuns, StepIs
<1>2. PICK n : n = Len(stack)
    OBVIOUS
<1>3. UNCHANGED <<graph, mode, heap, memo>> /\ result' = Pending
    BY DEF ItemStarts, ItemEnds, Items, Underneath, Unmoved
<1>4. MemoGrows /\ DOMAIN heap \subseteq DOMAIN heap' /\ \A j : Steady(j)
    BY <1>3 DEF MemoGrows, Steady
<1>5. /\ n \in Nat \ {0} /\ DOMAIN stack = 1 .. n /\ Top = stack[n] /\ n \in DOMAIN stack
      /\ \A p \in 1 .. n - 1 : p \in DOMAIN stack /\ p # n
    BY <1>1, <1>2, Below
<1>6. n # 1
    BY ONLY <1>1, <1>2, <1>5
<1>7. /\ \A p \in 1 .. n - 1 : p \in DOMAIN stack' /\ stack'[p] = stack[p]
      /\ \A p \in DOMAIN stack' : p \in 1 .. n - 1 \/ p = n \/ stack'[p].kind = "visit"
      /\ n \in DOMAIN stack' /\ stack'[n].kind = stack[n].kind /\ stack'[n].of = stack[n].of
      /\ MakesCopy(n)' => Made(n)' /\ stack'[n].own[1] = stack[n].own[1]
    <2>1. CASE ItemStarts
        <3>1. PICK f : Pushed(f) /\ f.kind = "visit"
            BY <2>1 DEF ItemStarts, Visit, Frame
        <3>2. /\ DOMAIN stack' = 1 .. n + 1 /\ stack'[n + 1] = f
              /\ \A p \in DOMAIN stack : stack'[p] = stack[p]
            BY <1>1, <1>2, <3>1, Below
        <3>3. /\ \A p \in DOMAIN stack' : p \in 1 .. n - 1 \/ p = n \/ p = n + 1
              /\ \A p \in DOMAIN stack : p \in DOMAIN stack'
            BY <1>5, <3>2
        <3>4. ASSUME MakesCopy(n)'
              PROVE  Made(n)'
            <4>1. MakesCopy(n) /\ Made(n) /\ Noted(n)
                BY <1>1, <1>5, <3>2, <3>4 DEF MakesCopy, CopyInv, ChainInv
            <4>2. /\ stack'[n] = stack[n] /\ Steady(stack[n].own[1])
                  /\ stack[n].kind = "tuple" => stack[n].of \in DOMAIN memo
                  /\ DOMAIN memo' \ DOMAIN memo = {}
                BY <1>3, <1>4, <1>5, <3>2, <4>1 DEF Noted
            <4> QED
                BY <1>3, <1>4, <1>5, <4>1, <4>2, MadeKept
        <3> QED
            BY <1>5, <3>1, <3>2, <3>3, <3>4
    <2>2. CASE ItemEnds
        <3>1. PICK f, x, own : /\ Became(f) /\ x = Top.of /\ own = Top.own
                               /\ f = Frame(Top.kind, x, Append(own, result))
            BY <2>2 DEF ItemEnds
        <3>2. /\ result \in Nat /\ result # Pending /\ own \in Seq(Nat) /\ Len(own) \in Nat
              /\ x \in Obj /\ Top.kind \in FrameKinds /\ Top.kind \in ItemKinds
            <4>1. result > 0 /\ Top.kind \in ItemKinds
                BY <2>2 DEF ItemEnds, Items, ItemKinds
            <4>2. result \in Nat
                BY <4>1, NumbersAre
            <4>3. result # Pending
                BY ONLY <4>1 DEF Pending
            <4> QED
                BY <1>1, <3>1, <4>1, <4>2, <4>3, TopIs
        <3>3. Len(own) \in 1 .. Len(graph[x].items)
            <4>1. /\ Len(own) <= Len(graph[x].items) /\ Len(own) \in 1 .. Len(graph[x].items) + 1
                  /\ Len(graph[x].items) \in Nat
                BY <1>1, <3>1, <3>2, TopLens, TopIs
            <4> QED
                BY <4>1
        <3>4. /\ Append(own, result) \in Seq(Nat) /\ Len(Append(own, result)) = Len(own) + 1
              /\ \A l \in 1 .. Len(own) : Append(own, result)[l] = own[l]
              /\ Append(own, result)[Len(own) + 1] = result
            BY <3>2, AppendProperties
        <3>5. f.kind = Top.kind /\ f.of = x /\ f.own = Append(own, result)
            BY ONLY <3>1 DEF Frame
        <3>6. /\ DOMAIN stack' = DOMAIN stack /\ stack'[n] = f
              /\ \A p \in 1 .. n - 1 : stack'[p] = stack[p]
            BY <1>1, <1>2, <3>1, Below
        <3>7. f.own[1] = own[1]
            BY <3>3, <3>4, <3>5
        <3>8. ASSUME MakesCopy(n)'
              PROVE  Made(n)'
            <4>1. Made(n) /\ Noted(n) /\ stack[n].of = x /\ stack[n].own = own
                BY <1>1, <1>5, <3>1, <3>5, <3>6, <3>8 DEF MakesCopy, CopyInv, ChainInv
            <4>2. IsCopy(graph[x].items[Len(own)], result)
                <5>1. IsCopy(Wanted, result)
                    BY <1>1, <3>2 DEF CopyInv
                <5>2. Wanted = graph[x].items[Len(own)]
                    BY <1>2, <1>5, <1>6, <4>1 DEF Wanted, Awaited, Current
                <5> QED
                    BY <5>1, <5>2
            <4>3. ASSUME NEW l \in 2 .. Len(f.own)
                  PROVE  IsCopy(graph[x].items[l - 1], f.own[l])
                <5>1. l = Len(own) + 1 \/ l \in 2 .. Len(own)
                    BY <3>2, <3>4, <3>5
                <5>2. CASE l = Len(own) + 1
                    <6>1. l - 1 = Len(own) /\ f.own[l] = result
                        BY <3>2, <3>4, <3>5, <5>2
                    <6> QED
                        BY <4>2, <6>1
                <5>3. CASE l \in 2 .. Len(own)
                    <6>1. l \in 1 .. Len(own)
                        BY <3>2, <5>3
                    <6>2. f.own[l] = own[l]
                        BY <3>4, <3>5, <6>1
                    <6> QED
                        BY <4>1, <5>3, <6>2 DEF Made
                <5> QED
                    BY <5>1, <5>2, <5>3
            <4>4. ASSUME NEW l \in 2 .. Len(f.own)
                  PROVE  IsCopy(graph[x].items[l - 1], f.own[l])'
                <5>1. PICK y, j : y = graph[x].items[l - 1] /\ j = f.own[l] /\ IsCopy(y, j)
                    BY <4>3
                <5>2. IsCopy(y, j)'
                    BY <1>3, <1>4, <5>1, IsCopyKept
                <5> QED
                    BY <1>3, <5>1, <5>2
            <4>5. /\ own[1] \in Copies' /\ heap'[own[1]].items = <<>>
                  /\ f.kind = "tuple" => memo'[x] = own[1]
                  /\ f.kind = "set" => \A y \in DOMAIN memo' : memo'[y] # own[1]
                BY <1>3, <1>5, <3>5, <4>1, CopiesSame DEF Made
            <4>6. PICK c : c = own[1] /\ LikeOriginal(x, c) /\ ImmortalsOf(x) = {}
                BY <4>1 DEF Made
            <4>7. LikeOriginal(x, c)' /\ ImmortalsOf(x)' = {}
                BY <1>3, <1>4, <4>6, LikeKept, ImmortalsStay
            <4> QED
                BY <3>5, <3>6, <3>7, <4>4, <4>5, <4>6, <4>7 DEF Made
        <3> QED
            BY <1>5, <3>1, <3>5, <3>6, <3>7, <3>8
    <2> QED
        BY <2>1, <2>2
<1>8. ASSUME stack'[n].kind = "set", NEW q \in 1 .. n - 1, stack[q].kind = "set"
      PROVE  stack[q].own[1] # stack'[n].own[1]
    <2>1. stack'[n].own[1] = stack[n].own[1] /\ stack[n].kind = "set"
        BY <1>7, <1>8 DEF MakesCopy
    <2>2. Apart(q, n) /\ q # n
        BY <1>1, <1>5 DEF CopyInv
    <2> QED
        BY <1>8, <2>1, <2>2 DEF Apart
<1>9. \A x \in DOMAIN memo : Gathering(n, x) => Gathering(n, x)'
    BY <1>7 DEF Gathering
<1> QED
    <2>1. DOMAIN memo' \ DOMAIN memo = {}
        BY <1>3
    <2> QED
        BY <1>1, <1>2, <1>3, <1>4, <1>7, <1>8, <1>9, <2>1, CopyMoves

\* What the frame on top has made is made by no other.
LEMMA OneMaker ==
    ASSUME TypeInv, ChainInv, CopyInv, mode # "deepfreeze", result # Exception, ~Finishing,
           NEW p \in DOMAIN stack, NEW q \in DOMAIN stack, p # q, MakesCopy(p), MakesCopy(q)
    PROVE  stack[p].own[1] # stack[q].own[1]
<1>1. Made(p) /\ Made(q) /\ Apart(p, q) /\ Noted(p) /\ Noted(q) /\ Distinct(p, q)
    BY DEF CopyInv, ChainInv
<1>2. \A x, y \in DOMAIN memo : OneToOne(x, y)
    BY DEF CopyInv
<1>3. stack[p].of # stack[q].of
    BY <1>1 DEF Distinct, MakesCopy
<1>4. CASE stack[p].kind = "set" /\ stack[q].kind = "set"
    BY <1>1, <1>4 DEF Apart
<1>5. CASE stack[p].kind = "tuple" /\ stack[q].kind = "tuple"
    <2>1. /\ memo[stack[p].of] = stack[p].own[1] /\ memo[stack[q].of] = stack[q].own[1]
          /\ stack[p].of \in DOMAIN memo /\ stack[q].of \in DOMAIN memo
        BY <1>1, <1>5 DEF Made, Noted
    <2> QED
        BY <1>2, <1>3, <2>1 DEF OneToOne
<1>6. CASE stack[p].kind = "set" /\ stack[q].kind = "tuple"
    <2>1. /\ memo[stack[q].of] = stack[q].own[1] /\ stack[q].of \in DOMAIN memo
        BY <1>1, <1>6 DEF Made, Noted
    <2>2. \A y \in DOMAIN memo : memo[y] # stack[p].own[1]
        BY <1>1, <1>6 DEF Made
    <2> QED
        BY <2>1, <2>2
<1>7. CASE stack[p].kind = "tuple" /\ stack[q].kind = "set"
    <2>1. /\ memo[stack[p].of] = stack[p].own[1] /\ stack[p].of \in DOMAIN memo
        BY <1>1, <1>7 DEF Made, Noted
    <2>2. \A y \in DOMAIN memo : memo[y] # stack[q].own[1]
        BY <1>1, <1>7 DEF Made
    <2> QED
        BY <2>1, <2>2
<1> QED
    BY <1>4, <1>5, <1>6, <1>7 DEF MakesCopy

\* A container that has the copies of all its items is returned.
LEMMA CopyEnds ==
    ASSUME TypeInv, StackInv, ChainInv, CalledInv, CopyInv, mode # "deepfreeze",
           result' # Exception, ~Finishing', TupleEnds \/ SetEnds
    PROVE  CopyInv'
<1>1. result # Exception /\ ~Finishing /\ Len(stack) > 1 /\ stack # <<>> /\ GraphKept
    <2>1. Steps
        BY DEF Steps
    <2> QED
        BY <2>1, CopyRuns, StepIs
<1>2. PICK n, x, c, own : n = Len(stack) /\ x = Top.of /\ c = Copy /\ own = Top.own
    OBVIOUS
<1>3. /\ UNCHANGED <<graph, mode>> /\ result' = c /\ result = Pending /\ ~Remain /\ Popped
      /\ TupleEnds => /\ Top.kind = "tuple" /\ memo' = memo
                      /\ heap' = [heap EXCEPT ![c].items = Tail(own)]
      /\ SetEnds => /\ Top.kind = "set" /\ memo' = Memoized(x, c)
                    /\ heap' = [heap EXCEPT ![c].items = Tail(own), ![c].refs = @ + 1]
    BY <1>2 DEF TupleEnds, SetEnds, Items, Underneath
<1>4. /\ n \in Nat \ {0} /\ DOMAIN stack = 1 .. n /\ Top = stack[n] /\ n \in DOMAIN stack
      /\ \A p \in 1 .. n - 1 : p \in DOMAIN stack /\ p # n
      /\ DOMAIN stack' = 1 .. n - 1 /\ n \notin DOMAIN stack'
      /\ \A p \in 1 .. n - 1 : stack'[p] = stack[p]
    BY <1>1, <1>2, <1>3, Below
<1>5. /\ MakesCopy(n) /\ Made(n) /\ Noted(n) /\ stack[n].of = x /\ stack[n].own = own
      /\ own[1] = c /\ Top.kind \in {"tuple", "set"} /\ Top.kind \in ItemKinds
    BY <1>1, <1>2, <1>3, <1>4 DEF MakesCopy, CopyInv, ChainInv, Copy, ItemKinds
<1>6. /\ x \in Obj /\ X = graph[x] /\ own \in Seq(Nat) /\ graph[x].items \in Seq(Obj)
      /\ Len(own) = Len(graph[x].items) + 1 /\ Len(graph[x].items) \in Nat
      /\ DOMAIN graph[x].items = 1 .. Len(graph[x].items)
    <2>1. /\ x \in Obj /\ X = graph[x] /\ own \in Seq(Nat)
        BY <1>1, <1>2, TopIs
    <2>2. /\ graph[x].items \in Seq(Obj) /\ Len(graph[x].items) \in Nat
          /\ DOMAIN graph[x].items = 1 .. Len(graph[x].items)
        BY <2>1, ItemsAre
    <2>3. Len(own) \in 1 .. Len(graph[x].items) + 1
        BY <1>1, <1>2, <1>5, <2>1, TopLens
    <2>4. ~(Len(own) <= Len(graph[x].items))
        BY <1>2, <1>3, <2>1 DEF Remain
    <2>5. Len(own) = Len(graph[x].items) + 1
        BY ONLY <2>2, <2>3, <2>4
    <2> QED
        BY <2>1, <2>2, <2>5
<1>7. PICK items : /\ items = Tail(own) /\ items \in Seq(Nat)
                   /\ Len(items) = Len(graph[x].items)
                   /\ \A k \in 1 .. Len(graph[x].items) : items[k] = own[k + 1]
    <2>1. own # <<>>
        BY <1>6, EmptySeq
    <2>2. /\ Tail(own) \in Seq(Nat) /\ Len(Tail(own)) = Len(own) - 1
          /\ \A k \in 1 .. Len(Tail(own)) : Tail(own)[k] = own[k + 1]
        BY <1>6, <2>1, HeadTailProperties
    <2>3. Len(Tail(own)) = Len(graph[x].items)
        BY ONLY <1>6, <2>2
    <2> QED
        BY ONLY <2>2, <2>3
<1>8. c \in Copies /\ c \in DOMAIN heap /\ LikeOriginal(x, c) /\ ImmortalsOf(x) = {}
    BY <1>5, CopiesAre DEF Made
<1>9. PICK refs \in Nat : HeapAt(c, items, refs)
    <2>1. heap[c].refs \in Nat /\ heap[c].refs + 1 \in Nat
        BY <1>8, CopiesAre
    <2> QED
        BY <1>3, <1>7, <1>8, <2>1, HeapChanges
<1>10. /\ \A j \in DOMAIN heap : j \in DOMAIN heap' /\ (j # c => Steady(j))
       /\ heap'[c].pair = heap[c].pair /\ heap'[c].mutable = heap[c].mutable
       /\ heap'[c].items = items
    BY <1>9, NumbersAre, LenProperties DEF HeapAt, Steady
<1>11. /\ DOMAIN memo' = DOMAIN memo \cup {x} /\ memo'[x] = c /\ MemoGrows
       /\ TupleEnds => x \in DOMAIN memo
       /\ SetEnds => x \notin DOMAIN memo
    <2>1. CASE TupleEnds
        <3>1. x \in DOMAIN memo /\ memo[x] = c /\ memo' = memo /\ ~SetEnds
            BY <1>3, <1>4, <1>5, <2>1 DEF Noted, Made, SetEnds
        <3> QED
            BY <2>1, <3>1 DEF MemoGrows
    <2>2. CASE SetEnds
        <3>1. x \notin DOMAIN memo /\ ~TupleEnds /\ memo' = Memoized(x, c)
            BY <1>3, <1>4, <1>5, <2>2 DEF Noted, TupleEnds
        <3>2. /\ DOMAIN memo' = DOMAIN memo \cup {x} /\ memo'[x] = c
              /\ \A y \in DOMAIN memo : y # x => memo'[y] = memo[y]
            BY <3>1, MemoizedIs
        <3> QED
            BY <2>2, <3>1, <3>2 DEF MemoGrows
    <2> QED
        BY <2>1, <2>2
<1>12. \A y \in DOMAIN memo : y # x => memo[y] # c /\ memo'[y] # c
    <2>1. CASE TupleEnds
        <3>1. \A y \in DOMAIN memo : OneToOne(x, y)
            BY <1>1, <1>11, <2>1 DEF CopyInv
        <3>2. memo[x] = c
            BY <1>11, <2>1 DEF MemoGrows
        <3> QED
            BY <1>11, <3>1, <3>2 DEF OneToOne, MemoGrows
    <2>2. CASE SetEnds
        BY <1>3, <1>4, <1>5, <1>11, <2>2 DEF Made, MemoGrows
    <2> QED
        BY <2>1, <2>2
<1>13. Copied(x)'
    <2>1. c \in Copies'
        BY <1>8, <1>10 DEF Copies, Immortals, ImmortalObjects
    <2>2. LikeOriginal(x, c)'
        BY <1>3, <1>8, <1>10, ImmortalsStay DEF LikeOriginal
    <2>3. ImmortalsOf(x)' = {}
        BY <1>3, <1>8, ImmortalsStay
    <2>4. Filled(x, items)
        <3>1. ASSUME NEW k \in DOMAIN graph[x].items
              PROVE  IsCopy(graph[x].items[k], items[k])
            <4>1. k \in 1 .. Len(graph[x].items)
                BY <1>6
            <4>2. k + 1 \in 2 .. Len(own) /\ (k + 1) - 1 = k
                BY ONLY <1>6, <4>1
            <4>3. items[k] = own[k + 1]
                BY <1>7, <4>1
            <4>4. \A l \in 2 .. Len(own) : IsCopy(graph[x].items[l - 1], own[l])
                BY <1>5 DEF Made
            <4> QED
                BY <4>2, <4>3, <4>4
        <3> QED
            BY <1>7, <3>1 DEF Filled
    <2>5. Filled(x, items)'
        BY <1>3, <1>11, <2>4, FilledKept
    <2>6. items = heap'[memo'[x]].items
        BY <1>10, <1>11
    <2>7. Filled(x, heap[memo[x]].items)'
        BY <2>5, <2>6
    <2> QED
        BY <1>11, <2>1, <2>2, <2>3, <2>7 DEF Copied
<1>14. ASSUME NEW y \in DOMAIN memo
       PROVE  Copied(y)' \/ (Steady(memo[y]) /\ ~Gathering(n, y))
    <2>1. CASE y = x
        BY <1>13, <2>1
    <2>2. CASE y # x
        <3>1. memo[y] \in DOMAIN heap /\ memo[y] # c
            BY <1>12, <2>2 DEF TypeInv
        <3> QED
            BY <1>5, <1>10, <2>2, <3>1 DEF Gathering
    <2> QED
        BY <2>1, <2>2
<1>15. ASSUME NEW p \in 1 .. n - 1, MakesCopy(p)
       PROVE  Steady(stack[p].own[1]) /\ stack[p].own[1] # c
    <2>1. stack[p].own[1] \in Copies /\ stack[p].own[1] # c
        <3>1. p \in DOMAIN stack /\ p # n
            BY <1>4
        <3>2. stack[p].own[1] # stack[n].own[1]
            BY <1>1, <1>4, <1>5, <1>15, <3>1, OneMaker
        <3> QED
            BY <1>1, <1>5, <1>15, <3>1, <3>2 DEF CopyInv, Made
    <2> QED
        BY <1>10, <2>1, CopiesAre
<1>16. ASSUME NEW y \in DOMAIN memo' \ DOMAIN memo
       PROVE  /\ Copied(y)' /\ \A z \in DOMAIN memo' : memo'[z] = memo'[y] => y = z
              /\ \A p \in 1 .. n - 1 : MakesCopy(p) => stack[p].own[1] # memo'[y]
    <2>1. y = x /\ memo'[y] = c
        BY <1>11
    <2>2. \A z \in DOMAIN memo' : z # x => memo'[z] # c
        BY <1>11, <1>12
    <2> QED
        BY <1>13, <1>15, <2>1, <2>2
<1>17. IsCopy(Wanted, result)'
    <2>1. c # Exception
        BY <1>3
    <2>2. Wanted' = x
        BY <1>1, <1>2, <1>3, AwaitedBelow
    <2> QED
        BY <1>3, <1>11, <2>2 DEF IsCopy
<1> QED
    <2>1. /\ \A p \in 1 .. n - 1 : p \in DOMAIN stack' /\ stack'[p] = stack[p]
          /\ \A p \in DOMAIN stack' : p \in 1 .. n - 1
          /\ DOMAIN heap \subseteq DOMAIN heap'
        BY <1>4, <1>10
    <2> QED
        BY <1>1, <1>2, <1>3, <1>4, <1>11, <1>14, <1>15, <1>16, <1>17, <2>1, CopyMoves

\* Every step keeps that what has been copied is faithful.
LEMMA CopyStep ==
    ASSUME TypeInv, StackInv, ChainInv, CalledInv, CopyInv, [Next]_vars
    PROVE  CopyInv'
<1>1. Steps \/ UNCHANGED vars
    BY StepsAre
<1>2. CASE UNCHANGED vars
    <2>1. /\ UNCHANGED <<graph, mode, limit, heap, memo, stack, result>> /\ Copies' = Copies
          /\ \A x : ImmortalsOf(x)' = ImmortalsOf(x) /\ Freeze(x)' = Freeze(x)
        BY <1>2, ImmortalsStay, CopiesSame DEF vars
    <2>2. Finishing' = Finishing /\ Wanted' = Wanted
        BY <2>1 DEF Finishing, Wanted, Awaited, Current
    <2>3. \A x, i : IsCopy(x, i)' <=> IsCopy(x, i)
        BY <2>1 DEF IsCopy
    <2>4. \A x : Copied(x)' <=> Copied(x)
        BY <2>1, <2>3 DEF Copied, LikeOriginal, Filled, Gathering
    <2>5. \A p : Made(p)' <=> Made(p)
        BY <2>1, <2>3 DEF Made, LikeOriginal
    <2>6. IsCopy(Wanted, result)' <=> IsCopy(Wanted, result)
        BY <2>1, <2>2, <2>3
    <2> QED
        BY <2>1, <2>2, <2>4, <2>5, <2>6 DEF CopyInv, OneToOne, MakesCopy, Apart
<1>3. CASE Steps
    <2>1. UNCHANGED mode
        BY <1>3, StepIs
    <2>2. CASE mode # "deepfreeze" /\ result' # Exception /\ ~Finishing'
        <3>1. \/ VisitKnown \/ VisitImmortal \/ VisitMakes \/ TupleStarts \/ SetStarts
              \/ ItemStarts \/ ItemEnds \/ TupleEnds \/ SetEnds
            BY <1>3, <2>2, CopyRuns
        <3>2. CASE VisitKnown \/ VisitImmortal
            BY <2>2, <3>2, CopyFinds
        <3>3. CASE VisitMakes \/ TupleStarts \/ SetStarts
            BY <2>2, <3>3, CopyMade
        <3>4. CASE ItemStarts \/ ItemEnds
            BY <2>2, <3>4, CopyItems
        <3>5. CASE TupleEnds \/ SetEnds
            BY <2>2, <3>5, CopyEnds
        <3> QED
            BY <3>1, <3>2, <3>3, <3>4, <3>5
    <2>3. CASE ~(mode # "deepfreeze" /\ result' # Exception /\ ~Finishing')
        BY <2>1, <2>3 DEF CopyInv
    <2> QED
        BY <2>2, <2>3
<1> QED
    BY <1>1, <1>2, <1>3

\* A container that is under way has no items yet.
LEMMA CopyUnfilled ==
    ASSUME TypeInv, StackInv, CopyInv
    PROVE  Unfilled
<1>1. SUFFICES ASSUME stack # <<>>, Top.kind \in {"tuple", "set"}, result = Pending
               PROVE  heap[Copy].items = <<>>
    BY DEF Unfilled
<1>2. PICK n : n = Len(stack)
    OBVIOUS
<1>3. n \in DOMAIN stack /\ Top = stack[n]
    BY <1>1, <1>2, Below
<1>4. ~Finishing /\ result # Exception /\ mode # "deepfreeze"
    <2>1. Len(stack) > 1
        BY <1>1, Above
    <2> QED
        BY <1>1, <1>2, <1>3, <2>1, Above, TopFramed DEF Framed, Pending, Exception
<1>5. Made(n)
    BY <1>1, <1>3, <1>4 DEF CopyInv, MakesCopy
<1> QED
    BY <1>3, <1>5 DEF Made, Copy

(***************************************************************************)
(* The copy that is returned has the shape of the original.                *)
(***************************************************************************)
DoneInv ==
    mode # "deepfreeze" /\ result # Exception /\ Finishing =>
        \E f \in [Obj -> DOMAIN heap] : Renames(f)

\* An object has one copy.
LEMMA CopyOne ==
    ASSUME TypeInv, \A x \in DOMAIN memo : Copied(x), NEW x \in Obj, NEW i, NEW j,
           IsCopy(x, i), IsCopy(x, j)
    PROVE  i = j
BY ImmortalsOne DEF IsCopy, Copied

\* The kind of a copy is the one that was asked for.
LEMMA LikeKind ==
    ASSUME TypeInv, mode # "deepfreeze", NEW x \in Obj, NEW i, LikeOriginal(x, i),
           heap[i].refs > 0
    PROVE  SameKind(x, i)
<1>1. graph[x].mutable \in BOOLEAN /\ mode \in {"unfrozen", "frozen", "sametype"}
    BY DEF TypeInv, OriginalType, Modes
<1>2. heap[i].mutable = ~Freeze(x) /\ heap[i].pair = graph[x].pair
    BY DEF LikeOriginal
<1>3. CASE mode = "unfrozen"
    BY <1>2, <1>3 DEF SameKind, Freeze
<1>4. CASE mode = "frozen"
    BY <1>2, <1>4 DEF SameKind, Freeze
<1>5. CASE mode = "sametype"
    <2>1. CASE graph[x].mutable = TRUE
        <3>1. heap[i].mutable = TRUE
            BY <1>2, <1>5, <2>1 DEF Freeze
        <3> QED
            BY <1>2, <1>5, <2>1, <3>1 DEF SameKind
    <2>2. CASE graph[x].mutable = FALSE
        <3>1. heap[i].mutable = FALSE
            BY <1>2, <1>5, <2>2 DEF Freeze
        <3> QED
            BY <1>2, <1>5, <2>2, <3>1 DEF SameKind
    <2> QED
        BY <1>1, <2>1, <2>2
<1> QED
    BY <1>1, <1>3, <1>4, <1>5

\* When the call is about to return, everything has been copied.
LEMMA AllCopied ==
    ASSUME TypeInv, StackInv, CalledInv, CopyInv, RefsExact, mode # "deepfreeze",
           result # Exception, stack # <<>>, Top.kind = "call"
    PROVE  \E f \in [Obj -> DOMAIN heap] : Renames(f)
<1>1. Len(stack) = 1 /\ DOMAIN stack = {1} /\ stack[1].kind = "call" /\ result # Pending
    <2>1. Len(stack) = 1 /\ result # Pending
        BY Above
    <2>2. DOMAIN stack = 1 .. 1 /\ Top = stack[1]
        BY <2>1, TopIs
    <2> QED
        BY <2>1, <2>2
<1>2. ~Finishing
    BY <1>1 DEF Finishing
<1>3. /\ \A x \in DOMAIN memo : Copied(x)
      /\ \A x, y \in DOMAIN memo : OneToOne(x, y)
      /\ IsCopy(Root, result)
    BY <1>1, <1>2 DEF CopyInv, Wanted, Awaited
<1>4. \A x \in DOMAIN memo : Filled(x, heap[memo[x]].items) /\ x \in Obj
    BY <1>1, <1>3 DEF Copied, Gathering, TypeInv
<1>5. \A x \in Obj : x \notin DOMAIN memo => \A i : IsCopy(x, i) => i \in ImmortalsOf(x)
    BY DEF IsCopy
<1> DEFINE T == {x \in Obj : \E i : IsCopy(x, i)}
<1>6. Obj = T
    <2>1. Root \in T /\ T \in SUBSET DOMAIN graph
        BY <1>3, ItemsAre, DeepCopyAssumption
    <2>2. ASSUME NEW x \in T
          PROVE  Range(graph[x].items) \subseteq T
        <3>1. ASSUME NEW k \in DOMAIN graph[x].items
              PROVE  graph[x].items[k] \in T
            <4>1. x \in DOMAIN memo
                <5>1. graph[x].items # <<>>
                    BY <3>1
                <5> QED
                    BY <1>5, <5>1, ImmortalsOne
            <4> QED
                BY <1>4, <3>1, <4>1, ItemsAre DEF Filled
        <3> QED
            BY <3>1 DEF Range
    <2>3. Closed(graph, T)
        BY <2>2 DEF Closed
    <2> HIDE DEF T
    <2>4. {Root} \subseteq T
        BY <2>1
    <2>5. Within(graph, {Root}) \subseteq T
        BY <2>1, <2>3, <2>4, WithinLeast
    <2>6. Within(graph, {Root}) = Obj
        BY DEF CalledInv
    <2> QED
        BY <2>1, <2>5, <2>6, ItemsAre
<1> DEFINE f == [x \in Obj |-> CHOOSE i : IsCopy(x, i)]
<1>7. \A x \in Obj : IsCopy(x, f[x])
    BY <1>6
<1>8. f = [x \in Obj |-> f[x]]
    OBVIOUS
<1> HIDE DEF f, T
<1>9. ASSUME NEW x \in Obj, x \in DOMAIN memo
      PROVE  /\ f[x] = memo[x] /\ f[x] \in Copies /\ LikeOriginal(x, f[x])
             /\ heap[f[x]].refs > 0 /\ Filled(x, heap[f[x]].items)
    <2>1. f[x] = memo[x]
        BY <1>3, <1>7, <1>9, CopyOne DEF IsCopy
    <2>2. f[x] \in Copies /\ LikeOriginal(x, f[x]) /\ Filled(x, heap[f[x]].items)
        BY <1>3, <1>4, <1>9, <2>1 DEF Copied
    <2>3. heap[f[x]].refs > 0
        <3>1. PICK i \in Copies : i = f[x]
            BY <2>2
        <3>2. x \in InMemo(i)
            BY <1>9, <2>1, <3>1 DEF InMemo
        <3>3. Cardinality(InMemo(i)) # 0
            BY <3>2, HeldFinite, FS_EmptySet
        <3>4. heap[i].refs = Held(i)
            BY DEF RefsExact, Held, Got
        <3>5. heap[i].refs = Cardinality(InCopies(i)) + Cardinality(InFrames(i))
                                + Cardinality(InMemo(i)) + Got(i)
            BY <3>4 DEF Held
        <3>6. /\ Cardinality(InCopies(i)) \in Nat /\ Cardinality(InFrames(i)) \in Nat
              /\ Cardinality(InMemo(i)) \in Nat /\ Got(i) \in Nat
            BY HeldParts
        <3>7. heap[i].refs > 0
            <4>1. PICK a \in Nat, b \in Nat, c \in Nat, d \in Nat :
                    /\ a = Cardinality(InCopies(i)) /\ b = Cardinality(InFrames(i))
                    /\ c = Cardinality(InMemo(i)) /\ d = Got(i)
                BY ONLY <3>6
            <4>2. heap[i].refs = a + b + c + d /\ c # 0
                BY ONLY <3>3, <3>5, <4>1
            <4> QED
                BY ONLY <4>2
        <3> QED
            BY <3>1, <3>7
    <2> QED
        BY <2>1, <2>2, <2>3
<1>10. ASSUME NEW x \in Obj, x \notin DOMAIN memo
       PROVE  /\ f[x] \in Immortals /\ heap[f[x]].items = <<>> /\ graph[x].items = <<>>
              /\ LikeOriginal(x, f[x]) /\ heap[f[x]].refs > 0
    <2>1. f[x] \in ImmortalsOf(x)
        BY <1>5, <1>7, <1>10
    <2>2. /\ f[x] \in Immortals /\ heap[f[x]].items = <<>> /\ graph[x].items = <<>>
          /\ LikeOriginal(x, f[x]) /\ heap[f[x]].refs = 1
        BY <2>1, ImmortalsOne
    <2> QED
        BY <2>2
<1>11. f \in [Obj -> DOMAIN heap]
    <2>1. \A x \in Obj : f[x] \in DOMAIN heap
        BY <1>9, <1>10, CopiesAre, ImmortalsNumbered
    <2> QED
        BY <1>8, <2>1
<1>12. f[Root] = result
    BY <1>3, <1>7, CopyOne, DeepCopyAssumption
<1>13. ASSUME NEW x \in Obj
       PROVE  /\ SameKind(x, f[x])
              /\ Len(heap[f[x]].items) = Len(graph[x].items)
              /\ \A k \in DOMAIN graph[x].items :
                    heap[f[x]].items[k] = f[graph[x].items[k]]
    <2>1. SameKind(x, f[x])
        BY <1>9, <1>10, LikeKind
    <2>2. CASE x \in DOMAIN memo
        <3>1. Filled(x, heap[f[x]].items)
            BY <1>9, <2>2
        <3>2. ASSUME NEW k \in DOMAIN graph[x].items
              PROVE  heap[f[x]].items[k] = f[graph[x].items[k]]
            <4>1. PICK y \in Obj : y = graph[x].items[k]
                BY ItemsAre
            <4>2. IsCopy(y, heap[f[x]].items[k]) /\ IsCopy(y, f[y])
                BY <1>7, <3>1, <4>1 DEF Filled
            <4> QED
                BY <1>3, <4>1, <4>2, CopyOne
        <3> QED
            BY <2>1, <3>1, <3>2 DEF Filled
    <2>3. CASE x \notin DOMAIN memo
        <3>1. heap[f[x]].items = <<>> /\ graph[x].items = <<>> /\ DOMAIN <<>> = {}
            BY <1>10, <2>3
        <3> QED
            BY <2>1, <3>1
    <2> QED
        BY <2>2, <2>3
<1>14. ASSUME NEW x \in Obj, NEW y \in Obj, f[x] = f[y]
       PROVE  x = y \/ f[x] \in Immortals
    <2>1. CASE x \in DOMAIN memo /\ y \in DOMAIN memo
        BY <1>3, <1>9, <1>14, <2>1 DEF OneToOne
    <2>2. CASE x \notin DOMAIN memo \/ y \notin DOMAIN memo
        BY <1>10, <1>14, <2>2
    <2> QED
        BY <2>1, <2>2
<1>15. Renames(f)
    BY <1>12, <1>13, <1>14 DEF Renames
<1> QED
    BY <1>11, <1>15

\* While the copies of the returned graph stay, so does its shape.
LEMMA RenamesKept ==
    ASSUME UNCHANGED <<graph, mode, result>>, NEW f \in [Obj -> DOMAIN heap], Renames(f),
           \A x \in Obj : /\ Steady(f[x]) /\ heap'[f[x]].refs > 0 /\ f[x] \in DOMAIN heap'
    PROVE  \E g \in [Obj -> DOMAIN heap'] : Renames(g)'
<1>1. f \in [Obj -> DOMAIN heap'] /\ Immortals' = Immortals
    BY DEF Immortals, ImmortalObjects
<1>2. f[Root] = result'
    BY DEF Renames
<1>3. ASSUME NEW x \in Obj
      PROVE  /\ SameKind(x, f[x])'
             /\ Len(heap'[f[x]].items) = Len(graph'[x].items)
             /\ \A k \in DOMAIN graph'[x].items :
                    heap'[f[x]].items[k] = f[graph'[x].items[k]]
    <2>1. PICK i : i = f[x] /\ SameKind(x, i) /\ Steady(i) /\ heap'[i].refs > 0
        BY DEF Renames
    <2>2. SameKind(x, i)'
        BY <2>1 DEF SameKind, Steady
    <2> QED
        BY <2>1, <2>2 DEF Renames, Steady
<1>4. Renames(f)'
    BY <1>1, <1>2, <1>3 DEF Renames
<1> QED
    BY <1>1, <1>4

\* The last reference that is released is not of the returned graph.
LEMMA FreedIsOutside ==
    ASSUME TypeInv, CalledInv, RefsExact, NEW f \in [Obj -> DOMAIN heap], Renames(f),
           NEW l \in Copies, ~(heap[l].refs > 1), NEW p \in DOMAIN stack,
           NEW k \in DOMAIN stack[p].own, stack[p].own[k] = l
    PROVE  \A x \in Obj : f[x] # l
<1>1. <<p, k>> \in InFrames(l)
    BY DEF InFrames, Places
<1>2. Cardinality(InFrames(l)) # 0
    BY <1>1, HeldFinite, FS_EmptySet
<1>3. heap[l].refs = Cardinality(InCopies(l)) + Cardinality(InFrames(l))
                        + Cardinality(InMemo(l)) + Got(l)
    BY DEF RefsExact, Got
<1>4. /\ Cardinality(InCopies(l)) \in Nat /\ Cardinality(InFrames(l)) \in Nat
      /\ Cardinality(InMemo(l)) \in Nat /\ Got(l) \in Nat
    BY HeldParts
<1>5. Cardinality(InCopies(l)) = 0 /\ Got(l) = 0
    BY ONLY ~(heap[l].refs > 1), <1>2, <1>3, <1>4
<1>6. InCopies(l) = {} /\ result # l
    BY <1>5, HeldFinite, FS_EmptySet DEF Got
<1> DEFINE T == {x \in Obj : f[x] # l}
<1>7. Root \in T /\ T \in SUBSET DOMAIN graph
    BY <1>6, ItemsAre, DeepCopyAssumption DEF Renames
<1>8. ASSUME NEW x \in T
      PROVE  Range(graph[x].items) \subseteq T
    <2>1. ASSUME NEW m \in DOMAIN graph[x].items
          PROVE  graph[x].items[m] \in T
        <3>1. /\ Len(heap[f[x]].items) = Len(graph[x].items)
              /\ heap[f[x]].items[m] = f[graph[x].items[m]]
            BY DEF Renames
        <3>2. PICK i : i = f[x] /\ i \in DOMAIN heap
            OBVIOUS
        <3>3. heap[i].items \in Seq(Nat) /\ DOMAIN heap[i].items = DOMAIN graph[x].items
            BY <3>1, <3>2, CopyIs, ItemsAre, LenProperties
        <3>4. i \in Copies
            <4>1. heap[i].items # <<>>
                BY <3>3
            <4>2. \A j \in Immortals : heap[j].items = <<>>
                BY ImmortalsAre DEF TypeInv
            <4> QED
                BY <3>2, <4>1, <4>2 DEF Copies
        <3>5. heap[i].items[m] # l
            <4>1. ASSUME heap[i].items[m] = l
                  PROVE  <<i, m>> \in InCopies(l)
                BY <3>3, <3>4, <4>1 DEF InCopies, Places
            <4> QED
                BY <1>6, <4>1
        <3> QED
            BY <3>1, <3>2, <3>5, ItemsAre
    <2> QED
        BY <2>1 DEF Range
<1>9. Closed(graph, T)
    BY <1>8 DEF Closed
<1> HIDE DEF T
<1>10. {Root} \subseteq T
    BY <1>7
<1>11. Obj \subseteq T
    BY <1>7, <1>9, <1>10, WithinLeast DEF CalledInv
<1> QED
    BY <1>11 DEF T

\* Nothing is finished initially.
LEMMA DoneInit ==
    ASSUME Init
    PROVE  DoneInv
BY DEF Init, DoneInv, Finishing, Frame, Visit

\* Every step keeps the shape of what is returned.
LEMMA DoneStep ==
    ASSUME TypeInv, StackInv, CalledInv, CopyInv, RefsExact, DoneInv, [Next]_vars
    PROVE  DoneInv'
<1>1. Steps \/ UNCHANGED vars
    BY StepsAre
<1>2. CASE UNCHANGED vars
    <2>1. /\ UNCHANGED <<graph, mode, heap, stack, result>> /\ Immortals' = Immortals
        BY <1>2 DEF vars, Immortals, ImmortalObjects
    <2>2. \A f : Renames(f)' <=> Renames(f)
        BY <2>1 DEF Renames, SameKind
    <2> QED
        BY <2>1, <2>2 DEF DoneInv, Finishing
<1>3. CASE Steps
    <2>1. UNCHANGED mode /\ (mode # "deepfreeze" => UNCHANGED graph) /\ stack # <<>>
        BY <1>3, StepIs
    <2>2. SUFFICES ASSUME mode # "deepfreeze", result' # Exception, Finishing'
                   PROVE  \E f \in [Obj -> DOMAIN heap'] : Renames(f)'
        BY <2>1 DEF DoneInv
    <2>3. result # Exception
        BY <1>3, <2>2, ExceptionKept
    <2>4. Len(stack) = 1 /\ (CallEnds \/ Finishing)
        BY <1>3, <2>2, FinishingIs
    <2>5. CASE CallEnds
        <3>1. Top.kind = "call" /\ UNCHANGED <<graph, mode, heap, result>>
            BY <2>5 DEF CallEnds, Underneath
        <3>2. PICK f \in [Obj -> DOMAIN heap] : Renames(f)
            BY <2>1, <2>2, <2>3, <3>1, AllCopied
        <3>3. \A x \in Obj : /\ Steady(f[x]) /\ heap'[f[x]].refs > 0
                             /\ f[x] \in DOMAIN heap'
            BY <3>1, <3>2 DEF Steady, Renames, SameKind
        <3> QED
            BY <3>1, <3>2, <3>3, RenamesKept
    <2>6. CASE ~CallEnds
        <3>1. Finishing /\ Top = stack[1] /\ Top.kind = "release"
            <4>1. Finishing /\ Top = stack[1]
                BY <2>1, <2>4, <2>6, TopIs
            <4> QED
                BY <2>1, <4>1 DEF Finishing
        <3>2. ReleaseImmortal \/ ReleaseOne \/ ReleaseLast \/ ReleaseEnds
            <4>1. /\ Top.kind # "visit" /\ Top.kind # "tuple" /\ Top.kind # "set"
                  /\ Top.kind # "traverse"
                BY <3>1
            <4>2. /\ ~VisitRaises /\ ~VisitKnown /\ ~VisitImmortal /\ ~VisitMakes /\ ~TupleRaises
                  /\ ~TupleStarts /\ ~SetStarts /\ ~FreezeKnown /\ ~FreezeRaises /\ ~FreezeStarts
                BY <4>1 DEF VisitRaises, VisitKnown, VisitImmortal, VisitMakes, TupleRaises,
                            TupleStarts, SetStarts, FreezeKnown, FreezeRaises, FreezeStarts, Visits
            <4>3. /\ ~ItemStarts /\ ~ItemEnds /\ ~ItemRefused /\ ~ItemsGivenUp /\ ~TupleEnds
                  /\ ~SetEnds /\ ~TraverseEnds
                BY <4>1 DEF ItemStarts, ItemEnds, ItemRefused, ItemsGivenUp, TupleEnds, SetEnds,
                            TraverseEnds, Items
            <4> QED
                BY <1>3, <2>6, <4>2, <4>3 DEF Steps
        <3>3. UNCHANGED <<graph, mode, result>>
            BY <3>2 DEF ReleaseImmortal, ReleaseOne, ReleaseLast, ReleaseEnds, Releases,
                        Underneath, Unmoved
        <3>4. PICK f \in [Obj -> DOMAIN heap] : Renames(f)
            BY <2>2, <2>3, <3>1 DEF DoneInv
        <3>5. \A x \in Obj : f[x] \in DOMAIN heap /\ heap[f[x]].refs > 0
            BY <3>4 DEF Renames, SameKind
        <3>6. CASE ReleaseImmortal \/ ReleaseEnds
            <4>1. UNCHANGED heap
                BY <3>6 DEF ReleaseImmortal, ReleaseEnds, Unmoved
            <4>2. \A x \in Obj : /\ Steady(f[x]) /\ heap'[f[x]].refs > 0
                                 /\ f[x] \in DOMAIN heap'
                BY <3>5, <4>1 DEF Steady
            <4> QED
                BY <3>3, <3>4, <4>2, RenamesKept
        <3>7. CASE ReleaseOne \/ ReleaseLast
            <4>1. PICK l, k : /\ l = Last(Top.own) /\ l \in Copies /\ k \in DOMAIN Top.own
                              /\ Top.own[k] = l
                <5>1. Top.own # <<>> /\ Last(Top.own) \notin Immortals
                    BY <3>7 DEF ReleaseOne, ReleaseLast, Releases
                <5>2. Top.own \in Seq(Nat)
                    BY <2>1, TopIs
                <5>3. Len(Top.own) \in Nat \ {0} /\ Last(Top.own) = Top.own[Len(Top.own)]
                    BY <5>1, <5>2, LastIs
                <5>4. Len(Top.own) \in 1 .. Len(Top.own) /\ DOMAIN Top.own = 1 .. Len(Top.own)
                    BY <5>2, <5>3, LenProperties
                <5>5. Last(Top.own) \in Copies
                    BY <2>1, <5>1, <5>3, <5>4, TopFramed DEF Copies
                <5> QED
                    BY <5>3, <5>4, <5>5
            <4>2. l \in DOMAIN heap /\ heap[l].items \in Seq(Nat) /\ heap[l].refs \in Nat
                BY <4>1, CopiesAre
            <4>3. CASE ReleaseOne
                <5>1. heap' = [heap EXCEPT ![l].refs = @ - 1] /\ heap[l].refs > 1
                    BY <4>1, <4>3 DEF ReleaseOne
                <5>2. HeapAt(l, heap[l].items, heap[l].refs - 1)
                    BY <4>2, <5>1, HeapChanges
                <5>3. \A j \in DOMAIN heap :
                        /\ j \in DOMAIN heap' /\ Steady(j)
                        /\ heap[j].refs > 0 => heap'[j].refs > 0
                    <6>1. heap[l].refs - 1 > 0
                        BY <4>2, <5>1
                    <6> QED
                        BY <5>2, <6>1, NumbersAre, LenProperties DEF HeapAt, Steady
                <5> QED
                    BY <3>3, <3>4, <3>5, <5>3, RenamesKept
            <4>4. CASE ReleaseLast
                <5>1. /\ heap' = [heap EXCEPT ![l].refs = 0, ![l].items = <<>>]
                      /\ ~(heap[l].refs > 1)
                    BY <4>1, <4>4 DEF ReleaseLast
                <5>2. HeapAt(l, <<>>, 0)
                    BY <4>2, <5>1, HeapChanges, EmptySeq
                <5>3. \A x \in Obj : f[x] # l
                    <6>1. 1 \in DOMAIN stack /\ stack[1] = Top
                        BY <2>1, <2>4, <3>1, TopIs
                    <6> QED
                        BY <3>4, <4>1, <5>1, <6>1, FreedIsOutside
                <5>4. \A j \in DOMAIN heap : j # l =>
                        j \in DOMAIN heap' /\ Steady(j) /\ heap'[j].refs = heap[j].refs
                    BY <5>2, NumbersAre, LenProperties DEF HeapAt, Steady
                <5> QED
                    BY <3>3, <3>4, <3>5, <5>3, <5>4, RenamesKept
            <4> QED
                BY <3>7, <4>3, <4>4
        <3> QED
            BY <3>2, <3>6, <3>7
    <2> QED
        BY <2>5, <2>6
<1> QED
    BY <1>1, <1>2, <1>3

(***************************************************************************)
(* The theorems.                                                           *)
(***************************************************************************)
DeepInv ==
    /\ TypeInv /\ StackInv /\ ChainInv /\ CalledInv /\ FreezeInv
    /\ CopyInv /\ RefsExact /\ DoneInv

\* What holds initially.
LEMMA DeepInit ==
    ASSUME Init
    PROVE  DeepInv
BY TypeInit, StackInit, ChainInit, CalledInit, FreezeInit, CopyInit, RefsInit, DoneInit
   DEF DeepInv

\* The references are exact after every step.
LEMMA RefsKept ==
    ASSUME TypeInv, StackInv, ChainInv, CalledInv, FreezeInv, CopyInv, RefsExact,
           [Next]_vars
    PROVE  RefsExact'
<1>1. Steps \/ UNCHANGED vars
    BY StepsAre
<1>2. CASE Steps
    <2>1. FreezeInv' /\ UNCHANGED mode
        BY <1>2, FreezeStep, StepIs
    <2>2. mode = "deepfreeze" => heap' = ImmortalObjects
        BY <2>1 DEF FreezeInv, ImmortalObjects
    <2> QED
        BY <1>2, <2>2, CopyUnfilled, RefsStep
<1>3. CASE UNCHANGED vars
    <2>1. UNCHANGED <<heap, memo, stack, result>> /\ Copies' = Copies
        BY <1>3, CopiesSame DEF vars
    <2>2. \A i : InCopies(i)' = InCopies(i) /\ InFrames(i)' = InFrames(i) /\ InMemo(i)' = InMemo(i)
        BY <2>1, CopiesSame DEF InFrames, InMemo
    <2> QED
        BY <2>1, <2>2 DEF RefsExact
<1> QED
    BY <1>1, <1>2, <1>3

\* Everything is kept by every step.
LEMMA DeepStep ==
    ASSUME DeepInv, [Next]_vars
    PROVE  DeepInv'
BY TypeStep, StackStep, ChainStep, CalledStep, FreezeStep, CopyStep, RefsKept, DoneStep
   DEF DeepInv

\* In every reachable state the invariant holds.
LEMMA DeepHolds == Spec => []DeepInv
BY DeepInit, DeepStep, PTL DEF Spec

\* Of copies of any graph, at any recursion limit and whichever allocations
\* fail: the variables have their types.
THEOREM DeepTypes == Spec => []TypeInv
<1>1. DeepInv => TypeInv
    BY DEF DeepInv
<1> QED
    BY <1>1, DeepHolds, PTL

\* Every copy has one reference for each place that holds it, and no other
\* (_ypTuple_deepcopy, _ypSet_deepcopy, nohtyP.c:12404, 15430): nothing is
\* lost and nothing is released twice, whatever fails.
THEOREM RefsCounted == Spec => []RefsExact
<1>1. DeepInv => RefsExact
    BY DEF DeepInv
<1> QED
    BY <1>1, DeepHolds, PTL

\* What a deep copy returns has the shape of the original, cycles and shared
\* objects included, and is as mutable as was asked for (nohtyP.h:1486-1512).
THEOREM CopiesFaithfully == Spec => []CopyFaithful
<1>1. DeepInv => CopyFaithful
    BY DEF DeepInv, DoneInv, Finishing, CopyFaithful
<1> QED
    BY <1>1, DeepHolds, PTL

\* No container is copied while its own copy is under way (nohtyP.c:12418,
\* 15442).
THEOREM NeverWithin == Spec => []NeverWithinItself
<1>1. DeepInv => NeverWithinItself
    <2>1. DeepInv => \A p, q \in DOMAIN stack : Distinct(p, q)
        BY DEF DeepInv, ChainInv
    <2> QED
        BY <2>1 DEF Distinct, NeverWithinItself
<1> QED
    BY <1>1, DeepHolds, PTL

\* A deep freeze that returns without an exception has frozen everything that
\* can be reached (nohtyP.c:3470-3493).
THEOREM FreezesAll == Spec => []FreezeReachesAll
<1>1. DeepInv => FreezeReachesAll
    BY DEF DeepInv, FreezeInv, Finishing, FreezeReachesAll
<1> QED
    BY <1>1, DeepHolds, PTL
=============================================================================
