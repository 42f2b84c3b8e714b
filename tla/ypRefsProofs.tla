----------------------------- MODULE ypRefsProofs -----------------------------
(***************************************************************************)
(* Proofs about ypRefs, for any objects, places, fields and any value of   *)
(* Immortal above 1.                                                       *)
(*                                                                         *)
(* The definitions take the state as parameters (k, c, a, p, fs and x stand*)
(* for kind, refcnt, at, spent, frames and told), because a decref is     *)
(* taken apart here: first a place gives up its reference and nothing else *)
(* happens, which leaves the count of an object d one too high; then the   *)
(* count, or the stack of calls, is adjusted.  d is NULL where nothing is  *)
(* owed.                                                                   *)
(***************************************************************************)
EXTENDS ypRefs, FiniteSetTheorems, SequenceTheorems, TLAPS

(***************************************************************************)
(* The invariant.                                                          *)
(***************************************************************************)
Frames ==
    [call : {"dealloc", "send", "close", "store"}, obj : Objs \cup {NULL},
     phase : {"visit", "func", "store"}, left : SUBSET Slots,
     waiting : SUBSET Objs, arg : Slots \cup {NULL}, res : Slots \cup {NULL},
     slot : Slots \cup {NULL}, item : Objs \cup {NULL}]

Typed(k, c, a, p, fs, x) ==
    /\ k \in [Objs -> {"free", "container", "generator", "closed"}]
    /\ c \in [Objs -> 0 .. Immortal]
    /\ a \in [Slots -> Objs \cup {NULL}]
    /\ p \subseteq Slots \ Vars
    /\ fs \in Seq(Frames)
    /\ x \subseteq Objs

\* The places that own a reference to o.
RefsOf(a, p, o) == {s \in Slots \ p : a[s] = o}

\* The objects a frame is to free, and those that any frame is to free.
DoomedBy(f) == IF f.call = "dealloc" THEN f.waiting \cup ({f.obj} \ {NULL}) ELSE {}
DoomedIn(fs) == {o \in Objs : \E i \in 1 .. Len(fs) : o \in DoomedBy(fs[i])}

\* The generator that a frame's deallocation has told to exit and whose
\* function has not returned yet, and those of any frame.
ExitedBy(f) ==
    {o \in Objs : /\ f.call = "close" /\ f.phase = "func"
                  /\ f.arg = NULL /\ f.obj = o}
ExitingIn(fs) == {o \in Objs : \E i \in 1 .. Len(fs) : o \in ExitedBy(fs[i])}

\* The fields of the frame's object that are not left own nothing.
Visited(f, a, p) ==
    /\ f.left \subseteq Fields(f.obj) \ p
    /\ \A s \in Fields(f.obj) \ f.left : s \in p \/ a[s] = NULL

\* What each kind of call relies on, in the order of Frame's comment.
DeallocOK(f, k, a, p) ==
    /\ f.phase = "visit" /\ f.arg = NULL /\ f.res = NULL
    /\ f.obj \notin f.waiting
    /\ f.obj # NULL /\ k[f.obj] = "container" => Visited(f, a, p)
    /\ f.obj # NULL /\ k[f.obj] # "container" => f.left = {}
    /\ f.obj = NULL => f.left = {}

SendOK(f, k, a) ==
    /\ f.phase = "func" /\ f.obj \in Objs /\ k[f.obj] \in {"generator", "closed"}
    /\ f.arg \in Vars /\ a[f.arg] = f.obj
    /\ f.res \in Vars /\ a[f.res] = NULL

\* A close without arg was called by the deallocation of the generator.
CloseOK(f, k, a, p, D) ==
    /\ f.phase \in {"func", "visit"}
    /\ f.obj \in Objs /\ k[f.obj] \in {"generator", "closed"}
    /\ f.arg # NULL => f.arg \in Vars /\ a[f.arg] = f.obj
    /\ f.arg = NULL => f.obj \in D
    /\ f.res # NULL => f.res \in Vars /\ a[f.res] # NULL /\ f.res # f.arg
    /\ f.phase = "func" => f.res = NULL
    /\ f.phase = "visit" => Visited(f, a, p)

StoreOK(f, k, a, p) ==
    /\ f.phase = "store" /\ f.obj \in Objs /\ k[f.obj] = "container"
    /\ f.slot \in p /\ Home[f.slot] = f.obj
    /\ f.arg \in Vars /\ a[f.arg] = f.item /\ f.item \in Objs
    /\ f.res \in Vars /\ a[f.res] = f.obj

FrameOK(f, k, a, p, D) ==
    /\ f.call = "dealloc" => DeallocOK(f, k, a, p)
    /\ f.call = "send" => SendOK(f, k, a)
    /\ f.call = "close" => CloseOK(f, k, a, p, D)
    /\ f.call = "store" => StoreOK(f, k, a, p)

\* What two calls in progress, g above f, have to do with each other.
PairOK(f, g) ==
    /\ f.call # "store" /\ g.call # "store" /\ f.obj = g.obj /\ f.obj # NULL =>
           g.call # "dealloc" /\ (f.call = "dealloc" \/ f.phase = "func")
    /\ f.call = "store" /\ g.call = "store" => f.slot # g.slot
    /\ g.call \in {"send", "close"} /\ g.res # NULL => g.res \notin {f.arg, f.res}
    /\ DoomedBy(f) \cap DoomedBy(g) = {} /\ f.obj \notin DoomedBy(g)

CallsOK(k, a, p, fs, D) ==
    /\ \A i \in 1 .. Len(fs) : FrameOK(fs[i], k, a, p, D)
    /\ \A i, j \in 1 .. Len(fs) : i < j => PairOK(fs[i], fs[j])

\* Reference counts, when the one of d has not been lowered yet.
Counted(k, c, a, p, D, d) ==
    \A o \in Objs :
        k[o] # "free" /\ c[o] < Immortal =>
            c[o] = Cardinality(RefsOf(a, p, o)) + (IF o \in D THEN 1 ELSE 0)
                   + (IF o = d THEN 1 ELSE 0)

\* Objects that are referred to, or about to be freed, have not been freed.
Living(k, c, a, p, D, d) ==
    /\ \A o \in Objs : RefsOf(a, p, o) # {} => k[o] # "free"
    /\ \A o \in D : k[o] # "free"
    /\ \A o \in Objs : c[o] = 0 <=> k[o] = "free"
    /\ d # NULL => d \in Objs /\ k[d] # "free"

Balanced(k, c, a, p, D, d) == Counted(k, c, a, p, D, d) /\ Living(k, c, a, p, D, d)

\* Nothing refers to what is to be freed, but for a generator in its last call.
Unreferred(a, p, D, E) == \A o \in D \ E : RefsOf(a, p, o) = {}

\* The call that has given up the reference of a spent field.
InCharge(f, s, k) ==
    \/ f.call = "store" /\ f.slot = s
    \/ f.call = "dealloc" /\ f.obj = Home[s] /\ k[f.obj] = "container" /\ s \notin f.left
    \/ f.call = "close" /\ f.phase = "visit" /\ f.obj = Home[s] /\ s \notin f.left

Charged(k, p, fs) == \A s \in p : \E i \in 1 .. Len(fs) : InCharge(fs[i], s, k)

\* Free memory and closed generators have no fields.
Emptied(k, a) == \A s \in Slots \ Vars : k[Home[s]] \in {"free", "closed"} => a[s] = NULL

\* A generator that was told to exit is closed, or being closed.
Exited(k, fs, x) ==
    \A o \in x : k[o] = "generator" =>
        \E i \in 1 .. Len(fs) : fs[i].call = "close" /\ fs[i].obj = o

State(k, c, a, p, fs, x, d) ==
    /\ Typed(k, c, a, p, fs, x)
    /\ CallsOK(k, a, p, fs, DoomedIn(fs))
    /\ Balanced(k, c, a, p, DoomedIn(fs), d)
    /\ Unreferred(a, p, DoomedIn(fs), ExitingIn(fs))
    /\ Charged(k, p, fs)
    /\ Emptied(k, a)
    /\ Exited(k, fs, x)

IInv == State(kind, refcnt, at, spent, frames, told, NULL)

(***************************************************************************)
(* Counting.                                                               *)
(***************************************************************************)
\* An object has finitely many references, and none if no place has one.
LEMMA RefsFinite ==
    ASSUME NEW a, NEW p, NEW o
    PROVE  /\ IsFiniteSet(RefsOf(a, p, o))
           /\ Cardinality(RefsOf(a, p, o)) \in Nat
           /\ Cardinality(RefsOf(a, p, o)) = 0 <=> RefsOf(a, p, o) = {}
<1>1. RefsOf(a, p, o) \subseteq Slots
    BY DEF RefsOf
<1>2. IsFiniteSet(RefsOf(a, p, o))
    BY <1>1, RefsConstants, FS_Subset
<1> QED
    BY <1>2, FS_CardinalityType, FS_EmptySet

\* A place gives up its reference to d.
LEMMA Lost ==
    ASSUME NEW k, NEW c, NEW a, NEW p, NEW D, NEW d \in Objs, NEW s, NEW a2, NEW p2,
           c \in [Objs -> 0 .. Immortal],
           Balanced(k, c, a, p, D, NULL), s \in RefsOf(a, p, d),
           \A o \in Objs : RefsOf(a2, p2, o) = RefsOf(a, p, o) \ {s}
    PROVE  Balanced(k, c, a2, p2, D, d)
<1>1. \A o \in Objs : o # d => RefsOf(a2, p2, o) = RefsOf(a, p, o)
    BY DEF RefsOf
<1>2. Cardinality(RefsOf(a2, p2, d)) = Cardinality(RefsOf(a, p, d)) - 1
    BY RefsFinite, FS_RemoveElement
<1>3. Cardinality(RefsOf(a, p, d)) \in Nat
    BY RefsFinite
<1>4. Counted(k, c, a2, p2, D, d)
  <2> SUFFICES ASSUME NEW o \in Objs, k[o] # "free", c[o] < Immortal
               PROVE  c[o] = Cardinality(RefsOf(a2, p2, o)) + (IF o \in D THEN 1 ELSE 0)
                             + (IF o = d THEN 1 ELSE 0)
      BY DEF Counted
  <2>1. c[o] = Cardinality(RefsOf(a, p, o)) + (IF o \in D THEN 1 ELSE 0)
      BY RefsConstants, RefsFinite DEF Balanced, Counted
  <2> QED
      BY <2>1, <1>1, <1>2, <1>3, RefsFinite
<1>5. Living(k, c, a2, p2, D, d)
    BY <1>1 DEF Balanced, Living
<1> QED
    BY <1>4, <1>5 DEF Balanced

\* A place gets a reference to d that has been counted already.
LEMMA Gained ==
    ASSUME NEW k, NEW c, NEW a, NEW p, NEW D, NEW d \in Objs, NEW s, NEW a2, NEW p2,
           c \in [Objs -> 0 .. Immortal],
           Balanced(k, c, a, p, D, d), s \notin RefsOf(a, p, d),
           RefsOf(a2, p2, d) = RefsOf(a, p, d) \cup {s},
           \A o \in Objs : o # d => RefsOf(a2, p2, o) = RefsOf(a, p, o)
    PROVE  Balanced(k, c, a2, p2, D, NULL)
<1>1. Cardinality(RefsOf(a2, p2, d)) = Cardinality(RefsOf(a, p, d)) + 1
    BY RefsFinite, FS_AddElement
<1>2. Counted(k, c, a2, p2, D, NULL)
  <2> SUFFICES ASSUME NEW o \in Objs, k[o] # "free", c[o] < Immortal
               PROVE  c[o] = Cardinality(RefsOf(a2, p2, o)) + (IF o \in D THEN 1 ELSE 0)
      BY RefsConstants, RefsFinite DEF Counted
  <2>1. c[o] = Cardinality(RefsOf(a, p, o)) + (IF o \in D THEN 1 ELSE 0)
               + (IF o = d THEN 1 ELSE 0)
      BY DEF Balanced, Counted
  <2> QED
      BY <2>1, <1>1, RefsFinite
<1>3. Living(k, c, a2, p2, D, NULL)
    BY RefsConstants DEF Balanced, Living
<1> QED
    BY <1>2, <1>3 DEF Balanced

\* The same places refer to every object as before.
LEMMA SameBalance ==
    ASSUME NEW k, NEW c, NEW a, NEW p, NEW D, NEW d, NEW k2, NEW a2, NEW p2,
           Balanced(k, c, a, p, D, d),
           \A o \in Objs : RefsOf(a2, p2, o) = RefsOf(a, p, o),
           \A o \in Objs : k2[o] = "free" <=> k[o] = "free",
           D \subseteq Objs
    PROVE  Balanced(k2, c, a2, p2, D, d)
<1>1. Counted(k2, c, a2, p2, D, d)
    BY DEF Balanced, Counted
<1>2. Living(k2, c, a2, p2, D, d)
    BY DEF Balanced, Living
<1> QED
    BY <1>1, <1>2 DEF Balanced

\* yp_incref and yp_decref as functions of the counts.
Inc(c, o) == IF c[o] >= Immortal THEN c ELSE [c EXCEPT ![o] = @ + 1]
Dec(c, o) == IF c[o] >= Immortal THEN c ELSE [c EXCEPT ![o] = @ - 1]

\* ypObject_INCREF: a reference is counted before a place gets it.
LEMMA Increased ==
    ASSUME NEW k, NEW c, NEW a, NEW p, NEW D, NEW d \in Objs,
           c \in [Objs -> 0 .. Immortal],
           Balanced(k, c, a, p, D, NULL), k[d] # "free"
    PROVE  /\ Inc(c, d) \in [Objs -> 0 .. Immortal]
           /\ Balanced(k, Inc(c, d), a, p, D, d)
<1>1. c[d] \in 1 .. Immortal
    BY RefsConstants DEF Balanced, Living
<1>2. Inc(c, d) \in [Objs -> 0 .. Immortal]
    BY <1>1, RefsConstants DEF Inc
<1>3. Counted(k, Inc(c, d), a, p, D, d)
    BY <1>1, <1>2, RefsConstants, RefsFinite DEF Balanced, Counted, Inc
<1>4. Living(k, Inc(c, d), a, p, D, d)
    BY <1>1, RefsConstants DEF Balanced, Living, Inc
<1> QED
    BY <1>2, <1>3, <1>4 DEF Balanced

\* ypObject_DECREF of one reference of several.
LEMMA Decreased ==
    ASSUME NEW k, NEW c, NEW a, NEW p, NEW D, NEW d \in Objs,
           c \in [Objs -> 0 .. Immortal],
           Balanced(k, c, a, p, D, d), ~(c[d] = 1 /\ c[d] < Immortal)
    PROVE  /\ Dec(c, d) \in [Objs -> 0 .. Immortal]
           /\ Balanced(k, Dec(c, d), a, p, D, NULL)
<1>1. c[d] \in 2 .. Immortal
    BY RefsConstants DEF Balanced, Living
<1>2. Dec(c, d) \in [Objs -> 0 .. Immortal]
    BY <1>1, RefsConstants DEF Dec
<1>3. Counted(k, Dec(c, d), a, p, D, NULL)
    BY <1>1, <1>2, RefsConstants, RefsFinite DEF Balanced, Counted, Dec
<1>4. Living(k, Dec(c, d), a, p, D, NULL)
    BY <1>1, RefsConstants DEF Balanced, Living, Dec
<1> QED
    BY <1>2, <1>3, <1>4 DEF Balanced

\* The last reference was given up: the object is to be freed.
LEMMA LastOne ==
    ASSUME NEW k, NEW c, NEW a, NEW p, NEW D, NEW d \in Objs,
           c \in [Objs -> 0 .. Immortal], D \subseteq Objs,
           Balanced(k, c, a, p, D, d), c[d] = 1, c[d] < Immortal
    PROVE  /\ RefsOf(a, p, d) = {} /\ d \notin D
           /\ Balanced(k, c, a, p, D \cup {d}, NULL)
<1>1. k[d] # "free"
    BY RefsConstants DEF Balanced, Living
<1>2. RefsOf(a, p, d) = {} /\ d \notin D
    BY <1>1, RefsFinite DEF Balanced, Counted
<1>3. Counted(k, c, a, p, D \cup {d}, NULL)
    BY <1>1, <1>2, RefsConstants, RefsFinite DEF Balanced, Counted
<1>4. Living(k, c, a, p, D \cup {d}, NULL)
    BY <1>1, <1>2 DEF Balanced, Living
<1> QED
    BY <1>2, <1>3, <1>4 DEF Balanced

(***************************************************************************)
(* The stack of calls.                                                     *)
(***************************************************************************)
\* The fields of an object are the places it is the home of.
LEMMA HomeIs ==
    ASSUME NEW s \in Slots
    PROVE  /\ s \notin Vars => Home[s] \in Objs
           /\ \A o \in Objs : s \in Fields(o) <=> Home[s] = o
           /\ \A o \in Objs : Fields(o) \subseteq Slots \ Vars
BY RefsConstants DEF Vars, Fields

\* A call begins.
LEMMA Pushed ==
    ASSUME NEW fs \in Seq(Frames), NEW f \in Frames
    PROVE  /\ Append(fs, f) \in Seq(Frames)
           /\ Len(fs) \in Nat /\ Len(Append(fs, f)) = Len(fs) + 1
           /\ \A i \in 1 .. Len(fs) : Append(fs, f)[i] = fs[i]
           /\ Append(fs, f)[Len(fs) + 1] = f
           /\ DoomedIn(Append(fs, f)) = DoomedIn(fs) \cup (DoomedBy(f) \cap Objs)
           /\ ExitingIn(Append(fs, f)) = ExitingIn(fs) \cup ExitedBy(f)
<1>1. /\ Append(fs, f) \in Seq(Frames)
      /\ Len(fs) \in Nat /\ Len(Append(fs, f)) = Len(fs) + 1
      /\ \A i \in 1 .. Len(fs) : Append(fs, f)[i] = fs[i]
      /\ Append(fs, f)[Len(fs) + 1] = f
    OBVIOUS
<1>2. \A i \in 1 .. Len(fs) + 1 : i \in 1 .. Len(fs) \/ i = Len(fs) + 1
    BY <1>1
<1>3. \A i \in 1 .. Len(fs) : i \in 1 .. Len(fs) + 1
    BY <1>1
<1>4. Len(fs) + 1 \in 1 .. Len(fs) + 1
    BY <1>1
<1>5. DoomedIn(Append(fs, f)) = DoomedIn(fs) \cup (DoomedBy(f) \cap Objs)
    BY <1>1, <1>2, <1>3, <1>4, Zenon DEF DoomedIn
<1>6. ExitedBy(f) \subseteq Objs
    BY DEF ExitedBy
<1>7. ExitingIn(Append(fs, f)) = ExitingIn(fs) \cup ExitedBy(f)
    BY <1>1, <1>2, <1>3, <1>4, <1>6, Zenon DEF ExitingIn
<1> QED
    BY <1>1, <1>5, <1>7

Popped(fs) == SubSeq(fs, 1, Len(fs) - 1)

\* The last call ends.
LEMMA PoppedIs ==
    ASSUME NEW fs \in Seq(Frames), fs # <<>>
    PROVE  /\ Popped(fs) \in Seq(Frames)
           /\ Len(fs) \in Nat /\ Len(fs) > 0 /\ Len(Popped(fs)) = Len(fs) - 1
           /\ \A i \in 1 .. Len(Popped(fs)) : i \in 1 .. Len(fs) /\ Popped(fs)[i] = fs[i]
           /\ fs[Len(fs)] \in Frames
           /\ DoomedIn(fs) = DoomedIn(Popped(fs)) \cup (DoomedBy(fs[Len(fs)]) \cap Objs)
           /\ ExitingIn(fs) = ExitingIn(Popped(fs)) \cup ExitedBy(fs[Len(fs)])
           /\ \A i \in 1 .. Len(fs) : i \in 1 .. Len(Popped(fs)) \/ i = Len(fs)
<1>a. Len(fs) \in Nat /\ Len(fs) > 0
    OBVIOUS
<1>b. \A i \in 1 .. Len(fs) - 1 : fs[i] \in Frames
    BY <1>a
<1>c. /\ Popped(fs) \in Seq(Frames) /\ Len(Popped(fs)) = Len(fs) - 1
      /\ \A i \in 1 .. Len(fs) - 1 : Popped(fs)[i] = fs[i]
  <2> DEFINE n == Len(fs) - 1
  <2>1. n \in Int /\ n >= 0 /\ \A i \in 1 .. n : fs[i] \in Frames
      BY <1>a, <1>b
  <2> HIDE DEF n
  <2>2. /\ SubSeq(fs, 1, n) \in Seq(Frames)
        /\ Len(SubSeq(fs, 1, n)) = IF 1 <= n THEN n - 1 + 1 ELSE 0
        /\ \A i \in 1 .. n - 1 + 1 : SubSeq(fs, 1, n)[i] = fs[1 + i - 1]
      BY <2>1, SubSeqProperties
  <2>3. \A i \in 1 .. n : i \in 1 .. n - 1 + 1 /\ 1 + i - 1 = i
      BY <2>1
  <2>4. Len(SubSeq(fs, 1, n)) = n /\ \A i \in 1 .. n : SubSeq(fs, 1, n)[i] = fs[i]
      BY <2>1, <2>2, <2>3
  <2> QED
      BY <2>2, <2>4 DEF Popped, n
<1>1. /\ Popped(fs) \in Seq(Frames)
      /\ Len(fs) \in Nat /\ Len(fs) > 0 /\ Len(Popped(fs)) = Len(fs) - 1
      /\ \A i \in 1 .. Len(Popped(fs)) : i \in 1 .. Len(fs) /\ Popped(fs)[i] = fs[i]
      /\ fs[Len(fs)] \in Frames
    BY <1>a, <1>c
<1>2. \A i \in 1 .. Len(fs) : i \in 1 .. Len(Popped(fs)) \/ i = Len(fs)
    BY <1>1
<1>3. Len(fs) \in 1 .. Len(fs)
    BY <1>1
<1>4. DoomedIn(fs) = DoomedIn(Popped(fs)) \cup (DoomedBy(fs[Len(fs)]) \cap Objs)
    BY <1>1, <1>2, <1>3, Zenon DEF DoomedIn
<1>5. ExitedBy(fs[Len(fs)]) \subseteq Objs
    BY DEF ExitedBy
<1>6. ExitingIn(fs) = ExitingIn(Popped(fs)) \cup ExitedBy(fs[Len(fs)])
    BY <1>1, <1>2, <1>3, <1>5, Zenon DEF ExitingIn
<1> QED
    BY <1>1, <1>2, <1>4, <1>6

\* The conditions of the calls in progress, with one more call.
LEMMA CallsPushed ==
    ASSUME NEW k, NEW a, NEW p, NEW D, NEW fs \in Seq(Frames), NEW f \in Frames,
           CallsOK(k, a, p, fs, D), FrameOK(f, k, a, p, D),
           \A i \in 1 .. Len(fs) : PairOK(fs[i], f)
    PROVE  CallsOK(k, a, p, Append(fs, f), D)
<1> DEFINE gs == Append(fs, f)
<1>1. /\ Len(fs) \in Nat /\ Len(gs) = Len(fs) + 1
      /\ \A i \in 1 .. Len(fs) : gs[i] = fs[i]
      /\ gs[Len(fs) + 1] = f
    BY Pushed
<1> HIDE DEF gs
<1>2. ASSUME NEW i \in 1 .. Len(gs)
      PROVE  FrameOK(gs[i], k, a, p, D)
  <2>1. CASE i \in 1 .. Len(fs)
      BY <2>1, <1>1 DEF CallsOK
  <2>2. CASE i = Len(fs) + 1
      BY <2>2, <1>1
  <2> QED
      BY <1>1, <2>1, <2>2
<1>3. ASSUME NEW i \in 1 .. Len(gs), NEW j \in 1 .. Len(gs), i < j
      PROVE  PairOK(gs[i], gs[j])
  <2>1. i \in 1 .. Len(fs)
      BY <1>3, <1>1
  <2>2. CASE j \in 1 .. Len(fs)
      BY <2>1, <2>2, <1>3, <1>1 DEF CallsOK
  <2>3. CASE j = Len(fs) + 1
      BY <2>1, <2>3, <1>1
  <2> QED
      BY <1>1, <2>2, <2>3
<1> QED
    BY <1>2, <1>3 DEF CallsOK, gs

\* The conditions of the calls in progress, without the last one.
LEMMA CallsPopped ==
    ASSUME NEW k, NEW a, NEW p, NEW D, NEW fs \in Seq(Frames), fs # <<>>,
           CallsOK(k, a, p, fs, D)
    PROVE  /\ CallsOK(k, a, p, Popped(fs), D)
           /\ FrameOK(fs[Len(fs)], k, a, p, D)
           /\ \A i \in 1 .. Len(Popped(fs)) : PairOK(Popped(fs)[i], fs[Len(fs)])
<1>1. Len(fs) \in 1 .. Len(fs) /\ \A i \in 1 .. Len(Popped(fs)) : i < Len(fs)
    BY PoppedIs
<1>2. CallsOK(k, a, p, Popped(fs), D)
    BY PoppedIs, Zenon DEF CallsOK
<1>3. FrameOK(fs[Len(fs)], k, a, p, D)
    BY <1>1 DEF CallsOK
<1>4. \A i \in 1 .. Len(Popped(fs)) : PairOK(Popped(fs)[i], fs[Len(fs)])
    BY <1>1, PoppedIs, Zenon DEF CallsOK
<1> QED
    BY <1>2, <1>3, <1>4

\* Whether a frame's object has fields that the frame goes through.
Visiting(f, k) ==
    \/ f.call = "dealloc" /\ f.obj # NULL /\ k[f.obj] = "container"
    \/ f.call = "close" /\ f.phase = "visit"

\* What a step below which f is must leave alone.
Kept(f, k, a, p, k2, a2, p2) ==
    /\ f.obj # NULL => \/ k2[f.obj] = k[f.obj]
                       \/ f.call = "dealloc" /\ f.left = {} /\ k2[f.obj] # "container"
                       \/ f.call \in {"send", "close"} /\ k2[f.obj] \in {"generator", "closed"}
    /\ \A r \in {f.arg, f.res} \ {NULL} : a2[r] = a[r]
    /\ f.call = "store" => f.slot \in p2
    /\ Visiting(f, k) =>
          \A s \in Fields(f.obj) : a2[s] = a[s] /\ (s \in p2 <=> s \in p)

\* What a call relies on survives what does not concern it.
LEMMA FrameKept ==
    ASSUME NEW f \in Frames, NEW k, NEW a, NEW p, NEW D, NEW k2, NEW a2, NEW p2, NEW D2,
           FrameOK(f, k, a, p, D), Kept(f, k, a, p, k2, a2, p2),
           f.obj \in D => f.obj \in D2
    PROVE  FrameOK(f, k2, a2, p2, D2)
<1>1. CASE f.call = "dealloc"
  <2>1. DeallocOK(f, k, a, p)
      BY <1>1 DEF FrameOK
  <2>2. f.obj # NULL /\ k2[f.obj] = "container" => Visited(f, a2, p2)
      BY <1>1, <2>1 DEF DeallocOK, Kept, Visiting, Visited
  <2>3. f.obj # NULL /\ k2[f.obj] # "container" => f.left = {}
      BY <1>1, <2>1 DEF DeallocOK, Kept
  <2> QED
      BY <1>1, <2>1, <2>2, <2>3 DEF FrameOK, DeallocOK
<1>2. CASE f.call = "send"
    BY <1>2, RefsConstants DEF FrameOK, SendOK, Kept, Vars
<1>3. CASE f.call = "close"
  <2>1. CloseOK(f, k, a, p, D)
      BY <1>3 DEF FrameOK
  <2>2. f.phase = "visit" => Visited(f, a2, p2)
      BY <1>3, <2>1 DEF CloseOK, Kept, Visiting, Visited
  <2>3. k2[f.obj] \in {"generator", "closed"}
      BY <1>3, <2>1, RefsConstants DEF CloseOK, Kept
  <2>4. \A r \in {f.arg, f.res} : r # NULL => a2[r] = a[r]
      BY DEF Kept
  <2> QED
      BY <1>3, <2>1, <2>2, <2>3, <2>4 DEF FrameOK, CloseOK
<1>4. CASE f.call = "store"
    BY <1>4, RefsConstants DEF FrameOK, StoreOK, Kept, Vars
<1> QED
    BY <1>1, <1>2, <1>3, <1>4 DEF Frames

\* All calls in progress go on relying on what they did.
LEMMA CallsKept ==
    ASSUME NEW fs \in Seq(Frames), NEW k, NEW a, NEW p, NEW D, NEW k2, NEW a2, NEW p2, NEW D2,
           CallsOK(k, a, p, fs, D),
           \A i \in 1 .. Len(fs) : Kept(fs[i], k, a, p, k2, a2, p2),
           \A i \in 1 .. Len(fs) : fs[i].obj \in D => fs[i].obj \in D2
    PROVE  CallsOK(k2, a2, p2, fs, D2)
<1>1. \A i \in 1 .. Len(fs) : fs[i] \in Frames
    OBVIOUS
<1>2. \A i \in 1 .. Len(fs) : FrameOK(fs[i], k2, a2, p2, D2)
    BY <1>1, FrameKept DEF CallsOK
<1> QED
    BY <1>2 DEF CallsOK

(***************************************************************************)
(* Small steps that keep the invariant.                                    *)
(***************************************************************************)
\* What will be freed are objects.
LEMMA DoomedTyped ==
    ASSUME NEW fs
    PROVE  DoomedIn(fs) \subseteq Objs
BY DEF DoomedIn

\* A place no call in progress relies on.
Usable(s, k, p, fs) ==
    /\ s \in Slots \ p
    /\ \A i \in 1 .. Len(fs) :
          /\ s \notin {fs[i].arg, fs[i].res}
          /\ Visiting(fs[i], k) => s \notin Fields(fs[i].obj)
    /\ s \notin Vars => k[Home[s]] \notin {"free", "closed"}

\* No call relies on what a usable place holds.
LEMMA UsableCalls ==
    ASSUME NEW k, NEW c, NEW a, NEW p, NEW fs, NEW x, NEW D, NEW s, NEW v,
           Typed(k, c, a, p, fs, x), CallsOK(k, a, p, fs, D), Usable(s, k, p, fs)
    PROVE  CallsOK(k, [a EXCEPT ![s] = v], p, fs, D)
<1> DEFINE a2 == [a EXCEPT ![s] = v]
<1>1. \A r \in Slots : r # s => a2[r] = a[r]
    BY DEF Typed
<1> HIDE DEF a2
<1>2. ASSUME NEW i \in 1 .. Len(fs)
      PROVE  Kept(fs[i], k, a, p, k, a2, p)
  <2>1. fs[i] \in Frames /\ FrameOK(fs[i], k, a, p, D)
      BY DEF Typed, CallsOK
  <2>2. \A r \in {fs[i].arg, fs[i].res} \ {NULL} : r \in Slots /\ r # s
      BY <2>1 DEF Usable, Frames
  <2>3. fs[i].call = "store" => fs[i].slot \in p
      BY <2>1 DEF FrameOK, StoreOK
  <2>4. Visiting(fs[i], k) => \A r \in Fields(fs[i].obj) : r \in Slots /\ r # s
      BY DEF Usable, Fields
  <2> QED
      BY <1>1, <2>2, <2>3, <2>4 DEF Kept
<1> QED
    BY <1>2, CallsKept DEF Typed, a2

\* A usable place gives up its reference, which is still counted.
LEMMA LoseAt ==
    ASSUME NEW k, NEW c, NEW a, NEW p, NEW fs, NEW x, NEW s,
           State(k, c, a, p, fs, x, NULL), Usable(s, k, p, fs), a[s] # NULL
    PROVE  State(k, c, [a EXCEPT ![s] = NULL], p, fs, x, a[s])
<1> DEFINE a2 == [a EXCEPT ![s] = NULL]
<1>1. Typed(k, c, a, p, fs, x) /\ s \in Slots \ p /\ a[s] \in Objs
    BY DEF State, Typed, Usable
<1>2. Typed(k, c, a2, p, fs, x)
    BY <1>1 DEF Typed
<1>3. CallsOK(k, a2, p, fs, DoomedIn(fs))
    BY <1>1, UsableCalls DEF State
<1>4. \A o \in Objs : RefsOf(a2, p, o) = RefsOf(a, p, o) \ {s}
    BY <1>1, RefsConstants DEF RefsOf, Typed
<1>5. Balanced(k, c, a2, p, DoomedIn(fs), a[s])
  <2>1. s \in RefsOf(a, p, a[s])
      BY <1>1 DEF RefsOf
  <2> QED
      BY <1>1, <1>4, <2>1, Lost DEF State, Typed
<1>6. Emptied(k, a2)
    BY <1>1 DEF State, Emptied, Typed
<1>7. Unreferred(a2, p, DoomedIn(fs), ExitingIn(fs))
    BY <1>4, DoomedTyped DEF State, Unreferred
<1> HIDE DEF a2
<1>8. State(k, c, a2, p, fs, x, a[s])
    BY <1>2, <1>3, <1>5, <1>6, <1>7 DEF State
<1> QED
    BY <1>8 DEF a2

\* A usable place gets a reference that was counted for it.
LEMMA GainAt ==
    ASSUME NEW k, NEW c, NEW a, NEW p, NEW fs, NEW x, NEW s, NEW d \in Objs,
           State(k, c, a, p, fs, x, d), Usable(s, k, p, fs), a[s] = NULL,
           d \in DoomedIn(fs) => d \in ExitingIn(fs)
    PROVE  State(k, c, [a EXCEPT ![s] = d], p, fs, x, NULL)
<1> DEFINE a2 == [a EXCEPT ![s] = d]
<1>1. Typed(k, c, a, p, fs, x) /\ s \in Slots \ p
    BY DEF State, Typed, Usable
<1>2. Typed(k, c, a2, p, fs, x)
    BY <1>1 DEF Typed
<1>3. CallsOK(k, a2, p, fs, DoomedIn(fs))
    BY <1>1, UsableCalls DEF State
<1>4. /\ RefsOf(a2, p, d) = RefsOf(a, p, d) \cup {s} /\ s \notin RefsOf(a, p, d)
      /\ \A o \in Objs : o # d => RefsOf(a2, p, o) = RefsOf(a, p, o)
    BY <1>1, RefsConstants DEF RefsOf, Typed
<1>5. Balanced(k, c, a2, p, DoomedIn(fs), NULL)
  <2>1. c \in [Objs -> 0 .. Immortal] /\ Balanced(k, c, a, p, DoomedIn(fs), d)
      BY DEF State, Typed
  <2> HIDE DEF a2
  <2> QED
      BY <2>1, <1>4, Gained
<1>6. Emptied(k, a2)
    BY <1>1 DEF State, Emptied, Typed, Usable
<1>7. Unreferred(a2, p, DoomedIn(fs), ExitingIn(fs))
    BY <1>4, DoomedTyped DEF State, Unreferred
<1> HIDE DEF a2
<1>8. State(k, c, a2, p, fs, x, NULL)
    BY <1>2, <1>3, <1>5, <1>6, <1>7 DEF State
<1> QED
    BY <1>8 DEF a2

\* An object that some place refers to was not freed, and is not to be but
\* for a generator in its last call.
LEMMA ReferredTo ==
    ASSUME NEW k, NEW c, NEW a, NEW p, NEW fs, NEW x, NEW d, NEW r \in Slots \ p,
           State(k, c, a, p, fs, x, d), a[r] # NULL
    PROVE  /\ a[r] \in Objs /\ k[a[r]] # "free"
           /\ a[r] \in DoomedIn(fs) => a[r] \in ExitingIn(fs)
<1>1. r \in RefsOf(a, p, a[r]) /\ a[r] \in Objs
    BY DEF RefsOf, State, Typed
<1> QED
    BY <1>1 DEF State, Balanced, Living, Unreferred

\* A count is raised for a reference that is about to be stored.
LEMMA CountUp ==
    ASSUME NEW k, NEW c, NEW a, NEW p, NEW fs, NEW x, NEW d \in Objs,
           State(k, c, a, p, fs, x, NULL), k[d] # "free"
    PROVE  State(k, Inc(c, d), a, p, fs, x, d)
BY Increased DEF State, Typed

\* A count is lowered for a reference that was given up.
LEMMA CountDown ==
    ASSUME NEW k, NEW c, NEW a, NEW p, NEW fs, NEW x, NEW d \in Objs,
           State(k, c, a, p, fs, x, d), ~(c[d] = 1 /\ c[d] < Immortal)
    PROVE  State(k, Dec(c, d), a, p, fs, x, NULL)
BY Decreased DEF State, Typed

\* No call is in progress on an object that nothing refers to and that is
\* not about to be freed.
LEMMA NotBusy ==
    ASSUME NEW k, NEW c, NEW a, NEW p, NEW fs, NEW x, NEW D, NEW d \in Objs,
           Typed(k, c, a, p, fs, x), CallsOK(k, a, p, fs, D),
           RefsOf(a, p, d) = {}, d \notin D, DoomedIn(fs) \subseteq D
    PROVE  \A i \in 1 .. Len(fs) : fs[i].obj # d
<1> SUFFICES ASSUME NEW i \in 1 .. Len(fs), fs[i].obj = d
             PROVE  FALSE
    OBVIOUS
<1>1. fs[i] \in Frames /\ FrameOK(fs[i], k, a, p, D)
    BY DEF Typed, CallsOK
<1>2. \A r \in Vars : a[r] # d
    BY DEF RefsOf, Vars, Typed
<1>3. fs[i].call # "dealloc"
    BY RefsConstants DEF DoomedIn, DoomedBy
<1>4. fs[i].call # "send"
    BY <1>1, <1>2 DEF FrameOK, SendOK
<1>5. fs[i].call # "close"
    BY <1>1, <1>2 DEF FrameOK, CloseOK
<1>6. fs[i].call # "store"
    BY <1>1, <1>2 DEF FrameOK, StoreOK
<1> QED
    BY <1>1, <1>3, <1>4, <1>5, <1>6 DEF Frames

\* Frames do not depend on what will be freed, but for closes.
LEMMA MoreDoomed ==
    ASSUME NEW k, NEW a, NEW p, NEW fs \in Seq(Frames), NEW D, NEW D2,
           CallsOK(k, a, p, fs, D), D \subseteq D2
    PROVE  CallsOK(k, a, p, fs, D2)
<1> SUFFICES \A i \in 1 .. Len(fs) : Kept(fs[i], k, a, p, k, a, p)
    BY CallsKept
<1> QED
    BY DEF Kept, CallsOK, FrameOK, StoreOK

\* tp_dealloc is about to run on d.
DyingFrame(k, d, waiting) ==
    [Frame("dealloc", d, "visit", NULL, NULL, NULL, NULL) EXCEPT
        !.left = IF k[d] = "container" THEN Fields(d) ELSE {}, !.waiting = waiting]

\* The call that deallocates d.
LEMMA DyingIs ==
    ASSUME NEW k, NEW d \in Objs, NEW W \in SUBSET Objs
    PROVE  /\ DyingFrame(k, d, W) \in Frames
           /\ DyingFrame(k, d, W).call = "dealloc" /\ DyingFrame(k, d, W).obj = d
           /\ DyingFrame(k, d, W).phase = "visit"
           /\ DyingFrame(k, d, W).arg = NULL /\ DyingFrame(k, d, W).res = NULL
           /\ DyingFrame(k, d, W).left = IF k[d] = "container" THEN Fields(d) ELSE {}
           /\ DyingFrame(k, d, W).waiting = W
           /\ DoomedBy(DyingFrame(k, d, W)) = W \cup {d}
BY RefsConstants DEF DyingFrame, Frame, Frames, Fields, DoomedBy

\* Nothing is spent of an object that no call is in progress on.
LEMMA NothingSpent ==
    ASSUME NEW k, NEW c, NEW a, NEW p, NEW fs, NEW x, NEW D, NEW d \in Objs,
           Typed(k, c, a, p, fs, x), CallsOK(k, a, p, fs, D), Charged(k, p, fs),
           \A i \in 1 .. Len(fs) : fs[i].obj # d
    PROVE  Fields(d) \cap p = {}
<1> SUFFICES ASSUME NEW s \in Fields(d), s \in p
             PROVE  FALSE
    OBVIOUS
<1>1. Home[s] = d
    BY DEF Fields
<1>2. PICK i \in 1 .. Len(fs) : InCharge(fs[i], s, k)
    BY DEF Charged
<1>3. FrameOK(fs[i], k, a, p, D)
    BY DEF CallsOK
<1> QED
    BY <1>1, <1>2, <1>3 DEF InCharge, FrameOK, StoreOK

\* The last reference to d is gone: its deallocation begins.
LEMMA Condemned ==
    ASSUME NEW k, NEW c, NEW a, NEW p, NEW fs, NEW x, NEW d \in Objs,
           State(k, c, a, p, fs, x, d), c[d] = 1, c[d] < Immortal
    PROVE  State(k, c, a, p, Append(fs, DyingFrame(k, d, {})), x, NULL)
<1> DEFINE f == DyingFrame(k, d, {})
           D == DoomedIn(fs)
           gs == Append(fs, f)
<1>1. Typed(k, c, a, p, fs, x) /\ CallsOK(k, a, p, fs, D) /\ Balanced(k, c, a, p, D, d)
      /\ Charged(k, p, fs) /\ Emptied(k, a) /\ Exited(k, fs, x)
      /\ Unreferred(a, p, D, ExitingIn(fs))
    BY DEF State
<1>2. fs \in Seq(Frames) /\ c \in [Objs -> 0 .. Immortal]
    BY <1>1 DEF Typed
<1>3. f \in Frames /\ DoomedBy(f) = {d} /\ f.call = "dealloc" /\ f.obj = d
      /\ f.phase = "visit" /\ f.arg = NULL /\ f.res = NULL /\ f.waiting = {}
      /\ f.left = IF k[d] = "container" THEN Fields(d) ELSE {}
    BY DyingIs
<1> HIDE DEF f
<1>4. /\ gs \in Seq(Frames) /\ Len(fs) \in Nat /\ Len(gs) = Len(fs) + 1
      /\ \A i \in 1 .. Len(fs) : gs[i] = fs[i]
      /\ DoomedIn(gs) = D \cup {d} /\ ExitingIn(fs) \subseteq ExitingIn(gs)
    BY <1>2, <1>3, Pushed
<1>5. RefsOf(a, p, d) = {} /\ d \notin D /\ Balanced(k, c, a, p, D \cup {d}, NULL)
    BY <1>1, <1>2, DoomedTyped, LastOne
<1>6. d # NULL /\ d \notin D
    BY <1>5, RefsConstants
<1>7. \A i \in 1 .. Len(fs) : fs[i].obj # d
    BY <1>1, <1>5, <1>6, NotBusy
<1>8. CallsOK(k, a, p, fs, D \cup {d})
    BY <1>1, <1>2, MoreDoomed
<1>9. FrameOK(f, k, a, p, D \cup {d})
  <2>1. Fields(d) \cap p = {}
      BY <1>1, <1>7, NothingSpent
  <2>2. k[d] = "container" => Visited(f, a, p)
      BY <1>3, <2>1 DEF Visited
  <2> QED
      BY <1>3, <1>6, <2>2 DEF FrameOK, DeallocOK
<1>10. ASSUME NEW i \in 1 .. Len(fs)
       PROVE  PairOK(fs[i], f)
  <2>1. DoomedBy(fs[i]) \cap Objs \subseteq D
      BY DEF DoomedIn
  <2> QED
      BY <1>3, <1>6, <1>7, <2>1 DEF PairOK
<1>11. CallsOK(k, a, p, gs, D \cup {d})
    BY <1>2, <1>3, <1>8, <1>9, <1>10, CallsPushed
<1>12. Charged(k, p, gs) /\ Exited(k, gs, x)
  <2>1. \A i \in 1 .. Len(fs) : i \in 1 .. Len(gs) /\ gs[i] = fs[i]
      BY <1>4
  <2> HIDE DEF gs
  <2> QED
      BY <1>1, <2>1 DEF Charged, Exited
<1>13. /\ Balanced(k, c, a, p, DoomedIn(gs), NULL) /\ CallsOK(k, a, p, gs, DoomedIn(gs))
       /\ Unreferred(a, p, DoomedIn(gs), ExitingIn(gs))
  <2>1. Unreferred(a, p, DoomedIn(gs), ExitingIn(gs))
      BY <1>1, <1>4, <1>5 DEF Unreferred
  <2> QED
      BY <1>4, <1>5, <1>11, <2>1
<1>14. Typed(k, c, a, p, gs, x)
    BY <1>1, <1>4 DEF Typed
<1> HIDE DEF gs
<1>15. State(k, c, a, p, gs, x, NULL)
    BY <1>1, <1>12, <1>13, <1>14 DEF State
<1> QED
    BY <1>15 DEF gs, f

\* yp_decref, after the place gave up its reference.
LEMMA Settled ==
    ASSUME NEW fs, NEW d \in Objs, GiveUp(d, fs), refcnt \in [Objs -> 0 .. Immortal],
           State(kind', refcnt, at', spent', fs, told', d),
           kind'[d] = "container" <=> kind[d] = "container"
    PROVE  State(kind', refcnt', at', spent', frames', told', NULL)
<1>1. CASE ~Last(d) /\ DecRef(d) /\ frames' = fs
  <2>1. refcnt' = Dec(refcnt, d)
      BY <1>1 DEF DecRef, Dec
  <2> QED
      BY <1>1, <2>1, CountDown DEF Last
<1>2. CASE Last(d) /\ frames' = Append(fs, Dying(d, {})) /\ UNCHANGED refcnt
  <2>1. Dying(d, {}) = DyingFrame(kind', d, {})
      BY DEF Dying, DyingFrame
  <2> QED
      BY <1>2, <2>1, Condemned DEF Last
<1> QED
    BY <1>1, <1>2 DEF GiveUp

(***************************************************************************)
(* The caller's calls.                                                     *)
(***************************************************************************)
\* What will be freed, as the model and as the proof put it.
LEMMA DoomedIs ==
    ASSUME IInv, NEW o \in Objs
    PROVE  Doomed(o) <=> o \in DoomedIn(frames)
BY RefsConstants DEF IInv, State, Typed, Doomed, DoomedIn, DoomedBy

\* Which generators are in their last call, likewise.
LEMMA ExitingIs ==
    ASSUME NEW o \in Objs
    PROVE  Exiting(o) <=> o \in ExitingIn(frames)
BY DEF Exiting, ExitingIn, ExitedBy

\* What the invariant says of the call that runs.
LEMMA TopIs ==
    ASSUME IInv, frames # <<>>
    PROVE  /\ Len(frames) \in 1 .. Len(frames) /\ Top \in Frames
           /\ FrameOK(Top, kind, at, spent, DoomedIn(frames))
           /\ Below = Popped(frames)
BY CallsPopped, PoppedIs DEF IInv, State, Typed, Top, Below, Popped

\* What a variable refers to is there; a container is not about to be freed.
LEMMA VariableRefers ==
    ASSUME IInv, NEW s \in Vars, NEW o \in Objs, at[s] = o
    PROVE  /\ s \in Slots \ spent /\ kind[o] # "free"
           /\ kind[o] = "container" => o \notin DoomedIn(frames)
<1>1. s \in Slots \ spent /\ at[s] # NULL
    BY RefsConstants DEF IInv, State, Typed, Vars
<1>2. /\ kind[o] # "free"
      /\ o \in DoomedIn(frames) => o \in ExitingIn(frames)
    BY <1>1, ReferredTo DEF IInv
<1>3. ASSUME o \in ExitingIn(frames)
      PROVE  kind[o] # "container"
  <2>1. PICK i \in 1 .. Len(frames) : o \in ExitedBy(frames[i])
      BY <1>3 DEF ExitingIn
  <2> QED
      BY <2>1 DEF ExitedBy, IInv, State, CallsOK, FrameOK, CloseOK
<1> QED
    BY <1>1, <1>2, <1>3

\* What the caller may read or change no call in progress relies on.
LEMMA OpenIsUsable ==
    ASSUME IInv, CallerRuns, NEW s \in Slots, Open(s)
    PROVE  Usable(s, kind, spent, frames)
<1>1. s \in Slots \ spent
    BY DEF Open
<1>2. \A i \in 1 .. Len(frames) : s \notin {frames[i].arg, frames[i].res}
    BY DEF Open, Reserved
<1>3. s \notin Vars => CanUse(Home[s]) /\ Home[s] \in Objs
    BY HomeIs DEF Open
<1>4. s \notin Vars => kind[Home[s]] \notin {"free", "closed"}
    BY <1>3 DEF CanUse, Kinds
<1>5. ASSUME NEW i \in 1 .. Len(frames), Visiting(frames[i], kind), s \in Fields(frames[i].obj)
      PROVE  FALSE
  <2> DEFINE f == frames[i]
             o == Home[s]
  <2>1. f \in Frames /\ FrameOK(f, kind, at, spent, DoomedIn(frames))
      BY DEF IInv, State, Typed, CallsOK
  <2>2. f.obj = o
      BY <1>5 DEF Fields
  <2>3. f.obj # NULL
      BY <2>1, <1>5, RefsConstants DEF Visiting, FrameOK, CloseOK
  <2>4. s \notin Vars /\ CanUse(o) /\ o \in Objs
      BY <1>3, <2>2, <2>3 DEF Vars
  <2>5. CASE f.call = "close"
    <3>1. Closing(o)
        BY <1>5, <2>2, <2>5 DEF Visiting, Closing
    <3> QED
        BY <3>1, <2>4 DEF CanUse
  <2>6. CASE f.call = "dealloc"
    <3>1. kind[o] = "container" /\ o \in DoomedIn(frames)
        BY <1>5, <2>2, <2>3, <2>4, <2>6 DEF Visiting, DoomedIn, DoomedBy
    <3>2. ~HasVariable(o)
        BY <3>1, <2>4, VariableRefers DEF HasVariable
    <3>3. frames # <<>> /\ Top.obj = o
        BY <3>2, <2>4 DEF CanUse
    <3>4. Top.call \in {"send", "close"}
        BY <3>3, TopIs DEF CallerRuns, FrameOK, DeallocOK, StoreOK, Frames
    <3> QED
        BY <3>1, <3>3, <3>4, TopIs DEF FrameOK, SendOK, CloseOK
  <2> QED
      BY <1>5, <2>5, <2>6 DEF Visiting
<1> QED
    BY <1>1, <1>2, <1>4, <1>5 DEF Usable

\* New keeps the invariant.
LEMMA NewKeeps ==
    ASSUME IInv, NEW o \in Objs, NEW kk \in Kinds, NEW s \in Slots, New(o, kk, s)
    PROVE  IInv'
<1> DEFINE k2 == [kind EXCEPT ![o] = kk]
           c2 == [refcnt EXCEPT ![o] = 1]
           x2 == told \ {o}
           D  == DoomedIn(frames)
<1>1. /\ Typed(kind, refcnt, at, spent, frames, told)
      /\ CallsOK(kind, at, spent, frames, D) /\ Balanced(kind, refcnt, at, spent, D, NULL)
      /\ Charged(kind, spent, frames) /\ Emptied(kind, at) /\ Exited(kind, frames, told)
      /\ Unreferred(at, spent, D, ExitingIn(frames))
    BY DEF IInv, State
<1>2. kind[o] = "free" /\ kk \in {"container", "generator"}
    BY DEF New, Kinds
<1>3. Typed(k2, c2, at, spent, frames, x2)
    BY <1>1, <1>2, RefsConstants DEF Typed
<1>4. k2[o] = kk /\ c2[o] = 1 /\ x2 = told \ {o} /\ told \subseteq Objs
      /\ \A q \in Objs : q # o => k2[q] = kind[q] /\ c2[q] = refcnt[q]
    BY <1>1 DEF Typed
<1> HIDE DEF k2, c2, x2
<1>5. o \notin D /\ RefsOf(at, spent, o) = {} /\ D \subseteq Objs
    BY <1>1, <1>2, DoomedTyped DEF Balanced, Living
<1>6. ASSUME NEW i \in 1 .. Len(frames)
      PROVE  frames[i].obj # o /\ Kept(frames[i], kind, at, spent, k2, at, spent)
  <2>1. frames[i] \in Frames /\ FrameOK(frames[i], kind, at, spent, D)
      BY <1>1 DEF Typed, CallsOK
  <2>2. frames[i].call = "dealloc" => frames[i].obj # o
      BY <1>5, RefsConstants DEF DoomedIn, DoomedBy
  <2>3. frames[i].obj # o
      BY <1>2, <2>1, <2>2 DEF FrameOK, SendOK, CloseOK, StoreOK, Frames
  <2>4. frames[i].obj # NULL => k2[frames[i].obj] = kind[frames[i].obj]
      BY <1>4, <2>1, <2>3 DEF Frames
  <2>5. frames[i].call = "store" => frames[i].slot \in spent
      BY <2>1 DEF FrameOK, StoreOK
  <2> QED
      BY <2>3, <2>4, <2>5 DEF Kept
<1>7. CallsOK(k2, at, spent, frames, D)
    BY <1>1, <1>6, CallsKept DEF Typed
<1>8. Balanced(k2, c2, at, spent, D, o)
  <2>1. Cardinality(RefsOf(at, spent, o)) = 0
      BY <1>5, RefsFinite
  <2>2. ASSUME NEW q \in Objs, k2[q] # "free", c2[q] < Immortal
        PROVE  c2[q] = Cardinality(RefsOf(at, spent, q)) + (IF q \in D THEN 1 ELSE 0)
                       + (IF q = o THEN 1 ELSE 0)
    <3>1. CASE q = o
        BY <3>1, <1>4, <1>5, <2>1
    <3>2. CASE q # o
      <4>1. k2[q] = kind[q] /\ c2[q] = refcnt[q]
          BY <3>2, <1>4
      <4>2. c2[q] = Cardinality(RefsOf(at, spent, q)) + (IF q \in D THEN 1 ELSE 0) + 0
          BY <4>1, <2>2, <1>1, RefsConstants DEF Balanced, Counted
      <4> QED
          BY <3>2, <4>2
    <3> QED
        BY <3>1, <3>2
  <2>3. Living(k2, c2, at, spent, D, o)
      BY <1>1, <1>2, <1>4, <1>5, RefsConstants DEF Balanced, Living
  <2> QED
      BY <2>2, <2>3 DEF Balanced, Counted
<1>9. Charged(k2, spent, frames)
  <2> SUFFICES ASSUME NEW r \in spent, NEW i \in 1 .. Len(frames), InCharge(frames[i], r, kind)
               PROVE  InCharge(frames[i], r, k2)
      BY <1>1 DEF Charged
  <2>1. r \in Slots /\ r \notin Vars
      BY <1>1 DEF Typed
  <2>2. Home[r] \in Objs
      BY <2>1, HomeIs
  <2> QED
      BY <1>4, <1>6, <2>2 DEF InCharge
<1>10. Emptied(k2, at)
    BY <1>1, <1>2, <1>4, HomeIs DEF Emptied
<1>11. Exited(k2, frames, x2)
    BY <1>1, <1>4 DEF Exited
<1>12. State(k2, c2, at, spent, frames, x2, o)
    BY <1>1, <1>3, <1>7, <1>8, <1>9, <1>10, <1>11 DEF State
<1>13. Usable(s, k2, spent, frames)
  <2>1. Usable(s, kind, spent, frames) /\ s \in Vars
      BY OpenIsUsable DEF New
  <2>2. ASSUME NEW i \in 1 .. Len(frames), Visiting(frames[i], k2)
        PROVE  Visiting(frames[i], kind)
    <3>1. frames[i] \in Frames
        BY <1>1 DEF Typed
    <3> QED
        BY <1>4, <1>6, <2>2, <3>1 DEF Visiting, Frames
  <2> QED
      BY <2>1, <2>2 DEF Usable
<1>14. State(k2, c2, [at EXCEPT ![s] = o], spent, frames, x2, NULL)
    BY <1>5, <1>12, <1>13, GainAt DEF New
<1> QED
    BY <1>14 DEF New, IInv, k2, c2, x2

\* Copy keeps the invariant.
LEMMA CopyKeeps ==
    ASSUME IInv, NEW r \in Slots, NEW s \in Slots, Copy(r, s)
    PROVE  IInv'
<1>1. r \in Slots \ spent /\ at[r] # NULL
    BY DEF Copy, Open, IInv, State, Typed
<1>2. /\ at[r] \in Objs
      /\ at[r] \in DoomedIn(frames) => at[r] \in ExitingIn(frames)
      /\ State(kind, Inc(refcnt, at[r]), at, spent, frames, told, at[r])
    BY <1>1, ReferredTo, CountUp DEF IInv
<1>3. Usable(s, kind, spent, frames) /\ at[s] = NULL
    BY OpenIsUsable DEF Copy
<1>4. State(kind, Inc(refcnt, at[r]), [at EXCEPT ![s] = at[r]], spent, frames, told, NULL)
    BY <1>2, <1>3, GainAt
<1> QED
    BY <1>4 DEF Copy, IncRef, Inc, IInv

\* CopyArgument keeps the invariant: the generator whose function runs is
\* there, and where nothing refers to it, it is in its last call.
LEMMA CopyArgumentKeeps ==
    ASSUME IInv, NEW s \in Slots, CopyArgument(s)
    PROVE  IInv'
<1> DEFINE o == Top.obj
<1>1. frames # <<>> /\ Top.phase = "func"
    BY DEF CopyArgument, CallerRuns
<1>2. /\ Len(frames) \in 1 .. Len(frames) /\ Top \in Frames /\ Top = frames[Len(frames)]
      /\ FrameOK(Top, kind, at, spent, DoomedIn(frames))
    BY <1>1, TopIs DEF Top
<1>3. \/ Top.call = "send" /\ SendOK(Top, kind, at)
      \/ Top.call = "close" /\ CloseOK(Top, kind, at, spent, DoomedIn(frames))
    BY <1>1, <1>2 DEF FrameOK, DeallocOK, StoreOK, Frames
<1>4. o \in Objs /\ o # NULL /\ kind[o] # "free"
    BY <1>3, RefsConstants DEF SendOK, CloseOK
<1>5. o \in DoomedIn(frames) => o \in ExitingIn(frames)
  <2>1. CASE Top.arg = NULL
    <3>1. o \in ExitedBy(Top)
        BY <1>1, <1>3, <1>4, <2>1, RefsConstants DEF ExitedBy, SendOK, Vars
    <3> QED
        BY <3>1, <1>2, <1>4 DEF ExitingIn
  <2>2. CASE Top.arg # NULL
    <3>1. Top.arg \in Slots \ spent /\ at[Top.arg] = o
        BY <1>3, <2>2 DEF SendOK, CloseOK, IInv, State, Typed, Vars
    <3> QED
        BY <3>1, <1>4, ReferredTo DEF IInv
  <2> QED
      BY <2>1, <2>2
<1>6. State(kind, Inc(refcnt, o), at, spent, frames, told, o)
    BY <1>4, CountUp DEF IInv
<1>7. Usable(s, kind, spent, frames) /\ at[s] = NULL
    BY OpenIsUsable DEF CopyArgument
<1>8. State(kind, Inc(refcnt, o), [at EXCEPT ![s] = o], spent, frames, told, NULL)
    BY <1>4, <1>5, <1>6, <1>7, GainAt
<1> QED
    BY <1>8 DEF CopyArgument, IncRef, Inc, IInv

\* Take keeps the invariant.
LEMMA TakeKeeps ==
    ASSUME IInv, NEW r \in Slots, NEW s \in Slots, Take(r, s)
    PROVE  IInv'
<1> DEFINE a2 == [at EXCEPT ![r] = NULL]
<1>1. Usable(r, kind, spent, frames) /\ Usable(s, kind, spent, frames)
    BY OpenIsUsable DEF Take
<1>2. at[r] # NULL /\ at[s] = NULL /\ at \in [Slots -> Objs \cup {NULL}]
    BY DEF Take, IInv, State, Typed
<1>3. State(kind, refcnt, a2, spent, frames, told, at[r])
    BY <1>1, <1>2, LoseAt DEF IInv
<1>4. /\ a2[s] = NULL /\ at[r] \in Objs
      /\ at[r] \in DoomedIn(frames) => at[r] \in ExitingIn(frames)
    BY <1>1, <1>2, ReferredTo DEF IInv, Usable
<1>5. State(kind, refcnt, [a2 EXCEPT ![s] = at[r]], spent, frames, told, NULL)
    BY <1>1, <1>3, <1>4, GainAt
<1>6. [a2 EXCEPT ![s] = at[r]] = at'
    BY <1>2 DEF Take
<1> QED
    BY <1>5, <1>6 DEF Take, IInv

\* Drop keeps the invariant.
LEMMA DropKeeps ==
    ASSUME IInv, NEW s \in Slots, Drop(s)
    PROVE  IInv'
<1>1. Usable(s, kind, spent, frames) /\ at[s] # NULL
    BY OpenIsUsable DEF Drop
<1>2. State(kind', refcnt, at', spent', frames, told', at[s])
    BY <1>1, LoseAt DEF Drop, IInv
<1>3. at[s] \in Objs /\ refcnt \in [Objs -> 0 .. Immortal]
    BY <1>1 DEF IInv, State, Typed
<1> QED
    BY <1>2, <1>3, Settled DEF Drop, IInv

(***************************************************************************)
(* Calls that begin, and calls that end.                                   *)
(***************************************************************************)
\* A call that deallocates nothing begins.
LEMMA Started ==
    ASSUME NEW k, NEW c, NEW a, NEW p, NEW fs, NEW x, NEW f \in Frames, NEW x2,
           State(k, c, a, p, fs, x, NULL), f.call # "dealloc",
           FrameOK(f, k, a, p, DoomedIn(fs)),
           \A i \in 1 .. Len(fs) : PairOK(fs[i], f),
           \/ x2 = x
           \/ f.call = "close" /\ x2 = x \cup {f.obj}
    PROVE  State(k, c, a, p, Append(fs, f), x2, NULL)
<1> DEFINE gs == Append(fs, f)
<1>1. Typed(k, c, a, p, fs, x) /\ fs \in Seq(Frames)
    BY DEF State, Typed
<1>2. /\ gs \in Seq(Frames) /\ Len(fs) \in Nat /\ Len(gs) = Len(fs) + 1
      /\ \A i \in 1 .. Len(fs) : gs[i] = fs[i]
      /\ gs[Len(fs) + 1] = f
      /\ DoomedIn(gs) = DoomedIn(fs) /\ ExitingIn(fs) \subseteq ExitingIn(gs)
  <2>1. DoomedBy(f) = {}
      BY DEF DoomedBy
  <2>2. DoomedIn(fs) \cup (DoomedBy(f) \cap Objs) = DoomedIn(fs)
      BY <2>1
  <2>3. ExitingIn(gs) = ExitingIn(fs) \cup ExitedBy(f)
      BY <1>1, Pushed
  <2>4. ExitingIn(fs) \subseteq ExitingIn(gs)
      BY <2>3
  <2> QED
      BY <1>1, <2>2, <2>4, Pushed
<1>3. CallsOK(k, a, p, gs, DoomedIn(fs))
    BY <1>1, CallsPushed DEF State
<1> HIDE DEF gs
<1>4. \A i \in 1 .. Len(fs) : i \in 1 .. Len(gs) /\ gs[i] = fs[i]
    BY <1>2
<1>5. Charged(k, p, gs)
    BY <1>4 DEF State, Charged
<1>6. Typed(k, c, a, p, gs, x2) /\ \A o \in x2 : o \in x \/ (f.call = "close" /\ o = f.obj)
    BY <1>1, <1>2 DEF Typed, FrameOK, CloseOK
<1>7. Exited(k, gs, x2)
  <2> SUFFICES ASSUME NEW o \in x2, k[o] = "generator"
               PROVE  \E i \in 1 .. Len(gs) : gs[i].call = "close" /\ gs[i].obj = o
      BY DEF Exited
  <2>1. CASE o \in x
      BY <1>4, <2>1 DEF State, Exited
  <2>2. CASE f.call = "close" /\ f.obj = o
      BY <1>2, <2>2
  <2> QED
      BY <1>6, <2>1, <2>2
<1>8. Unreferred(a, p, DoomedIn(gs), ExitingIn(gs))
    BY <1>2 DEF State, Unreferred
<1>9. State(k, c, a, p, gs, x2, NULL)
    BY <1>2, <1>3, <1>5, <1>6, <1>7, <1>8 DEF State
<1> QED
    BY <1>9 DEF gs

\* A call that deallocates and closes nothing ends.
LEMMA Ended ==
    ASSUME NEW k, NEW c, NEW a, NEW p, NEW fs, NEW x, NEW d,
           State(k, c, a, p, fs, x, d), fs # <<>>,
           DoomedBy(fs[Len(fs)]) = {}, fs[Len(fs)].call # "close",
           \A s \in p : ~InCharge(fs[Len(fs)], s, k)
    PROVE  State(k, c, a, p, Popped(fs), x, d)
<1> DEFINE gs == Popped(fs)
<1>1. Typed(k, c, a, p, fs, x) /\ fs \in Seq(Frames)
    BY DEF State, Typed
<1>2. /\ gs \in Seq(Frames) /\ DoomedIn(gs) = DoomedIn(fs) /\ ExitingIn(gs) = ExitingIn(fs)
      /\ \A i \in 1 .. Len(fs) : i \in 1 .. Len(gs) \/ i = Len(fs)
      /\ \A i \in 1 .. Len(gs) : gs[i] = fs[i]
  <2>1. ExitedBy(fs[Len(fs)]) = {}
      BY DEF ExitedBy
  <2> QED
      BY <1>1, <2>1, PoppedIs
<1>3. CallsOK(k, a, p, gs, DoomedIn(fs))
    BY <1>1, CallsPopped DEF State
<1> HIDE DEF gs
<1>4. Charged(k, p, gs) /\ Exited(k, gs, x)
    BY <1>2 DEF State, Charged, Exited
<1>5. Typed(k, c, a, p, gs, x)
    BY <1>1, <1>2 DEF Typed
<1>6. State(k, c, a, p, gs, x, d)
    BY <1>2, <1>3, <1>4, <1>5 DEF State
<1> QED
    BY <1>6 DEF gs

\* The fields of a new call.
LEMMA FrameIs ==
    ASSUME NEW call, NEW o, NEW phase, NEW arg, NEW res, NEW slot, NEW item
    PROVE  LET f == Frame(call, o, phase, arg, res, slot, item)
           IN  /\ f.call = call /\ f.obj = o /\ f.phase = phase /\ f.left = {}
               /\ f.waiting = {} /\ f.arg = arg /\ f.res = res /\ f.slot = slot
               /\ f.item = item
               /\ call # "dealloc" => DoomedBy(f) = {}
BY DEF Frame, DoomedBy

\* Calls of a generator that are in progress when its function is called wait
\* for the function themselves, or deallocate it.
LEMMA MayCall ==
    ASSUME IInv, NEW o \in Objs, ~Closing(o), kind[o] = "generator",
           NEW i \in 1 .. Len(frames), frames[i].call # "store", frames[i].obj = o
    PROVE  frames[i].call = "dealloc" \/ frames[i].phase = "func"
<1>1. frames[i] \in Frames /\ FrameOK(frames[i], kind, at, spent, DoomedIn(frames))
    BY DEF IInv, State, Typed, CallsOK
<1>2. CASE frames[i].call = "send"
    BY <1>1, <1>2 DEF FrameOK, SendOK
<1>3. CASE frames[i].call = "close"
    BY <1>1, <1>3 DEF FrameOK, CloseOK, Closing
<1> QED
    BY <1>1, <1>2, <1>3 DEF Frames

\* Send keeps the invariant.
LEMMA SendKeeps ==
    ASSUME IInv, NEW s \in Slots, NEW r \in Slots, Send(s, r)
    PROVE  IInv'
<1> DEFINE o == at[s]
           f == Frame("send", o, "func", s, r, NULL, NULL)
<1>1. /\ s \in Vars /\ o # NULL /\ kind[o] = "generator" /\ ~Closing(o)
      /\ r \in Vars /\ Open(r) /\ at[r] = NULL
    BY DEF Send, CanCall
<1>2. o \in Objs
    BY <1>1 DEF IInv, State, Typed
<1>3. f \in Frames
    BY <1>2 DEF Frame, Frames
<1>4. FrameOK(f, kind, at, spent, DoomedIn(frames))
    BY <1>1, <1>2, FrameIs DEF FrameOK, SendOK
<1>5. \A i \in 1 .. Len(frames) : r \notin {frames[i].arg, frames[i].res}
    BY <1>1 DEF Open, Reserved
<1>6. \A i \in 1 .. Len(frames) : PairOK(frames[i], f)
    BY <1>1, <1>2, <1>5, MayCall, FrameIs DEF PairOK
<1>7. State(kind, refcnt, at, spent, Append(frames, f), told, NULL)
    BY <1>3, <1>4, <1>6, FrameIs, Started DEF IInv
<1> QED
    BY <1>7 DEF Send, Call, IInv

\* Close keeps the invariant.
LEMMA CloseKeeps ==
    ASSUME IInv, NEW s \in Slots, Close(s)
    PROVE  IInv'
<1> DEFINE o == at[s]
           f == Frame("close", o, "func", s, NULL, NULL, NULL)
<1>1. s \in Vars /\ o # NULL /\ kind[o] = "generator" /\ ~Closing(o)
    BY DEF Close, CanCall
<1>2. o \in Objs /\ s # NULL
    BY <1>1, RefsConstants DEF IInv, State, Typed
<1>3. f \in Frames
    BY <1>2 DEF Frame, Frames
<1>4. FrameOK(f, kind, at, spent, DoomedIn(frames))
    BY <1>1, <1>2, FrameIs DEF FrameOK, CloseOK
<1>5. \A i \in 1 .. Len(frames) : PairOK(frames[i], f)
    BY <1>1, <1>2, MayCall, FrameIs DEF PairOK
<1>6. State(kind, refcnt, at, spent, Append(frames, f), told \cup {o}, NULL)
    BY <1>3, <1>4, <1>5, FrameIs, Started DEF IInv
<1> QED
    BY <1>6 DEF Close, Call, IInv

\* What IInv says of the calls below the one that runs.
LEMMA BelowIs ==
    ASSUME IInv, frames # <<>>
    PROVE  /\ Below = Popped(frames) /\ Below \in Seq(Frames) /\ frames \in Seq(Frames)
           /\ Top = frames[Len(frames)] /\ Top \in Frames
           /\ FrameOK(Top, kind, at, spent, DoomedIn(frames))
           /\ CallsOK(kind, at, spent, Below, DoomedIn(frames))
           /\ DoomedIn(frames) = DoomedIn(Below) \cup (DoomedBy(Top) \cap Objs)
           /\ ExitingIn(frames) = ExitingIn(Below) \cup ExitedBy(Top)
           /\ \A i \in 1 .. Len(Below) :
                 /\ Below[i] \in Frames /\ PairOK(Below[i], Top)
                 /\ FrameOK(Below[i], kind, at, spent, DoomedIn(frames))
                 /\ i \in 1 .. Len(frames) /\ Below[i] = frames[i]
           /\ \A i \in 1 .. Len(frames) : i \in 1 .. Len(Below) \/ i = Len(frames)
<1>1. Below = Popped(frames) /\ frames \in Seq(Frames) /\ Top = frames[Len(frames)]
    BY DEF Below, Popped, IInv, State, Typed, Top
<1>2. CallsOK(kind, at, spent, frames, DoomedIn(frames))
    BY DEF IInv, State
<1>3. /\ Popped(frames) \in Seq(Frames) /\ frames[Len(frames)] \in Frames
      /\ \A i \in 1 .. Len(Popped(frames)) :
            i \in 1 .. Len(frames) /\ Popped(frames)[i] = frames[i]
      /\ \A i \in 1 .. Len(frames) : i \in 1 .. Len(Popped(frames)) \/ i = Len(frames)
      /\ DoomedIn(frames) = DoomedIn(Popped(frames)) \cup (DoomedBy(Top) \cap Objs)
      /\ ExitingIn(frames) = ExitingIn(Popped(frames)) \cup ExitedBy(Top)
    BY <1>1, PoppedIs
<1>4. /\ CallsOK(kind, at, spent, Below, DoomedIn(frames))
      /\ FrameOK(Top, kind, at, spent, DoomedIn(frames))
      /\ \A i \in 1 .. Len(Below) : PairOK(Below[i], Top)
    BY <1>1, <1>2, CallsPopped
<1>5. \A i \in 1 .. Len(Below) : FrameOK(Below[i], kind, at, spent, DoomedIn(frames))
    BY <1>4 DEF CallsOK
<1>6. \A i \in 1 .. Len(Below) : Below[i] \in Frames
    BY <1>1, <1>3
<1> QED
    BY <1>1, <1>3, <1>4, <1>5, <1>6

\* DeallocCloses keeps the invariant.
LEMMA DeallocClosesKeeps ==
    ASSUME IInv, DeallocCloses
    PROVE  IInv'
<1> DEFINE o == Top.obj
           f == Frame("close", o, "func", NULL, NULL, NULL, NULL)
<1>1. frames # <<>> /\ Top.call = "dealloc" /\ o # NULL /\ kind[o] = "generator"
    BY DEF DeallocCloses, Deallocating, Running
<1>2. o \in Objs /\ Len(frames) \in 1 .. Len(frames) /\ Top = frames[Len(frames)]
    BY <1>1, BelowIs, TopIs DEF Frames
<1>3. f \in Frames
    BY <1>2 DEF Frame, Frames
<1>4. o \in DoomedIn(frames)
    BY <1>1, <1>2 DEF DoomedIn, DoomedBy
<1>5. FrameOK(f, kind, at, spent, DoomedIn(frames))
    BY <1>1, <1>2, <1>4, FrameIs DEF FrameOK, CloseOK
<1>6. ASSUME NEW i \in 1 .. Len(frames), frames[i].call # "store", frames[i].obj = o
      PROVE  frames[i].call = "dealloc"
  <2>1. CASE i = Len(frames)
      BY <2>1, <1>1, <1>2
  <2>2. CASE i \in 1 .. Len(Below)
    <3>1. PairOK(Below[i], Top) /\ Below[i] = frames[i]
        BY <1>1, <2>2, BelowIs
    <3> QED
        BY <3>1, <1>1, <1>6 DEF PairOK
  <2> QED
      BY <1>1, <2>1, <2>2, BelowIs
<1>7. \A i \in 1 .. Len(frames) : PairOK(frames[i], f)
    BY <1>6, FrameIs DEF PairOK
<1>8. State(kind, refcnt, at, spent, Append(frames, f), told \cup {o}, NULL)
    BY <1>3, <1>5, <1>7, FrameIs, Started DEF IInv
<1> QED
    BY <1>8 DEF DeallocCloses, Call, IInv

\* FuncYields keeps the invariant.
LEMMA FuncYieldsKeeps ==
    ASSUME IInv, NEW r \in Slots, FuncYields(r)
    PROVE  IInv'
<1>1. /\ frames # <<>> /\ Top.call = "send" /\ at[r] # NULL
      /\ r \in Slots \ spent
    BY DEF FuncYields, Running, Open, IInv, State, Typed
<1>2. SendOK(Top, kind, at)
    BY <1>1, BelowIs DEF FrameOK
<1>3. State(kind, refcnt, at, spent, Below, told, NULL)
  <2>1. DoomedBy(Top) = {} /\ \A s \in spent : ~InCharge(Top, s, kind)
      BY <1>1 DEF DoomedBy, InCharge
  <2> QED
      BY <1>1, <2>1, BelowIs, Ended DEF IInv
<1>4. /\ at[r] \in Objs
      /\ at[r] \in DoomedIn(Below) => at[r] \in ExitingIn(Below)
      /\ State(kind, Inc(refcnt, at[r]), at, spent, Below, told, at[r])
    BY <1>1, <1>3, ReferredTo, CountUp
<1>5. Usable(Top.res, kind, spent, Below)
  <2>1. Top.res \in Slots \ spent /\ Top.res \in Vars /\ Top.res # NULL
      BY <1>2, RefsConstants DEF SendOK, IInv, State, Typed, Vars
  <2>2. ASSUME NEW i \in 1 .. Len(Below)
        PROVE  /\ Top.res \notin {Below[i].arg, Below[i].res}
               /\ Visiting(Below[i], kind) => Top.res \notin Fields(Below[i].obj)
    <3>1. PairOK(Below[i], Top) /\ FrameOK(Below[i], kind, at, spent, DoomedIn(frames))
        BY <1>1, BelowIs
    <3>2. Visiting(Below[i], kind) => Below[i].obj # NULL
        BY <3>1, RefsConstants DEF Visiting, FrameOK, CloseOK
    <3> QED
        BY <1>1, <2>1, <3>1, <3>2 DEF PairOK, Vars, Fields
  <2> QED
      BY <2>1, <2>2 DEF Usable
<1>6. at[Top.res] = NULL
    BY <1>2 DEF SendOK
<1>7. State(kind, Inc(refcnt, at[r]), [at EXCEPT ![Top.res] = at[r]], spent, Below, told, NULL)
    BY <1>4, <1>5, <1>6, GainAt
<1> QED
    BY <1>7 DEF FuncYields, IncRef, Inc, IInv

\* FuncRaises keeps the invariant.
LEMMA FuncRaisesKeeps ==
    ASSUME IInv, FuncRaises
    PROVE  IInv'
<1> DEFINE o == Top.obj
           f == [Top EXCEPT !.call = "close", !.res = NULL]
<1>1. frames # <<>> /\ Top.call = "send" /\ Top \in Frames
    BY BelowIs DEF FuncRaises, Running
<1>2. SendOK(Top, kind, at)
    BY <1>1, BelowIs DEF FrameOK
<1>3. State(kind, refcnt, at, spent, Below, told, NULL)
  <2>1. DoomedBy(Top) = {} /\ \A s \in spent : ~InCharge(Top, s, kind)
      BY <1>1 DEF DoomedBy, InCharge
  <2> QED
      BY <1>1, <2>1, BelowIs, Ended DEF IInv
<1>4. f \in Frames /\ f.call = "close" /\ f.obj = o /\ f.phase = Top.phase
      /\ f.arg = Top.arg /\ f.res = NULL
    BY <1>1 DEF Frames
<1> HIDE DEF f
<1>5. FrameOK(f, kind, at, spent, DoomedIn(Below))
    BY <1>2, <1>4, RefsConstants DEF FrameOK, SendOK, CloseOK, Vars
<1>6. \A i \in 1 .. Len(Below) : PairOK(Below[i], Top)
    BY <1>1, BelowIs
<1>7. \A i \in 1 .. Len(Below) : PairOK(Below[i], f)
    BY <1>1, <1>4, <1>6 DEF PairOK, DoomedBy
<1>8. State(kind, refcnt, at, spent, Append(Below, f), told \cup {o}, NULL)
    BY <1>3, <1>4, <1>5, <1>7, Started
<1> QED
    BY <1>3, <1>8 DEF FuncRaises, Replace, IInv, f

\* DeallocEnds keeps the invariant.
LEMMA DeallocEndsKeeps ==
    ASSUME IInv, DeallocEnds
    PROVE  IInv'
<1>1. frames # <<>> /\ Top.call = "dealloc" /\ Top.obj = NULL /\ Top.waiting = {}
    BY DEF DeallocEnds, Deallocating, Running
<1>2. DoomedBy(Top) = {}
    BY <1>1 DEF DoomedBy
<1>3. \A s \in spent : Home[s] \in Objs
    BY HomeIs DEF IInv, State, Typed
<1>4. \A s \in spent : ~InCharge(Top, s, kind)
    BY <1>1, <1>3, RefsConstants DEF InCharge
<1>5. State(kind, refcnt, at, spent, Below, told, NULL)
    BY <1>1, <1>2, <1>4, BelowIs, Ended DEF IInv
<1> QED
    BY <1>5 DEF DeallocEnds, IInv

(***************************************************************************)
(* Storing an item.                                                        *)
(***************************************************************************)
\* A field gives up its reference and keeps the pointer.
LEMMA SpentBalance ==
    ASSUME NEW k, NEW c, NEW a, NEW p, NEW D, NEW s \in Slots \ p,
           c \in [Objs -> 0 .. Immortal], Balanced(k, c, a, p, D, NULL), a[s] \in Objs
    PROVE  Balanced(k, c, a, p \cup {s}, D, a[s])
<1>1. \A o \in Objs : RefsOf(a, p \cup {s}, o) = RefsOf(a, p, o) \ {s}
    BY DEF RefsOf
<1>2. s \in RefsOf(a, p, a[s])
    BY DEF RefsOf
<1> QED
    BY <1>1, <1>2, Lost

\* BeginStore keeps the invariant.
LEMMA BeginStoreKeeps ==
    ASSUME IInv, NEW s \in Slots, NEW r \in Slots, BeginStore(s, r)
    PROVE  IInv'
<1> DEFINE o == Home[s]
           D == DoomedIn(frames)
           p2 == spent \cup {s}
<1>1. /\ s \notin Vars /\ at[s] # NULL /\ kind[o] = "container"
      /\ r \in Vars /\ at[r] # NULL
      /\ kind' = kind /\ at' = at /\ told' = told /\ spent' = p2
    BY DEF BeginStore
<1>2. PICK v \in Vars :
          /\ at[v] = o
          /\ GiveUp(at[s], Append(frames, Frame("store", o, "store", r, v, s, at[r])))
    BY DEF BeginStore
<1> DEFINE f  == Frame("store", o, "store", r, v, s, at[r])
           gs == Append(frames, f)
<1>3. Usable(s, kind, spent, frames)
    BY OpenIsUsable DEF BeginStore
<1>4. /\ Typed(kind, refcnt, at, spent, frames, told)
      /\ CallsOK(kind, at, spent, frames, D) /\ Balanced(kind, refcnt, at, spent, D, NULL)
      /\ Charged(kind, spent, frames) /\ Emptied(kind, at) /\ Exited(kind, frames, told)
      /\ Unreferred(at, spent, D, ExitingIn(frames))
    BY DEF IInv, State
<1>5. frames \in Seq(Frames) /\ refcnt \in [Objs -> 0 .. Immortal]
      /\ o \in Objs /\ at[s] \in Objs /\ at[r] \in Objs /\ s \in Slots \ spent
    BY <1>1, <1>3, <1>4, HomeIs DEF Typed, Usable
<1>6. f \in Frames
    BY <1>5 DEF Frame, Frames, Vars
<1>7. f.call = "store" /\ f.obj = o /\ f.phase = "store" /\ f.slot = s /\ DoomedBy(f) = {}
      /\ f.arg = r /\ f.res = v /\ f.item = at[r]
    BY FrameIs
<1> HIDE DEF f
<1>8. /\ gs \in Seq(Frames) /\ Len(frames) \in Nat /\ Len(gs) = Len(frames) + 1
      /\ \A i \in 1 .. Len(frames) : gs[i] = frames[i]
      /\ gs[Len(frames) + 1] = f
      /\ DoomedIn(gs) = D /\ ExitingIn(frames) \subseteq ExitingIn(gs)
  <2>1. D \cup (DoomedBy(f) \cap Objs) = D
      BY <1>7
  <2> QED
      BY <1>5, <1>6, <2>1, Pushed
<1>9. CallsOK(kind, at, p2, frames, D)
  <2>1. ASSUME NEW i \in 1 .. Len(frames)
        PROVE  Kept(frames[i], kind, at, spent, kind, at, p2)
    <3>1. FrameOK(frames[i], kind, at, spent, D)
        BY <1>4 DEF CallsOK
    <3> QED
        BY <1>3, <3>1 DEF Kept, Usable, FrameOK, StoreOK
  <2> QED
      BY <1>4, <1>5, <2>1, CallsKept
<1>10. FrameOK(f, kind, at, p2, D)
    BY <1>1, <1>2, <1>5, <1>7 DEF FrameOK, StoreOK
<1>11. ASSUME NEW i \in 1 .. Len(frames)
       PROVE  PairOK(frames[i], f)
  <2>1. FrameOK(frames[i], kind, at, spent, D)
      BY <1>4 DEF CallsOK
  <2> QED
      BY <1>5, <1>7, <2>1 DEF PairOK, FrameOK, StoreOK
<1>12. CallsOK(kind, at, p2, gs, D)
    BY <1>5, <1>6, <1>9, <1>10, <1>11, CallsPushed
<1> HIDE DEF gs
<1>13. \A i \in 1 .. Len(frames) : i \in 1 .. Len(gs) /\ gs[i] = frames[i]
    BY <1>8
<1>14. Len(gs) \in 1 .. Len(gs) /\ gs[Len(gs)] = f
    BY <1>8
<1>15. Charged(kind, p2, gs)
  <2>1. InCharge(f, s, kind)
      BY <1>7 DEF InCharge
  <2> QED
      BY <1>4, <1>13, <1>14, <2>1 DEF Charged
<1>16. Exited(kind, gs, told)
    BY <1>4, <1>13 DEF Exited
<1>17. Typed(kind, refcnt, at, p2, gs, told)
    BY <1>1, <1>4, <1>8 DEF Typed
<1>18. Balanced(kind, refcnt, at, p2, D, at[s])
    BY <1>4, <1>5, SpentBalance
<1>19. Unreferred(at, p2, D, ExitingIn(gs))
    BY <1>4, <1>8 DEF Unreferred, RefsOf
<1>20. State(kind', refcnt, at', spent', gs, told', at[s])
    BY <1>1, <1>4, <1>8, <1>12, <1>15, <1>16, <1>17, <1>18, <1>19 DEF State
<1>21. GiveUp(at[s], gs)
    BY <1>2 DEF gs, f
<1> QED
    BY <1>1, <1>5, <1>20, <1>21, Settled DEF IInv

\* The places a call uses are variables.
LEMMA ArgsAreVars ==
    ASSUME NEW f \in Frames, NEW k, NEW a, NEW p, NEW D, FrameOK(f, k, a, p, D)
    PROVE  {f.arg, f.res} \ {NULL} \subseteq Vars
BY DEF FrameOK, DeallocOK, SendOK, CloseOK, StoreOK, Frames

\* EndStore keeps the invariant.
LEMMA EndStoreKeeps ==
    ASSUME IInv, EndStore
    PROVE  IInv'
<1> DEFINE s == Top.slot
           o == Top.obj
           D == DoomedIn(frames)
           p1 == spent \ {s}
           a1 == [at EXCEPT ![s] = NULL]
<1>1. frames # <<>> /\ Top.call = "store" /\ Top \in Frames
    BY BelowIs DEF EndStore, Running
<1>2. StoreOK(Top, kind, at, spent)
    BY <1>1, BelowIs DEF FrameOK
<1>3. /\ Typed(kind, refcnt, at, spent, frames, told)
      /\ CallsOK(kind, at, spent, frames, D) /\ Balanced(kind, refcnt, at, spent, D, NULL)
      /\ Charged(kind, spent, frames) /\ Emptied(kind, at) /\ Exited(kind, frames, told)
      /\ Unreferred(at, spent, D, ExitingIn(frames))
    BY DEF IInv, State
<1>4. s \in Slots /\ s \notin Vars /\ s \in spent /\ Home[s] = o /\ o \in Objs
      /\ s \notin RefsOf(at, spent, o)
    BY <1>2, <1>3 DEF StoreOK, Typed, RefsOf
<1>5. \A q \in Slots : q # s => a1[q] = at[q]
    BY <1>3 DEF Typed
<1>6. a1[s] = NULL /\ Typed(kind, refcnt, a1, p1, frames, told)
    BY <1>3, <1>4 DEF Typed
<1> HIDE DEF a1
<1>7. DoomedIn(Below) = D /\ ExitingIn(Below) = ExitingIn(frames) /\ Below \in Seq(Frames)
  <2>1. DoomedBy(Top) = {} /\ ExitedBy(Top) = {}
      BY <1>1 DEF DoomedBy, ExitedBy
  <2> QED
      BY <1>1, <2>1, BelowIs
<1>8. ASSUME NEW i \in 1 .. Len(Below)
      PROVE  /\ s \notin {Below[i].arg, Below[i].res}
             /\ Visiting(Below[i], kind) => s \notin Fields(Below[i].obj)
             /\ Kept(Below[i], kind, at, spent, kind, a1, p1)
  <2>1. /\ Below[i] \in Frames /\ PairOK(Below[i], Top)
        /\ FrameOK(Below[i], kind, at, spent, D)
        /\ i \in 1 .. Len(frames) /\ Below[i] = frames[i]
      BY <1>1, BelowIs
  <2>2. {Below[i].arg, Below[i].res} \ {NULL} \subseteq Vars
      BY <2>1, ArgsAreVars
  <2>3. s \notin {Below[i].arg, Below[i].res}
      BY <2>2, <1>4, RefsConstants
  <2>4. Visiting(Below[i], kind) => s \notin Fields(Below[i].obj)
    <3> SUFFICES ASSUME Visiting(Below[i], kind), Below[i].obj = o
                 PROVE  FALSE
        BY <1>4 DEF Fields
    <3>1. Below[i].call = "dealloc"
        BY <2>1, <1>2 DEF Visiting, FrameOK, CloseOK, StoreOK
    <3>2. o \in D
        BY <3>1, <2>1, <1>4, RefsConstants DEF DoomedIn, DoomedBy
    <3> QED
        BY <3>2, <1>2, VariableRefers, <1>4 DEF StoreOK
  <2>5. \A q \in {Below[i].arg, Below[i].res} \ {NULL} : a1[q] = at[q]
      BY <2>2, <1>5, <1>4 DEF Vars
  <2>6. Below[i].call = "store" => Below[i].slot \in p1
      BY <2>1, <1>1 DEF FrameOK, StoreOK, PairOK
  <2>7. Visiting(Below[i], kind) =>
            \A q \in Fields(Below[i].obj) : a1[q] = at[q] /\ (q \in p1 <=> q \in spent)
      BY <2>4, <1>5 DEF Fields
  <2> QED
      BY <2>3, <2>4, <2>5, <2>6, <2>7 DEF Kept
<1>9. CallsOK(kind, a1, p1, Below, D)
  <2>1. CallsOK(kind, at, spent, Below, D)
      BY <1>1, BelowIs
  <2> HIDE DEF D, p1
  <2> QED
      BY <2>1, <1>7, <1>8, CallsKept
<1>10. /\ Balanced(kind, refcnt, a1, p1, D, NULL)
       /\ Unreferred(a1, p1, D, ExitingIn(Below))
  <2>1. \A q \in Objs : RefsOf(a1, p1, q) = RefsOf(at, spent, q)
      BY <1>4, <1>5, <1>6, RefsConstants DEF RefsOf
  <2>2. Unreferred(a1, p1, D, ExitingIn(Below))
      BY <1>3, <1>7, <2>1, DoomedTyped DEF Unreferred
  <2> HIDE DEF p1
  <2> QED
      BY <1>3, <2>1, <2>2, DoomedTyped, SameBalance
<1>11. Charged(kind, p1, Below)
  <2> SUFFICES ASSUME NEW q \in p1
               PROVE  \E i \in 1 .. Len(Below) : InCharge(Below[i], q, kind)
      BY DEF Charged
  <2>1. PICK i \in 1 .. Len(frames) : InCharge(frames[i], q, kind)
      BY <1>3 DEF Charged
  <2>2. ~InCharge(Top, q, kind)
      BY <1>1 DEF InCharge
  <2>3. i \in 1 .. Len(Below) /\ Below[i] = frames[i]
      BY <1>1, <2>1, <2>2, BelowIs
  <2> QED
      BY <2>1, <2>3
<1>12. Exited(kind, Below, told)
  <2>1. \A i \in 1 .. Len(frames) : frames[i].call = "close" =>
            i \in 1 .. Len(Below) /\ Below[i] = frames[i]
      BY <1>1, BelowIs
  <2> QED
      BY <1>3, <2>1 DEF Exited
<1>13. Emptied(kind, a1) /\ Typed(kind, refcnt, a1, p1, Below, told)
    BY <1>3, <1>5, <1>6, <1>7 DEF Emptied, Typed
<1>14. State(kind, refcnt, a1, p1, Below, told, NULL)
    BY <1>7, <1>9, <1>10, <1>11, <1>12, <1>13 DEF State
<1>15. Top.arg \in Slots \ p1 /\ a1[Top.arg] = Top.item /\ Top.item \in Objs
    BY <1>2, <1>3, <1>4, <1>5 DEF StoreOK, Vars, Typed
<1>16. /\ State(kind, Inc(refcnt, Top.item), a1, p1, Below, told, Top.item)
       /\ Top.item \in DoomedIn(Below) => Top.item \in ExitingIn(Below)
  <2>1. a1[Top.arg] # NULL
      BY <1>15, RefsConstants
  <2> HIDE DEF p1
  <2>2. /\ kind[a1[Top.arg]] # "free"
        /\ a1[Top.arg] \in DoomedIn(Below) => a1[Top.arg] \in ExitingIn(Below)
      BY <1>14, <1>15, <2>1, ReferredTo
  <2> QED
      BY <1>14, <1>15, <2>2, CountUp
<1>17. Usable(s, kind, p1, Below)
    BY <1>2, <1>4, <1>8 DEF Usable, StoreOK
<1>18. State(kind, Inc(refcnt, Top.item), [a1 EXCEPT ![s] = Top.item], p1, Below, told, NULL)
    BY <1>6, <1>15, <1>16, <1>17, GainAt
<1>19. at' = [a1 EXCEPT ![s] = Top.item]
    BY <1>3 DEF EndStore, a1, Typed
<1> QED
    BY <1>18, <1>19 DEF EndStore, IncRef, Inc, IInv

(***************************************************************************)
(* The call that runs goes on.                                             *)
(***************************************************************************)
\* It leaves f in its place; the rest of the state may change.
LEMMA GoesOn ==
    ASSUME IInv, frames # <<>>, NEW f \in Frames,
           NEW k2, NEW c2, NEW a2, NEW p2, NEW d, NEW D2,
           D2 = DoomedIn(Below) \cup (DoomedBy(f) \cap Objs),
           Typed(k2, c2, a2, p2, frames, told),
           Balanced(k2, c2, a2, p2, D2, d), Emptied(k2, a2),
           Unreferred(a2, p2, D2, ExitingIn(Below) \cup ExitedBy(f)),
           \A i \in 1 .. Len(Below) :
               PairOK(Below[i], f) /\ Kept(Below[i], kind, at, spent, k2, a2, p2),
           FrameOK(f, k2, a2, p2, D2),
           \A i \in 1 .. Len(Below) : Below[i].obj \in DoomedIn(frames) => Below[i].obj \in D2,
           \A s \in p2 : InCharge(f, s, k2)
                         \/ (s \in spent /\ ~InCharge(Top, s, kind)
                             /\ k2[Home[s]] = kind[Home[s]]),
           \A o \in Objs : k2[o] = "generator" => kind[o] = "generator",
           Top.call = "close" => f.call = "close" /\ f.obj = Top.obj
    PROVE  State(k2, c2, a2, p2, Append(Below, f), told, d)
<1> DEFINE gs == Append(Below, f)
<1>1. /\ Below \in Seq(Frames) /\ frames \in Seq(Frames)
      /\ CallsOK(kind, at, spent, Below, DoomedIn(frames))
      /\ \A i \in 1 .. Len(Below) : i \in 1 .. Len(frames) /\ Below[i] = frames[i]
      /\ \A i \in 1 .. Len(frames) : i \in 1 .. Len(Below) \/ i = Len(frames)
      /\ Top = frames[Len(frames)]
    BY BelowIs
<1>2. /\ gs \in Seq(Frames) /\ Len(Below) \in Nat /\ Len(gs) = Len(Below) + 1
      /\ \A i \in 1 .. Len(Below) : gs[i] = Below[i]
      /\ gs[Len(Below) + 1] = f
      /\ DoomedIn(gs) = D2 /\ ExitingIn(gs) = ExitingIn(Below) \cup ExitedBy(f)
    BY <1>1, Pushed
<1>3. CallsOK(k2, a2, p2, Below, D2)
    BY <1>1, CallsKept
<1>4. CallsOK(k2, a2, p2, gs, D2)
    BY <1>1, <1>3, CallsPushed
<1> HIDE DEF gs
<1>5. /\ \A i \in 1 .. Len(Below) : i \in 1 .. Len(gs) /\ gs[i] = Below[i]
      /\ Len(gs) \in 1 .. Len(gs) /\ gs[Len(gs)] = f
    BY <1>2
<1>6. \A i \in 1 .. Len(frames) : (i \in 1 .. Len(gs) /\ gs[i] = frames[i]) \/ frames[i] = Top
    BY <1>1, <1>5
<1>7. Charged(k2, p2, gs)
  <2> SUFFICES ASSUME NEW s \in p2, ~InCharge(f, s, k2)
               PROVE  \E i \in 1 .. Len(gs) : InCharge(gs[i], s, k2)
      BY <1>5 DEF Charged
  <2>1. s \in spent /\ ~InCharge(Top, s, kind) /\ k2[Home[s]] = kind[Home[s]]
      OBVIOUS
  <2>2. PICK i \in 1 .. Len(frames) : InCharge(frames[i], s, kind)
      BY <2>1 DEF IInv, State, Charged
  <2>3. i \in 1 .. Len(gs) /\ gs[i] = frames[i]
      BY <2>1, <2>2, <1>6
  <2>4. InCharge(gs[i], s, k2)
      BY <2>1, <2>2, <2>3 DEF InCharge
  <2> QED
      BY <2>3, <2>4
<1>8. Exited(k2, gs, told)
  <2> SUFFICES ASSUME NEW o \in told, k2[o] = "generator"
               PROVE  \E i \in 1 .. Len(gs) : gs[i].call = "close" /\ gs[i].obj = o
      BY DEF Exited
  <2>1. PICK i \in 1 .. Len(frames) : frames[i].call = "close" /\ frames[i].obj = o
      BY DEF IInv, State, Exited, Typed
  <2> QED
      BY <2>1, <1>5, <1>6
<1>9. Typed(k2, c2, a2, p2, gs, told)
    BY <1>2 DEF Typed
<1>10. State(k2, c2, a2, p2, gs, told, d)
    BY <1>2, <1>4, <1>7, <1>8, <1>9 DEF State
<1> QED
    BY <1>10 DEF gs

\* Nothing changes for the calls below.
LEMMA SameKept ==
    ASSUME IInv, frames # <<>>
    PROVE  \A i \in 1 .. Len(Below) : Kept(Below[i], kind, at, spent, kind, at, spent)
BY BelowIs DEF Kept, FrameOK, StoreOK

\* Nor does anything but the frame itself.
LEMMA FrameGoesOn ==
    ASSUME IInv, frames # <<>>, NEW f \in Frames,
           f.call = Top.call, DoomedBy(f) = DoomedBy(Top),
           Top.call = "close" => f.obj = Top.obj,
           \A i \in 1 .. Len(Below) : PairOK(Below[i], f),
           FrameOK(f, kind, at, spent, DoomedIn(frames)),
           \A o \in ExitedBy(Top) \ ExitedBy(f) : RefsOf(at, spent, o) = {},
           \A s \in spent : InCharge(Top, s, kind) => InCharge(f, s, kind)
    PROVE  State(kind, refcnt, at, spent, Append(Below, f), told, NULL)
<1> DEFINE D == DoomedIn(frames)
<1>1. D = DoomedIn(Below) \cup (DoomedBy(f) \cap Objs)
    BY BelowIs
<1>2. Typed(kind, refcnt, at, spent, frames, told)
      /\ Balanced(kind, refcnt, at, spent, D, NULL) /\ Emptied(kind, at)
      /\ Unreferred(at, spent, D, ExitingIn(Below) \cup ExitedBy(f))
  <2>1. /\ Unreferred(at, spent, D, ExitingIn(frames))
        /\ ExitingIn(frames) = ExitingIn(Below) \cup ExitedBy(Top)
      BY BelowIs DEF IInv, State
  <2>2. Unreferred(at, spent, D, ExitingIn(Below) \cup ExitedBy(f))
      BY <2>1 DEF Unreferred
  <2> QED
      BY <2>2 DEF IInv, State
<1>3. \A s \in spent : InCharge(f, s, kind)
                       \/ (s \in spent /\ ~InCharge(Top, s, kind)
                           /\ kind[Home[s]] = kind[Home[s]])
    OBVIOUS
<1> HIDE DEF D
<1> QED
    BY <1>1, <1>2, <1>3, SameKept, GoesOn DEF D

\* FuncExits keeps the invariant.
LEMMA FuncExitsKeeps ==
    ASSUME IInv, NEW r \in Slots \cup {NULL}, FuncExits(r)
    PROVE  IInv'
<1> DEFINE o == Top.obj
           f == [Top EXCEPT !.phase = "visit", !.res = r, !.left = Fields(o)]
<1>1. frames # <<>> /\ Top.call = "close" /\ Top.phase = "func" /\ Top \in Frames
    BY BelowIs DEF FuncExits, Running
<1>2. CloseOK(Top, kind, at, spent, DoomedIn(frames))
    BY <1>1, BelowIs DEF FrameOK
<1>3. o \in Objs /\ kind[o] \in {"generator", "closed"}
    BY <1>2 DEF CloseOK
<1>4. f \in Frames /\ f.call = "close" /\ f.obj = o /\ f.phase = "visit"
      /\ f.arg = Top.arg /\ f.res = r /\ f.left = Fields(o)
    BY <1>1 DEF Frames, Fields
<1> HIDE DEF f
<1>5. /\ \A i \in 1 .. Len(frames) : frames[i] \in Frames
      /\ Len(frames) \in 1 .. Len(frames) /\ Top = frames[Len(frames)]
    BY <1>1, BelowIs, TopIs
<1>6. r # NULL => /\ r \in Vars /\ at[r] # NULL
                  /\ \A i \in 1 .. Len(frames) : r \notin {frames[i].arg, frames[i].res}
    BY DEF FuncExits, Open, Reserved
<1>7. Fields(o) \cap spent = {}
  <2> SUFFICES ASSUME NEW s \in spent, Home[s] = o
               PROVE  FALSE
      BY DEF Fields
  <2>1. PICK i \in 1 .. Len(frames) : InCharge(frames[i], s, kind)
      BY DEF IInv, State, Charged
  <2>2. FrameOK(frames[i], kind, at, spent, DoomedIn(frames))
      BY DEF IInv, State, CallsOK
  <2>3. frames[i].call = "close" /\ frames[i].phase = "visit" /\ frames[i].obj = o
      BY <2>1, <2>2, <1>3 DEF InCharge, FrameOK, StoreOK
  <2>4. i \in 1 .. Len(Below) /\ PairOK(Below[i], Top) /\ Below[i] = frames[i]
      BY <1>1, <1>5, <2>3, BelowIs
  <2> QED
      BY <2>3, <2>4, <1>1, <1>3, RefsConstants DEF PairOK
<1>8. Visited(f, at, spent)
    BY <1>4, <1>7 DEF Visited
<1>9. r # NULL => r # Top.arg
    BY <1>5, <1>6
<1>10. FrameOK(f, kind, at, spent, DoomedIn(frames))
    BY <1>2, <1>4, <1>6, <1>8, <1>9 DEF FrameOK, CloseOK
<1>11. \A i \in 1 .. Len(Below) :
           PairOK(Below[i], Top) /\ i \in 1 .. Len(frames) /\ Below[i] = frames[i]
    BY <1>1, BelowIs
<1>12. DoomedBy(f) = DoomedBy(Top) /\ DoomedBy(f) = {}
    BY <1>1, <1>4 DEF DoomedBy
<1>13. \A i \in 1 .. Len(Below) : PairOK(Below[i], f)
    BY <1>1, <1>4, <1>6, <1>11, <1>12 DEF PairOK
<1>14. \A s \in spent : InCharge(Top, s, kind) => InCharge(f, s, kind)
    BY <1>1 DEF InCharge
<1>15. \A q \in ExitedBy(Top) \ ExitedBy(f) : RefsOf(at, spent, q) = {}
    BY DEF ExitedBy, FuncExits, Refs, RefsOf
<1>16. State(kind, refcnt, at, spent, Append(Below, f), told, NULL)
    BY <1>1, <1>4, <1>10, <1>12, <1>13, <1>14, <1>15, FrameGoesOn
<1> QED
    BY <1>16 DEF FuncExits, Replace, IInv, f

(***************************************************************************)
(* Visiting the fields of an object that dies or is closed.                *)
(***************************************************************************)
\* The frame with one field less.
Without(f, s) == [f EXCEPT !.left = @ \ {s}]

\* The field that a deallocation or a close is about to visit.
LEMMA VisitorIs ==
    ASSUME IInv, frames # <<>>, Top.call \in {"dealloc", "close"}, Top.phase = "visit",
           NEW s \in Top.left
    PROVE  /\ Top.obj \in Objs /\ s \in Slots \ spent /\ s \in Fields(Top.obj)
           /\ Visited(Top, at, spent) /\ Visiting(Top, kind)
           /\ Without(Top, s) \in Frames /\ Without(Top, s).left = Top.left \ {s}
           /\ Without(Top, s).call = Top.call /\ Without(Top, s).obj = Top.obj
           /\ Without(Top, s).phase = Top.phase /\ Without(Top, s).arg = Top.arg
           /\ Without(Top, s).res = Top.res /\ Without(Top, s).waiting = Top.waiting
           /\ DoomedBy(Without(Top, s)) = DoomedBy(Top)
           /\ \A i \in 1 .. Len(Below) :
                 /\ PairOK(Below[i], Without(Top, s))
                 /\ Visiting(Below[i], kind) => s \notin Fields(Below[i].obj)
<1>1. Top \in Frames /\ FrameOK(Top, kind, at, spent, DoomedIn(frames))
    BY BelowIs
<1>2. Top.obj \in Objs /\ Visited(Top, at, spent) /\ Visiting(Top, kind)
    BY <1>1 DEF FrameOK, DeallocOK, CloseOK, Visiting, Frames
<1>3. s \in Slots \ spent /\ s \in Fields(Top.obj)
    BY <1>1, <1>2 DEF Visited, Frames
<1>4. /\ Without(Top, s) \in Frames /\ Without(Top, s).left = Top.left \ {s}
      /\ Without(Top, s).call = Top.call /\ Without(Top, s).obj = Top.obj
      /\ Without(Top, s).phase = Top.phase /\ Without(Top, s).arg = Top.arg
      /\ Without(Top, s).res = Top.res /\ Without(Top, s).waiting = Top.waiting
      /\ Without(Top, s).slot = Top.slot
    BY <1>1 DEF Without, Frames
<1>5. DoomedBy(Without(Top, s)) = DoomedBy(Top)
    BY <1>4 DEF DoomedBy
<1>6. ASSUME NEW i \in 1 .. Len(Below)
      PROVE  /\ PairOK(Below[i], Without(Top, s))
             /\ Visiting(Below[i], kind) => s \notin Fields(Below[i].obj)
  <2>1. PairOK(Below[i], Top) /\ FrameOK(Below[i], kind, at, spent, DoomedIn(frames))
      BY BelowIs
  <2>2. PairOK(Below[i], Without(Top, s))
      BY <2>1, <1>4, <1>5 DEF PairOK
  <2>3. ASSUME Visiting(Below[i], kind), Below[i].obj = Top.obj
        PROVE  FALSE
    <3>1. CASE Top.call = "dealloc"
        BY <2>1, <2>3, <3>1, <1>2, RefsConstants DEF PairOK, DoomedBy
    <3>2. CASE Top.call = "close"
      <4>1. kind[Top.obj] \in {"generator", "closed"}
          BY <1>1, <3>2 DEF FrameOK, CloseOK
      <4>2. Below[i].call = "close" /\ Below[i].phase = "visit"
          BY <2>3, <4>1 DEF Visiting
      <4> QED
          BY <2>1, <2>3, <3>2, <4>2, <1>2, RefsConstants DEF PairOK
    <3> QED
        BY <3>1, <3>2
  <2> QED
      BY <2>2, <2>3, <1>3 DEF Fields
<1> QED
    BY <1>2, <1>3, <1>4, <1>5, <1>6

\* The field has nothing to give up.
LEMMA VisitSkips ==
    ASSUME IInv, frames # <<>>, Top.call \in {"dealloc", "close"}, Top.phase = "visit",
           NEW s \in Top.left, at[s] = NULL
    PROVE  State(kind, refcnt, at, spent, Append(Below, Without(Top, s)), told, NULL)
<1> DEFINE f == Without(Top, s)
<1>1. /\ f \in Frames /\ f.call = Top.call /\ f.obj = Top.obj /\ DoomedBy(f) = DoomedBy(Top)
      /\ f.left = Top.left \ {s} /\ f.phase = Top.phase /\ f.arg = Top.arg
      /\ f.res = Top.res /\ f.waiting = Top.waiting
      /\ \A i \in 1 .. Len(Below) : PairOK(Below[i], f)
      /\ Visited(Top, at, spent) /\ Top.obj \in Objs /\ s \notin spent
      /\ Visiting(Top, kind)
    BY VisitorIs
<1> HIDE DEF f
<1>2. Visited(f, at, spent)
    BY <1>1 DEF Visited
<1>3. FrameOK(Top, kind, at, spent, DoomedIn(frames))
    BY BelowIs
<1>4. FrameOK(f, kind, at, spent, DoomedIn(frames))
    BY <1>1, <1>2, <1>3, RefsConstants DEF FrameOK, DeallocOK, CloseOK, Visiting
<1>5. \A r \in spent : InCharge(Top, r, kind) => InCharge(f, r, kind)
    BY <1>1 DEF InCharge
<1>6. ExitedBy(Top) = {}
    BY DEF ExitedBy
<1>7. State(kind, refcnt, at, spent, Append(Below, f), told, NULL)
    BY <1>1, <1>4, <1>5, <1>6, FrameGoesOn
<1> QED
    BY <1>7 DEF f

\* The field gives up its reference, and the count is still to be lowered.
LEMMA VisitSpends ==
    ASSUME IInv, frames # <<>>, Top.call \in {"dealloc", "close"}, Top.phase = "visit",
           NEW s \in Top.left, at[s] # NULL
    PROVE  /\ State(kind, refcnt, at, spent \cup {s}, Append(Below, Without(Top, s)), told, at[s])
           /\ at[s] \in Objs /\ refcnt \in [Objs -> 0 .. Immortal]
<1> DEFINE f == Without(Top, s)
           D == DoomedIn(frames)
           p2 == spent \cup {s}
<1>1. /\ f \in Frames /\ f.call = Top.call /\ f.obj = Top.obj /\ DoomedBy(f) = DoomedBy(Top)
      /\ f.left = Top.left \ {s} /\ f.phase = Top.phase /\ f.arg = Top.arg
      /\ f.res = Top.res /\ f.waiting = Top.waiting
      /\ \A i \in 1 .. Len(Below) :
            PairOK(Below[i], f) /\ (Visiting(Below[i], kind) => s \notin Fields(Below[i].obj))
      /\ Visited(Top, at, spent) /\ Top.obj \in Objs
      /\ Visiting(Top, kind) /\ s \in Fields(Top.obj) /\ s \in Slots \ spent
    BY VisitorIs
<1> HIDE DEF f
<1>2. /\ Typed(kind, refcnt, at, spent, frames, told)
      /\ Balanced(kind, refcnt, at, spent, D, NULL) /\ Emptied(kind, at)
    BY DEF IInv, State
<1>3. at[s] \in Objs /\ refcnt \in [Objs -> 0 .. Immortal]
    BY <1>1, <1>2 DEF Typed
<1>4. s \notin Vars
    BY <1>1, HomeIs
<1>5. Typed(kind, refcnt, at, p2, frames, told)
    BY <1>1, <1>2, <1>4 DEF Typed
<1>6. Balanced(kind, refcnt, at, p2, D, at[s])
    BY <1>1, <1>2, <1>3, SpentBalance
<1>7. Visited(f, at, p2)
    BY <1>1 DEF Visited
<1>8. FrameOK(Top, kind, at, spent, D)
    BY BelowIs
<1>9. FrameOK(f, kind, at, p2, D)
    BY <1>1, <1>7, <1>8, RefsConstants DEF FrameOK, DeallocOK, CloseOK, Visiting
<1>10. ASSUME NEW i \in 1 .. Len(Below)
       PROVE  PairOK(Below[i], f) /\ Kept(Below[i], kind, at, spent, kind, at, p2)
  <2>1. FrameOK(Below[i], kind, at, spent, D)
      BY BelowIs
  <2> QED
      BY <2>1, <1>1 DEF Kept, FrameOK, StoreOK
<1>11. ASSUME NEW r \in p2
       PROVE  InCharge(f, r, kind)
              \/ (r \in spent /\ ~InCharge(Top, r, kind) /\ kind[Home[r]] = kind[Home[r]])
  <2>1. InCharge(Top, r, kind) => InCharge(f, r, kind)
      BY <1>1 DEF InCharge
  <2>2. InCharge(f, s, kind)
      BY <1>1 DEF InCharge, Visiting, Fields
  <2> QED
      BY <2>1, <2>2
<1>12. D = DoomedIn(Below) \cup (DoomedBy(f) \cap Objs)
    BY <1>1, BelowIs
<1>13. State(kind, refcnt, at, p2, Append(Below, f), told, at[s])
  <2>1. \A i \in 1 .. Len(Below) : Below[i].obj \in DoomedIn(frames) => Below[i].obj \in D
      OBVIOUS
  <2>2. ExitedBy(Top) = {}
      BY DEF ExitedBy
  <2>3. Unreferred(at, spent, D, ExitingIn(Below) \cup ExitedBy(f))
      BY <2>2, BelowIs DEF IInv, State, Unreferred
  <2>4. Unreferred(at, p2, D, ExitingIn(Below) \cup ExitedBy(f))
      BY <2>3 DEF Unreferred, RefsOf
  <2> HIDE DEF D, p2
  <2> QED
      BY <1>1, <1>2, <1>5, <1>6, <1>9, <1>10, <1>11, <1>12, <2>1, <2>4, GoesOn
<1> QED
    BY <1>3, <1>13 DEF f

\* CloseVisit keeps the invariant.
LEMMA CloseVisitKeeps ==
    ASSUME IInv, NEW s \in Slots, CloseVisit(s)
    PROVE  IInv'
<1>1. frames # <<>> /\ Top.call = "close" /\ Top.phase = "visit" /\ s \in Top.left
    BY DEF CloseVisit, Running
<1>2. Replace([Top EXCEPT !.left = @ \ {s}]) = Append(Below, Without(Top, s))
    BY DEF Replace, Without
<1>3. CASE at[s] = NULL
  <2>1. State(kind, refcnt, at, spent, Append(Below, Without(Top, s)), told, NULL)
      BY <1>1, <1>3, VisitSkips
  <2> QED
      BY <2>1, <1>2, <1>3 DEF CloseVisit, IInv
<1>4. CASE at[s] # NULL
  <2>1. /\ spent' = spent \cup {s} /\ kind' = kind /\ at' = at /\ told' = told
        /\ GiveUp(at[s], Append(Below, Without(Top, s)))
      BY <1>2, <1>4 DEF CloseVisit
  <2>2. /\ State(kind, refcnt, at, spent \cup {s}, Append(Below, Without(Top, s)), told, at[s])
        /\ at[s] \in Objs /\ refcnt \in [Objs -> 0 .. Immortal]
      BY <1>1, <1>4, VisitSpends
  <2>3. State(kind', refcnt, at', spent', Append(Below, Without(Top, s)), told', at[s])
      BY <2>1, <2>2
  <2> QED
      BY <2>1, <2>2, <2>3, Settled DEF IInv
<1> QED
    BY <1>3, <1>4

\* The object that lost its last reference waits for its deallocation.
LEMMA Awaited ==
    ASSUME NEW k, NEW c, NEW a, NEW p, NEW g \in Seq(Frames), NEW x, NEW d \in Objs,
           NEW f \in Frames, NEW f2 \in Frames,
           State(k, c, a, p, Append(g, f), x, d), c[d] = 1, c[d] < Immortal,
           f.call = "dealloc", f2 = [f EXCEPT !.waiting = @ \cup {d}]
    PROVE  State(k, c, a, p, Append(g, f2), x, NULL)
<1> DEFINE fs == Append(g, f)
           gs == Append(g, f2)
           D == DoomedIn(fs)
<1>1. /\ Typed(k, c, a, p, fs, x) /\ CallsOK(k, a, p, fs, D)
      /\ Balanced(k, c, a, p, D, d) /\ Charged(k, p, fs) /\ Emptied(k, a) /\ Exited(k, fs, x)
      /\ Unreferred(a, p, D, ExitingIn(fs))
    BY DEF State
<1>2. /\ f2.call = "dealloc" /\ f2.obj = f.obj /\ f2.phase = f.phase /\ f2.left = f.left
      /\ f2.arg = f.arg /\ f2.res = f.res /\ f2.waiting = f.waiting \cup {d}
      /\ f2.slot = f.slot /\ DoomedBy(f2) = DoomedBy(f) \cup {d}
      /\ ExitedBy(f2) = {} /\ ExitedBy(f) = {}
    BY DEF Frames, DoomedBy, ExitedBy
<1>3. /\ fs \in Seq(Frames) /\ Len(g) \in Nat /\ Len(fs) = Len(g) + 1
      /\ \A i \in 1 .. Len(g) : fs[i] = g[i]
      /\ fs[Len(g) + 1] = f
      /\ D = DoomedIn(g) \cup (DoomedBy(f) \cap Objs)
      /\ ExitingIn(fs) = ExitingIn(g) \cup ExitedBy(f)
    BY Pushed
<1>4. /\ gs \in Seq(Frames) /\ Len(gs) = Len(g) + 1
      /\ \A i \in 1 .. Len(g) : gs[i] = g[i]
      /\ gs[Len(g) + 1] = f2
      /\ DoomedIn(gs) = DoomedIn(g) \cup (DoomedBy(f2) \cap Objs)
      /\ ExitingIn(gs) = ExitingIn(g) \cup ExitedBy(f2)
    BY Pushed
<1>5. DoomedIn(gs) = D \cup {d} /\ ExitingIn(gs) = ExitingIn(fs)
    BY <1>2, <1>3, <1>4
<1> HIDE DEF fs, gs
<1>6. c \in [Objs -> 0 .. Immortal] /\ D \subseteq Objs
    BY <1>1, DoomedTyped DEF Typed
<1>7. RefsOf(a, p, d) = {} /\ Balanced(k, c, a, p, D \cup {d}, NULL) /\ d \notin D /\ d # NULL
  <2>1. RefsOf(a, p, d) = {} /\ Balanced(k, c, a, p, D \cup {d}, NULL) /\ d \notin D
      BY <1>1, <1>6, LastOne
  <2> QED
      BY <2>1, RefsConstants
<1>8. \A i \in 1 .. Len(fs) : fs[i].obj # d
    BY <1>1, <1>7, NotBusy
<1>9. CallsOK(k, a, p, g, D) /\ FrameOK(f, k, a, p, D) /\ \A i \in 1 .. Len(g) : PairOK(g[i], f)
  <2>1. \A i \in 1 .. Len(g) : i \in 1 .. Len(fs) /\ i < Len(g) + 1
      BY <1>3
  <2>2. Len(g) + 1 \in 1 .. Len(fs)
      BY <1>3
  <2> QED
      BY <1>1, <1>3, <2>1, <2>2 DEF CallsOK
<1>10. CallsOK(k, a, p, g, D \cup {d})
    BY <1>9, MoreDoomed
<1>11. f.obj # d /\ \A i \in 1 .. Len(g) : g[i].obj # d
  <2>1. Len(g) + 1 \in 1 .. Len(fs) /\ \A i \in 1 .. Len(g) : i \in 1 .. Len(fs)
      BY <1>3
  <2> QED
      BY <1>3, <1>8, <2>1
<1>12. FrameOK(f2, k, a, p, D \cup {d})
    BY <1>2, <1>9, <1>11 DEF FrameOK, DeallocOK, Visited
<1>13. ASSUME NEW i \in 1 .. Len(g)
       PROVE  PairOK(g[i], f2)
  <2>1. d \notin DoomedBy(g[i])
      BY <1>3, <1>7 DEF DoomedIn
  <2> QED
      BY <2>1, <1>2, <1>9, <1>11 DEF PairOK
<1>14. CallsOK(k, a, p, gs, D \cup {d})
    BY <1>10, <1>12, <1>13, CallsPushed DEF gs
<1>15. \A i \in 1 .. Len(fs) : i \in 1 .. Len(gs) /\ (gs[i] = fs[i] \/ (fs[i] = f /\ gs[i] = f2))
    BY <1>3, <1>4
<1>16. Charged(k, p, gs)
  <2>1. \A s \in p : InCharge(f, s, k) => InCharge(f2, s, k)
      BY <1>2 DEF InCharge
  <2> QED
      BY <1>1, <1>15, <2>1 DEF Charged
<1>17. Exited(k, gs, x)
  <2>1. \A i \in 1 .. Len(fs) : fs[i].call = "close" => i \in 1 .. Len(gs) /\ gs[i] = fs[i]
      BY <1>15
  <2> QED
      BY <1>1, <2>1 DEF Exited
<1>18. Typed(k, c, a, p, gs, x)
    BY <1>1, <1>4 DEF Typed
<1>19. Unreferred(a, p, D \cup {d}, ExitingIn(gs))
    BY <1>1, <1>5, <1>7 DEF Unreferred
<1>20. State(k, c, a, p, gs, x, NULL)
    BY <1>1, <1>5, <1>7, <1>14, <1>16, <1>17, <1>18, <1>19 DEF State
<1> QED
    BY <1>20 DEF gs

\* DeallocVisit keeps the invariant.
LEMMA DeallocVisitKeeps ==
    ASSUME IInv, NEW s \in Slots, DeallocVisit(s)
    PROVE  IInv'
<1> DEFINE f == Without(Top, s)
<1>1. /\ frames # <<>> /\ Top.call = "dealloc" /\ Top.phase = "visit" /\ s \in Top.left
      /\ kind' = kind /\ at' = at /\ told' = told
    BY DEF DeallocVisit, Deallocating, Running
<1>2. \/ at[s] = NULL /\ frames' = Append(Below, f) /\ UNCHANGED <<refcnt, spent>>
      \/ /\ at[s] # NULL /\ ~Last(at[s]) /\ DecRef(at[s])
         /\ frames' = Append(Below, f) /\ spent' = spent \cup {s}
      \/ /\ at[s] # NULL /\ Last(at[s])
         /\ frames' = Append(Below, [f EXCEPT !.waiting = @ \cup {at[s]}])
         /\ spent' = spent \cup {s} /\ UNCHANGED refcnt
    BY DEF DeallocVisit, Replace, Without
<1>3. CASE at[s] = NULL
  <2>1. State(kind, refcnt, at, spent, Append(Below, f), told, NULL)
      BY <1>1, <1>3, VisitSkips
  <2> QED
      BY <2>1, <1>1, <1>2, <1>3 DEF IInv
<1>4. CASE at[s] # NULL
  <2> DEFINE d == at[s]
  <2>1. /\ State(kind, refcnt, at, spent \cup {s}, Append(Below, f), told, d)
        /\ d \in Objs /\ refcnt \in [Objs -> 0 .. Immortal]
      BY <1>1, <1>4, VisitSpends
  <2>2. CASE ~Last(d)
    <3>1. refcnt' = Dec(refcnt, d) /\ frames' = Append(Below, f) /\ spent' = spent \cup {s}
        BY <1>2, <1>4, <2>2 DEF DecRef, Dec
    <3>2. State(kind, Dec(refcnt, d), at, spent \cup {s}, Append(Below, f), told, NULL)
        BY <2>1, <2>2, CountDown DEF Last
    <3> QED
        BY <3>1, <3>2, <1>1 DEF IInv
  <2>3. CASE Last(d)
    <3> DEFINE f2 == [f EXCEPT !.waiting = @ \cup {d}]
    <3>1. f \in Frames /\ f.call = "dealloc" /\ Below \in Seq(Frames)
        BY <1>1, VisitorIs, BelowIs
    <3> HIDE DEF f
    <3>2. f2 \in Frames
        BY <3>1, <2>1 DEF Frames
    <3>3. State(kind, refcnt, at, spent \cup {s}, Append(Below, f2), told, NULL)
        BY <2>1, <2>3, <3>1, <3>2, Awaited DEF Last
    <3> QED
        BY <3>3, <1>1, <1>2, <1>4, <2>3 DEF IInv, f
  <2> QED
      BY <2>2, <2>3
<1> QED
    BY <1>3, <1>4

(***************************************************************************)
(* The deallocation goes on, and closes end.                               *)
(***************************************************************************)
\* DeallocNext keeps the invariant: one of the objects that wait is next.
LEMMA DeallocNextKeeps ==
    ASSUME IInv, NEW o \in Objs, DeallocNext(o)
    PROVE  IInv'
<1> DEFINE W == Top.waiting \ {o}
           f == DyingFrame(kind, o, W)
           D == DoomedIn(frames)
<1>1. /\ frames # <<>> /\ Top.call = "dealloc" /\ Top.obj = NULL /\ o \in Top.waiting
      /\ Top \in Frames
    BY BelowIs DEF DeallocNext, Deallocating, Running
<1>2. DoomedBy(Top) = Top.waiting /\ W \in SUBSET Objs /\ o # NULL
    BY <1>1, RefsConstants DEF DoomedBy, Frames
<1>3. /\ f \in Frames /\ f.call = "dealloc" /\ f.obj = o /\ f.phase = "visit"
      /\ f.arg = NULL /\ f.res = NULL /\ f.waiting = W
      /\ f.left = IF kind[o] = "container" THEN Fields(o) ELSE {}
      /\ DoomedBy(f) = DoomedBy(Top)
  <2>1. W \cup {o} = Top.waiting
      BY <1>1
  <2>2. W \in SUBSET Objs
      BY <1>2
  <2> HIDE DEF W
  <2>3. /\ f \in Frames /\ f.call = "dealloc" /\ f.obj = o /\ f.phase = "visit"
        /\ f.arg = NULL /\ f.res = NULL /\ f.waiting = W
        /\ f.left = IF kind[o] = "container" THEN Fields(o) ELSE {}
        /\ DoomedBy(f) = W \cup {o}
      BY <2>2, RefsConstants DEF DyingFrame, Frame, Frames, Fields, DoomedBy
  <2> QED
      BY <2>1, <2>3, <1>2
<1> HIDE DEF f
<1>4. /\ Typed(kind, refcnt, at, spent, frames, told)
      /\ CallsOK(kind, at, spent, frames, D) /\ Charged(kind, spent, frames)
    BY DEF IInv, State
<1>5. \A i \in 1 .. Len(frames) : frames[i].obj # o
  <2>1. \A i \in 1 .. Len(Below) : PairOK(Below[i], Top) /\ Below[i] = frames[i]
      BY <1>1, BelowIs
  <2>2. \A i \in 1 .. Len(Below) : frames[i].obj # o
      BY <2>1, <1>1, <1>2 DEF PairOK
  <2> QED
      BY <2>2, <1>1, <1>2, BelowIs
<1>6. Fields(o) \cap spent = {}
    BY <1>4, <1>5, NothingSpent
<1>7. FrameOK(f, kind, at, spent, D)
  <2>1. kind[o] = "container" => Visited(f, at, spent)
      BY <1>3, <1>6 DEF Visited
  <2> QED
      BY <1>2, <1>3, <2>1 DEF FrameOK, DeallocOK
<1>8. \A i \in 1 .. Len(Below) : PairOK(Below[i], f)
  <2>1. \A i \in 1 .. Len(Below) : PairOK(Below[i], Top) /\ Below[i].obj # o
      BY <1>1, <1>5, BelowIs
  <2> QED
      BY <2>1, <1>3 DEF PairOK
<1>9. \A s \in spent : ~InCharge(Top, s, kind)
  <2>1. \A s \in spent : Home[s] \in Objs
      BY <1>4, HomeIs DEF Typed
  <2> QED
      BY <2>1, <1>1, RefsConstants DEF InCharge
<1>10. State(kind, refcnt, at, spent, Append(Below, f), told, NULL)
  <2>1. ExitedBy(Top) = {}
      BY <1>1 DEF ExitedBy
  <2> QED
      BY <1>1, <1>3, <1>7, <1>8, <1>9, <2>1, FrameGoesOn
<1>11. frames' = Append(Below, f)
    BY DEF DeallocNext, Replace, Dying, DyingFrame, f
<1> QED
    BY <1>10, <1>11 DEF DeallocNext, IInv

\* DeallocFrees keeps the invariant.
LEMMA DeallocFreesKeeps ==
    ASSUME IInv, DeallocFrees
    PROVE  IInv'
<1> DEFINE o == Top.obj
           f == [Top EXCEPT !.obj = NULL]
           D == DoomedIn(frames)
           D2 == DoomedIn(Below) \cup (DoomedBy(f) \cap Objs)
           k2 == [kind EXCEPT ![o] = "free"]
           c2 == [refcnt EXCEPT ![o] = 0]
           a2 == [s \in Slots |-> IF Home[s] = o THEN NULL ELSE at[s]]
           p2 == spent \ Fields(o)
<1>1. /\ frames # <<>> /\ Top.call = "dealloc" /\ o # NULL /\ Top.left = {}
      /\ kind[o] # "generator" /\ Top \in Frames
    BY BelowIs DEF DeallocFrees, Deallocating, Running
<1>2. DeallocOK(Top, kind, at, spent) /\ o \in Objs
    BY <1>1, BelowIs DEF FrameOK, Frames
<1>3. /\ Typed(kind, refcnt, at, spent, frames, told)
      /\ Balanced(kind, refcnt, at, spent, D, NULL) /\ Emptied(kind, at)
      /\ Unreferred(at, spent, D, ExitingIn(frames))
    BY DEF IInv, State
<1>4. /\ f \in Frames /\ f.call = "dealloc" /\ f.obj = NULL /\ f.left = {}
      /\ f.phase = Top.phase /\ f.arg = Top.arg /\ f.res = Top.res
      /\ f.waiting = Top.waiting
    BY <1>1 DEF Frames
<1>5. /\ DoomedBy(f) = Top.waiting /\ DoomedBy(Top) = Top.waiting \cup {o}
      /\ o \notin Top.waiting
    BY <1>1, <1>2, <1>4 DEF DoomedBy, DeallocOK
<1> HIDE DEF f
<1>6. ASSUME NEW i \in 1 .. Len(Below)
      PROVE  /\ Below[i] \in Frames /\ PairOK(Below[i], Top)
             /\ FrameOK(Below[i], kind, at, spent, D)
             /\ Below[i].obj # o /\ o \notin DoomedBy(Below[i])
  <2>1. /\ Below[i] \in Frames /\ PairOK(Below[i], Top)
        /\ FrameOK(Below[i], kind, at, spent, D)
      BY <1>1, BelowIs
  <2> QED
      BY <2>1, <1>5 DEF PairOK
<1>7. o \in D /\ D2 = D \ {o}
  <2>1. D = DoomedIn(Below) \cup (DoomedBy(Top) \cap Objs)
      BY <1>1, BelowIs
  <2>2. o \notin DoomedIn(Below)
      BY <1>6 DEF DoomedIn
  <2> QED
      BY <2>1, <2>2, <1>2, <1>5
<1> HIDE DEF D, D2
<1>8. /\ kind[o] # "free" /\ RefsOf(at, spent, o) = {}
      /\ ExitingIn(frames) = ExitingIn(Below) \cup ExitedBy(f)
  <2>1. ExitedBy(Top) = {} /\ ExitedBy(f) = {}
      BY <1>1, <1>4 DEF ExitedBy
  <2>2. ExitingIn(frames) = ExitingIn(Below)
      BY <1>1, <2>1, BelowIs
  <2>3. o \notin ExitingIn(Below)
      BY <1>6 DEF ExitingIn, ExitedBy
  <2> QED
      BY <1>2, <1>3, <1>7, <2>1, <2>2, <2>3 DEF Balanced, Living, Unreferred
<1>9. \A s \in Fields(o) : s \in spent \/ at[s] = NULL
  <2>1. CASE kind[o] = "container"
      BY <2>1, <1>1, <1>2 DEF DeallocOK, Visited
  <2>2. CASE kind[o] = "closed"
      BY <2>2, <1>2, <1>3, HomeIs DEF Emptied, Fields, Vars
  <2> QED
      BY <2>1, <2>2, <1>1, <1>2, <1>3, <1>8 DEF Typed
<1>10. /\ k2[o] = "free" /\ c2[o] = 0
       /\ \A q \in Objs : q # o => k2[q] = kind[q] /\ c2[q] = refcnt[q]
       /\ \A s \in Slots : Home[s] = o => a2[s] = NULL
       /\ \A s \in Slots : Home[s] # o => a2[s] = at[s]
    BY <1>2, <1>3 DEF Typed
<1>11. Typed(k2, c2, a2, p2, frames, told)
    BY <1>2, <1>3, RefsConstants DEF Typed
<1> HIDE DEF k2, c2, a2
<1>12. ASSUME NEW q \in Objs
       PROVE  RefsOf(a2, p2, q) = RefsOf(at, spent, q)
    BY <1>9, <1>10, RefsConstants DEF RefsOf, Fields
<1>13. Balanced(k2, c2, a2, p2, D2, NULL)
  <2>1. Counted(k2, c2, a2, p2, D2, NULL)
    <3> SUFFICES ASSUME NEW q \in Objs, k2[q] # "free", c2[q] < Immortal
                 PROVE  c2[q] = Cardinality(RefsOf(a2, p2, q)) + (IF q \in D2 THEN 1 ELSE 0)
                                + (IF q = NULL THEN 1 ELSE 0)
        BY DEF Counted
    <3>1. q # o /\ kind[q] # "free" /\ c2[q] = refcnt[q] /\ refcnt[q] < Immortal
        BY <1>10
    <3>2. refcnt[q] = Cardinality(RefsOf(at, spent, q)) + (IF q \in D THEN 1 ELSE 0)
                      + (IF q = NULL THEN 1 ELSE 0)
        BY <3>1, <1>3 DEF Balanced, Counted
    <3> QED
        BY <3>1, <3>2, <1>7, <1>12
  <2>2. Living(k2, c2, a2, p2, D2, NULL)
    <3>1. Living(kind, refcnt, at, spent, D, NULL) /\ D \subseteq Objs
        BY <1>3, DoomedTyped DEF Balanced, D
    <3>2. \A q \in Objs : RefsOf(a2, p2, q) # {} => k2[q] # "free"
        BY <3>1, <1>7, <1>8, <1>10, <1>12, ZenonT(60) DEF Living
    <3>3. \A q \in D2 : k2[q] # "free"
        BY <3>1, <1>7, <1>10 DEF Living
    <3>4. \A q \in Objs : c2[q] = 0 <=> k2[q] = "free"
        BY <3>1, <1>10 DEF Living
    <3> QED
        BY <3>2, <3>3, <3>4 DEF Living
  <2> QED
      BY <2>1, <2>2 DEF Balanced
<1>14. Emptied(k2, a2)
    BY <1>3, <1>10, HomeIs DEF Emptied
<1>15. ASSUME NEW i \in 1 .. Len(Below)
       PROVE  PairOK(Below[i], f) /\ Kept(Below[i], kind, at, spent, k2, a2, p2)
  <2>1. PairOK(Below[i], f)
      BY <1>1, <1>4, <1>5, <1>6, RefsConstants DEF PairOK, Frames
  <2>2. {Below[i].arg, Below[i].res} \ {NULL} \subseteq Vars
      BY <1>6, ArgsAreVars
  <2>3. \A r \in {Below[i].arg, Below[i].res} \ {NULL} : a2[r] = at[r]
      BY <2>2, <1>1, <1>10 DEF Vars
  <2>4. Below[i].obj # NULL => k2[Below[i].obj] = kind[Below[i].obj]
      BY <1>6, <1>10 DEF Frames
  <2>5. Below[i].call = "store" => Below[i].slot \in p2
      BY <1>6 DEF FrameOK, StoreOK, Fields
  <2>6. \A s \in Fields(Below[i].obj) : a2[s] = at[s] /\ (s \in p2 <=> s \in spent)
      BY <1>6, <1>10 DEF Fields
  <2> QED
      BY <2>1, <2>3, <2>4, <2>5, <2>6 DEF Kept
<1>16. FrameOK(f, k2, a2, p2, D2)
    BY <1>2, <1>4, RefsConstants DEF FrameOK, DeallocOK, Frames
<1>17. \A i \in 1 .. Len(Below) : Below[i].obj \in D => Below[i].obj \in D2
    BY <1>6, <1>7
<1>18. ASSUME NEW s \in p2
       PROVE  s \in spent /\ ~InCharge(Top, s, kind) /\ k2[Home[s]] = kind[Home[s]]
  <2>1. s \in spent /\ s \in Slots /\ Home[s] # o /\ Home[s] \in Objs
      BY <1>3, HomeIs DEF Fields, Typed
  <2> QED
      BY <2>1, <1>1, <1>10 DEF InCharge
<1>19. \A q \in Objs : k2[q] = "generator" => kind[q] = "generator"
    BY <1>8, <1>10
<1>20. State(k2, c2, a2, p2, Append(Below, f), told, NULL)
  <2>1. \A i \in 1 .. Len(Below) : Below[i].obj \in DoomedIn(frames) => Below[i].obj \in D2
      BY <1>17 DEF D
  <2>2. D2 = DoomedIn(Below) \cup (DoomedBy(f) \cap Objs)
      BY DEF D2
  <2>3. \A s \in p2 : InCharge(f, s, k2)
                      \/ (s \in spent /\ ~InCharge(Top, s, kind)
                          /\ k2[Home[s]] = kind[Home[s]])
      BY <1>18
  <2>4. Top.call = "close" => f.call = "close" /\ f.obj = Top.obj
      BY <1>1
  <2>5. Unreferred(a2, p2, D2, ExitingIn(Below) \cup ExitedBy(f))
      BY <1>3, <1>7, <1>8, <1>12, DoomedTyped DEF Unreferred, D
  <2> HIDE DEF p2
  <2> QED
      BY <1>1, <1>4, <1>11, <1>13, <1>14, <1>15, <1>16, <1>19, <2>1, <2>2, <2>3, <2>4, <2>5,
         GoesOn
<1> QED
    BY <1>20 DEF DeallocFrees, Replace, IInv, f, k2, c2, a2

\* CloseEnds keeps the invariant.
LEMMA CloseEndsKeeps ==
    ASSUME IInv, CloseEnds
    PROVE  IInv'
<1> DEFINE o == Top.obj
           r == Top.res
           D == DoomedIn(frames)
           k2 == [kind EXCEPT ![o] = "closed"]
           a1 == [s \in Slots |-> IF Home[s] = o THEN NULL ELSE at[s]]
           p1 == spent \ Fields(o)
<1>1. /\ frames # <<>> /\ Top.call = "close" /\ Top.phase = "visit" /\ Top.left = {}
      /\ Top \in Frames
    BY BelowIs DEF CloseEnds, Running
<1>2. CloseOK(Top, kind, at, spent, D)
    BY <1>1, BelowIs DEF FrameOK
<1>3. /\ Typed(kind, refcnt, at, spent, frames, told)
      /\ Balanced(kind, refcnt, at, spent, D, NULL)
      /\ Charged(kind, spent, frames) /\ Emptied(kind, at) /\ Exited(kind, frames, told)
      /\ Unreferred(at, spent, D, ExitingIn(frames))
    BY DEF IInv, State
<1>4. /\ o \in Objs /\ o # NULL /\ kind[o] \in {"generator", "closed"} /\ Visited(Top, at, spent)
      /\ r # NULL => r \in Vars /\ at[r] \in Objs
    BY <1>1, <1>2, <1>3, RefsConstants DEF CloseOK, Typed, Vars
<1>5. D = DoomedIn(Below) /\ ExitingIn(frames) = ExitingIn(Below) /\ Below \in Seq(Frames)
  <2>1. DoomedBy(Top) = {} /\ ExitedBy(Top) = {}
      BY <1>1 DEF DoomedBy, ExitedBy
  <2> QED
      BY <1>1, <2>1, BelowIs
<1>6. /\ k2[o] = "closed" /\ \A q \in Objs : q # o => k2[q] = kind[q]
      /\ \A s \in Slots : Home[s] = o => a1[s] = NULL
      /\ \A s \in Slots : Home[s] # o => a1[s] = at[s]
    BY <1>3, <1>4 DEF Typed
<1>7. Typed(k2, refcnt, a1, p1, frames, told)
    BY <1>3, <1>4 DEF Typed
<1>8. at' = IF r = NULL THEN a1 ELSE [a1 EXCEPT ![r] = NULL]
    BY <1>4, RefsConstants DEF CloseEnds, Vars
<1> HIDE DEF D, k2, a1
<1>9. ASSUME NEW i \in 1 .. Len(Below)
      PROVE  /\ Below[i] \in Frames /\ PairOK(Below[i], Top)
             /\ FrameOK(Below[i], kind, at, spent, D)
             /\ Below[i].obj = o =>
                    \/ Below[i].call = "dealloc" /\ Below[i].left = {}
                    \/ Below[i].call \in {"send", "close"} /\ Below[i].phase = "func"
             /\ Visiting(Below[i], kind) => Below[i].obj # o
  <2>1. /\ Below[i] \in Frames /\ PairOK(Below[i], Top)
        /\ FrameOK(Below[i], kind, at, spent, D)
      BY <1>1, BelowIs DEF D
  <2>2. Below[i].obj = o =>
            \/ Below[i].call = "dealloc"
            \/ Below[i].call \in {"send", "close"} /\ Below[i].phase = "func"
      BY <2>1, <1>1, <1>4 DEF PairOK, FrameOK, StoreOK, Frames
  <2>3. Below[i].obj = o /\ Below[i].call = "dealloc" => Below[i].left = {}
      BY <2>1, <1>4 DEF FrameOK, DeallocOK
  <2>4. Visiting(Below[i], kind) => Below[i].obj # o
      BY <2>2, <1>4 DEF Visiting
  <2> QED
      BY <2>1, <2>2, <2>3, <2>4
<1>10. ASSUME NEW i \in 1 .. Len(Below)
       PROVE  Kept(Below[i], kind, at, spent, k2, a1, p1)
  <2>1. {Below[i].arg, Below[i].res} \ {NULL} \subseteq Vars
      BY <1>9, ArgsAreVars
  <2>2. \A s \in {Below[i].arg, Below[i].res} \ {NULL} : a1[s] = at[s]
      BY <2>1, <1>4, <1>6 DEF Vars
  <2>3. Below[i].obj # NULL =>
            \/ k2[Below[i].obj] = kind[Below[i].obj]
            \/ /\ Below[i].call = "dealloc" /\ Below[i].left = {}
               /\ k2[Below[i].obj] # "container"
            \/ /\ Below[i].call \in {"send", "close"}
               /\ k2[Below[i].obj] \in {"generator", "closed"}
      BY <1>6, <1>9 DEF Frames
  <2>4. Below[i].call = "store" => Below[i].slot \in p1
      BY <1>9 DEF FrameOK, StoreOK, Fields
  <2>5. Visiting(Below[i], kind) =>
            \A s \in Fields(Below[i].obj) : a1[s] = at[s] /\ (s \in p1 <=> s \in spent)
      BY <1>6, <1>9 DEF Fields
  <2> QED
      BY <2>2, <2>3, <2>4, <2>5 DEF Kept
<1>11. CallsOK(k2, a1, p1, Below, D)
  <2>1. CallsOK(kind, at, spent, Below, D)
      BY <1>1, BelowIs DEF D
  <2> HIDE DEF p1
  <2> QED
      BY <2>1, <1>5, <1>10, CallsKept
<1>12. Balanced(k2, refcnt, a1, p1, D, NULL) /\ Unreferred(a1, p1, D, ExitingIn(Below))
  <2>1. \A s \in Fields(o) : s \in spent \/ at[s] = NULL
      BY <1>1, <1>4 DEF Visited
  <2>2. \A q \in Objs : RefsOf(a1, p1, q) = RefsOf(at, spent, q)
      BY <2>1, <1>6, RefsConstants DEF RefsOf, Fields
  <2>3. \A q \in Objs : k2[q] = "free" <=> kind[q] = "free"
      BY <1>4, <1>6
  <2>4. D \subseteq Objs
      BY DoomedTyped DEF D
  <2>5. Unreferred(a1, p1, D, ExitingIn(Below))
      BY <1>3, <1>5, <2>2, <2>4 DEF Unreferred
  <2> HIDE DEF p1
  <2> QED
      BY <1>3, <2>2, <2>3, <2>4, <2>5, SameBalance
<1>13. Charged(k2, p1, Below)
  <2> SUFFICES ASSUME NEW s \in p1
               PROVE  \E i \in 1 .. Len(Below) : InCharge(Below[i], s, k2)
      BY DEF Charged
  <2>1. s \in spent /\ Home[s] \in Objs /\ Home[s] # o
      BY <1>3, HomeIs DEF Typed, Fields
  <2>2. PICK i \in 1 .. Len(frames) : InCharge(frames[i], s, kind)
      BY <2>1, <1>3 DEF Charged
  <2>3. ~InCharge(Top, s, kind)
      BY <2>1, <1>1 DEF InCharge
  <2>4. i \in 1 .. Len(Below) /\ Below[i] = frames[i]
      BY <2>2, <2>3, <1>1, BelowIs
  <2>5. InCharge(Below[i], s, k2)
      BY <2>1, <2>2, <2>4, <1>6 DEF InCharge
  <2> QED
      BY <2>4, <2>5
<1>14. Exited(k2, Below, told)
  <2> SUFFICES ASSUME NEW q \in told, k2[q] = "generator"
               PROVE  \E i \in 1 .. Len(Below) : Below[i].call = "close" /\ Below[i].obj = q
      BY DEF Exited
  <2>1. q # o /\ kind[q] = "generator"
      BY <1>3, <1>6 DEF Typed
  <2>2. PICK i \in 1 .. Len(frames) : frames[i].call = "close" /\ frames[i].obj = q
      BY <2>1, <1>3 DEF Exited
  <2>3. i \in 1 .. Len(Below) /\ Below[i] = frames[i]
      BY <2>1, <2>2, <1>1, BelowIs
  <2> QED
      BY <2>2, <2>3
<1>15. Emptied(k2, a1)
    BY <1>3, <1>6, HomeIs DEF Emptied
<1>16. State(k2, refcnt, a1, p1, Below, told, NULL)
    BY <1>5, <1>7, <1>11, <1>12, <1>13, <1>14, <1>15 DEF State, Typed
<1>17. kind' = k2 /\ spent' = p1 /\ told' = told
    BY DEF CloseEnds, k2
<1>18. CASE r = NULL
    BY <1>8, <1>16, <1>17, <1>18 DEF CloseEnds, IInv
<1>19. CASE r # NULL
  <2>1. Usable(r, k2, p1, Below)
    <3>1. r \in Vars /\ r \in Slots \ p1
        BY <1>3, <1>4, <1>19 DEF Typed, Vars
    <3>2. ASSUME NEW i \in 1 .. Len(Below)
          PROVE  /\ r \notin {Below[i].arg, Below[i].res}
                 /\ Visiting(Below[i], k2) => r \notin Fields(Below[i].obj)
      <4>1. r \notin {Below[i].arg, Below[i].res}
          BY <1>1, <1>9, <1>19 DEF PairOK
      <4>2. Visiting(Below[i], k2) => Below[i].obj # NULL
          BY <1>9, RefsConstants DEF Visiting, FrameOK, CloseOK
      <4> QED
          BY <4>1, <4>2, <3>1 DEF Vars, Fields
    <3> QED
        BY <3>1, <3>2 DEF Usable
  <2>2. a1[r] = at[r] /\ at[r] \in Objs /\ at[r] # NULL
      BY <1>4, <1>6, <1>19, RefsConstants DEF Vars
  <2>3. State(k2, refcnt, [a1 EXCEPT ![r] = NULL], p1, Below, told, at[r])
    <3>1. State(k2, refcnt, [a1 EXCEPT ![r] = NULL], p1, Below, told, a1[r])
      <4> HIDE DEF p1, r
      <4> QED
          BY <1>16, <2>1, <2>2, LoseAt
    <3> QED
        BY <3>1, <2>2
  <2>4. State(kind', refcnt, at', spent', Below, told', at[r])
      BY <2>3, <1>8, <1>17, <1>19
  <2>5. GiveUp(at[r], Below)
      BY <1>19 DEF CloseEnds
  <2>6. kind'[at[r]] = "container" <=> kind[at[r]] = "container"
      BY <1>4, <1>6, <1>17, <2>2
  <2>7. refcnt \in [Objs -> 0 .. Immortal]
      BY <1>3 DEF Typed
  <2> QED
      BY <2>2, <2>4, <2>5, <2>6, <2>7, Settled DEF IInv
<1> QED
    BY <1>18, <1>19

(***************************************************************************)
(* The invariant is inductive.                                             *)
(***************************************************************************)
\* The initial states satisfy the invariant.
LEMMA Initially ==
    ASSUME Init
    PROVE  IInv
<1>1. DoomedIn(frames) = {}
    BY DEF Init, DoomedIn
<1>2. Typed(kind, refcnt, at, spent, frames, told)
    BY RefsConstants DEF Init, Typed
<1>3. CallsOK(kind, at, spent, frames, {})
    BY DEF Init, CallsOK
<1>4. \A o \in Objs : RefsOf(at, spent, o) = {} /\ kind[o] = "free" /\ refcnt[o] = 0
    BY RefsConstants DEF Init, RefsOf
<1>5. Balanced(kind, refcnt, at, spent, {}, NULL)
    BY <1>4, Zenon DEF Balanced, Counted, Living
<1>6. Charged(kind, spent, frames)
    BY DEF Init, Charged
<1>7. Emptied(kind, at) /\ Exited(kind, frames, told)
    BY <1>4 DEF Init, Emptied, Exited
<1>8. Unreferred(at, spent, {}, ExitingIn(frames))
    BY DEF Unreferred
<1> QED
    BY <1>1, <1>2, <1>3, <1>5, <1>6, <1>7, <1>8 DEF IInv, State

\* Every step keeps the invariant.
LEMMA Inductive ==
    ASSUME IInv, [Next]_vars
    PROVE  IInv'
<1>1. ASSUME Caller
      PROVE  IInv'
  <2>1. ASSUME NEW s \in Slots, NEW o \in Objs, NEW k \in Kinds, New(o, k, s)
        PROVE  IInv'
      BY <2>1, NewKeeps
  <2>2. ASSUME NEW s \in Slots, NEW r \in Slots,
               Copy(r, s) \/ Take(r, s) \/ BeginStore(s, r) \/ Send(s, r)
        PROVE  IInv'
      BY <2>2, CopyKeeps, TakeKeeps, BeginStoreKeeps, SendKeeps
  <2>3. ASSUME NEW s \in Slots, Drop(s) \/ Close(s) \/ FuncYields(s) \/ CopyArgument(s)
        PROVE  IInv'
      BY <2>3, DropKeeps, CloseKeeps, FuncYieldsKeeps, CopyArgumentKeeps
  <2>4. CASE NewFails
      BY <2>4 DEF NewFails, vars, IInv
  <2>5. CASE FuncRaises
      BY <2>5, FuncRaisesKeeps
  <2>6. ASSUME NEW r \in Slots \cup {NULL}, FuncExits(r)
        PROVE  IInv'
      BY <2>6, FuncExitsKeeps
  <2> QED
      BY <1>1, <2>1, <2>2, <2>3, <2>4, <2>5, <2>6 DEF Caller
<1>2. ASSUME Library
      PROVE  IInv'
  <2>1. CASE EndStore \/ CloseEnds \/ DeallocCloses \/ DeallocFrees \/ DeallocEnds
      BY <2>1, EndStoreKeeps, CloseEndsKeeps, DeallocClosesKeeps, DeallocFreesKeeps,
         DeallocEndsKeeps
  <2>2. ASSUME NEW s \in Slots, CloseVisit(s) \/ DeallocVisit(s)
        PROVE  IInv'
      BY <2>2, CloseVisitKeeps, DeallocVisitKeeps
  <2>3. ASSUME NEW o \in Objs, DeallocNext(o)
        PROVE  IInv'
      BY <2>3, DeallocNextKeeps
  <2> QED
      BY <1>2, <2>1, <2>2, <2>3 DEF Library
<1>3. CASE UNCHANGED vars
    BY <1>3 DEF vars, IInv
<1> QED
    BY <1>1, <1>2, <1>3 DEF Next

\* Every reference is counted, and every call in progress finds what it
\* relies on: the invariant that the theorems below read off.
THEOREM RefsInvariant == Spec => []IInv
<1>1. Init => IInv
    BY Initially
<1>2. IInv /\ [Next]_vars => IInv'
    BY Inductive
<1> QED
    BY <1>1, <1>2, PTL DEF Spec

(***************************************************************************)
(* What follows from it.                                                   *)
(***************************************************************************)
\* Every reference count is the number of places that own a reference and of
\* dealloc lists the object is on, until it is stuck at Immortal: yp_incref
\* and yp_decref are called as often as references come and go, whatever the
\* functions of generators do while objects are deallocated.
THEOREM RefsAreCounted == Spec => []RefsCounted
<1>1. IInv => RefsCounted
  <2> SUFFICES ASSUME IInv, NEW o \in Objs, kind[o] # "free", refcnt[o] < Immortal
               PROVE  refcnt[o] = Cardinality(Refs(o)) + (IF Doomed(o) THEN 1 ELSE 0)
      BY DEF RefsCounted
  <2>1. Refs(o) = RefsOf(at, spent, o)
      BY DEF Refs, RefsOf
  <2>2. refcnt[o] = Cardinality(RefsOf(at, spent, o))
                    + (IF o \in DoomedIn(frames) THEN 1 ELSE 0) + (IF o = NULL THEN 1 ELSE 0)
      BY DEF IInv, State, Balanced, Counted
  <2>3. o # NULL /\ (Doomed(o) <=> o \in DoomedIn(frames))
      BY DoomedIs, RefsConstants
  <2> QED
      BY <2>1, <2>2, <2>3, RefsFinite
<1> QED
    BY <1>1, RefsInvariant, PTL

\* Nothing that owns a reference points to an object that was freed, and what
\* it points to waits to be freed only while the function of that generator
\* runs for the last time: the caller never comes upon freed memory, even from
\* a generator's function that runs in the middle of a deallocation, if such a
\* function keeps no reference to its own generator.
THEOREM NothingDangles == Spec => []NoDangling
<1>1. IInv => NoDangling
  <2> SUFFICES ASSUME IInv, NEW s \in Slots \ spent, at[s] # NULL
               PROVE  kind[at[s]] # "free" /\ (Doomed(at[s]) => Exiting(at[s]))
      BY DEF NoDangling
  <2>1. /\ at[s] \in Objs /\ kind[at[s]] # "free"
        /\ at[s] \in DoomedIn(frames) => at[s] \in ExitingIn(frames)
      BY ReferredTo DEF IInv
  <2> QED
      BY <2>1, DoomedIs, ExitingIs
<1> QED
    BY <1>1, RefsInvariant, PTL

\* No object is on two dealloc lists, or on a list twice, or deallocated by a
\* call while another one does: memory is not freed twice.
THEOREM NothingFreedTwice == Spec => []DeallocatedOnce
<1>1. IInv => DeallocatedOnce
  <2> SUFFICES ASSUME IInv, NEW i \in 1 .. Len(frames), NEW j \in 1 .. Len(frames),
                      NEW o \in Objs,
                      frames[i].call = "dealloc", frames[j].call = "dealloc",
                      frames[i].obj = o \/ o \in frames[i].waiting,
                      frames[j].obj = o \/ o \in frames[j].waiting
               PROVE  i = j /\ ~(frames[i].obj = o /\ o \in frames[i].waiting)
      BY DEF DeallocatedOnce
  <2>1. o \in DoomedBy(frames[i]) /\ o \in DoomedBy(frames[j])
      BY RefsConstants DEF DoomedBy
  <2>2. ~(i < j) /\ ~(j < i)
      BY <2>1 DEF IInv, State, CallsOK, PairOK
  <2>3. i = j
      BY <2>2 DEF IInv, State, Typed
  <2>4. FrameOK(frames[i], kind, at, spent, DoomedIn(frames))
      BY DEF IInv, State, CallsOK
  <2> QED
      BY <2>3, <2>4 DEF FrameOK, DeallocOK
<1> QED
    BY <1>1, RefsInvariant, PTL

\* When no call is in progress, every object that was not freed is referred
\* to, or is stuck at Immortal.
THEOREM NothingIsLeaked == Spec => []NothingLeaks
<1>1. IInv => NothingLeaks
  <2> SUFFICES ASSUME IInv, frames = <<>>
               PROVE  /\ spent = {}
                      /\ \A o \in Objs : kind[o] # "free" =>
                             Refs(o) # {} \/ refcnt[o] = Immortal
      BY DEF NothingLeaks
  <2>1. Len(frames) = 0
      OBVIOUS
  <2>2. spent = {}
      BY <2>1 DEF IInv, State, Charged
  <2>3. DoomedIn(frames) = {}
      BY <2>1 DEF DoomedIn
  <2>4. ASSUME NEW o \in Objs, kind[o] # "free", refcnt[o] # Immortal, Refs(o) = {}
        PROVE  FALSE
    <3>1. RefsOf(at, spent, o) = {}
        BY <2>4 DEF Refs, RefsOf
    <3>2. Cardinality(RefsOf(at, spent, o)) = 0
        BY <3>1, RefsFinite
    <3>3. refcnt[o] < Immortal
        BY <2>4, RefsConstants DEF IInv, State, Typed
    <3>4. refcnt[o] = 0
        BY <2>3, <2>4, <3>2, <3>3, RefsConstants DEF IInv, State, Balanced, Counted
    <3> QED
        BY <2>4, <3>4 DEF IInv, State, Balanced, Living
  <2> QED
      BY <2>2, <2>4
<1> QED
    BY <1>1, RefsInvariant, PTL

\* Once a generator was told to exit, no close of it ends without closing it,
\* whatever calls its function makes of the generator before it returns.
THEOREM ExitsAreFinal == Spec => []ExitIsFinal
<1>1. IInv => ExitIsFinal
    BY DEF IInv, State, Exited, ExitIsFinal
<1> QED
    BY <1>1, RefsInvariant, PTL
=============================================================================
