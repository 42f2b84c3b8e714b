------------------------------- MODULE ypRefs -------------------------------
(***************************************************************************)
(* Reference counts, deallocation and generators of nohtyP (src/nohtyP.c,  *)
(* regions "references" and "iter").                                       *)
(*                                                                         *)
(* An object's reference count is the number of places that own a          *)
(* reference to it: fields of other objects, and variables of the library's*)
(* caller.  at[s] is what the place s points to.  When yp_decref drops the *)
(* last reference it deallocates the object; the objects it alone owned    *)
(* wait on a list (ypObject_dealloclist) until their turn.  But before a   *)
(* generator is deallocated its C function runs once more, and that is     *)
(* caller's code again: frames is the stack of library calls in progress.  *)
(*                                                                         *)
(* A frame is one of                                                       *)
(*   dealloc  _ypObject_dealloc: obj is the object whose tp_dealloc runs   *)
(*            (NULL between two), left its fields still to be visited and  *)
(*            waiting the list;                                            *)
(*   send     iter_send, while the function of obj runs ("func");          *)
(*   close    iter_close, while the function of obj runs ("func"), then    *)
(*            while it gives up the fields in left ("visit");              *)
(*   store    list_setindex and the like, after the decref of the old item *)
(*            of the field slot and before the new item is stored there.   *)
(* arg is the caller's variable that holds the object the call is made on, *)
(* res the one that receives (send) or gives up (close) the function's     *)
(* result, item the object to store.  A function may call its own          *)
(* generator: then there are several frames of one object.                 *)
(*                                                                         *)
(* spent are the fields whose reference was given up while the pointer is  *)
(* still there.                                                            *)
(***************************************************************************)
EXTENDS Integers, Sequences, FiniteSets

CONSTANTS
    Objs,           \* memory for objects
    Slots,          \* the places references are kept
    Home,           \* the object a slot is a field of, or NULL: a variable
    Immortal,       \* ypObject_REFCNT_IMMORTAL
    CallsMax,       \* bound: calls of generators in progress when one is made
    NULL

ASSUME RefsConstants ==
    /\ NULL \notin Objs /\ NULL \notin Slots
    /\ IsFiniteSet(Slots) /\ Home \in [Slots -> Objs \cup {NULL}]
    /\ Immortal \in Nat /\ Immortal > 1 /\ CallsMax \in Nat

VARIABLES
    kind,           \* "free", "container", "generator", "closed" (generator)
    refcnt,         \* ob_refcnt
    at,
    spent,
    frames,
    told            \* history: the generators whose function was called with
                    \* yp_GeneratorExit by a close

vars == <<kind, refcnt, at, spent, frames, told>>

Kinds   == {"container", "generator"}
Fields(o) == {s \in Slots : Home[s] = o}
Vars      == {s \in Slots : Home[s] = NULL}

Frame(call, o, phase, arg, res, slot, item) ==
    [call |-> call, obj |-> o, phase |-> phase, left |-> {}, waiting |-> {},
     arg |-> arg, res |-> res, slot |-> slot, item |-> item]

Init ==
    /\ kind = [o \in Objs |-> "free"] /\ refcnt = [o \in Objs |-> 0]
    /\ at = [s \in Slots |-> NULL] /\ spent = {}
    /\ frames = <<>> /\ told = {}

(***************************************************************************)
(* The stack of calls.                                                     *)
(***************************************************************************)
Top     == frames[Len(frames)]
Below   == SubSeq(frames, 1, Len(frames) - 1)
Running(call, phase) ==
    frames # <<>> /\ Top.call = call /\ Top.phase = phase

\* The caller's code runs: at the bottom, or in a generator's function.
CallerRuns == frames # <<>> => Top.phase = "func"

\* The variables calls in progress use.
Reserved == UNION {{frames[i].arg, frames[i].res} : i \in 1 .. Len(frames)}

\* The generators whose state is being given up.
Closing(o) ==
    \E i \in 1 .. Len(frames) :
        frames[i].call = "close" /\ frames[i].phase = "visit" /\ frames[i].obj = o

\* The objects on a dealloc list, or whose tp_dealloc runs.
Doomed(o) ==
    \E i \in 1 .. Len(frames) :
        /\ frames[i].call = "dealloc"
        /\ o = frames[i].obj \/ o \in frames[i].waiting

\* The generators that are being deallocated and whose function runs.
Exiting(o) ==
    \E i \in 1 .. Len(frames) :
        /\ frames[i].call = "close" /\ frames[i].phase = "func"
        /\ frames[i].obj = o /\ frames[i].arg = NULL

\* The places that own a reference to o.
Refs(o) == {s \in Slots \ spent : at[s] = o}

(***************************************************************************)
(* yp_incref and yp_decref.  A count that reaches Immortal stays there.    *)
(***************************************************************************)
IncRef(o) ==
    refcnt' = IF refcnt[o] >= Immortal THEN refcnt
              ELSE [refcnt EXCEPT ![o] = @ + 1]

\* Seeded fault: a count that reached Immortal goes down again.
DecRefMortal(o) == refcnt' = [refcnt EXCEPT ![o] = @ - 1]

\* _ypObject_decref where it does not drop the last reference.
DecRef(o) ==
    refcnt' = IF refcnt[o] >= Immortal THEN refcnt
              ELSE [refcnt EXCEPT ![o] = @ - 1]

Last(o) == refcnt[o] = 1 /\ refcnt[o] < Immortal

\* tp_dealloc starts on o: a container visits its fields, a generator is
\* closed first.
Dying(o, waiting) ==
    [Frame("dealloc", o, "visit", NULL, NULL, NULL, NULL) EXCEPT
        !.left = IF kind[o] = "container" THEN Fields(o) ELSE {},
        !.waiting = waiting]

\* yp_decref, called from the stack of calls fs.
GiveUp(o, fs) ==
    \/ ~Last(o) /\ DecRef(o) /\ frames' = fs
    \/ Last(o) /\ frames' = Append(fs, Dying(o, {})) /\ UNCHANGED refcnt

(***************************************************************************)
(* The caller.  It can use the fields of an object it has a variable for,  *)
(* or whose function runs, but not of one whose state is being given up.   *)
(***************************************************************************)
HasVariable(o) == \E s \in Vars : at[s] = o

CanUse(o) ==
    /\ kind[o] \in Kinds /\ ~Closing(o)
    /\ HasVariable(o) \/ (frames # <<>> /\ Top.obj = o)

\* The places the caller may read or change.
Open(s) == s \notin Reserved \cup spent /\ (s \notin Vars => CanUse(Home[s]))

New(o, k, s) ==
    /\ CallerRuns
    /\ kind[o] = "free" /\ s \in Vars /\ Open(s) /\ at[s] = NULL
    /\ kind' = [kind EXCEPT ![o] = k]
    /\ refcnt' = [refcnt EXCEPT ![o] = 1]
    /\ at' = [at EXCEPT ![s] = o]
    /\ told' = told \ {o}
    /\ UNCHANGED <<spent, frames>>

\* There is no memory for a new object.
NewFails == CallerRuns /\ UNCHANGED vars

\* A reference is copied from r to s: list_append, yp_getitem, ...
Copy(r, s) ==
    /\ CallerRuns
    /\ at[r] # NULL /\ (Open(r) \/ r \in Vars)
    /\ Open(s) /\ at[s] = NULL
    /\ at' = [at EXCEPT ![s] = at[r]]
    /\ IncRef(at[r])
    /\ UNCHANGED <<kind, spent, frames, told>>

\* A function copies its own generator, which is passed to it, also when it
\* is called because that generator is deallocated.
CopyArgument(s) ==
    /\ CallerRuns /\ frames # <<>>
    /\ Open(s) /\ at[s] = NULL
    /\ at' = [at EXCEPT ![s] = Top.obj]
    /\ IncRef(Top.obj)
    /\ UNCHANGED <<kind, spent, frames, told>>

\* A reference is moved from r to the variable s: list_pop, set_pop, ...
Take(r, s) ==
    /\ CallerRuns
    /\ Open(r) /\ at[r] # NULL /\ s \in Vars /\ Open(s) /\ at[s] = NULL
    /\ at' = [at EXCEPT ![s] = at[r], ![r] = NULL]
    /\ UNCHANGED <<kind, refcnt, spent, frames, told>>

\* yp_decref of a variable.
Drop(s) ==
    /\ CallerRuns
    /\ s \in Vars /\ Open(s) /\ at[s] # NULL
    /\ at' = [at EXCEPT ![s] = NULL]
    /\ GiveUp(at[s], frames)
    /\ UNCHANGED <<kind, spent, told>>

\* list_setindex, _ypDict_push_existingkey: the old item of the field s is
\* given up, then what the variable r holds is stored.
BeginStore(s, r) ==
    /\ CallerRuns
    /\ s \notin Vars /\ Open(s) /\ at[s] # NULL /\ kind[Home[s]] = "container"
    /\ r \in Vars /\ at[r] # NULL
    /\ \E v \in Vars :
          /\ at[v] = Home[s]
          /\ GiveUp(at[s],
                Append(frames,
                    Frame("store", Home[s], "store", r, v, s, at[r])))
    /\ spent' = spent \cup {s}
    /\ UNCHANGED <<kind, at, told>>

\* Seeded fault: the new item's reference is not counted.
EndStoreSteals ==
    /\ Running("store", "store")
    /\ at' = [at EXCEPT ![Top.slot] = Top.item]
    /\ spent' = spent \ {Top.slot}
    /\ frames' = Below
    /\ UNCHANGED <<kind, refcnt, told>>

EndStore ==
    /\ Running("store", "store")
    /\ at' = [at EXCEPT ![Top.slot] = Top.item]
    /\ IncRef(Top.item)
    /\ spent' = spent \ {Top.slot}
    /\ frames' = Below
    /\ UNCHANGED <<kind, told>>

(***************************************************************************)
(* Generators.  What a caller must not do: call a generator whose state is *)
(* being given up (iter_close would give it up again), and leave a         *)
(* reference to a generator behind whose deallocation called the function. *)
(***************************************************************************)
Replace(f) == Append(Below, f)

Call(call, o, arg, res) ==
    /\ frames' = Append(frames, Frame(call, o, "func", arg, res, NULL, NULL))
    /\ told' = IF call = "close" THEN told \cup {o} ELSE told
    /\ UNCHANGED <<kind, refcnt, at, spent>>

\* Bound: a variable is passed to one call at a time.
CanCall(s) ==
    /\ CallerRuns
    /\ s \in Vars /\ Open(s) /\ at[s] # NULL
    /\ kind[at[s]] = "generator" /\ ~Closing(at[s])
    /\ Cardinality({i \in 1 .. Len(frames) : frames[i].call \in {"send", "close"}})
          <= CallsMax

\* yp_send, yp_next; the value sent is left out.
Send(s, r) ==
    /\ CanCall(s)
    /\ r \in Vars /\ Open(r) /\ at[r] = NULL
    /\ Call("send", at[s], s, r)

\* yp_close; a closed generator is closed again to no effect.
Close(s) == CanCall(s) /\ Call("close", at[s], s, NULL)

\* The function yields what the place r points to.
FuncYields(r) ==
    /\ Running("send", "func")
    /\ at[r] # NULL /\ (Open(r) \/ r \in Vars)
    /\ at' = [at EXCEPT ![Top.res] = at[r]]
    /\ IncRef(at[r])
    /\ frames' = Below
    /\ UNCHANGED <<kind, spent, told>>

\* The function returns an exception: iter_send closes the generator, which
\* calls the function once more, unless the function closed it already.
FuncRaises ==
    /\ Running("send", "func")
    /\ \/ /\ kind[Top.obj] = "generator"
          /\ frames' = Replace([Top EXCEPT !.call = "close", !.res = NULL])
          /\ told' = told \cup {Top.obj}
       \/ /\ kind[Top.obj] = "closed"
          /\ frames' = Below /\ UNCHANGED told
    /\ UNCHANGED <<kind, refcnt, at, spent>>

\* The function returns from its last call, with an exception (NULL) or,
\* wrongly, yielding what the variable r holds.
FuncExits(r) ==
    /\ Running("close", "func")
    /\ r # NULL => r \in Vars /\ Open(r) /\ at[r] # NULL
    /\ Top.arg = NULL => Refs(Top.obj) = {}
    /\ frames' = Replace([Top EXCEPT !.phase = "visit", !.res = r,
                                     !.left = Fields(Top.obj)])
    /\ UNCHANGED <<kind, refcnt, at, spent, told>>

\* _iter_closing_visitor gives up one field of the state.
CloseVisit(s) ==
    /\ Running("close", "visit") /\ s \in Top.left
    /\ LET rest == Replace([Top EXCEPT !.left = @ \ {s}])
       IN  \/ /\ at[s] = NULL
              /\ frames' = rest /\ UNCHANGED <<refcnt, spent>>
           \/ /\ at[s] # NULL
              /\ spent' = spent \cup {s}
              /\ GiveUp(at[s], rest)
    /\ UNCHANGED <<kind, at, told>>

\* Seeded fault: the function is left in place.
CloseEndsOpen ==
    /\ Running("close", "visit") /\ Top.left = {}
    /\ spent' = spent \ Fields(Top.obj)
    /\ at' = [s \in Slots |-> IF Home[s] = Top.obj \/ s = Top.res THEN NULL
                              ELSE at[s]]
    /\ \/ Top.res = NULL /\ frames' = Below /\ UNCHANGED refcnt
       \/ Top.res # NULL /\ GiveUp(at[Top.res], Below)
    /\ UNCHANGED <<kind, told>>

\* The state has no references from here on, the function is
\* _iter_closed_generator, and what was yielded is discarded.
CloseEnds ==
    /\ Running("close", "visit") /\ Top.left = {}
    /\ kind' = [kind EXCEPT ![Top.obj] = "closed"]
    /\ spent' = spent \ Fields(Top.obj)
    /\ at' = [s \in Slots |-> IF Home[s] = Top.obj \/ s = Top.res THEN NULL
                              ELSE at[s]]
    /\ \/ Top.res = NULL /\ frames' = Below /\ UNCHANGED refcnt
       \/ Top.res # NULL /\ GiveUp(at[Top.res], Below)
    /\ UNCHANGED told

(***************************************************************************)
(* _ypObject_dealloc.                                                      *)
(***************************************************************************)
Deallocating == Running("dealloc", "visit")

\* iter_dealloc begins with iter_close.
DeallocCloses ==
    /\ Deallocating /\ Top.obj # NULL /\ kind[Top.obj] = "generator"
    /\ Call("close", Top.obj, NULL, NULL)

\* yp_decref_fromdealloc on one field: an object that loses its last
\* reference waits.
DeallocVisit(s) ==
    /\ Deallocating /\ s \in Top.left
    /\ LET rest == [Top EXCEPT !.left = @ \ {s}]
       IN  \/ /\ at[s] = NULL
              /\ frames' = Replace(rest) /\ UNCHANGED <<refcnt, spent>>
           \/ /\ at[s] # NULL /\ ~Last(at[s])
              /\ DecRef(at[s])
              /\ frames' = Replace(rest) /\ spent' = spent \cup {s}
           \/ /\ at[s] # NULL /\ Last(at[s])
              /\ frames' = Replace([rest EXCEPT !.waiting = @ \cup {at[s]}])
              /\ spent' = spent \cup {s} /\ UNCHANGED refcnt
    /\ UNCHANGED <<kind, at, told>>

\* The memory of the object is freed.
DeallocFrees ==
    /\ Deallocating /\ Top.obj # NULL /\ Top.left = {}
    /\ kind[Top.obj] # "generator"
    /\ kind' = [kind EXCEPT ![Top.obj] = "free"]
    /\ refcnt' = [refcnt EXCEPT ![Top.obj] = 0]
    /\ at' = [s \in Slots |-> IF Home[s] = Top.obj THEN NULL ELSE at[s]]
    /\ spent' = spent \ Fields(Top.obj)
    /\ frames' = Replace([Top EXCEPT !.obj = NULL])
    /\ UNCHANGED told

\* Seeded faults: only the first object of the list is deallocated; an
\* object is not taken off the list.
DeallocNextOnly(o) ==
    /\ Deallocating /\ Top.obj = NULL /\ o \in Top.waiting
    /\ frames' = Replace(Dying(o, {}))
    /\ UNCHANGED <<kind, refcnt, at, spent, told>>

DeallocNextStays(o) ==
    /\ Deallocating /\ Top.obj = NULL /\ o \in Top.waiting
    /\ frames' = Replace(Dying(o, Top.waiting))
    /\ UNCHANGED <<kind, refcnt, at, spent, told>>

\* _ypObject_dealloclist_pop.  Which object comes first makes no difference.
DeallocNext(o) ==
    /\ Deallocating /\ Top.obj = NULL /\ o \in Top.waiting
    /\ frames' = Replace(Dying(o, Top.waiting \ {o}))
    /\ UNCHANGED <<kind, refcnt, at, spent, told>>

DeallocEnds ==
    /\ Deallocating /\ Top.obj = NULL /\ Top.waiting = {}
    /\ frames' = Below
    /\ UNCHANGED <<kind, refcnt, at, spent, told>>

(***************************************************************************)
(* The specification.                                                      *)
(***************************************************************************)
Caller ==
    \/ \E s \in Slots :
          \/ \E o \in Objs, k \in Kinds : New(o, k, s)
          \/ \E r \in Slots : Copy(r, s) \/ Take(r, s) \/ BeginStore(s, r) \/ Send(s, r)
          \/ Drop(s) \/ Close(s) \/ FuncYields(s) \/ CopyArgument(s)
    \/ NewFails \/ FuncRaises
    \/ \E r \in Slots \cup {NULL} : FuncExits(r)

Library ==
    \/ EndStore \/ CloseEnds
    \/ DeallocCloses \/ DeallocFrees \/ DeallocEnds
    \/ \E s \in Slots : CloseVisit(s) \/ DeallocVisit(s)
    \/ \E o \in Objs : DeallocNext(o)

Next == Caller \/ Library

Spec == Init /\ [][Next]_vars

\* The library runs on its own; whether a function returns is up to the
\* caller.
FairSpec == Spec /\ WF_vars(Library)

(***************************************************************************)
(* Properties.                                                             *)
(***************************************************************************)
\* Until it is stuck at Immortal, a reference count is the number of places
\* that own a reference, and of dealloc lists.
RefsCounted ==
    \A o \in Objs :
        kind[o] # "free" /\ refcnt[o] < Immortal =>
            refcnt[o] = Cardinality(Refs(o)) + (IF Doomed(o) THEN 1 ELSE 0)

\* No place that owns a reference points to memory that was freed, nor to
\* an object that is about to be, but for a generator whose function has not
\* returned from its last call yet.
NoDangling ==
    \A s \in Slots \ spent :
        at[s] # NULL => kind[at[s]] # "free" /\ (Doomed(at[s]) => Exiting(at[s]))

\* The same object is never deallocated by two calls, or twice by one.
DeallocatedOnce ==
    \A i, j \in 1 .. Len(frames), o \in Objs :
        /\ frames[i].call = "dealloc" /\ frames[j].call = "dealloc"
        /\ frames[i].obj = o \/ o \in frames[i].waiting
        /\ frames[j].obj = o \/ o \in frames[j].waiting
        => i = j /\ ~(frames[i].obj = o /\ o \in frames[i].waiting)

\* Between calls nothing that is not referred to is left over.
NothingLeaks ==
    frames = <<>> =>
        /\ spent = {}
        /\ \A o \in Objs : kind[o] # "free" =>
                Refs(o) # {} \/ refcnt[o] = Immortal

\* Once the function of a generator was told to exit, by the end of the call
\* that told it the generator is closed: whatever the function returns, and
\* whichever calls it makes meanwhile on its own generator, it is not called
\* again.
ExitIsFinal ==
    \A o \in told :
        kind[o] = "generator" =>
            \E i \in 1 .. Len(frames) : frames[i].call = "close" /\ frames[i].obj = o

\* The library always comes back to the caller's code: no chain of
\* deallocations goes round.
LibraryReturns == []<>CallerRuns

=============================================================================
