------------------------------ MODULE ypProxies ------------------------------
(***************************************************************************)
(* The Python bindings (Lib/yp.py): the proxies that stand for nohtyP's    *)
(* objects in Python, the weak cache that keeps them unique, the reference *)
(* each of them owns, and the Python callbacks that nohtyP holds.          *)
(*                                                                         *)
(* An object is known by its address, which its successor may get.  What   *)
(* nohtyP's containers hold is one number per object.  A proxy's value is  *)
(* a cell of memory: its own, that of an output parameter it keeps alive,  *)
(* or, for an argument of a callback, one of the array nohtyP passes.      *)
(*                                                                         *)
(* Python code runs at the bottom of the stack, in a callback, and when    *)
(* the callbacks of a freed object are finalized.                          *)
(***************************************************************************)
EXTENDS Integers, Sequences, FiniteSets

CONSTANTS
    Addr, Proxy,
    NoProxy,
    StoredMax,          \* bound: references containers hold to an object
    DepthMax,           \* bound: finalizers one within the other that make objects
    CallbacksKeepArgs   \* whether a callback may keep its arguments

ASSUME ProxiesAssumption ==
    /\ NoProxy \notin Proxy /\ StoredMax \in Nat /\ DepthMax \in Nat
    /\ CallbacksKeepArgs \in BOOLEAN

VARIABLES
    heap,       \* nohtyP's objects: kind, references, those of containers
    hooks,      \* _yp_reverse_refs, the addresses that have callbacks
    proxies,
    cache,      \* _yp_pyobj_cache
    held,       \* the proxies that Python variables refer to
    argument,   \* the cell of the argument array
    stack

vars == <<heap, hooks, proxies, cache, held, argument, stack>>

Free == [kind |-> "free", refs |-> 0, stored |-> 0]
NoObject == [state |-> "none", cell |-> "own", key |-> NoProxy]

Init ==
    /\ heap = [a \in Addr |-> Free] /\ hooks = {}
    /\ proxies = [p \in Proxy |-> NoObject] /\ cache = [a \in Addr |-> NoProxy]
    /\ held = {} /\ argument \in Addr /\ stack = <<>>
-----------------------------------------------------------------------------
Live(p) == proxies[p].state = "live"
Dying(p) == proxies[p].state = "dying"
Value(p) == IF proxies[p].cell = "argument" THEN argument ELSE proxies[p].key
Allocated(a) == heap[a].kind # "free"

Frame(kind, p) == [kind |-> kind, proxy |-> p]
Frames(kinds) == {i \in DOMAIN stack : stack[i].kind \in kinds}
PythonRuns == stack # <<>> => Head(stack).kind \in {"callback", "finalizer"}

\* yp_free_hook: the callbacks go once the memory is free.
WithoutCallbacks(a) == hooks \ {a}

\* yp_decref.  The last reference frees the object, and what was kept alive
\* by its callbacks is finalized.
DecRef(h, a, frames) ==
    IF h[a].refs > 1
    THEN /\ heap' = [h EXCEPT ![a].refs = @ - 1]
         /\ hooks' = hooks /\ stack' = frames
    ELSE /\ heap' = [h EXCEPT ![a] = Free]
         /\ hooks' = WithoutCallbacks(a)
         /\ stack' = IF a \in hooks
                     THEN <<Frame("finalizer", NoProxy)>> \o frames ELSE frames
-----------------------------------------------------------------------------
\* Seeded fault: no existing proxy is looked for.
NotCached(a) == NoProxy

\* _yp_pyobj_cache.get: a weak reference is good for as long as __del__ runs.
Cached(a) == cache[a]

\* A new proxy for the object at a, in the given cell.
NewProxy(p, a, cell) ==
    /\ proxies[p].state = "none"
    /\ proxies' = [proxies EXCEPT
                      ![p] = [state |-> "live", cell |-> cell, key |-> a]]
    /\ cache' = [cache EXCEPT ![a] = p]

\* _yp_transmute_and_cache of a new reference, by yp_func_errcheck.  h is the
\* heap in which that reference is counted.
Steal(h, a) ==
    \/ /\ Cached(a) # NoProxy
       /\ held' = held \cup {Cached(a)}
       /\ DecRef(h, a, stack) /\ UNCHANGED <<proxies, cache>>
    \/ /\ Cached(a) = NoProxy
       /\ \E p \in Proxy : NewProxy(p, a, "own") /\ held' = held \cup {p}
       /\ heap' = h /\ UNCHANGED <<hooks, stack>>

\* Seeded fault: the proxy gets no reference of its own.
NotReferenced(h, a) == h

\* _yp_transmute_and_cache of a borrowed reference, for a new proxy.
Borrowed(h, a) == [h EXCEPT ![a].refs = @ + 1]

\* A new object at a, with one reference.
NewObject(kind, a) ==
    [heap EXCEPT ![a] = [kind |-> kind, refs |-> 1, stored |-> 0]]

\* A call makes an object.  One with a Python callback is then registered at
\* the address that its proxy has (yp_iter._from_python,
\* yp_function.with_parameters).  If that is the proxy of an earlier object at
\* a, found in the cache while it is dying, the new object is freed, and only
\* then the callback is registered.
Create ==
    /\ PythonRuns /\ Cardinality(Frames({"finalizer"})) <= DepthMax
    /\ \E a \in Addr :
        /\ ~Allocated(a)
        /\ \/ Steal(NewObject("value", a), a)
           \/ /\ Cached(a) = NoProxy
              /\ \E p \in Proxy : NewProxy(p, a, "own") /\ held' = held \cup {p}
              /\ heap' = NewObject("callback", a)
              /\ hooks' = hooks \cup {a} /\ UNCHANGED stack
           \/ /\ Cached(a) # NoProxy
              /\ held' = held \cup {Cached(a)}
              /\ DecRef(NewObject("callback", a), a,
                        <<Frame("register", Value(Cached(a)))>> \o stack)
              /\ UNCHANGED <<proxies, cache>>
    /\ UNCHANGED argument

Top(kind) == IF stack = <<>> THEN FALSE ELSE Head(stack).kind = kind

Register ==
    /\ Top("register")
    /\ hooks' = hooks \cup {Head(stack).proxy} /\ stack' = Tail(stack)
    /\ UNCHANGED <<heap, proxies, cache, held, argument>>

\* A call returns an object that a container holds, or gives up.
Fetch ==
    /\ PythonRuns
    /\ \E a \in Addr :
        /\ heap[a].stored > 0
        /\ \/ Steal([heap EXCEPT ![a].refs = @ + 1], a)
           \/ Steal([heap EXCEPT ![a].stored = @ - 1], a)
    /\ UNCHANGED argument

\* A call moves a container's reference to an output parameter (divmod,
\* popitem).  A new proxy has a reference of its own, and keeps the
\* c_ypObject_pp alive; with an old one that is discarded at once.
TakeOut ==
    /\ PythonRuns
    /\ \E a \in Addr :
        LET h == [heap EXCEPT ![a].stored = @ - 1]
        IN  /\ heap[a].stored > 0
            /\ \/ /\ Cached(a) # NoProxy
                  /\ held' = held \cup {Cached(a)}
                  /\ DecRef(h, a, stack) /\ UNCHANGED <<proxies, cache>>
               \/ /\ Cached(a) = NoProxy
                  /\ \E p \in Proxy :
                        NewProxy(p, a, "output") /\ held' = held \cup {p}
                  /\ heap' = Borrowed(h, a) /\ UNCHANGED <<hooks, stack>>
    /\ UNCHANGED argument

\* The proxies that calls refer to, and those that Python code can reach.
Within(kinds) == {stack[i].proxy : i \in Frames(kinds)}
Reached == held \cup Within({"callback"})

\* A container takes an object, or drops one.
Store ==
    /\ PythonRuns
    /\ \E p \in Reached :
        /\ Allocated(Value(p)) /\ heap[Value(p)].stored < StoredMax
        /\ heap' = [heap EXCEPT ![Value(p)].refs = @ + 1,
                                ![Value(p)].stored = @ + 1]
    /\ UNCHANGED <<hooks, proxies, cache, held, argument, stack>>

Discard ==
    /\ PythonRuns
    /\ \E a \in Addr :
        /\ heap[a].stored > 0
        /\ DecRef([heap EXCEPT ![a].stored = @ - 1], a, stack)
    /\ UNCHANGED <<proxies, cache, held, argument>>
-----------------------------------------------------------------------------
\* nohtyP calls a Python function with an object that it holds meanwhile.
\* _pyfunction_wrapper's proxy for it, if it is new, is the cell of the
\* argument array; it gets a reference of its own.
Callback ==
    /\ PythonRuns /\ Frames({"callback", "return"}) = {}
    /\ \E a \in Addr :
        LET h == [heap EXCEPT ![a].refs = @ + 1]
        IN  /\ heap[a].stored > 0
            /\ argument' = a
            /\ \/ /\ Cached(a) # NoProxy
                  /\ heap' = h /\ UNCHANGED <<proxies, cache>>
                  /\ stack' = <<Frame("callback", Cached(a))>> \o stack
               \/ /\ Cached(a) = NoProxy
                  /\ heap' = Borrowed(h, a)
                  /\ \E p \in Proxy :
                        /\ NewProxy(p, a, "argument")
                        /\ stack' = <<Frame("callback", p)>> \o stack
    /\ UNCHANGED <<hooks, held>>

KeepArgument ==
    /\ Top("callback") /\ held' = held \cup {Head(stack).proxy}
    /\ UNCHANGED <<heap, hooks, proxies, cache, argument, stack>>

\* Nothing refers to p any longer: __del__ runs, unless it did before.
Unreachable(p, frames) ==
    IF Live(p)
    THEN /\ proxies' = [proxies EXCEPT ![p].state = "dying"]
         /\ stack' = <<Frame("del", p)>> \o frames
    ELSE /\ stack' = <<Frame("clear", p)>> \o frames
         /\ UNCHANGED proxies

\* What a callback may leave behind.  (yp_function's own wrapper of a plain
\* Python function passes its arguments on and keeps none.)
MayReturn(p) == p \notin held \/ proxies[p].cell # "argument" \/ CallbacksKeepArgs

CallbackReturns ==
    LET p == Head(stack).proxy
        frames == <<Frame("return", NoProxy)>> \o Tail(stack)
    IN  /\ Top("callback") /\ MayReturn(p)
        /\ IF p \in held THEN stack' = frames /\ UNCHANGED proxies
           ELSE Unreachable(p, frames)
        /\ UNCHANGED <<heap, hooks, cache, held, argument>>

\* nohtyP goes on, and gives up the object.
Returned ==
    /\ Top("return") /\ DecRef(heap, argument, Tail(stack))
    /\ UNCHANGED <<proxies, cache, held, argument>>

\* A variable goes; so does the proxy, if no call refers to it.
Release ==
    /\ PythonRuns
    /\ \E p \in held :
        /\ held' = held \ {p}
        /\ IF p \in Within({"callback", "clear"}) THEN UNCHANGED <<proxies, stack>>
           ELSE Unreachable(p, stack)
    /\ UNCHANGED <<heap, hooks, cache, argument>>

\* ypObject.__del__
Del ==
    /\ Top("del")
    /\ LET p == Head(stack).proxy
       IN  DecRef(heap, Value(p), <<Frame("clear", p)>> \o Tail(stack))
    /\ UNCHANGED <<proxies, cache, held, argument>>

\* Seeded fault: the callbacks go with the proxy.
ClearWithCallbacks ==
    /\ Top("clear")
    /\ LET p == Head(stack).proxy
           k == proxies[p].key
       IN  \/ /\ p \in held
              /\ proxies' = [proxies EXCEPT ![p].state = "finalized"]
              /\ stack' = Tail(stack) /\ UNCHANGED <<heap, hooks, cache>>
           \/ /\ p \notin held
              /\ proxies' = [proxies EXCEPT ![p] = NoObject]
              /\ cache' = [cache EXCEPT ![k] = IF @ = p THEN NoProxy ELSE @]
              /\ IF proxies[p].cell = "output" THEN DecRef(heap, k, Tail(stack))
                 ELSE /\ stack' = Tail(stack) /\ hooks' = hooks \ {k}
                      /\ UNCHANGED heap
    /\ UNCHANGED <<held, argument>>

\* Python then drops the weak references to the proxy and what it kept alive,
\* unless somebody found it meanwhile.
Clear ==
    /\ Top("clear")
    /\ LET p == Head(stack).proxy
           k == proxies[p].key
       IN  \/ /\ p \in held
              /\ proxies' = [proxies EXCEPT ![p].state = "finalized"]
              /\ stack' = Tail(stack) /\ UNCHANGED <<heap, hooks, cache>>
           \/ /\ p \notin held
              /\ proxies' = [proxies EXCEPT ![p] = NoObject]
              /\ cache' = [cache EXCEPT ![k] = IF @ = p THEN NoProxy ELSE @]
              /\ IF proxies[p].cell = "output" THEN DecRef(heap, k, Tail(stack))
                 ELSE stack' = Tail(stack) /\ UNCHANGED <<heap, hooks>>
    /\ UNCHANGED <<held, argument>>

FinalizerEnds ==
    /\ Top("finalizer") /\ stack' = Tail(stack)
    /\ UNCHANGED <<heap, hooks, proxies, cache, held, argument>>

Next ==
    \/ Create \/ Register \/ Fetch \/ TakeOut \/ Store \/ Discard \/ Release
    \/ Callback \/ KeepArgument \/ CallbackReturns \/ Returned
    \/ Del \/ Clear \/ FinalizerEnds

Spec == Init /\ [][Next]_vars
-----------------------------------------------------------------------------
Exposed(p) == proxies[p].state \in {"live", "finalized"}

\* _yp_pyobj_cache "ensures that at most one Python object exists per nohtyP
\* object" (yp.py, line 47).
OneProxyPerObject ==
    \A p, q \in Proxy : Exposed(p) /\ Exposed(q) /\ Value(p) = Value(q) => p = q

\* Every reference has an owner: a container, a proxy, the output parameter
\* a proxy keeps alive, or the call that passes an argument.  Nothing leaks,
\* and no live proxy stands for an object that is gone.  (One that was found
\* in the cache during its __del__ owns nothing.)
Owners(a) == {p \in Proxy : Value(p) = a /\ (Live(p) \/ \E i \in DOMAIN stack :
                                                stack[i] = Frame("del", p))}
Outputs(a) == {p \in Proxy : /\ proxies[p].key = a /\ proxies[p].state # "none"
                             /\ proxies[p].cell = "output"}
Calls(a) == {i \in Frames({"callback", "return"}) : argument = a}
ReferencesOwned ==
    \A a \in Addr :
        heap[a].refs = heap[a].stored + Cardinality(Owners(a))
                       + Cardinality(Outputs(a)) + Cardinality(Calls(a))

\* An object's callback lives as long as the object, also when the proxy that
\* registered it is long gone: nohtyP may still call it.
CallbacksKept == {a \in Addr : heap[a].kind = "callback"} \subseteq hooks
=============================================================================
