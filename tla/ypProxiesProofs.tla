--------------------------- MODULE ypProxiesProofs ---------------------------
(***************************************************************************)
(* Proofs about ypProxies, for any addresses, proxies and bounds.  What is *)
(* said of proxies and references needs callbacks that keep none of the    *)
(* arguments they had to make a proxy for: ~CallbacksKeepArgs (the run     *)
(* proxies_args has what happens when they do).  What is said of the       *)
(* objects' callbacks needs nothing.                                       *)
(*                                                                         *)
(* The definitions take the state as parameters (h, hk, px, ca, hd, ar and *)
(* st stand for heap, hooks, proxies, cache, held, argument and stack),    *)
(* because the calls decrement a count in a heap they have changed before: *)
(* S is the set of the addresses whose count is still to be lowered.       *)
(***************************************************************************)
EXTENDS ypProxies, FiniteSetTheorems, SequenceTheorems, TLAPS

(***************************************************************************)
(* The invariant.                                                          *)
(***************************************************************************)
Calling   == {"callback", "return"}
Deleting  == {"del", "clear"}
FrameType == [kind : Calling \cup Deleting \cup {"finalizer"}, proxy : Proxy \cup {NoProxy}]
             \cup [kind : {"register"}, proxy : Addr]

Typed(h, hk, px, ca, hd, ar, st) ==
    /\ h \in [Addr -> [kind : {"free", "value", "callback"}, refs : Nat, stored : Nat]]
    /\ px \in [Proxy -> [state : {"none", "live", "dying", "finalized"},
                         cell : {"own", "output", "argument"},
                         key : Addr \cup {NoProxy}]]
    /\ ca \in [Addr -> Proxy \cup {NoProxy}]
    /\ hk \subseteq Addr /\ hd \subseteq Proxy /\ ar \in Addr /\ st \in Seq(FrameType)

\* The cache has the proxies there are, under the addresses they were made for.
Keyed(px, ca) ==
    /\ \A a \in Addr : ca[a] # NoProxy =>
           px[ca[a]].state # "none" /\ px[ca[a]].key = a
    /\ \A p \in Proxy : px[p].state # "none" => px[p].key \in Addr /\ ca[px[p].key] = p

\* The stack of calls: one callback at most, each proxy deleted once, and only
\* finalizers run while one is cleared.
Shaped(st) ==
    /\ \A i \in 1 .. Len(st) : st[i].kind \in Deleting \cup {"callback"} => st[i].proxy \in Proxy
    /\ \A i \in 1 .. Len(st) : st[i].kind = "del" => i = 1
    /\ \A i, j \in 1 .. Len(st) : st[i].kind \in Calling /\ st[j].kind \in Calling => i = j
    /\ \A i, j \in 1 .. Len(st) :
           st[i].kind \in Deleting /\ st[j].kind \in Deleting /\ st[i].proxy = st[j].proxy
           => i = j
    /\ \A i \in 1 .. Len(st) - 1 : st[i].kind # "finalizer" =>
           st[i + 1].kind \in Calling \cup {"finalizer"}

\* The object at a was freed, or is about to be.
Gone(h, S, a) == h[a].kind = "free" \/ (a \in S /\ h[a].refs = 1)

\* The proxy found its object freed.
Bereft(h, S, px, p) == px[p].cell = "own" /\ Gone(h, S, px[p].key)

\* What frames and variables rely on.
Reliable(h, S, px, hd, st) ==
    /\ \A p \in hd : px[p].state # "none"
    /\ \A i \in 1 .. Len(st) : LET p == st[i].proxy IN
          /\ st[i].kind = "callback" => px[p].state = "live"
          /\ st[i].kind = "del" => px[p].state = "dying" /\ p \notin hd
          /\ st[i].kind = "clear" => /\ px[p].state \in {"dying", "finalized"}
                                     /\ (i = 1 /\ p \notin hd) \/ Bereft(h, S, px, p)
    /\ \A p \in Proxy : px[p].state = "dying" =>
           \E i \in 1 .. Len(st) : st[i].kind \in Deleting /\ st[i].proxy = p
    /\ \A p \in Proxy : px[p].state = "finalized" => Bereft(h, S, px, p)

\* A proxy in the argument array stands for the argument of the callback that
\* runs, or is deleted before that callback's caller goes on.
Passed(px, ar, st) ==
    \A p \in Proxy : px[p].state # "none" /\ px[p].cell = "argument" =>
        /\ px[p].key = ar
        /\ \/ \E i \in 1 .. Len(st) : st[i].kind = "callback" /\ st[i].proxy = p
           \/ /\ Len(st) >= 2 /\ st[1].kind \in Deleting /\ st[1].proxy = p
              /\ st[2].kind = "return"

\* Who owns references to the object at a.
OwnedBy(px, st, p) ==
    px[p].state = "live" \/ (Len(st) > 0 /\ st[1].kind = "del" /\ st[1].proxy = p)
ByProxy(px, ca, st, a)  == ca[a] # NoProxy /\ OwnedBy(px, st, ca[a])
ByOutput(px, ca, a)     == ca[a] # NoProxy /\ px[ca[a]].cell = "output"
ByCall(ar, st, a)       == ar = a /\ \E i \in 1 .. Len(st) : st[i].kind \in Calling
One(P) == IF P THEN 1 ELSE 0

Owned(h, S, px, ca, ar, st) ==
    \A a \in Addr :
        /\ h[a].refs = h[a].stored + One(ByProxy(px, ca, st, a))
                       + One(ByOutput(px, ca, a)) + One(ByCall(ar, st, a)) + One(a \in S)
        /\ h[a].kind = "free" <=> h[a].refs = 0

State(h, hk, px, ca, hd, ar, st, S) ==
    /\ Typed(h, hk, px, ca, hd, ar, st)
    /\ Keyed(px, ca)
    /\ Shaped(st)
    /\ Reliable(h, S, px, hd, st)
    /\ Passed(px, ar, st)
    /\ Owned(h, S, px, ca, ar, st)

IInv == State(heap, hooks, proxies, cache, held, argument, stack, {})

(***************************************************************************)
(* The stack of calls.                                                     *)
(***************************************************************************)
\* A call begins on top of the others.
LEMMA PushIs ==
    ASSUME NEW s \in Seq(FrameType), NEW f \in FrameType
    PROVE  /\ <<f>> \o s \in Seq(FrameType) /\ Len(s) \in Nat
           /\ Len(<<f>> \o s) = Len(s) + 1 /\ (<<f>> \o s)[1] = f
           /\ \A i \in 1 .. Len(s) :
                  i + 1 \in 1 .. Len(<<f>> \o s) /\ (<<f>> \o s)[i + 1] = s[i]
           /\ \A i \in 1 .. Len(<<f>> \o s) :
                  i = 1 \/ (i - 1 \in 1 .. Len(s) /\ (<<f>> \o s)[i] = s[i - 1])
<1>1. <<f>> \in Seq(FrameType) /\ Len(<<f>>) = 1 /\ <<f>>[1] = f
    OBVIOUS
<1>2. /\ <<f>> \o s \in Seq(FrameType) /\ Len(<<f>> \o s) = Len(<<f>>) + Len(s)
      /\ \A i \in 1 .. Len(<<f>>) + Len(s) :
             (<<f>> \o s)[i] = IF i <= Len(<<f>>) THEN <<f>>[i] ELSE s[i - Len(<<f>>)]
    BY <1>1, ConcatProperties
<1>3. Len(s) \in Nat
    OBVIOUS
<1> QED
    BY <1>1, <1>2, <1>3

\* The calls below the one on top.
LEMMA TailIs ==
    ASSUME NEW s \in Seq(FrameType), s # <<>>
    PROVE  /\ Tail(s) \in Seq(FrameType) /\ Len(s) \in Nat /\ Len(s) > 0
           /\ Len(Tail(s)) = Len(s) - 1 /\ Head(s) = s[1] /\ s[1] \in FrameType
           /\ 1 \in 1 .. Len(s)
           /\ \A i \in 1 .. Len(Tail(s)) : i + 1 \in 2 .. Len(s) /\ Tail(s)[i] = s[i + 1]
           /\ \A i \in 1 .. Len(s) :
                  i = 1 \/ (i - 1 \in 1 .. Len(Tail(s)) /\ Tail(s)[i - 1] = s[i])
<1>1. /\ Tail(s) \in Seq(FrameType) /\ Len(s) \in Nat /\ Len(s) > 0
      /\ Len(Tail(s)) = Len(s) - 1 /\ Head(s) = s[1] /\ s[1] \in FrameType
      /\ \A i \in 1 .. Len(s) - 1 : Tail(s)[i] = s[i + 1]
    OBVIOUS
<1> QED
    BY <1>1

\* What a call needs to begin on top of the others.
LEMMA ShapedPush ==
    ASSUME NEW s \in Seq(FrameType), NEW f \in FrameType, Shaped(s),
           f.kind \in Deleting \cup {"callback"} => f.proxy \in Proxy,
           Len(s) > 0 => s[1].kind # "del",
           f.kind \in Calling => \A i \in 1 .. Len(s) : s[i].kind \notin Calling,
           f.kind \in Deleting =>
               \A i \in 1 .. Len(s) : s[i].kind \in Deleting => s[i].proxy # f.proxy,
           f.kind # "finalizer" /\ Len(s) > 0 => s[1].kind \in Calling \cup {"finalizer"}
    PROVE  Shaped(<<f>> \o s)
<1> DEFINE t == <<f>> \o s
<1>1. /\ Len(s) \in Nat /\ Len(t) = Len(s) + 1 /\ t[1] = f
      /\ \A i \in 1 .. Len(s) : t[i + 1] = s[i]
      /\ \A i \in 1 .. Len(t) : i = 1 \/ (i - 1 \in 1 .. Len(s) /\ t[i] = s[i - 1])
    BY PushIs
<1> HIDE DEF t
<1>2. \A i \in 1 .. Len(t) : t[i].kind \in Deleting \cup {"callback"} => t[i].proxy \in Proxy
    BY <1>1 DEF Shaped
<1>3. \A i \in 1 .. Len(t) : t[i].kind = "del" => i = 1
  <2> SUFFICES ASSUME NEW i \in 1 .. Len(t), t[i].kind = "del", i # 1
               PROVE  FALSE
      OBVIOUS
  <2>1. i - 1 \in 1 .. Len(s) /\ t[i] = s[i - 1]
      BY <1>1
  <2>2. i - 1 = 1 /\ Len(s) > 0
      BY <2>1 DEF Shaped
  <2> QED
      BY <2>1, <2>2
<1>4. ASSUME NEW i \in 1 .. Len(t), NEW j \in 1 .. Len(t),
             t[i].kind \in Calling, t[j].kind \in Calling
      PROVE  i = j
  <2>1. CASE i = 1 \/ j = 1
      BY <2>1, <1>1, <1>4
  <2>2. CASE i # 1 /\ j # 1
    <3>1. /\ i - 1 \in 1 .. Len(s) /\ t[i] = s[i - 1]
          /\ j - 1 \in 1 .. Len(s) /\ t[j] = s[j - 1]
        BY <2>2, <1>1
    <3>2. i - 1 = j - 1
        BY <3>1, <1>4 DEF Shaped
    <3> QED
        BY <3>2
  <2> QED
      BY <2>1, <2>2
<1>5. ASSUME NEW i \in 1 .. Len(t), NEW j \in 1 .. Len(t),
             t[i].kind \in Deleting, t[j].kind \in Deleting, t[i].proxy = t[j].proxy
      PROVE  i = j
  <2>1. CASE i = 1 \/ j = 1
      BY <2>1, <1>1, <1>5
  <2>2. CASE i # 1 /\ j # 1
    <3>1. /\ i - 1 \in 1 .. Len(s) /\ t[i] = s[i - 1]
          /\ j - 1 \in 1 .. Len(s) /\ t[j] = s[j - 1]
        BY <2>2, <1>1
    <3>2. i - 1 = j - 1
        BY <3>1, <1>5 DEF Shaped
    <3> QED
        BY <3>2
  <2> QED
      BY <2>1, <2>2
<1>6. ASSUME NEW i \in 1 .. Len(t) - 1, t[i].kind # "finalizer"
      PROVE  t[i + 1].kind \in Calling \cup {"finalizer"}
  <2>1. t[i + 1] = s[i] /\ i \in 1 .. Len(s) /\ i \in 1 .. Len(t)
      BY <1>1
  <2>2. CASE i = 1
      BY <2>1, <2>2, <1>1, <1>6
  <2>3. CASE i # 1
    <3>1. t[i] = s[i - 1] /\ i - 1 \in 1 .. Len(s) - 1 /\ s[i - 1 + 1] = s[i]
        BY <2>1, <2>3, <1>1
    <3> QED
        BY <2>1, <3>1, <1>6 DEF Shaped
  <2> QED
      BY <2>2, <2>3
<1>7. Shaped(t)
    BY <1>2, <1>3, <1>4, <1>5, <1>6 DEF Shaped
<1> QED
    BY <1>7 DEF t

\* What is left when the call on top ends.
LEMMA ShapedTail ==
    ASSUME NEW s \in Seq(FrameType), s # <<>>, Shaped(s)
    PROVE  /\ Shaped(Tail(s))
           /\ \A i \in 1 .. Len(Tail(s)) : Tail(s)[i].kind # "del"
           /\ s[1].kind # "finalizer" /\ Len(Tail(s)) > 0 =>
                  Tail(s)[1].kind \in Calling \cup {"finalizer"}
           /\ s[1].kind \in Calling =>
                  \A i \in 1 .. Len(Tail(s)) : Tail(s)[i].kind \notin Calling
           /\ s[1].kind \in Deleting =>
                  \A i \in 1 .. Len(Tail(s)) :
                      Tail(s)[i].kind \in Deleting => Tail(s)[i].proxy # s[1].proxy
<1> DEFINE t == Tail(s)
<1>1. /\ Len(s) \in Nat /\ Len(s) > 0 /\ Len(t) = Len(s) - 1 /\ 1 \in 1 .. Len(s)
      /\ \A i \in 1 .. Len(t) : i + 1 \in 2 .. Len(s) /\ t[i] = s[i + 1]
    BY TailIs
<1> HIDE DEF t
<1>2. \A i \in 1 .. Len(t) : i + 1 \in 1 .. Len(s) /\ i + 1 # 1 /\ t[i] = s[i + 1]
    BY <1>1
<1>3. \A i \in 1 .. Len(t) : t[i].kind \in Deleting \cup {"callback"} => t[i].proxy \in Proxy
    BY <1>2 DEF Shaped
<1>4. \A i \in 1 .. Len(t) : t[i].kind # "del"
    BY <1>2 DEF Shaped
<1>5. ASSUME NEW i \in 1 .. Len(t), NEW j \in 1 .. Len(t),
             \/ t[i].kind \in Calling /\ t[j].kind \in Calling
             \/ t[i].kind \in Deleting /\ t[j].kind \in Deleting /\ t[i].proxy = t[j].proxy
      PROVE  i = j
  <2>1. i + 1 = j + 1
      BY <1>2, <1>5 DEF Shaped
  <2> QED
      BY <2>1
<1>6. ASSUME NEW i \in 1 .. Len(t) - 1, t[i].kind # "finalizer"
      PROVE  t[i + 1].kind \in Calling \cup {"finalizer"}
  <2>1. /\ i + 1 \in 1 .. Len(s) - 1 /\ t[i] = s[i + 1]
        /\ t[i + 1] = s[i + 1 + 1]
      BY <1>1
  <2> QED
      BY <2>1, <1>6 DEF Shaped
<1>7. Shaped(t)
    BY <1>3, <1>4, <1>5, <1>6 DEF Shaped
<1>8. s[1].kind # "finalizer" /\ Len(t) > 0 => t[1].kind \in Calling \cup {"finalizer"}
  <2>1. Len(t) > 0 => 1 \in 1 .. Len(s) - 1 /\ t[1] = s[1 + 1]
      BY <1>1
  <2> QED
      BY <2>1 DEF Shaped
<1>9. \A i \in 1 .. Len(t) :
          /\ s[1].kind \in Calling => t[i].kind \notin Calling
          /\ s[1].kind \in Deleting /\ t[i].kind \in Deleting => t[i].proxy # s[1].proxy
    BY <1>1, <1>2, SMTT(30) DEF Shaped
<1> QED
    BY <1>4, <1>7, <1>8, <1>9 DEF t

(***************************************************************************)
(* yp_decref.                                                              *)
(***************************************************************************)
\* One reference of several is given up.
LEMMA Lowered ==
    ASSUME NEW h, NEW hk, NEW px, NEW ca, NEW hd, NEW ar, NEW st, NEW a \in Addr,
           State(h, hk, px, ca, hd, ar, st, {a}), h[a].refs > 1
    PROVE  State([h EXCEPT ![a].refs = @ - 1], hk, px, ca, hd, ar, st, {})
<1> DEFINE h2 == [h EXCEPT ![a].refs = @ - 1]
<1>1. Typed(h, hk, px, ca, hd, ar, st) /\ Owned(h, {a}, px, ca, ar, st)
    BY DEF State
<1>2. /\ h2 \in [Addr -> [kind : {"free", "value", "callback"}, refs : Nat, stored : Nat]]
      /\ h2[a].refs = h[a].refs - 1 /\ h2[a].stored = h[a].stored /\ h2[a].kind = h[a].kind
      /\ \A b \in Addr : b # a => h2[b] = h[b]
  <2>1. /\ h[a] \in [kind : {"free", "value", "callback"}, refs : Nat, stored : Nat]
        /\ h[a].refs - 1 \in Nat
      BY <1>1 DEF Typed
  <2>2. /\ [h[a] EXCEPT !.refs = @ - 1] \in
               [kind : {"free", "value", "callback"}, refs : Nat, stored : Nat]
        /\ [h[a] EXCEPT !.refs = @ - 1].refs = h[a].refs - 1
        /\ [h[a] EXCEPT !.refs = @ - 1].stored = h[a].stored
        /\ [h[a] EXCEPT !.refs = @ - 1].kind = h[a].kind
      BY <2>1
  <2>3. h2 = [h EXCEPT ![a] = [h[a] EXCEPT !.refs = @ - 1]]
      OBVIOUS
  <2> QED
      BY <2>2, <2>3, <1>1 DEF Typed
<1> HIDE DEF h2
<1>3. Typed(h2, hk, px, ca, hd, ar, st)
    BY <1>1, <1>2 DEF Typed
<1>4. h[a].kind # "free"
    BY <1>1 DEF Owned
<1>5. \A b \in Addr : Gone(h, {a}, b) => Gone(h2, {}, b)
    BY <1>2, <1>4 DEF Gone
<1>6. Reliable(h2, {}, px, hd, st)
  <2>1. \A p \in Proxy : px[p].state # "none" => px[p].key \in Addr
      BY DEF State, Keyed
  <2>2. \A p \in Proxy : px[p].state # "none" /\ Bereft(h, {a}, px, p) => Bereft(h2, {}, px, p)
      BY <1>5, <2>1 DEF Bereft
  <2>3. \A i \in 1 .. Len(st) : st[i].kind = "clear" => st[i].proxy \in Proxy
      BY DEF State, Shaped, Deleting
  <2> QED
      BY <2>2, <2>3 DEF State, Reliable
<1>7. Owned(h2, {}, px, ca, ar, st)
  <2> SUFFICES ASSUME NEW b \in Addr
               PROVE  /\ h2[b].refs = h2[b].stored + One(ByProxy(px, ca, st, b))
                              + One(ByOutput(px, ca, b)) + One(ByCall(ar, st, b)) + One(b \in {})
                      /\ h2[b].kind = "free" <=> h2[b].refs = 0
      BY DEF Owned
  <2>1. /\ h[b].refs = h[b].stored + One(ByProxy(px, ca, st, b))
                       + One(ByOutput(px, ca, b)) + One(ByCall(ar, st, b)) + One(b \in {a})
        /\ h[b].kind = "free" <=> h[b].refs = 0
      BY <1>1 DEF Owned
  <2>2. h[b].refs \in Nat /\ h[b].stored \in Nat
      BY <1>1 DEF Typed
  <2> QED
      BY <2>1, <2>2, <1>2, <1>4 DEF One
<1> QED
    BY <1>3, <1>6, <1>7 DEF State, h2

\* The last owner gives the object up.
LEMMA Freed ==
    ASSUME NEW h, NEW hk, NEW px, NEW ca, NEW hd, NEW ar, NEW st, NEW a \in Addr,
           State(h, hk, px, ca, hd, ar, st, {a}), ~(h[a].refs > 1)
    PROVE  /\ State([h EXCEPT ![a] = Free], hk \ {a}, px, ca, hd, ar, st, {})
           /\ ~ByProxy(px, ca, st, a) /\ ~ByOutput(px, ca, a) /\ ~ByCall(ar, st, a)
<1> DEFINE h2 == [h EXCEPT ![a] = Free]
<1>1. Typed(h, hk, px, ca, hd, ar, st) /\ Owned(h, {a}, px, ca, ar, st)
    BY DEF State
<1>2. /\ h2 \in [Addr -> [kind : {"free", "value", "callback"}, refs : Nat, stored : Nat]]
      /\ h2[a].refs = 0 /\ h2[a].stored = 0 /\ h2[a].kind = "free"
      /\ \A b \in Addr : b # a => h2[b] = h[b]
    BY <1>1 DEF Typed, Free
<1> HIDE DEF h2
<1>3. Typed(h2, hk \ {a}, px, ca, hd, ar, st)
    BY <1>1, <1>2 DEF Typed
<1>4. h[a].refs = 1 /\ h[a].stored = 0
      /\ ~ByProxy(px, ca, st, a) /\ ~ByOutput(px, ca, a) /\ ~ByCall(ar, st, a)
  <2>1. h[a].refs = h[a].stored + One(ByProxy(px, ca, st, a))
                    + One(ByOutput(px, ca, a)) + One(ByCall(ar, st, a)) + 1
      BY <1>1 DEF Owned, One
  <2>2. h[a].refs \in Nat /\ h[a].stored \in Nat
      BY <1>1 DEF Typed
  <2> QED
      BY <2>1, <2>2 DEF One
<1>5. \A b \in Addr : Gone(h, {a}, b) => Gone(h2, {}, b)
    BY <1>2 DEF Gone
<1>6. Reliable(h2, {}, px, hd, st)
  <2>1. \A p \in Proxy : px[p].state # "none" => px[p].key \in Addr
      BY DEF State, Keyed
  <2>2. \A p \in Proxy : px[p].state # "none" /\ Bereft(h, {a}, px, p) => Bereft(h2, {}, px, p)
      BY <1>5, <2>1 DEF Bereft
  <2>3. \A i \in 1 .. Len(st) : st[i].kind = "clear" => st[i].proxy \in Proxy
      BY DEF State, Shaped, Deleting
  <2> QED
      BY <2>2, <2>3 DEF State, Reliable
<1>7. Owned(h2, {}, px, ca, ar, st)
  <2> SUFFICES ASSUME NEW b \in Addr
               PROVE  /\ h2[b].refs = h2[b].stored + One(ByProxy(px, ca, st, b))
                              + One(ByOutput(px, ca, b)) + One(ByCall(ar, st, b)) + One(b \in {})
                      /\ h2[b].kind = "free" <=> h2[b].refs = 0
      BY DEF Owned
  <2>1. CASE b = a
      BY <2>1, <1>2, <1>4 DEF One
  <2>2. CASE b # a
    <3>1. /\ h[b].refs = h[b].stored + One(ByProxy(px, ca, st, b))
                         + One(ByOutput(px, ca, b)) + One(ByCall(ar, st, b)) + One(b \in {a})
          /\ h[b].kind = "free" <=> h[b].refs = 0
        BY <1>1 DEF Owned
    <3>2. One(b \in {a}) = One(b \in {}) /\ h2[b] = h[b]
        BY <2>2, <1>2 DEF One
    <3> QED
        BY <3>1, <3>2
  <2> QED
      BY <2>1, <2>2
<1> QED
    BY <1>3, <1>4, <1>6, <1>7 DEF State, h2

\* The finalizer of a freed object's callback runs, or a callback will be
\* registered.
LEMMA Pushed ==
    ASSUME NEW h, NEW hk, NEW px, NEW ca, NEW hd, NEW ar, NEW st, NEW S,
           State(h, hk, px, ca, hd, ar, st, S),
           NEW f \in FrameType, f.kind \in {"finalizer", "register"},
           f.kind = "register" /\ Len(st) > 0 => st[1].kind \in Calling \cup {"finalizer"},
           Len(st) > 0 => /\ st[1].kind # "del"
                          /\ st[1].kind = "clear" => Bereft(h, S, px, st[1].proxy)
    PROVE  State(h, hk, px, ca, hd, ar, <<f>> \o st, S)
<1> DEFINE t == <<f>> \o st
<1>1. /\ Typed(h, hk, px, ca, hd, ar, st) /\ Keyed(px, ca) /\ Shaped(st)
      /\ Reliable(h, S, px, hd, st) /\ Passed(px, ar, st) /\ Owned(h, S, px, ca, ar, st)
      /\ st \in Seq(FrameType)
    BY DEF State, Typed
<1>2. f \in FrameType /\ f.kind \notin Calling \cup Deleting
    BY DEF Calling, Deleting
<1>3. /\ t \in Seq(FrameType) /\ Len(st) \in Nat /\ Len(t) = Len(st) + 1 /\ t[1] = f
      /\ \A i \in 1 .. Len(st) : i + 1 \in 1 .. Len(t) /\ t[i + 1] = st[i]
      /\ \A i \in 1 .. Len(t) : i = 1 \/ (i - 1 \in 1 .. Len(st) /\ t[i] = st[i - 1])
    BY <1>1, <1>2, PushIs
<1>4. \A i \in 1 .. Len(t) : t[i] = f \/ (i - 1 \in 1 .. Len(st) /\ t[i] = st[i - 1])
    BY <1>3
<1>5. \A i \in 1 .. Len(st) : i + 1 \in 1 .. Len(t) /\ t[i + 1] = st[i]
    BY <1>3
<1>6. Shaped(t)
    BY <1>1, <1>2, ShapedPush DEF Deleting, Calling
<1> HIDE DEF t
<1>7. Reliable(h, S, px, hd, t)
  <2>1. ASSUME NEW i \in 1 .. Len(t)
        PROVE  LET p == t[i].proxy IN
               /\ t[i].kind = "callback" => px[p].state = "live"
               /\ t[i].kind # "del"
               /\ t[i].kind = "clear" => /\ px[p].state \in {"dying", "finalized"}
                                         /\ Bereft(h, S, px, p)
    <3>1. CASE t[i] = f
        BY <3>1, <1>2
    <3>2. CASE i - 1 \in 1 .. Len(st) /\ t[i] = st[i - 1]
      <4>1. i - 1 = 1 => Len(st) > 0
          BY <3>2, <1>3
      <4> QED
          BY <3>2, <4>1, <1>1 DEF Reliable, Shaped
    <3> QED
        BY <3>1, <3>2, <1>4
  <2>2. \A p \in Proxy : px[p].state = "dying" =>
            \E i \in 1 .. Len(t) : t[i].kind \in Deleting /\ t[i].proxy = p
      BY <1>1, <1>5, SMTT(30) DEF Reliable
  <2> QED
      BY <2>1, <2>2, <1>1 DEF Reliable
<1>8. Passed(px, ar, t)
  <2> SUFFICES ASSUME NEW p \in Proxy, px[p].state # "none", px[p].cell = "argument"
               PROVE  /\ px[p].key = ar
                      /\ \E i \in 1 .. Len(t) : t[i].kind = "callback" /\ t[i].proxy = p
      BY DEF Passed
  <2>1. ~(Len(st) >= 2 /\ st[1].kind \in Deleting /\ st[1].proxy = p)
      BY <1>3 DEF Deleting, Bereft
  <2>2. /\ px[p].key = ar
        /\ \E i \in 1 .. Len(st) : st[i].kind = "callback" /\ st[i].proxy = p
      BY <2>1, <1>1 DEF Passed
  <2> QED
      BY <2>2, <1>5
<1>9. Owned(h, S, px, ca, ar, t)
  <2>1. \A p : OwnedBy(px, t, p) <=> OwnedBy(px, st, p)
      BY <1>2, <1>3 DEF OwnedBy
  <2>2. \A a \in Addr : ByProxy(px, ca, t, a) <=> ByProxy(px, ca, st, a)
      BY <2>1 DEF ByProxy
  <2>3. \A a \in Addr : ByCall(ar, t, a) <=> ByCall(ar, st, a)
      BY <1>2, <1>4, <1>5 DEF ByCall, Calling
  <2> QED
      BY <2>2, <2>3, <1>1 DEF Owned, One
<1>10. Typed(h, hk, px, ca, hd, ar, t)
    BY <1>1, <1>3 DEF Typed
<1>11. State(h, hk, px, ca, hd, ar, t, S)
    BY <1>1, <1>6, <1>7, <1>8, <1>9, <1>10 DEF State
<1> QED
    BY <1>11 DEF t

\* yp_decref, when the reference that is given up is owned by nobody any more.
LEMMA Dropped ==
    ASSUME NEW h, NEW a \in Addr, NEW fs, DecRef(h, a, fs),
           State(h, hooks, proxies', cache', held', argument', fs, {a}),
           Len(fs) > 0 => /\ fs[1].kind # "del"
                          /\ fs[1].kind = "clear" => proxies'[fs[1].proxy].key = a
    PROVE  State(heap', hooks', proxies', cache', held', argument', stack', {})
<1>1. CASE h[a].refs > 1
  <2>1. heap' = [h EXCEPT ![a].refs = @ - 1] /\ hooks' = hooks /\ stack' = fs
      BY <1>1 DEF DecRef
  <2> QED
      BY <1>1, <2>1, Lowered
<1>2. CASE ~(h[a].refs > 1)
  <2> DEFINE h2 == [h EXCEPT ![a] = Free]
             k2 == hooks \ {a}
             f  == Frame("finalizer", NoProxy)
  <2>1. heap' = h2 /\ hooks' = k2 /\ stack' = IF a \in hooks THEN <<f>> \o fs ELSE fs
      BY <1>2 DEF DecRef, WithoutCallbacks
  <2>2. /\ State(h2, k2, proxies', cache', held', argument', fs, {})
        /\ ~ByOutput(proxies', cache', a) /\ ~ByCall(argument', fs, a)
      BY <1>2, Freed
  <2>3. h2[a].kind = "free"
      BY DEF State, Typed, Free
  <2> HIDE DEF h2, k2
  <2>4. ASSUME Len(fs) > 0, fs[1].kind = "clear"
        PROVE  Bereft(h2, {}, proxies', fs[1].proxy)
    <3> DEFINE p == fs[1].proxy
    <3>1. Len(fs) \in Nat /\ 1 \in 1 .. Len(fs) /\ (Len(fs) >= 2 => 2 \in 1 .. Len(fs))
        BY <2>4, <2>2 DEF State, Typed
    <3>2. /\ p \in Proxy /\ proxies'[p].state # "none" /\ proxies'[p].key = a
          /\ cache'[a] = p /\ cache'[a] # NoProxy
        BY <2>2, <2>4, <3>1, ProxiesAssumption
        DEF State, Shaped, Reliable, Keyed, Deleting
    <3>3. proxies'[p].cell # "output"
        BY <2>2, <3>2 DEF ByOutput
    <3>4. proxies'[p].cell # "argument"
      <4> SUFFICES ASSUME proxies'[p].cell = "argument"
                   PROVE  FALSE
          OBVIOUS
      <4>1. /\ argument' = a
            /\ \/ \E i \in 1 .. Len(fs) : fs[i].kind = "callback"
               \/ Len(fs) >= 2 /\ fs[2].kind = "return"
          BY <2>2, <3>2 DEF State, Passed
      <4> QED
          BY <4>1, <2>2, <3>1 DEF ByCall, Calling
    <3>5. proxies'[p].cell = "own"
        BY <2>2, <3>2, <3>3, <3>4 DEF State, Typed
    <3> QED
        BY <2>3, <3>2, <3>5 DEF Bereft, Gone
  <2>5. a \in hooks => State(h2, k2, proxies', cache', held', argument', <<f>> \o fs, {})
    <3>1. f \in FrameType /\ f.kind = "finalizer"
        BY DEF Frame, FrameType
    <3> HIDE DEF f
    <3> QED
        BY <3>1, <2>2, <2>4, Pushed
  <2> QED
      BY <2>1, <2>2, <2>5
<1> QED
    BY <1>1, <1>2

(***************************************************************************)
(* What calls do to the heap and the proxies.                              *)
(***************************************************************************)
Record == [kind : {"free", "value", "callback"}, refs : Nat, stored : Nat]

\* An object is made, or counts a reference more than it has owners.
LEMMA Owing ==
    ASSUME NEW h, NEW hk, NEW px, NEW ca, NEW hd, NEW ar, NEW st,
           State(h, hk, px, ca, hd, ar, st, {}), NEW a \in Addr, NEW v \in Record, NEW hk2,
           v.kind # "free", v.refs = h[a].refs - h[a].stored + v.stored + 1,
           h[a].kind = "free" => v.refs = 1, hk2 \subseteq Addr
    PROVE  State([h EXCEPT ![a] = v], hk2, px, ca, hd, ar, st, {a})
<1> DEFINE h2 == [h EXCEPT ![a] = v]
<1>1. Typed(h, hk, px, ca, hd, ar, st) /\ Owned(h, {}, px, ca, ar, st)
    BY DEF State
<1>2. /\ h2 \in [Addr -> Record] /\ h2[a] = v /\ \A b \in Addr : b # a => h2[b] = h[b]
    BY <1>1 DEF Typed, Record
<1> HIDE DEF h2
<1>3. Typed(h2, hk2, px, ca, hd, ar, st)
    BY <1>1, <1>2 DEF Typed, Record
<1>4. \A b \in Addr : Gone(h, {}, b) => Gone(h2, {a}, b)
    BY <1>2 DEF Gone
<1>5. Reliable(h2, {a}, px, hd, st)
  <2>1. \A p \in Proxy : px[p].state # "none" => px[p].key \in Addr
      BY DEF State, Keyed
  <2>2. \A p \in Proxy : px[p].state # "none" /\ Bereft(h, {}, px, p) => Bereft(h2, {a}, px, p)
      BY <1>4, <2>1 DEF Bereft
  <2>3. \A i \in 1 .. Len(st) : st[i].kind = "clear" => st[i].proxy \in Proxy
      BY DEF State, Shaped, Deleting
  <2> QED
      BY <2>2, <2>3 DEF State, Reliable
<1>6. Owned(h2, {a}, px, ca, ar, st)
  <2> SUFFICES ASSUME NEW b \in Addr
               PROVE  /\ h2[b].refs = h2[b].stored + One(ByProxy(px, ca, st, b))
                              + One(ByOutput(px, ca, b)) + One(ByCall(ar, st, b)) + One(b \in {a})
                      /\ h2[b].kind = "free" <=> h2[b].refs = 0
      BY DEF Owned
  <2>1. /\ h[b].refs = h[b].stored + One(ByProxy(px, ca, st, b))
                       + One(ByOutput(px, ca, b)) + One(ByCall(ar, st, b)) + One(b \in {})
        /\ h[b].kind = "free" <=> h[b].refs = 0
      BY <1>1 DEF Owned
  <2>2. CASE b = a
    <3>1. h[b].refs \in Nat /\ h[b].stored \in Nat /\ h2[b].refs \in Nat /\ h2[b].stored \in Nat
        BY <1>1, <1>2 DEF Typed, Record
    <3> QED
        BY <2>1, <2>2, <3>1, <1>2 DEF One
  <2>3. CASE b # a
    <3>1. One(b \in {a}) = One(b \in {}) /\ h2[b] = h[b]
        BY <2>3, <1>2 DEF One
    <3> QED
        BY <2>1, <3>1
  <2> QED
      BY <2>2, <2>3
<1> QED
    BY <1>3, <1>5, <1>6 DEF State, h2

\* A variable gets to refer to a proxy that exists.
LEMMA Holds ==
    ASSUME NEW h, NEW hk, NEW px, NEW ca, NEW hd, NEW ar, NEW st, NEW S,
           State(h, hk, px, ca, hd, ar, st, S), NEW q \in Proxy, px[q].state # "none",
           Len(st) > 0 => st[1].kind \notin Deleting
    PROVE  State(h, hk, px, ca, hd \cup {q}, ar, st, S)
<1>1. Reliable(h, S, px, hd \cup {q}, st)
  <2>1. Reliable(h, S, px, hd, st) /\ Shaped(st) /\ Len(st) \in Nat
      BY DEF State, Typed
  <2>2. \A i \in 1 .. Len(st) : st[i].kind # "del" /\ (st[i].kind = "clear" => i # 1)
      BY <2>1 DEF Shaped, Deleting
  <2> QED
      BY <2>1, <2>2 DEF Reliable
<1>2. Typed(h, hk, px, ca, hd \cup {q}, ar, st)
    BY DEF State, Typed
<1> QED
    BY <1>1, <1>2 DEF State

\* A variable no longer refers to a proxy.
LEMMA HoldsLess ==
    ASSUME NEW h, NEW hk, NEW px, NEW ca, NEW hd, NEW ar, NEW st, NEW S,
           State(h, hk, px, ca, hd, ar, st, S), NEW q
    PROVE  State(h, hk, px, ca, hd \ {q}, ar, st, S)
<1>1. Reliable(h, S, px, hd \ {q}, st)
    BY DEF State, Reliable
<1>2. Typed(h, hk, px, ca, hd \ {q}, ar, st)
    BY DEF State, Typed
<1> QED
    BY <1>1, <1>2 DEF State

\* All of State but what it says of arguments.
Core(h, hk, px, ca, hd, ar, st, S) ==
    /\ Typed(h, hk, px, ca, hd, ar, st)
    /\ Keyed(px, ca)
    /\ Shaped(st)
    /\ Reliable(h, S, px, hd, st)
    /\ Owned(h, S, px, ca, ar, st)

\* A new proxy gets the reference that nobody owned, and a second one unless
\* its cell is its own: for the output parameter, or for the call.
LEMMA Made ==
    ASSUME NEW h, NEW hk, NEW px, NEW ca, NEW hd, NEW ar, NEW st, NEW a \in Addr,
           State(h, hk, px, ca, hd, ar, st, {a}), ca[a] = NoProxy,
           NEW p \in Proxy, px[p].state = "none", NEW cell \in {"own", "output", "argument"},
           NEW h2, h2 = IF cell = "own" THEN h ELSE [h EXCEPT ![a].refs = @ + 1],
           NEW T, T = IF cell = "argument" THEN {a} ELSE {},
           NEW hd2 \in {hd, hd \cup {p}}
    PROVE  Core(h2, hk, [px EXCEPT ![p] = [state |-> "live", cell |-> cell, key |-> a]],
                [ca EXCEPT ![a] = p], hd2, ar, st, T)
<1> DEFINE px2 == [px EXCEPT ![p] = [state |-> "live", cell |-> cell, key |-> a]]
           ca2 == [ca EXCEPT ![a] = p]
<1>1. /\ Typed(h, hk, px, ca, hd, ar, st) /\ Keyed(px, ca) /\ Shaped(st)
      /\ Reliable(h, {a}, px, hd, st) /\ Owned(h, {a}, px, ca, ar, st)
    BY DEF State
<1>2. /\ px2 \in [Proxy -> [state : {"none", "live", "dying", "finalized"},
                            cell : {"own", "output", "argument"},
                            key : Addr \cup {NoProxy}]]
      /\ ca2 \in [Addr -> Proxy \cup {NoProxy}]
      /\ px2[p].state = "live" /\ px2[p].cell = cell /\ px2[p].key = a
      /\ \A q \in Proxy : q # p => px2[q] = px[q]
      /\ ca2[a] = p /\ \A b \in Addr : b # a => ca2[b] = ca[b]
    BY <1>1 DEF Typed
<1>3. /\ h2 \in [Addr -> Record] /\ h2[a].stored = h[a].stored /\ h2[a].kind = h[a].kind
      /\ h2[a].refs = h[a].refs + (IF cell = "own" THEN 0 ELSE 1)
      /\ h[a] \in Record /\ \A b \in Addr : b # a => h2[b] = h[b]
  <2>1. h[a] \in Record /\ h[a].refs + 1 \in Nat
      BY <1>1 DEF Typed, Record
  <2>2. /\ [h[a] EXCEPT !.refs = @ + 1] \in Record
        /\ [h[a] EXCEPT !.refs = @ + 1].refs = h[a].refs + 1
        /\ [h[a] EXCEPT !.refs = @ + 1].stored = h[a].stored
        /\ [h[a] EXCEPT !.refs = @ + 1].kind = h[a].kind
      BY <2>1 DEF Record
  <2>3. h2 = IF cell = "own" THEN h ELSE [h EXCEPT ![a] = [h[a] EXCEPT !.refs = @ + 1]]
      OBVIOUS
  <2>4. h \in [Addr -> Record]
      BY <1>1 DEF Typed, Record
  <2>5. h[a].refs + 0 = h[a].refs
      BY <2>1 DEF Record
  <2>6. CASE cell = "own"
      BY <2>1, <2>3, <2>4, <2>5, <2>6
  <2>7. CASE cell # "own"
      BY <2>1, <2>2, <2>3, <2>4, <2>7
  <2> QED
      BY <2>6, <2>7
<1> HIDE DEF px2, ca2
<1>4. Typed(h2, hk, px2, ca2, hd2, ar, st)
    BY <1>1, <1>2, <1>3 DEF Typed, Record
<1>5. p # NoProxy /\ \A b \in Addr : ca[b] # p
    BY <1>1, ProxiesAssumption DEF Keyed
<1>6. Keyed(px2, ca2)
  <2>1. \A b \in Addr : b # a /\ ca2[b] # NoProxy => ca2[b] \in Proxy /\ ca2[b] # p
      BY <1>1, <1>2, <1>5 DEF Typed
  <2>2. \A b \in Addr : ca2[b] # NoProxy =>
            px2[ca2[b]].state # "none" /\ px2[ca2[b]].key = b
      BY <2>1, <1>1, <1>2 DEF Keyed
  <2>3. ASSUME NEW q \in Proxy, px2[q].state # "none"
        PROVE  px2[q].key \in Addr /\ ca2[px2[q].key] = q
    <3>1. CASE q = p
        BY <3>1, <1>2
    <3>2. CASE q # p
      <4>1. px[q].key \in Addr /\ ca[px[q].key] = q /\ px2[q] = px[q]
          BY <2>3, <3>2, <1>1, <1>2 DEF Keyed
      <4>2. px[q].key # a
          BY <4>1, ProxiesAssumption
      <4> QED
          BY <4>1, <4>2, <1>2
    <3> QED
        BY <3>1, <3>2
  <2> QED
      BY <2>2, <2>3 DEF Keyed
<1>7. \A q \in Proxy : q # p /\ px[q].state # "none" => px[q].key \in Addr /\ px[q].key # a
    BY <1>1, ProxiesAssumption DEF Keyed
<1>8. \A b \in Addr : b # a /\ Gone(h, {a}, b) => Gone(h2, T, b)
    BY <1>3 DEF Gone
<1>9. \A q \in Proxy : q # p /\ px[q].state # "none" /\ Bereft(h, {a}, px, q) =>
          Bereft(h2, T, px2, q)
    BY <1>2, <1>7, <1>8 DEF Bereft
<1>10. \A i \in 1 .. Len(st) : st[i].kind \in Deleting \cup {"callback"} =>
           st[i].proxy \in Proxy /\ st[i].proxy # p
    BY <1>1 DEF Shaped, Reliable, Deleting
<1>11. Reliable(h2, T, px2, hd2, st)
  <2>1. \A q \in hd2 : px2[q].state # "none"
    <3>1. \A q \in hd : q \in Proxy /\ px[q].state # "none"
        BY <1>1 DEF Typed, Reliable
    <3>2. \A q \in hd2 : q \in hd \/ q = p
        OBVIOUS
    <3> QED
        BY <3>1, <3>2, <1>2
  <2>2. ASSUME NEW i \in 1 .. Len(st)
        PROVE  LET q == st[i].proxy IN
               /\ st[i].kind = "callback" => px2[q].state = "live"
               /\ st[i].kind = "del" => px2[q].state = "dying" /\ q \notin hd2
               /\ st[i].kind = "clear" => /\ px2[q].state \in {"dying", "finalized"}
                                          /\ (i = 1 /\ q \notin hd2) \/ Bereft(h2, T, px2, q)
    <3>1. st[i].kind \in Deleting \cup {"callback"} =>
              /\ px2[st[i].proxy] = px[st[i].proxy] /\ st[i].proxy # p
              /\ st[i].proxy \in Proxy
        BY <1>2, <1>10
    <3>2. st[i].proxy # p /\ st[i].proxy \notin hd => st[i].proxy \notin hd2
        OBVIOUS
    <3>3. st[i].kind = "callback" => px2[st[i].proxy].state = "live"
        BY <3>1, <1>1 DEF Reliable
    <3>4. st[i].kind = "del" => px2[st[i].proxy].state = "dying" /\ st[i].proxy \notin hd2
        BY <3>1, <3>2, <1>1 DEF Reliable, Deleting
    <3>5. st[i].kind = "clear" => px2[st[i].proxy].state \in {"dying", "finalized"}
        BY <3>1, <1>1 DEF Reliable, Deleting
    <3>6. st[i].kind = "clear" =>
              (i = 1 /\ st[i].proxy \notin hd2) \/ Bereft(h2, T, px2, st[i].proxy)
      <4> SUFFICES ASSUME st[i].kind = "clear", ~(i = 1 /\ st[i].proxy \notin hd)
                   PROVE  Bereft(h2, T, px2, st[i].proxy)
          BY <3>1, <3>2 DEF Deleting
      <4>1. Bereft(h, {a}, px, st[i].proxy) /\ px[st[i].proxy].state # "none"
          BY <1>1 DEF Reliable
      <4> QED
          BY <4>1, <3>1, <1>9 DEF Deleting
    <3> QED
        BY <3>3, <3>4, <3>5, <3>6
  <2>3. \A q \in Proxy : px2[q].state = "dying" =>
            \E i \in 1 .. Len(st) : st[i].kind \in Deleting /\ st[i].proxy = q
      BY <1>1, <1>2 DEF Reliable
  <2>4. \A q \in Proxy : px2[q].state = "finalized" => Bereft(h2, T, px2, q)
      BY <1>1, <1>2, <1>9 DEF Reliable
  <2> QED
      BY <2>1, <2>2, <2>3, <2>4 DEF Reliable
<1>12. Owned(h2, T, px2, ca2, ar, st)
  <2> SUFFICES ASSUME NEW b \in Addr
               PROVE  /\ h2[b].refs = h2[b].stored + One(ByProxy(px2, ca2, st, b))
                              + One(ByOutput(px2, ca2, b)) + One(ByCall(ar, st, b)) + One(b \in T)
                      /\ h2[b].kind = "free" <=> h2[b].refs = 0
      BY DEF Owned
  <2>1. /\ h[b].refs = h[b].stored + One(ByProxy(px, ca, st, b))
                       + One(ByOutput(px, ca, b)) + One(ByCall(ar, st, b)) + One(b \in {a})
        /\ h[b].kind = "free" <=> h[b].refs = 0
      BY <1>1 DEF Owned
  <2>2. CASE b = a
    <3>1. ~ByProxy(px, ca, st, b) /\ ~ByOutput(px, ca, b)
        BY <2>2 DEF ByProxy, ByOutput
    <3>2. ByProxy(px2, ca2, st, b) /\ (ByOutput(px2, ca2, b) <=> cell = "output")
        BY <2>2, <1>2, <1>5 DEF ByProxy, ByOutput, OwnedBy
    <3>3. h[b].refs \in Nat /\ h[b].stored \in Nat
        BY <1>3, <2>2 DEF Record
    <3>4. h[b].refs = h[b].stored + One(ByCall(ar, st, b)) + 1
        BY <2>1, <2>2, <3>1, <3>3 DEF One
    <3>5. One(b \in T) = IF cell = "argument" THEN 1 ELSE 0
        BY <2>2 DEF One
    <3>6. One(ByProxy(px2, ca2, st, b)) = 1
          /\ One(ByOutput(px2, ca2, b)) = IF cell = "output" THEN 1 ELSE 0
        BY <3>2 DEF One
    <3>7. One(ByCall(ar, st, b)) \in Nat
        BY DEF One
    <3> QED
        BY <2>1, <2>2, <3>3, <3>4, <3>5, <3>6, <3>7, <1>3
  <2>3. CASE b # a
    <3>1. One(b \in {a}) = One(b \in T) /\ h2[b] = h[b] /\ ca2[b] = ca[b]
        BY <2>3, <1>2, <1>3 DEF One
    <3>2. ca[b] # NoProxy => px2[ca[b]] = px[ca[b]]
        BY <1>1, <1>2, <1>5 DEF Typed
    <3>3. /\ ByProxy(px2, ca2, st, b) <=> ByProxy(px, ca, st, b)
          /\ ByOutput(px2, ca2, b) <=> ByOutput(px, ca, b)
        BY <3>1, <3>2 DEF ByProxy, ByOutput, OwnedBy
    <3> QED
        BY <2>1, <3>1, <3>3 DEF One
  <2> QED
      BY <2>2, <2>3
<1> QED
    BY <1>1, <1>4, <1>6, <1>11, <1>12 DEF Core, px2, ca2

\* The proxy is not an argument's: the rest of the invariant.
LEMMA MadeWhole ==
    ASSUME NEW h, NEW hk, NEW px, NEW ca, NEW hd, NEW ar, NEW st, NEW a \in Addr,
           State(h, hk, px, ca, hd, ar, st, {a}), ca[a] = NoProxy,
           NEW p \in Proxy, px[p].state = "none", NEW cell \in {"own", "output"},
           NEW h2, h2 = IF cell = "own" THEN h ELSE [h EXCEPT ![a].refs = @ + 1]
    PROVE  State(h2, hk, [px EXCEPT ![p] = [state |-> "live", cell |-> cell, key |-> a]],
                 [ca EXCEPT ![a] = p], hd \cup {p}, ar, st, {})
<1> DEFINE px2 == [px EXCEPT ![p] = [state |-> "live", cell |-> cell, key |-> a]]
<1>1. Core(h2, hk, px2, [ca EXCEPT ![a] = p], hd \cup {p}, ar, st, {})
  <2>1. {} = IF cell = "argument" THEN {a} ELSE {}
      OBVIOUS
  <2> QED
      BY <2>1, Made
<1>2. Passed(px2, ar, st)
  <2>1. px2[p].cell = cell /\ \A q \in Proxy : q # p => px2[q] = px[q]
      BY DEF State, Typed
  <2> HIDE DEF px2
  <2> QED
      BY <2>1 DEF State, Passed
<1> QED
    BY <1>1, <1>2 DEF Core, State

\* nohtyP calls a Python function with the object at a.
LEMMA Called ==
    ASSUME NEW h, NEW hk, NEW px, NEW ca, NEW hd, NEW ar, NEW st, NEW a \in Addr,
           Core(h, hk, px, ca, hd, ar, st, {a}), h[a].refs > 1,
           NEW p \in Proxy, px[p].state = "live",
           \A i \in 1 .. Len(st) : st[i].kind \notin Calling,
           Len(st) > 0 => st[1].kind = "finalizer",
           \A q \in Proxy : px[q].state # "none" /\ px[q].cell = "argument" =>
               q = p /\ px[q].key = a
    PROVE  State(h, hk, px, ca, hd, a, <<Frame("callback", p)>> \o st, {})
<1> DEFINE f == Frame("callback", p)
           t == <<f>> \o st
<1>1. /\ Typed(h, hk, px, ca, hd, ar, st) /\ Keyed(px, ca) /\ Shaped(st)
      /\ Reliable(h, {a}, px, hd, st) /\ Owned(h, {a}, px, ca, ar, st)
      /\ st \in Seq(FrameType)
    BY DEF Core, Typed
<1>2. f \in FrameType /\ f.kind = "callback" /\ f.proxy = p
    BY DEF Frame, FrameType, Calling
<1> HIDE DEF f
<1>3. /\ t \in Seq(FrameType) /\ Len(st) \in Nat /\ Len(t) = Len(st) + 1 /\ t[1] = f
      /\ \A i \in 1 .. Len(st) : i + 1 \in 1 .. Len(t) /\ t[i + 1] = st[i]
      /\ \A i \in 1 .. Len(t) : i = 1 \/ (i - 1 \in 1 .. Len(st) /\ t[i] = st[i - 1])
    BY <1>1, <1>2, PushIs
<1>4. Shaped(t)
    BY <1>1, <1>2, ShapedPush DEF Deleting, Calling
<1> HIDE DEF t
<1>5. \A q : Bereft(h, {a}, px, q) => Bereft(h, {}, px, q)
    BY DEF Bereft, Gone
<1>6. Reliable(h, {}, px, hd, t)
  <2>1. ASSUME NEW i \in 1 .. Len(t)
        PROVE  LET q == t[i].proxy IN
               /\ t[i].kind = "callback" => px[q].state = "live"
               /\ t[i].kind # "del"
               /\ t[i].kind = "clear" => /\ px[q].state \in {"dying", "finalized"}
                                         /\ Bereft(h, {}, px, q)
    <3>1. CASE i = 1
        BY <3>1, <1>2, <1>3
    <3>2. CASE i - 1 \in 1 .. Len(st) /\ t[i] = st[i - 1]
      <4>1. i - 1 = 1 => st[i - 1].kind = "finalizer"
          BY <3>2, <1>3
      <4>2. t[i].kind # "callback" /\ t[i].kind # "del"
          BY <3>2, <4>1, <1>1 DEF Calling, Shaped
      <4> QED
          BY <3>2, <4>1, <4>2, <1>1, <1>5, ZenonT(60) DEF Reliable
    <3> QED
        BY <3>1, <3>2, <1>3
  <2>2. \A q \in Proxy : px[q].state = "dying" =>
            \E i \in 1 .. Len(t) : t[i].kind \in Deleting /\ t[i].proxy = q
      BY <1>1, <1>3 DEF Reliable
  <2> QED
      BY <2>1, <2>2, <1>1, <1>5 DEF Reliable
<1>7. Passed(px, a, t)
  <2>1. 1 \in 1 .. Len(t)
      BY <1>3
  <2> QED
      BY <2>1, <1>2, <1>3 DEF Passed
<1>8. Owned(h, {}, px, ca, a, t)
  <2>1. \A q : OwnedBy(px, t, q) <=> OwnedBy(px, st, q)
      BY <1>2, <1>3 DEF OwnedBy
  <2>2. \A b \in Addr : ByProxy(px, ca, t, b) <=> ByProxy(px, ca, st, b)
      BY <2>1 DEF ByProxy
  <2>3. \A b \in Addr : ~ByCall(ar, st, b)
      BY DEF ByCall
  <2>4. 1 \in 1 .. Len(t)
      BY <1>3
  <2>5. \A b \in Addr : ByCall(a, t, b) <=> b \in {a}
      BY <2>4, <1>2, <1>3 DEF ByCall, Calling
  <2> SUFFICES ASSUME NEW b \in Addr
               PROVE  /\ h[b].refs = h[b].stored + One(ByProxy(px, ca, t, b))
                              + One(ByOutput(px, ca, b)) + One(ByCall(a, t, b)) + One(b \in {})
                      /\ h[b].kind = "free" <=> h[b].refs = 0
      BY DEF Owned
  <2>6. One(ByProxy(px, ca, t, b)) = One(ByProxy(px, ca, st, b))
      BY <2>2 DEF One
  <2>7. One(ByCall(a, t, b)) = One(b \in {a}) /\ One(ByCall(ar, st, b)) = 0 /\ One(b \in {}) = 0
      BY <2>3, <2>5 DEF One
  <2>8. /\ h[b].refs = h[b].stored + One(ByProxy(px, ca, st, b))
                       + One(ByOutput(px, ca, b)) + One(ByCall(ar, st, b)) + One(b \in {a})
        /\ h[b].kind = "free" <=> h[b].refs = 0
      BY <1>1 DEF Owned
  <2> DEFINE m == One(b \in {a})
             n == h[b].stored + One(ByProxy(px, ca, st, b)) + One(ByOutput(px, ca, b))
  <2>9. m \in Int /\ n \in Int
      BY <1>1 DEF One, Typed
  <2>10. h[b].refs = n + 0 + m
      BY <2>7, <2>8
  <2> HIDE DEF m, n
  <2>11. h[b].refs = n + m + 0
      BY <2>9, <2>10
  <2> QED
      BY <2>6, <2>7, <2>8, <2>11 DEF m, n
<1>9. Typed(h, hk, px, ca, hd, a, t)
    BY <1>1, <1>3 DEF Typed
<1>10. State(h, hk, px, ca, hd, a, t, {})
    BY <1>1, <1>4, <1>6, <1>7, <1>8, <1>9 DEF State
<1> QED
    BY <1>10 DEF t, f

(***************************************************************************)
(* What Python code does.                                                  *)
(***************************************************************************)
\* The stack, and what can be on top of it while Python code runs.
LEMMA StackIs ==
    ASSUME IInv
    PROVE  /\ stack \in Seq(FrameType) /\ Len(stack) \in Nat /\ DOMAIN stack = 1 .. Len(stack)
           /\ stack = <<>> <=> Len(stack) = 0
           /\ stack # <<>> => Head(stack) = stack[1] /\ 1 \in 1 .. Len(stack)
           /\ PythonRuns /\ Len(stack) > 0 => stack[1].kind \in {"callback", "finalizer"}
<1>1. stack \in Seq(FrameType)
    BY DEF IInv, State, Typed
<1>2. /\ Len(stack) \in Nat /\ DOMAIN stack = 1 .. Len(stack)
      /\ stack = <<>> <=> Len(stack) = 0
      /\ stack # <<>> => Head(stack) = stack[1] /\ 1 \in 1 .. Len(stack)
    BY <1>1
<1> QED
    BY <1>1, <1>2 DEF PythonRuns

\* While Python code runs, the proxy of an object that exists is live.
LEMMA AllocatedIsLive ==
    ASSUME IInv, PythonRuns, NEW a \in Addr, cache[a] # NoProxy, heap[a].kind # "free"
    PROVE  proxies[cache[a]].state = "live" /\ cache[a] \in Proxy
<1> DEFINE p == cache[a]
<1>1. p \in Proxy /\ proxies[p].state # "none" /\ proxies[p].key = a
    BY DEF IInv, State, Typed, Keyed
<1>2. ~Bereft(heap, {}, proxies, p)
    BY <1>1 DEF Bereft, Gone
<1>3. proxies[p].state # "finalized"
    BY <1>1, <1>2 DEF IInv, State, Reliable
<1>4. proxies[p].state # "dying"
  <2> SUFFICES ASSUME NEW i \in 1 .. Len(stack), stack[i].kind \in Deleting, stack[i].proxy = p
               PROVE  FALSE
      BY <1>1 DEF IInv, State, Reliable
  <2>1. i # 1
      BY StackIs DEF Deleting
  <2>2. stack[i].kind = "clear"
      BY <2>1 DEF IInv, State, Shaped, Deleting
  <2> QED
      BY <2>1, <2>2, <1>2 DEF IInv, State, Reliable
<1> QED
    BY <1>1, <1>3, <1>4 DEF IInv, State, Typed

\* What the invariant says of the object at a.
LEMMA HeapIs ==
    ASSUME IInv, NEW a \in Addr
    PROVE  /\ heap[a] \in Record /\ heap[a].refs >= heap[a].stored
           /\ heap[a].kind = "free" <=> heap[a].refs = 0
<1>1. heap[a] \in Record
    BY DEF IInv, State, Typed, Record
<1>2. /\ heap[a].refs = heap[a].stored + One(ByProxy(proxies, cache, stack, a))
                        + One(ByOutput(proxies, cache, a)) + One(ByCall(argument, stack, a))
                        + One(a \in {})
      /\ heap[a].kind = "free" <=> heap[a].refs = 0
    BY DEF IInv, State, Owned
<1> QED
    BY <1>1, <1>2 DEF One, Record

\* Stealing the reference that h counts keeps the invariant.
LEMMA StealKeeps ==
    ASSUME IInv, PythonRuns, NEW h, NEW a \in Addr,
           State(h, hooks, proxies, cache, held, argument, stack, {a}),
           Steal(h, a), argument' = argument
    PROVE  IInv'
<1>1. Len(stack) > 0 => stack[1].kind \notin Deleting
    BY StackIs DEF Deleting
<1>2. CASE /\ cache[a] # NoProxy /\ held' = held \cup {cache[a]}
           /\ DecRef(h, a, stack) /\ UNCHANGED <<proxies, cache>>
  <2>1. cache[a] \in Proxy /\ proxies[cache[a]].state # "none"
      BY <1>2 DEF IInv, State, Typed, Keyed
  <2>2. State(h, hooks, proxies, cache, held \cup {cache[a]}, argument, stack, {a})
      BY <1>1, <2>1, Holds
  <2>3. State(h, hooks, proxies', cache', held', argument', stack, {a})
      BY <1>2, <2>2
  <2> QED
      BY <1>1, <1>2, <2>3, Dropped DEF IInv, Deleting
<1>3. CASE cache[a] = NoProxy
  <2>1. PICK p \in Proxy : NewProxy(p, a, "own") /\ held' = held \cup {p}
      BY <1>3 DEF Steal, Cached
  <2>2. heap' = h /\ UNCHANGED <<hooks, stack>>
      BY <1>3 DEF Steal, Cached
  <2>3. State(h, hooks, proxies', cache', held', argument, stack, {})
      BY <1>3, <2>1, MadeWhole DEF NewProxy
  <2> QED
      BY <2>2, <2>3 DEF IInv
<1> QED
    BY <1>2, <1>3 DEF Steal, Cached

\* One reference more, or one fewer in a container, than is owned.
LEMMA MoreRefs ==
    ASSUME IInv, NEW a \in Addr, heap[a].kind # "free"
    PROVE  /\ State([heap EXCEPT ![a].refs = @ + 1], hooks, proxies, cache, held, argument,
                    stack, {a})
           /\ [heap EXCEPT ![a].refs = @ + 1][a].refs = heap[a].refs + 1
<1> DEFINE v == [heap[a] EXCEPT !.refs = @ + 1]
<1>1. /\ heap[a].refs \in Nat /\ heap[a].stored \in Nat /\ v \in Record
      /\ v.kind = heap[a].kind /\ v.refs = heap[a].refs + 1 /\ v.stored = heap[a].stored
    BY HeapIs DEF Record
<1>2. [heap EXCEPT ![a].refs = @ + 1] = [heap EXCEPT ![a] = v]
    OBVIOUS
<1> HIDE DEF v
<1>3. hooks \subseteq Addr
    BY DEF IInv, State, Typed
<1>4. v.refs = heap[a].refs - heap[a].stored + v.stored + 1
    BY <1>1
<1>5. State([heap EXCEPT ![a] = v], hooks, proxies, cache, held, argument, stack, {a})
    BY <1>1, <1>3, <1>4, Owing DEF IInv
<1>6. [heap EXCEPT ![a] = v][a] = v
    BY DEF IInv, State, Typed
<1> QED
    BY <1>1, <1>2, <1>5, <1>6

\* A container gives up its reference, which is still counted.
LEMMA FewerStored ==
    ASSUME IInv, NEW a \in Addr, heap[a].stored > 0
    PROVE  /\ State([heap EXCEPT ![a].stored = @ - 1], hooks, proxies, cache, held, argument,
                    stack, {a})
           /\ heap[a].kind # "free"
<1> DEFINE v == [heap[a] EXCEPT !.stored = @ - 1]
<1>1. /\ heap[a].refs \in Nat /\ heap[a].stored \in Nat /\ v \in Record
      /\ v.kind = heap[a].kind /\ v.refs = heap[a].refs /\ v.stored = heap[a].stored - 1
      /\ heap[a].kind # "free"
    BY HeapIs DEF Record
<1>2. [heap EXCEPT ![a].stored = @ - 1] = [heap EXCEPT ![a] = v]
    OBVIOUS
<1> HIDE DEF v
<1>3. hooks \subseteq Addr
    BY DEF IInv, State, Typed
<1>4. v.refs = heap[a].refs - heap[a].stored + v.stored + 1
    BY <1>1
<1>5. State([heap EXCEPT ![a] = v], hooks, proxies, cache, held, argument, stack, {a})
    BY <1>1, <1>3, <1>4, Owing DEF IInv
<1> QED
    BY <1>1, <1>2, <1>5

\* A proxy's value is the address it is cached under.
LEMMA ValueIs ==
    ASSUME IInv, NEW p \in Proxy, proxies[p].state # "none"
    PROVE  /\ Value(p) = proxies[p].key /\ proxies[p].key \in Addr
           /\ cache[proxies[p].key] = p /\ p # NoProxy
BY ProxiesAssumption DEF IInv, State, Keyed, Passed, Value

\* A new object is counted once more than it is owned.
LEMMA NewIs ==
    ASSUME IInv, NEW a \in Addr, ~Allocated(a), NEW kind \in {"value", "callback"},
           NEW hk, hk \subseteq Addr
    PROVE  State(NewObject(kind, a), hk, proxies, cache, held, argument, stack, {a})
<1> DEFINE v == [kind |-> kind, refs |-> 1, stored |-> 0]
<1>1. v \in Record /\ v.kind # "free" /\ v.refs = 1 /\ v.stored = 0
    BY DEF Free, Record
<1>2. heap[a].kind = "free" /\ heap[a].refs = 0 /\ heap[a].stored = 0
    BY HeapIs DEF Allocated, Record
<1>3. NewObject(kind, a) = [heap EXCEPT ![a] = v]
    BY DEF NewObject
<1> HIDE DEF v
<1>4. v.refs = heap[a].refs - heap[a].stored + v.stored + 1
    BY <1>1, <1>2
<1>5. State([heap EXCEPT ![a] = v], hk, proxies, cache, held, argument, stack, {a})
    BY <1>1, <1>2, <1>4, Owing DEF IInv
<1> QED
    BY <1>3, <1>5

\* Create keeps the invariant.
LEMMA CreateKeeps ==
    ASSUME IInv, Create
    PROVE  IInv'
<1>1. PythonRuns /\ argument' = argument
    BY DEF Create
<1>2. PICK a \in Addr :
        /\ ~Allocated(a)
        /\ \/ Steal(NewObject("value", a), a)
           \/ /\ Cached(a) = NoProxy
              /\ \E p \in Proxy : NewProxy(p, a, "own") /\ held' = held \cup {p}
              /\ heap' = NewObject("callback", a)
              /\ hooks' = hooks \cup {a} /\ UNCHANGED stack
           \/ /\ Cached(a) # NoProxy
              /\ held' = held \cup {Cached(a)}
              /\ DecRef(NewObject("callback", a), a,
                        <<Frame("register", Value(Cached(a)))>> \o stack)
              /\ UNCHANGED <<proxies, cache>>
    BY DEF Create
<1>3. hooks \subseteq Addr /\ hooks \cup {a} \subseteq Addr
    BY DEF IInv, State, Typed
<1>4. CASE Steal(NewObject("value", a), a)
  <2>1. State(NewObject("value", a), hooks, proxies, cache, held, argument, stack, {a})
      BY <1>2, <1>3, NewIs
  <2> QED
      BY <2>1, <1>1, <1>4, StealKeeps
<1>5. CASE /\ Cached(a) = NoProxy
           /\ \E p \in Proxy : NewProxy(p, a, "own") /\ held' = held \cup {p}
           /\ heap' = NewObject("callback", a)
           /\ hooks' = hooks \cup {a} /\ UNCHANGED stack
  <2>1. State(NewObject("callback", a), hooks \cup {a}, proxies, cache, held, argument, stack,
              {a})
      BY <1>2, <1>3, NewIs
  <2>2. PICK p \in Proxy : NewProxy(p, a, "own") /\ held' = held \cup {p}
      BY <1>5
  <2>3. State(NewObject("callback", a), hooks \cup {a}, proxies', cache', held', argument,
              stack, {})
      BY <2>1, <2>2, <1>5, MadeWhole DEF NewProxy, Cached
  <2> QED
      BY <2>3, <1>1, <1>5 DEF IInv
<1>6. CASE /\ Cached(a) # NoProxy
           /\ held' = held \cup {Cached(a)}
           /\ DecRef(NewObject("callback", a), a,
                     <<Frame("register", Value(Cached(a)))>> \o stack)
           /\ UNCHANGED <<proxies, cache>>
  <2> DEFINE q == cache[a]
             h == NewObject("callback", a)
             f == Frame("register", Value(q))
  <2>1. q \in Proxy /\ proxies[q].state # "none"
      BY <1>6 DEF Cached, IInv, State, Typed, Keyed
  <2>2. Value(q) \in Addr
      BY <2>1, ValueIs
  <2>3. f \in FrameType /\ f.kind = "register"
      BY <2>2 DEF Frame, FrameType
  <2>4. /\ held' = held \cup {q} /\ proxies' = proxies /\ cache' = cache
        /\ DecRef(h, a, <<f>> \o stack)
      BY <1>6 DEF Cached
  <2>5. State(h, hooks, proxies, cache, held, argument, stack, {a})
      BY <1>2, <1>3, NewIs
  <2>6. stack \in Seq(FrameType) /\ (Len(stack) > 0 => stack[1].kind \in {"callback", "finalizer"})
      BY <1>1, StackIs
  <2> HIDE DEF h, f, q
  <2>7. State(h, hooks, proxies, cache, held \cup {q}, argument, stack, {a})
      BY <2>1, <2>5, <2>6, Holds DEF Deleting
  <2>8. State(h, hooks, proxies, cache, held \cup {q}, argument, <<f>> \o stack, {a})
      BY <2>3, <2>6, <2>7, Pushed DEF Calling
  <2>9. State(h, hooks, proxies', cache', held', argument', <<f>> \o stack, {a})
      BY <2>4, <2>8, <1>1
  <2>10. (<<f>> \o stack)[1] = f
      BY <2>3, <2>6, PushIs
  <2> QED
      BY <2>3, <2>4, <2>9, <2>10, Dropped DEF IInv
<1> QED
    BY <1>2, <1>4, <1>5, <1>6

\* Fetch keeps the invariant.
LEMMA FetchKeeps ==
    ASSUME IInv, Fetch
    PROVE  IInv'
<1>1. PythonRuns /\ argument' = argument
    BY DEF Fetch
<1>2. PICK a \in Addr :
        /\ heap[a].stored > 0
        /\ \/ Steal([heap EXCEPT ![a].refs = @ + 1], a)
           \/ Steal([heap EXCEPT ![a].stored = @ - 1], a)
    BY DEF Fetch
<1> QED
    BY <1>1, <1>2, MoreRefs, FewerStored, StealKeeps

\* TakeOut keeps the invariant.
LEMMA TakeOutKeeps ==
    ASSUME IInv, TakeOut
    PROVE  IInv'
<1>1. PythonRuns /\ argument' = argument
    BY DEF TakeOut
<1>2. PICK a \in Addr :
        LET h == [heap EXCEPT ![a].stored = @ - 1]
        IN  /\ heap[a].stored > 0
            /\ \/ /\ Cached(a) # NoProxy
                  /\ held' = held \cup {Cached(a)}
                  /\ DecRef(h, a, stack) /\ UNCHANGED <<proxies, cache>>
               \/ /\ Cached(a) = NoProxy
                  /\ \E p \in Proxy :
                        NewProxy(p, a, "output") /\ held' = held \cup {p}
                  /\ heap' = Borrowed(h, a) /\ UNCHANGED <<hooks, stack>>
    BY DEF TakeOut
<1> DEFINE h == [heap EXCEPT ![a].stored = @ - 1]
<1>3. State(h, hooks, proxies, cache, held, argument, stack, {a})
    BY <1>2, FewerStored
<1>4. CASE cache[a] # NoProxy
  <2>1. /\ held' = held \cup {cache[a]} /\ DecRef(h, a, stack)
        /\ UNCHANGED <<proxies, cache>>
      BY <1>2, <1>4 DEF Cached
  <2>2. Steal(h, a)
      BY <1>4, <2>1 DEF Steal, Cached
  <2> HIDE DEF h
  <2> QED
      BY <1>1, <1>3, <2>2, StealKeeps
<1>5. CASE cache[a] = NoProxy
  <2>1. PICK p \in Proxy : NewProxy(p, a, "output") /\ held' = held \cup {p}
      BY <1>2, <1>5 DEF Cached
  <2>2. heap' = [h EXCEPT ![a].refs = @ + 1] /\ UNCHANGED <<hooks, stack>>
      BY <1>2, <1>5 DEF Cached, Borrowed
  <2> HIDE DEF h
  <2>3. heap' = IF "output" = "own" THEN h ELSE [h EXCEPT ![a].refs = @ + 1]
      BY <2>2
  <2>4. State(heap', hooks, proxies', cache', held', argument, stack, {})
      BY <1>3, <1>5, <2>1, <2>3, MadeWhole DEF NewProxy
  <2> QED
      BY <2>2, <2>4, <1>1 DEF IInv
<1> QED
    BY <1>4, <1>5

\* Store keeps the invariant.
LEMMA StoreKeeps ==
    ASSUME IInv, Store
    PROVE  IInv'
<1>1. PICK p \in Reached :
        /\ Allocated(Value(p))
        /\ heap' = [heap EXCEPT ![Value(p)].refs = @ + 1, ![Value(p)].stored = @ + 1]
    BY DEF Store
<1>2. p \in Proxy /\ proxies[p].state # "none"
  <2>1. CASE p \in held
      BY <2>1 DEF IInv, State, Typed, Reliable
  <2>2. CASE p \in Within({"callback"})
    <3>1. PICK i \in 1 .. Len(stack) : stack[i].kind = "callback" /\ stack[i].proxy = p
        BY <2>2, StackIs DEF Within, Frames
    <3> QED
        BY <3>1 DEF IInv, State, Shaped, Reliable
  <2> QED
      BY <2>1, <2>2 DEF Reached
<1> DEFINE a == Value(p)
           h2 == [heap EXCEPT ![a].refs = @ + 1, ![a].stored = @ + 1]
<1>3. a \in Addr /\ heap[a].kind # "free"
    BY <1>1, <1>2, ValueIs DEF Allocated
<1> HIDE DEF a
<1>4. heap[a] \in Record /\ heap[a].refs + 1 \in Nat /\ heap[a].stored + 1 \in Nat
      /\ heap[a].refs # 0
    BY <1>3, HeapIs DEF Record
<1> DEFINE v == [heap[a] EXCEPT !.refs = @ + 1, !.stored = @ + 1]
<1>5. /\ v \in Record /\ v.kind = heap[a].kind /\ v.refs = heap[a].refs + 1
      /\ v.stored = heap[a].stored + 1
    BY <1>4 DEF Record
<1>6. h2 = [heap EXCEPT ![a] = v]
    OBVIOUS
<1> HIDE DEF v
<1>7. h2[a] = v /\ \A b \in Addr : b # a => h2[b] = heap[b]
    BY <1>3, <1>6 DEF IInv, State, Typed
<1>8. Typed(h2, hooks, proxies, cache, held, argument, stack)
    BY <1>3, <1>5, <1>6 DEF IInv, State, Typed, Record
<1> HIDE DEF h2
<1>9. \A b \in Addr : Gone(heap, {}, b) => Gone(h2, {}, b)
    BY <1>5, <1>7 DEF Gone
<1>10. Reliable(h2, {}, proxies, held, stack)
  <2>1. \A q \in Proxy : proxies[q].state # "none" => proxies[q].key \in Addr
      BY DEF IInv, State, Keyed
  <2>2. \A q \in Proxy : proxies[q].state # "none" /\ Bereft(heap, {}, proxies, q) =>
            Bereft(h2, {}, proxies, q)
      BY <1>9, <2>1 DEF Bereft
  <2>3. \A i \in 1 .. Len(stack) : stack[i].kind = "clear" => stack[i].proxy \in Proxy
      BY DEF IInv, State, Shaped, Deleting
  <2> QED
      BY <2>2, <2>3 DEF IInv, State, Reliable
<1>11. Owned(h2, {}, proxies, cache, argument, stack)
  <2> SUFFICES ASSUME NEW b \in Addr
               PROVE  /\ h2[b].refs = h2[b].stored + One(ByProxy(proxies, cache, stack, b))
                              + One(ByOutput(proxies, cache, b))
                              + One(ByCall(argument, stack, b)) + One(b \in {})
                      /\ h2[b].kind = "free" <=> h2[b].refs = 0
      BY DEF Owned
  <2>1. /\ heap[b].refs = heap[b].stored + One(ByProxy(proxies, cache, stack, b))
                          + One(ByOutput(proxies, cache, b))
                          + One(ByCall(argument, stack, b)) + One(b \in {})
        /\ heap[b].kind = "free" <=> heap[b].refs = 0
      BY DEF IInv, State, Owned
  <2>2. heap[b].refs \in Nat /\ heap[b].stored \in Nat
      BY HeapIs DEF Record
  <2> DEFINE n == One(ByProxy(proxies, cache, stack, b)) + One(ByOutput(proxies, cache, b))
                  + One(ByCall(argument, stack, b)) + One(b \in {})
  <2>3. n \in Int /\ heap[b].refs = heap[b].stored + n
      BY <2>1, <2>2 DEF One
  <2>4. h2[b].refs = h2[b].stored + n /\ h2[b].refs \in Nat /\ h2[b].stored \in Nat
    <3> HIDE DEF n
    <3>1. CASE b = a
        BY <3>1, <2>2, <2>3, <1>5, <1>7
    <3>2. CASE b # a
        BY <3>2, <2>2, <2>3, <1>7
    <3> QED
        BY <3>1, <3>2
  <2>5. h2[b].refs = h2[b].stored + One(ByProxy(proxies, cache, stack, b))
                     + One(ByOutput(proxies, cache, b))
                     + One(ByCall(argument, stack, b)) + One(b \in {})
      BY <2>4 DEF One
  <2>6. h2[b].kind = "free" <=> h2[b].refs = 0
    <3>1. CASE b = a
        BY <3>1, <2>2, <1>3, <1>5, <1>7
    <3>2. CASE b # a
        BY <3>2, <2>1, <1>7
    <3> QED
        BY <3>1, <3>2
  <2> QED
      BY <2>5, <2>6
<1>13. State(h2, hooks, proxies, cache, held, argument, stack, {})
    BY <1>8, <1>10, <1>11 DEF IInv, State
<1> QED
    BY <1>1, <1>13 DEF Store, IInv, h2, a

\* Discard keeps the invariant.
LEMMA DiscardKeeps ==
    ASSUME IInv, Discard
    PROVE  IInv'
<1>1. PICK a \in Addr :
        /\ heap[a].stored > 0
        /\ DecRef([heap EXCEPT ![a].stored = @ - 1], a, stack)
    BY DEF Discard
<1>2. PythonRuns /\ UNCHANGED <<proxies, cache, held, argument>>
    BY DEF Discard
<1> DEFINE h == [heap EXCEPT ![a].stored = @ - 1]
<1>3. State(h, hooks, proxies', cache', held', argument', stack, {a})
    BY <1>1, <1>2, FewerStored
<1>4. Len(stack) > 0 => stack[1].kind # "del" /\ stack[1].kind # "clear"
    BY <1>2, StackIs
<1> HIDE DEF h
<1> QED
    BY <1>1, <1>3, <1>4, Dropped DEF IInv, h

\* KeepArgument keeps the invariant.
LEMMA KeepArgumentKeeps ==
    ASSUME IInv, KeepArgument
    PROVE  IInv'
<1> DEFINE p == stack[1].proxy
<1>1. /\ stack # <<>> /\ stack[1].kind = "callback" /\ 1 \in 1 .. Len(stack)
      /\ held' = held \cup {p}
    BY StackIs DEF KeepArgument, Top
<1>2. p \in Proxy /\ proxies[p].state # "none"
    BY <1>1 DEF IInv, State, Shaped, Reliable
<1>3. stack[1].kind \notin Deleting
    BY <1>1 DEF Deleting
<1>4. State(heap, hooks, proxies, cache, held \cup {p}, argument, stack, {})
    BY <1>2, <1>3, Holds DEF IInv
<1> QED
    BY <1>1, <1>4 DEF KeepArgument, IInv

\* Callback keeps the invariant.
LEMMA CallbackKeeps ==
    ASSUME IInv, Callback
    PROVE  IInv'
<1>1. PythonRuns /\ Frames({"callback", "return"}) = {} /\ UNCHANGED <<hooks, held>>
    BY DEF Callback
<1>2. PICK a \in Addr :
        LET h == [heap EXCEPT ![a].refs = @ + 1]
        IN  /\ heap[a].stored > 0
            /\ argument' = a
            /\ \/ /\ Cached(a) # NoProxy
                  /\ heap' = h /\ UNCHANGED <<proxies, cache>>
                  /\ stack' = <<Frame("callback", Cached(a))>> \o stack
               \/ /\ Cached(a) = NoProxy
                  /\ heap' = Borrowed(h, a)
                  /\ \E p \in Proxy :
                        /\ NewProxy(p, a, "argument")
                        /\ stack' = <<Frame("callback", p)>> \o stack
    BY DEF Callback
<1> DEFINE h == [heap EXCEPT ![a].refs = @ + 1]
<1>3. \A i \in 1 .. Len(stack) : stack[i].kind \notin Calling
    BY <1>1, StackIs DEF Frames, Calling
<1>4. Len(stack) > 0 => stack[1].kind = "finalizer"
    BY <1>1, <1>3, StackIs DEF Calling
<1>5. heap[a].kind # "free" /\ heap[a].refs > 0
    BY <1>2, HeapIs DEF Record
<1>6. State(h, hooks, proxies, cache, held, argument, stack, {a}) /\ h[a].refs = heap[a].refs + 1
    BY <1>5, MoreRefs
<1>7. heap[a].refs \in Nat
    BY HeapIs DEF Record
<1>8. \A q \in Proxy : ~(proxies[q].state # "none" /\ proxies[q].cell = "argument")
  <2>1. Len(stack) >= 2 => 2 \in 1 .. Len(stack)
      BY StackIs
  <2> QED
      BY <2>1, <1>3 DEF IInv, State, Passed, Calling
<1>9. CASE cache[a] # NoProxy
  <2>1. /\ heap' = h /\ UNCHANGED <<proxies, cache>>
        /\ stack' = <<Frame("callback", cache[a])>> \o stack
      BY <1>2, <1>9 DEF Cached
  <2>2. proxies[cache[a]].state = "live" /\ cache[a] \in Proxy
      BY <1>1, <1>5, <1>9, AllocatedIsLive
  <2>3. h[a].refs > 1
      BY <1>5, <1>6, <1>7
  <2> HIDE DEF h
  <2>4. Core(h, hooks, proxies, cache, held, argument, stack, {a})
      BY <1>6 DEF State, Core
  <2>5. State(h, hooks, proxies, cache, held, a, <<Frame("callback", cache[a])>> \o stack, {})
      BY <2>2, <2>3, <2>4, <1>3, <1>4, <1>8, Called
  <2> QED
      BY <2>1, <2>5, <1>1, <1>2 DEF IInv
<1>10. CASE cache[a] = NoProxy
  <2>1. PICK p \in Proxy :
            NewProxy(p, a, "argument") /\ stack' = <<Frame("callback", p)>> \o stack
      BY <1>2, <1>10 DEF Cached
  <2> DEFINE h2 == [h EXCEPT ![a].refs = @ + 1]
             px2 == [proxies EXCEPT ![p] = [state |-> "live", cell |-> "argument", key |-> a]]
  <2>2. /\ heap' = h2 /\ proxies' = px2 /\ cache' = [cache EXCEPT ![a] = p]
        /\ proxies[p].state = "none"
      BY <1>2, <1>10, <2>1 DEF Cached, Borrowed, NewProxy
  <2>3. h2[a].refs = h[a].refs + 1
      BY <1>6 DEF State, Typed
  <2>4. h2[a].refs > 1
      BY <2>3, <1>5, <1>6, <1>7
  <2>5. px2[p].state = "live" /\ px2[p].key = a /\ \A q \in Proxy : q # p => px2[q] = proxies[q]
      BY DEF IInv, State, Typed
  <2> HIDE DEF h
  <2>6. Core(h2, hooks, px2, [cache EXCEPT ![a] = p], held, argument, stack, {a})
    <3>1. /\ h2 = IF "argument" = "own" THEN h ELSE [h EXCEPT ![a].refs = @ + 1]
          /\ {a} = IF "argument" = "argument" THEN {a} ELSE {}
          /\ held \in {held, held \cup {p}}
        OBVIOUS
    <3> QED
        BY <3>1, <1>6, <1>10, <2>2, Made
  <2> HIDE DEF h2, px2
  <2>7. \A q \in Proxy : px2[q].state # "none" /\ px2[q].cell = "argument" =>
            q = p /\ px2[q].key = a
      BY <2>5, <1>8
  <2>8. State(h2, hooks, px2, [cache EXCEPT ![a] = p], held, a,
              <<Frame("callback", p)>> \o stack, {})
      BY <2>4, <2>5, <2>6, <2>7, <1>3, <1>4, Called
  <2> QED
      BY <2>1, <2>2, <2>8, <1>1, <1>2 DEF IInv
<1> QED
    BY <1>9, <1>10

(***************************************************************************)
(* What a call does when it goes on or ends.                               *)
(***************************************************************************)
\* The call on top is replaced.
LEMMA SwapIs ==
    ASSUME NEW s \in Seq(FrameType), s # <<>>, NEW f \in FrameType
    PROVE  /\ <<f>> \o Tail(s) \in Seq(FrameType) /\ Len(s) \in Nat /\ 1 \in 1 .. Len(s)
           /\ Len(<<f>> \o Tail(s)) = Len(s) /\ (<<f>> \o Tail(s))[1] = f
           /\ \A i \in 1 .. Len(s) : i # 1 => (<<f>> \o Tail(s))[i] = s[i]
<1> DEFINE u == Tail(s)
           t == <<f>> \o u
<1>1. /\ u \in Seq(FrameType) /\ Len(s) \in Nat /\ Len(u) = Len(s) - 1 /\ 1 \in 1 .. Len(s)
      /\ \A i \in 1 .. Len(s) : i = 1 \/ (i - 1 \in 1 .. Len(u) /\ u[i - 1] = s[i])
    BY TailIs
<1> HIDE DEF u
<1>2. /\ t \in Seq(FrameType) /\ Len(u) \in Nat /\ Len(t) = Len(u) + 1 /\ t[1] = f
      /\ \A i \in 1 .. Len(t) : i = 1 \/ (i - 1 \in 1 .. Len(u) /\ t[i] = u[i - 1])
    BY <1>1, PushIs
<1> HIDE DEF t
<1>3. /\ t \in Seq(FrameType) /\ Len(t) = Len(s) /\ t[1] = f
      /\ \A i \in 1 .. Len(s) : i # 1 => t[i] = s[i]
    BY <1>1, <1>2
<1> QED
    BY <1>1, <1>3 DEF t, u

\* A callback's caller goes on, or a proxy's references are dropped.
LEMMA ShapedSwap ==
    ASSUME NEW s \in Seq(FrameType), s # <<>>, NEW f \in FrameType, Shaped(s),
           \/ s[1].kind = "callback" /\ f.kind = "return"
           \/ s[1].kind = "del" /\ f.kind = "clear" /\ f.proxy = s[1].proxy
    PROVE  Shaped(<<f>> \o Tail(s))
<1> DEFINE t == <<f>> \o Tail(s)
<1>1. /\ Len(s) \in Nat /\ 1 \in 1 .. Len(s) /\ Len(t) = Len(s) /\ t[1] = f
      /\ \A i \in 1 .. Len(s) : i # 1 => t[i] = s[i]
    BY SwapIs
<1> HIDE DEF t
<1>2. \A i \in 1 .. Len(s) :
          /\ t[i].kind \in Calling <=> s[i].kind \in Calling
          /\ t[i].kind \in Deleting <=> s[i].kind \in Deleting
          /\ t[i].kind \in Deleting => t[i].proxy = s[i].proxy
          /\ t[i].kind = "callback" => s[i].kind = "callback" /\ t[i].proxy = s[i].proxy
          /\ t[i].kind = "del" => s[i].kind = "del"
          /\ t[i].kind = "finalizer" <=> s[i].kind = "finalizer"
  <2> TAKE i \in 1 .. Len(s)
  <2>1. CASE i = 1
      BY <2>1, <1>1 DEF Calling, Deleting
  <2>2. CASE i # 1
      BY <2>2, <1>1
  <2> QED
      BY <2>1, <2>2
<1>3. \A i \in 1 .. Len(t) : t[i].kind \in Deleting \cup {"callback"} => t[i].proxy \in Proxy
    BY <1>1, <1>2 DEF Shaped
<1>4. \A i \in 1 .. Len(t) : t[i].kind = "del" => i = 1
    BY <1>1, <1>2 DEF Shaped
<1>5. \A i, j \in 1 .. Len(t) : t[i].kind \in Calling /\ t[j].kind \in Calling => i = j
    BY <1>1, <1>2 DEF Shaped
<1>6. ASSUME NEW i \in 1 .. Len(t), NEW j \in 1 .. Len(t),
             t[i].kind \in Deleting, t[j].kind \in Deleting, t[i].proxy = t[j].proxy
      PROVE  i = j
  <2>1. s[i].kind \in Deleting /\ s[j].kind \in Deleting /\ s[i].proxy = s[j].proxy
      BY <1>1, <1>2, <1>6
  <2> QED
      BY <2>1, <1>1 DEF Shaped
<1>7. ASSUME NEW i \in 1 .. Len(t) - 1, t[i].kind # "finalizer"
      PROVE  t[i + 1].kind \in Calling \cup {"finalizer"}
  <2>1. i \in 1 .. Len(s) - 1 /\ i \in 1 .. Len(s) /\ i + 1 \in 1 .. Len(s)
      BY <1>1
  <2>2. s[i + 1].kind \in Calling \cup {"finalizer"}
      BY <2>1, <1>2, <1>7 DEF Shaped
  <2> QED
      BY <2>1, <2>2, <1>2
<1>8. Shaped(t)
    BY <1>3, <1>4, <1>5, <1>6, <1>7 DEF Shaped
<1> QED
    BY <1>8 DEF t

\* Nothing refers to p any longer.
LEMMA Deletes ==
    ASSUME NEW h, NEW hk, NEW px, NEW ca, NEW hd, NEW ar, NEW st,
           Core(h, hk, px, ca, hd, ar, st, {}), NEW p \in Proxy, p \notin hd,
           NEW f, NEW px2,
           \/ /\ px[p].state = "live" /\ f = Frame("del", p)
              /\ px2 = [px EXCEPT ![p].state = "dying"]
           \/ px[p].state = "finalized" /\ f = Frame("clear", p) /\ px2 = px,
           \A i \in 1 .. Len(st) :
               st[i].kind \in Deleting \cup {"callback"} => st[i].proxy # p,
           Len(st) > 0 => st[1].kind \in Calling \cup {"finalizer"}
    PROVE  Core(h, hk, px2, ca, hd, ar, <<f>> \o st, {})
<1> DEFINE t == <<f>> \o st
<1>1. /\ Typed(h, hk, px, ca, hd, ar, st) /\ Keyed(px, ca) /\ Shaped(st)
      /\ Reliable(h, {}, px, hd, st) /\ Owned(h, {}, px, ca, ar, st)
      /\ st \in Seq(FrameType)
    BY DEF Core, Typed
<1>2. /\ f \in FrameType /\ f.kind \in Deleting /\ f.proxy = p
      /\ f.kind = "del" <=> px[p].state = "live"
    BY DEF Frame, FrameType, Deleting
<1>3. /\ px2 \in [Proxy -> [state : {"none", "live", "dying", "finalized"},
                            cell : {"own", "output", "argument"},
                            key : Addr \cup {NoProxy}]]
      /\ px2[p].cell = px[p].cell /\ px2[p].key = px[p].key
      /\ px2[p].state = IF f.kind = "del" THEN "dying" ELSE px[p].state
      /\ px2[p].state \in {"dying", "finalized"}
      /\ \A q \in Proxy : q # p => px2[q] = px[q]
    BY <1>1, <1>2 DEF Typed, Frame
<1>4. px[p].state \in {"live", "finalized"} /\ (f.kind # "del" => px[p].state = "finalized")
    BY <1>2
<1>5. /\ t \in Seq(FrameType) /\ Len(st) \in Nat /\ Len(t) = Len(st) + 1 /\ t[1] = f
      /\ \A i \in 1 .. Len(st) : i + 1 \in 1 .. Len(t) /\ t[i + 1] = st[i]
      /\ \A i \in 1 .. Len(t) : i = 1 \/ (i - 1 \in 1 .. Len(st) /\ t[i] = st[i - 1])
    BY <1>1, <1>2, PushIs
<1>6. Shaped(t)
    BY <1>1, <1>2, ShapedPush DEF Deleting, Calling
<1> HIDE DEF t
<1>7. \A q \in Proxy : px2[q].state # "none" <=> px[q].state # "none"
    BY <1>3, <1>4
<1>8. \A q \in Proxy : px2[q].key = px[q].key /\ px2[q].cell = px[q].cell
    BY <1>3
<1>9. \A q \in Proxy : Bereft(h, {}, px, q) <=> Bereft(h, {}, px2, q)
    BY <1>8 DEF Bereft
<1>10. Keyed(px2, ca)
    BY <1>1, <1>7, <1>8 DEF Keyed, Typed
<1>11. Reliable(h, {}, px2, hd, t)
  <2>1. \A q \in hd : px2[q].state # "none"
      BY <1>1, <1>7 DEF Typed, Reliable
  <2>2. ASSUME NEW i \in 1 .. Len(t)
        PROVE  LET q == t[i].proxy IN
               /\ t[i].kind = "callback" => px2[q].state = "live"
               /\ t[i].kind = "del" => px2[q].state = "dying" /\ q \notin hd
               /\ t[i].kind = "clear" => /\ px2[q].state \in {"dying", "finalized"}
                                         /\ (i = 1 /\ q \notin hd) \/ Bereft(h, {}, px2, q)
    <3>1. CASE i = 1
        BY <3>1, <1>2, <1>3, <1>5 DEF Deleting
    <3>2. CASE i - 1 \in 1 .. Len(st) /\ t[i] = st[i - 1]
      <4> DEFINE q == t[i].proxy
      <4>1. st[i - 1].kind \in Deleting \cup {"callback"} =>
                q \in Proxy /\ q # p /\ px2[q] = px[q]
          BY <3>2, <1>1, <1>3 DEF Shaped
      <4>2. i - 1 = 1 => st[i - 1].kind # "clear" /\ st[i - 1].kind # "del"
          BY <3>2, <1>5 DEF Calling
      <4>3. st[i - 1].kind # "del"
          BY <3>2, <4>2, <1>1 DEF Shaped
      <4>4. st[i - 1].kind = "callback" => px2[q].state = "live"
          BY <3>2, <4>1, <1>1 DEF Reliable
      <4>5. st[i - 1].kind = "clear" =>
                px2[q].state \in {"dying", "finalized"} /\ Bereft(h, {}, px2, q)
          BY <3>2, <4>1, <4>2, <1>1, <1>9 DEF Reliable, Deleting
      <4> QED
          BY <3>2, <4>3, <4>4, <4>5
    <3> QED
        BY <3>1, <3>2, <1>5
  <2>3. ASSUME NEW q \in Proxy, px2[q].state = "dying"
        PROVE  \E i \in 1 .. Len(t) : t[i].kind \in Deleting /\ t[i].proxy = q
    <3>1. CASE q = p
      <4>1. 1 \in 1 .. Len(t)
          BY <1>5
      <4> QED
          BY <3>1, <4>1, <1>2, <1>5
    <3>2. CASE q # p
      <4>1. PICK i \in 1 .. Len(st) : st[i].kind \in Deleting /\ st[i].proxy = q
          BY <2>3, <3>2, <1>1, <1>3 DEF Reliable
      <4>2. i + 1 \in 1 .. Len(t) /\ t[i + 1] = st[i]
          BY <1>5
      <4> QED
          BY <4>1, <4>2
    <3> QED
        BY <3>1, <3>2
  <2>4. ASSUME NEW q \in Proxy, px2[q].state = "finalized"
        PROVE  Bereft(h, {}, px2, q)
    <3>1. px[q].state = "finalized"
        BY <2>4, <1>3, <1>4
    <3> QED
        BY <3>1, <1>1, <1>9 DEF Reliable
  <2> QED
      BY <2>1, <2>2, <2>3, <2>4 DEF Reliable
<1>12. Owned(h, {}, px2, ca, ar, t)
  <2>1. ASSUME NEW q \in Proxy
        PROVE  OwnedBy(px2, t, q) <=> OwnedBy(px, st, q)
    <3>1. Len(t) > 0 /\ (Len(st) > 0 => st[1].kind # "del")
        BY <1>5 DEF Calling
    <3>2. CASE q = p
        BY <3>1, <3>2, <1>2, <1>3, <1>5 DEF OwnedBy
    <3>3. CASE q # p
        BY <3>1, <3>3, <1>2, <1>3, <1>5 DEF OwnedBy
    <3> QED
        BY <3>2, <3>3
  <2>2. \A a \in Addr : ca[a] # NoProxy => ca[a] \in Proxy
      BY <1>1 DEF Typed
  <2>3. \A a \in Addr : ByProxy(px2, ca, t, a) <=> ByProxy(px, ca, st, a)
      BY <2>1, <2>2 DEF ByProxy
  <2>4. \A a \in Addr : ByOutput(px2, ca, a) <=> ByOutput(px, ca, a)
      BY <2>2, <1>8 DEF ByOutput
  <2>5. \A a \in Addr : ByCall(ar, t, a) <=> ByCall(ar, st, a)
    <3>1. f.kind \notin Calling
        BY <1>2 DEF Calling, Deleting
    <3> QED
        BY <3>1, <1>5 DEF ByCall
  <2> QED
      BY <2>3, <2>4, <2>5, <1>1 DEF Owned, One
<1>13. Typed(h, hk, px2, ca, hd, ar, t)
    BY <1>1, <1>3, <1>5 DEF Typed
<1>14. Core(h, hk, px2, ca, hd, ar, t, {})
    BY <1>1, <1>6, <1>10, <1>11, <1>12, <1>13 DEF Core
<1> QED
    BY <1>14 DEF t

\* The call on top ends.
LEMMA Pops ==
    ASSUME NEW h, NEW hk, NEW px, NEW ca, NEW hd, NEW ar, NEW st,
           Core(h, hk, px, ca, hd, ar, st, {}), st # <<>>,
           \/ st[1].kind \in {"return", "finalizer", "register"}
           \/ st[1].kind = "clear" /\ px[st[1].proxy].state # "dying",
           NEW T, T = IF st[1].kind = "return" THEN {ar} ELSE {}
    PROVE  Core(h, hk, px, ca, hd, ar, Tail(st), T)
<1> DEFINE u == Tail(st)
<1>1. /\ Typed(h, hk, px, ca, hd, ar, st) /\ Keyed(px, ca) /\ Shaped(st)
      /\ Reliable(h, {}, px, hd, st) /\ Owned(h, {}, px, ca, ar, st)
      /\ st \in Seq(FrameType)
    BY DEF Core, Typed
<1>2. /\ u \in Seq(FrameType) /\ Len(st) \in Nat /\ Len(st) > 0 /\ Len(u) = Len(st) - 1
      /\ 1 \in 1 .. Len(st)
      /\ \A i \in 1 .. Len(u) : i + 1 \in 2 .. Len(st) /\ u[i] = st[i + 1]
      /\ \A i \in 1 .. Len(st) : i = 1 \/ (i - 1 \in 1 .. Len(u) /\ u[i - 1] = st[i])
    BY <1>1, TailIs
<1>3. /\ Shaped(u) /\ \A i \in 1 .. Len(u) : u[i].kind # "del"
      /\ st[1].kind \in Calling => \A i \in 1 .. Len(u) : u[i].kind \notin Calling
    BY <1>1, ShapedTail
<1> HIDE DEF u
<1>4. \A q : Bereft(h, {}, px, q) => Bereft(h, T, px, q)
    BY DEF Bereft, Gone
<1>5. Reliable(h, T, px, hd, u)
  <2>1. ASSUME NEW i \in 1 .. Len(u)
        PROVE  LET q == u[i].proxy IN
               /\ u[i].kind = "callback" => px[q].state = "live"
               /\ u[i].kind = "clear" => /\ px[q].state \in {"dying", "finalized"}
                                         /\ Bereft(h, T, px, q)
    <3>1. i + 1 \in 1 .. Len(st) /\ i + 1 # 1 /\ u[i] = st[i + 1]
        BY <1>2
    <3>2. st[i + 1].kind = "callback" => px[st[i + 1].proxy].state = "live"
        BY <3>1, <1>1 DEF Reliable
    <3>3. st[i + 1].kind = "clear" => /\ px[st[i + 1].proxy].state \in {"dying", "finalized"}
                                      /\ Bereft(h, {}, px, st[i + 1].proxy)
        BY <3>1, <1>1 DEF Reliable
    <3> QED
        BY <3>1, <3>2, <3>3, <1>4
  <2>2. ASSUME NEW q \in Proxy, px[q].state = "dying"
        PROVE  \E i \in 1 .. Len(u) : u[i].kind \in Deleting /\ u[i].proxy = q
    <3>1. PICK i \in 1 .. Len(st) : st[i].kind \in Deleting /\ st[i].proxy = q
        BY <2>2, <1>1 DEF Reliable
    <3>2. i # 1
        BY <2>2, <3>1 DEF Deleting
    <3>3. i - 1 \in 1 .. Len(u) /\ u[i - 1] = st[i]
        BY <3>2, <1>2
    <3> QED
        BY <3>1, <3>3
  <2>3. \A q \in Proxy : px[q].state = "finalized" => Bereft(h, T, px, q)
      BY <1>1, <1>4 DEF Reliable
  <2> QED
      BY <2>1, <2>2, <2>3, <1>1, <1>3 DEF Reliable
<1>6. Owned(h, T, px, ca, ar, u)
  <2>1. /\ st[1].kind # "del" /\ Len(u) \in Nat
        /\ Len(u) > 0 => 1 \in 1 .. Len(u) /\ u[1].kind # "del"
    <3>1. st[1].kind # "del"
        OBVIOUS
    <3>2. Len(u) \in Nat /\ (Len(u) > 0 => 1 \in 1 .. Len(u))
        BY <1>2
    <3> QED
        BY <3>1, <3>2, <1>3
  <2>2. \A q : OwnedBy(px, u, q) <=> OwnedBy(px, st, q)
      BY <2>1 DEF OwnedBy
  <2>3. \A a \in Addr : ByProxy(px, ca, u, a) <=> ByProxy(px, ca, st, a)
      BY <2>2 DEF ByProxy
  <2> SUFFICES ASSUME NEW a \in Addr
               PROVE  /\ h[a].refs = h[a].stored + One(ByProxy(px, ca, u, a))
                              + One(ByOutput(px, ca, a)) + One(ByCall(ar, u, a)) + One(a \in T)
                      /\ h[a].kind = "free" <=> h[a].refs = 0
      BY DEF Owned
  <2>4. /\ h[a].refs = h[a].stored + One(ByProxy(px, ca, u, a))
                       + One(ByOutput(px, ca, a)) + One(ByCall(ar, st, a)) + One(a \in {})
        /\ h[a].kind = "free" <=> h[a].refs = 0
      BY <2>3, <1>1 DEF Owned, One
  <2>5. One(ByCall(ar, st, a)) + One(a \in {}) = One(ByCall(ar, u, a)) + One(a \in T)
    <3>1. CASE st[1].kind = "return"
      <4>1. ~ByCall(ar, u, a) /\ (ByCall(ar, st, a) <=> ar = a) /\ (a \in T <=> ar = a)
          BY <3>1, <1>2, <1>3 DEF ByCall, Calling
      <4> QED
          BY <4>1 DEF One
    <3>2. CASE st[1].kind # "return"
      <4>1. st[1].kind \notin Calling /\ a \notin T
          BY <3>2 DEF Calling
      <4>2. (\E i \in 1 .. Len(st) : st[i].kind \in Calling)
            <=> \E i \in 1 .. Len(u) : u[i].kind \in Calling
        <5>1. ASSUME NEW i \in 1 .. Len(st), st[i].kind \in Calling
              PROVE  \E j \in 1 .. Len(u) : u[j].kind \in Calling
          <6>1. i - 1 \in 1 .. Len(u) /\ u[i - 1] = st[i]
              BY <5>1, <4>1, <1>2
          <6> QED
              BY <5>1, <6>1
        <5>2. ASSUME NEW i \in 1 .. Len(u), u[i].kind \in Calling
              PROVE  \E j \in 1 .. Len(st) : st[j].kind \in Calling
          <6>1. i + 1 \in 1 .. Len(st) /\ u[i] = st[i + 1]
              BY <1>2
          <6> QED
              BY <5>2, <6>1
        <5> QED
            BY <5>1, <5>2
      <4> QED
          BY <4>1, <4>2 DEF ByCall, One
    <3> QED
        BY <3>1, <3>2
  <2> DEFINE m == h[a].stored + One(ByProxy(px, ca, u, a)) + One(ByOutput(px, ca, a))
             x == One(ByCall(ar, st, a))
             y == One(ByCall(ar, u, a))
             z == One(a \in T)
             w == One(a \in {})
  <2>6. m \in Int /\ x \in Int /\ y \in Int /\ z \in Int /\ w \in Int
      BY <1>1 DEF One, Typed
  <2>7. h[a].refs = m + x + w /\ x + w = y + z
      BY <2>4, <2>5
  <2> HIDE DEF m, x, y, z, w
  <2>8. h[a].refs = m + y + z
      BY <2>6, <2>7
  <2> QED
      BY <2>4, <2>8 DEF m, y, z
<1>7. Typed(h, hk, px, ca, hd, ar, u)
    BY <1>1, <1>2 DEF Typed
<1>8. Core(h, hk, px, ca, hd, ar, u, T)
    BY <1>1, <1>3, <1>5, <1>6, <1>7 DEF Core
<1> QED
    BY <1>8 DEF u

\* The proxy on top is gone.
LEMMA Clears ==
    ASSUME NEW h, NEW hk, NEW px, NEW ca, NEW hd, NEW ar, NEW st,
           Core(h, hk, px, ca, hd, ar, st, {}), st # <<>>, st[1].kind = "clear",
           NEW p \in Proxy, p = st[1].proxy, p \notin hd,
           NEW T, T = IF px[p].cell = "output" THEN {px[p].key} ELSE {}
    PROVE  Core(h, hk, [px EXCEPT ![p] = NoObject], [ca EXCEPT ![px[p].key] = NoProxy],
                hd, ar, Tail(st), T)
<1> DEFINE u == Tail(st)
           k == px[p].key
           px2 == [px EXCEPT ![p] = NoObject]
           ca2 == [ca EXCEPT ![k] = NoProxy]
<1>1. /\ Typed(h, hk, px, ca, hd, ar, st) /\ Keyed(px, ca) /\ Shaped(st)
      /\ Reliable(h, {}, px, hd, st) /\ Owned(h, {}, px, ca, ar, st)
      /\ st \in Seq(FrameType)
    BY DEF Core, Typed
<1>2. /\ u \in Seq(FrameType) /\ Len(st) \in Nat /\ Len(st) > 0 /\ Len(u) = Len(st) - 1
      /\ 1 \in 1 .. Len(st) /\ Len(u) \in Nat
      /\ \A i \in 1 .. Len(u) : i + 1 \in 1 .. Len(st) /\ i + 1 # 1 /\ u[i] = st[i + 1]
      /\ \A i \in 1 .. Len(st) : i = 1 \/ (i - 1 \in 1 .. Len(u) /\ u[i - 1] = st[i])
    BY <1>1, TailIs
<1>3. /\ Shaped(u) /\ \A i \in 1 .. Len(u) : u[i].kind # "del"
      /\ \A i \in 1 .. Len(u) : u[i].kind \in Deleting => u[i].proxy # p
    BY <1>1, ShapedTail DEF Deleting
<1>4. Len(u) > 0 => 1 \in 1 .. Len(u) /\ u[1].kind \in Calling \cup {"finalizer"}
    BY <1>1, <1>2, ShapedTail
<1>5. /\ px[p].state \in {"dying", "finalized"} /\ k \in Addr /\ ca[k] = p /\ p # NoProxy
    BY <1>1, <1>2, ProxiesAssumption DEF Reliable, Keyed
<1>6. /\ px2 \in [Proxy -> [state : {"none", "live", "dying", "finalized"},
                            cell : {"own", "output", "argument"},
                            key : Addr \cup {NoProxy}]]
      /\ px2[p].state = "none" /\ \A q \in Proxy : q # p => px2[q] = px[q]
      /\ ca2 \in [Addr -> Proxy \cup {NoProxy}]
      /\ ca2[k] = NoProxy /\ \A a \in Addr : a # k => ca2[a] = ca[a]
    BY <1>1, <1>5 DEF Typed, NoObject
<1> HIDE DEF u, px2, ca2
<1>7. \A a \in Addr : a # k => ca[a] # p
    BY <1>1, <1>5 DEF Keyed
<1>8. Keyed(px2, ca2)
  <2>1. ASSUME NEW a \in Addr, ca2[a] # NoProxy
        PROVE  px2[ca2[a]].state # "none" /\ px2[ca2[a]].key = a
    <3>1. a # k /\ ca2[a] = ca[a] /\ ca[a] # p /\ ca[a] \in Proxy
        BY <2>1, <1>1, <1>6, <1>7 DEF Typed
    <3> QED
        BY <2>1, <3>1, <1>1, <1>6 DEF Keyed
  <2>2. ASSUME NEW q \in Proxy, px2[q].state # "none"
        PROVE  px2[q].key \in Addr /\ ca2[px2[q].key] = q
    <3>1. q # p /\ px2[q] = px[q]
        BY <2>2, <1>6
    <3>2. px[q].key \in Addr /\ ca[px[q].key] = q
        BY <2>2, <3>1, <1>1 DEF Keyed
    <3>3. px[q].key # k
        BY <3>1, <3>2, <1>5
    <3> QED
        BY <3>1, <3>2, <3>3, <1>6
  <2> QED
      BY <2>1, <2>2 DEF Keyed
<1>9. \A q \in Proxy : q # p /\ Bereft(h, {}, px, q) => Bereft(h, T, px2, q)
    BY <1>6 DEF Bereft, Gone
<1>10. Reliable(h, T, px2, hd, u)
  <2>1. \A q \in hd : px2[q].state # "none"
    <3>1. \A q \in hd : q \in Proxy /\ q # p /\ px[q].state # "none"
        BY <1>1 DEF Typed, Reliable
    <3> QED
        BY <3>1, <1>6
  <2>2. ASSUME NEW i \in 1 .. Len(u)
        PROVE  LET q == u[i].proxy IN
               /\ u[i].kind = "callback" => px2[q].state = "live"
               /\ u[i].kind = "clear" => /\ px2[q].state \in {"dying", "finalized"}
                                         /\ Bereft(h, T, px2, q)
    <3> DEFINE q == u[i].proxy
    <3>1. i + 1 \in 1 .. Len(st) /\ i + 1 # 1 /\ u[i] = st[i + 1]
        BY <1>2
    <3>2. u[i].kind \in Deleting \cup {"callback"} => q \in Proxy
        BY <1>3 DEF Shaped
    <3>3. ASSUME u[i].kind = "callback"
          PROVE  px2[q].state = "live"
      <4>1. px[q].state = "live" /\ q \in Proxy
          BY <3>1, <3>2, <3>3, <1>1 DEF Reliable
      <4> QED
          BY <4>1, <1>5, <1>6
    <3>4. ASSUME u[i].kind = "clear"
          PROVE  px2[q].state \in {"dying", "finalized"} /\ Bereft(h, T, px2, q)
      <4>1. px[q].state \in {"dying", "finalized"} /\ Bereft(h, {}, px, q)
          BY <3>1, <3>4, <1>1 DEF Reliable
      <4>2. q \in Proxy /\ q # p
          BY <3>2, <3>4, <1>3 DEF Deleting
      <4> QED
          BY <4>1, <4>2, <1>6, <1>9
    <3> QED
        BY <3>3, <3>4
  <2>3. ASSUME NEW q \in Proxy, px2[q].state = "dying"
        PROVE  \E i \in 1 .. Len(u) : u[i].kind \in Deleting /\ u[i].proxy = q
    <3>1. q # p /\ px[q].state = "dying"
        BY <2>3, <1>6
    <3>2. PICK i \in 1 .. Len(st) : st[i].kind \in Deleting /\ st[i].proxy = q
        BY <3>1, <1>1 DEF Reliable
    <3>3. i - 1 \in 1 .. Len(u) /\ u[i - 1] = st[i]
        BY <3>1, <3>2, <1>2
    <3> QED
        BY <3>2, <3>3
  <2>4. ASSUME NEW q \in Proxy, px2[q].state = "finalized"
        PROVE  Bereft(h, T, px2, q)
    <3>1. q # p /\ px[q].state = "finalized"
        BY <2>4, <1>6
    <3> QED
        BY <3>1, <1>1, <1>9 DEF Reliable
  <2> QED
      BY <2>1, <2>2, <2>3, <2>4, <1>3 DEF Reliable
<1>11. Owned(h, T, px2, ca2, ar, u)
  <2>1. \A q \in Proxy : q # p => (OwnedBy(px2, u, q) <=> OwnedBy(px, st, q))
      BY <1>2, <1>4, <1>6 DEF OwnedBy, Calling
  <2>2. ~OwnedBy(px, st, p)
      BY <1>2, <1>5 DEF OwnedBy
  <2>3. (\E i \in 1 .. Len(st) : st[i].kind \in Calling)
        <=> \E i \in 1 .. Len(u) : u[i].kind \in Calling
    <3>1. ASSUME NEW i \in 1 .. Len(st), st[i].kind \in Calling
          PROVE  \E j \in 1 .. Len(u) : u[j].kind \in Calling
      <4>1. i - 1 \in 1 .. Len(u) /\ u[i - 1] = st[i]
          BY <3>1, <1>2 DEF Calling
      <4> QED
          BY <3>1, <4>1
    <3>2. ASSUME NEW i \in 1 .. Len(u), u[i].kind \in Calling
          PROVE  \E j \in 1 .. Len(st) : st[j].kind \in Calling
      <4>1. i + 1 \in 1 .. Len(st) /\ u[i] = st[i + 1]
          BY <1>2
      <4> QED
          BY <3>2, <4>1
    <3> QED
        BY <3>1, <3>2
  <2> SUFFICES ASSUME NEW a \in Addr
               PROVE  /\ h[a].refs = h[a].stored + One(ByProxy(px2, ca2, u, a))
                              + One(ByOutput(px2, ca2, a)) + One(ByCall(ar, u, a)) + One(a \in T)
                      /\ h[a].kind = "free" <=> h[a].refs = 0
      BY DEF Owned
  <2>4. /\ h[a].refs = h[a].stored + One(ByProxy(px, ca, st, a))
                       + One(ByOutput(px, ca, a)) + One(ByCall(ar, st, a)) + One(a \in {})
        /\ h[a].kind = "free" <=> h[a].refs = 0
      BY <1>1 DEF Owned
  <2>5. One(ByCall(ar, st, a)) = One(ByCall(ar, u, a))
      BY <2>3 DEF ByCall, One
  <2>6. One(ByProxy(px, ca, st, a)) = One(ByProxy(px2, ca2, u, a))
    <3>1. CASE a = k
        BY <3>1, <2>2, <1>5, <1>6 DEF ByProxy, One
    <3>2. CASE a # k
      <4>1. ca2[a] = ca[a] /\ (ca[a] # NoProxy => ca[a] \in Proxy /\ ca[a] # p)
          BY <3>2, <1>1, <1>6, <1>7 DEF Typed
      <4> QED
          BY <4>1, <2>1 DEF ByProxy, One
    <3> QED
        BY <3>1, <3>2
  <2>7. One(ByOutput(px, ca, a)) + One(a \in {}) = One(ByOutput(px2, ca2, a)) + One(a \in T)
    <3>1. CASE a = k
      <4>1. (ByOutput(px, ca, a) <=> a \in T) /\ ~ByOutput(px2, ca2, a)
          BY <3>1, <1>5, <1>6 DEF ByOutput
      <4> QED
          BY <4>1 DEF One
    <3>2. CASE a # k
      <4>1. ca2[a] = ca[a] /\ (ca[a] # NoProxy => ca[a] \in Proxy /\ ca[a] # p)
          BY <3>2, <1>1, <1>6, <1>7 DEF Typed
      <4>2. (ByOutput(px, ca, a) <=> ByOutput(px2, ca2, a)) /\ a \notin T
          BY <3>2, <4>1, <1>6 DEF ByOutput
      <4> QED
          BY <4>2 DEF One
    <3> QED
        BY <3>1, <3>2
  <2> DEFINE m == h[a].stored
             b == One(ByProxy(px2, ca2, u, a))
             c == One(ByCall(ar, u, a))
             x == One(ByOutput(px, ca, a))
             y == One(ByOutput(px2, ca2, a))
             z == One(a \in T)
             w == One(a \in {})
  <2>8. /\ m \in Int /\ b \in Int /\ c \in Int
        /\ x \in Int /\ y \in Int /\ z \in Int /\ w \in Int
      BY <1>1 DEF One, Typed
  <2>9. h[a].refs = m + b + x + c + w /\ x + w = y + z
      BY <2>4, <2>5, <2>6, <2>7
  <2> HIDE DEF m, b, c, x, y, z, w
  <2>10. h[a].refs = m + b + y + c + z
      BY <2>8, <2>9
  <2> QED
      BY <2>4, <2>10 DEF m, b, c, y, z
<1>12. Typed(h, hk, px2, ca2, hd, ar, u)
    BY <1>1, <1>2, <1>6 DEF Typed
<1>13. Core(h, hk, px2, ca2, hd, ar, u, T)
    BY <1>1, <1>3, <1>8, <1>10, <1>11, <1>12 DEF Core
<1> QED
    BY <1>13 DEF u, px2, ca2, k

(***************************************************************************)
(* What ends calls and variables.                                          *)
(***************************************************************************)
\* The call on top.
LEMMA TopIs ==
    ASSUME IInv, NEW kind, Top(kind)
    PROVE  /\ stack # <<>> /\ stack \in Seq(FrameType) /\ Len(stack) \in Nat /\ Len(stack) > 0
           /\ Head(stack) = stack[1] /\ stack[1].kind = kind /\ 1 \in 1 .. Len(stack)
           /\ stack[1] \in FrameType
           /\ Core(heap, hooks, proxies, cache, held, argument, stack, {})
<1>1. stack # <<>> /\ Head(stack).kind = kind
    BY DEF Top
<1>2. stack \in Seq(FrameType)
    BY DEF IInv, State, Typed
<1> QED
    BY <1>1, <1>2, TailIs DEF IInv, State, Core

\* Proxies in the argument array, unless a proxy is deleted or a callback runs.
LEMMA NoArguments ==
    ASSUME IInv, NEW q \in Proxy, proxies[q].state # "none", proxies[q].cell = "argument",
           Len(stack) > 0 => stack[1].kind \notin Deleting
    PROVE  /\ proxies[q].key = argument
           /\ \E i \in 1 .. Len(stack) : stack[i].kind = "callback" /\ stack[i].proxy = q
BY StackIs DEF IInv, State, Passed

\* CallbackReturns keeps the invariant.
LEMMA CallbackReturnsKeeps ==
    ASSUME IInv, CallbackReturns, ~CallbacksKeepArgs
    PROVE  IInv'
<1> DEFINE p == stack[1].proxy
           f == Frame("return", NoProxy)
           t == <<f>> \o Tail(stack)
<1>1. /\ stack # <<>> /\ stack \in Seq(FrameType) /\ Len(stack) \in Nat /\ Len(stack) > 0
      /\ stack[1].kind = "callback" /\ 1 \in 1 .. Len(stack) /\ Head(stack) = stack[1]
      /\ Core(heap, hooks, proxies, cache, held, argument, stack, {})
    BY TopIs DEF CallbackReturns
<1>2. /\ MayReturn(p)
      /\ IF p \in held THEN stack' = t /\ UNCHANGED proxies ELSE Unreachable(p, t)
      /\ UNCHANGED <<heap, hooks, cache, held, argument>>
    BY <1>1 DEF CallbackReturns
<1>3. /\ Typed(heap, hooks, proxies, cache, held, argument, stack) /\ Keyed(proxies, cache)
      /\ Shaped(stack) /\ Reliable(heap, {}, proxies, held, stack)
      /\ Owned(heap, {}, proxies, cache, argument, stack)
    BY <1>1 DEF Core
<1>4. p \in Proxy /\ proxies[p].state = "live"
    BY <1>1, <1>3 DEF Shaped, Reliable
<1>5. f \in FrameType /\ f.kind = "return"
    BY DEF Frame, FrameType, Calling
<1>6. /\ t \in Seq(FrameType) /\ Len(t) = Len(stack) /\ t[1] = f
      /\ \A i \in 1 .. Len(stack) : i # 1 => t[i] = stack[i]
    BY <1>1, <1>5, SwapIs
<1>7. Shaped(t)
    BY <1>1, <1>3, <1>5, ShapedSwap
<1> HIDE DEF f, t, p
<1>8. Typed(heap, hooks, proxies, cache, held, argument, t)
    BY <1>3, <1>6 DEF Typed
<1>9. Reliable(heap, {}, proxies, held, t)
  <2>1. ASSUME NEW i \in 1 .. Len(t)
        PROVE  LET q == t[i].proxy IN
               /\ t[i].kind = "callback" => proxies[q].state = "live"
               /\ t[i].kind # "del"
               /\ t[i].kind = "clear" => /\ proxies[q].state \in {"dying", "finalized"}
                                         /\ Bereft(heap, {}, proxies, q)
    <3>1. CASE i = 1
        BY <3>1, <1>5, <1>6
    <3>2. CASE i # 1
      <4>1. t[i] = stack[i] /\ i \in 1 .. Len(stack) /\ stack[i].kind # "del"
          BY <3>2, <1>3, <1>6 DEF Shaped
      <4>2. stack[i].kind = "callback" => proxies[stack[i].proxy].state = "live"
          BY <4>1, <1>3 DEF Reliable
      <4>3. stack[i].kind = "clear" =>
                /\ proxies[stack[i].proxy].state \in {"dying", "finalized"}
                /\ Bereft(heap, {}, proxies, stack[i].proxy)
          BY <3>2, <4>1, <1>3 DEF Reliable
      <4> QED
          BY <4>1, <4>2, <4>3
    <3> QED
        BY <3>1, <3>2
  <2>2. ASSUME NEW q \in Proxy, proxies[q].state = "dying"
        PROVE  \E i \in 1 .. Len(t) : t[i].kind \in Deleting /\ t[i].proxy = q
    <3>1. PICK i \in 1 .. Len(stack) : stack[i].kind \in Deleting /\ stack[i].proxy = q
        BY <2>2, <1>3 DEF Reliable
    <3>2. i # 1
        BY <3>1, <1>1 DEF Deleting
    <3> QED
        BY <3>1, <3>2, <1>6
  <2> QED
      BY <2>1, <2>2, <1>3 DEF Reliable
<1>10. Owned(heap, {}, proxies, cache, argument, t)
  <2>1. \A q : OwnedBy(proxies, t, q) <=> OwnedBy(proxies, stack, q)
      BY <1>1, <1>5, <1>6 DEF OwnedBy
  <2>2. \A a \in Addr : ByProxy(proxies, cache, t, a) <=> ByProxy(proxies, cache, stack, a)
      BY <2>1 DEF ByProxy
  <2>3. 1 \in 1 .. Len(t) /\ t[1].kind \in Calling /\ stack[1].kind \in Calling
      BY <1>1, <1>5, <1>6 DEF Calling
  <2>4. \A a \in Addr : ByCall(argument, t, a) <=> ByCall(argument, stack, a)
      BY <2>3, <1>1 DEF ByCall
  <2> QED
      BY <2>2, <2>4, <1>3 DEF Owned, One
<1>11. Core(heap, hooks, proxies, cache, held, argument, t, {})
    BY <1>3, <1>7, <1>8, <1>9, <1>10 DEF Core
<1>12. ASSUME NEW q \in Proxy, proxies[q].state # "none", proxies[q].cell = "argument"
       PROVE  q = p /\ proxies[q].key = argument
  <2>1. stack[1].kind \notin Deleting
      BY <1>1 DEF Deleting
  <2>2. proxies[q].key = argument
        /\ \E i \in 1 .. Len(stack) : stack[i].kind = "callback" /\ stack[i].proxy = q
      BY <2>1, <1>12, NoArguments
  <2> QED
      BY <2>2, <1>1, <1>3 DEF Shaped, Calling, p
<1>13. CASE p \in held
  <2>1. proxies[p].cell # "argument"
      BY <1>2, <1>13 DEF MayReturn
  <2>2. Passed(proxies, argument, t)
      BY <2>1, <1>12 DEF Passed
  <2>3. State(heap, hooks, proxies, cache, held, argument, t, {})
      BY <2>2, <1>11 DEF State, Core
  <2> QED
      BY <2>3, <1>2, <1>13 DEF IInv
<1>14. CASE p \notin held
  <2> DEFINE g == Frame("del", p)
             px2 == [proxies EXCEPT ![p].state = "dying"]
             u == <<g>> \o t
  <2>1. proxies' = px2 /\ stack' = u
      BY <1>2, <1>4, <1>14 DEF Unreachable, Live
  <2>2. \A i \in 1 .. Len(t) : t[i].kind \in Deleting \cup {"callback"} => t[i].proxy # p
    <3> SUFFICES ASSUME NEW i \in 1 .. Len(t), t[i].kind \in Deleting \cup {"callback"}
                 PROVE  t[i].proxy # p
        OBVIOUS
    <3>1. t[i].kind # "callback"
      <4>1. CASE i = 1
          BY <4>1, <1>5, <1>6
      <4>2. CASE i # 1
        <5>1. 1 \in 1 .. Len(t) /\ t[1].kind \in Calling
            BY <1>1, <1>5, <1>6 DEF Calling
        <5> QED
            BY <4>2, <5>1, <1>7 DEF Shaped, Calling
      <4> QED
          BY <4>1, <4>2
    <3>2. proxies[t[i].proxy].state # "live"
        BY <3>1, <1>9 DEF Reliable, Deleting
    <3> QED
        BY <3>2, <1>4
  <2>3. Len(t) > 0 => t[1].kind \in Calling \cup {"finalizer"}
      BY <1>5, <1>6 DEF Calling
  <2>4. Core(heap, hooks, px2, cache, held, argument, u, {})
      BY <2>2, <2>3, <1>4, <1>11, <1>14, Deletes
  <2>5. g \in FrameType /\ g.kind = "del" /\ g.proxy = p
      BY <1>4 DEF Frame, FrameType, Deleting
  <2>6. /\ Len(u) = Len(t) + 1 /\ u[1] = g
        /\ \A i \in 1 .. Len(t) : u[i + 1] = t[i]
      BY <2>5, <1>6, PushIs
  <2>7. \A q \in Proxy : px2[q].cell = proxies[q].cell /\ px2[q].key = proxies[q].key
                         /\ (px2[q].state # "none" => q = p \/ proxies[q].state # "none")
      BY <1>3 DEF Typed
  <2> HIDE DEF px2, u, g
  <2>8. Len(u) >= 2 /\ u[1].kind \in Deleting /\ u[1].proxy = p /\ u[2].kind = "return"
    <3>1. 1 \in 1 .. Len(t) /\ Len(t) \in Nat /\ Len(t) > 0
        BY <1>1, <1>6
    <3>2. u[1 + 1] = t[1]
        BY <3>1, <2>6
    <3> QED
        BY <3>1, <3>2, <2>5, <2>6, <1>5, <1>6 DEF Deleting
  <2>9. Passed(px2, argument, u)
    <3> SUFFICES ASSUME NEW q \in Proxy, px2[q].state # "none", px2[q].cell = "argument"
                 PROVE  px2[q].key = argument /\ q = p
        BY <2>8 DEF Passed
    <3>1. proxies[q].state # "none" /\ proxies[q].cell = "argument"
        BY <2>7, <1>4
    <3> QED
        BY <3>1, <2>7, <1>12
  <2>10. State(heap, hooks, px2, cache, held, argument, u, {})
      BY <2>4, <2>9 DEF State, Core
  <2> QED
      BY <2>1, <2>10, <1>2 DEF IInv
<1> QED
    BY <1>13, <1>14

\* Release keeps the invariant.
LEMMA ReleaseKeeps ==
    ASSUME IInv, Release
    PROVE  IInv'
<1>1. PythonRuns /\ UNCHANGED <<heap, hooks, cache, argument>>
    BY DEF Release
<1>2. PICK p \in held :
        /\ held' = held \ {p}
        /\ IF p \in Within({"callback", "clear"}) THEN UNCHANGED <<proxies, stack>>
           ELSE Unreachable(p, stack)
    BY DEF Release
<1>3. State(heap, hooks, proxies, cache, held \ {p}, argument, stack, {})
    BY HoldsLess DEF IInv
<1>4. CASE p \in Within({"callback", "clear"})
    BY <1>1, <1>2, <1>3, <1>4 DEF IInv
<1>5. CASE p \notin Within({"callback", "clear"})
  <2>1. \A i \in 1 .. Len(stack) : stack[i].kind \in {"callback", "clear"} => stack[i].proxy # p
      BY <1>5, StackIs DEF Within, Frames
  <2>2. p \in Proxy /\ proxies[p].state # "none"
      BY DEF IInv, State, Typed, Reliable
  <2>3. \A i \in 1 .. Len(stack) :
            stack[i].kind \in Deleting \cup {"callback"} => stack[i].proxy # p
    <3>1. \A i \in 1 .. Len(stack) : stack[i].kind # "del"
        BY <1>1, StackIs DEF IInv, State, Shaped
    <3> QED
        BY <3>1, <2>1 DEF Deleting
  <2>4. proxies[p].state # "dying"
      BY <2>2, <2>3 DEF IInv, State, Reliable
  <2>5. proxies[p].state \in {"live", "finalized"}
      BY <2>2, <2>4 DEF IInv, State, Typed
  <2>6. PICK f, px2 :
            /\ \/ /\ proxies[p].state = "live" /\ f = Frame("del", p)
                  /\ px2 = [proxies EXCEPT ![p].state = "dying"]
               \/ proxies[p].state = "finalized" /\ f = Frame("clear", p) /\ px2 = proxies
            /\ proxies' = px2 /\ stack' = <<f>> \o stack
      BY <2>5, <1>2, <1>5 DEF Unreachable, Live
  <2>7. Len(stack) > 0 => stack[1].kind \in Calling \cup {"finalizer"}
      BY <1>1, StackIs DEF Calling
  <2>8. Core(heap, hooks, proxies, cache, held \ {p}, argument, stack, {})
      BY <1>3 DEF State, Core
  <2>9. Core(heap, hooks, px2, cache, held \ {p}, argument, <<f>> \o stack, {})
    <3>1. p \notin held \ {p}
        OBVIOUS
    <3> QED
        BY <3>1, <2>2, <2>3, <2>6, <2>7, <2>8, Deletes
  <2>10. f \in FrameType
      BY <2>2, <2>6 DEF Frame, FrameType, Deleting
  <2>11. \A i \in 1 .. Len(stack) :
             i + 1 \in 1 .. Len(<<f>> \o stack) /\ (<<f>> \o stack)[i + 1] = stack[i]
      BY <2>10, StackIs, PushIs
  <2>12. \A q \in Proxy : /\ px2[q].cell = proxies[q].cell /\ px2[q].key = proxies[q].key
                          /\ px2[q].state # "none" => proxies[q].state # "none"
    <3>1. proxies \in [Proxy -> [state : {"none", "live", "dying", "finalized"},
                                 cell : {"own", "output", "argument"},
                                 key : Addr \cup {NoProxy}]]
        BY DEF IInv, State, Typed
    <3>2. CASE px2 = proxies
        BY <3>2
    <3>3. CASE px2 = [proxies EXCEPT ![p].state = "dying"]
        BY <3>1, <3>3, <2>2
    <3> QED
        BY <3>2, <3>3, <2>6
  <2>13. Passed(px2, argument, <<f>> \o stack)
    <3> SUFFICES ASSUME NEW q \in Proxy, px2[q].state # "none", px2[q].cell = "argument"
                 PROVE  /\ px2[q].key = argument
                        /\ \E i \in 1 .. Len(<<f>> \o stack) :
                               /\ (<<f>> \o stack)[i].kind = "callback"
                               /\ (<<f>> \o stack)[i].proxy = q
        BY DEF Passed
    <3>1. Len(stack) > 0 => stack[1].kind \notin Deleting
        BY <2>7 DEF Calling, Deleting
    <3>2. proxies[q].key = argument
          /\ \E i \in 1 .. Len(stack) : stack[i].kind = "callback" /\ stack[i].proxy = q
        BY <3>1, <2>12, NoArguments
    <3> QED
        BY <3>2, <2>11, <2>12
  <2>14. State(heap, hooks, px2, cache, held \ {p}, argument, <<f>> \o stack, {})
      BY <2>9, <2>13 DEF State, Core
  <2> QED
      BY <2>6, <2>14, <1>1, <1>2 DEF IInv
<1> QED
    BY <1>4, <1>5

\* Returned keeps the invariant.
LEMMA ReturnedKeeps ==
    ASSUME IInv, Returned
    PROVE  IInv'
<1> DEFINE u == Tail(stack)
<1>1. /\ stack # <<>> /\ stack \in Seq(FrameType) /\ stack[1].kind = "return"
      /\ 1 \in 1 .. Len(stack) /\ Core(heap, hooks, proxies, cache, held, argument, stack, {})
    BY TopIs DEF Returned
<1>2. DecRef(heap, argument, u) /\ UNCHANGED <<proxies, cache, held, argument>>
    BY DEF Returned
<1>3. Core(heap, hooks, proxies, cache, held, argument, u, {argument})
    BY <1>1, Pops
<1>4. Passed(proxies, argument, u)
  <2> SUFFICES ASSUME NEW q \in Proxy, proxies[q].state # "none", proxies[q].cell = "argument"
               PROVE  FALSE
      BY DEF Passed
  <2>1. stack[1].kind \notin Deleting
      BY <1>1 DEF Deleting
  <2>2. PICK i \in 1 .. Len(stack) : stack[i].kind = "callback" /\ stack[i].proxy = q
      BY <2>1, NoArguments
  <2> QED
      BY <2>2, <1>1 DEF Core, Shaped, Calling
<1>5. State(heap, hooks, proxies, cache, held, argument, u, {argument})
    BY <1>3, <1>4 DEF State, Core
<1>6. /\ Len(u) \in Nat /\ Len(u) > 0 => 1 \in 1 .. Len(u)
      /\ Len(u) > 0 => u[1].kind # "del" /\ u[1].kind # "clear"
    BY <1>1, ShapedTail, TailIs DEF Core, Calling
<1>7. argument \in Addr
    BY DEF IInv, State, Typed
<1>8. State(heap, hooks, proxies', cache', held', argument', u, {argument})
    BY <1>2, <1>5
<1> HIDE DEF u
<1> QED
    BY <1>2, <1>6, <1>7, <1>8, Dropped DEF IInv

\* Del keeps the invariant.
LEMMA DelKeeps ==
    ASSUME IInv, Del
    PROVE  IInv'
<1> DEFINE p == stack[1].proxy
           k == proxies[p].key
           f == Frame("clear", p)
           t == <<f>> \o Tail(stack)
<1>1. /\ stack # <<>> /\ stack \in Seq(FrameType) /\ Len(stack) \in Nat /\ Len(stack) > 0
      /\ stack[1].kind = "del" /\ 1 \in 1 .. Len(stack) /\ Head(stack) = stack[1]
      /\ Core(heap, hooks, proxies, cache, held, argument, stack, {})
    BY TopIs DEF Del
<1>2. /\ Typed(heap, hooks, proxies, cache, held, argument, stack) /\ Keyed(proxies, cache)
      /\ Shaped(stack) /\ Reliable(heap, {}, proxies, held, stack)
      /\ Owned(heap, {}, proxies, cache, argument, stack)
      /\ Passed(proxies, argument, stack)
    BY DEF IInv, State
<1>3. p \in Proxy /\ proxies[p].state = "dying" /\ p \notin held
    BY <1>1, <1>2 DEF Shaped, Reliable, Deleting
<1>4. Value(p) = k /\ k \in Addr /\ cache[k] = p /\ p # NoProxy
    BY <1>3, ValueIs
<1>5. DecRef(heap, k, t) /\ UNCHANGED <<proxies, cache, held, argument>>
    BY <1>1, <1>4 DEF Del
<1>6. f \in FrameType /\ f.kind = "clear" /\ f.proxy = p
    BY <1>3 DEF Frame, FrameType, Deleting
<1>7. /\ t \in Seq(FrameType) /\ Len(t) = Len(stack) /\ t[1] = f
      /\ \A i \in 1 .. Len(stack) : i # 1 => t[i] = stack[i]
    BY <1>1, <1>6, SwapIs
<1>8. Shaped(t)
    BY <1>1, <1>2, <1>6, ShapedSwap
<1> HIDE DEF f, t, p, k
<1>9. Typed(heap, hooks, proxies, cache, held, argument, t)
    BY <1>2, <1>7 DEF Typed
<1>10. Reliable(heap, {k}, proxies, held, t)
  <2>1. \A q : Bereft(heap, {}, proxies, q) => Bereft(heap, {k}, proxies, q)
      BY DEF Bereft, Gone
  <2>2. ASSUME NEW i \in 1 .. Len(t)
        PROVE  LET q == t[i].proxy IN
               /\ t[i].kind = "callback" => proxies[q].state = "live"
               /\ t[i].kind # "del"
               /\ t[i].kind = "clear" => /\ proxies[q].state \in {"dying", "finalized"}
                                         /\ (i = 1 /\ q \notin held)
                                               \/ Bereft(heap, {k}, proxies, q)
    <3>1. CASE i = 1
        BY <3>1, <1>3, <1>6, <1>7
    <3>2. CASE i # 1
      <4>1. t[i] = stack[i] /\ i \in 1 .. Len(stack) /\ stack[i].kind # "del"
          BY <3>2, <1>2, <1>7 DEF Shaped
      <4>2. stack[i].kind = "callback" => proxies[stack[i].proxy].state = "live"
          BY <4>1, <1>2 DEF Reliable
      <4>3. stack[i].kind = "clear" =>
                /\ proxies[stack[i].proxy].state \in {"dying", "finalized"}
                /\ Bereft(heap, {k}, proxies, stack[i].proxy)
          BY <2>1, <3>2, <4>1, <1>2 DEF Reliable
      <4> QED
          BY <4>1, <4>2, <4>3
    <3> QED
        BY <3>1, <3>2
  <2>3. ASSUME NEW q \in Proxy, proxies[q].state = "dying"
        PROVE  \E i \in 1 .. Len(t) : t[i].kind \in Deleting /\ t[i].proxy = q
    <3>1. PICK i \in 1 .. Len(stack) : stack[i].kind \in Deleting /\ stack[i].proxy = q
        BY <2>3, <1>2 DEF Reliable
    <3>2. CASE i = 1
        BY <3>1, <3>2, <1>1, <1>6, <1>7 DEF Deleting, p
    <3>3. CASE i # 1
        BY <3>1, <3>3, <1>7
    <3> QED
        BY <3>2, <3>3
  <2>4. \A q \in Proxy : proxies[q].state = "finalized" => Bereft(heap, {k}, proxies, q)
      BY <2>1, <1>2 DEF Reliable
  <2>5. \A q \in held : proxies[q].state # "none"
      BY <1>2 DEF Reliable
  <2> QED
      BY <2>2, <2>3, <2>4, <2>5 DEF Reliable
<1>11. Owned(heap, {k}, proxies, cache, argument, t)
  <2> SUFFICES ASSUME NEW a \in Addr
               PROVE  /\ heap[a].refs = heap[a].stored + One(ByProxy(proxies, cache, t, a))
                              + One(ByOutput(proxies, cache, a))
                              + One(ByCall(argument, t, a)) + One(a \in {k})
                      /\ heap[a].kind = "free" <=> heap[a].refs = 0
      BY DEF Owned
  <2>1. /\ heap[a].refs = heap[a].stored + One(ByProxy(proxies, cache, stack, a))
                          + One(ByOutput(proxies, cache, a))
                          + One(ByCall(argument, stack, a)) + One(a \in {})
        /\ heap[a].kind = "free" <=> heap[a].refs = 0
      BY <1>2 DEF Owned
  <2>2. One(ByCall(argument, stack, a)) = One(ByCall(argument, t, a))
    <3>1. stack[1].kind \notin Calling /\ t[1].kind \notin Calling
        BY <1>1, <1>6, <1>7 DEF Calling
    <3>2. \A i \in 1 .. Len(stack) : stack[i].kind \in Calling <=> t[i].kind \in Calling
        BY <3>1, <1>7
    <3> QED
        BY <3>2, <1>7 DEF ByCall, One
  <2>3. One(ByProxy(proxies, cache, stack, a)) + One(a \in {})
        = One(ByProxy(proxies, cache, t, a)) + One(a \in {k})
    <3>1. CASE a = k
      <4>1. ByProxy(proxies, cache, stack, a) /\ ~ByProxy(proxies, cache, t, a)
          BY <3>1, <1>1, <1>3, <1>4, <1>6, <1>7 DEF ByProxy, OwnedBy, p
      <4> QED
          BY <3>1, <4>1 DEF One
    <3>2. CASE a # k
      <4>1. cache[a] # p
          BY <3>2, <1>2, <1>4 DEF Keyed, k
      <4>2. ByProxy(proxies, cache, stack, a) <=> ByProxy(proxies, cache, t, a)
          BY <4>1, <1>1, <1>6, <1>7 DEF ByProxy, OwnedBy, p
      <4> QED
          BY <3>2, <4>2 DEF One
    <3> QED
        BY <3>1, <3>2
  <2> DEFINE m == heap[a].stored
             b == One(ByOutput(proxies, cache, a))
             c == One(ByCall(argument, t, a))
             x == One(ByProxy(proxies, cache, stack, a))
             y == One(ByProxy(proxies, cache, t, a))
             z == One(a \in {k})
             w == One(a \in {})
  <2>4. /\ m \in Int /\ b \in Int /\ c \in Int
        /\ x \in Int /\ y \in Int /\ z \in Int /\ w \in Int
      BY <1>2 DEF One, Typed
  <2>5. heap[a].refs = m + x + b + c + w /\ x + w = y + z
      BY <2>1, <2>2, <2>3
  <2> HIDE DEF m, b, c, x, y, z, w
  <2>6. heap[a].refs = m + y + b + c + z
      BY <2>4, <2>5
  <2> QED
      BY <2>1, <2>6 DEF m, y, b, c, z
<1>12. Passed(proxies, argument, t)
  <2> SUFFICES ASSUME NEW q \in Proxy, proxies[q].state # "none", proxies[q].cell = "argument"
               PROVE  /\ proxies[q].key = argument
                      /\ \/ \E i \in 1 .. Len(t) : t[i].kind = "callback" /\ t[i].proxy = q
                         \/ /\ Len(t) >= 2 /\ t[1].kind \in Deleting /\ t[1].proxy = q
                            /\ t[2].kind = "return"
      BY DEF Passed
  <2>1. proxies[q].key = argument
      BY <1>2 DEF Passed
  <2>2. CASE \E i \in 1 .. Len(stack) : stack[i].kind = "callback" /\ stack[i].proxy = q
    <3>1. PICK i \in 1 .. Len(stack) : stack[i].kind = "callback" /\ stack[i].proxy = q
        BY <2>2
    <3>2. i # 1
        BY <3>1, <1>1
    <3>3. i \in 1 .. Len(t) /\ t[i] = stack[i]
        BY <3>2, <1>7
    <3> QED
        BY <2>1, <3>1, <3>3
  <2>3. CASE /\ Len(stack) >= 2 /\ stack[1].kind \in Deleting /\ stack[1].proxy = q
             /\ stack[2].kind = "return"
    <3>1. 2 \in 1 .. Len(stack)
        BY <2>3, <1>1
    <3>2. t[2] = stack[2]
        BY <3>1, <1>7
    <3> QED
        BY <2>1, <2>3, <3>2, <1>6, <1>7 DEF Deleting, p
  <2> QED
      BY <2>2, <2>3, <1>2 DEF Passed
<1>13. State(heap, hooks, proxies, cache, held, argument, t, {k})
    BY <1>2, <1>8, <1>9, <1>10, <1>11, <1>12 DEF State
<1>14. State(heap, hooks, proxies', cache', held', argument', t, {k})
    BY <1>5, <1>13
<1>15. t[1].kind # "del" /\ proxies'[t[1].proxy].key = k
    BY <1>5, <1>6, <1>7 DEF k
<1> QED
    BY <1>4, <1>5, <1>14, <1>15, Dropped DEF IInv

\* Clear keeps the invariant.
LEMMA ClearKeeps ==
    ASSUME IInv, Clear
    PROVE  IInv'
<1> DEFINE p == stack[1].proxy
           k == proxies[p].key
           u == Tail(stack)
<1>1. /\ stack # <<>> /\ stack \in Seq(FrameType) /\ Len(stack) \in Nat /\ Len(stack) > 0
      /\ stack[1].kind = "clear" /\ 1 \in 1 .. Len(stack) /\ Head(stack) = stack[1]
      /\ Core(heap, hooks, proxies, cache, held, argument, stack, {})
    BY TopIs DEF Clear
<1>2. /\ \/ /\ p \in held
            /\ proxies' = [proxies EXCEPT ![p].state = "finalized"]
            /\ stack' = u /\ UNCHANGED <<heap, hooks, cache>>
         \/ /\ p \notin held
            /\ proxies' = [proxies EXCEPT ![p] = NoObject]
            /\ cache' = [cache EXCEPT ![k] = IF @ = p THEN NoProxy ELSE @]
            /\ IF proxies[p].cell = "output" THEN DecRef(heap, k, u)
               ELSE stack' = u /\ UNCHANGED <<heap, hooks>>
      /\ UNCHANGED <<held, argument>>
    BY <1>1 DEF Clear
<1>3. /\ Typed(heap, hooks, proxies, cache, held, argument, stack) /\ Keyed(proxies, cache)
      /\ Shaped(stack) /\ Reliable(heap, {}, proxies, held, stack)
      /\ Owned(heap, {}, proxies, cache, argument, stack)
      /\ Passed(proxies, argument, stack)
    BY DEF IInv, State
<1>4. p \in Proxy /\ proxies[p].state \in {"dying", "finalized"}
    BY <1>1, <1>3 DEF Shaped, Reliable, Deleting
<1>5. k \in Addr /\ cache[k] = p
    BY <1>4, ValueIs
<1>6. /\ Len(u) \in Nat /\ Len(u) > 0 => 1 \in 1 .. Len(u)
      /\ Len(u) > 0 => u[1].kind # "del" /\ u[1].kind # "clear"
      /\ \A i \in 1 .. Len(stack) : i = 1 \/ (i - 1 \in 1 .. Len(u) /\ u[i - 1] = stack[i])
    BY <1>1, ShapedTail, TailIs DEF Core, Calling
<1> HIDE DEF u
<1>7. ASSUME NEW q \in Proxy, q # p, proxies[q].state # "none", proxies[q].cell = "argument"
      PROVE  /\ proxies[q].key = argument
             /\ \E i \in 1 .. Len(u) : u[i].kind = "callback" /\ u[i].proxy = q
  <2>1. /\ proxies[q].key = argument
        /\ \E i \in 1 .. Len(stack) : stack[i].kind = "callback" /\ stack[i].proxy = q
      BY <1>3, <1>7 DEF Passed
  <2>2. PICK i \in 1 .. Len(stack) : stack[i].kind = "callback" /\ stack[i].proxy = q
      BY <2>1
  <2>3. i - 1 \in 1 .. Len(u) /\ u[i - 1] = stack[i]
      BY <2>2, <1>1, <1>6
  <2> QED
      BY <2>1, <2>2, <2>3
<1>8. CASE p \in held
  <2> DEFINE px2 == [proxies EXCEPT ![p].state = "finalized"]
  <2>1. proxies' = px2 /\ stack' = u /\ UNCHANGED <<heap, hooks, cache, held, argument>>
      BY <1>2, <1>8
  <2>2. Bereft(heap, {}, proxies, p)
      BY <1>1, <1>3, <1>8 DEF Reliable
  <2>3. /\ px2 \in [Proxy -> [state : {"none", "live", "dying", "finalized"},
                              cell : {"own", "output", "argument"},
                              key : Addr \cup {NoProxy}]]
        /\ px2[p].cell = proxies[p].cell /\ px2[p].key = proxies[p].key
        /\ px2[p].state = "finalized"
        /\ \A q \in Proxy : q # p => px2[q] = proxies[q]
      BY <1>3, <1>4 DEF Typed
  <2> HIDE DEF px2, p, k
  <2>4. \A q \in Proxy : /\ px2[q].cell = proxies[q].cell /\ px2[q].key = proxies[q].key
                         /\ px2[q].state # "none" <=> proxies[q].state # "none"
                         /\ px2[q].state = "live" <=> proxies[q].state = "live"
      BY <2>3, <1>4
  <2>5. \A q \in Proxy : Bereft(heap, {}, proxies, q) <=> Bereft(heap, {}, px2, q)
      BY <2>4 DEF Bereft
  <2>6. Core(heap, hooks, px2, cache, held, argument, stack, {})
    <3>1. Keyed(px2, cache)
        BY <2>4, <1>3 DEF Keyed, Typed
    <3>2. Reliable(heap, {}, px2, held, stack)
      <4>1. \A q \in held : px2[q].state # "none"
          BY <2>4, <1>3 DEF Typed, Reliable
      <4>2. ASSUME NEW i \in 1 .. Len(stack)
            PROVE  LET q == stack[i].proxy IN
                   /\ stack[i].kind = "callback" => px2[q].state = "live"
                   /\ stack[i].kind # "del"
                   /\ stack[i].kind = "clear" => /\ px2[q].state \in {"dying", "finalized"}
                                                 /\ (i = 1 /\ q \notin held)
                                                       \/ Bereft(heap, {}, px2, q)
        <5> DEFINE q == stack[i].proxy
        <5>1. stack[i].kind \in Deleting \cup {"callback"} => q \in Proxy
            BY <1>3 DEF Shaped
        <5>2. stack[i].kind # "del"
            BY <1>1, <1>3 DEF Shaped
        <5>3. stack[i].kind = "callback" => px2[q].state = "live"
            BY <5>1, <2>4, <1>3 DEF Reliable
        <5>4. ASSUME stack[i].kind = "clear"
              PROVE  /\ px2[q].state \in {"dying", "finalized"}
                     /\ (i = 1 /\ q \notin held) \/ Bereft(heap, {}, px2, q)
          <6>1. q \in Proxy
              BY <5>1, <5>4 DEF Deleting
          <6>2. /\ proxies[q].state \in {"dying", "finalized"}
                /\ (i = 1 /\ q \notin held) \/ Bereft(heap, {}, proxies, q)
              BY <5>4, <1>3 DEF Reliable
          <6>3. px2[q].state \in {"dying", "finalized"}
              BY <6>1, <6>2, <2>3
          <6> QED
              BY <6>1, <6>2, <6>3, <2>5
        <5> QED
            BY <5>2, <5>3, <5>4
      <4>3. \A q \in Proxy : px2[q].state = "dying" =>
                \E i \in 1 .. Len(stack) : stack[i].kind \in Deleting /\ stack[i].proxy = q
          BY <2>3, <1>3 DEF Reliable
      <4>4. \A q \in Proxy : px2[q].state = "finalized" => Bereft(heap, {}, px2, q)
          BY <2>2, <2>3, <2>5, <1>3 DEF Reliable
      <4> QED
          BY <4>1, <4>2, <4>3, <4>4 DEF Reliable
    <3>3. Owned(heap, {}, px2, cache, argument, stack)
      <4>1. \A a \in Addr : cache[a] # NoProxy => cache[a] \in Proxy
          BY <1>3 DEF Typed
      <4>2. \A a \in Addr :
                /\ ByProxy(px2, cache, stack, a) <=> ByProxy(proxies, cache, stack, a)
                /\ ByOutput(px2, cache, a) <=> ByOutput(proxies, cache, a)
          BY <4>1, <2>4 DEF ByProxy, OwnedBy, ByOutput
      <4> QED
          BY <4>2, <1>3 DEF Owned, One
    <3>4. Typed(heap, hooks, px2, cache, held, argument, stack)
        BY <2>3, <1>3 DEF Typed
    <3> QED
        BY <3>1, <3>2, <3>3, <3>4, <1>3 DEF Core
  <2>7. Core(heap, hooks, px2, cache, held, argument, u, {})
    <3>1. px2[stack[1].proxy].state # "dying"
        BY <2>3 DEF p
    <3>2. {} = IF stack[1].kind = "return" THEN {argument} ELSE {}
        BY <1>1
    <3> QED
        BY <3>1, <3>2, <2>6, <1>1, Pops DEF u
  <2>8. Passed(px2, argument, u)
    <3>1. px2[p].cell # "argument"
        BY <2>2, <2>3 DEF Bereft
    <3> QED
        BY <3>1, <2>3, <1>7 DEF Passed
  <2> QED
      BY <2>1, <2>7, <2>8 DEF IInv, State, Core
<1>9. CASE p \notin held
  <2> DEFINE px2 == [proxies EXCEPT ![p] = NoObject]
             ca2 == [cache EXCEPT ![k] = NoProxy]
             T == IF proxies[p].cell = "output" THEN {k} ELSE {}
  <2>1. proxies' = px2 /\ cache' = ca2 /\ UNCHANGED <<held, argument>>
      BY <1>2, <1>5, <1>9
  <2>2. Core(heap, hooks, px2, ca2, held, argument, u, T)
      BY <1>1, <1>4, <1>9, Clears DEF u
  <2>3. px2[p].cell = "own" /\ \A q \in Proxy : q # p => px2[q] = proxies[q]
      BY <1>3, <1>4 DEF Typed, NoObject
  <2> HIDE DEF px2, ca2
  <2>4. Passed(px2, argument, u)
      BY <2>3, <1>7 DEF Passed
  <2>5. State(heap, hooks, proxies', cache', held', argument', u, T)
      BY <2>1, <2>2, <2>4 DEF State, Core
  <2>6. CASE proxies[p].cell = "output"
    <3>1. DecRef(heap, k, u)
        BY <1>2, <1>9, <2>6
    <3>2. State(heap, hooks, proxies', cache', held', argument', u, {k})
        BY <2>5, <2>6
    <3> HIDE DEF k
    <3> QED
        BY <3>1, <3>2, <1>5, <1>6, Dropped DEF IInv
  <2>7. CASE proxies[p].cell # "output"
      BY <2>5, <2>7, <1>2, <1>9 DEF IInv
  <2> QED
      BY <2>6, <2>7
<1> QED
    BY <1>8, <1>9

\* FinalizerEnds keeps the invariant.
LEMMA FinalizerEndsKeeps ==
    ASSUME IInv, FinalizerEnds
    PROVE  IInv'
<1>1. /\ stack # <<>> /\ stack \in Seq(FrameType) /\ stack[1].kind = "finalizer"
      /\ Core(heap, hooks, proxies, cache, held, argument, stack, {})
    BY TopIs DEF FinalizerEnds
<1>2. stack' = Tail(stack) /\ UNCHANGED <<heap, hooks, proxies, cache, held, argument>>
    BY DEF FinalizerEnds
<1>3. {} = IF stack[1].kind = "return" THEN {argument} ELSE {}
    BY <1>1
<1>4. Core(heap, hooks, proxies, cache, held, argument, Tail(stack), {})
    BY <1>1, <1>3, Pops
<1>5. Passed(proxies, argument, Tail(stack))
  <2> SUFFICES ASSUME NEW q \in Proxy, proxies[q].state # "none", proxies[q].cell = "argument"
               PROVE  /\ proxies[q].key = argument
                      /\ \E i \in 1 .. Len(Tail(stack)) :
                             Tail(stack)[i].kind = "callback" /\ Tail(stack)[i].proxy = q
      BY DEF Passed
  <2>1. stack[1].kind \notin Deleting
      BY <1>1 DEF Deleting
  <2>2. proxies[q].key = argument
      BY <2>1, NoArguments
  <2>3. PICK i \in 1 .. Len(stack) : stack[i].kind = "callback" /\ stack[i].proxy = q
      BY <2>1, NoArguments
  <2>4. i - 1 \in 1 .. Len(Tail(stack)) /\ Tail(stack)[i - 1] = stack[i]
      BY <2>3, <1>1, TailIs
  <2> QED
      BY <2>2, <2>3, <2>4
<1> QED
    BY <1>2, <1>4, <1>5 DEF IInv, State, Core

\* Register keeps the invariant.
LEMMA RegisterKeeps ==
    ASSUME IInv, Register
    PROVE  IInv'
<1>1. /\ stack # <<>> /\ stack \in Seq(FrameType) /\ stack[1].kind = "register"
      /\ Core(heap, hooks, proxies, cache, held, argument, stack, {})
    BY TopIs DEF Register
<1>2. /\ stack' = Tail(stack) /\ UNCHANGED <<heap, proxies, cache, held, argument>>
      /\ hooks' = hooks \cup {stack[1].proxy}
    BY TopIs DEF Register
<1>3. {} = IF stack[1].kind = "return" THEN {argument} ELSE {}
    BY <1>1
<1>4. Core(heap, hooks, proxies, cache, held, argument, Tail(stack), {})
    BY <1>1, <1>3, Pops
<1>5. Passed(proxies, argument, Tail(stack))
  <2> SUFFICES ASSUME NEW q \in Proxy, proxies[q].state # "none", proxies[q].cell = "argument"
               PROVE  /\ proxies[q].key = argument
                      /\ \E i \in 1 .. Len(Tail(stack)) :
                             Tail(stack)[i].kind = "callback" /\ Tail(stack)[i].proxy = q
      BY DEF Passed
  <2>1. stack[1].kind \notin Deleting
      BY <1>1 DEF Deleting
  <2>2. proxies[q].key = argument
      BY <2>1, NoArguments
  <2>3. PICK i \in 1 .. Len(stack) : stack[i].kind = "callback" /\ stack[i].proxy = q
      BY <2>1, NoArguments
  <2>4. i - 1 \in 1 .. Len(Tail(stack)) /\ Tail(stack)[i - 1] = stack[i]
      BY <2>3, <1>1, TailIs
  <2> QED
      BY <2>2, <2>3, <2>4
<1>6. stack[1].proxy \in Addr
  <2>1. stack[1] \in FrameType
      BY TopIs DEF Register
  <2> QED
      BY <2>1, <1>1 DEF FrameType, Calling, Deleting
<1>7. Core(heap, hooks', proxies, cache, held, argument, Tail(stack), {})
    BY <1>2, <1>4, <1>6 DEF Core, Typed
<1> QED
    BY <1>2, <1>5, <1>7 DEF IInv, State, Core

(***************************************************************************)
(* The invariant holds, and what it says of the bindings.                  *)
(***************************************************************************)
\* The initial states satisfy the invariant.
LEMMA InitIsKept ==
    ASSUME Init
    PROVE  IInv
<1>1. Len(stack) = 0 /\ stack \in Seq(FrameType)
    BY DEF Init
<1>2. Typed(heap, hooks, proxies, cache, held, argument, stack)
    BY <1>1 DEF Init, Typed, Free, NoObject
<1>3. \A p \in Proxy : proxies[p].state = "none"
    BY DEF Init, NoObject
<1>4. \A a \in Addr : cache[a] = NoProxy /\ heap[a] = Free
    BY DEF Init
<1>5. Keyed(proxies, cache)
    BY <1>3, <1>4 DEF Keyed
<1>6. Shaped(stack)
    BY <1>1 DEF Shaped
<1>7. Reliable(heap, {}, proxies, held, stack)
    BY <1>1, <1>3 DEF Reliable, Init
<1>8. Passed(proxies, argument, stack)
    BY <1>3 DEF Passed
<1>9. Owned(heap, {}, proxies, cache, argument, stack)
    BY <1>1, <1>4 DEF Owned, ByProxy, ByOutput, ByCall, One, Free
<1> QED
    BY <1>2, <1>5, <1>6, <1>7, <1>8, <1>9 DEF IInv, State

\* Every step keeps the invariant.
LEMMA StepsKeep ==
    ASSUME IInv, [Next]_vars, ~CallbacksKeepArgs
    PROVE  IInv'
<1>1. CASE Create
    BY <1>1, CreateKeeps
<1>2. CASE Fetch
    BY <1>2, FetchKeeps
<1>3. CASE TakeOut
    BY <1>3, TakeOutKeeps
<1>4. CASE Store
    BY <1>4, StoreKeeps
<1>5. CASE Discard
    BY <1>5, DiscardKeeps
<1>6. CASE Release
    BY <1>6, ReleaseKeeps
<1>7. CASE Callback
    BY <1>7, CallbackKeeps
<1>8. CASE KeepArgument
    BY <1>8, KeepArgumentKeeps
<1>9. CASE CallbackReturns
    BY <1>9, CallbackReturnsKeeps
<1>10. CASE Returned
    BY <1>10, ReturnedKeeps
<1>11. CASE Del
    BY <1>11, DelKeeps
<1>12. CASE Clear
    BY <1>12, ClearKeeps
<1>13. CASE FinalizerEnds
    BY <1>13, FinalizerEndsKeeps
<1>14. CASE Register
    BY <1>14, RegisterKeeps
<1>15. CASE UNCHANGED vars
    BY <1>15 DEF IInv, vars
<1> QED
    BY <1>1, <1>2, <1>3, <1>4, <1>5, <1>6, <1>7, <1>8, <1>9, <1>10, <1>11, <1>12, <1>13,
       <1>14, <1>15 DEF Next

\* The invariant of the bindings, which the theorems below read off.
THEOREM ProxiesInvariant ==
    ASSUME ~CallbacksKeepArgs
    PROVE  Spec => []IInv
<1>1. Init => IInv
    BY InitIsKept
<1>2. IInv /\ [Next]_vars => IInv'
    BY StepsKeep
<1> QED
    BY <1>1, <1>2, PTL DEF Spec

\* _yp_pyobj_cache "ensures that at most one Python object exists per nohtyP
\* object" (yp.py, line 47): no two proxies that Python code can use have the
\* same value.
THEOREM OneProxyEach ==
    ASSUME ~CallbacksKeepArgs
    PROVE  Spec => []OneProxyPerObject
<1>1. IInv => OneProxyPerObject
  <2> SUFFICES ASSUME IInv, NEW p \in Proxy, NEW q \in Proxy,
                      Exposed(p), Exposed(q), Value(p) = Value(q)
               PROVE  p = q
      BY DEF OneProxyPerObject
  <2>1. proxies[p].state # "none" /\ proxies[q].state # "none"
      BY DEF Exposed
  <2> QED
      BY <2>1, ValueIs
<1> QED
    BY <1>1, ProxiesInvariant, PTL

\* Who owns a reference to the object at a, and how often.
LEMMA OwnersAre ==
    ASSUME IInv, NEW a \in Addr
    PROVE  /\ Cardinality(Owners(a)) = One(ByProxy(proxies, cache, stack, a))
           /\ Cardinality(Outputs(a)) = One(ByOutput(proxies, cache, a))
           /\ Cardinality(Calls(a)) = One(ByCall(argument, stack, a))
<1> DEFINE p == cache[a]
<1>1. /\ Shaped(stack) /\ Reliable(heap, {}, proxies, held, stack) /\ Keyed(proxies, cache)
      /\ Typed(heap, hooks, proxies, cache, held, argument, stack)
    BY DEF IInv, State
<1>2. Len(stack) \in Nat /\ DOMAIN stack = 1 .. Len(stack) /\ stack \in Seq(FrameType)
    BY StackIs
<1>3. p # NoProxy => p \in Proxy /\ proxies[p].state # "none" /\ Value(p) = a
    BY <1>1, ValueIs DEF Typed, Keyed
<1>4. \A q \in Proxy : (\E i \in DOMAIN stack : stack[i] = Frame("del", q))
                       <=> Len(stack) > 0 /\ stack[1].kind = "del" /\ stack[1].proxy = q
  <2> SUFFICES ASSUME NEW q \in Proxy
               PROVE  (\E i \in DOMAIN stack : stack[i] = Frame("del", q))
                      <=> Len(stack) > 0 /\ stack[1].kind = "del" /\ stack[1].proxy = q
      OBVIOUS
  <2>1. ASSUME NEW i \in DOMAIN stack, stack[i] = Frame("del", q)
        PROVE  Len(stack) > 0 /\ stack[1].kind = "del" /\ stack[1].proxy = q
    <3>1. stack[i].kind = "del" /\ stack[i].proxy = q
        BY <2>1 DEF Frame
    <3>2. i = 1 /\ Len(stack) > 0
        BY <3>1, <1>1, <1>2 DEF Shaped
    <3> QED
        BY <3>1, <3>2
  <2>2. ASSUME Len(stack) > 0, stack[1].kind = "del", stack[1].proxy = q
        PROVE  stack[1] = Frame("del", q) /\ 1 \in DOMAIN stack
    <3>1. 1 \in DOMAIN stack /\ stack[1] \in FrameType
        BY <2>2, <1>2
    <3> QED
        BY <3>1, <2>2 DEF Frame, FrameType
  <2> QED
      BY <2>1, <2>2
<1>5. \A q \in Proxy : OwnedBy(proxies, stack, q) => proxies[q].state # "none"
  <2>1. Len(stack) > 0 /\ stack[1].kind = "del" => proxies[stack[1].proxy].state = "dying"
      BY <1>1, <1>2 DEF Reliable
  <2> QED
      BY <2>1 DEF OwnedBy
<1>6. Owners(a) = {q \in Proxy : Value(q) = a /\ OwnedBy(proxies, stack, q)}
    BY <1>4 DEF Owners, OwnedBy, Live
<1>7. Owners(a) = IF ByProxy(proxies, cache, stack, a) THEN {p} ELSE {}
  <2>1. \A q \in Proxy : proxies[q].state # "none" /\ Value(q) = a => q = p /\ p # NoProxy
      BY ValueIs
  <2> QED
      BY <2>1, <1>3, <1>5, <1>6 DEF ByProxy
<1>8. Outputs(a) = IF ByOutput(proxies, cache, a) THEN {p} ELSE {}
  <2>1. \A q \in Proxy : proxies[q].state # "none" /\ proxies[q].key = a =>
            q = p /\ p # NoProxy
      BY ValueIs
  <2>2. p # NoProxy => proxies[p].key = a
      BY <1>1 DEF Keyed
  <2> QED
      BY <2>1, <2>2, <1>3 DEF Outputs, ByOutput
<1>9. Cardinality(Calls(a)) = One(ByCall(argument, stack, a))
  <2>1. Calls(a) = {i \in 1 .. Len(stack) : stack[i].kind \in Calling /\ argument = a}
      BY <1>2 DEF Calls, Frames, Calling
  <2>2. CASE ByCall(argument, stack, a)
    <3>1. PICK i \in 1 .. Len(stack) : stack[i].kind \in Calling /\ argument = a
        BY <2>2 DEF ByCall
    <3>2. Calls(a) = {i}
        BY <2>1, <3>1, <1>1 DEF Shaped
    <3>3. Cardinality({i}) = 1
        BY FS_Singleton
    <3> QED
        BY <2>2, <3>2, <3>3 DEF One
  <2>3. CASE ~ByCall(argument, stack, a)
    <3>1. Calls(a) = {}
        BY <2>1, <2>3 DEF ByCall
    <3> QED
        BY <2>3, <3>1, FS_EmptySet DEF One
  <2> QED
      BY <2>2, <2>3
<1>10. Cardinality({p}) = 1 /\ Cardinality({}) = 0
    BY FS_Singleton, FS_EmptySet
<1> HIDE DEF p
<1> QED
    BY <1>7, <1>8, <1>9, <1>10 DEF One

\* Every reference has an owner, so that nothing leaks, and no proxy stands
\* for an object that is gone: yp_func_errcheck steals what calls return,
\* _yp_transmute_and_cache counts what it borrows, and __del__ gives it up.
THEOREM ReferencesAreOwned ==
    ASSUME ~CallbacksKeepArgs
    PROVE  Spec => []ReferencesOwned
<1>1. IInv => ReferencesOwned
  <2> SUFFICES ASSUME IInv, NEW a \in Addr
               PROVE  heap[a].refs = heap[a].stored + Cardinality(Owners(a))
                          + Cardinality(Outputs(a)) + Cardinality(Calls(a))
      BY DEF ReferencesOwned
  <2>1. heap[a].refs = heap[a].stored + One(ByProxy(proxies, cache, stack, a))
                       + One(ByOutput(proxies, cache, a)) + One(ByCall(argument, stack, a))
                       + One(a \in {})
      BY DEF IInv, State, Owned
  <2>2. /\ heap[a].stored \in Int /\ One(a \in {}) = 0
        /\ One(ByProxy(proxies, cache, stack, a)) \in Int
        /\ One(ByOutput(proxies, cache, a)) \in Int
        /\ One(ByCall(argument, stack, a)) \in Int
      BY HeapIs DEF One, Record
  <2>3. heap[a].refs = heap[a].stored + One(ByProxy(proxies, cache, stack, a))
                       + One(ByOutput(proxies, cache, a)) + One(ByCall(argument, stack, a))
      BY <2>1, <2>2
  <2> QED
      BY <2>3, OwnersAre
<1> QED
    BY <1>1, ProxiesInvariant, PTL


(***************************************************************************)
(* The callbacks of objects, whatever callbacks do with their arguments.   *)
(***************************************************************************)
Counted == [kind : {"free", "value", "callback"}, refs : Int, stored : Int]
\* Each object with a callback has it registered.
Hooked(h, hk) == \A a \in Addr : h[a].kind = "callback" => a \in hk
HooksInv == heap \in [Addr -> Counted] /\ Hooked(heap, hooks)

\* A call changes counts and no kind.
LEMMA SameKind ==
    ASSUME NEW h \in [Addr -> Counted], NEW hk, Hooked(h, hk), NEW a \in Addr,
           NEW v \in Counted, v.kind = h[a].kind
    PROVE  [h EXCEPT ![a] = v] \in [Addr -> Counted] /\ Hooked([h EXCEPT ![a] = v], hk)
<1> DEFINE h2 == [h EXCEPT ![a] = v]
<1>1. h2 \in [Addr -> Counted] /\ h2[a] = v /\ \A b \in Addr : b # a => h2[b] = h[b]
    OBVIOUS
<1> HIDE DEF h2
<1>2. \A b \in Addr : h2[b].kind = h[b].kind
    BY <1>1
<1>3. Hooked(h2, hk)
    BY <1>2 DEF Hooked
<1> QED
    BY <1>1, <1>3 DEF h2

\* ypObject_INCREF and yp_decref, and what containers take and give up.
LEMMA CountsChange ==
    ASSUME NEW h \in [Addr -> Counted], NEW hk, Hooked(h, hk), NEW a \in Addr
    PROVE  /\ [h EXCEPT ![a].refs = @ + 1] \in [Addr -> Counted]
           /\ Hooked([h EXCEPT ![a].refs = @ + 1], hk)
           /\ [h EXCEPT ![a].refs = @ - 1] \in [Addr -> Counted]
           /\ Hooked([h EXCEPT ![a].refs = @ - 1], hk)
           /\ [h EXCEPT ![a].stored = @ - 1] \in [Addr -> Counted]
           /\ Hooked([h EXCEPT ![a].stored = @ - 1], hk)
           /\ [h EXCEPT ![a].refs = @ + 1, ![a].stored = @ + 1] \in [Addr -> Counted]
           /\ Hooked([h EXCEPT ![a].refs = @ + 1, ![a].stored = @ + 1], hk)
<1>1. /\ h[a] \in Counted /\ h[a].refs + 1 \in Int /\ h[a].refs - 1 \in Int
      /\ h[a].stored + 1 \in Int /\ h[a].stored - 1 \in Int
    BY DEF Counted
<1>2. /\ [h EXCEPT ![a].refs = @ + 1] \in [Addr -> Counted]
      /\ Hooked([h EXCEPT ![a].refs = @ + 1], hk)
  <2> DEFINE v == [h[a] EXCEPT !.refs = @ + 1]
  <2>1. v \in Counted /\ v.kind = h[a].kind
      BY <1>1 DEF Counted
  <2>2. [h EXCEPT ![a].refs = @ + 1] = [h EXCEPT ![a] = v]
      OBVIOUS
  <2> HIDE DEF v
  <2> QED
      BY <2>1, <2>2, SameKind
<1>3. /\ [h EXCEPT ![a].refs = @ - 1] \in [Addr -> Counted]
      /\ Hooked([h EXCEPT ![a].refs = @ - 1], hk)
  <2> DEFINE v == [h[a] EXCEPT !.refs = @ - 1]
  <2>1. v \in Counted /\ v.kind = h[a].kind
      BY <1>1 DEF Counted
  <2>2. [h EXCEPT ![a].refs = @ - 1] = [h EXCEPT ![a] = v]
      OBVIOUS
  <2> HIDE DEF v
  <2> QED
      BY <2>1, <2>2, SameKind
<1>4. /\ [h EXCEPT ![a].stored = @ - 1] \in [Addr -> Counted]
      /\ Hooked([h EXCEPT ![a].stored = @ - 1], hk)
  <2> DEFINE v == [h[a] EXCEPT !.stored = @ - 1]
  <2>1. v \in Counted /\ v.kind = h[a].kind
      BY <1>1 DEF Counted
  <2>2. [h EXCEPT ![a].stored = @ - 1] = [h EXCEPT ![a] = v]
      OBVIOUS
  <2> HIDE DEF v
  <2> QED
      BY <2>1, <2>2, SameKind
<1>5. /\ [h EXCEPT ![a].refs = @ + 1, ![a].stored = @ + 1] \in [Addr -> Counted]
      /\ Hooked([h EXCEPT ![a].refs = @ + 1, ![a].stored = @ + 1], hk)
  <2> DEFINE v == [h[a] EXCEPT !.refs = @ + 1, !.stored = @ + 1]
  <2>1. v \in Counted /\ v.kind = h[a].kind
      BY <1>1 DEF Counted
  <2>2. [h EXCEPT ![a].refs = @ + 1, ![a].stored = @ + 1] = [h EXCEPT ![a] = v]
      OBVIOUS
  <2> HIDE DEF v
  <2> QED
      BY <2>1, <2>2, SameKind
<1> QED
    BY <1>2, <1>3, <1>4, <1>5

\* yp_decref takes the callbacks of what it frees; of what is not an address
\* it changes nothing.
LEMMA HooksDropped ==
    ASSUME NEW h \in [Addr -> Counted], Hooked(h, hooks), NEW a, NEW fs, DecRef(h, a, fs)
    PROVE  HooksInv'
<1>1. CASE a \notin Addr
  <2>1. DOMAIN h = Addr
      OBVIOUS
  <2>2. heap' = h
      BY <2>1, <1>1 DEF DecRef
  <2>3. hooks' = hooks \/ hooks' = hooks \ {a}
      BY DEF DecRef, WithoutCallbacks
  <2>4. Hooked(h, hooks')
      BY <2>3, <1>1 DEF Hooked
  <2> QED
      BY <2>2, <2>4 DEF HooksInv
<1>2. CASE a \in Addr /\ h[a].refs > 1
  <2>1. heap' = [h EXCEPT ![a].refs = @ - 1] /\ hooks' = hooks
      BY <1>2 DEF DecRef
  <2>2. /\ [h EXCEPT ![a].refs = @ - 1] \in [Addr -> Counted]
        /\ Hooked([h EXCEPT ![a].refs = @ - 1], hooks)
      BY <1>2, CountsChange
  <2> QED
      BY <2>1, <2>2 DEF HooksInv
<1>3. CASE a \in Addr /\ ~(h[a].refs > 1)
  <2>1. heap' = [h EXCEPT ![a] = Free] /\ hooks' = hooks \ {a}
      BY <1>3 DEF DecRef, WithoutCallbacks
  <2>2. /\ heap' \in [Addr -> Counted] /\ heap'[a].kind = "free"
        /\ \A b \in Addr : b # a => heap'[b] = h[b]
      BY <2>1, <1>3 DEF Free, Counted
  <2> QED
      BY <2>1, <2>2 DEF HooksInv, Hooked
<1> QED
    BY <1>1, <1>2, <1>3

\* A call returns the object at a.
LEMMA HooksStolen ==
    ASSUME NEW h \in [Addr -> Counted], Hooked(h, hooks), NEW a, Steal(h, a)
    PROVE  HooksInv'
<1>1. CASE DecRef(h, a, stack)
    BY <1>1, HooksDropped
<1>2. CASE heap' = h /\ hooks' = hooks
    BY <1>2 DEF HooksInv
<1> QED
    BY <1>1, <1>2 DEF Steal

\* An object is made where there was none.
LEMMA HooksMade ==
    ASSUME HooksInv, NEW a \in Addr, heap[a].kind = "free",
           NEW kind \in {"value", "callback"}, NEW hk, hooks \subseteq hk,
           kind = "callback" => a \in hk
    PROVE  NewObject(kind, a) \in [Addr -> Counted] /\ Hooked(NewObject(kind, a), hk)
<1> DEFINE h == NewObject(kind, a)
<1> DEFINE v == [kind |-> kind, refs |-> 1, stored |-> 0]
<1>3. v \in Counted /\ v.kind = kind
    BY DEF Counted
<1>4. h = [heap EXCEPT ![a] = v]
    BY DEF NewObject
<1> HIDE DEF h, v
<1>1. /\ h \in [Addr -> Counted] /\ h[a].kind = kind
      /\ \A b \in Addr : b # a => h[b] = heap[b]
    BY <1>3, <1>4 DEF HooksInv
<1>5. Hooked(h, hk)
    BY <1>1 DEF HooksInv, Hooked
<1> QED
    BY <1>1, <1>5 DEF h

\* Every step keeps an object's callbacks with the object.
LEMMA HooksStep ==
    ASSUME HooksInv, [Next]_vars
    PROVE  HooksInv'
<1>1. heap \in [Addr -> Counted] /\ Hooked(heap, hooks)
    BY DEF HooksInv
<1>2. CASE Create
  <2>1. PICK a \in Addr :
          /\ ~Allocated(a)
          /\ \/ Steal(NewObject("value", a), a)
             \/ /\ heap' = NewObject("callback", a)
                /\ hooks' = hooks \cup {a}
             \/ DecRef(NewObject("callback", a), a,
                       <<Frame("register", Value(Cached(a)))>> \o stack)
      BY <1>2 DEF Create
  <2>2. heap[a].kind = "free"
      BY <2>1 DEF Allocated
  <2>3. CASE Steal(NewObject("value", a), a)
    <3>1. NewObject("value", a) \in [Addr -> Counted] /\ Hooked(NewObject("value", a), hooks)
        BY <2>2, HooksMade
    <3> QED
        BY <3>1, <2>3, HooksStolen
  <2>4. CASE heap' = NewObject("callback", a) /\ hooks' = hooks \cup {a}
    <3>1. /\ NewObject("callback", a) \in [Addr -> Counted]
          /\ Hooked(NewObject("callback", a), hooks \cup {a})
        BY <2>2, HooksMade
    <3> QED
        BY <3>1, <2>4 DEF HooksInv
  <2>5. CASE DecRef(NewObject("callback", a), a,
                    <<Frame("register", Value(Cached(a)))>> \o stack)
    \* The one reference there is: the object is freed.
    <3> DEFINE h == NewObject("callback", a)
    <3> DEFINE v == [kind |-> "callback", refs |-> 1, stored |-> 0]
    <3>4. v \in Counted /\ v.refs = 1
        BY DEF Counted
    <3>5. h = [heap EXCEPT ![a] = v]
        BY DEF NewObject
    <3>1. /\ h \in [Addr -> Counted] /\ h[a].refs = 1
          /\ \A b \in Addr : b # a => h[b] = heap[b]
      <4> HIDE DEF h, v
      <4> QED
          BY <1>1, <3>4, <3>5
    <3>2. heap' = [h EXCEPT ![a] = Free] /\ hooks' = hooks \ {a}
        BY <2>5, <3>1 DEF DecRef, WithoutCallbacks
    <3> HIDE DEF h
    <3>3. /\ heap' \in [Addr -> Counted] /\ heap'[a].kind = "free"
          /\ \A b \in Addr : b # a => heap'[b] = heap[b]
        BY <3>1, <3>2 DEF Free, Counted
    <3> QED
        BY <3>2, <3>3, <1>1 DEF HooksInv, Hooked
  <2> QED
      BY <2>1, <2>3, <2>4, <2>5
<1>3. CASE Fetch
  <2>1. PICK a \in Addr : \/ Steal([heap EXCEPT ![a].refs = @ + 1], a)
                          \/ Steal([heap EXCEPT ![a].stored = @ - 1], a)
      BY <1>3 DEF Fetch
  <2>2. PICK h : /\ Steal(h, a)
                 /\ \/ h = [heap EXCEPT ![a].refs = @ + 1]
                    \/ h = [heap EXCEPT ![a].stored = @ - 1]
      BY <2>1
  <2>3. h \in [Addr -> Counted] /\ Hooked(h, hooks)
    <3>1. CASE h = [heap EXCEPT ![a].refs = @ + 1]
        BY <3>1, <1>1, CountsChange
    <3>2. CASE h = [heap EXCEPT ![a].stored = @ - 1]
        BY <3>2, <1>1, CountsChange
    <3> QED
        BY <3>1, <3>2, <2>2
  <2> QED
      BY <2>2, <2>3, HooksStolen
<1>4. CASE TakeOut
  <2>1. PICK a \in Addr :
          LET h == [heap EXCEPT ![a].stored = @ - 1]
          IN  \/ DecRef(h, a, stack)
              \/ heap' = Borrowed(h, a) /\ hooks' = hooks
      BY <1>4 DEF TakeOut
  <2> DEFINE h == [heap EXCEPT ![a].stored = @ - 1]
  <2>2. h \in [Addr -> Counted] /\ Hooked(h, hooks)
      BY <1>1, CountsChange
  <2>3. DecRef(h, a, stack) \/ (heap' = Borrowed(h, a) /\ hooks' = hooks)
      BY <2>1
  <2> HIDE DEF h
  <2>4. CASE DecRef(h, a, stack)
      BY <2>2, <2>4, HooksDropped
  <2>5. CASE heap' = Borrowed(h, a) /\ hooks' = hooks
    <3>1. heap' = [h EXCEPT ![a].refs = @ + 1] /\ hooks' = hooks
        BY <2>5 DEF Borrowed
    <3>2. /\ [h EXCEPT ![a].refs = @ + 1] \in [Addr -> Counted]
          /\ Hooked([h EXCEPT ![a].refs = @ + 1], hooks)
        BY <2>2, CountsChange
    <3> QED
        BY <3>1, <3>2 DEF HooksInv
  <2> QED
      BY <2>3, <2>4, <2>5
<1>5. CASE Store
  <2>1. PICK p \in Reached :
          heap' = [heap EXCEPT ![Value(p)].refs = @ + 1, ![Value(p)].stored = @ + 1]
      BY <1>5 DEF Store
  <2>2. hooks' = hooks
      BY <1>5 DEF Store
  <2>3. CASE Value(p) \in Addr
    <3> DEFINE a == Value(p)
               h == [heap EXCEPT ![a].refs = @ + 1, ![a].stored = @ + 1]
    <3>1. heap' = h
        BY <2>1
    <3> HIDE DEF a
    <3>2. a \in Addr
        BY <2>3 DEF a
    <3>3. h \in [Addr -> Counted] /\ Hooked(h, hooks)
        BY <3>2, <1>1, CountsChange
    <3> HIDE DEF h
    <3> QED
        BY <3>1, <3>3, <2>2 DEF HooksInv
  <2>4. CASE Value(p) \notin Addr
    <3>1. DOMAIN heap = Addr
        BY <1>1
    <3>2. heap' = heap
        BY <2>1, <2>4, <3>1, <1>1
    <3> QED
        BY <3>2, <2>2 DEF HooksInv
  <2> QED
      BY <2>3, <2>4
<1>6. CASE Discard
  <2>1. PICK a \in Addr : DecRef([heap EXCEPT ![a].stored = @ - 1], a, stack)
      BY <1>6 DEF Discard
  <2> DEFINE h == [heap EXCEPT ![a].stored = @ - 1]
  <2>2. h \in [Addr -> Counted] /\ Hooked(h, hooks)
      BY <1>1, CountsChange
  <2>3. DecRef(h, a, stack)
      BY <2>1
  <2> HIDE DEF h
  <2> QED
      BY <2>2, <2>3, HooksDropped
<1>7. CASE Callback
  <2>1. hooks' = hooks
      BY <1>7 DEF Callback
  <2>2. PICK a \in Addr :
          LET h == [heap EXCEPT ![a].refs = @ + 1]
          IN  heap' = h \/ heap' = Borrowed(h, a)
      BY <1>7 DEF Callback
  <2> DEFINE h == [heap EXCEPT ![a].refs = @ + 1]
  <2>3. h \in [Addr -> Counted] /\ Hooked(h, hooks)
      BY <1>1, CountsChange
  <2>4. heap' = h \/ heap' = [h EXCEPT ![a].refs = @ + 1]
      BY <2>2 DEF Borrowed
  <2> HIDE DEF h
  <2>5. CASE heap' = h
      BY <2>1, <2>3, <2>5 DEF HooksInv
  <2>6. CASE heap' = [h EXCEPT ![a].refs = @ + 1]
    <3>1. /\ [h EXCEPT ![a].refs = @ + 1] \in [Addr -> Counted]
          /\ Hooked([h EXCEPT ![a].refs = @ + 1], hooks)
        BY <2>3, CountsChange
    <3> QED
        BY <3>1, <2>1, <2>6 DEF HooksInv
  <2> QED
      BY <2>4, <2>5, <2>6
<1>8. CASE Returned
    BY <1>1, <1>8, HooksDropped DEF Returned
<1>9. CASE Del
  <2>1. PICK a, fs : DecRef(heap, a, fs)
      BY <1>9 DEF Del
  <2> QED
      BY <2>1, <1>1, HooksDropped
<1>10. CASE Clear
  <2>1. \/ \E a, fs : DecRef(heap, a, fs)
        \/ UNCHANGED <<heap, hooks>>
      BY <1>10 DEF Clear
  <2> QED
      BY <2>1, <1>1, HooksDropped DEF HooksInv
<1>12. CASE Register
  <2>1. heap' = heap /\ hooks \subseteq hooks'
      BY <1>12 DEF Register
  <2> QED
      BY <2>1 DEF HooksInv, Hooked
<1>11. CASE \/ KeepArgument \/ CallbackReturns \/ Release \/ FinalizerEnds \/ UNCHANGED vars
  <2>1. UNCHANGED <<heap, hooks>>
      BY <1>11 DEF KeepArgument, CallbackReturns, Release, FinalizerEnds, vars
  <2> QED
      BY <2>1 DEF HooksInv
<1> QED
    BY <1>2, <1>3, <1>4, <1>5, <1>6, <1>7, <1>8, <1>9, <1>10, <1>11, <1>12 DEF Next

\* While an object exists its Python callback does (yp_free_hook and
\* _yp_reverse_refs), also when its proxy is gone, when the new object is freed
\* before its callback is registered, and when callbacks keep arguments.
THEOREM CallbacksLive == Spec => []CallbacksKept
<1>1. Init => HooksInv
    BY DEF Init, HooksInv, Hooked, Free, Counted
<1>2. HooksInv /\ [Next]_vars => HooksInv'
    BY HooksStep
<1>3. HooksInv => CallbacksKept
    BY DEF HooksInv, Hooked, CallbacksKept
<1> QED
    BY <1>1, <1>2, <1>3, PTL DEF Spec
=============================================================================
