----------------------------- MODULE ypDictProofs -----------------------------
(***************************************************************************)
(* Proofs about ypDict, for any dicts, keysets, keys, hashes, values and   *)
(* table sizes: the keysets and their counts, the values, what the steps   *)
(* leave alone, the size of a constructor's first keyset, and, at the end, *)
(* that dicts implement DictSpec.                                          *)
(***************************************************************************)
EXTENDS ypDict, ypOperatorProofs

(***************************************************************************)
(* Counting the users of a keyset.                                         *)
(***************************************************************************)
One(b) == IF b THEN 1 ELSE 0

Users(n) == {d \in Dicts : dicts[d].keyset = n}

\* One dict changes its keyset, or none does: if the counts change by as
\* much, they are still right.
LEMMA Recounted ==
    ASSUME RefsCountUsers, NEW d \in Dicts,
           \A e \in Dicts \ {d} : dicts'[e].keyset = dicts[e].keyset,
           \A n \in Keysets :
               keysets'[n].refs - One(dicts'[d].keyset = n) - One(resize'.ks = n)
               = keysets[n].refs - One(dicts[d].keyset = n) - One(resize.ks = n),
           \A n \in Keysets : keysets'[n].refs \in Int
    PROVE  RefsCountUsers'
<1> SUFFICES ASSUME NEW n \in Keysets
             PROVE  keysets'[n].refs = Cardinality(Users(n)') + One(resize'.ks = n)
    BY DEF RefsCountUsers, Users, One
<1> DEFINE Rest == {e \in Dicts \ {d} : dicts[e].keyset = n}
<1>1. IsFiniteSet(Rest) /\ Cardinality(Rest) \in Nat /\ d \notin Rest
    BY DictConstants, FS_Subset, FS_CardinalityType
<1>2. Cardinality(Users(n)) = Cardinality(Rest) + One(dicts[d].keyset = n)
  <2>1. CASE dicts[d].keyset = n
    <3>1. Users(n) = Rest \cup {d}
        BY <2>1 DEF Users
    <3> QED
        BY <3>1, <2>1, <1>1, FS_AddElement DEF One
  <2>2. CASE dicts[d].keyset # n
    <3>1. Users(n) = Rest
        BY <2>2 DEF Users
    <3> QED
        BY <3>1, <2>2, <1>1 DEF One
  <2> QED
      BY <2>1, <2>2
<1>3. Cardinality(Users(n)') = Cardinality(Rest) + One(dicts'[d].keyset = n)
  <2>1. CASE dicts'[d].keyset = n
    <3>1. Users(n)' = Rest \cup {d}
        BY <2>1 DEF Users
    <3> QED
        BY <3>1, <2>1, <1>1, FS_AddElement DEF One
  <2>2. CASE dicts'[d].keyset # n
    <3>1. Users(n)' = Rest
        BY <2>2 DEF Users
    <3> QED
        BY <3>1, <2>2, <1>1 DEF One
  <2> QED
      BY <2>1, <2>2
<1>4. keysets[n].refs = Cardinality(Users(n)) + One(resize.ks = n)
    BY DEF RefsCountUsers, Users, One
<1> QED
    BY <1>1, <1>2, <1>3, <1>4 DEF One

\* A keyset that nobody uses has no users, and one that somebody uses does
\* not look free.
LEMMA FreeUnused ==
    ASSUME RefsCountUsers, NEW n \in Keysets
    PROVE  /\ keysets[n].refs \in Nat
           /\ keysets[n].refs = 0 =>
                 resize.ks # n /\ \A d \in Dicts : dicts[d].keyset # n
           /\ resize.ks = n /\ (\A d \in Dicts : dicts[d].keyset # n) =>
                 keysets[n].refs = 1
<1>1. IsFiniteSet(Users(n)) /\ Cardinality(Users(n)) \in Nat
    BY DictConstants, FS_Subset, FS_CardinalityType DEF Users
<1>2. keysets[n].refs = Cardinality(Users(n)) + One(resize.ks = n)
    BY DEF RefsCountUsers, Users, One
<1>3. Cardinality(Users(n)) = 0 <=> Users(n) = {}
    BY <1>1, FS_EmptySet
<1> QED
    BY <1>1, <1>2, <1>3 DEF One, Users

\* There is memory for one more keyset than there are dicts.
LEMMA FreshExists ==
    ASSUME RefsCountUsers, resize.ks = NULL
    PROVE  FreshKeyset \in Keysets /\ keysets[FreshKeyset].refs = 0
<1> DEFINE Used == {dicts[d].keyset : d \in Dicts}
           f == [d \in Dicts |-> dicts[d].keyset]
<1>1. IsFiniteSet(Used) /\ Cardinality(Used) <= Cardinality(Dicts)
  <2>1. f \in Surjection(Dicts, Used)
      BY DEF Surjection
  <2> QED
      BY <2>1, DictConstants, FS_Surjection
<1>2. PICK n \in Keysets : n \notin Used
  <2>1. SUFFICES ASSUME Keysets \subseteq Used PROVE FALSE
      OBVIOUS
  <2>2. Cardinality(Keysets) <= Cardinality(Used)
      BY <1>1, <2>1, FS_Subset
  <2>3. /\ Cardinality(Keysets) \in Nat /\ Cardinality(Used) \in Nat
        /\ Cardinality(Dicts) \in Nat
      BY <1>1, DictConstants, FS_CardinalityType
  <2> QED
      BY <1>1, <2>2, <2>3, DictConstants
<1>3. Users(n) = {} /\ Cardinality({}) = 0
    BY <1>2, FS_EmptySet DEF Users
<1>4. keysets[n].refs = Cardinality(Users(n)) + One(resize.ks = n)
    BY DEF RefsCountUsers, Users, One
<1>5. keysets[n].refs = 0
    BY <1>3, <1>4, DictConstants DEF One
<1> QED
    BY <1>5 DEF FreshKeyset

(***************************************************************************)
(* Who uses what, between any two steps.                                   *)
(***************************************************************************)
Shapes ==
    /\ DOMAIN dicts = Dicts
    /\ \A d \in Dicts : DOMAIN dicts[d] = DOMAIN FreeDict
    /\ DOMAIN keysets = Keysets
    /\ \A n \in Keysets : DOMAIN keysets[n] = DOMAIN FreeKeyset
    /\ DOMAIN call = DOMAIN NoCall

Kinds == {"free", "dict", "frozendict"}

DictsPlaced ==
    \A d \in Dicts :
        /\ dicts[d].kind \in Kinds
        /\ dicts[d].keyset \in IF Free(d) THEN {NULL} ELSE Keysets

ResizePlaced ==
    \/ resize = NoResize
    \/ /\ ~Idle /\ call.item # NoItem /\ resize.ks \in Keysets
       /\ \A d \in Dicts : dicts[d].keyset # resize.ks

CallPlaced ==
    /\ call.op \in Ops \cup {"idle"}
    /\ Idle => call = NoCall
    /\ ~Idle => Self \in Dicts /\ ~Free(Self)

UsersInv ==
    Shapes /\ DictsPlaced /\ ResizePlaced /\ CallPlaced /\ RefsCountUsers

LEMMA InitUsers == Init => UsersInv
<1> SUFFICES ASSUME Init PROVE UsersInv
    OBVIOUS
<1>1. Shapes /\ DictsPlaced /\ ResizePlaced /\ CallPlaced
    BY DEF Init, Shapes, DictsPlaced, ResizePlaced, CallPlaced, FreeDict,
           FreeKeyset, NoCall, Kinds, Free, Idle
<1>2. ASSUME NEW n \in Keysets
      PROVE  {d \in Dicts : dicts[d].keyset = n} = {} /\ resize.ks # n
    BY DictConstants DEF Init, FreeDict, NoResize
<1>3. RefsCountUsers
    BY <1>2, FS_EmptySet DEF Init, RefsCountUsers, FreeKeyset
<1> QED
    BY <1>1, <1>3 DEF UsersInv

\* Steps after which everybody uses what they used before.
LEMMA UsersKept ==
    ASSUME UsersInv, Shapes', CallPlaced',
           \A d \in Dicts : /\ dicts'[d].keyset = dicts[d].keyset
                            /\ dicts'[d].kind \in Kinds
                            /\ dicts'[d].kind = "free" <=> dicts[d].kind = "free",
           \A n \in Keysets : keysets'[n].refs = keysets[n].refs,
           resize'.ks = resize.ks, resize = NoResize => resize' = NoResize,
           resize' # NoResize => ~Idle' /\ call'.item # NoItem
    PROVE  UsersInv'
<1>1. DictsPlaced'
    BY DEF UsersInv, DictsPlaced, Free
<1>2. ResizePlaced'
    BY DEF UsersInv, ResizePlaced
<1>3. ASSUME NEW n \in Keysets
      PROVE  {d \in Dicts : dicts'[d].keyset = n} = {d \in Dicts : dicts[d].keyset = n}
    OBVIOUS
<1>4. RefsCountUsers'
    BY <1>3 DEF UsersInv, RefsCountUsers
<1> QED
    BY <1>1, <1>2, <1>4 DEF UsersInv

\* A call that ends, or goes on with the same dict, disturbs nobody.
LEMMA CallEnds ==
    ASSUME UsersInv, resize = NoResize, UNCHANGED <<dicts, keysets, resize>>,
           \/ call' = NoCall
           \/ /\ DOMAIN call' = DOMAIN call /\ call'.op = call.op
              /\ call'.self = call.self /\ ~Idle
    PROVE  UsersInv'
<1>1. CallPlaced' /\ Shapes'
    BY DEF UsersInv, Shapes, CallPlaced, NoCall, Idle, Self, Free
<1> QED
    BY <1>1, UsersKept DEF UsersInv, DictsPlaced, Free

\* One dict is replaced, and the counts change with what it uses.
LEMMA OneDictPlaced ==
    ASSUME UsersInv, NEW d \in Dicts,
           DOMAIN dicts' = Dicts, \A e \in Dicts \ {d} : dicts'[e] = dicts[e],
           DOMAIN dicts'[d] = DOMAIN FreeDict, dicts'[d].kind \in Kinds,
           dicts'[d].keyset \in IF Free(d)' THEN {NULL} ELSE Keysets,
           DOMAIN keysets' = Keysets,
           \A n \in Keysets :
               /\ DOMAIN keysets'[n] = DOMAIN FreeKeyset
               /\ keysets'[n].refs - One(dicts'[d].keyset = n) - One(resize'.ks = n)
                  = keysets[n].refs - One(dicts[d].keyset = n) - One(resize.ks = n)
               /\ keysets'[n].refs \in Int,
           DOMAIN call' = DOMAIN NoCall, CallPlaced', ResizePlaced'
    PROVE  UsersInv'
<1>1. Shapes'
    BY DEF UsersInv, Shapes
<1>2. DictsPlaced'
    BY DEF UsersInv, DictsPlaced, Free
<1>3. RefsCountUsers'
    BY Recounted DEF UsersInv
<1> QED
    BY <1>1, <1>2, <1>3 DEF UsersInv

\* What the counts are after a keyset was released, and after one was made.
LEMMA ReleasedRefs ==
    ASSUME UsersInv, NEW o \in Keysets, keysets[o].refs # 0
    PROVE  /\ DOMAIN Release(keysets, o) = Keysets
           /\ \A n \in Keysets :
                 /\ DOMAIN Release(keysets, o)[n] = DOMAIN FreeKeyset
                 /\ Release(keysets, o)[n].refs = keysets[n].refs - One(n = o)
                 /\ keysets[n].refs \in Nat
<1>1. \A n \in Keysets : keysets[n].refs \in Nat
    BY FreeUnused DEF UsersInv
<1>2. FreeKeyset.refs = 0
    BY DEF FreeKeyset
<1>3. CASE keysets[o].refs = 1
  <2>1. Release(keysets, o) = [keysets EXCEPT ![o] = FreeKeyset]
      BY <1>3 DEF Release
  <2> QED
      BY <1>1, <1>2, <1>3, <2>1 DEF UsersInv, Shapes, One
<1>4. CASE keysets[o].refs # 1
  <2>1. Release(keysets, o) = [keysets EXCEPT ![o].refs = @ - 1]
      BY <1>4 DEF Release
  <2> QED
      BY <1>1, <2>1 DEF UsersInv, Shapes, One
<1> QED
    BY <1>3, <1>4

LEMMA NewKeysetRefs ==
    ASSUME NEW n
    PROVE  /\ NewKeyset(n).refs = 1
           /\ DOMAIN NewKeyset(n) = DOMAIN FreeKeyset
BY DEF NewKeyset, FreeKeyset

\* The keyset of a dict is in use.
LEMMA UsedKeyset ==
    ASSUME UsersInv, NEW d \in Dicts, ~Free(d)
    PROVE  dicts[d].keyset \in Keysets /\ keysets[dicts[d].keyset].refs # 0
<1>1. dicts[d].keyset \in Keysets
    BY DEF UsersInv, DictsPlaced
<1> QED
    BY <1>1, FreeUnused DEF UsersInv

(***************************************************************************)
(* Calls that are one step.                                                *)
(***************************************************************************)
LEMMA IdleState ==
    ASSUME UsersInv, Idle
    PROVE  resize = NoResize /\ resize.ks = NULL
BY DEF UsersInv, ResizePlaced, NoResize

LEMMA FailsUsers ==
    ASSUME UsersInv, Idle, NEW e, Fails(e)
    PROVE  UsersInv'
BY IdleState, CallEnds DEF Fails

LEMMA NewUsers ==
    ASSUME UsersInv, NEW d \in Dicts, New(d)
    PROVE  UsersInv'
<1> DEFINE n == FreshKeyset
           new == NewDict("dict", n, AllocLenMin, FALSE)
<1>0. Idle /\ Free(d) /\ resize.ks = NULL
    BY IdleState DEF New
<1>1. CASE Fails("MemoryError")
    BY <1>0, <1>1, FailsUsers
<1>2. CASE ~Fails("MemoryError")
  <2>0. /\ dicts' = [dicts EXCEPT ![d] = new]
        /\ keysets' = [keysets EXCEPT ![n] = NewKeyset(AllocLenMin)]
        /\ UNCHANGED <<call, resize>>
      BY <1>2 DEF New
  <2>1. n \in Keysets /\ keysets[n].refs = 0
      BY <1>0, FreshExists DEF UsersInv
  <2>2. /\ DOMAIN dicts' = Dicts /\ dicts'[d] = new
        /\ \A e \in Dicts \ {d} : dicts'[e] = dicts[e]
      BY <2>0 DEF UsersInv, Shapes
  <2>3. /\ DOMAIN dicts'[d] = DOMAIN FreeDict
        /\ dicts'[d].kind = "dict" /\ dicts'[d].keyset = n
      BY <2>2 DEF NewDict, FreeDict
  <2> HIDE DEF n, new
  <2>4. ASSUME NEW x \in Keysets
        PROVE  /\ DOMAIN keysets'[x] = DOMAIN FreeKeyset
               /\ keysets'[x].refs = IF x = n THEN 1 ELSE keysets[x].refs
               /\ keysets[x].refs \in Nat /\ dicts[d].keyset # x
      BY <1>0, <2>0, <2>1, NewKeysetRefs, FreeUnused, DictConstants
         DEF UsersInv, Shapes, DictsPlaced
  <2>5. \A x \in Keysets :
            /\ DOMAIN keysets'[x] = DOMAIN FreeKeyset
            /\ keysets'[x].refs - One(dicts'[d].keyset = x) - One(resize'.ks = x)
               = keysets[x].refs - One(dicts[d].keyset = x) - One(resize.ks = x)
            /\ keysets'[x].refs \in Int
      BY <2>0, <2>1, <2>3, <2>4 DEF One
  <2>6. DOMAIN keysets' = Keysets /\ DOMAIN call' = DOMAIN NoCall
      BY <2>0 DEF UsersInv, Shapes
  <2>7. CallPlaced' /\ ResizePlaced'
      BY <1>0, <2>0, IdleState DEF UsersInv, CallPlaced, ResizePlaced, Idle
  <2>8. dicts'[d].kind \in Kinds /\ dicts'[d].keyset \in IF Free(d)' THEN {NULL} ELSE Keysets
      BY <2>1, <2>3 DEF Kinds, Free
  <2> QED
      BY <2>2, <2>3, <2>5, <2>6, <2>7, <2>8, OneDictPlaced
<1> QED
    BY <1>1, <1>2

LEMMA CopyUsers ==
    ASSUME UsersInv, NEW d \in Dicts, NEW o \in Dicts,
           NEW type \in {"dict", "frozendict"}, Copy(d, o, type)
    PROVE  UsersInv'
<1> DEFINE k == dicts[o].keyset
           new == [NewDict(type, k, AllocLen(o), type = "frozendict")
                       EXCEPT !.values = dicts[o].values, !.len = dicts[o].len]
<1>0. Idle /\ Free(d) /\ ~Free(o) /\ resize.ks = NULL
    BY IdleState DEF Copy
<1>1. CASE Fails("MemoryError")
    BY <1>0, <1>1, FailsUsers
<1>2. CASE ~Fails("MemoryError")
  <2>0. /\ dicts' = [dicts EXCEPT ![d] = new] /\ keysets' = ShareKeyset(k)
        /\ UNCHANGED <<call, resize>>
      BY <1>2 DEF Copy
  <2>1. k \in Keysets
      BY <1>0, UsedKeyset
  <2>2. /\ DOMAIN dicts' = Dicts /\ dicts'[d] = new
        /\ \A e \in Dicts \ {d} : dicts'[e] = dicts[e]
      BY <2>0 DEF UsersInv, Shapes
  <2>3. /\ DOMAIN dicts'[d] = DOMAIN FreeDict
        /\ dicts'[d].kind = type /\ dicts'[d].keyset = k
      BY <2>2 DEF NewDict, FreeDict
  <2> HIDE DEF k, new
  <2>4. ASSUME NEW x \in Keysets
        PROVE  /\ DOMAIN keysets'[x] = DOMAIN FreeKeyset
               /\ keysets'[x].refs = keysets[x].refs + One(x = k)
               /\ keysets[x].refs \in Nat /\ dicts[d].keyset # x
      BY <1>0, <2>0, <2>1, FreeUnused, DictConstants
         DEF UsersInv, Shapes, DictsPlaced, ShareKeyset, One
  <2>5. \A x \in Keysets :
            /\ DOMAIN keysets'[x] = DOMAIN FreeKeyset
            /\ keysets'[x].refs - One(dicts'[d].keyset = x) - One(resize'.ks = x)
               = keysets[x].refs - One(dicts[d].keyset = x) - One(resize.ks = x)
            /\ keysets'[x].refs \in Int
      BY <2>0, <2>1, <2>3, <2>4 DEF One
  <2>6. DOMAIN keysets' = Keysets /\ DOMAIN call' = DOMAIN NoCall
      BY <2>0 DEF UsersInv, Shapes, ShareKeyset
  <2>7. CallPlaced' /\ ResizePlaced'
      BY <1>0, <2>0, IdleState DEF UsersInv, CallPlaced, ResizePlaced, Idle
  <2>8. dicts'[d].kind \in Kinds /\ dicts'[d].keyset \in IF Free(d)' THEN {NULL} ELSE Keysets
      BY <2>1, <2>3 DEF Kinds, Free
  <2> QED
      BY <2>2, <2>3, <2>5, <2>6, <2>7, <2>8, OneDictPlaced
<1> QED
    BY <1>1, <1>2

LEMMA FreezeUsers ==
    ASSUME UsersInv, NEW d \in Dicts, Freeze(d)
    PROVE  UsersInv'
<1>1. /\ Idle /\ ~Free(d) /\ resize = NoResize
      /\ dicts' = [dicts EXCEPT ![d].kind = "frozendict"]
      /\ UNCHANGED <<keysets, call, resize>>
    BY IdleState DEF Freeze, Mutable, Free
<1>2. /\ Shapes' /\ CallPlaced'
      /\ \A e \in Dicts : /\ dicts'[e].keyset = dicts[e].keyset
                          /\ dicts'[e].kind \in Kinds
                          /\ dicts'[e].kind = "free" <=> dicts[e].kind = "free"
    BY <1>1 DEF UsersInv, Shapes, CallPlaced, DictsPlaced, Free, Idle, FreeDict, Kinds
<1> QED
    BY <1>1, <1>2, UsersKept

\* A dict is freed, and its keyset released.
LEMMA FreedUsers ==
    ASSUME UsersInv, NEW d \in Dicts, ~Free(d), resize = NoResize,
           dicts' = [dicts EXCEPT ![d] = FreeDict],
           keysets' = Release(keysets, dicts[d].keyset), resize' = resize,
           call' = NoCall
    PROVE  UsersInv'
<1> DEFINE k == dicts[d].keyset
<1>1. /\ k \in Keysets /\ keysets[k].refs # 0 /\ resize.ks = NULL
      /\ FreeDict.keyset = NULL /\ FreeDict.kind = "free"
    BY UsedKeyset DEF NoResize, FreeDict
<1>2. /\ DOMAIN dicts' = Dicts /\ dicts'[d] = FreeDict
      /\ \A e \in Dicts \ {d} : dicts'[e] = dicts[e]
    BY DEF UsersInv, Shapes
<1> HIDE DEF k
<1>3. DOMAIN keysets' = Keysets
    BY <1>1, ReleasedRefs DEF k
<1>4. \A x \in Keysets :
          /\ DOMAIN keysets'[x] = DOMAIN FreeKeyset
          /\ keysets'[x].refs = keysets[x].refs - One(x = k)
          /\ keysets[x].refs \in Nat
    BY <1>1, ReleasedRefs DEF k
<1>5. \A x \in Keysets :
          /\ DOMAIN keysets'[x] = DOMAIN FreeKeyset
          /\ keysets'[x].refs - One(dicts'[d].keyset = x) - One(resize'.ks = x)
             = keysets[x].refs - One(dicts[d].keyset = x) - One(resize.ks = x)
          /\ keysets'[x].refs \in Int
    BY <1>1, <1>2, <1>4, DictConstants DEF One, k
<1>6. CallPlaced' /\ ResizePlaced' /\ DOMAIN call' = DOMAIN NoCall
    BY DEF CallPlaced, ResizePlaced, Idle, NoCall
<1>7. /\ DOMAIN dicts'[d] = DOMAIN FreeDict /\ dicts'[d].kind \in Kinds
      /\ dicts'[d].keyset \in IF Free(d)' THEN {NULL} ELSE Keysets
    BY <1>1, <1>2 DEF Kinds, Free
<1> QED
    BY <1>2, <1>3, <1>5, <1>6, <1>7, OneDictPlaced

LEMMA DeallocUsers ==
    ASSUME UsersInv, NEW d \in Dicts, Dealloc(d)
    PROVE  UsersInv'
<1>1. resize = NoResize /\ call' = NoCall
    BY IdleState DEF Dealloc, Idle, UsersInv, CallPlaced
<1> QED
    BY <1>1, FreedUsers DEF Dealloc

\* Values and their number change in one dict.
ValuesOnly(d) ==
    \/ UNCHANGED dicts
    \/ \E s, n, f : dicts' = [dicts EXCEPT ![d].values[s] = NULL, ![d].len = n,
                                           ![d].finger = f]
    \/ \E s, n : dicts' = [dicts EXCEPT ![d].values[s] = NULL, ![d].len = n]

LEMMA ValuesOnlyKeeps ==
    ASSUME UsersInv, NEW d \in Dicts, ValuesOnly(d)
    PROVE  /\ DOMAIN dicts' = Dicts
           /\ \A e \in Dicts : /\ DOMAIN dicts'[e] = DOMAIN FreeDict
                               /\ dicts'[e].keyset = dicts[e].keyset
                               /\ dicts'[e].kind = dicts[e].kind
<1>1. CASE UNCHANGED dicts
    BY <1>1 DEF UsersInv, Shapes
<1>2. ASSUME NEW s, NEW n, NEW f,
             dicts' = [dicts EXCEPT ![d].values[s] = NULL, ![d].len = n,
                                    ![d].finger = f]
      PROVE  /\ DOMAIN dicts' = Dicts
             /\ \A e \in Dicts : /\ DOMAIN dicts'[e] = DOMAIN FreeDict
                                 /\ dicts'[e].keyset = dicts[e].keyset
                                 /\ dicts'[e].kind = dicts[e].kind
    BY <1>2 DEF UsersInv, Shapes, FreeDict
<1>3. ASSUME NEW s, NEW n,
             dicts' = [dicts EXCEPT ![d].values[s] = NULL, ![d].len = n]
      PROVE  /\ DOMAIN dicts' = Dicts
             /\ \A e \in Dicts : /\ DOMAIN dicts'[e] = DOMAIN FreeDict
                                 /\ dicts'[e].keyset = dicts[e].keyset
                                 /\ dicts'[e].kind = dicts[e].kind
    BY <1>3 DEF UsersInv, Shapes, FreeDict
<1> QED
    BY <1>1, <1>2, <1>3 DEF ValuesOnly

LEMMA LookupUsers ==
    ASSUME UsersInv, NEW d \in Dicts, Idle,
           \/ \E k \in Keys : GetItem(d, k) \/ PopValue(d, k) \/ DelItem(d, k)
           \/ PopItem(d)
    PROVE  UsersInv'
<1>1. UNCHANGED <<keysets, call, resize>>
    BY DEF GetItem, PopValue, DelItem, PopItem, DropValue, Absent
<1>2. ValuesOnly(d)
    BY DEF GetItem, PopValue, DelItem, PopItem, DropValue, Absent, ValuesOnly
<1>3. /\ Shapes' /\ CallPlaced'
      /\ \A e \in Dicts : /\ dicts'[e].keyset = dicts[e].keyset
                          /\ dicts'[e].kind = dicts[e].kind
                          /\ dicts'[e].kind \in Kinds
    BY <1>1, <1>2, ValuesOnlyKeeps
       DEF UsersInv, Shapes, CallPlaced, DictsPlaced, Idle, Free
<1> QED
    BY <1>1, <1>3, IdleState, UsersKept

LEMMA ClearUsers ==
    ASSUME UsersInv, NEW d \in Dicts, Clear(d)
    PROVE  UsersInv'
<1> DEFINE n == FreshKeyset
           k == dicts[d].keyset
           f == IF dicts[d].inline THEN dicts[d].finger ELSE InlineLen
           new == [NewDict("dict", n, AllocLenMin, FALSE) EXCEPT !.finger = f]
<1>0. Idle /\ ~Free(d) /\ resize.ks = NULL
    BY IdleState DEF Clear, Mutable, Free
<1>1. CASE Fails("MemoryError")
    BY <1>0, <1>1, FailsUsers
<1>2. CASE ~Fails("MemoryError")
  <2>0. /\ dicts' = [dicts EXCEPT ![d] = new]
        /\ keysets' = [Release(keysets, k) EXCEPT ![n] = NewKeyset(AllocLenMin)]
        /\ UNCHANGED <<call, resize>>
      BY <1>2 DEF Clear
  <2>1. /\ n \in Keysets /\ keysets[n].refs = 0
        /\ k \in Keysets /\ keysets[k].refs # 0
      BY <1>0, FreshExists, UsedKeyset DEF UsersInv
  <2>2. /\ DOMAIN dicts' = Dicts /\ dicts'[d] = new
        /\ \A e \in Dicts \ {d} : dicts'[e] = dicts[e]
      BY <2>0 DEF UsersInv, Shapes
  <2>3. /\ DOMAIN dicts'[d] = DOMAIN FreeDict
        /\ dicts'[d].kind = "dict" /\ dicts'[d].keyset = n
      BY <2>2 DEF NewDict, FreeDict
  <2> HIDE DEF n, k, new
  <2>4. DOMAIN Release(keysets, k) = Keysets
      BY <2>1, ReleasedRefs
  <2>5. ASSUME NEW x \in Keysets
        PROVE  /\ DOMAIN keysets'[x] = DOMAIN FreeKeyset
               /\ keysets'[x].refs = IF x = n THEN 1 ELSE keysets[x].refs - One(x = k)
               /\ keysets[x].refs \in Nat
      BY <2>0, <2>1, <2>4, NewKeysetRefs, ReleasedRefs
  <2>6. \A x \in Keysets :
            /\ DOMAIN keysets'[x] = DOMAIN FreeKeyset
            /\ keysets'[x].refs - One(dicts'[d].keyset = x) - One(resize'.ks = x)
               = keysets[x].refs - One(dicts[d].keyset = x) - One(resize.ks = x)
            /\ keysets'[x].refs \in Int
      BY <2>0, <2>1, <2>3, <2>5 DEF One, k
  <2>7. DOMAIN keysets' = Keysets /\ DOMAIN call' = DOMAIN NoCall
      BY <2>0, <2>4 DEF UsersInv, Shapes
  <2>8. CallPlaced' /\ ResizePlaced'
      BY <1>0, <2>0, IdleState DEF UsersInv, CallPlaced, ResizePlaced, Idle
  <2>9. dicts'[d].kind \in Kinds /\ dicts'[d].keyset \in IF Free(d)' THEN {NULL} ELSE Keysets
      BY <2>1, <2>3 DEF Kinds, Free
  <2> QED
      BY <2>2, <2>3, <2>6, <2>7, <2>8, <2>9, OneDictPlaced
<1> QED
    BY <1>1, <1>2

(***************************************************************************)
(* Calls that add items.                                                   *)
(***************************************************************************)
LEMMA BeginUsers ==
    ASSUME UsersInv, NEW d \in Dicts, NEW name \in Ops, NEW o, NEW item, NEW h,
           Begin(name, d, o, item, h)
    PROVE  UsersInv'
<1>1. /\ Idle /\ ~Free(d) /\ resize = NoResize
      /\ UNCHANGED <<dicts, keysets, resize>>
    BY IdleState DEF Begin, Mutable, Free
<1>2. /\ DOMAIN call' = DOMAIN NoCall /\ call'.op = name /\ call'.self = d
    BY DEF Begin, Frame, NoCall
<1>3. CallPlaced'
    BY <1>1, <1>2 DEF CallPlaced, Idle, Self, Free, Ops, ItemByItem, OneItemOps
<1>4. /\ Shapes'
      /\ \A e \in Dicts : dicts'[e].kind \in Kinds
    BY <1>1, <1>2 DEF UsersInv, Shapes, DictsPlaced
<1> QED
    BY <1>1, <1>3, <1>4, UsersKept

LEMMA BeginCallUsers ==
    ASSUME UsersInv, NEW d \in Dicts,
           \/ \E o \in Dicts : BeginUpdate(d, o)
           \/ \E k \in Keys, v \in Values : BeginSetItem(d, k, v) \/ BeginSetDefault(d, k, v)
           \/ \E h \in Hints : BeginUpdateIter(d, h) \/ BeginUpdateK(d, h)
    PROVE  UsersInv'
<1>1. \E name \in Ops : \E o, item, h : Begin(name, d, o, item, h)
    BY DEF BeginUpdate, UpdateFrom, BeginSetItem, BeginSetDefault, BeginUpdateIter,
           BeginUpdateK, Ops, ItemByItem, OneItemOps
<1> QED
    BY <1>1, BeginUsers

LEMMA BeginDictKUsers ==
    ASSUME UsersInv, NEW d \in Dicts, NEW type \in {"dict", "frozendict"},
           NEW h, BeginDictK(d, type, h)
    PROVE  UsersInv'
<1> DEFINE n == FreshKeyset
           size == CalcAllocLen(Hinted(h))
           fixed == h <= AllocHintMax /\ type = "frozendict"
           new == NewDict(type, n, size, fixed)
<1>0. Idle /\ Free(d) /\ resize.ks = NULL
    BY IdleState DEF BeginDictK
<1>1. CASE Fails("MemoryError")
    BY <1>0, <1>1, FailsUsers
<1>2. CASE ~Fails("MemoryError")
  <2>0. /\ dicts' = [dicts EXCEPT ![d] = new]
        /\ keysets' = [keysets EXCEPT ![n] = NewKeyset(size)]
        /\ call' = Frame("dictK", d, NULL, n, Space(size, 0), NoItem, h)
        /\ UNCHANGED resize
      BY <1>2 DEF BeginDictK
  <2>1. n \in Keysets /\ keysets[n].refs = 0
      BY <1>0, FreshExists DEF UsersInv
  <2>2. /\ DOMAIN dicts' = Dicts /\ dicts'[d] = new
        /\ \A e \in Dicts \ {d} : dicts'[e] = dicts[e]
      BY <2>0 DEF UsersInv, Shapes
  <2>3. /\ DOMAIN dicts'[d] = DOMAIN FreeDict
        /\ dicts'[d].kind = type /\ dicts'[d].keyset = n
      BY <2>2 DEF NewDict, FreeDict
  <2> HIDE DEF n, new
  <2>4. ASSUME NEW x \in Keysets
        PROVE  /\ DOMAIN keysets'[x] = DOMAIN FreeKeyset
               /\ keysets'[x].refs = IF x = n THEN 1 ELSE keysets[x].refs
               /\ keysets[x].refs \in Nat /\ dicts[d].keyset # x
      BY <1>0, <2>0, <2>1, NewKeysetRefs, FreeUnused, DictConstants
         DEF UsersInv, Shapes, DictsPlaced
  <2>5. \A x \in Keysets :
            /\ DOMAIN keysets'[x] = DOMAIN FreeKeyset
            /\ keysets'[x].refs - One(dicts'[d].keyset = x) - One(resize'.ks = x)
               = keysets[x].refs - One(dicts[d].keyset = x) - One(resize.ks = x)
            /\ keysets'[x].refs \in Int
      BY <2>0, <2>1, <2>3, <2>4 DEF One
  <2>6. /\ DOMAIN keysets' = Keysets /\ DOMAIN call' = DOMAIN NoCall
        /\ call'.op = "dictK" /\ call'.self = d
      BY <2>0 DEF UsersInv, Shapes, Frame, NoCall
  <2>7. CallPlaced' /\ ResizePlaced'
      BY <1>0, <2>0, <2>3, <2>6, IdleState
         DEF CallPlaced, ResizePlaced, Idle, Self, Free, Ops, ItemByItem
  <2>8. dicts'[d].kind \in Kinds /\ dicts'[d].keyset \in IF Free(d)' THEN {NULL} ELSE Keysets
      BY <2>1, <2>3 DEF Kinds, Free
  <2> QED
      BY <2>2, <2>3, <2>5, <2>6, <2>7, <2>8, OneDictPlaced
<1> QED
    BY <1>1, <1>2

\* A call gives up, with the dict it was making if there is one.
LEMMA GiveUpUsers ==
    ASSUME UsersInv, ~Idle, resize = NoResize, NEW e, GiveUp(e)
    PROVE  UsersInv'
<1>1. CASE UNCHANGED <<dicts, keysets>>
    BY <1>1, CallEnds DEF GiveUp, Return
<1>2. CASE ~UNCHANGED <<dicts, keysets>>
  <2>1. Self \in Dicts /\ ~Free(Self)
      BY DEF UsersInv, CallPlaced
  <2>2. /\ keysets' = Release(keysets, dicts[Self].keyset)
        /\ dicts' = [dicts EXCEPT ![Self] = FreeDict]
        /\ call' = NoCall /\ resize' = resize
      BY <1>2 DEF GiveUp, Return, Self
  <2> QED
      BY <2>1, <2>2, FreedUsers
<1> QED
    BY <1>1, <1>2

\* The next item comes, or there are no more.
LEMMA NextItemUsers ==
    ASSUME UsersInv,
           \/ \E k \in Keys, v \in Values : NextItem(k, v)
           \/ NextOfOther \/ EndOfItems \/ ItemRaises
    PROVE  UsersInv'
<1>1. ~Idle /\ resize = NoResize
    BY DEF NextItem, NextOfOther, EndOfItems, ItemRaises, Awaiting, UsersInv,
           ResizePlaced, Idle, ItemByItem
<1>2. ASSUME NEW k \in Keys, NEW v \in Values, NextItem(k, v)
      PROVE  UsersInv'
  <2>1. /\ UNCHANGED <<dicts, keysets, resize>> /\ DOMAIN call' = DOMAIN call
        /\ call'.op = call.op /\ call'.self = call.self
      BY <1>2 DEF NextItem, UsersInv, Shapes, NoCall
  <2> QED
      BY <2>1, <1>1, CallEnds
<1>3. CASE NextOfOther
  <2>1. /\ UNCHANGED <<dicts, keysets, resize>> /\ DOMAIN call' = DOMAIN call
        /\ call'.op = call.op /\ call'.self = call.self
      BY <1>3 DEF NextOfOther, UsersInv, Shapes, NoCall
  <2> QED
      BY <2>1, <1>1, CallEnds
<1>4. CASE EndOfItems
    BY <1>1, <1>4, CallEnds DEF EndOfItems, Return
<1>5. CASE ItemRaises
    BY <1>1, <1>5, GiveUpUsers DEF ItemRaises
<1> QED
    BY <1>2, <1>3, <1>4, <1>5

(***************************************************************************)
(* Pushing one item.                                                       *)
(***************************************************************************)
LEMMA ItemDoneCall ==
    ASSUME UsersInv, ~Idle, NEW left, ItemDone(left)
    PROVE  \/ call' = NoCall
           \/ /\ DOMAIN call' = DOMAIN NoCall /\ call'.op = call.op
              /\ call'.self = call.self /\ call'.item = NoItem
<1>1. CASE call.op \in OneItemOps
    BY <1>1 DEF ItemDone, Return, OneItemOps
<1>2. CASE call.op \notin OneItemOps
  <2>1. call' = [call EXCEPT !.item = NoItem, !.spaceleft = left]
      BY <1>2 DEF ItemDone, OneItemOps
  <2> QED
      BY <2>1 DEF UsersInv, Shapes, NoCall
<1> QED
    BY <1>1, <1>2

\* The items of a dict change, and perhaps the call ends.
LEMMA PushedUsers ==
    ASSUME UsersInv, ~Idle, resize = NoResize, resize' = resize,
           DOMAIN dicts' = Dicts,
           \A e \in Dicts : /\ DOMAIN dicts'[e] = DOMAIN FreeDict
                            /\ dicts'[e].keyset = dicts[e].keyset
                            /\ dicts'[e].kind = dicts[e].kind,
           DOMAIN keysets' = Keysets,
           \A n \in Keysets : /\ DOMAIN keysets'[n] = DOMAIN FreeKeyset
                              /\ keysets'[n].refs = keysets[n].refs,
           NEW left, ItemDone(left) \/ call' = NoCall
    PROVE  UsersInv'
<1>1. DOMAIN call' = DOMAIN NoCall /\ CallPlaced'
  <2>1. CASE call' = NoCall
      BY <2>1 DEF CallPlaced, Idle, NoCall
  <2>2. CASE /\ DOMAIN call' = DOMAIN NoCall /\ call'.op = call.op
             /\ call'.self = call.self
      BY <2>2 DEF UsersInv, CallPlaced, Idle, Self, Free
  <2> QED
      BY <2>1, <2>2, ItemDoneCall
<1>2. Shapes' /\ \A e \in Dicts : dicts'[e].kind \in Kinds
    BY <1>1 DEF UsersInv, Shapes, DictsPlaced
<1> QED
    BY <1>1, <1>2, UsersKept

LEMMA PushExistingKeyUsers ==
    ASSUME UsersInv, ~Idle, resize = NoResize, NEW s,
           KeepValue(s) \/ PushExistingKey(s)
    PROVE  UsersInv'
<1>1. CASE KeepValue(s)
    BY <1>1, CallEnds DEF KeepValue, Return
<1>2. CASE PushExistingKey(s)
  <2>0. Self \in Dicts
      BY DEF UsersInv, CallPlaced
  <2>1. /\ DOMAIN dicts' = Dicts
        /\ \A e \in Dicts : /\ DOMAIN dicts'[e] = DOMAIN FreeDict
                            /\ dicts'[e].keyset = dicts[e].keyset
                            /\ dicts'[e].kind = dicts[e].kind
    <3> DEFINE new == SetValue(dicts[Self], s, call.item.value)
    <3>1. dicts' = [dicts EXCEPT ![Self] = new]
        BY <1>2 DEF PushExistingKey, Self
    <3>2. /\ DOMAIN new = DOMAIN FreeDict
          /\ new.keyset = dicts[Self].keyset /\ new.kind = dicts[Self].kind
        BY <2>0 DEF SetValue, UsersInv, Shapes, FreeDict
    <3> HIDE DEF new
    <3> QED
        BY <3>1, <3>2, <2>0 DEF UsersInv, Shapes
  <2>2. /\ DOMAIN keysets' = Keysets
        /\ \A n \in Keysets : /\ DOMAIN keysets'[n] = DOMAIN FreeKeyset
                              /\ keysets'[n].refs = keysets[n].refs
      BY <1>2 DEF PushExistingKey, UsersInv, Shapes
  <2>3. ItemDone(call.spaceleft) /\ resize' = resize
      BY <1>2 DEF PushExistingKey
  <2> QED
      BY <2>1, <2>2, <2>3, PushedUsers
<1> QED
    BY <1>1, <1>2

LEMMA BeginResizeUsers ==
    ASSUME UsersInv, ~Idle, call.item # NoItem, resize = NoResize, NEW m,
           BeginResize(Self, m), UNCHANGED call
    PROVE  UsersInv'
<1> DEFINE n == FreshKeyset
           size == CalcAllocLen(m)
           inline == size <= InlineLen /\ ~dicts[Self].inline
<1>1. Self \in Dicts /\ ~Free(Self) /\ resize.ks = NULL
    BY DEF UsersInv, CallPlaced, NoResize
<1>2. n \in Keysets /\ keysets[n].refs = 0
    BY <1>1, FreshExists DEF UsersInv
<1>3. /\ resize'.ks = n
      /\ keysets' = [keysets EXCEPT ![n] = NewKeyset(size)]
      /\ dicts' = [dicts EXCEPT
              ![Self].values = NoValues(size), ![Self].inline = inline,
              ![Self].finger = IF inline THEN InlineLen ELSE size]
    BY DEF BeginResize
<1>4. /\ DOMAIN dicts' = Dicts /\ \A e \in Dicts \ {Self} : dicts'[e] = dicts[e]
      /\ DOMAIN dicts'[Self] = DOMAIN FreeDict
      /\ dicts'[Self].kind = dicts[Self].kind
      /\ dicts'[Self].keyset = dicts[Self].keyset
    BY <1>1, <1>3 DEF UsersInv, Shapes, FreeDict
<1> HIDE DEF n
<1>5. \A x \in Keysets :
          /\ DOMAIN keysets'[x] = DOMAIN FreeKeyset
          /\ keysets'[x].refs = IF x = n THEN 1 ELSE keysets[x].refs
          /\ keysets[x].refs \in Nat
    BY <1>2, <1>3, NewKeysetRefs, FreeUnused DEF UsersInv, Shapes
<1>6. \A x \in Keysets :
          /\ DOMAIN keysets'[x] = DOMAIN FreeKeyset
          /\ keysets'[x].refs - One(dicts'[Self].keyset = x) - One(resize'.ks = x)
             = keysets[x].refs - One(dicts[Self].keyset = x) - One(resize.ks = x)
          /\ keysets'[x].refs \in Int
    BY <1>1, <1>2, <1>3, <1>4, <1>5, DictConstants DEF One
<1>7. DOMAIN keysets' = Keysets /\ DOMAIN call' = DOMAIN NoCall
    BY <1>3 DEF UsersInv, Shapes
<1>8. CallPlaced'
    BY <1>1, <1>4 DEF UsersInv, CallPlaced, Idle, Self, Free
<1>9. ResizePlaced'
  <2>1. \A d \in Dicts : dicts[d].keyset # n
      BY <1>2, FreeUnused DEF UsersInv
  <2> QED
      BY <2>1, <1>1, <1>2, <1>3, <1>4 DEF ResizePlaced, Idle
<1>10. /\ dicts'[Self].kind \in Kinds
       /\ dicts'[Self].keyset \in IF dicts'[Self].kind = "free" THEN {NULL} ELSE Keysets
    BY <1>1, <1>4 DEF UsersInv, DictsPlaced, Free
<1> QED
    BY <1>1, <1>4, <1>6, <1>7, <1>8, <1>9, <1>10, OneDictPlaced DEF Free

LEMMA PushNewKeyUsers ==
    ASSUME UsersInv, ~Idle, call.item # NoItem, resize = NoResize, NEW s,
           PushNewKey(s)
    PROVE  UsersInv'
<1> DEFINE n == dicts[Self].keyset
           slot == keysets[n].table[s]
           used == IF slot.key = NULL THEN 1 ELSE 0
<1>0. Self \in Dicts /\ ~Free(Self)
    BY DEF UsersInv, CallPlaced
<1>1. CASE /\ keysets' = [keysets EXCEPT
                  ![n].table = PutKey(@, s, call.item.key), ![n].fill = @ + used]
           /\ dicts' = [dicts EXCEPT ![Self].values[s] = call.item.value,
                                     ![Self].len = @ + 1]
           /\ ItemDone(call.spaceleft - used)
           /\ UNCHANGED resize
  <2>1. /\ DOMAIN dicts' = Dicts
        /\ \A e \in Dicts : /\ DOMAIN dicts'[e] = DOMAIN FreeDict
                            /\ dicts'[e].keyset = dicts[e].keyset
                            /\ dicts'[e].kind = dicts[e].kind
      BY <1>0, <1>1 DEF UsersInv, Shapes, FreeDict
  <2>2. n \in Keysets
      BY <1>0, UsedKeyset
  <2>3. /\ DOMAIN keysets' = Keysets
        /\ \A x \in Keysets : /\ DOMAIN keysets'[x] = DOMAIN FreeKeyset
                              /\ keysets'[x].refs = keysets[x].refs
    <3> DEFINE t == PutKey(keysets[n].table, s, call.item.key)
    <3>1. keysets' = [keysets EXCEPT ![n].table = t, ![n].fill = @ + used]
        BY <1>1
    <3> HIDE DEF t, used, n
    <3> QED
        BY <3>1, <2>2 DEF UsersInv, Shapes, FreeKeyset
  <2> QED
      BY <1>1, <2>1, <2>3, PushedUsers
<1>2. CASE GiveUp("MemorySizeOverflowError") \/ GiveUp("MemoryError")
    BY <1>2, GiveUpUsers
<1>3. CASE \E m : BeginResize(Self, m) /\ UNCHANGED call
    BY <1>3, BeginResizeUsers
<1> QED
    BY <1>1, <1>2, <1>3 DEF PushNewKey

LEMMA PushItemUsers ==
    ASSUME UsersInv, PushItem
    PROVE  UsersInv'
<1>1. ~Idle /\ call.item # NoItem /\ resize = NoResize
    BY DEF PushItem, Pushing, UsersInv, CallPlaced, NoCall
<1>2. \E s : KeepValue(s) \/ PushExistingKey(s) \/ PushNewKey(s)
    BY DEF PushItem
<1> QED
    BY <1>1, <1>2, PushExistingKeyUsers, PushNewKeyUsers

LEMMA ResizeMoveUsers ==
    ASSUME UsersInv, ResizeMove
    PROVE  UsersInv'
<1>0. /\ resize # NoResize /\ ~Idle /\ resize.ks \in Keysets
      /\ call.item # NoItem /\ Self \in Dicts /\ call' = call
    BY DEF ResizeMove, UsersInv, ResizePlaced, CallPlaced, NoResize
<1>1. PICK s, t, v :
          /\ keysets' = [keysets EXCEPT
                ![resize.ks].table = [@ EXCEPT ![t] = v],
                ![resize.ks].fill = @ + 1]
          /\ dicts' = [dicts EXCEPT ![Self].values[t] = resize.values[s]]
          /\ resize' = [resize EXCEPT !.scan = s + 1, !.left = @ - 1]
    BY DEF ResizeMove, Self
<1>2. /\ DOMAIN dicts' = Dicts
      /\ \A e \in Dicts : /\ DOMAIN dicts'[e] = DOMAIN FreeDict
                          /\ dicts'[e].keyset = dicts[e].keyset
                          /\ dicts'[e].kind = dicts[e].kind
    BY <1>0, <1>1 DEF UsersInv, Shapes, FreeDict
<1>3. /\ DOMAIN keysets' = Keysets
      /\ \A x \in Keysets : /\ DOMAIN keysets'[x] = DOMAIN FreeKeyset
                            /\ keysets'[x].refs = keysets[x].refs
  <2> DEFINE new == [keysets[resize.ks].table EXCEPT ![t] = v]
  <2>1. keysets' = [keysets EXCEPT ![resize.ks].table = new, ![resize.ks].fill = @ + 1]
      BY <1>1
  <2> HIDE DEF new
  <2> QED
      BY <2>1, <1>0 DEF UsersInv, Shapes, FreeKeyset
<1>4. resize'.ks = resize.ks
    BY <1>1
<1>5. /\ Shapes' /\ CallPlaced' /\ ~Idle'
      /\ \A e \in Dicts : dicts'[e].kind \in Kinds
    BY <1>0, <1>2, <1>3 DEF UsersInv, Shapes, CallPlaced, DictsPlaced, Idle, Self, Free
<1> QED
    BY <1>0, <1>2, <1>3, <1>4, <1>5, UsersKept

LEMMA ResizeDoneUsers ==
    ASSUME UsersInv, ResizeDone
    PROVE  UsersInv'
<1> DEFINE n == resize.ks
           k == dicts[Self].keyset
           d == Self
<1>0. /\ ~Idle /\ n \in Keysets /\ d \in Dicts /\ ~Free(d)
      /\ k \in Keysets /\ keysets[k].refs # 0 /\ k # n
      /\ resize' = NoResize
    BY UsedKeyset DEF ResizeDone, UsersInv, ResizePlaced, CallPlaced
<1>1. PICK t, new, left :
          /\ keysets' = [Release(keysets, k) EXCEPT
                 ![n].table = new, ![n].fill = @ + 1]
          /\ dicts' = [dicts EXCEPT ![Self].keyset = n,
                 ![Self].values[t] = call.item.value, ![Self].len = @ + 1]
          /\ ItemDone(left)
    BY DEF ResizeDone
<1>2. /\ DOMAIN dicts' = Dicts /\ \A e \in Dicts \ {d} : dicts'[e] = dicts[e]
      /\ DOMAIN dicts'[d] = DOMAIN FreeDict
      /\ dicts'[d].kind = dicts[d].kind /\ dicts'[d].keyset = n
    BY <1>0, <1>1 DEF UsersInv, Shapes, FreeDict
<1> HIDE DEF n, k, d
<1>3. /\ DOMAIN Release(keysets, k) = Keysets
      /\ \A x \in Keysets :
            /\ DOMAIN Release(keysets, k)[x] = DOMAIN FreeKeyset
            /\ Release(keysets, k)[x].refs = keysets[x].refs - One(x = k)
            /\ keysets[x].refs \in Nat
    BY <1>0, ReleasedRefs
<1>4. /\ DOMAIN keysets' = Keysets
      /\ \A x \in Keysets : /\ DOMAIN keysets'[x] = DOMAIN FreeKeyset
                            /\ keysets'[x].refs = keysets[x].refs - One(x = k)
  <2> DEFINE released == Release(keysets, k)
  <2>1. keysets' = [released EXCEPT ![n].table = new, ![n].fill = @ + 1]
      BY <1>1
  <2> HIDE DEF released
  <2>2. /\ DOMAIN released = Keysets
        /\ \A x \in Keysets : DOMAIN released[x] = DOMAIN FreeKeyset
      BY <1>3 DEF released
  <2>3. /\ DOMAIN keysets' = Keysets
        /\ \A x \in Keysets : /\ DOMAIN keysets'[x] = DOMAIN FreeKeyset
                              /\ keysets'[x].refs = released[x].refs
      BY <2>1, <2>2, <1>0 DEF FreeKeyset
  <2> QED
      BY <2>3, <1>3 DEF released
<1>5. \A x \in Keysets :
          /\ DOMAIN keysets'[x] = DOMAIN FreeKeyset
          /\ keysets'[x].refs - One(dicts'[d].keyset = x) - One(resize'.ks = x)
             = keysets[x].refs - One(dicts[d].keyset = x) - One(resize.ks = x)
          /\ keysets'[x].refs \in Int
  <2>1. NoResize.ks = NULL
      BY DEF NoResize
  <2>2. dicts[d].keyset = k /\ resize.ks = n
      BY DEF d, k, n
  <2> QED
      BY <1>0, <1>2, <1>3, <1>4, <2>1, <2>2, DictConstants DEF One
<1>6. CallPlaced' /\ DOMAIN call' = DOMAIN NoCall
  <2>1. CASE call' = NoCall
      BY <2>1 DEF CallPlaced, Idle, NoCall
  <2>2. CASE /\ DOMAIN call' = DOMAIN NoCall /\ call'.op = call.op
             /\ call'.self = call.self
      BY <1>0, <1>2, <2>2 DEF UsersInv, CallPlaced, Idle, Self, Free, d
  <2> QED
      BY <1>0, <1>1, <2>1, <2>2, ItemDoneCall
<1>7. ResizePlaced'
    BY <1>0 DEF ResizePlaced
<1>8. /\ dicts'[d].kind \in Kinds
      /\ dicts'[d].keyset \in IF dicts'[d].kind = "free" THEN {NULL} ELSE Keysets
    BY <1>0, <1>2 DEF UsersInv, DictsPlaced, Free
<1> QED
    BY <1>0, <1>2, <1>4, <1>5, <1>6, <1>7, <1>8, OneDictPlaced DEF Free

(***************************************************************************)
(* Every step.                                                             *)
(***************************************************************************)
LEMMA NextUsers ==
    ASSUME UsersInv, [Next]_vars
    PROVE  UsersInv'
<1>1. CASE UNCHANGED vars
  <2>1. /\ UNCHANGED <<dicts, keysets, call, resize>>
      BY <1>1 DEF vars
  <2>2. Shapes' /\ DictsPlaced' /\ ResizePlaced' /\ CallPlaced' /\ RefsCountUsers'
      BY <2>1 DEF UsersInv, Shapes, DictsPlaced, ResizePlaced, CallPlaced,
                  RefsCountUsers, Free, Idle, Self
  <2> QED
      BY <2>2 DEF UsersInv
<1>2. ASSUME NEW d \in Dicts, New(d) \/ Freeze(d) \/ Dealloc(d) \/ Clear(d)
      PROVE  UsersInv'
    BY <1>2, NewUsers, FreezeUsers, DeallocUsers, ClearUsers
<1>3. ASSUME NEW d \in Dicts,
             \/ PopItem(d)
             \/ \E k \in Keys : GetItem(d, k) \/ PopValue(d, k) \/ DelItem(d, k)
      PROVE  UsersInv'
  <2>1. Idle
      BY <1>3 DEF PopItem, GetItem, PopValue, DelItem
  <2> QED
      BY <1>3, <2>1, LookupUsers
<1>4. ASSUME NEW d \in Dicts, NEW o \in Dicts,
             \/ CopyEmpty(d, o)
             \/ \E type \in {"dict", "frozendict"} : Copy(d, o, type)
      PROVE  UsersInv'
    BY <1>4, NewUsers, CopyUsers DEF CopyEmpty
<1>5. ASSUME NEW d \in Dicts,
             \/ \E o \in Dicts : BeginUpdate(d, o)
             \/ \E k \in Keys, v \in Values : BeginSetItem(d, k, v) \/ BeginSetDefault(d, k, v)
             \/ \E h \in Hints : BeginUpdateIter(d, h) \/ BeginUpdateK(d, h)
      PROVE  UsersInv'
    BY <1>5, BeginCallUsers
<1>6. ASSUME NEW d \in Dicts,
             \E h \in Hints, type \in {"dict", "frozendict"} : BeginDictK(d, type, h)
      PROVE  UsersInv'
    BY <1>6, BeginDictKUsers
<1>7. CASE Step
    BY <1>7, NextItemUsers, PushItemUsers, ResizeMoveUsers, ResizeDoneUsers DEF Step
<1>8. CASE Call
    BY <1>2, <1>3, <1>4, <1>5, <1>6, <1>8 DEF Call
<1>9. CASE LookupRaises
    BY <1>9, FailsUsers DEF LookupRaises
<1>10. CASE PushRaises
  <2>1. ~Idle /\ resize = NoResize /\ GiveUp("TypeError")
      BY <1>10 DEF PushRaises, Pushing, UsersInv, CallPlaced, NoCall
  <2> QED
      BY <2>1, GiveUpUsers
<1> QED
    BY <1>1, <1>7, <1>8, <1>9, <1>10 DEF Next

\* yp_decref on keysets, by dicts that go, clear, resize or give up: a keyset
\* lives exactly as long as dicts use it, however many share it.
THEOREM KeysetsCounted == Spec => []RefsCountUsers
<1>1. Init => UsersInv
    BY InitUsers
<1>2. UsersInv /\ [Next]_vars => UsersInv'
    BY NextUsers
<1>3. UsersInv => RefsCountUsers
    BY DEF UsersInv
<1> QED
    BY <1>1, <1>2, <1>3, PTL DEF Spec

(***************************************************************************)
(* Proofs that the keysets of ypDict stay sound tables, that the values of *)
(* every dict line up with its keyset, that a keyset in use only grows,    *)
(* however many dicts share it, and that constructors never resize.        *)
(***************************************************************************)

(***************************************************************************)
(* Tables and value arrays.                                                *)
(***************************************************************************)
KeysetSound(ks) ==
    /\ ks.alloclen \in AllocLens /\ TableSound(ks.table, ks.alloclen)
    /\ FilledSlots(ks.table) = UsedSlots(ks.table)
    /\ ks.fill = Cardinality(FilledSlots(ks.table))
    /\ ks.fill <= (ks.alloclen * 2) \div 3

LinedUp(values, n, table) ==
    /\ values \in [DOMAIN table -> Values \cup {NULL}]
    /\ Valued(values) \subseteq UsedSlots(table)
    /\ n = Cardinality(Valued(values))

\* t is u with keys added.
Grown(t, u) ==
    /\ DOMAIN u = DOMAIN t
    /\ \A s \in DOMAIN t : t[s].key = NULL \/ u[s] = t[s]

LEMMA GrownUsed ==
    ASSUME NEW t, NEW u, Grown(t, u)
    PROVE  UsedSlots(t) \subseteq UsedSlots(u)
BY TableConstants DEF Grown, UsedSlots

LEMMA LinedGrown ==
    ASSUME NEW v, NEW n, NEW t, NEW u, Grown(t, u), LinedUp(v, n, t)
    PROVE  LinedUp(v, n, u)
BY GrownUsed DEF LinedUp, Grown

LEMMA EmptyKeyset ==
    ASSUME NEW n \in AllocLens
    PROVE  /\ KeysetSound(NewKeyset(n))
           /\ LinedUp(NoValues(n), 0, NewKeyset(n).table)
           /\ NewKeyset(n).table = EmptyTable(n) /\ NewKeyset(n).alloclen = n
           /\ NewKeyset(n).fill = 0
           /\ Valued(NoValues(n)) = {}
<1>1. /\ TableSound(EmptyTable(n), n)
      /\ UsedSlots(EmptyTable(n)) = {} /\ FilledSlots(EmptyTable(n)) = {}
    BY EmptySound
<1>2. /\ NewKeyset(n).table = EmptyTable(n) /\ NewKeyset(n).alloclen = n
      /\ NewKeyset(n).fill = 0
    BY DEF NewKeyset
<1>3. Cardinality({}) = 0 /\ n \in Nat /\ 0 <= (n * 2) \div 3
    BY FS_EmptySet, TableConstants
<1>4. KeysetSound(NewKeyset(n))
    BY <1>1, <1>2, <1>3 DEF KeysetSound
<1>5. Valued(NoValues(n)) = {}
    BY DEF Valued, NoValues
<1>6. NoValues(n) \in [DOMAIN EmptyTable(n) -> Values \cup {NULL}]
    BY DEF NoValues, EmptyTable
<1> QED
    BY <1>1, <1>2, <1>3, <1>4, <1>5, <1>6 DEF LinedUp

LEMMA LinedFinite ==
    ASSUME NEW v, NEW n, NEW t, NEW size \in AllocLens, TableSound(t, size),
           LinedUp(v, n, t)
    PROVE  IsFiniteSet(Valued(v)) /\ n \in Nat
<1>1. IsFiniteSet(UsedSlots(t))
    BY SlotsFinite DEF TableSound
<1> QED
    BY <1>1, FS_Subset, FS_CardinalityType DEF LinedUp

\* A value goes.
LEMMA LinedDrop ==
    ASSUME NEW v, NEW n, NEW t, NEW size \in AllocLens, TableSound(t, size),
           LinedUp(v, n, t), NEW s \in DOMAIN v, v[s] # NULL
    PROVE  LinedUp([v EXCEPT ![s] = NULL], n - 1, t)
<1> DEFINE w == [v EXCEPT ![s] = NULL]
<1>1. w \in [DOMAIN t -> Values \cup {NULL}] /\ Valued(w) = Valued(v) \ {s}
    BY DEF LinedUp, Valued
<1>2. s \in Valued(v)
    BY DEF Valued
<1>3. Cardinality(Valued(v) \ {s}) = Cardinality(Valued(v)) - 1
    BY <1>2, LinedFinite, FS_RemoveElement
<1> QED
    BY <1>1, <1>3 DEF LinedUp

\* A value comes, or is replaced, where there is a key.
LEMMA LinedSet ==
    ASSUME NEW v, NEW n, NEW t, NEW size \in AllocLens, TableSound(t, size),
           LinedUp(v, n, t), NEW u, Grown(t, u), NEW s \in UsedSlots(u),
           NEW x \in Values
    PROVE  LinedUp([v EXCEPT ![s] = x], IF v[s] = NULL THEN n + 1 ELSE n, u)
<1> DEFINE w == [v EXCEPT ![s] = x]
<1>0. s \in DOMAIN v /\ DOMAIN u = DOMAIN t
    BY DEF LinedUp, Grown, UsedSlots
<1>1. /\ w \in [DOMAIN u -> Values \cup {NULL}]
      /\ Valued(w) = Valued(v) \cup {s}
    BY <1>0, DictConstants DEF LinedUp, Valued
<1>2. Valued(w) \subseteq UsedSlots(u)
    BY <1>1, GrownUsed DEF LinedUp
<1>3. s \in Valued(v) <=> v[s] # NULL
    BY <1>0 DEF Valued
<1>4. Cardinality(Valued(v) \cup {s}) = IF v[s] = NULL THEN n + 1 ELSE n
    BY <1>3, LinedFinite, FS_AddElement DEF LinedUp
<1> QED
    BY <1>1, <1>2, <1>4 DEF LinedUp

\* A key is added to a keyset that has room for it.
LEMMA KeysetPut ==
    ASSUME NEW ks, KeysetSound(ks), NEW e \in Entry, e.key \in Keys,
           e.key \notin KeysIn(ks.table), NEW s \in 0 .. ks.alloclen - 1,
           ks.table[s].key = NULL, OnProbe(ks.table, ks.alloclen, e.key, s),
           Space(ks.alloclen, ks.fill) > 0,
           NEW new, new.table = [ks.table EXCEPT ![s] = e],
           new.alloclen = ks.alloclen, new.fill = ks.fill + 1
    PROVE  /\ KeysetSound(new) /\ Grown(ks.table, new.table)
           /\ s \in UsedSlots(new.table) /\ s \notin UsedSlots(ks.table)
           /\ UsedSlots(new.table) = UsedSlots(ks.table) \cup {s}
           /\ KeysIn(new.table) = KeysIn(ks.table) \cup {e.key}
           /\ Space(new.alloclen, new.fill) = Space(ks.alloclen, ks.fill) - 1
<1> DEFINE t == ks.table
           u == [t EXCEPT ![s] = e]
<1>1. /\ ks.alloclen \in AllocLens /\ TableSound(t, ks.alloclen)
      /\ t \in [0 .. ks.alloclen - 1 -> Entry]
    BY DEF KeysetSound, TableSound
<1>2. /\ TableSound(u, ks.alloclen) /\ UsedSlots(u) = UsedSlots(t) \cup {s}
      /\ FilledSlots(u) = FilledSlots(t) \cup {s}
      /\ KeysIn(u) = KeysIn(t) \cup {e.key} /\ s \notin UsedSlots(t)
    BY <1>1, PutSound
<1>3. Grown(t, u)
    BY <1>1 DEF Grown
<1> HIDE DEF u
<1>4. IsFiniteSet(FilledSlots(t)) /\ s \notin FilledSlots(t)
    BY <1>1, SlotsFinite DEF FilledSlots
<1>5. Cardinality(FilledSlots(u)) = ks.fill + 1 /\ ks.fill \in Nat
  <2>1. ks.fill = Cardinality(FilledSlots(t))
      BY DEF KeysetSound
  <2>2. Cardinality(FilledSlots(t)) \in Nat
      BY <1>4, FS_CardinalityType
  <2>3. Cardinality(FilledSlots(t) \cup {s}) = Cardinality(FilledSlots(t)) + 1
      BY <1>4, FS_AddElement
  <2> QED
      BY <1>2, <2>1, <2>2, <2>3
<1>6. /\ ks.fill + 1 <= (ks.alloclen * 2) \div 3
      /\ Space(ks.alloclen, ks.fill + 1) = Space(ks.alloclen, ks.fill) - 1
  <2>1. ks.alloclen \in Nat
      BY <1>1, TableConstants
  <2>2. (ks.alloclen * 2) \div 3 \in Int
      BY <2>1
  <2> QED
      BY <1>5, <2>2 DEF Space
<1>7. FilledSlots(u) = UsedSlots(u)
    BY <1>2 DEF KeysetSound
<1>8. new.table = u
    BY DEF u
<1> QED
    BY <1>1, <1>2, <1>3, <1>5, <1>6, <1>7, <1>8 DEF KeysetSound

(***************************************************************************)
(* The inductive invariant.  What makes it so, while a dict is resized, is *)
(* that its items are in two places: those still to move in the old array, *)
(* with keys the new keyset does not have yet, and the others in the new   *)
(* one, which has room for all and for the item that made it necessary.    *)
(***************************************************************************)
TablesInv == \A n \in Live : KeysetSound(keysets[n])

ValuesInv ==
    \A d \in Dicts : ~Free(d) /\ ~(Resizing /\ d = Self) =>
        LinedUp(dicts[d].values, dicts[d].len, Table(d))

CallItems == [key : Keys, value : Values] \cup {NoItem}

ItemInv ==
    /\ call.item \in CallItems
    /\ call.hint \in Int
    /\ call.op = "update" => call.other \in Dicts /\ ~Free(call.other)
    /\ ~Idle /\ ~Resizing => call.spaceleft = SpaceLeft(Self)

ToMove == {s \in Valued(resize.values) : s >= resize.scan}

ResizeInv ==
    Resizing =>
        /\ DOMAIN resize = DOMAIN NoResize /\ resize.scan \in Nat
        /\ LinedUp(resize.values, dicts[Self].len, Table(Self))
        /\ LinedUp(dicts[Self].values, dicts[Self].len - resize.left,
                   keysets[resize.ks].table)
        /\ resize.left = Cardinality(ToMove)
        /\ Space(keysets[resize.ks].alloclen, keysets[resize.ks].fill) > resize.left
        /\ call.item.key \notin KeysIn(keysets[resize.ks].table)
        /\ \A s \in ToMove : Table(Self)[s].key \notin
               KeysIn(keysets[resize.ks].table) \cup {call.item.key}

FingerInv == \A d \in Dicts : dicts[d].finger \in Nat

IInv == UsersInv /\ TablesInv /\ ValuesInv /\ FingerInv /\ ItemInv /\ ResizeInv

KeysetsGrow ==
    \A n \in Keysets : n \in Live /\ n \in Live' =>
        Grown(keysets[n].table, keysets'[n].table)

LEMMA LiveRefs ==
    ASSUME UsersInv
    PROVE  /\ \A n \in Keysets : n \in Live <=> keysets[n].refs # 0
           /\ \A d \in Dicts : ~Free(d) => dicts[d].keyset \in Live
           /\ Resizing => resize.ks \in Live
<1>1. \A n \in Keysets : n \in Live <=> keysets[n].refs # 0
    BY FreeUnused DEF UsersInv, Live
<1>2. Resizing => resize.ks \in Keysets /\ keysets[resize.ks].refs = 1
    BY FreeUnused DEF UsersInv, ResizePlaced, Resizing
<1> QED
    BY <1>1, <1>2, UsedKeyset

LEMMA LiveAfter ==
    ASSUME UsersInv', NEW d \in Dicts, ~Free(d)'
    PROVE  dicts'[d].keyset \in Live'
<1> DEFINE n == dicts'[d].keyset
           U == {e \in Dicts : dicts'[e].keyset = n}
<1>1. n \in Keysets
    BY DEF UsersInv, DictsPlaced
<1>2. IsFiniteSet(U) /\ U # {}
    BY DictConstants, FS_Subset
<1>3. Cardinality(U) \in Nat /\ Cardinality(U) # 0
    BY <1>2, FS_CardinalityType, FS_EmptySet
<1>4. keysets'[n].refs = Cardinality(U) + IF resize'.ks = n THEN 1 ELSE 0
    BY <1>1 DEF UsersInv, RefsCountUsers
<1> QED
    BY <1>1, <1>3, <1>4 DEF Live

\* A step changes one dict, and adds keys to keysets in use or makes new ones.
LEMMA TablesKept ==
    ASSUME IInv, UsersInv', NEW d \in Dicts,
           \A e \in Dicts \ {d} : dicts'[e] = dicts[e] /\ ~(Resizing /\ e = Self),
           \A n \in Live' : /\ KeysetSound(keysets'[n])
                            /\ n \in Live => Grown(keysets[n].table, keysets'[n].table),
           (~Free(d) /\ ~(Resizing /\ d = Self))' =>
               LinedUp(dicts'[d].values, dicts'[d].len, keysets'[dicts'[d].keyset].table),
           dicts'[d].finger \in Nat, ItemInv', ResizeInv'
    PROVE  IInv' /\ KeysetsGrow
<1>1. TablesInv'
    BY DEF TablesInv
<1>2. ASSUME NEW e \in Dicts, (~Free(e) /\ ~(Resizing /\ e = Self))'
      PROVE  LinedUp(dicts'[e].values, dicts'[e].len, keysets'[dicts'[e].keyset].table)
  <2>1. CASE e = d
      BY <1>2, <2>1
  <2>2. CASE e # d
    <3>1. dicts'[e] = dicts[e] /\ ~Free(e) /\ ~(Resizing /\ e = Self)
        BY <1>2, <2>2 DEF Free
    <3>2. LinedUp(dicts[e].values, dicts[e].len, keysets[dicts[e].keyset].table)
        BY <3>1 DEF IInv, ValuesInv, Table
    <3>3. dicts[e].keyset \in Live /\ dicts[e].keyset \in Live'
        BY <1>2, <3>1, LiveRefs, LiveAfter DEF IInv
    <3> QED
        BY <3>1, <3>2, <3>3, LinedGrown
  <2> QED
      BY <2>1, <2>2
<1>3. ValuesInv'
    BY <1>2 DEF ValuesInv, Table
<1>4. FingerInv'
    BY DEF IInv, FingerInv
<1> QED
    BY <1>1, <1>3, <1>4 DEF IInv, KeysetsGrow

LEMMA InitTables == Init => IInv
<1> SUFFICES ASSUME Init PROVE IInv
    OBVIOUS
<1>1. UsersInv
    BY InitUsers
<1>2. Live = {} /\ \A d \in Dicts : Free(d)
    BY DEF Init, Live, FreeKeyset, Free, FreeDict
<1>3. TablesInv /\ ValuesInv
    BY <1>2 DEF TablesInv, ValuesInv
<1>4. ItemInv /\ ResizeInv /\ FingerInv
    BY DEF Init, ItemInv, CallItems, ResizeInv, FingerInv, Resizing, NoCall, Idle, FreeDict
<1> QED
    BY <1>1, <1>3, <1>4 DEF IInv

\* Between two calls there is no item and no resize.
LEMMA IdleAfter ==
    ASSUME call' = NoCall, resize' = NoResize
    PROVE  ItemInv' /\ ResizeInv' /\ ~Resizing'
BY DEF ItemInv, CallItems, ResizeInv, Resizing, NoCall, Idle

LEMMA IdleBefore ==
    ASSUME UsersInv, Idle
    PROVE  call = NoCall /\ resize = NoResize /\ ~Resizing
BY IdleState DEF UsersInv, CallPlaced, Resizing

LEMMA GrownSame ==
    ASSUME NEW t
    PROVE  Grown(t, t)
BY DEF Grown

\* Steps that touch neither dicts nor keysets.
LEMMA OnlyCall ==
    ASSUME IInv, UsersInv', UNCHANGED <<dicts, keysets, resize>>, ~Resizing, ItemInv'
    PROVE  IInv' /\ KeysetsGrow
<1>1. ~Resizing' /\ ResizeInv' /\ Live' = Live
    BY DEF Resizing, ResizeInv, Live
<1>2. TablesInv' /\ ValuesInv' /\ FingerInv'
    BY <1>1 DEF IInv, TablesInv, ValuesInv, FingerInv, Free, Table
<1>3. KeysetsGrow
    BY GrownSame DEF KeysetsGrow
<1> QED
    BY <1>1, <1>2, <1>3 DEF IInv

\* One step of a caller changes one dict.
LEMMA CallKept ==
    ASSUME IInv, UsersInv', Idle, NEW d \in Dicts,
           call' = NoCall, resize' = NoResize,
           \A e \in Dicts \ {d} : dicts'[e] = dicts[e],
           \A n \in Live' : /\ KeysetSound(keysets'[n])
                            /\ n \in Live => Grown(keysets[n].table, keysets'[n].table),
           ~Free(d)' =>
               LinedUp(dicts'[d].values, dicts'[d].len, keysets'[dicts'[d].keyset].table),
           dicts'[d].finger \in Nat
    PROVE  IInv' /\ KeysetsGrow
<1>1. ~Resizing
    BY IdleBefore DEF IInv
<1>2. ItemInv' /\ ResizeInv' /\ ~Resizing'
    BY IdleAfter
<1> QED
    BY <1>1, <1>2, TablesKept

LEMMA FailsTables ==
    ASSUME IInv, UsersInv', Idle, NEW e, Fails(e)
    PROVE  IInv' /\ KeysetsGrow
<1>1. UNCHANGED <<dicts, keysets, resize>> /\ call' = NoCall /\ resize' = NoResize
    BY IdleBefore DEF Fails, IInv
<1>2. ItemInv' /\ ~Resizing
    BY <1>1, IdleAfter, IdleBefore DEF IInv
<1> QED
    BY <1>1, <1>2, OnlyCall

\* A new keyset is made where there was none.
LEMMA FreshSound ==
    ASSUME IInv, resize = NoResize, NEW size \in AllocLens,
           keysets' = [keysets EXCEPT ![FreshKeyset] = NewKeyset(size)]
    PROVE  /\ FreshKeyset \in Keysets /\ FreshKeyset \notin Live
           /\ keysets'[FreshKeyset] = NewKeyset(size)
           /\ \A n \in Keysets : n # FreshKeyset => keysets'[n] = keysets[n]
           /\ \A n \in Live' :
                 /\ KeysetSound(keysets'[n])
                 /\ n \in Live => Grown(keysets[n].table, keysets'[n].table)
<1>1. FreshKeyset \in Keysets /\ FreshKeyset \notin Live
    BY FreshExists, LiveRefs DEF IInv, UsersInv, NoResize
<1>2. /\ keysets'[FreshKeyset] = NewKeyset(size)
      /\ \A n \in Keysets : n # FreshKeyset => keysets'[n] = keysets[n]
    BY <1>1 DEF IInv, UsersInv, Shapes
<1>3. ASSUME NEW n \in Live'
      PROVE  /\ KeysetSound(keysets'[n])
             /\ n \in Live => Grown(keysets[n].table, keysets'[n].table)
  <2>1. CASE n = FreshKeyset
      BY <1>1, <1>2, <2>1, EmptyKeyset
  <2>2. CASE n # FreshKeyset
      BY <1>2, <2>2, GrownSame DEF IInv, TablesInv, Live
  <2> QED
      BY <2>1, <2>2
<1> QED
    BY <1>1, <1>2, <1>3

LEMMA BufferLenNat ==
    ASSUME NEW n \in AllocLens
    PROVE  BufferLen(n) \in Nat /\ n \in Nat
BY TableConstants, DictConstants DEF BufferLen

LEMMA NewTables ==
    ASSUME IInv, UsersInv', NEW d \in Dicts, New(d)
    PROVE  IInv' /\ KeysetsGrow
<1>0. Idle /\ resize = NoResize /\ call = NoCall
    BY IdleBefore DEF New, IInv
<1>1. CASE Fails("MemoryError")
    BY <1>0, <1>1, FailsTables
<1>2. CASE ~Fails("MemoryError")
  <2>1. /\ dicts' = [dicts EXCEPT ![d] = NewDict("dict", FreshKeyset, AllocLenMin, FALSE)]
        /\ keysets' = [keysets EXCEPT ![FreshKeyset] = NewKeyset(AllocLenMin)]
        /\ UNCHANGED <<call, resize>> /\ AllocLenMin \in AllocLens
      BY <1>2, TableConstants DEF New
  <2>2. /\ \A e \in Dicts \ {d} : dicts'[e] = dicts[e]
        /\ dicts'[d].values = NoValues(AllocLenMin) /\ dicts'[d].len = 0
        /\ dicts'[d].keyset = FreshKeyset
        /\ dicts'[d].finger = BufferLen(AllocLenMin)
      BY <2>1 DEF IInv, UsersInv, Shapes, NewDict
  <2>3. LinedUp(dicts'[d].values, dicts'[d].len, keysets'[dicts'[d].keyset].table)
    <3>1. keysets'[FreshKeyset] = NewKeyset(AllocLenMin)
        BY <1>0, <2>1, FreshSound
    <3>2. LinedUp(NoValues(AllocLenMin), 0, NewKeyset(AllocLenMin).table)
        BY <2>1, EmptyKeyset
    <3> QED
        BY <2>2, <3>1, <3>2
  <2>4. dicts'[d].finger \in Nat
      BY <2>1, <2>2, BufferLenNat
  <2> QED
      BY <1>0, <2>1, <2>2, <2>3, <2>4, FreshSound, CallKept
<1> QED
    BY <1>1, <1>2

LEMMA CopyTables ==
    ASSUME IInv, UsersInv', NEW d \in Dicts, NEW o \in Dicts,
           NEW type \in {"dict", "frozendict"}, Copy(d, o, type)
    PROVE  IInv' /\ KeysetsGrow
<1> DEFINE k == dicts[o].keyset
           new == [NewDict(type, k, AllocLen(o), type = "frozendict")
                       EXCEPT !.values = dicts[o].values, !.len = dicts[o].len]
<1>0. Idle /\ Free(d) /\ ~Free(o) /\ resize = NoResize /\ call = NoCall /\ ~Resizing
    BY IdleBefore DEF Copy, IInv
<1>1. CASE Fails("MemoryError")
    BY <1>0, <1>1, FailsTables
<1>2. CASE ~Fails("MemoryError")
  <2>0. /\ dicts' = [dicts EXCEPT ![d] = new] /\ keysets' = ShareKeyset(k)
        /\ UNCHANGED <<call, resize>>
      BY <1>2 DEF Copy
  <2>1. k \in Live
      BY <1>0, LiveRefs DEF IInv
  <2>2. /\ \A e \in Dicts \ {d} : dicts'[e] = dicts[e]
        /\ dicts'[d].keyset = k
        /\ dicts'[d].values = dicts[o].values /\ dicts'[d].len = dicts[o].len
        /\ dicts'[d].finger \in {AllocLen(o), BufferLen(AllocLen(o))}
      BY <2>0 DEF IInv, UsersInv, Shapes, NewDict
  <2> HIDE DEF k, new
  <2>3. \A n \in Keysets : /\ keysets'[n].table = keysets[n].table
                           /\ keysets'[n].alloclen = keysets[n].alloclen
                           /\ keysets'[n].fill = keysets[n].fill
                           /\ n # k => keysets'[n] = keysets[n]
      BY <2>0 DEF IInv, UsersInv, Shapes, ShareKeyset, FreeKeyset
  <2>4. \A n \in Live' : n \in Live
      BY <2>1, <2>3 DEF Live
  <2>5. \A n \in Live' : /\ KeysetSound(keysets'[n])
                         /\ n \in Live => Grown(keysets[n].table, keysets'[n].table)
      BY <2>3, <2>4, GrownSame DEF IInv, TablesInv, KeysetSound, Live
  <2>6. LinedUp(dicts'[d].values, dicts'[d].len, keysets'[dicts'[d].keyset].table)
      BY <1>0, <2>1, <2>2, <2>3 DEF IInv, ValuesInv, Table, k, Live
  <2>7. AllocLen(o) \in AllocLens
      BY <2>1 DEF IInv, TablesInv, KeysetSound, AllocLen, k
  <2>8. dicts'[d].finger \in Nat
      BY <2>2, <2>7, BufferLenNat
  <2> QED
      BY <1>0, <2>0, <2>2, <2>5, <2>6, <2>8, CallKept
<1> QED
    BY <1>1, <1>2

\* A keyset that survives its release was in use and is as it was.
LEMMA ReleasedTables ==
    ASSUME UsersInv, NEW o \in Live, NEW n \in Keysets,
           Release(keysets, o)[n].refs > 0
    PROVE  /\ n \in Live
           /\ Release(keysets, o)[n].table = keysets[n].table
           /\ Release(keysets, o)[n].alloclen = keysets[n].alloclen
           /\ Release(keysets, o)[n].fill = keysets[n].fill
<1>0. o \in Keysets /\ keysets[n].refs \in Nat /\ keysets[o].refs > 0
    BY FreeUnused DEF Live, UsersInv
<1>1. CASE keysets[o].refs = 1
  <2>1. Release(keysets, o) = [keysets EXCEPT ![o] = FreeKeyset]
      BY <1>1 DEF Release
  <2>2. n # o
      BY <2>1, <1>0 DEF UsersInv, Shapes, FreeKeyset
  <2> QED
      BY <2>1, <2>2, <1>0 DEF UsersInv, Shapes, Live
<1>2. CASE keysets[o].refs # 1
  <2>1. Release(keysets, o) = [keysets EXCEPT ![o].refs = @ - 1]
      BY <1>2 DEF Release
  <2> QED
      BY <2>1, <1>0 DEF UsersInv, Shapes, Live, FreeKeyset
<1> QED
    BY <1>1, <1>2

LEMMA SoundSame ==
    ASSUME NEW ks, KeysetSound(ks), NEW new, new.table = ks.table,
           new.alloclen = ks.alloclen, new.fill = ks.fill
    PROVE  KeysetSound(new) /\ Grown(ks.table, new.table)
BY GrownSame DEF KeysetSound

LEMMA FreezeTables ==
    ASSUME IInv, UsersInv', NEW d \in Dicts, Freeze(d)
    PROVE  IInv' /\ KeysetsGrow
<1>0. /\ Idle /\ ~Free(d) /\ ~Resizing /\ call' = NoCall /\ resize' = NoResize
      /\ dicts' = [dicts EXCEPT ![d].kind = "frozendict"] /\ keysets' = keysets
    BY IdleBefore DEF Freeze, IInv, Mutable, Free
<1>1. /\ \A e \in Dicts \ {d} : dicts'[e] = dicts[e]
      /\ dicts'[d].values = dicts[d].values /\ dicts'[d].len = dicts[d].len
      /\ dicts'[d].keyset = dicts[d].keyset /\ dicts'[d].finger \in Nat
    BY <1>0 DEF IInv, UsersInv, Shapes, FreeDict, FingerInv
<1>2. LinedUp(dicts'[d].values, dicts'[d].len, keysets'[dicts'[d].keyset].table)
    BY <1>0, <1>1 DEF IInv, ValuesInv, Table
<1>3. \A n \in Live' : /\ KeysetSound(keysets'[n])
                       /\ n \in Live => Grown(keysets[n].table, keysets'[n].table)
    BY <1>0, GrownSame DEF IInv, TablesInv, Live
<1> QED
    BY <1>0, <1>1, <1>2, <1>3, CallKept

\* A dict goes, with or without the call that was making it.
LEMMA FreedTables ==
    ASSUME IInv, UsersInv', NEW d \in Dicts, ~Free(d), ~Resizing,
           dicts' = [dicts EXCEPT ![d] = FreeDict],
           keysets' = Release(keysets, dicts[d].keyset),
           call' = NoCall, resize' = NoResize
    PROVE  IInv' /\ KeysetsGrow
<1>1. /\ Free(d)' /\ \A e \in Dicts \ {d} : dicts'[e] = dicts[e]
      /\ dicts'[d].finger \in Nat
    BY DEF IInv, UsersInv, Shapes, Free, FreeDict
<1>2. dicts[d].keyset \in Live
    BY LiveRefs DEF IInv
<1>3. ASSUME NEW n \in Live'
      PROVE  /\ KeysetSound(keysets'[n])
             /\ n \in Live => Grown(keysets[n].table, keysets'[n].table)
  <2>1. /\ n \in Live /\ keysets'[n].table = keysets[n].table
        /\ keysets'[n].alloclen = keysets[n].alloclen
        /\ keysets'[n].fill = keysets[n].fill
      BY <1>2, ReleasedTables DEF IInv, Live
  <2> QED
      BY <2>1, SoundSame DEF IInv, TablesInv
<1>4. ItemInv' /\ ResizeInv' /\ ~Resizing'
    BY IdleAfter
<1> QED
    BY <1>1, <1>3, <1>4, TablesKept

LEMMA DeallocTables ==
    ASSUME IInv, UsersInv', NEW d \in Dicts, Dealloc(d)
    PROVE  IInv' /\ KeysetsGrow
<1>1. ~Resizing /\ call' = NoCall /\ resize' = NoResize
    BY IdleBefore DEF Dealloc, IInv
<1> QED
    BY <1>1, FreedTables DEF Dealloc

\* What a lookup in the keyset of a dict finds.
LEMMA LookupInTable ==
    ASSUME IInv, NEW d \in Dicts, ~Free(d), NEW k \in Keys, NEW s \in Lookup(d, k)
    PROVE  /\ KeysetSound(keysets[dicts[d].keyset])
           /\ AllocLen(d) \in AllocLens /\ TableSound(Table(d), AllocLen(d))
           /\ s \in 0 .. AllocLen(d) - 1 /\ s \in DOMAIN Table(d)
           /\ Table(d)[s].key \in Keys => s \in UsedSlots(Table(d))
           /\ Table(d)[s].key \notin Keys =>
                 /\ Table(d)[s].key = NULL /\ k \notin KeysIn(Table(d))
                 /\ OnProbe(Table(d), AllocLen(d), k, s)
<1> DEFINE ks == keysets[dicts[d].keyset]
<1>1. KeysetSound(ks)
    BY LiveRefs DEF IInv, TablesInv
<1>2. ks.alloclen \in AllocLens /\ TableSound(ks.table, ks.alloclen)
    BY <1>1 DEF KeysetSound
<1>3. ks.table \in [0 .. ks.alloclen - 1 -> Entry]
    BY <1>2 DEF TableSound
<1>4. \E r \in 0 .. ks.alloclen - 1 : ks.table[r].key = NULL
    BY <1>1, <1>2, <1>3, NullSlotExists DEF KeysetSound
<1>5. s \in LookKey(ks.table, ks.alloclen, k)
    BY DEF Lookup, Table, AllocLen
<1> HIDE DEF ks
<1>6. /\ s \in 0 .. ks.alloclen - 1
      /\ ks.table[s].key = k <=> k \in KeysIn(ks.table)
      /\ ks.table[s].key # k => /\ ks.table[s].key \in {NULL, Dummy}
                                /\ OnProbe(ks.table, ks.alloclen, k, s)
    BY <1>2, <1>4, <1>5, LookKeyFinds
<1>7. ks.table[s].key # Dummy
  <2>1. FilledSlots(ks.table) = UsedSlots(ks.table)
      BY <1>1 DEF KeysetSound
  <2> QED
      BY <2>1, <1>3, <1>6, TableConstants DEF FilledSlots, UsedSlots
<1> QED
    BY <1>1, <1>2, <1>3, <1>6, <1>7, TableConstants DEF Table, AllocLen, UsedSlots, ks

\* A value goes from one slot, and with it one item.
LEMMA DropTables ==
    ASSUME IInv, UsersInv', Idle, NEW d \in Dicts, ~Free(d),
           UNCHANGED <<keysets, call, resize>>,
           NEW s \in DOMAIN dicts[d].values, dicts[d].values[s] # NULL,
           \A e \in Dicts \ {d} : dicts'[e] = dicts[e],
           dicts'[d].keyset = dicts[d].keyset,
           dicts'[d].values = [dicts[d].values EXCEPT ![s] = NULL],
           dicts'[d].len = dicts[d].len - 1, dicts'[d].finger \in Nat
    PROVE  IInv' /\ KeysetsGrow
<1>1. ~Resizing /\ call' = NoCall /\ resize' = NoResize
    BY IdleBefore DEF IInv
<1>2. /\ dicts[d].keyset \in Live /\ KeysetSound(keysets[dicts[d].keyset])
      /\ LinedUp(dicts[d].values, dicts[d].len, Table(d))
    BY <1>1, LiveRefs DEF IInv, TablesInv, ValuesInv
<1>3. AllocLen(d) \in AllocLens /\ TableSound(Table(d), AllocLen(d))
    BY <1>2 DEF KeysetSound, Table, AllocLen
<1>4. LinedUp(dicts'[d].values, dicts'[d].len, keysets'[dicts'[d].keyset].table)
    BY <1>2, <1>3, LinedDrop DEF Table
<1>5. \A n \in Live' : /\ KeysetSound(keysets'[n])
                       /\ n \in Live => Grown(keysets[n].table, keysets'[n].table)
    BY GrownSame DEF IInv, TablesInv, Live
<1> QED
    BY <1>1, <1>4, <1>5, CallKept

LEMMA LookupTables ==
    ASSUME IInv, UsersInv', NEW d \in Dicts, NEW k \in Keys,
           GetItem(d, k) \/ PopValue(d, k) \/ DelItem(d, k)
    PROVE  IInv' /\ KeysetsGrow
<1>1. Idle /\ ~Free(d) /\ UNCHANGED <<keysets, call, resize>>
    BY DEF GetItem, PopValue, DelItem, DropValue, Absent, Mutable, Free
<1>2. call = NoCall /\ ~Resizing
    BY <1>1, IdleBefore DEF IInv
<1>3. CASE dicts' = dicts
  <2>1. ItemInv'
      BY <1>1, <1>2, <1>3, IdleAfter, IdleBefore DEF IInv
  <2> QED
      BY <2>1, <1>1, <1>2, <1>3, OnlyCall
<1>4. CASE \E s \in Lookup(d, k) : dicts[d].values[s] # NULL /\ DropValue(d, s)
  <2>1. PICK s \in Lookup(d, k) : dicts[d].values[s] # NULL /\ DropValue(d, s)
      BY <1>4
  <2>2. dicts' = [dicts EXCEPT ![d].values[s] = NULL, ![d].len = @ - 1]
      BY <2>1 DEF DropValue
  <2>3. /\ \A e \in Dicts \ {d} : dicts'[e] = dicts[e]
        /\ dicts'[d].keyset = dicts[d].keyset
        /\ dicts'[d].values = [dicts[d].values EXCEPT ![s] = NULL]
        /\ dicts'[d].len = dicts[d].len - 1
        /\ dicts'[d].finger = dicts[d].finger
      BY <2>2 DEF IInv, UsersInv, Shapes, FreeDict
  <2>4. s \in DOMAIN dicts[d].values
    <3>1. LinedUp(dicts[d].values, dicts[d].len, Table(d))
        BY <1>1, <1>2 DEF IInv, ValuesInv
    <3>2. s \in DOMAIN Table(d)
        BY <1>1, LookupInTable
    <3> QED
        BY <3>1, <3>2 DEF LinedUp
  <2>5. dicts'[d].finger \in Nat
      BY <2>3 DEF IInv, FingerInv
  <2> QED
      BY <1>1, <2>1, <2>3, <2>4, <2>5, DropTables
<1> QED
    BY <1>3, <1>4 DEF GetItem, PopValue, DelItem, Absent

\* The finger search of dict_popitem ends at a value, if there is one.
LEMMA PopItemFinds ==
    ASSUME IInv, NEW d \in Dicts, ~Free(d), ~Resizing, dicts[d].len >= 1
    PROVE  PopItemSlot(d) \in Valued(dicts[d].values) /\ PopItemSlot(d) \in Nat
<1> DEFINE V == Valued(dicts[d].values)
           finger == dicts[d].finger
           start == IF finger >= AllocLen(d) THEN 0 ELSE finger
           steps(s) == (s - start) % AllocLen(d)
           T == {steps(s) : s \in V}
<1>1. /\ LinedUp(dicts[d].values, dicts[d].len, Table(d))
      /\ AllocLen(d) \in AllocLens /\ TableSound(Table(d), AllocLen(d))
  <2>1. dicts[d].keyset \in Live
      BY LiveRefs DEF IInv
  <2> QED
      BY <2>1 DEF IInv, ValuesInv, TablesInv, KeysetSound, Table, AllocLen
<1>2. V # {}
    BY <1>1, FS_EmptySet DEF LinedUp
<1>3. AllocLen(d) \in Nat \ {0} /\ start \in Nat
    BY <1>1, TableConstants DEF IInv, FingerInv
<1>4. V \subseteq Nat
  <2>1. DOMAIN Table(d) = 0 .. AllocLen(d) - 1
      BY <1>1 DEF TableSound
  <2> QED
      BY <1>1, <1>3, <2>1 DEF LinedUp, UsedSlots
<1>5. \A s \in V : steps(s) \in Nat
    BY <1>3, <1>4
<1> HIDE DEF V, start
<1>6. T \in SUBSET Nat /\ T # {}
    BY <1>2, <1>5
<1> HIDE DEF T
<1>7. PICK x \in T : \A y \in T : x <= y
    BY <1>6, LeastNat
<1>8. \E s \in V : \A r \in V : steps(s) <= steps(r)
    BY <1>7 DEF T
<1>9. PopItemSlot(d) = CHOOSE s \in V : \A r \in V : steps(s) <= steps(r)
    BY DEF PopItemSlot, V, start
<1> QED
    BY <1>4, <1>8, <1>9 DEF V

LEMMA PopItemTables ==
    ASSUME IInv, UsersInv', NEW d \in Dicts, PopItem(d)
    PROVE  IInv' /\ KeysetsGrow
<1>1. Idle /\ ~Free(d) /\ UNCHANGED <<keysets, call, resize>>
    BY DEF PopItem, Absent, Mutable, Free
<1>2. call = NoCall /\ ~Resizing
    BY <1>1, IdleBefore DEF IInv
<1>3. CASE dicts' = dicts
  <2>1. ItemInv'
      BY <1>1, <1>2, <1>3, IdleAfter, IdleBefore DEF IInv
  <2> QED
      BY <2>1, <1>1, <1>2, <1>3, OnlyCall
<1>4. CASE dicts' # dicts
  <2> DEFINE s == PopItemSlot(d)
  <2>1. /\ dicts[d].len >= 1
        /\ dicts' = [dicts EXCEPT ![d].values[s] = NULL,
                         ![d].len = @ - 1, ![d].finger = s + 1]
      BY <1>4 DEF PopItem, Absent
  <2>2. s \in Valued(dicts[d].values) /\ s \in Nat
      BY <1>1, <1>2, <2>1, PopItemFinds
  <2> HIDE DEF s
  <2>3. /\ \A e \in Dicts \ {d} : dicts'[e] = dicts[e]
        /\ dicts'[d].keyset = dicts[d].keyset
        /\ dicts'[d].values = [dicts[d].values EXCEPT ![s] = NULL]
        /\ dicts'[d].len = dicts[d].len - 1
        /\ dicts'[d].finger = s + 1
      BY <2>1 DEF IInv, UsersInv, Shapes, FreeDict
  <2>4. s \in DOMAIN dicts[d].values /\ dicts[d].values[s] # NULL
      BY <2>2 DEF Valued
  <2> QED
      BY <1>1, <2>2, <2>3, <2>4, DropTables
<1> QED
    BY <1>3, <1>4

LEMMA ClearTables ==
    ASSUME IInv, UsersInv', NEW d \in Dicts, Clear(d)
    PROVE  IInv' /\ KeysetsGrow
<1> DEFINE f == FreshKeyset
           k == dicts[d].keyset
           finger == IF dicts[d].inline THEN dicts[d].finger ELSE InlineLen
           new == [NewDict("dict", f, AllocLenMin, FALSE) EXCEPT !.finger = finger]
<1>0. Idle /\ ~Free(d) /\ resize = NoResize /\ resize.ks = NULL /\ call = NoCall
    BY IdleBefore, IdleState DEF Clear, IInv, Mutable, Free
<1>1. CASE Fails("MemoryError")
    BY <1>0, <1>1, FailsTables
<1>2. CASE ~Fails("MemoryError")
  <2>1. /\ dicts' = [dicts EXCEPT ![d] = new]
        /\ keysets' = [Release(keysets, k) EXCEPT ![f] = NewKeyset(AllocLenMin)]
        /\ UNCHANGED <<call, resize>> /\ AllocLenMin \in AllocLens
      BY <1>2, TableConstants DEF Clear
  <2>2. /\ \A e \in Dicts \ {d} : dicts'[e] = dicts[e]
        /\ dicts'[d].values = NoValues(AllocLenMin) /\ dicts'[d].len = 0
        /\ dicts'[d].keyset = f /\ dicts'[d].finger = finger
      BY <2>1 DEF IInv, UsersInv, Shapes, NewDict
  <2>3. finger \in Nat
      BY DictConstants DEF IInv, FingerInv
  <2>4. /\ f \in Keysets /\ keysets[f].refs = 0 /\ f \notin Live
        /\ k \in Live /\ k \in Keysets /\ keysets[k].refs # 0
      BY <1>0, FreshExists, LiveRefs DEF IInv, UsersInv, Live
  <2> HIDE DEF f, k, new, finger
  <2>5. DOMAIN Release(keysets, k) = Keysets
      BY <2>4, ReleasedRefs DEF IInv
  <2>6. /\ keysets'[f] = NewKeyset(AllocLenMin)
        /\ \A n \in Keysets : n # f => keysets'[n] = Release(keysets, k)[n]
      BY <2>1, <2>4, <2>5
  <2>7. ASSUME NEW n \in Live'
        PROVE  /\ KeysetSound(keysets'[n])
               /\ n \in Live => Grown(keysets[n].table, keysets'[n].table)
    <3>1. CASE n = f
        BY <2>1, <2>4, <2>6, <3>1, EmptyKeyset
    <3>2. CASE n # f
      <4>1. n \in Keysets /\ Release(keysets, k)[n].refs > 0
          BY <2>6, <3>2 DEF Live
      <4>2. /\ n \in Live /\ keysets'[n].table = keysets[n].table
            /\ keysets'[n].alloclen = keysets[n].alloclen
            /\ keysets'[n].fill = keysets[n].fill
          BY <2>4, <2>6, <3>2, <4>1, ReleasedTables DEF IInv
      <4> QED
          BY <4>2, SoundSame DEF IInv, TablesInv
    <3> QED
        BY <3>1, <3>2
  <2>8. LinedUp(dicts'[d].values, dicts'[d].len, keysets'[dicts'[d].keyset].table)
    <3>1. LinedUp(NoValues(AllocLenMin), 0, NewKeyset(AllocLenMin).table)
        BY <2>1, EmptyKeyset
    <3> QED
        BY <2>2, <2>6, <3>1
  <2> QED
      BY <1>0, <2>1, <2>2, <2>3, <2>7, <2>8, CallKept
<1> QED
    BY <1>1, <1>2

(***************************************************************************)
(* Calls that add items.                                                   *)
(***************************************************************************)
LEMMA BeginTables ==
    ASSUME IInv, UsersInv', NEW d \in Dicts, NEW name \in Ops, NEW o,
           NEW item \in CallItems, NEW h \in Int, Begin(name, d, o, item, h),
           name = "update" => o \in Dicts /\ ~Free(o)
    PROVE  IInv' /\ KeysetsGrow
<1>1. ~Resizing /\ UNCHANGED <<dicts, keysets, resize>>
    BY IdleBefore DEF IInv, Begin
<1>2. call' = Frame(name, d, o, dicts[d].keyset, SpaceLeft(d), item, h)
    BY DEF Begin
<1>3. /\ call'.op = name /\ call'.self = d /\ call'.other = o /\ call'.hint = h
      /\ call'.item = item /\ call'.spaceleft = SpaceLeft(d)
    BY <1>2 DEF Frame
<1>4. ItemInv'
    BY <1>1, <1>3 DEF ItemInv, Free, Self, SpaceLeft, AllocLen, CallItems
<1> QED
    BY <1>1, <1>4, OnlyCall

LEMMA BeginCallTables ==
    ASSUME IInv, UsersInv', NEW d \in Dicts,
           \/ \E o \in Dicts : BeginUpdate(d, o)
           \/ \E k \in Keys, v \in Values : BeginSetItem(d, k, v) \/ BeginSetDefault(d, k, v)
           \/ \E h \in Hints : BeginUpdateIter(d, h) \/ BeginUpdateK(d, h)
    PROVE  IInv' /\ KeysetsGrow
<1>1. NoItem \in CallItems /\ Hints \subseteq Int
    BY DictConstants DEF CallItems
<1>2. ASSUME NEW o \in Dicts, BeginUpdate(d, o)
      PROVE  IInv' /\ KeysetsGrow
  <2>1. ~Free(o) /\ ~Free(d) /\ Begin("update", d, o, NoItem, dicts[o].len) /\ Idle
      BY <1>2 DEF BeginUpdate, UpdateFrom, Mutable, Free, Begin
  <2>2. dicts[o].len \in Int
    <3>1. o \in Dicts /\ ~Resizing /\ dicts[o].keyset \in Live
        BY <2>1, IdleBefore, LiveRefs DEF IInv
    <3>2. LinedUp(dicts[o].values, dicts[o].len, Table(o))
        BY <2>1, <3>1 DEF IInv, ValuesInv
    <3>3. AllocLen(o) \in AllocLens /\ TableSound(Table(o), AllocLen(o))
        BY <3>1 DEF IInv, TablesInv, KeysetSound, AllocLen, Table
    <3> QED
        BY <3>2, <3>3, LinedFinite
  <2> QED
      BY <1>1, <2>1, <2>2, BeginTables DEF Ops
<1>3. ASSUME NEW k \in Keys, NEW v \in Values,
             BeginSetItem(d, k, v) \/ BeginSetDefault(d, k, v)
      PROVE  IInv' /\ KeysetsGrow
  <2> DEFINE item == [key |-> k, value |-> v]
  <2>1. item \in CallItems
      BY DEF CallItems
  <2>2. PICK name \in OneItemOps : Begin(name, d, NULL, item, 0)
      BY <1>3 DEF BeginSetItem, BeginSetDefault, OneItemOps
  <2> HIDE DEF item
  <2>3. name \in Ops /\ name # "update" /\ 0 \in Int
      BY DEF Ops, OneItemOps
  <2> QED
      BY <2>1, <2>2, <2>3, BeginTables
<1>4. ASSUME NEW h \in Hints, BeginUpdateIter(d, h) \/ BeginUpdateK(d, h)
      PROVE  IInv' /\ KeysetsGrow
  <2>1. PICK name \in {"update_iter", "updateK"} : Begin(name, d, NULL, NoItem, h)
      BY <1>4 DEF BeginUpdateIter, BeginUpdateK
  <2>2. h \in Int /\ name \in Ops /\ name # "update"
      BY <1>1 DEF Ops, ItemByItem
  <2> QED
      BY <1>1, <2>1, <2>2, BeginTables
<1> QED
    BY <1>2, <1>3, <1>4

LEMMA BeginDictKTables ==
    ASSUME IInv, UsersInv', NEW d \in Dicts, NEW type \in {"dict", "frozendict"},
           NEW h \in Hints, BeginDictK(d, type, h)
    PROVE  IInv' /\ KeysetsGrow
<1> DEFINE n == FreshKeyset
           size == CalcAllocLen(Hinted(h))
           fixed == h <= AllocHintMax /\ type = "frozendict"
           new == NewDict(type, n, size, fixed)
<1>0. Idle /\ Free(d) /\ h > 0 /\ resize = NoResize /\ ~Resizing
    BY IdleBefore DEF BeginDictK, IInv
<1>1. CASE Fails("MemoryError")
    BY <1>0, <1>1, FailsTables
<1>2. CASE ~Fails("MemoryError")
  <2>0. /\ dicts' = [dicts EXCEPT ![d] = new]
        /\ keysets' = [keysets EXCEPT ![n] = NewKeyset(size)]
        /\ call' = Frame("dictK", d, NULL, n, Space(size, 0), NoItem, h)
        /\ UNCHANGED resize
      BY <1>2 DEF BeginDictK
  <2>1. size \in AllocLens
    <3>1. Hinted(h) \in Nat /\ Hinted(h) <= SetLenMax
        BY <1>0, DictConstants, TableConstants DEF Hinted, SetLenMax
    <3> QED
        BY <3>1, CalcAllocLenFits
  <2>2. /\ \A e \in Dicts \ {d} : dicts'[e] = dicts[e]
        /\ dicts'[d].values = NoValues(size) /\ dicts'[d].len = 0
        /\ dicts'[d].keyset = n /\ dicts'[d].finger \in {size, BufferLen(size)}
      BY <2>0 DEF IInv, UsersInv, Shapes, NewDict
  <2>3. dicts'[d].finger \in Nat
      BY <2>1, <2>2, BufferLenNat
  <2> HIDE DEF new, size, fixed
  <2>4. /\ n \in Keysets /\ keysets'[n] = NewKeyset(size)
        /\ \A x \in Live' :
              /\ KeysetSound(keysets'[x])
              /\ x \in Live => Grown(keysets[x].table, keysets'[x].table)
      BY <1>0, <2>0, <2>1, FreshSound
  <2>5. LinedUp(dicts'[d].values, dicts'[d].len, keysets'[dicts'[d].keyset].table)
    <3>1. LinedUp(NoValues(size), 0, NewKeyset(size).table)
        BY <2>1, EmptyKeyset
    <3> QED
        BY <2>2, <2>4, <3>1
  <2>6. /\ call'.op = "dictK" /\ call'.self = d /\ call'.item = NoItem
        /\ call'.spaceleft = Space(size, 0) /\ call'.hint = h
      BY <2>0 DEF Frame
  <2>7. ItemInv'
    <3>1. SpaceLeft(d)' = Space(size, 0)
        BY <2>1, <2>2, <2>4, EmptyKeyset DEF SpaceLeft, AllocLen
    <3> QED
        BY <2>6, <3>1, DictConstants DEF ItemInv, CallItems, Self, SpaceLeft, AllocLen
  <2>8. ~Resizing' /\ ResizeInv'
      BY <1>0, <2>0 DEF Resizing, ResizeInv
  <2> QED
      BY <1>0, <2>2, <2>3, <2>4, <2>5, <2>7, <2>8, TablesKept
<1> QED
    BY <1>1, <1>2

\* A call gives up, and the dict it was making goes.
LEMMA GiveUpTables ==
    ASSUME IInv, UsersInv', ~Idle, resize = NoResize, NEW e, GiveUp(e)
    PROVE  IInv' /\ KeysetsGrow
<1>1. call' = NoCall /\ resize' = NoResize /\ ~Resizing
    BY DEF GiveUp, Return, Resizing
<1>2. ItemInv'
    BY <1>1, IdleAfter
<1>3. CASE UNCHANGED <<dicts, keysets>>
    BY <1>1, <1>2, <1>3, OnlyCall
<1>4. CASE ~UNCHANGED <<dicts, keysets>>
  <2>1. Self \in Dicts /\ ~Free(Self)
      BY DEF IInv, UsersInv, CallPlaced
  <2>2. /\ keysets' = Release(keysets, dicts[Self].keyset)
        /\ dicts' = [dicts EXCEPT ![Self] = FreeDict]
      BY <1>4 DEF GiveUp, Self
  <2> QED
      BY <1>1, <2>1, <2>2, FreedTables
<1> QED
    BY <1>3, <1>4

LEMMA NextItemTables ==
    ASSUME IInv, UsersInv',
           \/ \E k \in Keys, v \in Values : NextItem(k, v)
           \/ NextOfOther \/ EndOfItems \/ ItemRaises
    PROVE  IInv' /\ KeysetsGrow
<1>1. ~Idle /\ resize = NoResize /\ ~Resizing
    BY DEF NextItem, NextOfOther, EndOfItems, ItemRaises, Awaiting, IInv, UsersInv,
           ResizePlaced, Idle, ItemByItem, Resizing
<1>2. ASSUME NEW item \in CallItems, UNCHANGED <<dicts, keysets, resize>>,
             DOMAIN call' = DOMAIN call, call'.item = item,
             call'.hint = call.hint - 1,
             \A f \in {"op", "self", "other", "spaceleft"} : call'[f] = call[f]
      PROVE  IInv' /\ KeysetsGrow
  <2>1. /\ call'.op = call.op /\ call'.self = call.self
        /\ call'.other = call.other /\ call'.spaceleft = call.spaceleft
      BY <1>2
  <2>2. ItemInv'
      BY <1>1, <1>2, <2>1
         DEF IInv, ItemInv, Free, Idle, Resizing, Self, SpaceLeft, AllocLen, CallItems
  <2> QED
      BY <1>1, <1>2, <2>2, OnlyCall
<1>3. ASSUME NEW k \in Keys, NEW v \in Values, NextItem(k, v)
      PROVE  IInv' /\ KeysetsGrow
  <2>1. call' = [call EXCEPT !.item = [key |-> k, value |-> v], !.hint = @ - 1]
      BY <1>3 DEF NextItem
  <2>2. /\ DOMAIN call' = DOMAIN call /\ call'.item = [key |-> k, value |-> v]
        /\ call'.hint = call.hint - 1
        /\ \A f \in {"op", "self", "other", "spaceleft"} : call'[f] = call[f]
      BY <2>1 DEF IInv, UsersInv, Shapes, NoCall
  <2>3. [key |-> k, value |-> v] \in CallItems
      BY DEF CallItems
  <2> QED
      BY <1>2, <1>3, <2>2, <2>3 DEF NextItem
<1>4. CASE NextOfOther
  <2> DEFINE o == call.other
  <2>1. PICK s \in Valued(dicts[o].values) :
            call' = [call EXCEPT !.scan = s + 1, !.hint = @ - 1,
                          !.item = [key   |-> Table(o)[s].key,
                                    value |-> dicts[o].values[s]]]
      BY <1>4 DEF NextOfOther
  <2>2. o \in Dicts /\ ~Free(o)
      BY <1>4 DEF NextOfOther, Awaiting, IInv, ItemInv
  <2>3. LinedUp(dicts[o].values, dicts[o].len, Table(o))
      BY <1>1, <2>2 DEF IInv, ValuesInv
  <2>4. /\ Table(o)[s].key \in Keys /\ dicts[o].values[s] \in Values
      BY <2>3 DEF LinedUp, Valued, UsedSlots
  <2>5. [key |-> Table(o)[s].key, value |-> dicts[o].values[s]] \in CallItems
      BY <2>4 DEF CallItems
  <2> HIDE DEF o
  <2>6. /\ DOMAIN call' = DOMAIN call /\ call'.hint = call.hint - 1
        /\ call'.item = [key |-> Table(o)[s].key, value |-> dicts[o].values[s]]
        /\ \A f \in {"op", "self", "other", "spaceleft"} : call'[f] = call[f]
      BY <2>1 DEF IInv, UsersInv, Shapes, NoCall
  <2> QED
      BY <1>2, <1>4, <2>5, <2>6 DEF NextOfOther
<1>5. CASE EndOfItems
  <2>1. /\ call' = NoCall /\ UNCHANGED <<dicts, keysets, resize>>
        /\ resize' = NoResize
      BY <1>1, <1>5 DEF EndOfItems, Return
  <2> QED
      BY <1>1, <2>1, IdleAfter, OnlyCall
<1>6. CASE ItemRaises
    BY <1>1, <1>6, GiveUpTables DEF ItemRaises
<1> QED
    BY <1>3, <1>4, <1>5, <1>6

(***************************************************************************)
(* Pushing one item.                                                       *)
(***************************************************************************)

\* Once an item is in, the call ends or waits for the next one, with the room
\* the keyset has left.
LEMMA ItemDoneKeeps ==
    ASSUME IInv, UsersInv', ~Idle, ~Resizing', NEW left,
           ItemDone(left) \/ call' = NoCall,
           call.op \notin OneItemOps => left = Space(
               keysets'[dicts'[Self].keyset].alloclen, keysets'[dicts'[Self].keyset].fill),
           \A d \in Dicts : dicts'[d].kind = dicts[d].kind
    PROVE  ItemInv' /\ ResizeInv'
<1>1. ResizeInv'
    BY DEF ResizeInv
<1>2. CASE call' = NoCall
    BY <1>1, <1>2 DEF ItemInv, CallItems, NoCall, Idle
<1>3. CASE call' # NoCall
  <2>1. call' = [call EXCEPT !.item = NoItem, !.spaceleft = left]
        /\ call.op \notin OneItemOps
      BY <1>3 DEF ItemDone, Return, OneItemOps
  <2>2. /\ call'.op = call.op /\ call'.self = call.self /\ call'.hint = call.hint
        /\ call'.other = call.other /\ call'.item = NoItem /\ call'.spaceleft = left
      BY <2>1 DEF IInv, UsersInv, Shapes, NoCall
  <2> QED
      BY <1>1, <2>1, <2>2
         DEF IInv, ItemInv, CallItems, Free, Idle, Self, SpaceLeft, AllocLen
<1> QED
    BY <1>2, <1>3

LEMMA KeepValueTables ==
    ASSUME IInv, UsersInv', resize = NoResize, NEW s, KeepValue(s)
    PROVE  IInv' /\ KeysetsGrow
<1>1. ~Resizing /\ UNCHANGED <<dicts, keysets, resize>> /\ call' = NoCall
    BY DEF KeepValue, Return, Resizing
<1>2. ItemInv'
    BY <1>1, IdleAfter
<1> QED
    BY <1>1, <1>2, OnlyCall

LEMMA PushExistingKeyTables ==
    ASSUME IInv, UsersInv', ~Idle, call.item # NoItem, resize = NoResize,
           NEW s \in Lookup(Self, call.item.key), PushExistingKey(s),
           Table(Self)[s].key \in Keys
    PROVE  IInv' /\ KeysetsGrow
<1>0. /\ Self \in Dicts /\ ~Free(Self) /\ ~Resizing
      /\ call.item.key \in Keys /\ call.item.value \in Values
    BY DEF IInv, UsersInv, CallPlaced, ItemInv, CallItems, Resizing
<1> DEFINE v == dicts[Self].values
           new == SetValue(dicts[Self], s, call.item.value)
<1>1. /\ dicts' = [dicts EXCEPT ![Self] = new]
      /\ ItemDone(call.spaceleft) /\ UNCHANGED <<keysets, resize>>
    BY DEF PushExistingKey, Self
<1>2. /\ new.keyset = dicts[Self].keyset /\ new.kind = dicts[Self].kind
      /\ new.finger = dicts[Self].finger
      /\ new.values = [v EXCEPT ![s] = call.item.value]
      /\ new.len = IF v[s] = NULL THEN dicts[Self].len + 1 ELSE dicts[Self].len
    BY <1>0 DEF SetValue, IInv, UsersInv, Shapes, FreeDict
<1> HIDE DEF new
<1>3. dicts'[Self] = new /\ \A e \in Dicts \ {Self} : dicts'[e] = dicts[e]
    BY <1>0, <1>1 DEF IInv, UsersInv, Shapes
<1>4. /\ LinedUp(v, dicts[Self].len, Table(Self))
      /\ AllocLen(Self) \in AllocLens /\ TableSound(Table(Self), AllocLen(Self))
      /\ s \in UsedSlots(Table(Self))
    BY <1>0, LookupInTable DEF IInv, ValuesInv
<1>5. LinedUp(new.values, new.len, Table(Self))
    BY <1>0, <1>2, <1>4, GrownSame, LinedSet
<1>6. Table(Self) = keysets'[dicts'[Self].keyset].table
    BY <1>1, <1>2, <1>3 DEF Table
<1>7. ItemInv' /\ ResizeInv' /\ ~Resizing'
  <2>1. ~Resizing'
      BY <1>0, <1>1 DEF Resizing
  <2>2. call.spaceleft = Space(keysets'[dicts'[Self].keyset].alloclen,
                               keysets'[dicts'[Self].keyset].fill)
      BY <1>0, <1>1, <1>2, <1>3 DEF IInv, ItemInv, SpaceLeft, AllocLen
  <2>3. \A d \in Dicts : dicts'[d].kind = dicts[d].kind
      BY <1>2, <1>3
  <2> QED
      BY <1>1, <2>1, <2>2, <2>3, ItemDoneKeeps
<1>8. \A n \in Live' : /\ KeysetSound(keysets'[n])
                       /\ n \in Live => Grown(keysets[n].table, keysets'[n].table)
    BY <1>1, GrownSame DEF IInv, TablesInv, Live
<1>9. dicts'[Self].finger \in Nat
    BY <1>0, <1>2, <1>3 DEF IInv, FingerInv
<1> QED
    BY <1>0, <1>3, <1>5, <1>6, <1>7, <1>8, <1>9, TablesKept

LEMMA BeginResizeTables ==
    ASSUME IInv, UsersInv', ~Idle, call.item # NoItem, resize = NoResize,
           dicts[Self].len <= SetLenMax - 1,
           call.item.key \notin KeysIn(Table(Self)),
           NEW h \in Int, BeginResize(Self, GrowTo(dicts[Self].len, h)),
           UNCHANGED call
    PROVE  IInv' /\ KeysetsGrow
<1> DEFINE n == FreshKeyset
           v == dicts[Self].values
           size == CalcAllocLen(GrowTo(dicts[Self].len, h))
           inline == size <= InlineLen /\ ~dicts[Self].inline
<1>0. /\ Self \in Dicts /\ ~Free(Self) /\ ~Resizing /\ resize.ks = NULL
      /\ call.item.key \in Keys /\ call.item.value \in Values
    BY IdleState DEF IInv, UsersInv, CallPlaced, ItemInv, CallItems, Resizing, NoResize
<1>1. /\ KeysetSound(keysets[dicts[Self].keyset])
      /\ AllocLen(Self) \in AllocLens /\ TableSound(Table(Self), AllocLen(Self))
      /\ LinedUp(v, dicts[Self].len, Table(Self))
      /\ dicts[Self].keyset \in Live
    BY <1>0, LiveRefs DEF IInv, TablesInv, ValuesInv, KeysetSound, AllocLen, Table
<1>2. dicts[Self].len \in Nat /\ IsFiniteSet(Valued(v))
    BY <1>1, LinedFinite
<1>3. size \in AllocLens /\ Space(size, 0) > dicts[Self].len
  <2> DEFINE m == GrowTo(dicts[Self].len, h)
  <2>1. m \in Nat /\ dicts[Self].len < m /\ m <= SetLenMax
      BY <1>2, GrowToBounds
  <2> HIDE DEF m
  <2>2. CalcAllocLen(m) \in AllocLens /\ Space(CalcAllocLen(m), 0) >= m
      BY <2>1, CalcAllocLenFits
  <2>3. Space(CalcAllocLen(m), 0) \in Int
    <3>1. CalcAllocLen(m) \in Nat
        BY <2>2, TableConstants
    <3>2. (CalcAllocLen(m) * 2) \div 3 \in Int
        BY <3>1
    <3> QED
        BY <3>2 DEF Space
  <2> QED
      BY <1>2, <2>1, <2>2, <2>3 DEF m
<1>4. /\ keysets' = [keysets EXCEPT ![n] = NewKeyset(size)]
      /\ resize' = [ks |-> n, values |-> v, scan |-> 0, left |-> dicts[Self].len]
      /\ dicts' = [dicts EXCEPT
              ![Self].values = NoValues(size), ![Self].inline = inline,
              ![Self].finger = IF inline THEN InlineLen ELSE size]
    BY DEF BeginResize
<1> HIDE DEF size, inline
<1>5. /\ \A e \in Dicts \ {Self} : dicts'[e] = dicts[e]
      /\ dicts'[Self].keyset = dicts[Self].keyset
      /\ dicts'[Self].kind = dicts[Self].kind
      /\ dicts'[Self].len = dicts[Self].len
      /\ dicts'[Self].values = NoValues(size)
      /\ dicts'[Self].finger \in {InlineLen, size}
    BY <1>0, <1>4 DEF IInv, UsersInv, Shapes, FreeDict
<1>6. /\ n \in Keysets /\ n \notin Live /\ keysets'[n] = NewKeyset(size)
      /\ \A x \in Keysets : x # n => keysets'[x] = keysets[x]
      /\ \A x \in Live' :
            /\ KeysetSound(keysets'[x])
            /\ x \in Live => Grown(keysets[x].table, keysets'[x].table)
    BY <1>3, <1>4, FreshSound
<1> HIDE DEF n
<1>7. /\ resize'.ks = n /\ resize'.values = v /\ resize'.scan = 0
      /\ resize'.left = dicts[Self].len /\ DOMAIN resize' = DOMAIN NoResize
      /\ Self' = Self /\ Table(Self)' = Table(Self)
  <2>1. dicts[Self].keyset # n /\ dicts[Self].keyset \in Keysets
      BY <1>1, <1>6 DEF Live
  <2> QED
      BY <2>1, <1>4, <1>5, <1>6 DEF Self, Table, NoResize
<1>8. Resizing'
    BY <1>6, <1>7, DictConstants DEF Resizing, NoResize
<1>9. ToMove' = Valued(v)
  <2>1. Valued(v) \subseteq Nat
    <3>1. DOMAIN Table(Self) = 0 .. AllocLen(Self) - 1
        BY <1>1 DEF TableSound
    <3>2. AllocLen(Self) \in Nat
        BY <1>1, TableConstants
    <3> QED
        BY <1>1, <3>1, <3>2 DEF LinedUp, UsedSlots
  <2> QED
      BY <1>7, <2>1 DEF ToMove
<1>10. /\ LinedUp(NoValues(size), 0, keysets'[n].table)
       /\ KeysIn(keysets'[n].table) = {}
       /\ keysets'[n].alloclen = size /\ keysets'[n].fill = 0
    BY <1>3, <1>6, EmptyKeyset, EmptySound
<1>11. ResizeInv'
  <2>1. LinedUp(resize'.values, dicts'[Self'].len, Table(Self)')
      BY <1>1, <1>5, <1>7
  <2>2. LinedUp(dicts'[Self'].values, dicts'[Self'].len - resize'.left,
                keysets'[resize'.ks].table)
      BY <1>2, <1>5, <1>7, <1>10
  <2>3. resize'.left = Cardinality(ToMove')
      BY <1>1, <1>7, <1>9 DEF LinedUp
  <2>4. Space(keysets'[resize'.ks].alloclen, keysets'[resize'.ks].fill) > resize'.left
      BY <1>3, <1>7, <1>10
  <2>5. /\ call'.item.key \notin KeysIn(keysets'[resize'.ks].table)
        /\ \A s \in ToMove' : Table(Self)'[s].key \notin
               KeysIn(keysets'[resize'.ks].table) \cup {call'.item.key}
    <3>1. \A s \in Valued(v) : Table(Self)[s].key \in KeysIn(Table(Self))
        BY <1>1 DEF LinedUp, KeysIn
    <3> QED
        BY <3>1, <1>7, <1>9, <1>10
  <2> QED
      BY <1>7, <2>1, <2>2, <2>3, <2>4, <2>5 DEF ResizeInv
<1>12. ItemInv'
    BY <1>0, <1>5, <1>8 DEF IInv, ItemInv, Free, Idle
<1>13. dicts'[Self].finger \in Nat
    BY <1>3, <1>5, DictConstants, TableConstants
<1> QED
    BY <1>0, <1>5, <1>6, <1>7, <1>8, <1>11, <1>12, <1>13, TablesKept

LEMMA PushNewKeyTables ==
    ASSUME IInv, UsersInv', ~Idle, call.item # NoItem, resize = NoResize,
           NEW s \in Lookup(Self, call.item.key),
           Table(Self)[s].key \notin Keys, PushNewKey(s)
    PROVE  IInv' /\ KeysetsGrow
<1> DEFINE n == dicts[Self].keyset
           ks == keysets[n]
           k == call.item.key
           e == [key |-> k, hash |-> HashOf[k]]
           v == dicts[Self].values
<1>0. /\ Self \in Dicts /\ ~Free(Self) /\ ~Resizing
      /\ call.item.key \in Keys /\ call.item.value \in Values
      /\ call.hint \in Int
    BY DEF IInv, UsersInv, CallPlaced, ItemInv, CallItems, Resizing
<1>1. /\ KeysetSound(ks) /\ ks.alloclen \in AllocLens /\ TableSound(ks.table, ks.alloclen)
      /\ s \in 0 .. ks.alloclen - 1 /\ ks.table[s].key = NULL
      /\ k \notin KeysIn(ks.table) /\ OnProbe(ks.table, ks.alloclen, k, s)
      /\ LinedUp(v, dicts[Self].len, ks.table) /\ n \in Live
    BY <1>0, LookupInTable, LiveRefs DEF IInv, ValuesInv, Table, AllocLen
<1>2. ks.table[s].key # Dummy /\ call.spaceleft = Space(ks.alloclen, ks.fill)
    BY <1>0, <1>1, TableConstants DEF IInv, ItemInv, SpaceLeft, AllocLen
<1>3. CASE GiveUp("MemorySizeOverflowError") \/ GiveUp("MemoryError")
    BY <1>3, GiveUpTables
<1>4. CASE /\ dicts[Self].len <= SetLenMax - 1
           /\ BeginResize(Self, GrowTo(dicts[Self].len,
                  IF call.op \in OneItemOps THEN 0 ELSE call.hint))
           /\ UNCHANGED <<call, ret>>
  <2>1. (IF call.op \in OneItemOps THEN 0 ELSE call.hint) \in Int
      BY <1>0
  <2> QED
      BY <1>1, <1>4, <2>1, BeginResizeTables DEF Table
<1>5. CASE /\ call.spaceleft > 0
           /\ keysets' = [keysets EXCEPT
                  ![n].table = PutKey(@, s, k), ![n].fill = @ + 1]
           /\ dicts' = [dicts EXCEPT ![Self].values[s] = call.item.value,
                                     ![Self].len = @ + 1]
           /\ ItemDone(call.spaceleft - 1)
           /\ UNCHANGED resize
  <2> DEFINE new == keysets'[n]
  <2>1. /\ dicts'[Self].values = [v EXCEPT ![s] = call.item.value]
        /\ dicts'[Self].len = dicts[Self].len + 1
        /\ dicts'[Self].finger = dicts[Self].finger
        /\ dicts'[Self].keyset = n /\ dicts'[Self].kind = dicts[Self].kind
        /\ \A d \in Dicts \ {Self} : dicts'[d] = dicts[d]
      BY <1>0, <1>5 DEF IInv, UsersInv, Shapes, FreeDict
  <2>2. /\ new.table = [ks.table EXCEPT ![s] = e]
        /\ new.alloclen = ks.alloclen /\ new.fill = ks.fill + 1
        /\ new.refs = ks.refs
        /\ \A x \in Keysets : x # n => keysets'[x] = keysets[x]
    <3> DEFINE t == PutKey(ks.table, s, k)
    <3>1. keysets' = [keysets EXCEPT ![n].table = t, ![n].fill = @ + 1]
        BY <1>5
    <3>2. n \in Keysets
        BY <1>1 DEF Live
    <3>3. t = [ks.table EXCEPT ![s] = e]
        BY DEF PutKey
    <3> HIDE DEF t, n, e
    <3> QED
        BY <3>1, <3>2, <3>3 DEF IInv, UsersInv, Shapes, FreeKeyset
  <2>3. e \in Entry /\ e.key = k
      BY <1>0, TableConstants DEF Entry
  <2>4. Space(ks.alloclen, ks.fill) > 0
      BY <1>2, <1>5
  <2> HIDE DEF e, new, ks
  <2>5. /\ KeysetSound(new) /\ Grown(ks.table, new.table)
        /\ s \in UsedSlots(new.table) /\ s \notin UsedSlots(ks.table)
        /\ Space(new.alloclen, new.fill) = Space(ks.alloclen, ks.fill) - 1
      BY <1>0, <1>1, <2>2, <2>3, <2>4, KeysetPut
  <2>6. v[s] = NULL
    <3>1. s \in DOMAIN ks.table
        BY <1>1 DEF TableSound
    <3> QED
        BY <1>1, <2>5, <3>1 DEF LinedUp, Valued
  <2>7. LinedUp(dicts'[Self].values, dicts'[Self].len, new.table)
      BY <1>0, <1>1, <2>1, <2>5, <2>6, LinedSet
  <2>8. \A x \in Live' : /\ KeysetSound(keysets'[x])
                         /\ x \in Live => Grown(keysets[x].table, keysets'[x].table)
      BY <2>2, <2>5, GrownSame DEF IInv, TablesInv, Live, new, ks
  <2>9. ItemInv' /\ ResizeInv' /\ ~Resizing'
    <3>1. ~Resizing'
        BY <1>0, <1>5 DEF Resizing
    <3>2. call.spaceleft - 1 = Space(keysets'[dicts'[Self].keyset].alloclen,
                                     keysets'[dicts'[Self].keyset].fill)
        BY <1>2, <2>1, <2>5 DEF new, ks
    <3>3. \A d \in Dicts : dicts'[d].kind = dicts[d].kind
        BY <2>1
    <3> QED
        BY <1>5, <3>1, <3>2, <3>3, ItemDoneKeeps
  <2>10. dicts'[Self].finger \in Nat
      BY <1>0, <2>1 DEF IInv, FingerInv
  <2> QED
      BY <1>0, <2>1, <2>7, <2>8, <2>9, <2>10, TablesKept DEF new
<1> QED
    BY <1>1, <1>2, <1>3, <1>4, <1>5 DEF PushNewKey

\* The first NULL slot of the new keyset, and what an entry does there.
LEMMA MovePut ==
    ASSUME IInv, NEW n \in Live, NEW e \in Entry, e.key \in Keys,
           e.key \notin KeysIn(keysets[n].table),
           Space(keysets[n].alloclen, keysets[n].fill) > 0,
           NEW t \in CleanSlot(keysets[n].table, keysets[n].alloclen, e.key),
           NEW new, new.table = [keysets[n].table EXCEPT ![t] = e],
           new.alloclen = keysets[n].alloclen, new.fill = keysets[n].fill + 1
    PROVE  /\ KeysetSound(new) /\ Grown(keysets[n].table, new.table)
           /\ t \in UsedSlots(new.table) /\ t \notin UsedSlots(keysets[n].table)
           /\ KeysIn(new.table) = KeysIn(keysets[n].table) \cup {e.key}
           /\ Space(new.alloclen, new.fill)
              = Space(keysets[n].alloclen, keysets[n].fill) - 1
<1> DEFINE ks == keysets[n]
<1>1. KeysetSound(ks)
    BY DEF IInv, TablesInv
<1>2. ks.alloclen \in AllocLens /\ ks.table \in [0 .. ks.alloclen - 1 -> Entry]
    BY <1>1 DEF KeysetSound, TableSound
<1> HIDE DEF ks
<1>3. \E s \in 0 .. ks.alloclen - 1 : ks.table[s].key = NULL
    BY <1>1, <1>2, NullSlotExists DEF KeysetSound
<1>4. /\ t \in 0 .. ks.alloclen - 1 /\ ks.table[t].key = NULL
      /\ OnProbe(ks.table, ks.alloclen, e.key, t)
    BY <1>2, <1>3, CleanSlotFinds DEF ks
<1> QED
    BY <1>1, <1>4, KeysetPut DEF ks

\* Where a resize is: the dict, its old keyset and the new one.
LEMMA ResizeState ==
    ASSUME IInv, Resizing
    PROVE  /\ ~Idle /\ Self \in Dicts /\ ~Free(Self)
           /\ call.item.key \in Keys /\ call.item.value \in Values
           /\ resize.ks \in Live /\ dicts[Self].keyset \in Live
           /\ \A d \in Dicts : dicts[d].keyset # resize.ks
           /\ AllocLen(Self) \in AllocLens /\ TableSound(Table(Self), AllocLen(Self))
           /\ KeysetSound(keysets[resize.ks])
           /\ TableSound(keysets[resize.ks].table, keysets[resize.ks].alloclen)
           /\ keysets[resize.ks].alloclen \in AllocLens
<1>1. /\ ~Idle /\ Self \in Dicts /\ ~Free(Self)
      /\ call.item.key \in Keys /\ call.item.value \in Values
      /\ \A d \in Dicts : dicts[d].keyset # resize.ks
    BY DEF IInv, UsersInv, CallPlaced, ResizePlaced, Resizing, ItemInv, CallItems
<1>2. resize.ks \in Live /\ dicts[Self].keyset \in Live
    BY <1>1, LiveRefs DEF IInv
<1> QED
    BY <1>1, <1>2 DEF IInv, TablesInv, KeysetSound, AllocLen, Table

LEMMA ResizeMoveTables ==
    ASSUME IInv, UsersInv', ResizeMove
    PROVE  IInv' /\ KeysetsGrow
<1> DEFINE n == resize.ks
           ks == keysets[n]
           new == keysets'[n]
           v == dicts[Self].values
           len == dicts[Self].len
<1>0. Resizing /\ resize.left > 0
    BY DEF ResizeMove, Resizing, NoResize
<1>s. PICK s \in Valued(resize.values) :
          /\ s >= resize.scan
          /\ \A r \in Valued(resize.values) : r >= resize.scan => s <= r
          /\ \E t \in CleanSlot(ks.table, ks.alloclen, Table(Self)[s].key) :
                /\ keysets' = [keysets EXCEPT
                      ![n].table = [@ EXCEPT ![t] = Table(Self)[s]], ![n].fill = @ + 1]
                /\ dicts' = [dicts EXCEPT ![Self].values[t] = resize.values[s]]
          /\ resize' = [resize EXCEPT !.scan = s + 1, !.left = @ - 1]
          /\ call' = call
    BY DEF ResizeMove
<1>1. PICK t \in CleanSlot(ks.table, ks.alloclen, Table(Self)[s].key) :
          /\ keysets' = [keysets EXCEPT
                ![n].table = [@ EXCEPT ![t] = Table(Self)[s]], ![n].fill = @ + 1]
          /\ dicts' = [dicts EXCEPT ![Self].values[t] = resize.values[s]]
    BY <1>s
<1> DEFINE e == Table(Self)[s]
<1>2. /\ DOMAIN resize = DOMAIN NoResize /\ resize.scan \in Nat
      /\ LinedUp(resize.values, len, Table(Self))
      /\ LinedUp(v, len - resize.left, ks.table)
      /\ resize.left = Cardinality(ToMove) /\ Space(ks.alloclen, ks.fill) > resize.left
      /\ call.item.key \notin KeysIn(ks.table)
      /\ \A r \in ToMove : Table(Self)[r].key \notin KeysIn(ks.table) \cup {call.item.key}
    BY <1>0 DEF IInv, ResizeInv
<1>3. /\ e \in Entry /\ e.key \in Keys /\ s \in UsedSlots(Table(Self)) /\ s \in Nat
      /\ resize.values[s] \in Values
      /\ s \in ToMove /\ e.key \notin KeysIn(ks.table)
  <2>1. s \in UsedSlots(Table(Self)) /\ resize.values[s] \in Values
      BY <1>2 DEF LinedUp, Valued
  <2>2. AllocLen(Self) \in Nat /\ Table(Self) \in [0 .. AllocLen(Self) - 1 -> Entry]
      BY <1>0, ResizeState, TableConstants DEF TableSound
  <2>3. s \in ToMove
      BY <1>s, <1>1 DEF ToMove
  <2> QED
      BY <1>2, <2>1, <2>2, <2>3 DEF UsedSlots
<1>4. /\ new.table = [ks.table EXCEPT ![t] = e]
      /\ new.alloclen = ks.alloclen /\ new.fill = ks.fill + 1
      /\ \A x \in Keysets : x # n => keysets'[x] = keysets[x]
  <2> DEFINE u == [ks.table EXCEPT ![t] = e]
  <2>1. keysets' = [keysets EXCEPT ![n].table = u, ![n].fill = @ + 1]
      BY <1>s, <1>1
  <2>2. n \in Keysets
      BY <1>0, ResizeState DEF Live
  <2> HIDE DEF u, n
  <2>3. /\ keysets'[n].table = u /\ keysets'[n].alloclen = keysets[n].alloclen
        /\ keysets'[n].fill = keysets[n].fill + 1
        /\ \A x \in Keysets : x # n => keysets'[x] = keysets[x]
      BY <2>1, <2>2 DEF IInv, UsersInv, Shapes, FreeKeyset
  <2> QED
      BY <2>3 DEF u
<1>5. /\ dicts'[Self].values = [v EXCEPT ![t] = resize.values[s]]
      /\ dicts'[Self].len = len /\ dicts'[Self].keyset = dicts[Self].keyset
      /\ dicts'[Self].finger = dicts[Self].finger
      /\ dicts'[Self].kind = dicts[Self].kind
      /\ \A d \in Dicts \ {Self} : dicts'[d] = dicts[d]
    BY <1>0, <1>s, <1>1, ResizeState DEF IInv, UsersInv, Shapes, FreeDict
<1>6. /\ resize'.ks = n /\ resize'.values = resize.values /\ resize'.scan = s + 1
      /\ resize'.left = resize.left - 1 /\ DOMAIN resize' = DOMAIN NoResize
    BY <1>s, <1>1, <1>2 DEF NoResize
<1>7. Self' = Self /\ Table(Self)' = Table(Self) /\ Resizing'
  <2>1. dicts[Self].keyset # n /\ dicts[Self].keyset \in Keysets /\ n \in Keysets
      BY <1>0, ResizeState DEF Live
  <2>2. Self' = Self
      BY <1>s, <1>1 DEF Self
  <2>3. Table(Self)' = Table(Self)
      BY <1>4, <1>5, <2>1, <2>2 DEF Table
  <2> QED
      BY <1>6, <2>1, <2>2, <2>3, DictConstants DEF Resizing, NoResize
<1>8. /\ IsFiniteSet(Valued(resize.values)) /\ len \in Nat
      /\ IsFiniteSet(Valued(v)) /\ resize.left \in Nat
      /\ Cardinality(ToMove \ {s}) = Cardinality(ToMove) - 1
  <2>1. IsFiniteSet(Valued(resize.values)) /\ len \in Nat /\ IsFiniteSet(Valued(v))
      BY <1>0, <1>2, ResizeState, LinedFinite
  <2>2. IsFiniteSet(ToMove)
      BY <2>1, FS_Subset DEF ToMove
  <2>3. Cardinality(ToMove) \in Nat
      BY <2>2, FS_CardinalityType
  <2>4. Cardinality(ToMove \ {s}) = Cardinality(ToMove) - 1
      BY <1>3, <2>2, FS_RemoveElement
  <2> QED
      BY <1>2, <2>1, <2>3, <2>4
<1>9. ToMove' = ToMove \ {s}
  <2>1. Valued(resize.values) \subseteq Nat
    <3>1. DOMAIN Table(Self) = 0 .. AllocLen(Self) - 1 /\ AllocLen(Self) \in Nat
        BY <1>0, ResizeState, TableConstants DEF TableSound
    <3> QED
        BY <1>2, <3>1 DEF LinedUp, UsedSlots
  <2> QED
      BY <1>s, <1>1, <1>2, <1>3, <1>6, <2>1 DEF ToMove
<1> HIDE DEF e, new, ks
<1>10. Space(ks.alloclen, ks.fill) \in Int
  <2>1. ks.alloclen \in Nat /\ ks.fill \in Nat
    <3>1. IsFiniteSet(FilledSlots(ks.table))
        BY <1>0, ResizeState, SlotsFinite DEF TableSound, ks
    <3> QED
        BY <1>0, <3>1, ResizeState, FS_CardinalityType, TableConstants DEF KeysetSound, ks
  <2>2. (ks.alloclen * 2) \div 3 \in Int
      BY <2>1
  <2> QED
      BY <2>1, <2>2 DEF Space
<1>11. /\ KeysetSound(new) /\ Grown(ks.table, new.table)
       /\ t \in UsedSlots(new.table) /\ t \notin UsedSlots(ks.table)
       /\ KeysIn(new.table) = KeysIn(ks.table) \cup {e.key}
       /\ Space(new.alloclen, new.fill) = Space(ks.alloclen, ks.fill) - 1
  <2>1. /\ n \in Live /\ Space(ks.alloclen, ks.fill) > 0
        /\ t \in CleanSlot(ks.table, ks.alloclen, e.key)
      BY <1>0, <1>s, <1>1, <1>2, <1>8, <1>10, ResizeState DEF e
  <2> QED
      BY <1>3, <1>4, <2>1, MovePut DEF ks
<1>12. v[t] = NULL
  <2>1. t \in DOMAIN ks.table
      BY <1>11 DEF Grown, UsedSlots
  <2> QED
      BY <1>2, <1>11, <2>1 DEF LinedUp, Valued
<1>13. LinedUp(dicts'[Self].values, len - resize.left + 1, new.table)
  <2> DEFINE moved == len - resize.left
             x == resize.values[s]
  <2>1. ks.alloclen \in AllocLens /\ TableSound(ks.table, ks.alloclen)
      BY <1>0, ResizeState DEF ks
  <2>2. LinedUp(v, moved, ks.table) /\ x \in Values
      BY <1>2, <1>3
  <2> HIDE DEF moved, x
  <2>3. LinedUp([v EXCEPT ![t] = x], IF v[t] = NULL THEN moved + 1 ELSE moved, new.table)
      BY <1>11, <2>1, <2>2, LinedSet
  <2> QED
      BY <1>5, <1>12, <2>3 DEF moved, x
<1>14. ResizeInv'
  <2>1. LinedUp(resize'.values, dicts'[Self'].len, Table(Self)')
      BY <1>2, <1>5, <1>6, <1>7
  <2>2. LinedUp(dicts'[Self'].values, dicts'[Self'].len - resize'.left,
                keysets'[resize'.ks].table)
    <3>1. len - (resize.left - 1) = len - resize.left + 1
        BY <1>8
    <3> QED
        BY <1>5, <1>6, <1>7, <1>13, <3>1 DEF new
  <2>3. resize'.left = Cardinality(ToMove')
      BY <1>2, <1>6, <1>8, <1>9
  <2>4. Space(keysets'[resize'.ks].alloclen, keysets'[resize'.ks].fill) > resize'.left
      BY <1>2, <1>6, <1>8, <1>10, <1>11 DEF new
  <2>5. /\ call'.item.key \notin KeysIn(keysets'[resize'.ks].table)
        /\ \A r \in ToMove' : Table(Self)'[r].key \notin
               KeysIn(keysets'[resize'.ks].table) \cup {call'.item.key}
    <3>1. e.key # call.item.key
        BY <1>2, <1>3 DEF e
    <3>2. \A r \in ToMove \ {s} : Table(Self)[r].key # e.key
      <4>1. ToMove \subseteq UsedSlots(Table(Self))
          BY <1>2 DEF ToMove, LinedUp
      <4>2. TableSound(Table(Self), AllocLen(Self))
          BY <1>0, ResizeState
      <4> QED
          BY <1>3, <4>1, <4>2 DEF TableSound, e
    <3> QED
        BY <1>s, <1>1, <1>2, <1>6, <1>7, <1>9, <1>11, <3>1, <3>2 DEF new
  <2> QED
      BY <1>3, <1>6, <1>7, <2>1, <2>2, <2>3, <2>4, <2>5 DEF ResizeInv
<1>15. ItemInv'
  <2>1. \A d \in Dicts : dicts'[d].kind = dicts[d].kind
      BY <1>5
  <2> QED
      BY <1>0, <1>s, <1>1, <1>7, <2>1 DEF IInv, ItemInv, Free, Idle, CallItems
<1>16. \A x \in Live' : /\ KeysetSound(keysets'[x])
                        /\ x \in Live => Grown(keysets[x].table, keysets'[x].table)
    BY <1>0, <1>4, <1>11, ResizeState, GrownSame DEF IInv, TablesInv, Live, new, ks
<1>17. Self \in Dicts /\ dicts'[Self].finger \in Nat
    BY <1>0, <1>5, ResizeState DEF IInv, FingerInv
<1> QED
    BY <1>5, <1>7, <1>14, <1>15, <1>16, <1>17, TablesKept

LEMMA ResizeDoneTables ==
    ASSUME IInv, UsersInv', ResizeDone
    PROVE  IInv' /\ KeysetsGrow
<1> DEFINE n == resize.ks
           k == dicts[Self].keyset
           ks == keysets[n]
           new == keysets'[n]
           v == dicts[Self].values
           len == dicts[Self].len
           key == call.item.key
           x == call.item.value
           e == [key |-> key, hash |-> HashOf[key]]
           left == Space(ks.alloclen, ks.fill + 1)
<1>0. Resizing /\ resize.left = 0 /\ resize' = NoResize
    BY DEF ResizeDone, Resizing
<1>1. PICK t \in CleanSlot(ks.table, ks.alloclen, key) :
          /\ keysets' = [Release(keysets, k) EXCEPT
                 ![n].table = PutKey(@, t, key), ![n].fill = @ + 1]
          /\ dicts' = [dicts EXCEPT ![Self].keyset = n,
                 ![Self].values[t] = x, ![Self].len = @ + 1]
          /\ ItemDone(left)
    BY DEF ResizeDone
<1>2. /\ LinedUp(v, len - resize.left, ks.table)
      /\ Space(ks.alloclen, ks.fill) > resize.left
      /\ key \notin KeysIn(ks.table)
      /\ LinedUp(resize.values, len, Table(Self))
    BY <1>0 DEF IInv, ResizeInv
<1>3. /\ ~Idle /\ Self \in Dicts /\ ~Free(Self) /\ key \in Keys /\ x \in Values
      /\ n \in Live /\ n \in Keysets /\ k \in Live /\ k \in Keysets /\ k # n
      /\ keysets[k].refs # 0 /\ keysets[n].refs # 0
      /\ AllocLen(Self) \in AllocLens /\ TableSound(Table(Self), AllocLen(Self))
      /\ ks.alloclen \in AllocLens /\ TableSound(ks.table, ks.alloclen)
    BY <1>0, ResizeState, LiveRefs DEF IInv, Live
<1>4. e \in Entry /\ e.key = key
    BY <1>3, TableConstants DEF Entry
<1> HIDE DEF key, x, left
<1>5. /\ dicts'[Self].values = [v EXCEPT ![t] = x]
      /\ dicts'[Self].len = len + 1 /\ dicts'[Self].keyset = n
      /\ dicts'[Self].finger = dicts[Self].finger
      /\ dicts'[Self].kind = dicts[Self].kind
      /\ \A d \in Dicts \ {Self} : dicts'[d] = dicts[d]
    BY <1>1, <1>3 DEF IInv, UsersInv, Shapes, FreeDict
<1>6. /\ DOMAIN Release(keysets, k) = Keysets
      /\ \A y \in Keysets : DOMAIN Release(keysets, k)[y] = DOMAIN FreeKeyset
      /\ Release(keysets, k)[n] = ks
  <2>1. Release(keysets, k)[n] = ks
      BY <1>3 DEF Release, IInv, UsersInv, Shapes
  <2> QED
      BY <1>3, <2>1, ReleasedRefs DEF IInv
<1>7. /\ new.table = [ks.table EXCEPT ![t] = e]
      /\ new.alloclen = ks.alloclen /\ new.fill = ks.fill + 1
      /\ \A y \in Keysets : y # n => keysets'[y] = Release(keysets, k)[y]
  <2> DEFINE released == Release(keysets, k)
             u == PutKey(ks.table, t, key)
  <2>1. keysets' = [released EXCEPT ![n].table = u, ![n].fill = @ + 1]
      BY <1>1, <1>6
  <2>2. u = [ks.table EXCEPT ![t] = e]
      BY DEF PutKey
  <2>3. /\ DOMAIN released = Keysets /\ DOMAIN released[n] = DOMAIN FreeKeyset
        /\ released[n] = ks
      BY <1>3, <1>6
  <2> HIDE DEF u, released, n, ks
  <2>4. /\ keysets'[n].table = u /\ keysets'[n].alloclen = released[n].alloclen
        /\ keysets'[n].fill = released[n].fill + 1
        /\ \A y \in Keysets : y # n => keysets'[y] = released[y]
      BY <1>3, <2>1, <2>3 DEF FreeKeyset
  <2> QED
      BY <2>2, <2>3, <2>4 DEF released
<1> HIDE DEF e, new, ks, n
<1>8. /\ KeysetSound(new) /\ Grown(ks.table, new.table)
      /\ t \in UsedSlots(new.table) /\ t \notin UsedSlots(ks.table)
      /\ Space(new.alloclen, new.fill) = Space(ks.alloclen, ks.fill) - 1
  <2>1. Space(ks.alloclen, ks.fill) > 0 /\ t \in CleanSlot(ks.table, ks.alloclen, e.key)
      BY <1>0, <1>1, <1>2, <1>4
  <2> QED
      BY <1>2, <1>3, <1>4, <1>7, <2>1, MovePut DEF ks
<1>9. /\ IsFiniteSet(Valued(v)) /\ len \in Nat /\ len - resize.left = len
  <2>1. len \in Nat /\ IsFiniteSet(Valued(v))
      BY <1>2, <1>3, LinedFinite
  <2> QED
      BY <1>0, <2>1
<1>10. v[t] = NULL
  <2>1. t \in DOMAIN ks.table
      BY <1>8 DEF Grown, UsedSlots
  <2> QED
      BY <1>2, <1>8, <2>1 DEF LinedUp, Valued
<1>11. LinedUp(dicts'[Self].values, dicts'[Self].len, keysets'[dicts'[Self].keyset].table)
  <2>1. LinedUp(v, len, ks.table)
      BY <1>2, <1>9
  <2>2. LinedUp([v EXCEPT ![t] = x], IF v[t] = NULL THEN len + 1 ELSE len, new.table)
      BY <1>3, <1>8, <2>1, LinedSet
  <2> QED
      BY <1>5, <1>10, <2>2 DEF new
<1>12. ItemInv' /\ ResizeInv' /\ ~Resizing'
  <2>1. ~Resizing'
      BY <1>0 DEF Resizing
  <2>2. left = Space(keysets'[dicts'[Self].keyset].alloclen,
                     keysets'[dicts'[Self].keyset].fill)
      BY <1>5, <1>7 DEF left, new
  <2>3. \A d \in Dicts : dicts'[d].kind = dicts[d].kind
      BY <1>5
  <2> QED
      BY <1>1, <1>3, <2>1, <2>2, <2>3, ItemDoneKeeps
<1>13. ASSUME NEW y \in Live'
       PROVE  /\ KeysetSound(keysets'[y])
              /\ y \in Live => Grown(keysets[y].table, keysets'[y].table)
  <2>1. CASE y = n
      BY <1>8, <2>1 DEF new, ks
  <2>2. CASE y # n
    <3>1. y \in Keysets /\ keysets'[y] = Release(keysets, k)[y]
          /\ Release(keysets, k)[y].refs > 0
        BY <1>7, <2>2 DEF Live
    <3>2. /\ y \in Live /\ keysets'[y].table = keysets[y].table
          /\ keysets'[y].alloclen = keysets[y].alloclen
          /\ keysets'[y].fill = keysets[y].fill
        BY <1>3, <3>1, ReleasedTables DEF IInv
    <3> QED
        BY <3>2, SoundSame DEF IInv, TablesInv
  <2> QED
      BY <2>1, <2>2
<1>14. dicts'[Self].finger \in Nat
    BY <1>3, <1>5 DEF IInv, FingerInv
<1> QED
    BY <1>3, <1>5, <1>11, <1>12, <1>13, <1>14, TablesKept

(***************************************************************************)
(* Every step.                                                             *)
(***************************************************************************)
LEMMA PushItemTables ==
    ASSUME IInv, UsersInv', PushItem
    PROVE  IInv' /\ KeysetsGrow
<1>1. ~Idle /\ call.item # NoItem /\ resize = NoResize
    BY DEF PushItem, Pushing, IInv, UsersInv, CallPlaced, NoCall
<1>2. PICK s \in Lookup(Self, call.item.key) :
          \/ KeepValue(s)
          \/ PushExistingKey(s) /\ Table(Self)[s].key \in Keys
          \/ PushNewKey(s) /\ Table(Self)[s].key \notin Keys
    BY DEF PushItem
<1>3. CASE KeepValue(s)
    BY <1>1, <1>3, KeepValueTables
<1>4. CASE PushNewKey(s) /\ Table(Self)[s].key \notin Keys
    BY <1>1, <1>4, PushNewKeyTables
<1>5. CASE PushExistingKey(s) /\ Table(Self)[s].key \in Keys
    BY <1>1, <1>5, PushExistingKeyTables
<1> QED
    BY <1>2, <1>3, <1>4, <1>5

LEMMA StutterTables ==
    ASSUME IInv, UsersInv', UNCHANGED vars
    PROVE  IInv' /\ KeysetsGrow
<1>1. UNCHANGED <<dicts, keysets, call, resize>>
    BY DEF vars
<1>2. TablesInv' /\ ValuesInv' /\ FingerInv'
    BY <1>1 DEF IInv, TablesInv, ValuesInv, FingerInv, Live, Free, Table, Resizing, Self
<1>3. ItemInv' /\ ResizeInv'
    BY <1>1 DEF IInv, ItemInv, ResizeInv, Free, Idle, Resizing, Self, SpaceLeft,
                AllocLen, Table, ToMove
<1>4. KeysetsGrow
    BY <1>1, GrownSame DEF KeysetsGrow
<1> QED
    BY <1>2, <1>3, <1>4 DEF IInv

LEMMA NextTables ==
    ASSUME IInv, [Next]_vars
    PROVE  IInv' /\ KeysetsGrow
<1>0. UsersInv'
    BY NextUsers DEF IInv
<1>1. CASE UNCHANGED vars
    BY <1>0, <1>1, StutterTables
<1>2. ASSUME NEW d \in Dicts,
             New(d) \/ Freeze(d) \/ Dealloc(d) \/ Clear(d) \/ PopItem(d)
      PROVE  IInv' /\ KeysetsGrow
  <2>1. CASE New(d) \/ Freeze(d)
      BY <1>0, <2>1, NewTables, FreezeTables
  <2>2. CASE Dealloc(d) \/ Clear(d)
      BY <1>0, <2>2, DeallocTables, ClearTables
  <2>3. CASE PopItem(d)
      BY <1>0, <2>3, PopItemTables
  <2> QED
      BY <1>2, <2>1, <2>2, <2>3
<1>3. ASSUME NEW d \in Dicts,
             \E k \in Keys : GetItem(d, k) \/ PopValue(d, k) \/ DelItem(d, k)
      PROVE  IInv' /\ KeysetsGrow
    BY <1>0, <1>3, LookupTables
<1>4. ASSUME NEW d \in Dicts, NEW o \in Dicts,
             \/ CopyEmpty(d, o)
             \/ \E type \in {"dict", "frozendict"} : Copy(d, o, type)
      PROVE  IInv' /\ KeysetsGrow
    BY <1>0, <1>4, NewTables, CopyTables DEF CopyEmpty
<1>5. ASSUME NEW d \in Dicts,
             \/ \E o \in Dicts : BeginUpdate(d, o)
             \/ \E k \in Keys, v \in Values : BeginSetItem(d, k, v) \/ BeginSetDefault(d, k, v)
             \/ \E h \in Hints : BeginUpdateIter(d, h) \/ BeginUpdateK(d, h)
      PROVE  IInv' /\ KeysetsGrow
    BY <1>0, <1>5, BeginCallTables
<1>6. ASSUME NEW d \in Dicts,
             \E h \in Hints, type \in {"dict", "frozendict"} : BeginDictK(d, type, h)
      PROVE  IInv' /\ KeysetsGrow
    BY <1>0, <1>6, BeginDictKTables
<1>7. CASE Step
    BY <1>0, <1>7, NextItemTables, PushItemTables, ResizeMoveTables,
       ResizeDoneTables DEF Step
<1>8. CASE Call
    BY <1>2, <1>3, <1>4, <1>5, <1>6, <1>8 DEF Call
<1>9. CASE LookupRaises
    BY <1>0, <1>9, FailsTables DEF LookupRaises
<1>10. CASE PushRaises
  <2>1. ~Idle /\ resize = NoResize /\ GiveUp("TypeError")
      BY <1>10 DEF PushRaises, Pushing, IInv, UsersInv, CallPlaced, NoCall
  <2> QED
      BY <1>0, <2>1, GiveUpTables
<1> QED
    BY <1>1, <1>7, <1>8, <1>9, <1>10 DEF Next

\* However many dicts share a keyset, and whatever calls and allocations
\* fail, _ypSet_lookkey, _ypSet_movekey and the moves of _ypDict_resize leave
\* it a sound table with room for a probe to end.
THEOREM KeysetsStaySound == Spec => []KeysetsSound
<1>1. IInv => KeysetsSound
    BY DEF IInv, TablesInv, KeysetSound, KeysetsSound
<1>2. IInv /\ [Next]_vars => IInv'
    BY NextTables
<1> QED
    BY <1>1, <1>2, InitTables, PTL DEF Spec

\* dict_popitem, dict_clear, _ypDict_copy and _ypDict_resize stop after
\* ob_len values: there are as many, all inside the array and beside a key.
THEOREM ValuesStayLined == Spec => []ValuesLineUp
<1>1. IInv => ValuesLineUp
    BY DEF IInv, ValuesInv, LinedUp, ValuesLineUp
<1>2. IInv /\ [Next]_vars => IInv'
    BY NextTables
<1> QED
    BY <1>1, <1>2, InitTables, PTL DEF Spec

\* A keyset in use is never resized and loses no key: what the comment of
\* _ypDict_push_newkey demands of shared keysets.
THEOREM KeysetsNeverShrink == Spec => KeysetsOnlyGrow
<1> DEFINE Kept ==
        \A n \in Keysets : n \in Live /\ n \in Live' =>
            \A s \in DOMAIN keysets[n].table :
               \/ keysets[n].table[s].key = NULL /\ s \in DOMAIN keysets'[n].table
               \/ keysets'[n].table[s] = keysets[n].table[s]
<1>1. IInv /\ [Next]_vars => IInv' /\ Kept
  <2> SUFFICES ASSUME IInv, [Next]_vars PROVE IInv' /\ Kept
      OBVIOUS
  <2>1. IInv' /\ KeysetsGrow
      BY NextTables
  <2> QED
      BY <2>1 DEF KeysetsGrow, Grown
<1>2. IInv /\ [Next]_vars => IInv' /\ [Kept]_vars
    BY <1>1
<1> HIDE DEF Kept
<1>3. Spec => [][Kept]_vars
    BY <1>2, InitTables, PTL DEF Spec
<1> QED
    BY <1>3 DEF KeysetsOnlyGrow, Kept

(***************************************************************************)
(* Room announced is room enough.  While a constructor runs, its keyset    *)
(* has room for all the items still to come, or the dict is not            *)
(* alloclen_fixed and will have AllocHintMax items before the room ends.   *)
(***************************************************************************)
FrozenOnly ==
    \A d \in Dicts :
        dicts[d].fixed \in BOOLEAN /\ (dicts[d].fixed => dicts[d].kind # "dict")

Pending == IF call.item = NoItem THEN 0 ELSE 1

RoomForRest ==
    \/ call.spaceleft >= call.hint + Pending
    \/ ~dicts[Self].fixed /\ dicts[Self].len + call.spaceleft >= AllocHintMax

DictKInv ==
    /\ ~Idle => Mutable(Self) \/ call.op = "dictK"
    /\ call.op = "dictK" => call.hint >= 0 /\ (Resizing \/ RoomForRest)

FixedInv == FrozenOnly /\ DictKInv /\ FixedNeverResized

\* What a step may do to one dict.
LEMMA FrozenKept ==
    ASSUME FrozenOnly, NEW d,
           \A e \in Dicts \ {d} : dicts'[e] = dicts[e],
           d \in Dicts => dicts'[d].fixed \in BOOLEAN,
           d \in Dicts => ~dicts'[d].fixed \/ dicts'[d].kind # "dict"
    PROVE  FrozenOnly'
BY DEF FrozenOnly

\* Between two calls there is nothing more to say.
LEMMA NoCallFixed ==
    ASSUME FrozenOnly', call' = NoCall, resize' = NoResize
    PROVE  FixedInv'
BY DEF FixedInv, DictKInv, FixedNeverResized, Resizing, Idle, NoCall

\* Steps that leave every dict its kind and buffer, and begin or end a call.
LEMMA SameDictsFixed ==
    ASSUME FixedInv, UNCHANGED dicts, UNCHANGED resize, resize = NoResize,
           \/ call' = NoCall
           \/ Mutable(call'.self) /\ call'.op # "dictK"
    PROVE  FixedInv'
<1>1. FrozenOnly'
    BY DEF FixedInv, FrozenOnly
<1>2. CASE call' = NoCall
    BY <1>1, <1>2, NoCallFixed
<1>3. CASE Mutable(call'.self) /\ call'.op # "dictK"
    BY <1>1, <1>3
       DEF FixedInv, DictKInv, FixedNeverResized, Resizing, Mutable, Self, Idle
<1> QED
    BY <1>2, <1>3

\* The length and the fill of a sound keyset are numbers.
LEMMA FillNat ==
    ASSUME NEW ks, KeysetSound(ks)
    PROVE  ks.alloclen \in Nat /\ ks.fill \in Nat
<1>1. ks.alloclen \in AllocLens /\ ks.table \in [0 .. ks.alloclen - 1 -> Entry]
    BY DEF KeysetSound, TableSound
<1>2. IsFiniteSet(FilledSlots(ks.table))
    BY <1>1, SlotsFinite
<1> QED
    BY <1>1, <1>2, FS_CardinalityType, TableConstants DEF KeysetSound

\* The room a call counts on, and the items there are, are numbers.
LEMMA SpaceLeftInt ==
    ASSUME IInv, ~Idle, ~Resizing
    PROVE  call.spaceleft \in Int /\ dicts[Self].len \in Int
<1>1. Self \in Dicts /\ ~Free(Self)
    BY DEF IInv, UsersInv, CallPlaced
<1>2. /\ KeysetSound(keysets[dicts[Self].keyset])
      /\ LinedUp(dicts[Self].values, dicts[Self].len, Table(Self))
    BY <1>1, LiveRefs DEF IInv, TablesInv, ValuesInv
<1> DEFINE ks == keysets[dicts[Self].keyset]
<1>3. ks.alloclen \in AllocLens /\ TableSound(ks.table, ks.alloclen)
    BY <1>2 DEF KeysetSound
<1>4. ks.alloclen \in Nat /\ ks.fill \in Int
    BY <1>2, FillNat
<1>5. (ks.alloclen * 2) \div 3 \in Int
    BY <1>4
<1>6. Space(ks.alloclen, ks.fill) \in Int
    BY <1>4, <1>5 DEF Space
<1>7. dicts[Self].len \in Nat
    BY <1>2, <1>3, LinedFinite DEF Table
<1> QED
    BY <1>6, <1>7 DEF IInv, ItemInv, SpaceLeft, AllocLen

\* A resize that begins, and one that goes on, is one.
LEMMA NewResize ==
    ASSUME UsersInv, resize = NoResize, ~Idle, NEW d, NEW m, BeginResize(d, m)
    PROVE  Resizing'
<1>1. FreshKeyset \in Keysets
    BY FreshExists DEF UsersInv, NoResize
<1>2. resize'.ks = FreshKeyset
    BY DEF BeginResize
<1> QED
    BY <1>1, <1>2, DictConstants DEF Resizing, NoResize

\* One iteration of _ypDict_resize does not end it.
LEMMA MoveResizing ==
    ASSUME UsersInv, ResizeInv, Resizing, ResizeMove
    PROVE  Resizing'
<1>1. resize.ks \in Keysets
    BY DEF UsersInv, ResizePlaced, Resizing
<1>2. PICK s : resize' = [resize EXCEPT !.scan = s + 1, !.left = @ - 1]
    BY DEF ResizeMove
<1>3. resize'.ks = resize.ks
    BY <1>2 DEF ResizeInv, NoResize
<1> QED
    BY <1>1, <1>3, DictConstants DEF Resizing, NoResize

\* A call that gives up leaves no dict in the making behind.
LEMMA GiveUpFixed ==
    ASSUME IInv, FixedInv, resize = NoResize, ~Idle, NEW e, GiveUp(e)
    PROVE  FixedInv'
<1>1. call' = NoCall /\ UNCHANGED resize
    BY DEF GiveUp, Return
<1>2. CASE UNCHANGED dicts
    BY <1>1, <1>2, SameDictsFixed
<1>3. CASE ~UNCHANGED dicts
  <2>1. dicts' = [dicts EXCEPT ![Self] = FreeDict]
      BY <1>3 DEF GiveUp, Self
  <2>2. Self \in Dicts /\ FreeDict.fixed = FALSE
      BY DEF FreeDict, IInv, UsersInv, CallPlaced
  <2>3. FrozenOnly'
      BY <2>1, <2>2, FrozenKept DEF IInv, UsersInv, Shapes, FixedInv
  <2> QED
      BY <1>1, <2>3, NoCallFixed
<1> QED
    BY <1>2, <1>3

\* Calls that are over in one step.
LEMMA CallFixed ==
    ASSUME IInv, FixedInv, NEW d \in Dicts,
           \/ New(d) \/ Freeze(d) \/ Dealloc(d) \/ Clear(d) \/ PopItem(d)
           \/ \E k \in Keys : GetItem(d, k) \/ PopValue(d, k) \/ DelItem(d, k)
           \/ \E o \in Dicts, type \in {"dict", "frozendict"} : Copy(d, o, type)
    PROVE  FixedInv'
<1>1. Idle /\ call = NoCall /\ resize = NoResize /\ FrozenOnly
    BY IdleBefore DEF IInv, FixedInv, New, Freeze, Dealloc, Clear, PopItem, GetItem,
                      PopValue, DelItem, Copy
<1>2. call' = NoCall /\ resize' = NoResize
    BY <1>1 DEF New, Freeze, Dealloc, Clear, PopItem, GetItem, PopValue, DelItem,
                Copy, Fails
<1> SUFFICES FrozenOnly'
    BY <1>2, NoCallFixed
<1>3. DOMAIN dicts = Dicts /\ DOMAIN dicts[d] = DOMAIN FreeDict
    BY DEF IInv, UsersInv, Shapes
<1>4. ASSUME UNCHANGED dicts
      PROVE  FrozenOnly'
    BY <1>1, <1>4 DEF FrozenOnly
<1>5. ASSUME NEW type \in {"dict", "frozendict"}, NEW n, NEW size, NEW fixed \in BOOLEAN,
             fixed => type = "frozendict",
             \A e \in Dicts \ {d} : dicts'[e] = dicts[e],
             dicts'[d].kind = type, dicts'[d].fixed = fixed
      PROVE  FrozenOnly'
    BY <1>1, <1>5, FrozenKept
<1>6. ASSUME \A e \in Dicts \ {d} : dicts'[e] = dicts[e],
             dicts'[d].fixed = dicts[d].fixed,
             dicts'[d].kind = dicts[d].kind \/ dicts'[d].kind = "frozendict"
      PROVE  FrozenOnly'
    BY <1>1, <1>6, FrozenKept DEF FrozenOnly
<1>7. CASE New(d)
  <2>1. CASE dicts' = dicts
      BY <1>4, <2>1
  <2>2. CASE dicts' # dicts
    <3> DEFINE new == NewDict("dict", FreshKeyset, AllocLenMin, FALSE)
    <3>1. dicts' = [dicts EXCEPT ![d] = new]
        BY <1>7, <2>2 DEF New, Fails
    <3>2. new.kind = "dict" /\ new.fixed = FALSE
        BY DEF NewDict
    <3> HIDE DEF new
    <3> QED
        BY <1>3, <1>1, <3>1, <3>2, FrozenKept
  <2> QED
      BY <2>1, <2>2
<1>8. CASE Freeze(d)
  <2>1. /\ \A e \in Dicts \ {d} : dicts'[e] = dicts[e]
        /\ dicts'[d].fixed = dicts[d].fixed /\ dicts'[d].kind = "frozendict"
      BY <1>3, <1>8 DEF Freeze, FreeDict
  <2> QED
      BY <1>6, <2>1
<1>9. CASE Dealloc(d)
  <2>1. dicts' = [dicts EXCEPT ![d] = FreeDict]
      BY <1>9 DEF Dealloc
  <2>2. FreeDict.fixed = FALSE
      BY DEF FreeDict
  <2> QED
      BY <1>1, <1>3, <2>1, <2>2, FrozenKept
<1>10. CASE Clear(d)
  <2>1. CASE dicts' = dicts
      BY <1>4, <2>1
  <2>2. CASE dicts' # dicts
    <3> DEFINE new == NewDict("dict", FreshKeyset, AllocLenMin, FALSE)
               finger == IF dicts[d].inline THEN dicts[d].finger ELSE InlineLen
               newer == [new EXCEPT !.finger = finger]
    <3>1. dicts' = [dicts EXCEPT ![d] = newer]
        BY <1>10, <2>2 DEF Clear, Fails
    <3>2. newer.fixed = FALSE
        BY DEF NewDict
    <3> HIDE DEF newer
    <3> QED
        BY <1>3, <1>1, <3>1, <3>2, FrozenKept
  <2> QED
      BY <2>1, <2>2
<1>11. ASSUME NEW s, DropValue(d, s)
       PROVE  FrozenOnly'
  <2>1. /\ \A e \in Dicts \ {d} : dicts'[e] = dicts[e]
        /\ dicts'[d].fixed = dicts[d].fixed /\ dicts'[d].kind = dicts[d].kind
      BY <1>3, <1>11 DEF DropValue, FreeDict
  <2> QED
      BY <1>6, <2>1
<1>12. CASE PopItem(d)
  <2>1. CASE dicts' = dicts
      BY <1>4, <2>1
  <2>2. CASE dicts' # dicts
    <3> DEFINE s == PopItemSlot(d)
    <3>1. dicts' = [dicts EXCEPT ![d].values[s] = NULL, ![d].len = @ - 1,
                                 ![d].finger = s + 1]
        BY <1>12, <2>2 DEF PopItem, Absent
    <3> HIDE DEF s
    <3>2. /\ \A e \in Dicts \ {d} : dicts'[e] = dicts[e]
          /\ dicts'[d].fixed = dicts[d].fixed /\ dicts'[d].kind = dicts[d].kind
        BY <1>3, <3>1 DEF FreeDict
    <3> QED
        BY <1>6, <3>2
  <2> QED
      BY <2>1, <2>2
<1>13. CASE \E k \in Keys : GetItem(d, k) \/ PopValue(d, k) \/ DelItem(d, k)
    BY <1>4, <1>11, <1>13 DEF GetItem, PopValue, DelItem, Absent
<1>14. ASSUME NEW o \in Dicts, NEW type \in {"dict", "frozendict"}, Copy(d, o, type)
       PROVE  FrozenOnly'
  <2>1. CASE dicts' = dicts
      BY <1>4, <2>1
  <2>2. CASE dicts' # dicts
    <3> DEFINE fixed == type = "frozendict"
               new == NewDict(type, dicts[o].keyset, AllocLen(o), fixed)
               newer == [new EXCEPT !.values = dicts[o].values, !.len = dicts[o].len]
    <3>1. dicts' = [dicts EXCEPT ![d] = newer]
        BY <1>14, <2>2 DEF Copy, Fails
    <3>2. newer.kind = type /\ newer.fixed = fixed
        BY DEF NewDict
    <3> HIDE DEF newer
    <3>3. /\ \A e \in Dicts \ {d} : dicts'[e] = dicts[e]
          /\ dicts'[d].kind = type /\ dicts'[d].fixed = fixed
        BY <1>3, <3>1, <3>2
    <3>4. ~dicts'[d].fixed \/ dicts'[d].kind # "dict"
        BY <3>3
    <3>5. dicts'[d].fixed \in BOOLEAN
        BY <3>3
    <3> QED
        BY <1>1, <3>3, <3>4, <3>5, FrozenKept
  <2> QED
      BY <2>1, <2>2
<1> QED
    BY <1>7, <1>8, <1>9, <1>10, <1>12, <1>13, <1>14

\* Calls that add items begin: on a mutable dict, or on one being made.
LEMMA BeginFixed ==
    ASSUME IInv, FixedInv, NEW d \in Dicts,
           \/ \E o \in Dicts : BeginUpdate(d, o)
           \/ \E k \in Keys, v \in Values : BeginSetItem(d, k, v) \/ BeginSetDefault(d, k, v)
           \/ \E h \in Hints : BeginUpdateIter(d, h) \/ BeginUpdateK(d, h)
    PROVE  FixedInv'
<1>1. ASSUME NEW name, name # "dictK", NEW o, NEW item, NEW h,
             Begin(name, d, o, item, h)
      PROVE  FixedInv'
  <2>1. call' = Frame(name, d, o, dicts[d].keyset, SpaceLeft(d), item, h)
      BY <1>1 DEF Begin
  <2>2. /\ UNCHANGED <<dicts, resize>> /\ resize = NoResize /\ Mutable(d)
        /\ call'.self = d /\ call'.op = name
      BY <1>1, <2>1, IdleBefore DEF Begin, Frame, IInv
  <2>3. Mutable(call'.self)
      BY <2>2
  <2> QED
      BY <1>1, <2>2, <2>3, SameDictsFixed
<1>2. ASSUME NEW o \in Dicts, BeginUpdate(d, o)
      PROVE  FixedInv'
    BY <1>1, <1>2 DEF BeginUpdate, UpdateFrom
<1>3. ASSUME NEW k \in Keys, NEW v \in Values, BeginSetItem(d, k, v)
      PROVE  FixedInv'
    BY <1>1, <1>3 DEF BeginSetItem
<1>4. ASSUME NEW k \in Keys, NEW v \in Values, BeginSetDefault(d, k, v)
      PROVE  FixedInv'
    BY <1>1, <1>4 DEF BeginSetDefault
<1>5. ASSUME NEW h \in Hints, BeginUpdateIter(d, h)
      PROVE  FixedInv'
    BY <1>1, <1>5 DEF BeginUpdateIter
<1>6. ASSUME NEW h \in Hints, BeginUpdateK(d, h)
      PROVE  FixedInv'
    BY <1>1, <1>6 DEF BeginUpdateK
<1> QED
    BY <1>2, <1>3, <1>4, <1>5, <1>6

\* A constructor asks for the room its items take, or for AllocHintMax.
LEMMA BeginDictKFixed ==
    ASSUME IInv, FixedInv, NEW d \in Dicts, NEW type \in {"dict", "frozendict"},
           NEW n \in Hints, BeginDictK(d, type, n)
    PROVE  FixedInv'
<1> DEFINE size  == CalcAllocLen(Hinted(n))
           fixed == n <= AllocHintMax /\ type = "frozendict"
           new   == NewDict(type, FreshKeyset, size, fixed)
<1>0. Idle /\ n > 0 /\ resize = NoResize /\ FrozenOnly /\ n \in Int
    BY IdleBefore, DictConstants DEF BeginDictK, IInv, FixedInv
<1>1. CASE Fails("MemoryError")
    BY <1>0, <1>1, SameDictsFixed DEF Fails
<1>2. CASE ~Fails("MemoryError")
  <2>1. /\ dicts' = [dicts EXCEPT ![d] = new]
        /\ call' = Frame("dictK", d, NULL, FreshKeyset, Space(size, 0), NoItem, n)
        /\ UNCHANGED resize
      BY <1>2 DEF BeginDictK
  <2>2. /\ new.fixed = fixed /\ new.kind = type /\ new.len = 0
      BY DEF NewDict
  <2>3. /\ call'.op = "dictK" /\ call'.self = d /\ call'.item = NoItem
        /\ call'.spaceleft = Space(size, 0) /\ call'.hint = n
      BY <2>1 DEF Frame
  <2>4. /\ Hinted(n) \in Nat /\ Hinted(n) <= SetLenMax
        /\ n <= AllocHintMax => Hinted(n) = n
        /\ n > AllocHintMax => Hinted(n) = AllocHintMax
      BY <1>0, DictConstants, TableConstants DEF Hinted, SetLenMax
  <2>5. Space(size, 0) >= Hinted(n) /\ Space(size, 0) \in Int
    <3>1. CalcAllocLen(Hinted(n)) \in AllocLens /\ Space(CalcAllocLen(Hinted(n)), 0) >= Hinted(n)
        BY <2>4, CalcAllocLenFits
    <3>2. CalcAllocLen(Hinted(n)) \in Nat
        BY <3>1, TableConstants
    <3>3. (CalcAllocLen(Hinted(n)) * 2) \div 3 \in Int
        BY <3>2
    <3> QED
        BY <3>1, <3>3 DEF Space
  <2>6. /\ \A e \in Dicts \ {d} : dicts'[e] = dicts[e]
        /\ dicts'[d].fixed = fixed /\ dicts'[d].kind = type /\ dicts'[d].len = 0
    <3> HIDE DEF new
    <3> QED
        BY <2>1, <2>2 DEF IInv, UsersInv, Shapes
  <2>7. FrozenOnly'
    <3>1. dicts'[d].fixed \in BOOLEAN /\ (~dicts'[d].fixed \/ dicts'[d].kind # "dict")
        BY <2>6
    <3> QED
        BY <1>0, <2>6, <3>1, FrozenKept
  <2>8. RoomForRest'
    <3>1. CASE n <= AllocHintMax
        BY <1>0, <2>3, <2>4, <2>5, <3>1 DEF RoomForRest, Pending
    <3>2. CASE ~(n <= AllocHintMax)
      <4>1. ~dicts'[d].fixed
          BY <2>6, <3>2
      <4>2. dicts'[d].len + call'.spaceleft >= AllocHintMax
          BY <1>0, <2>3, <2>4, <2>5, <2>6, <3>2, TableConstants
      <4> QED
          BY <2>3, <4>1, <4>2 DEF RoomForRest, Self
    <3> QED
        BY <3>1, <3>2
  <2>9. ~Resizing'
      BY <1>0, <2>1 DEF Resizing
  <2> QED
      BY <1>0, <2>3, <2>7, <2>8, <2>9 DEF FixedInv, DictKInv, FixedNeverResized
<1> QED
    BY <1>1, <1>2

\* The next item comes, or none does.
LEMMA NextItemFixed ==
    ASSUME IInv, FixedInv,
           \/ \E k \in Keys, v \in Values : NextItem(k, v)
           \/ NextOfOther \/ EndOfItems \/ ItemRaises
    PROVE  FixedInv'
<1>1. ~Idle /\ resize = NoResize /\ ~Resizing /\ UNCHANGED resize
    BY DEF NextItem, NextOfOther, EndOfItems, ItemRaises, GiveUp, Awaiting, IInv,
           UsersInv, ResizePlaced, Idle, ItemByItem, Resizing
<1>2. CASE NextOfOther
  <2>1. call'.op = call.op /\ call'.self = call.self /\ call.op = "update"
      BY <1>2 DEF NextOfOther, Awaiting, IInv, UsersInv, Shapes, NoCall
  <2>2. Mutable(Self)
      BY <1>1, <2>1 DEF FixedInv, DictKInv
  <2> QED
      BY <1>1, <1>2, <2>1, <2>2, SameDictsFixed DEF NextOfOther, Self
<1>3. ASSUME NEW k \in Keys, NEW v \in Values, NextItem(k, v)
      PROVE  FixedInv'
  <2>1. /\ call' = [call EXCEPT !.item = [key |-> k, value |-> v], !.hint = @ - 1]
        /\ UNCHANGED dicts /\ call.item = NoItem
        /\ call.op = "dictK" => call.hint > 0
      BY <1>3 DEF NextItem, Awaiting
  <2>2. /\ call'.op = call.op /\ call'.self = call.self
        /\ call'.spaceleft = call.spaceleft /\ call'.hint = call.hint - 1
      BY <2>1 DEF IInv, UsersInv, Shapes, NoCall
  <2>3. CASE call.op # "dictK"
      BY <1>1, <2>1, <2>2, <2>3, SameDictsFixed DEF FixedInv, DictKInv, Self
  <2>4. CASE call.op = "dictK"
    <3>1. Pending = 0 /\ Pending' \in {0, 1} /\ call.hint \in Int /\ call.hint > 0
        BY <2>1, <2>4 DEF Pending, IInv, ItemInv
    <3>2. call.spaceleft \in Int
        BY <1>1, SpaceLeftInt
    <3>3. RoomForRest
        BY <1>1, <2>4 DEF FixedInv, DictKInv
    <3>4. RoomForRest' /\ call'.hint >= 0
        BY <2>1, <2>2, <3>1, <3>2, <3>3 DEF RoomForRest, Self
    <3>5. FrozenOnly' /\ ~Resizing'
        BY <1>1, <2>1 DEF FixedInv, FrozenOnly, Resizing
    <3> QED
        BY <2>2, <2>4, <3>4, <3>5 DEF FixedInv, DictKInv, FixedNeverResized
  <2> QED
      BY <2>3, <2>4
<1>4. CASE EndOfItems
    BY <1>1, <1>4, SameDictsFixed DEF EndOfItems, Return
<1>5. CASE ItemRaises
    BY <1>1, <1>5, GiveUpFixed DEF ItemRaises
<1> QED
    BY <1>2, <1>3, <1>4, <1>5

(***************************************************************************)
(* Pushing one item.                                                       *)
(***************************************************************************)

\* An item is in, and the room that is left is known.
LEMMA ItemDoneFixed ==
    ASSUME IInv, FixedInv, ~Idle, NEW left \in Int, ItemDone(left),
           resize' = NoResize,
           \A e \in Dicts \ {Self} : dicts'[e] = dicts[e],
           dicts'[Self].fixed = dicts[Self].fixed,
           dicts'[Self].kind = dicts[Self].kind,
           call.op = "dictK" =>
               \/ left >= call.hint
               \/ ~dicts[Self].fixed /\ dicts'[Self].len + left >= AllocHintMax
    PROVE  FixedInv'
<1>1. Self \in Dicts /\ FrozenOnly
    BY DEF IInv, UsersInv, CallPlaced, FixedInv
<1>2. FrozenOnly'
    BY <1>1, FrozenKept DEF FrozenOnly
<1>3. CASE call.op \in OneItemOps
    BY <1>2, <1>3, NoCallFixed DEF ItemDone, Return, OneItemOps
<1>4. CASE call.op \notin OneItemOps
  <2>1. call' = [call EXCEPT !.item = NoItem, !.spaceleft = left]
      BY <1>4 DEF ItemDone, OneItemOps
  <2>2. /\ call'.op = call.op /\ call'.self = call.self /\ call'.hint = call.hint
        /\ call'.item = NoItem /\ call'.spaceleft = left
      BY <2>1 DEF IInv, UsersInv, Shapes, NoCall
  <2>3. ~Resizing' /\ call.hint \in Int
      BY DEF Resizing, IInv, ItemInv
  <2>4. call.op = "dictK" => RoomForRest'
    <3>1. Pending' = 0
        BY <2>2 DEF Pending
    <3>2. CASE left >= call.hint
        BY <2>2, <2>3, <3>1, <3>2 DEF RoomForRest
    <3>3. CASE ~dicts[Self].fixed /\ dicts'[Self].len + left >= AllocHintMax
        BY <2>2, <3>3 DEF RoomForRest, Self
    <3> QED
        BY <3>2, <3>3
  <2>5. ~Idle' => Mutable(Self)' \/ call'.op = "dictK"
      BY <2>2 DEF FixedInv, DictKInv, Mutable, Self
  <2> QED
      BY <1>2, <2>2, <2>3, <2>4, <2>5 DEF FixedInv, DictKInv, FixedNeverResized
<1> QED
    BY <1>3, <1>4

\* A key that was there takes no room.
LEMMA PushExistingKeyFixed ==
    ASSUME IInv, FixedInv, ~Idle, call.item # NoItem, resize = NoResize, NEW s,
           PushExistingKey(s)
    PROVE  FixedInv'
<1>1. Self \in Dicts /\ ~Resizing
    BY DEF IInv, UsersInv, CallPlaced, Resizing
<1>2. /\ dicts' = [dicts EXCEPT ![Self] = SetValue(dicts[Self], s, call.item.value)]
      /\ ItemDone(call.spaceleft) /\ resize' = NoResize
    BY DEF PushExistingKey
<1>3. call.spaceleft \in Int /\ dicts[Self].len \in Int /\ call.hint \in Int
    BY <1>1, SpaceLeftInt DEF IInv, ItemInv
<1> DEFINE new == SetValue(dicts[Self], s, call.item.value)
<1>4. /\ new.fixed = dicts[Self].fixed /\ new.kind = dicts[Self].kind
      /\ new.len \in {dicts[Self].len, dicts[Self].len + 1}
    BY <1>1 DEF SetValue, IInv, UsersInv, Shapes, FreeDict
<1> HIDE DEF new
<1>5. /\ \A e \in Dicts \ {Self} : dicts'[e] = dicts[e]
      /\ dicts'[Self] = new
    BY <1>1, <1>2 DEF IInv, UsersInv, Shapes, new
<1>6. call.op = "dictK" =>
          \/ call.spaceleft >= call.hint
          \/ ~dicts[Self].fixed /\ dicts'[Self].len + call.spaceleft >= AllocHintMax
  <2>1. call.op = "dictK" => RoomForRest
      BY <1>1 DEF FixedInv, DictKInv
  <2>2. AllocHintMax \in Int /\ Pending = 1
      BY TableConstants DEF Pending
  <2>3. dicts'[Self].len \in {dicts[Self].len, dicts[Self].len + 1}
      BY <1>4, <1>5
  <2> QED
      BY <1>3, <2>1, <2>2, <2>3 DEF RoomForRest
<1> QED
    BY <1>2, <1>3, <1>4, <1>5, <1>6, ItemDoneFixed

\* A new key takes one place of the room, and a resize comes only without any.
LEMMA PushNewKeyFixed ==
    ASSUME IInv, FixedInv, ~Idle, call.item # NoItem, resize = NoResize,
           NEW s \in Lookup(Self, call.item.key),
           Table(Self)[s].key \notin Keys, PushNewKey(s)
    PROVE  FixedInv'
<1>1. Self \in Dicts /\ ~Resizing
    BY DEF IInv, UsersInv, CallPlaced, Resizing
<1>2. call.spaceleft \in Int /\ dicts[Self].len \in Int /\ call.hint \in Int
    BY <1>1, SpaceLeftInt DEF IInv, ItemInv
<1>3. Table(Self)[s].key = NULL /\ Table(Self)[s].key # Dummy
    BY <1>1, LookupInTable, TableConstants DEF IInv, UsersInv, CallPlaced, ItemInv, CallItems
<1>4. call.op = "dictK" => RoomForRest
    BY <1>1 DEF FixedInv, DictKInv
<1>5. AllocHintMax \in Int /\ Pending = 1 /\ (call.op = "dictK" => call.hint >= 0)
    BY TableConstants DEF Pending, FixedInv, DictKInv
<1>6. CASE GiveUp("MemorySizeOverflowError") \/ GiveUp("MemoryError")
    BY <1>1, <1>6, GiveUpFixed
<1>7. CASE /\ call.spaceleft > 0
           /\ dicts' = [dicts EXCEPT ![Self].values[s] = call.item.value,
                                     ![Self].len = @ + 1]
           /\ ItemDone(call.spaceleft - 1)
           /\ UNCHANGED resize
  <2>1. /\ \A e \in Dicts \ {Self} : dicts'[e] = dicts[e]
        /\ dicts'[Self].fixed = dicts[Self].fixed
        /\ dicts'[Self].kind = dicts[Self].kind
        /\ dicts'[Self].len = dicts[Self].len + 1
      BY <1>1, <1>7 DEF IInv, UsersInv, Shapes, FreeDict
  <2>2. call.op = "dictK" =>
            \/ call.spaceleft - 1 >= call.hint
            \/ /\ ~dicts[Self].fixed
               /\ dicts'[Self].len + (call.spaceleft - 1) >= AllocHintMax
      BY <1>2, <1>4, <1>5, <2>1 DEF RoomForRest
  <2>3. call.spaceleft - 1 \in Int /\ resize' = NoResize
      BY <1>2, <1>7
  <2> QED
      BY <1>7, <2>1, <2>2, <2>3, ItemDoneFixed
<1>8. CASE /\ call.spaceleft <= 0
           /\ \E m : BeginResize(Self, m)
           /\ UNCHANGED call
  <2>1. PICK m : BeginResize(Self, m)
      BY <1>8
  <2>2. /\ \A e \in Dicts \ {Self} : dicts'[e] = dicts[e]
        /\ dicts'[Self].fixed = dicts[Self].fixed
        /\ dicts'[Self].kind = dicts[Self].kind
        /\ dicts'[Self].len = dicts[Self].len
    <3> DEFINE values == NoValues(CalcAllocLen(m))
               inline == CalcAllocLen(m) <= InlineLen /\ ~dicts[Self].inline
               finger == IF inline THEN InlineLen ELSE CalcAllocLen(m)
    <3>1. dicts' = [dicts EXCEPT ![Self].values = values, ![Self].inline = inline,
                                 ![Self].finger = finger]
        BY <2>1 DEF BeginResize
    <3> HIDE DEF values, inline, finger
    <3> QED
        BY <1>1, <3>1 DEF IInv, UsersInv, Shapes, FreeDict
  <2>3. /\ ~dicts[Self].fixed
        /\ call.op = "dictK" => dicts[Self].len >= AllocHintMax
    <3>1. CASE call.op = "dictK"
        BY <1>2, <1>4, <1>5, <1>8, <3>1 DEF RoomForRest
    <3>2. CASE call.op # "dictK"
        BY <1>1, <3>2 DEF FixedInv, DictKInv, FrozenOnly, Mutable
    <3> QED
        BY <3>1, <3>2
  <2>4. FrozenOnly'
      BY <1>1, <2>2, FrozenKept DEF FixedInv, FrozenOnly
  <2>5. Resizing'
      BY <2>1, NewResize DEF IInv
  <2>6. FixedNeverResized'
      BY <1>8, <2>2, <2>3 DEF FixedNeverResized, Self
  <2>7. DictKInv'
      BY <1>5, <1>8, <2>2, <2>5 DEF FixedInv, DictKInv, Mutable, Self, Idle
  <2> QED
      BY <2>4, <2>6, <2>7 DEF FixedInv
<1> QED
    BY <1>3, <1>6, <1>7, <1>8 DEF PushNewKey, Table

\* A resize keeps the dict as it was, and leaves it room again.
LEMMA ResizeFixed ==
    ASSUME IInv, IInv', FixedInv, ResizeMove \/ ResizeDone
    PROVE  FixedInv'
<1>0. Resizing
  <2>1. ASSUME ResizeMove PROVE Resizing
    <3>1. resize.left > 0
        BY <2>1 DEF ResizeMove
    <3>2. NoResize.left = 0
        BY DEF NoResize
    <3> QED
        BY <3>1, <3>2 DEF Resizing
  <2>2. ResizeDone => Resizing
      BY DEF ResizeDone, Resizing
  <2> QED
      BY <2>1, <2>2
<1>1. Resizing /\ ~Idle /\ Self \in Dicts
    BY <1>0, ResizeState
<1>2. CASE ResizeMove
  <2>1. /\ \A e \in Dicts \ {Self} : dicts'[e] = dicts[e]
        /\ dicts'[Self].fixed = dicts[Self].fixed
        /\ dicts'[Self].kind = dicts[Self].kind
        /\ dicts'[Self].len = dicts[Self].len
        /\ call' = call
    <3>1. PICK t, v : dicts' = [dicts EXCEPT ![Self].values[t] = v]
        BY <1>2 DEF ResizeMove
    <3>2. call' = call
        BY <1>2 DEF ResizeMove
    <3> QED
        BY <1>1, <3>1, <3>2 DEF IInv, UsersInv, Shapes, FreeDict
  <2>2. Resizing'
      BY <1>1, <1>2, MoveResizing DEF IInv
  <2>3. FrozenOnly'
      BY <1>1, <2>1, FrozenKept DEF FixedInv, FrozenOnly
  <2>4. FixedNeverResized' /\ DictKInv'
      BY <1>1, <2>1, <2>2 DEF FixedInv, DictKInv, FixedNeverResized, Mutable, Self, Idle
  <2> QED
      BY <2>3, <2>4 DEF FixedInv
<1>3. CASE ResizeDone
  <2> DEFINE n == resize.ks
             left == Space(keysets[n].alloclen, keysets[n].fill + 1)
  <2>1. PICK t : /\ dicts' = [dicts EXCEPT ![Self].keyset = n,
                        ![Self].values[t] = call.item.value, ![Self].len = @ + 1]
                 /\ ItemDone(left)
      BY <1>3 DEF ResizeDone
  <2>2. left \in Int /\ left >= 0 /\ resize' = NoResize
    <3>1. KeysetSound(keysets[n]) /\ keysets[n].alloclen \in AllocLens
        BY <1>1, ResizeState
    <3>2. keysets[n].alloclen \in Nat /\ keysets[n].fill \in Int
        BY <3>1, FillNat
    <3>3. (keysets[n].alloclen * 2) \div 3 \in Int
        BY <3>2
    <3>4. resize' = NoResize
        BY <1>3 DEF ResizeDone
    <3> QED
        BY <3>2, <3>3, <3>4 DEF Space
  <2> HIDE DEF n, left
  <2>3. /\ \A e \in Dicts \ {Self} : dicts'[e] = dicts[e]
        /\ dicts'[Self].fixed = dicts[Self].fixed
        /\ dicts'[Self].kind = dicts[Self].kind
        /\ dicts'[Self].len = dicts[Self].len + 1
      BY <1>1, <2>1 DEF IInv, UsersInv, Shapes, FreeDict
  <2>4. dicts[Self].len \in Nat /\ AllocHintMax \in Int
    <3>1. LinedUp(resize.values, dicts[Self].len, Table(Self))
        BY <1>1 DEF IInv, ResizeInv
    <3>2. AllocLen(Self) \in AllocLens /\ TableSound(Table(Self), AllocLen(Self))
        BY <1>1, ResizeState
    <3>3. dicts[Self].len \in Nat
        BY <3>1, <3>2, LinedFinite
    <3> QED
        BY <3>3, TableConstants
  <2>5. call.op = "dictK" =>
            ~dicts[Self].fixed /\ dicts'[Self].len + left >= AllocHintMax
      BY <1>1, <2>2, <2>3, <2>4 DEF FixedInv, FixedNeverResized
  <2> QED
      BY <1>1, <2>1, <2>2, <2>3, <2>5, ItemDoneFixed
<1> QED
    BY <1>2, <1>3

\* Every step.
LEMMA NextFixed ==
    ASSUME IInv, FixedInv, [Next]_vars
    PROVE  FixedInv'
<1>0. IInv'
    BY NextTables
<1>1. CASE UNCHANGED vars
  <2>1. UNCHANGED <<dicts, call, resize>>
      BY <1>1 DEF vars
  <2> QED
      BY <2>1 DEF FixedInv, FrozenOnly, DictKInv, RoomForRest, Pending,
                  FixedNeverResized, Resizing, Idle, Mutable, Self
<1>2. CASE Call
  <2>1. PICK d \in Dicts :
            \/ New(d) \/ Freeze(d) \/ Dealloc(d) \/ Clear(d) \/ PopItem(d)
            \/ \E k \in Keys : GetItem(d, k) \/ PopValue(d, k) \/ DelItem(d, k)
            \/ \E o \in Dicts, type \in {"dict", "frozendict"} : Copy(d, o, type)
            \/ \E o \in Dicts : BeginUpdate(d, o)
            \/ \E k \in Keys, v \in Values : BeginSetItem(d, k, v) \/ BeginSetDefault(d, k, v)
            \/ \E h \in Hints : BeginUpdateIter(d, h) \/ BeginUpdateK(d, h)
            \/ \E h \in Hints, type \in {"dict", "frozendict"} : BeginDictK(d, type, h)
      BY <1>2 DEF Call, CopyEmpty
  <2> QED
      BY <2>1, CallFixed, BeginFixed, BeginDictKFixed
<1>3. CASE PushItem
  <2>1. ~Idle /\ call.item # NoItem /\ resize = NoResize
      BY <1>3 DEF PushItem, Pushing, IInv, UsersInv, CallPlaced, NoCall
  <2>2. PICK s \in Lookup(Self, call.item.key) :
            \/ KeepValue(s)
            \/ PushExistingKey(s)
            \/ PushNewKey(s) /\ Table(Self)[s].key \notin Keys
      BY <1>3 DEF PushItem
  <2>3. CASE KeepValue(s)
      BY <2>1, <2>3, SameDictsFixed DEF KeepValue, Return
  <2> QED
      BY <2>1, <2>2, <2>3, PushExistingKeyFixed, PushNewKeyFixed
<1>4. CASE \/ \E k \in Keys, v \in Values : NextItem(k, v)
           \/ NextOfOther \/ EndOfItems \/ ItemRaises
    BY <1>4, NextItemFixed
<1>5. CASE ResizeMove \/ ResizeDone
    BY <1>0, <1>5, ResizeFixed
<1>6. CASE PushRaises
  <2>1. ~Idle /\ resize = NoResize /\ GiveUp("TypeError")
      BY <1>6 DEF PushRaises, Pushing, IInv, UsersInv, CallPlaced, NoCall
  <2> QED
      BY <2>1, GiveUpFixed
<1>7. CASE LookupRaises
  <2>1. resize = NoResize /\ call' = NoCall /\ UNCHANGED <<dicts, resize>>
      BY <1>7, IdleBefore DEF LookupRaises, Fails, IInv
  <2> QED
      BY <2>1, SameDictsFixed
<1> QED
    BY <1>1, <1>2, <1>3, <1>4, <1>5, <1>6, <1>7 DEF Next, Step

\* At first there is no dict.
LEMMA InitFixed == Init => FixedInv
<1> SUFFICES ASSUME Init PROVE FixedInv
    OBVIOUS
<1>1. \A d \in Dicts : dicts[d] = FreeDict
    BY DEF Init
<1>2. FreeDict.fixed = FALSE
    BY DEF FreeDict
<1>3. FrozenOnly
    BY <1>1, <1>2 DEF FrozenOnly
<1>4. DictKInv /\ FixedNeverResized
    BY DEF Init, DictKInv, FixedNeverResized, Idle, NoCall, Resizing
<1> QED
    BY <1>3, <1>4 DEF FixedInv

\* A constructor told how many items come never resizes its keyset, and so a
\* frozendict allocated with alloclen_fixed, whose values are in its own
\* memory, never meets _ypDict_resize: what the comment of
\* _ypDict_update_fromiterable calls important.
THEOREM ConstructorsNeverResize == Spec => []FixedNeverResized
<1>1. FixedInv => FixedNeverResized
    BY DEF FixedInv
<1>2. IInv /\ FixedInv /\ [Next]_vars => IInv' /\ FixedInv'
    BY NextTables, NextFixed
<1> QED
    BY <1>1, <1>2, InitTables, InitFixed, PTL DEF Spec

(***************************************************************************)
(* Dicts implement DictSpec.  f is the map of the values v beside the keys *)
(* of the table t.                                                         *)
(***************************************************************************)
Holds(f, t, v) ==
    /\ f = [k \in DOMAIN f |-> f[k]]
    /\ DOMAIN f = {t[s].key : s \in Valued(v)}
    /\ \A s \in Valued(v) : f[t[s].key] = v[s]

\* There is one such map.
LEMMA HoldsOne ==
    ASSUME NEW f, NEW g, NEW t, NEW v, Holds(f, t, v), Holds(g, t, v)
    PROVE  f = g
<1>1. DOMAIN f = DOMAIN g
    BY DEF Holds
<1>2. ASSUME NEW k \in DOMAIN f PROVE f[k] = g[k]
  <2>1. PICK s \in Valued(v) : k = t[s].key
      BY <1>2 DEF Holds
  <2> QED
      BY <2>1 DEF Holds
<1> QED
    BY <1>1, <1>2 DEF Holds

\* No key is in a table twice.
LEMMA KeysDiffer ==
    ASSUME NEW t, NEW size, TableSound(t, size), NEW v, Valued(v) \subseteq UsedSlots(t),
           NEW r \in UsedSlots(t), NEW s \in UsedSlots(t), t[r].key = t[s].key
    PROVE  r = s
BY DEF TableSound

\* The map ItemsOf builds holds the values beside the keys.
LEMMA ItemsHold ==
    ASSUME NEW t, NEW size, TableSound(t, size), NEW v, Valued(v) \subseteq UsedSlots(t)
    PROVE  Holds(ItemsOf(t, v), t, v)
<1> DEFINE V == Valued(v)
           f == ItemsOf(t, v)
<1>1. /\ DOMAIN f = {t[s].key : s \in V}
      /\ \A k \in DOMAIN f : f[k] = v[CHOOSE s \in V : t[s].key = k]
      /\ f = [k \in DOMAIN f |-> f[k]]
    BY DEF ItemsOf
<1>2. ASSUME NEW s \in V PROVE f[t[s].key] = v[s]
  <2> DEFINE r == CHOOSE r \in V : t[r].key = t[s].key
  <2>1. r \in V /\ t[r].key = t[s].key
      OBVIOUS
  <2>2. f[t[s].key] = v[r]
      BY <1>1
  <2> HIDE DEF r, f
  <2>3. r = s
      BY <2>1, KeysDiffer
  <2> QED
      BY <2>2, <2>3
<1> QED
    BY <1>1, <1>2 DEF Holds

\* Keys that others add are not seen.
LEMMA HoldsGrown ==
    ASSUME NEW f, NEW t, NEW u, NEW v, Holds(f, t, v),
           Valued(v) \subseteq UsedSlots(t), Grown(t, u)
    PROVE  Holds(f, u, v)
<1>1. \A s \in Valued(v) : u[s].key = t[s].key
    BY TableConstants DEF Grown, UsedSlots
<1>2. {t[s].key : s \in Valued(v)} = {u[s].key : s \in Valued(v)}
    BY <1>1
<1> QED
    BY <1>1, <1>2 DEF Holds

\* Without values there are no items.
LEMMA HoldsNothing ==
    ASSUME NEW t, NEW v, Valued(v) = {}
    PROVE  Holds(NoItems, t, v)
BY DEF Holds, NoItems

\* The map f with the item k, and without it.
Put(f, k, x) == [j \in DOMAIN f \cup {k} |-> IF j = k THEN x ELSE f[j]]

\* A value comes, or is replaced: the map has one item more, or another.
LEMMA HoldsPut ==
    ASSUME NEW f, NEW t, NEW size, TableSound(t, size), NEW v, DOMAIN v = DOMAIN t,
           Valued(v) \subseteq UsedSlots(t), Holds(f, t, v),
           NEW s \in UsedSlots(t), NEW x \in Values
    PROVE  Holds(Put(f, t[s].key, x), t, [v EXCEPT ![s] = x])
<1> DEFINE w == [v EXCEPT ![s] = x]
           k == t[s].key
           g == Put(f, k, x)
<1>0. s \in DOMAIN v
    BY DEF UsedSlots
<1>1. Valued(w) = Valued(v) \cup {s} /\ w[s] = x /\ \A r \in Valued(v) \ {s} : w[r] = v[r]
    BY <1>0, DictConstants DEF Valued
<1>2. /\ DOMAIN g = DOMAIN f \cup {k} /\ g[k] = x
      /\ \A j \in DOMAIN f : j # k => g[j] = f[j]
      /\ g = [j \in DOMAIN g |-> g[j]]
    BY DEF Put
<1> HIDE DEF w, g
<1>3. {t[r].key : r \in Valued(w)} = DOMAIN f \cup {k}
    BY <1>1 DEF Holds
<1>4. ASSUME NEW r \in Valued(v) \ {s} PROVE g[t[r].key] = w[r]
  <2>1. t[r].key # k
      BY KeysDiffer
  <2>2. t[r].key \in DOMAIN f /\ f[t[r].key] = v[r]
      BY DEF Holds
  <2> QED
      BY <1>1, <1>2, <2>1, <2>2
<1>5. \A r \in Valued(w) : g[t[r].key] = w[r]
    BY <1>1, <1>2, <1>4
<1> QED
    BY <1>2, <1>3, <1>5 DEF Holds, w, g

Drop(f, k) == [j \in DOMAIN f \ {k} |-> f[j]]

\* A value goes.
LEMMA HoldsDrop ==
    ASSUME NEW f, NEW t, NEW size, TableSound(t, size), NEW v, DOMAIN v = DOMAIN t,
           Valued(v) \subseteq UsedSlots(t), Holds(f, t, v), NEW s \in Valued(v)
    PROVE  Holds(Drop(f, t[s].key), t, [v EXCEPT ![s] = NULL])
<1> DEFINE w == [v EXCEPT ![s] = NULL]
           k == t[s].key
           g == Drop(f, k)
<1>1. Valued(w) = Valued(v) \ {s} /\ \A r \in Valued(w) : w[r] = v[r]
    BY DEF Valued
<1>2. /\ DOMAIN g = DOMAIN f \ {k} /\ \A j \in DOMAIN g : g[j] = f[j]
      /\ g = [j \in DOMAIN g |-> g[j]]
    BY DEF Drop
<1> HIDE DEF w, g
<1>3. ASSUME NEW r \in Valued(w) PROVE t[r].key # k
    BY <1>1, KeysDiffer
<1>4. {t[r].key : r \in Valued(w)} = DOMAIN f \ {k}
    BY <1>1, <1>3 DEF Holds
<1>5. ASSUME NEW r \in Valued(w) PROVE g[t[r].key] = w[r]
  <2>1. t[r].key \in DOMAIN g /\ f[t[r].key] = v[r]
      BY <1>1, <1>2, <1>4 DEF Holds
  <2> QED
      BY <1>1, <1>2, <2>1
<1> QED
    BY <1>2, <1>4, <1>5 DEF Holds, w, g

\* Which keys a map has.
LEMMA HoldsKey ==
    ASSUME NEW f, NEW t, NEW v, Holds(f, t, v), Valued(v) \subseteq UsedSlots(t),
           NEW size, TableSound(t, size), NEW s \in UsedSlots(t)
    PROVE  /\ t[s].key \in DOMAIN f <=> v[s] # NULL /\ s \in DOMAIN v
           /\ s \in Valued(v) => f[t[s].key] = v[s]
<1>1. s \in Valued(v) <=> v[s] # NULL /\ s \in DOMAIN v
    BY DEF Valued
<1>2. ASSUME t[s].key \in DOMAIN f PROVE s \in Valued(v)
  <2>1. PICK r \in Valued(v) : t[r].key = t[s].key
      BY <1>2 DEF Holds
  <2> QED
      BY <2>1, KeysDiffer
<1> QED
    BY <1>1, <1>2 DEF Holds

\* The values a dict has, in a resize those it had before, and its items.
ValuesNow(d) == IF Resizing /\ d = Self THEN resize.values ELSE dicts[d].values

Now(d) == ItemsOf(Table(d), ValuesNow(d))

\* Slot s of the old values was moved to slot t of the new ones.
Carried(s, t) ==
    /\ keysets[resize.ks].table[t].key = Table(Self)[s].key
    /\ dicts[Self].values[t] = resize.values[s]

\* What was moved is in the new values, and nothing else.
MovedInv ==
    Resizing =>
        /\ \A s \in Valued(resize.values) \ ToMove :
              \E t \in Valued(dicts[Self].values) : Carried(s, t)
        /\ \A t \in Valued(dicts[Self].values) :
              \E s \in Valued(resize.values) : Carried(s, t)

\* The values of a dict stand beside keys of a sound table.
LEMMA DictSound ==
    ASSUME IInv, NEW d \in Dicts, ~Free(d)
    PROVE  /\ TableSound(Table(d), AllocLen(d)) /\ AllocLen(d) \in AllocLens
           /\ LinedUp(ValuesNow(d), dicts[d].len, Table(d))
           /\ KeysetSound(keysets[dicts[d].keyset])
<1>1. dicts[d].keyset \in Live
    BY LiveRefs DEF IInv
<1>2. KeysetSound(keysets[dicts[d].keyset])
    BY <1>1 DEF IInv, TablesInv
<1>3. LinedUp(ValuesNow(d), dicts[d].len, Table(d))
  <2>1. CASE Resizing /\ d = Self
      BY <2>1 DEF IInv, ResizeInv, ValuesNow
  <2>2. CASE ~(Resizing /\ d = Self)
      BY <2>2 DEF IInv, ValuesInv, ValuesNow
  <2> QED
      BY <2>1, <2>2
<1> QED
    BY <1>2, <1>3 DEF KeysetSound, Table, AllocLen

\* The items of a dict are the values beside its keys, in a resize those it
\* had before.
LEMMA NowHolds ==
    ASSUME IInv, NEW d \in Dicts, ~Free(d)
    PROVE  Holds(Now(d), Table(d), ValuesNow(d))
<1>1. TableSound(Table(d), AllocLen(d)) /\ Valued(ValuesNow(d)) \subseteq UsedSlots(Table(d))
    BY DictSound DEF LinedUp
<1> QED
    BY <1>1, ItemsHold DEF Now

\* A map that has the items is the map.
LEMMA NowIs ==
    ASSUME IInv, NEW d \in Dicts, ~Free(d), NEW f, Holds(f, Table(d), ValuesNow(d))
    PROVE  Now(d) = f
BY NowHolds, HoldsOne

\* What the caller sees of the dict a call works on.
LEMMA SeenIs ==
    ASSUME IInv, MovedInv, NEW d \in Dicts
    PROVE  ItemsSeen(d) = IF Free(d) THEN NoItems
                          ELSE IF d = Self /\ call.op = "update" THEN call.before
                          ELSE Now(d)
<1>1. CASE d # Self \/ Free(d)
    BY <1>1 DEF ItemsSeen, Items, Now, ValuesNow
<1>2. CASE d = Self /\ ~Free(d) /\ call.op = "update"
    BY <1>2 DEF ItemsSeen
<1>3. CASE d = Self /\ ~Free(d) /\ call.op # "update" /\ ~Resizing
    BY <1>3 DEF ItemsSeen, Items, Now, ValuesNow
<1>4. CASE d = Self /\ ~Free(d) /\ call.op # "update" /\ Resizing
  <2> DEFINE new == keysets[resize.ks].table
             A == DOMAIN ItemsOf(new, dicts[d].values)
             B == DOMAIN ItemsOf(Table(d), resize.values)
             at(k) == resize.values[CHOOSE s \in Valued(resize.values) : Table(d)[s].key = k]
  <2>1. ItemsSeen(d) = [k \in A \cup B |-> at(k)]
      BY <1>4 DEF ItemsSeen
  <2>2. Now(d) = [k \in B |-> at(k)]
      BY <1>4 DEF Now, ValuesNow, ItemsOf
  <2>3. A \subseteq B
    <3>1. A = {new[t].key : t \in Valued(dicts[d].values)}
        BY DEF ItemsOf
    <3>2. B = {Table(d)[s].key : s \in Valued(resize.values)}
        BY DEF ItemsOf
    <3>3. \A t \in Valued(dicts[d].values) :
             \E s \in Valued(resize.values) : new[t].key = Table(d)[s].key
        BY <1>4 DEF MovedInv, Carried
    <3> HIDE DEF A, B, new
    <3> QED
        BY <3>1, <3>2, <3>3
  <2>4. A \cup B = B
      BY <2>3
  <2> HIDE DEF A, B, at
  <2> QED
      BY <1>4, <2>1, <2>2, <2>4
<1> QED
    BY <1>1, <1>2, <1>3, <1>4

\* Other dicts do not see the step of a call.
LEMMA ItemsKept ==
    ASSUME IInv, IInv', KeysetsGrow, NEW e \in Dicts, dicts'[e] = dicts[e],
           ~(Resizing /\ e = Self), ~Free(e)
    PROVE  /\ Holds(Now(e), Table(e)', dicts[e].values)
           /\ Items(e)' = Items(e) /\ Items(e) = Now(e)
           /\ \A s \in Valued(dicts[e].values) : Table(e)'[s] = Table(e)[s]
<1> DEFINE t == Table(e)
           u == Table(e)'
           v == dicts[e].values
<1>1. ~Free(e)' /\ dicts'[e].keyset = dicts[e].keyset /\ ValuesNow(e) = v
    BY DEF Free, ValuesNow
<1>2. dicts[e].keyset \in Live /\ dicts[e].keyset \in Live'
    BY <1>1, LiveRefs, LiveAfter DEF IInv
<1>3. Grown(t, u) /\ dicts[e].keyset \in Keysets
    BY <1>1, <1>2 DEF KeysetsGrow, Table, Live
<1>4. Holds(Now(e), t, v) /\ Valued(v) \subseteq UsedSlots(t)
    BY <1>1, NowHolds, DictSound DEF LinedUp
<1>5. Holds(Now(e), u, v)
    BY <1>3, <1>4, HoldsGrown
<1>6. Items(e) = Now(e)
    BY <1>1 DEF Items, Now
<1>7. \A s \in Valued(v) : u[s] = t[s]
    BY <1>3, <1>4, TableConstants DEF Grown, UsedSlots
<1>8. Items(e)' = ItemsOf(u, v)
    BY <1>1 DEF Items
<1>9. Holds(ItemsOf(u, v), u, v)
  <2>1. Valued(v) \subseteq UsedSlots(u)
      BY <1>3, <1>4, GrownUsed
  <2>2. KeysetSound(keysets'[dicts[e].keyset])
      BY <1>2 DEF IInv, TablesInv
  <2>3. TableSound(u, keysets'[dicts[e].keyset].alloclen)
      BY <1>1, <2>2 DEF KeysetSound, Table
  <2> QED
      BY <2>1, <2>3, ItemsHold
<1>10. ItemsOf(u, v) = Now(e)
  <2> HIDE DEF u, v
  <2> QED
      BY <1>5, <1>9, HoldsOne
<1> QED
    BY <1>5, <1>6, <1>7, <1>8, <1>10

(***************************************************************************)
(* An update from another dict has added the items of the slots it has     *)
(* passed, except the one that is about to be pushed.                      *)
(***************************************************************************)
Part(f, K) == [k \in K |-> f[k]]

\* The map f with the items of g over it.
Over(f, g) == [k \in DOMAIN f \cup DOMAIN g |-> IF k \in DOMAIN g THEN g[k] ELSE f[k]]

\* What an update reads: the values of the other dict, the slots it has still
\* to pass, and the keys of those it passed.
OtherValues == dicts[call.other].values

Rest == {s \in Valued(OtherValues) : s >= call.scan}

Passed == {Table(call.other)[s].key : s \in Valued(OtherValues) \ Rest}

\* What an update from another dict has done so far.
UpdateInv ==
    call.op = "update" =>
        /\ call.other # Self /\ call.scan \in Nat
        /\ call.hint = Cardinality(Rest)
        /\ call.item # NoItem =>
              \E s \in Valued(OtherValues) \ Rest :
                 call.item = [key |-> Table(call.other)[s].key, value |-> OtherValues[s]]
        /\ call.before = [k \in DOMAIN call.before |-> call.before[k]]
        /\ Now(Self) = Over(call.before, Part(Now(call.other), Passed \ {call.item.key}))

\* What a step is shown to keep while it simulates one of DictSpec.
RInv == IInv /\ MovedInv /\ UpdateInv

\* What the caller sees: the items and kinds that stand for those of DictSpec.
SeenItems == [d \in Dicts |-> ItemsSeen(d)]
SeenKinds == [d \in Dicts |-> dicts[d].kind]

\* A step is one of DictSpec, or none of it is seen.
Simulates == MovedInv' /\ UpdateInv' /\ [Abstract!Next]_(Abstract!vars)

\* Between calls.
IdleFacts ==
    /\ MovedInv /\ UpdateInv /\ ~Resizing /\ call = NoCall /\ resize = NoResize
    /\ SeenItems = [d \in Dicts |-> Items(d)]
    /\ CallSeen = Abstract!NoCall
    /\ \A d \in Dicts :
          ~Free(d) => Items(d) = Now(d) /\ ValuesNow(d) = dicts[d].values

\* Between calls the caller sees the items themselves.
LEMMA IdleSeen == IInv /\ Idle => IdleFacts
<1> SUFFICES ASSUME IInv, Idle PROVE IdleFacts
    OBVIOUS
<1>1. ~Resizing /\ call = NoCall /\ resize = NoResize
    BY IdleBefore DEF IInv
<1>2. call.op = "idle" /\ Self \notin Dicts
    BY <1>1, DictConstants DEF NoCall, Self
<1>3. MovedInv /\ UpdateInv
    BY <1>1, <1>2 DEF MovedInv, UpdateInv
<1>4. \A d \in Dicts : ItemsSeen(d) = Items(d)
    BY <1>2 DEF ItemsSeen
<1>5. CallSeen = Abstract!NoCall
    BY DEF CallSeen, NoItems, Abstract!NoCall, Abstract!NoItems
<1>6. \A d \in Dicts : ~Free(d) => Items(d) = Now(d) /\ ValuesNow(d) = dicts[d].values
    BY <1>1 DEF Items, Now, ValuesNow
<1> QED
    BY <1>1, <1>3, <1>4, <1>5, <1>6 DEF SeenItems, IdleFacts

\* The same after a step.
LEMMA IdleSeenAfter == IInv' /\ Idle' => IdleFacts'
BY IdleSeen, PTL

\* A call that is over at once changes one dict.
OneChanges(d) ==
    /\ call' = NoCall /\ resize' = NoResize
    /\ \A e \in Dicts \ {d} : dicts'[e] = dicts[e]

\* The caller sees that d changed, if anything, between two calls.
Saw(d) ==
    /\ MovedInv' /\ UpdateInv'
    /\ SeenItems' = [SeenItems EXCEPT ![d] = Items(d)']
    /\ SeenKinds' = [SeenKinds EXCEPT ![d] = dicts'[d].kind]
    /\ CallSeen = Abstract!NoCall /\ CallSeen' = Abstract!NoCall
    /\ \A e \in Dicts : SeenItems[e] = Items(e) /\ SeenKinds[e] = dicts[e].kind

\* Whatever the call did to keysets that others share, they do not see it.
LEMMA CallerSees ==
    ASSUME IInv, IInv', KeysetsGrow, Idle, NEW d \in Dicts, OneChanges(d)
    PROVE  Saw(d)
<1>1. /\ ~Resizing /\ SeenItems = [e \in Dicts |-> Items(e)] /\ CallSeen = Abstract!NoCall
    BY IdleSeen DEF IdleFacts
<1>2. Idle'
    BY DEF Idle, NoCall, OneChanges
<1>3. /\ MovedInv' /\ UpdateInv' /\ SeenItems' = [e \in Dicts |-> Items(e)']
      /\ CallSeen' = Abstract!NoCall
    BY <1>2, IdleSeenAfter DEF IdleFacts
<1>4. ASSUME NEW e \in Dicts \ {d} PROVE Items(e)' = Items(e)
  <2>1. CASE Free(e)
      BY <2>1 DEF Items, Free, OneChanges
  <2>2. CASE ~Free(e)
      BY <1>1, <2>2, ItemsKept DEF OneChanges
  <2> QED
      BY <2>1, <2>2
<1>5. SeenItems' = [SeenItems EXCEPT ![d] = Items(d)']
    BY <1>1, <1>3, <1>4
<1>6. SeenKinds' = [SeenKinds EXCEPT ![d] = dicts'[d].kind]
    BY DEF SeenKinds, OneChanges
<1> QED
    BY <1>1, <1>3, <1>5, <1>6 DEF SeenKinds, Saw

\* A call that fails at once changes nothing.
LEMMA FailsSimulates ==
    ASSUME IInv, IInv', KeysetsGrow, Idle,
           NEW e \in {"MemoryError", "TypeError"}, Fails(e)
    PROVE  Simulates
<1>1. /\ UNCHANGED <<dicts, keysets>> /\ call' = NoCall /\ resize' = NoResize
      /\ ret' = <<e>>
    BY IdleSeen DEF Fails, IdleFacts
<1>2. Idle' /\ MovedInv' /\ UpdateInv' /\ CallSeen' = Abstract!NoCall
  <2>1. Idle'
      BY <1>1 DEF Idle, NoCall
  <2> QED
      BY <2>1, IdleSeenAfter DEF IdleFacts
<1>3. UNCHANGED <<SeenItems, SeenKinds, CallSeen>>
  <2>1. \A d \in Dicts : Items(d)' = Items(d)
      BY <1>1 DEF Items, Free, Table
  <2>2. SeenItems' = [d \in Dicts |-> Items(d)'] /\ CallSeen = Abstract!NoCall
      BY <1>2, IdleSeen, IdleSeenAfter DEF IdleFacts
  <2> QED
      BY <1>1, <1>2, <2>1, <2>2, IdleSeen, IdleSeenAfter DEF SeenKinds, IdleFacts
<1>4. CallSeen.op = "idle"
    BY IdleSeen DEF Abstract!NoCall, IdleFacts
<1>5. Abstract!CallFails
    BY <1>1, <1>3, <1>4 DEF Abstract!CallFails, Abstract!Idle, SeenItems, SeenKinds
<1> QED
    BY <1>2, <1>5 DEF Simulates, Abstract!Next

\* A dict without values has no items.
LEMMA EmptyItems ==
    ASSUME NEW t, NEW v, Valued(v) = {}
    PROVE  ItemsOf(t, v) = NoItems
BY DEF ItemsOf, NoItems

\* The abstract call in progress, and the kinds, are those of the code.
LEMMA AbstractIdle ==
    ASSUME Idle, NEW d \in Dicts, Saw(d)
    PROVE  /\ Abstract!Idle
           /\ \A e \in Dicts : /\ Abstract!Free(e) <=> Free(e)
                               /\ Abstract!Mutable(e) <=> Mutable(e)
<1>1. CallSeen.op = "idle" /\ \A e \in Dicts : SeenKinds[e] = dicts[e].kind
    BY DEF Abstract!NoCall, Saw
<1>2. Abstract!Idle
    BY <1>1 DEF Abstract!Idle
<1>3. \A e \in Dicts : /\ Abstract!Free(e) <=> Free(e)
                       /\ Abstract!Mutable(e) <=> Mutable(e)
    BY <1>1 DEF Abstract!Free, Abstract!Mutable, SeenKinds, Free, Mutable
<1> QED
    BY <1>2, <1>3

\* A new dict is empty.
LEMMA NewSimulates ==
    ASSUME IInv, IInv', KeysetsGrow, NEW d \in Dicts, New(d)
    PROVE  Simulates
<1>0. Idle /\ Free(d)
    BY DEF New
<1>1. CASE Fails("MemoryError")
    BY <1>0, <1>1, FailsSimulates
<1>2. CASE ~Fails("MemoryError")
  <2>1. /\ dicts' = [dicts EXCEPT ![d] = NewDict("dict", FreshKeyset, AllocLenMin, FALSE)]
        /\ ret' = None /\ call' = NoCall /\ resize' = NoResize
      BY <1>2, <1>0, IdleSeen DEF New, IdleFacts
  <2>2. /\ OneChanges(d)
        /\ dicts'[d].kind = "dict" /\ dicts'[d].values = NoValues(AllocLenMin)
      BY <2>1 DEF IInv, UsersInv, Shapes, NewDict, OneChanges
  <2>3. Items(d)' = NoItems
    <3>1. Valued(NoValues(AllocLenMin)) = {}
        BY DEF Valued, NoValues
    <3> QED
        BY <2>2, <3>1, EmptyItems DEF Items, Free
  <2>4. Saw(d)
      BY <1>0, <2>2, CallerSees
  <2>5. Abstract!Idle /\ Abstract!Free(d)
      BY <1>0, <2>4, AbstractIdle
  <2>6. Abstract!New(d)
      BY <2>1, <2>2, <2>3, <2>4, <2>5
         DEF Abstract!New, Abstract!Create, NoItems, Abstract!NoItems, Saw, SeenItems,
             SeenKinds, None, Abstract!None
  <2> QED
      BY <2>4, <2>6 DEF Simulates, Abstract!Next, Saw
<1> QED
    BY <1>1, <1>2

\* A copy, which shares the keyset, has the items of the original.
LEMMA CopySimulates ==
    ASSUME IInv, IInv', KeysetsGrow, NEW d \in Dicts, NEW o \in Dicts,
           NEW type \in {"dict", "frozendict"}, Copy(d, o, type)
    PROVE  Simulates
<1>0. Idle /\ Free(d) /\ ~Free(o) /\ dicts[o].len > 0 /\ (type = "frozendict" => Mutable(o))
    BY DEF Copy
<1>1. CASE Fails("MemoryError")
    BY <1>0, <1>1, FailsSimulates
<1>2. CASE ~Fails("MemoryError")
  <2> DEFINE k == dicts[o].keyset
             new == [NewDict(type, k, AllocLen(o), type = "frozendict")
                         EXCEPT !.values = dicts[o].values, !.len = dicts[o].len]
  <2>1. /\ dicts' = [dicts EXCEPT ![d] = new] /\ keysets' = ShareKeyset(k)
        /\ ret' = None /\ call' = NoCall /\ resize' = NoResize
      BY <1>0, <1>2, IdleSeen DEF Copy, IdleFacts
  <2>2. /\ OneChanges(d)
        /\ dicts'[d].kind = type /\ dicts'[d].values = dicts[o].values
        /\ dicts'[d].keyset = k
      BY <2>1 DEF IInv, UsersInv, Shapes, NewDict, OneChanges
  <2>3. keysets'[k].table = keysets[k].table
    <3>1. k \in Keysets
        BY <1>0 DEF IInv, UsersInv, DictsPlaced
    <3> QED
        BY <2>1, <3>1 DEF IInv, UsersInv, Shapes, ShareKeyset, FreeKeyset
  <2>4. Items(d)' = Items(o)
      BY <1>0, <2>2, <2>3 DEF Items, Free, Table
  <2>5. Saw(d)
      BY <1>0, <2>2, CallerSees
  <2>6. /\ Abstract!Idle /\ Abstract!Free(d) /\ ~Abstract!Free(o)
        /\ type = "frozendict" => Abstract!Mutable(o)
      BY <1>0, <2>5, AbstractIdle
  <2>7. Items(o) # NoItems
    <3>1. Holds(Items(o), Table(o), dicts[o].values)
        BY <1>0, IdleSeen, NowHolds DEF IdleFacts
    <3>2. Valued(dicts[o].values) # {}
        BY <1>0, DictSound, IdleSeen, FS_EmptySet DEF LinedUp, IdleFacts
    <3>3. DOMAIN NoItems = {}
        BY DEF NoItems
    <3> QED
        BY <3>1, <3>2, <3>3 DEF Holds
  <2>8. SeenItems' = [SeenItems EXCEPT ![d] = SeenItems[o]] /\ SeenItems[o] # Abstract!NoItems
      BY <2>4, <2>5, <2>7 DEF Saw, NoItems, Abstract!NoItems
  <2>9. SeenKinds' = [SeenKinds EXCEPT ![d] = type]
      BY <2>2, <2>5 DEF Saw
  <2>10. Abstract!Copy(d, o, type)
      BY <2>1, <2>5, <2>6, <2>8, <2>9
         DEF Abstract!Copy, Abstract!Create, Saw, SeenItems, SeenKinds, None, Abstract!None
  <2> QED
      BY <2>5, <2>10 DEF Simulates, Abstract!Next, Saw
<1> QED
    BY <1>1, <1>2

\* Freezing changes the kind only.
LEMMA FreezeSimulates ==
    ASSUME IInv, IInv', KeysetsGrow, NEW d \in Dicts, Freeze(d)
    PROVE  Simulates
<1>1. /\ Idle /\ Mutable(d) /\ dicts' = [dicts EXCEPT ![d].kind = "frozendict"]
      /\ keysets' = keysets /\ ret' = None /\ call' = NoCall /\ resize' = NoResize
    BY IdleSeen DEF Freeze, IdleFacts
<1>2. /\ OneChanges(d) /\ dicts'[d].kind = "frozendict"
      /\ dicts'[d].values = dicts[d].values /\ dicts'[d].keyset = dicts[d].keyset
    BY <1>1 DEF IInv, UsersInv, Shapes, FreeDict, OneChanges
<1>3. Items(d)' = Items(d)
    BY <1>1, <1>2 DEF Items, Free, Mutable, Table
<1>4. Saw(d)
    BY <1>1, <1>2, CallerSees
<1>5. Abstract!Idle /\ Abstract!Mutable(d)
    BY <1>1, <1>4, AbstractIdle
<1>6. SeenItems' = SeenItems
    BY <1>3, <1>4 DEF Saw, SeenItems
<1>7. Abstract!Freeze(d)
    BY <1>1, <1>2, <1>4, <1>5, <1>6
       DEF Abstract!Freeze, Saw, SeenItems, SeenKinds, None, Abstract!None
<1> QED
    BY <1>4, <1>7 DEF Simulates, Abstract!Next, Saw

\* A dict goes, and the keyset that others use stays with its keys.
LEMMA DeallocSimulates ==
    ASSUME IInv, IInv', KeysetsGrow, NEW d \in Dicts, Dealloc(d)
    PROVE  Simulates
<1>1. /\ Idle /\ ~Free(d) /\ dicts' = [dicts EXCEPT ![d] = FreeDict]
      /\ ret' = ret /\ call' = NoCall /\ resize' = NoResize
    BY IdleSeen DEF Dealloc, IdleFacts
<1>2. OneChanges(d) /\ dicts'[d].kind = "free"
    BY <1>1 DEF IInv, UsersInv, Shapes, FreeDict, OneChanges
<1>3. Items(d)' = NoItems
    BY <1>2 DEF Items, Free
<1>4. Saw(d)
    BY <1>1, <1>2, CallerSees
<1>5. Abstract!Idle /\ ~Abstract!Free(d)
    BY <1>1, <1>4, AbstractIdle
<1>6. Abstract!Dealloc(d)
    BY <1>1, <1>2, <1>3, <1>4, <1>5
       DEF Abstract!Dealloc, Saw, SeenItems, SeenKinds, NoItems, Abstract!NoItems
<1> QED
    BY <1>4, <1>6 DEF Simulates, Abstract!Next, Saw

\* A lookup finds the item of k, if there is one.
LEMMA LookupItem ==
    ASSUME IInv, NEW d \in Dicts, ~Free(d), NEW k \in Keys, NEW s \in Lookup(d, k)
    PROVE  /\ k \in DOMAIN Now(d) <=> ValuesNow(d)[s] # NULL
           /\ Table(d)[s].key \in Keys => Table(d)[s].key = k /\ s \in UsedSlots(Table(d))
           /\ ValuesNow(d)[s] # NULL =>
                 /\ s \in Valued(ValuesNow(d)) /\ Table(d)[s].key = k
                 /\ Now(d)[k] = ValuesNow(d)[s]
<1> DEFINE t == Table(d)
           v == ValuesNow(d)
<1>1. /\ Holds(Now(d), t, v) /\ LinedUp(v, dicts[d].len, t)
      /\ TableSound(t, AllocLen(d)) /\ AllocLen(d) \in AllocLens
      /\ KeysetSound(keysets[dicts[d].keyset])
    BY NowHolds, DictSound
<1>2. /\ s \in DOMAIN t
      /\ t[s].key \in Keys => s \in UsedSlots(t)
      /\ t[s].key \notin Keys => k \notin KeysIn(t)
    BY LookupInTable
<1>3. t[s].key \in Keys => t[s].key = k
  <2>1. s \in LookKey(t, AllocLen(d), k)
      BY DEF Lookup
  <2>2. \E r \in 0 .. AllocLen(d) - 1 : t[r].key = NULL
    <3>1. \E r \in 0 .. keysets[dicts[d].keyset].alloclen - 1 :
              keysets[dicts[d].keyset].table[r].key = NULL
        BY <1>1, NullSlotExists DEF KeysetSound, TableSound
    <3> QED
        BY <3>1 DEF Table, AllocLen
  <2>3. t[s].key # k => t[s].key \in {NULL, Dummy}
    <3> HIDE DEF t
    <3> QED
        BY <1>1, <2>1, <2>2, LookKeyFinds
  <2> QED
      BY <2>3, TableConstants
<1> HIDE DEF t, v
<1>4. /\ s \in DOMAIN v /\ Valued(v) \subseteq UsedSlots(t)
    BY <1>1, <1>2 DEF LinedUp
<1>5. /\ k \in DOMAIN Now(d) <=> v[s] # NULL
      /\ v[s] # NULL => /\ s \in Valued(v) /\ t[s].key = k /\ Now(d)[k] = v[s]
  <2>1. CASE t[s].key \in Keys
    <3>1. s \in UsedSlots(t) /\ t[s].key = k
        BY <1>2, <1>3, <2>1
    <3>2. /\ t[s].key \in DOMAIN Now(d) <=> v[s] # NULL /\ s \in DOMAIN v
          /\ s \in Valued(v) => Now(d)[t[s].key] = v[s]
        BY <1>1, <1>4, <3>1, HoldsKey
    <3> QED
        BY <1>4, <3>1, <3>2 DEF Valued
  <2>2. CASE t[s].key \notin Keys
    <3>1. v[s] = NULL
        BY <1>4, <2>2 DEF Valued, UsedSlots
    <3>2. DOMAIN Now(d) \subseteq KeysIn(t)
        BY <1>1, <1>4 DEF Holds, KeysIn
    <3> QED
        BY <1>2, <2>2, <3>1, <3>2
  <2> QED
      BY <2>1, <2>2
<1> QED
    BY <1>2, <1>3, <1>5 DEF t, v

\* Calls of Simulates that leave every dict as it was.
LEMMA NothingSeen ==
    ASSUME IInv, IInv', KeysetsGrow, Idle, NEW d \in Dicts,
           UNCHANGED <<dicts, keysets, call, resize>>
    PROVE  /\ MovedInv' /\ UpdateInv' /\ Saw(d)
           /\ SeenItems' = SeenItems /\ SeenKinds' = SeenKinds /\ CallSeen' = CallSeen
<1>1. OneChanges(d) /\ Items(d)' = Items(d)
    BY IdleSeen DEF IdleFacts, OneChanges, Items, Free, Table
<1>2. Saw(d)
    BY <1>1, CallerSees
<1> QED
    BY <1>1, <1>2 DEF Saw, SeenItems, SeenKinds

\* A lookup answers with the item, or that there is none.
LEMMA GetItemSimulates ==
    ASSUME IInv, IInv', KeysetsGrow, NEW d \in Dicts, NEW k \in Keys, GetItem(d, k)
    PROVE  Simulates
<1>1. Idle /\ ~Free(d) /\ UNCHANGED <<dicts, keysets, call, resize>>
    BY DEF GetItem
<1>2. PICK s \in Lookup(d, k) : ret' = IF dicts[d].values[s] = NULL THEN <<"KeyError">>
                                      ELSE <<dicts[d].values[s]>>
    BY DEF GetItem
<1>3. /\ MovedInv' /\ UpdateInv' /\ Saw(d)
      /\ SeenItems' = SeenItems /\ SeenKinds' = SeenKinds /\ CallSeen' = CallSeen
    BY <1>1, NothingSeen
<1>4. Abstract!Idle /\ ~Abstract!Free(d)
    BY <1>1, <1>3, AbstractIdle
<1>5. /\ SeenItems[d] = Now(d) /\ ValuesNow(d) = dicts[d].values
    BY <1>1, <1>3, IdleSeen DEF IdleFacts, Saw
<1>6. ret' = IF k \in DOMAIN SeenItems[d] THEN <<SeenItems[d][k]>> ELSE <<"KeyError">>
    BY <1>1, <1>2, <1>5, LookupItem
<1>7. Abstract!GetItem(d, k)
    BY <1>3, <1>4, <1>6 DEF Abstract!GetItem, SeenItems, SeenKinds
<1> QED
    BY <1>3, <1>7 DEF Simulates, Abstract!Next

\* An item goes: what is seen of the dict is the rest.
LEMMA ValueDropped ==
    ASSUME IInv, IInv', KeysetsGrow, Idle, NEW d \in Dicts, ~Free(d), OneChanges(d),
           keysets' = keysets, NEW s \in Valued(dicts[d].values),
           dicts'[d].values = [dicts[d].values EXCEPT ![s] = NULL],
           dicts'[d].keyset = dicts[d].keyset, dicts'[d].kind = dicts[d].kind
    PROVE  /\ Saw(d) /\ SeenItems[d] = Now(d) /\ SeenKinds' = SeenKinds
           /\ SeenItems' = [SeenItems EXCEPT
                  ![d] = Abstract!Without(SeenItems[d], Table(d)[s].key)]
<1> DEFINE t == Table(d)
           v == dicts[d].values
           w == [v EXCEPT ![s] = NULL]
<1>1. /\ Items(d) = Now(d) /\ ValuesNow(d) = v
    BY IdleSeen DEF IdleFacts
<1>2. /\ Holds(Now(d), t, v) /\ TableSound(t, AllocLen(d)) /\ DOMAIN v = DOMAIN t
      /\ Valued(v) \subseteq UsedSlots(t)
    BY <1>1, NowHolds, DictSound DEF LinedUp
<1>3. Items(d)' = ItemsOf(t, w)
    BY DEF Items, Free, Table
<1>4. Valued(w) \subseteq UsedSlots(t)
    BY <1>2 DEF Valued
<1> HIDE DEF t, v
<1>5. Holds(ItemsOf(t, w), t, w)
    BY <1>2, <1>4, ItemsHold
<1>6. Holds(Drop(Now(d), t[s].key), t, w)
    BY <1>2, HoldsDrop DEF v
<1>7. ItemsOf(t, w) = Drop(Now(d), t[s].key)
    BY <1>5, <1>6, HoldsOne
<1>8. Drop(Now(d), t[s].key) = Abstract!Without(Now(d), t[s].key)
    BY DEF Drop, Abstract!Without
<1>9. Saw(d)
    BY CallerSees
<1>10. SeenItems[d] = Now(d) /\ SeenKinds' = SeenKinds
    BY <1>1, <1>9 DEF Saw, SeenKinds
<1> QED
    BY <1>3, <1>7, <1>8, <1>9, <1>10 DEF Saw, t

\* A key that is not there is not removed.
LEMMA WithoutNothing ==
    ASSUME NEW f, f = [j \in DOMAIN f |-> f[j]], NEW k, k \notin DOMAIN f
    PROVE  Abstract!Without(f, k) = f
BY DEF Abstract!Without

\* yp_popvalue and yp_delitem drop a value, and so the item.
LEMMA RemoveSimulates ==
    ASSUME IInv, IInv', KeysetsGrow, NEW d \in Dicts, NEW k \in Keys,
           PopValue(d, k) \/ DelItem(d, k)
    PROVE  Simulates
<1>1. Idle /\ Mutable(d) /\ ~Free(d) /\ UNCHANGED <<call, resize>>
    BY DEF PopValue, DelItem, Mutable, Free
<1>2. PICK s \in Lookup(d, k) :
          \/ dicts[d].values[s] = NULL /\ Absent(d)
          \/ /\ dicts[d].values[s] # NULL /\ DropValue(d, s)
             /\ ret' \in {<<dicts[d].values[s]>>, None}
    BY DEF PopValue, DelItem
<1>3. Items(d) = Now(d) /\ ValuesNow(d) = dicts[d].values /\ call = NoCall /\ resize = NoResize
    BY <1>1, IdleSeen DEF IdleFacts
<1>4. CASE dicts[d].values[s] = NULL /\ Absent(d)
  <2>1. UNCHANGED <<dicts, keysets>> /\ ret' = <<"KeyError">>
      BY <1>4 DEF Absent
  <2>2. /\ MovedInv' /\ UpdateInv' /\ Saw(d)
        /\ SeenItems' = SeenItems /\ SeenKinds' = SeenKinds /\ CallSeen' = CallSeen
      BY <1>1, <2>1, NothingSeen
  <2>3. Abstract!Idle /\ Abstract!Mutable(d)
      BY <1>1, <2>2, AbstractIdle
  <2>4. SeenItems[d] = Now(d) /\ k \notin DOMAIN SeenItems[d]
      BY <1>1, <1>3, <1>4, <2>2, LookupItem DEF Saw
  <2>5. Abstract!Without(SeenItems[d], k) = SeenItems[d]
    <3>1. Now(d) = [j \in DOMAIN Now(d) |-> Now(d)[j]]
        BY <1>1, NowHolds DEF Holds
    <3> QED
        BY <2>4, <3>1, WithoutNothing
  <2>6. SeenItems' = [SeenItems EXCEPT ![d] = Abstract!Without(SeenItems[d], k)]
      BY <2>2, <2>5 DEF SeenItems
  <2>7. Abstract!Remove(d, k)
      BY <2>1, <2>2, <2>3, <2>4, <2>6 DEF Abstract!Remove, SeenItems, SeenKinds
  <2> QED
      BY <2>2, <2>7 DEF Simulates, Abstract!Next
<1>5. CASE /\ dicts[d].values[s] # NULL /\ DropValue(d, s)
           /\ ret' \in {<<dicts[d].values[s]>>, None}
  <2>1. /\ dicts' = [dicts EXCEPT ![d].values[s] = NULL, ![d].len = @ - 1]
        /\ keysets' = keysets
      BY <1>5 DEF DropValue
  <2>2. /\ OneChanges(d) /\ dicts'[d].kind = dicts[d].kind
        /\ dicts'[d].values = [dicts[d].values EXCEPT ![s] = NULL]
        /\ dicts'[d].keyset = dicts[d].keyset
      BY <1>1, <1>3, <2>1 DEF IInv, UsersInv, Shapes, FreeDict, OneChanges
  <2>3. /\ k \in DOMAIN Now(d) /\ s \in Valued(dicts[d].values)
        /\ Table(d)[s].key = k /\ Now(d)[k] = dicts[d].values[s]
      BY <1>1, <1>3, <1>5, LookupItem
  <2>4. /\ Saw(d) /\ SeenItems[d] = Now(d) /\ SeenKinds' = SeenKinds
        /\ SeenItems' = [SeenItems EXCEPT ![d] = Abstract!Without(SeenItems[d], k)]
      BY <1>1, <2>1, <2>2, <2>3, ValueDropped
  <2>5. Abstract!Idle /\ Abstract!Mutable(d)
      BY <1>1, <2>4, AbstractIdle
  <2>6. k \in DOMAIN SeenItems[d] /\ ret' \in {<<SeenItems[d][k]>>, Abstract!None}
      BY <1>5, <2>3, <2>4 DEF None, Abstract!None
  <2>7. Abstract!Remove(d, k)
      BY <2>4, <2>5, <2>6 DEF Abstract!Remove, SeenItems, SeenKinds, Saw
  <2> QED
      BY <2>4, <2>7 DEF Simulates, Abstract!Next, Saw
<1> QED
    BY <1>2, <1>4, <1>5

\* yp_popitem gives some item back and drops it.
LEMMA PopItemSimulates ==
    ASSUME IInv, IInv', KeysetsGrow, NEW d \in Dicts, PopItem(d)
    PROVE  Simulates
<1>1. Idle /\ Mutable(d) /\ ~Free(d) /\ UNCHANGED <<call, resize>>
    BY DEF PopItem, Mutable, Free
<1>2. /\ Items(d) = Now(d) /\ ValuesNow(d) = dicts[d].values /\ call = NoCall
      /\ resize = NoResize /\ ~Resizing
    BY <1>1, IdleSeen DEF IdleFacts
<1>3. /\ LinedUp(dicts[d].values, dicts[d].len, Table(d))
      /\ Holds(Now(d), Table(d), dicts[d].values)
      /\ IsFiniteSet(Valued(dicts[d].values)) /\ dicts[d].len \in Nat
  <2>1. /\ LinedUp(ValuesNow(d), dicts[d].len, Table(d))
        /\ TableSound(Table(d), AllocLen(d)) /\ AllocLen(d) \in AllocLens
      BY <1>1, DictSound
  <2>2. IsFiniteSet(Valued(ValuesNow(d))) /\ dicts[d].len \in Nat
      BY <2>1, LinedFinite
  <2> QED
      BY <1>1, <1>2, <2>1, <2>2, NowHolds
<1>4. CASE dicts[d].len < 1 /\ Absent(d)
  <2>1. UNCHANGED <<dicts, keysets>> /\ ret' = <<"KeyError">>
      BY <1>4 DEF Absent
  <2>2. /\ MovedInv' /\ UpdateInv' /\ Saw(d)
        /\ SeenItems' = SeenItems /\ SeenKinds' = SeenKinds /\ CallSeen' = CallSeen
      BY <1>1, <2>1, NothingSeen
  <2>3. Abstract!Idle /\ Abstract!Mutable(d)
      BY <1>1, <2>2, AbstractIdle
  <2>4. SeenItems[d] = Abstract!NoItems
    <3>1. Valued(dicts[d].values) = {}
        BY <1>3, <1>4, FS_EmptySet DEF LinedUp
    <3>2. Items(d) = NoItems
        BY <1>1, <3>1, EmptyItems DEF Items
    <3> QED
        BY <2>2, <3>2 DEF Saw, NoItems, Abstract!NoItems
  <2>5. Abstract!PopItem(d)
      BY <2>1, <2>2, <2>3, <2>4 DEF Abstract!PopItem, SeenItems, SeenKinds
  <2> QED
      BY <2>2, <2>5 DEF Simulates, Abstract!Next
<1>5. CASE ~(dicts[d].len < 1 /\ Absent(d))
  <2> DEFINE s == PopItemSlot(d)
  <2>1. /\ dicts' = [dicts EXCEPT ![d].values[s] = NULL,
                         ![d].len = @ - 1, ![d].finger = s + 1]
        /\ ret' = <<Table(d)[s].key, dicts[d].values[s]>>
        /\ keysets' = keysets /\ dicts[d].len >= 1
      BY <1>5 DEF PopItem
  <2>2. s \in Valued(dicts[d].values)
      BY <1>1, <1>2, <2>1, PopItemFinds
  <2> HIDE DEF s
  <2>3. /\ OneChanges(d) /\ dicts'[d].kind = dicts[d].kind
        /\ dicts'[d].values = [dicts[d].values EXCEPT ![s] = NULL]
        /\ dicts'[d].keyset = dicts[d].keyset
      BY <1>1, <1>2, <2>1 DEF IInv, UsersInv, Shapes, FreeDict, OneChanges
  <2> DEFINE k == Table(d)[s].key
  <2>4. k \in DOMAIN Now(d) /\ Now(d)[k] = dicts[d].values[s]
      BY <1>3, <2>2 DEF Holds
  <2>5. /\ Saw(d) /\ SeenItems[d] = Now(d) /\ SeenKinds' = SeenKinds
        /\ SeenItems' = [SeenItems EXCEPT ![d] = Abstract!Without(SeenItems[d], k)]
      BY <1>1, <2>1, <2>2, <2>3, ValueDropped
  <2>6. Abstract!Idle /\ Abstract!Mutable(d)
      BY <1>1, <2>5, AbstractIdle
  <2>7. k \in DOMAIN SeenItems[d] /\ ret' = <<k, SeenItems[d][k]>>
      BY <2>1, <2>4, <2>5
  <2> HIDE DEF k
  <2>8. Abstract!PopItem(d)
      BY <2>5, <2>6, <2>7 DEF Abstract!PopItem, SeenItems, SeenKinds, Saw
  <2> QED
      BY <2>5, <2>8 DEF Simulates, Abstract!Next, Saw
<1> QED
    BY <1>4, <1>5

\* A dict is cleared: it has a new keyset, and no items.
LEMMA ClearSimulates ==
    ASSUME IInv, IInv', KeysetsGrow, NEW d \in Dicts, Clear(d)
    PROVE  Simulates
<1>0. Idle /\ Mutable(d) /\ ~Free(d)
    BY DEF Clear, Mutable, Free
<1>1. CASE Fails("MemoryError")
    BY <1>0, <1>1, FailsSimulates
<1>2. CASE ~Fails("MemoryError")
  <2> DEFINE finger == IF dicts[d].inline THEN dicts[d].finger ELSE InlineLen
             new == [NewDict("dict", FreshKeyset, AllocLenMin, FALSE)
                        EXCEPT !.finger = finger]
  <2>1. /\ dicts' = [dicts EXCEPT ![d] = new]
        /\ ret' = None /\ call' = NoCall /\ resize' = NoResize
      BY <1>2, <1>0, IdleSeen DEF Clear, IdleFacts
  <2>2. new.kind = "dict" /\ new.values = NoValues(AllocLenMin)
      BY DEF NewDict
  <2> HIDE DEF new
  <2>3. /\ OneChanges(d)
        /\ dicts'[d].kind = "dict" /\ dicts'[d].values = NoValues(AllocLenMin)
      BY <2>1, <2>2 DEF IInv, UsersInv, Shapes, OneChanges
  <2>4. Items(d)' = NoItems
    <3>1. Valued(NoValues(AllocLenMin)) = {}
        BY DEF Valued, NoValues
    <3> QED
        BY <2>3, <3>1, EmptyItems DEF Items, Free
  <2>5. Saw(d)
      BY <1>0, <2>3, CallerSees
  <2>6. Abstract!Idle /\ Abstract!Mutable(d)
      BY <1>0, <2>5, AbstractIdle
  <2>7. SeenKinds' = SeenKinds
      BY <1>0, <2>3, <2>5 DEF Saw, SeenKinds, Mutable
  <2>8. Abstract!Clear(d)
      BY <2>1, <2>4, <2>5, <2>6, <2>7
         DEF Abstract!Clear, NoItems, Abstract!NoItems, Saw, SeenItems, SeenKinds,
             None, Abstract!None
  <2> QED
      BY <2>5, <2>8 DEF Simulates, Abstract!Next, Saw
<1> QED
    BY <1>1, <1>2

\* The argument of a call that has item, or none yet.
OneArg(item) == [k \in {item.key} \ {NULL} |-> item.value]

\* That argument is the map of one item, or of none.
LEMMA OneArgs ==
    /\ OneArg(NoItem) = NoItems
    /\ \A k \in Keys : \A v :
          /\ OneArg([key |-> k, value |-> v]) = Abstract!OneItem(k, v)
          /\ OneArg([key |-> k, value |-> v]) # NoItems
<1>1. OneArg(NoItem) = NoItems
    BY DEF OneArg, NoItem, NoItems
<1>2. ASSUME NEW k \in Keys, NEW v
      PROVE  /\ OneArg([key |-> k, value |-> v]) = Abstract!OneItem(k, v)
             /\ OneArg([key |-> k, value |-> v]) # NoItems
  <2>1. {k} \ {NULL} = {k}
      BY TableConstants
  <2>2. OneArg([key |-> k, value |-> v]) = [x \in {k} |-> v]
      BY <2>1 DEF OneArg
  <2>3. DOMAIN NoItems = {}
      BY DEF NoItems
  <2> QED
      BY <2>2, <2>3 DEF Abstract!OneItem
<1> QED
    BY <1>1, <1>2

\* A call begins, and nobody sees a difference yet.
LEMMA BegunSeen ==
    ASSUME IInv, Idle, NEW d \in Dicts, NEW name \in Ops, NEW o, NEW item, NEW h,
           Begin(name, d, o, item, h)
    PROVE  /\ MovedInv' /\ (name # "update" => UpdateInv')
           /\ SeenItems' = SeenItems /\ SeenKinds' = SeenKinds
           /\ CallSeen' = [op |-> name, self |-> d,
                           arg |-> IF name = "update" THEN Items(o) ELSE OneArg(item)]
           /\ Abstract!Idle /\ (Mutable(d) => Abstract!Mutable(d))
           /\ \A e \in Dicts : SeenItems[e] = Items(e) /\ SeenKinds[e] = dicts[e].kind
<1>1. /\ UNCHANGED <<dicts, keysets, resize>>
      /\ call' = Frame(name, d, o, dicts[d].keyset, SpaceLeft(d), item, h)
    BY DEF Begin
<1>2. /\ call'.op = name /\ call'.self = d /\ call'.other = o /\ call'.item = item
      /\ name = "update" => call'.before = Items(d)
    BY <1>1 DEF Frame
<1>3. /\ ~Resizing /\ SeenItems = [e \in Dicts |-> Items(e)] /\ CallSeen = Abstract!NoCall
    BY IdleSeen DEF IdleFacts
<1>4. ~Resizing' /\ ~Idle'
    BY <1>1, <1>2, <1>3 DEF Resizing, Idle, Ops, ItemByItem, OneItemOps
<1>5. MovedInv' /\ (name # "update" => UpdateInv')
    BY <1>2, <1>4 DEF MovedInv, UpdateInv
<1>6. \A e \in Dicts : Items(e)' = Items(e)
    BY <1>1 DEF Items, Free, Table
<1>7. ASSUME NEW e \in Dicts PROVE ItemsSeen(e)' = Items(e)
    BY <1>2, <1>4, <1>6 DEF ItemsSeen, Self
<1>8. SeenItems' = SeenItems /\ SeenKinds' = SeenKinds
    BY <1>1, <1>3, <1>7 DEF SeenItems, SeenKinds
<1>9. CallSeen' = [op |-> name, self |-> d,
                   arg |-> IF name = "update" THEN Items(o) ELSE OneArg(item)]
  <2>1. Items(o)' = Items(o)
      BY <1>1 DEF Items, Free, Table
  <2> QED
      BY <1>2, <1>4, <2>1 DEF CallSeen, OneArg, Self
<1>10. CallSeen.op = "idle" /\ \A e \in Dicts : SeenKinds[e] = dicts[e].kind
    BY <1>3 DEF Abstract!NoCall, SeenKinds
<1>11. Abstract!Idle /\ (Mutable(d) => Abstract!Mutable(d))
    BY <1>10 DEF Abstract!Idle, Abstract!Mutable, Mutable, SeenKinds
<1> QED
    BY <1>3, <1>5, <1>8, <1>9, <1>10, <1>11

\* A call that adds one item, or items one by one, begins.
LEMMA BeginSimulates ==
    ASSUME IInv, NEW d \in Dicts,
           \/ \E k \in Keys, v \in Values : BeginSetItem(d, k, v) \/ BeginSetDefault(d, k, v)
           \/ \E h \in Hints : BeginUpdateIter(d, h) \/ BeginUpdateK(d, h)
    PROVE  Simulates
<1>1. ASSUME NEW k \in Keys, NEW v \in Values,
             BeginSetItem(d, k, v) \/ BeginSetDefault(d, k, v)
      PROVE  Simulates
  <2> DEFINE item == [key |-> k, value |-> v]
  <2>1. PICK name \in OneItemOps :
            /\ name = "setitem" \/ name = "setdefault"
            /\ Begin(name, d, NULL, item, 0)
            /\ name = "setitem" => BeginSetItem(d, k, v)
      BY <1>1 DEF BeginSetItem, BeginSetDefault, OneItemOps
  <2>2. Idle /\ Mutable(d) /\ ret' = ret /\ name \in Ops /\ name # "update"
      BY <2>1 DEF Begin, Ops, OneItemOps
  <2>3. OneArg(item) = Abstract!OneItem(k, v)
      BY OneArgs
  <2> HIDE DEF item
  <2>4. /\ MovedInv' /\ UpdateInv' /\ SeenItems' = SeenItems /\ SeenKinds' = SeenKinds
        /\ CallSeen' = [op |-> name, self |-> d, arg |-> OneArg(item)]
        /\ Abstract!Idle /\ Abstract!Mutable(d)
      BY <2>1, <2>2, BegunSeen
  <2>5. Abstract!BeginSetItem(d, k, v) \/ Abstract!BeginSetDefault(d, k, v)
      BY <2>1, <2>2, <2>3, <2>4
         DEF Abstract!BeginSetItem, Abstract!BeginSetDefault, Abstract!Begin,
             SeenItems, SeenKinds
  <2> QED
      BY <2>4, <2>5 DEF Simulates, Abstract!Next
<1>2. ASSUME NEW h \in Hints, BeginUpdateIter(d, h) \/ BeginUpdateK(d, h)
      PROVE  Simulates
  <2>1. PICK name \in ItemByItem :
            /\ name = "update_iter" \/ name = "updateK"
            /\ Begin(name, d, NULL, NoItem, h)
      BY <1>2 DEF BeginUpdateIter, BeginUpdateK, ItemByItem
  <2>2. Idle /\ Mutable(d) /\ ret' = ret /\ name \in Ops /\ name # "update"
      BY <2>1 DEF Begin, Ops, ItemByItem
  <2>3. OneArg(NoItem) = Abstract!NoItems
      BY OneArgs DEF NoItems, Abstract!NoItems
  <2>4. /\ MovedInv' /\ UpdateInv' /\ SeenItems' = SeenItems /\ SeenKinds' = SeenKinds
        /\ CallSeen' = [op |-> name, self |-> d, arg |-> OneArg(NoItem)]
        /\ Abstract!Idle /\ Abstract!Mutable(d)
      BY <2>1, <2>2, BegunSeen
  <2>5. Abstract!BeginUpdateIter(d) \/ Abstract!BeginUpdateK(d)
      BY <2>1, <2>2, <2>3, <2>4
         DEF Abstract!BeginUpdateIter, Abstract!BeginUpdateK, Abstract!Begin,
             SeenItems, SeenKinds
  <2> QED
      BY <2>4, <2>5 DEF Simulates, Abstract!Next
<1> QED
    BY <1>1, <1>2

\* An update from another dict has added nothing yet.
LEMMA BeginUpdateSimulates ==
    ASSUME IInv, NEW d \in Dicts, NEW o \in Dicts, BeginUpdate(d, o)
    PROVE  Simulates
<1>1. /\ d # o /\ ~Free(o) /\ ~Free(d) /\ Idle /\ Mutable(d) /\ ret' = ret
      /\ Begin("update", d, o, NoItem, dicts[o].len)
      /\ UNCHANGED <<dicts, keysets, resize>>
      /\ call' = Frame("update", d, o, dicts[d].keyset, SpaceLeft(d), NoItem, dicts[o].len)
    BY DEF BeginUpdate, UpdateFrom, Begin, Mutable, Free
<1>2. /\ MovedInv' /\ SeenItems' = SeenItems /\ SeenKinds' = SeenKinds
      /\ CallSeen' = [op |-> "update", self |-> d, arg |-> Items(o)]
      /\ Abstract!Idle /\ Abstract!Mutable(d)
      /\ \A e \in Dicts : SeenItems[e] = Items(e) /\ SeenKinds[e] = dicts[e].kind
    BY <1>1, BegunSeen DEF Ops
<1>3. Abstract!BeginUpdate(d, o)
  <2>1. ~Abstract!Free(o)
      BY <1>1, <1>2 DEF Abstract!Free, Free, SeenKinds
  <2> QED
      BY <1>1, <1>2, <2>1 DEF Abstract!BeginUpdate, Abstract!Begin, SeenItems, SeenKinds
<1>4. UpdateInv'
  <2>1. /\ call'.self = d /\ call'.other = o /\ call'.item = NoItem /\ call'.scan = 0
        /\ call'.hint = dicts[o].len /\ call'.before = Items(d)
      BY <1>1 DEF Frame
  <2>2. /\ Items(d) = Now(d) /\ ValuesNow(o) = dicts[o].values /\ ~Resizing
      BY <1>1, IdleSeen DEF IdleFacts
  <2>3. /\ LinedUp(dicts[o].values, dicts[o].len, Table(o))
        /\ TableSound(Table(o), AllocLen(o)) /\ AllocLen(o) \in AllocLens
      BY <1>1, <2>2, DictSound
  <2>4. Valued(dicts[o].values) \subseteq Nat
    <3>1. DOMAIN Table(o) = 0 .. AllocLen(o) - 1 /\ AllocLen(o) \in Nat
        BY <2>3, TableConstants DEF TableSound
    <3> QED
        BY <2>3, <3>1 DEF LinedUp, UsedSlots
  <2>5. Rest' = Valued(dicts[o].values)
      BY <1>1, <2>1, <2>4 DEF Rest, OtherValues
  <2>6. Passed' = {}
      BY <1>1, <2>1, <2>5 DEF Passed, OtherValues
  <2>7. Now(d) = [k \in DOMAIN Now(d) |-> Now(d)[k]]
      BY <1>1, NowHolds DEF Holds
  <2>8. Self' = d /\ Now(Self)' = Now(d)
      BY <1>1, <2>1, <2>2 DEF Self, Now, Table, ValuesNow, Resizing
  <2>9. Over(Now(d), Part(Now(call.other)', {})) = Now(d)
    <3>1. DOMAIN Part(Now(call.other)', {}) = {}
        BY DEF Part
    <3> HIDE DEF Part, Now
    <3> QED
        BY <2>7, <3>1 DEF Over
  <2> QED
      BY <1>1, <2>1, <2>2, <2>3, <2>5, <2>6, <2>7, <2>8, <2>9
         DEF UpdateInv, LinedUp
<1> QED
    BY <1>2, <1>3, <1>4 DEF Simulates, Abstract!Next

\* A constructor begins with a dict that has no items.
LEMMA BeginDictKSimulates ==
    ASSUME IInv, IInv', KeysetsGrow, NEW d \in Dicts, NEW h \in Hints,
           NEW type \in {"dict", "frozendict"}, BeginDictK(d, type, h)
    PROVE  Simulates
<1>0. Idle /\ Free(d)
    BY DEF BeginDictK
<1>1. CASE Fails("MemoryError")
    BY <1>0, <1>1, FailsSimulates
<1>2. CASE ~Fails("MemoryError")
  <2> DEFINE n == FreshKeyset
             size == CalcAllocLen(Hinted(h))
             fixed == h <= AllocHintMax /\ type = "frozendict"
             new == NewDict(type, n, size, fixed)
  <2>1. /\ dicts' = [dicts EXCEPT ![d] = new]
        /\ call' = Frame("dictK", d, NULL, n, Space(size, 0), NoItem, h)
        /\ UNCHANGED <<resize, ret>>
      BY <1>2 DEF BeginDictK
  <2>2. /\ dicts'[d].kind = type /\ dicts'[d].values = NoValues(size)
        /\ \A e \in Dicts \ {d} : dicts'[e] = dicts[e]
      BY <2>1 DEF IInv, UsersInv, Shapes, NewDict
  <2> HIDE DEF n, size, fixed, new
  <2>3. /\ call'.op = "dictK" /\ call'.self = d /\ call'.item = NoItem
      BY <2>1 DEF Frame
  <2>4. /\ ~Resizing /\ SeenItems = [e \in Dicts |-> Items(e)] /\ CallSeen = Abstract!NoCall
      BY <1>0, IdleSeen DEF IdleFacts
  <2>5. ~Resizing' /\ ~Idle'
      BY <2>1, <2>3, <2>4 DEF Resizing, Idle
  <2>6. MovedInv' /\ UpdateInv'
      BY <2>3, <2>5 DEF MovedInv, UpdateInv
  <2>7. Items(d)' = NoItems /\ Items(d) = NoItems
    <3>1. Valued(NoValues(size)) = {}
        BY DEF Valued, NoValues
    <3> QED
        BY <1>0, <2>2, <3>1, EmptyItems DEF Items, Free
  <2>8. ASSUME NEW e \in Dicts PROVE ItemsSeen(e)' = Items(e)
    <3>1. ItemsSeen(e)' = Items(e)'
        BY <2>3, <2>5 DEF ItemsSeen, Self
    <3>2. Items(e)' = Items(e)
      <4>1. CASE e = d
          BY <2>7, <4>1
      <4>2. CASE e # d /\ Free(e)
          BY <2>2, <4>2 DEF Items, Free
      <4>3. CASE e # d /\ ~Free(e)
          BY <2>2, <2>4, <4>3, ItemsKept
      <4> QED
          BY <4>1, <4>2, <4>3
    <3> QED
        BY <3>1, <3>2
  <2>9. SeenItems' = SeenItems /\ SeenKinds' = [SeenKinds EXCEPT ![d] = type]
      BY <2>2, <2>4, <2>8 DEF SeenItems, SeenKinds
  <2>10. CallSeen' = [op |-> "dictK", self |-> d, arg |-> Abstract!NoItems]
    <3>1. OneArg(NoItem) = Abstract!NoItems
        BY OneArgs DEF NoItems, Abstract!NoItems
    <3> QED
        BY <2>3, <2>5, <3>1 DEF CallSeen, OneArg, Self
  <2>11. Abstract!Idle /\ Abstract!Free(d)
    <3>1. CallSeen.op = "idle" /\ SeenKinds[d] = "free"
        BY <1>0, <2>4 DEF Abstract!NoCall, Free, SeenKinds
    <3> QED
        BY <3>1 DEF Abstract!Idle, Abstract!Free, SeenKinds
  <2>12. Abstract!BeginDictK(d, type)
      BY <2>1, <2>9, <2>10, <2>11 DEF Abstract!BeginDictK, SeenItems, SeenKinds
  <2> QED
      BY <2>6, <2>12 DEF Simulates, Abstract!Next
<1> QED
    BY <1>1, <1>2

\* A step of the call in progress changes the dict it works on.
SelfSteps(d) ==
    /\ \A e \in Dicts \ {d} : dicts'[e] = dicts[e]
    /\ call'.self = d \/ call' = NoCall

\* The caller sees that d changed, if anything, in a step of a call.
StepSaw(d) ==
    /\ SeenItems' = [SeenItems EXCEPT ![d] = ItemsSeen(d)']
    /\ SeenKinds' = [SeenKinds EXCEPT ![d] = dicts'[d].kind]
    /\ \A e \in Dicts \ {d} : Items(e)' = Items(e)

\* The other dicts do not see a step of a call.
LEMMA StepSees ==
    ASSUME IInv, IInv', KeysetsGrow, NEW d \in Dicts, d = Self, SelfSteps(d)
    PROVE  StepSaw(d)
<1>1. ASSUME NEW e \in Dicts \ {d} PROVE Items(e)' = Items(e)
  <2>1. CASE Free(e)
      BY <2>1 DEF Items, Free, SelfSteps
  <2>2. CASE ~Free(e)
    <3>1. dicts'[e] = dicts[e] /\ ~(Resizing /\ e = Self)
        BY DEF SelfSteps
    <3> QED
        BY <2>2, <3>1, ItemsKept
  <2> QED
      BY <2>1, <2>2
<1>2. ASSUME NEW e \in Dicts \ {d} PROVE ItemsSeen(e)' = ItemsSeen(e)
  <2>1. e # Self /\ e # call'.self
      BY DictConstants DEF SelfSteps, NoCall
  <2>2. ItemsSeen(e)' = Items(e)' /\ ItemsSeen(e) = Items(e)
      BY <2>1 DEF ItemsSeen, Self
  <2> QED
      BY <1>1, <2>2
<1>3. SeenItems' = [SeenItems EXCEPT ![d] = ItemsSeen(d)']
    BY <1>2 DEF SeenItems
<1>4. SeenKinds' = [SeenKinds EXCEPT ![d] = dicts'[d].kind]
    BY DEF SeenKinds, SelfSteps
<1> QED
    BY <1>1, <1>3, <1>4 DEF StepSaw

\* What is seen of a call in progress.
LEMMA RunSeen ==
    ASSUME RInv, ~Idle
    PROVE  /\ Self \in Dicts /\ ~Free(Self)
           /\ SeenItems[Self] = IF call.op = "update" THEN call.before ELSE Now(Self)
           /\ CallSeen = [op |-> call.op, self |-> Self,
                          arg |-> IF call.op = "update" THEN Items(call.other)
                                  ELSE OneArg(call.item)]
           /\ call.op = "update" =>
                 /\ call.other \in Dicts /\ call.other # Self /\ ~Free(call.other)
                 /\ Items(call.other) = Now(call.other)
                 /\ ValuesNow(call.other) = OtherValues
           /\ ~Resizing => Items(Self) = Now(Self) /\ ValuesNow(Self) = dicts[Self].values
<1>1. Self \in Dicts /\ ~Free(Self)
    BY DEF RInv, IInv, UsersInv, CallPlaced
<1>2. SeenItems[Self] = IF call.op = "update" THEN call.before ELSE Now(Self)
    BY <1>1, SeenIs DEF RInv, SeenItems
<1>3. CallSeen = [op |-> call.op, self |-> Self,
                  arg |-> IF call.op = "update" THEN Items(call.other)
                          ELSE OneArg(call.item)]
    BY DEF CallSeen, OneArg
<1>4. call.op = "update" => /\ call.other \in Dicts /\ call.other # Self
                            /\ ~Free(call.other)
    BY DEF RInv, UpdateInv, IInv, ItemInv
<1>5. call.op = "update" => /\ Items(call.other) = Now(call.other)
                            /\ ValuesNow(call.other) = OtherValues
    BY <1>4 DEF Items, Now, ValuesNow, OtherValues
<1>6. ~Resizing => Items(Self) = Now(Self) /\ ValuesNow(Self) = dicts[Self].values
    BY <1>1 DEF Items, Now, ValuesNow
<1> QED
    BY <1>1, <1>2, <1>3, <1>4, <1>5, <1>6

\* While a call waits for its next item nothing is resized.
LEMMA AwaitingState ==
    ASSUME IInv, NEW ops, Awaiting(ops), "idle" \notin ops
    PROVE  ~Idle /\ ~Resizing /\ resize = NoResize /\ call.item = NoItem /\ call.op \in ops
BY DEF Awaiting, Idle, Resizing, IInv, UsersInv, ResizePlaced

\* An iterator yields an item.
LEMMA NextItemSimulates ==
    ASSUME RInv, IInv', KeysetsGrow, NEW k \in Keys, NEW v \in Values, NextItem(k, v)
    PROVE  Simulates
<1>1. /\ ~Idle /\ ~Resizing /\ resize = NoResize /\ call.item = NoItem
      /\ call.op \in ItemByItem
    BY AwaitingState DEF NextItem, RInv, ItemByItem
<1>2. /\ UNCHANGED <<dicts, keysets, resize, ret>>
      /\ call' = [call EXCEPT !.item = [key |-> k, value |-> v], !.hint = @ - 1]
    BY DEF NextItem
<1>3. /\ call'.op = call.op /\ call'.self = call.self
      /\ call'.item = [key |-> k, value |-> v]
    BY <1>2 DEF RInv, IInv, UsersInv, Shapes, NoCall
<1>4. ~Resizing' /\ ~Idle' /\ call.op # "update"
    BY <1>1, <1>2, <1>3 DEF Resizing, Idle, ItemByItem
<1>5. MovedInv' /\ UpdateInv'
    BY <1>3, <1>4 DEF MovedInv, UpdateInv
<1>6. SeenItems' = SeenItems /\ SeenKinds' = SeenKinds
    BY <1>1, <1>2, <1>3, <1>4
       DEF SeenItems, SeenKinds, ItemsSeen, Items, Free, Table, Self
<1>7. CallSeen = [op |-> call.op, self |-> Self, arg |-> Abstract!NoItems]
  <2>1. OneArg(NoItem) = Abstract!NoItems
      BY OneArgs DEF NoItems, Abstract!NoItems
  <2> QED
      BY <1>1, <1>4, <2>1, RunSeen
<1>8. CallSeen' = [op |-> call.op, self |-> Self, arg |-> Abstract!OneItem(k, v)]
  <2>1. OneArg([key |-> k, value |-> v]) = Abstract!OneItem(k, v)
      BY OneArgs
  <2> QED
      BY <1>3, <1>4, <2>1 DEF CallSeen, OneArg, Self
<1>9. CallSeen' = [CallSeen EXCEPT !.arg = Abstract!OneItem(k, v)]
    BY <1>7, <1>8
<1>10. CallSeen.op \in Abstract!ItemByItem /\ CallSeen.arg = Abstract!NoItems
    BY <1>1, <1>7 DEF ItemByItem, Abstract!ItemByItem
<1>11. Abstract!Yield(k, v)
    BY <1>2, <1>6, <1>9, <1>10 DEF Abstract!Yield, SeenItems, SeenKinds
<1> QED
    BY <1>5, <1>11 DEF Simulates, Abstract!Next

\* An update takes the next item of the other dict: nobody sees that.
LEMMA NextOfOtherSimulates ==
    ASSUME RInv, IInv', KeysetsGrow, NextOfOther
    PROVE  Simulates
<1> DEFINE o == call.other
           V == Valued(dicts[o].values)
<1>1. /\ ~Idle /\ ~Resizing /\ resize = NoResize /\ call.item = NoItem
      /\ call.op = "update"
    BY AwaitingState DEF NextOfOther, RInv
<1>2. PICK s \in V :
          /\ s >= call.scan
          /\ \A r \in V : r >= call.scan => s <= r
          /\ call' = [call EXCEPT !.scan = s + 1, !.hint = @ - 1,
                          !.item = [key |-> Table(o)[s].key, value |-> dicts[o].values[s]]]
    BY DEF NextOfOther
<1>3. UNCHANGED <<dicts, keysets, resize, ret>>
    BY DEF NextOfOther
<1>4. /\ call'.op = "update" /\ call'.self = call.self /\ call'.other = o
      /\ call'.item = [key |-> Table(o)[s].key, value |-> dicts[o].values[s]]
      /\ call'.scan = s + 1 /\ call'.hint = call.hint - 1 /\ call'.before = call.before
    BY <1>1, <1>2 DEF RInv, IInv, UsersInv, Shapes, NoCall
<1>5. ~Resizing' /\ ~Idle' /\ MovedInv'
    BY <1>1, <1>3, <1>4 DEF Resizing, Idle, MovedInv
<1>6. SeenItems' = SeenItems /\ SeenKinds' = SeenKinds /\ CallSeen' = CallSeen
    BY <1>1, <1>3, <1>4, <1>5
       DEF SeenItems, SeenKinds, ItemsSeen, Items, Free, Table, Self, CallSeen, Idle
<1>7. UpdateInv'
  <2>1. /\ o \in Dicts /\ o # Self /\ ~Free(o) /\ ValuesNow(o) = dicts[o].values
        /\ call.scan \in Nat /\ call.hint = Cardinality(Rest)
        /\ call.before = [k \in DOMAIN call.before |-> call.before[k]]
        /\ Now(Self) = Over(call.before, Part(Now(o), Passed \ {call.item.key}))
      BY <1>1, RunSeen DEF RInv, UpdateInv, OtherValues
  <2>2. /\ LinedUp(dicts[o].values, dicts[o].len, Table(o))
        /\ TableSound(Table(o), AllocLen(o)) /\ AllocLen(o) \in AllocLens
      BY <2>1, DictSound DEF RInv
  <2>3. V \subseteq Nat /\ IsFiniteSet(V) /\ V \subseteq UsedSlots(Table(o))
    <3>1. DOMAIN Table(o) = 0 .. AllocLen(o) - 1 /\ AllocLen(o) \in Nat
        BY <2>2, TableConstants DEF TableSound
    <3>2. IsFiniteSet(V)
        BY <2>2, LinedFinite
    <3> QED
        BY <2>2, <3>1, <3>2 DEF LinedUp, UsedSlots
  <2>4. /\ Rest = {r \in V : r >= call.scan} /\ Rest' = {r \in V : r >= s + 1}
      BY <1>3, <1>4 DEF Rest, OtherValues
  <2> HIDE DEF V
  <2>5. Rest' = Rest \ {s} /\ s \in Rest
      BY <1>2, <2>1, <2>3, <2>4
  <2>6. call'.hint = Cardinality(Rest')
    <3>1. IsFiniteSet(Rest)
        BY <2>3, <2>4, FS_Subset
    <3>2. Cardinality(Rest \ {s}) = Cardinality(Rest) - 1
        BY <2>5, <3>1, FS_RemoveElement
    <3> QED
        BY <1>4, <2>1, <2>5, <3>2
  <2>7. Passed = {Table(o)[r].key : r \in V \ Rest}
      BY DEF Passed, OtherValues, V
  <2>8. Passed' = {Table(o)[r].key : r \in V \ Rest'}
      BY <1>3, <1>4 DEF Passed, OtherValues, Table, V
  <2>9. Passed' \ {call'.item.key} = Passed \ {call.item.key}
    <3>1. V \ Rest' = (V \ Rest) \cup {s}
        BY <1>2, <2>4, <2>5
    <3>2. \A r \in V \ Rest : Table(o)[r].key # Table(o)[s].key
      <4>1. ASSUME NEW r \in V \ Rest, Table(o)[r].key = Table(o)[s].key PROVE FALSE
        <5>1. r = s
            BY <1>2, <2>2, <2>3, <4>1, KeysDiffer DEF V
        <5> QED
            BY <2>5, <5>1
      <4> QED
          BY <4>1
    <3>3. call.item.key \notin Passed
      <4>1. call.item.key = NULL
          BY <1>1 DEF NoItem
      <4>2. Passed \subseteq Keys
          BY <2>3, <2>7 DEF UsedSlots
      <4> QED
          BY <4>1, <4>2, TableConstants
    <3> QED
        BY <1>4, <2>7, <2>8, <3>1, <3>2, <3>3
  <2>10. /\ Self' = Self /\ Now(Self)' = Now(Self) /\ Now(call.other)' = Now(o)
      BY <1>1, <1>3, <1>4, <1>5 DEF Self, Now, Table, ValuesNow, Resizing
  <2>11. \E r \in Valued(OtherValues)' \ Rest' :
            call'.item = [key |-> Table(call.other)'[r].key, value |-> OtherValues'[r]]
    <3>1. OtherValues' = dicts[o].values /\ Table(call.other)' = Table(o)
        BY <1>3, <1>4 DEF OtherValues, Table
    <3> QED
        BY <1>2, <1>4, <2>5, <3>1 DEF V
  <2>12. s + 1 \in Nat
      BY <1>2, <2>3
  <2> HIDE DEF o
  <2>13. Now(Self)' = Over(call'.before, Part(Now(call.other)', Passed' \ {call'.item.key}))
      BY <1>4, <2>1, <2>9, <2>10
  <2> QED
      BY <1>4, <2>1, <2>6, <2>10, <2>11, <2>12, <2>13 DEF UpdateInv, o
<1> QED
    BY <1>3, <1>5, <1>6, <1>7 DEF Simulates, Abstract!vars, SeenItems, SeenKinds

\* A call returns.
LEMMA Returned ==
    ASSUME RInv, IInv', KeysetsGrow, ~Idle, NEW d \in Dicts, d = Self,
           call' = NoCall, resize' = NoResize, \A e \in Dicts \ {d} : dicts'[e] = dicts[e]
    PROVE  /\ MovedInv' /\ UpdateInv' /\ CallSeen' = Abstract!NoCall
           /\ SeenItems' = [SeenItems EXCEPT ![d] = Items(d)']
           /\ SeenKinds' = [SeenKinds EXCEPT ![d] = dicts'[d].kind]
<1>1. Idle'
    BY DEF Idle, NoCall
<1>2. /\ MovedInv' /\ UpdateInv' /\ CallSeen' = Abstract!NoCall
      /\ SeenItems' = [e \in Dicts |-> Items(e)']
    BY <1>1, IdleSeenAfter DEF IdleFacts
<1>3. StepSaw(d)
    BY StepSees DEF SelfSteps, RInv
<1>4. ItemsSeen(d)' = Items(d)'
    BY <1>2 DEF SeenItems
<1> QED
    BY <1>2, <1>3, <1>4 DEF StepSaw

\* What an update has passed, and what its call gave it.
LEMMA UpdateKeys ==
    ASSUME RInv, call.op = "update"
    PROVE  /\ Passed \subseteq DOMAIN Now(call.other) /\ Passed \subseteq Keys
           /\ DOMAIN Now(call.other) = {Table(call.other)[s].key : s \in Valued(OtherValues)}
           /\ call.item # NoItem =>
                 /\ call.item.key \in Passed
                 /\ Now(call.other)[call.item.key] = call.item.value
           /\ call.item = NoItem => call.item.key \notin Passed
           /\ Rest = {} => Passed = DOMAIN Now(call.other)
           /\ Now(call.other)
              = [k \in DOMAIN Now(call.other) |-> Now(call.other)[k]]
<1> DEFINE o == call.other
           V == Valued(OtherValues)
<1>1. /\ o \in Dicts /\ ~Free(o) /\ ValuesNow(o) = OtherValues /\ ~Idle
      /\ Self \in Dicts
    BY RunSeen DEF Idle
<1>2. /\ Holds(Now(o), Table(o), OtherValues)
      /\ LinedUp(OtherValues, dicts[o].len, Table(o))
    BY <1>1, NowHolds, DictSound DEF RInv
<1>3. DOMAIN Now(o) = {Table(o)[s].key : s \in V} /\ V \subseteq UsedSlots(Table(o))
    BY <1>2 DEF Holds, LinedUp
<1>4. Passed = {Table(o)[s].key : s \in V \ Rest}
    BY DEF Passed
<1>5. Passed \subseteq DOMAIN Now(o) /\ Passed \subseteq Keys
    BY <1>3, <1>4 DEF UsedSlots
<1>6. ASSUME call.item # NoItem
      PROVE  call.item.key \in Passed /\ Now(o)[call.item.key] = call.item.value
  <2>1. PICK s \in V \ Rest :
            call.item = [key |-> Table(o)[s].key, value |-> OtherValues[s]]
      BY <1>6 DEF RInv, UpdateInv
  <2>2. Now(o)[Table(o)[s].key] = OtherValues[s]
      BY <1>2, <2>1 DEF Holds
  <2> QED
      BY <1>4, <2>1, <2>2
<1>7. call.item = NoItem => call.item.key \notin Passed
    BY <1>5, TableConstants DEF NoItem
<1>8. Rest = {} => Passed = DOMAIN Now(o)
    BY <1>3, <1>4
<1>9. Now(o) = [k \in DOMAIN Now(o) |-> Now(o)[k]]
    BY <1>2 DEF Holds
<1> QED
    BY <1>3, <1>5, <1>6, <1>7, <1>8, <1>9

\* There are no more items: those of an update are all there.
LEMMA EndOfItemsSimulates ==
    ASSUME RInv, IInv', KeysetsGrow, EndOfItems
    PROVE  Simulates
<1>1. /\ ~Idle /\ ~Resizing /\ resize = NoResize /\ call.item = NoItem
      /\ call.op \in {"update", "updateK", "dictK", "update_iter"}
      /\ call.op = "update" => call.hint = 0
    BY AwaitingState DEF EndOfItems, RInv, Awaiting, Idle
<1>2. /\ UNCHANGED <<dicts, keysets, resize>> /\ ret' = None /\ call' = NoCall
    BY DEF EndOfItems, Return
<1>3. PICK d \in Dicts : d = Self
    BY <1>1, RunSeen
<1>4. /\ Items(d) = Now(d)
      /\ SeenItems[d] = IF call.op = "update" THEN call.before ELSE Now(d)
    BY <1>1, <1>3, RunSeen
<1>5. Items(d)' = Now(d)
  <2>1. Items(d)' = Items(d)
      BY <1>2 DEF Items, Free, Table
  <2> QED
      BY <1>4, <2>1
<1>6. /\ MovedInv' /\ UpdateInv' /\ CallSeen' = Abstract!NoCall
      /\ SeenItems' = [SeenItems EXCEPT ![d] = Now(d)]
      /\ SeenKinds' = SeenKinds
  <2>1. /\ MovedInv' /\ UpdateInv' /\ CallSeen' = Abstract!NoCall
        /\ SeenItems' = [SeenItems EXCEPT ![d] = Items(d)']
      BY <1>1, <1>2, <1>3, Returned
  <2>2. SeenKinds' = SeenKinds
      BY <1>2 DEF SeenKinds
  <2> QED
      BY <1>5, <2>1, <2>2
<1>7. CASE call.op # "update"
  <2>1. SeenItems' = SeenItems
      BY <1>4, <1>6, <1>7 DEF SeenItems
  <2>2. CallSeen.op \in Abstract!ItemByItem /\ CallSeen.arg = Abstract!NoItems
    <3>1. OneArg(NoItem) = Abstract!NoItems
        BY OneArgs DEF NoItems, Abstract!NoItems
    <3> QED
        BY <1>1, <1>7, <3>1, RunSeen DEF Abstract!ItemByItem
  <2>3. Abstract!EndItems
      BY <1>2, <1>6, <2>1, <2>2
         DEF Abstract!EndItems, Abstract!Return, SeenItems, SeenKinds, None, Abstract!None
  <2> QED
      BY <1>6, <2>3 DEF Simulates, Abstract!Next
<1>8. CASE call.op = "update"
  <2> DEFINE o == call.other
  <2>1. CallSeen = [op |-> "update", self |-> d, arg |-> Now(o)]
      BY <1>1, <1>3, <1>8, RunSeen
  <2>2. Now(d) = Abstract!Merge(SeenItems[d], Now(o))
    <3>1. Rest = {}
      <4>1. IsFiniteSet(Rest)
        <5>1. /\ o \in Dicts /\ ~Free(o) /\ ValuesNow(o) = OtherValues
            BY <1>1, <1>8, RunSeen
        <5>2. IsFiniteSet(Valued(OtherValues))
            BY <5>1, DictSound, LinedFinite DEF RInv
        <5> QED
            BY <5>2, FS_Subset DEF Rest
      <4> QED
          BY <1>1, <1>8, <4>1, FS_EmptySet DEF RInv, UpdateInv
    <3>2. Passed \ {call.item.key} = DOMAIN Now(o)
        BY <1>1, <1>8, <3>1, UpdateKeys
    <3>3. Part(Now(o), DOMAIN Now(o)) = Now(o)
        BY <1>8, UpdateKeys DEF Part
    <3>4. Now(d) = Over(call.before, Now(o))
        BY <1>3, <1>8, <3>2, <3>3 DEF RInv, UpdateInv
    <3> QED
        BY <1>4, <1>8, <3>4 DEF Over, Abstract!Merge
  <2>3. Abstract!Add
      BY <1>2, <1>6, <2>1, <2>2
         DEF Abstract!Add, Abstract!Added, Abstract!Return, SeenItems, SeenKinds,
             None, Abstract!None
  <2> QED
      BY <1>6, <2>3 DEF Simulates, Abstract!Next
<1> QED
    BY <1>7, <1>8

\* yp_setdefault finds a value.
LEMMA KeepValueSimulates ==
    ASSUME RInv, IInv', KeysetsGrow, Pushing, NEW s \in Lookup(Self, call.item.key),
           KeepValue(s)
    PROVE  Simulates
<1>1. /\ call.op = "setdefault" /\ dicts[Self].values[s] # NULL
      /\ ret' = <<dicts[Self].values[s]>> /\ call' = NoCall
      /\ UNCHANGED <<dicts, keysets, resize>> /\ resize = NoResize
      /\ ~Resizing /\ ~Idle /\ call.item # NoItem
    BY DEF KeepValue, Return, Pushing, Idle, Resizing
<1>2. PICK d \in Dicts : d = Self
    BY <1>1, RunSeen
<1>3. /\ ~Free(d) /\ Items(d) = Now(d) /\ SeenItems[d] = Now(d)
      /\ ValuesNow(d) = dicts[d].values
      /\ CallSeen = [op |-> "setdefault", self |-> d, arg |-> OneArg(call.item)]
    BY <1>1, <1>2, RunSeen
<1>4. PICK k \in Keys, v \in Values : call.item = [key |-> k, value |-> v]
    BY <1>1 DEF RInv, IInv, ItemInv, CallItems
<1>5. k \in DOMAIN SeenItems[d] /\ SeenItems[d][k] = dicts[d].values[s]
  <2>1. s \in Lookup(d, k)
      BY <1>2, <1>4
  <2> QED
      BY <1>1, <1>2, <1>3, <2>1, LookupItem DEF RInv
<1>6. /\ MovedInv' /\ UpdateInv' /\ CallSeen' = Abstract!NoCall
      /\ SeenItems' = SeenItems /\ SeenKinds' = SeenKinds
  <2>1. /\ MovedInv' /\ UpdateInv' /\ CallSeen' = Abstract!NoCall
        /\ SeenItems' = [SeenItems EXCEPT ![d] = Items(d)']
      BY <1>1, <1>2, Returned
  <2>2. SeenKinds' = SeenKinds
      BY <1>1 DEF SeenKinds
  <2>3. Items(d)' = Items(d)
      BY <1>1 DEF Items, Free, Table
  <2> QED
      BY <1>3, <2>1, <2>2, <2>3 DEF SeenItems
<1>7. k \in DOMAIN CallSeen.arg
  <2>1. OneArg(call.item) = Abstract!OneItem(k, v)
      BY <1>4, OneArgs
  <2>2. k \in DOMAIN Abstract!OneItem(k, v)
      BY DEF Abstract!OneItem
  <2> QED
      BY <1>3, <2>1, <2>2
<1>8. ret' = <<SeenItems[CallSeen.self][k]>> /\ CallSeen.op = "setdefault" /\ CallSeen.self = d
    BY <1>1, <1>2, <1>3, <1>5
<1>9. Abstract!SetDefault
    BY <1>5, <1>6, <1>7, <1>8
       DEF Abstract!SetDefault, Abstract!Return, SeenItems, SeenKinds
<1> QED
    BY <1>6, <1>9 DEF Simulates, Abstract!Next

\* A map is what it was when nothing is added to it.
LEMMA MergeNothing ==
    ASSUME NEW f, f = [k \in DOMAIN f |-> f[k]], NEW g, DOMAIN g = {}
    PROVE  Abstract!Merge(f, g) = f
BY DEF Abstract!Merge

\* A call gives up.  What an update added before stays, and a dict that was
\* being made goes.
LEMMA GiveUpSimulates ==
    ASSUME RInv, IInv', KeysetsGrow, ~Idle, resize = NoResize, NEW e, GiveUp(e),
           \/ call.op \in ItemByItem /\ call.item = NoItem /\ e = "Exception"
           \/ /\ call.item # NoItem
              /\ e \in {"MemoryError", "MemorySizeOverflowError", "TypeError"}
              /\ call.op = "setdefault" /\ e # "TypeError" =>
                     call.item.key \notin DOMAIN Now(Self)
    PROVE  Simulates
<1>1. PICK d \in Dicts : d = Self
    BY RunSeen
<1>2. /\ ret' = <<e>> /\ call' = NoCall /\ resize' = NoResize /\ ~Resizing
      /\ call.op # "dictK" => UNCHANGED <<dicts, keysets>>
      /\ call.op = "dictK" => dicts' = [dicts EXCEPT ![d] = FreeDict]
    BY <1>1 DEF GiveUp, Return, Resizing, Self
<1>3. /\ \A c \in Dicts \ {d} : dicts'[c] = dicts[c]
      /\ call.op # "dictK" => Items(d)' = Items(d) /\ SeenKinds' = SeenKinds
      /\ call.op = "dictK" => Items(d)' = NoItems /\ dicts'[d].kind = "free"
  <2>1. CASE call.op # "dictK"
      BY <1>2, <2>1 DEF Items, Free, Table, SeenKinds
  <2>2. CASE call.op = "dictK"
    <3>1. dicts'[d] = FreeDict /\ \A c \in Dicts \ {d} : dicts'[c] = dicts[c]
        BY <1>2, <2>2 DEF RInv, IInv, UsersInv, Shapes
    <3> QED
        BY <2>2, <3>1 DEF Items, Free, FreeDict
  <2> QED
      BY <2>1, <2>2
<1>4. /\ MovedInv' /\ UpdateInv' /\ CallSeen' = Abstract!NoCall
      /\ SeenItems' = [SeenItems EXCEPT ![d] = Items(d)']
      /\ SeenKinds' = [SeenKinds EXCEPT ![d] = dicts'[d].kind]
    BY <1>1, <1>2, <1>3, Returned
<1>5. /\ ~Free(d) /\ Items(d) = Now(d)
      /\ SeenItems[d] = IF call.op = "update" THEN call.before ELSE Now(d)
      /\ CallSeen = [op |-> call.op, self |-> d,
                     arg |-> IF call.op = "update" THEN Items(call.other)
                             ELSE OneArg(call.item)]
    BY <1>1, <1>2, RunSeen
<1>6. call.op # "dictK" /\ call.op # "update" => SeenItems' = SeenItems
    BY <1>3, <1>4, <1>5 DEF SeenItems
<1>7. call.item # NoItem => /\ \E k \in Keys, v \in Values :
                                  OneArg(call.item) = Abstract!OneItem(k, v)
                            /\ OneArg(call.item) # Abstract!NoItems
                            /\ <<e>> \in Abstract!Errors
  <2> SUFFICES ASSUME call.item # NoItem
               PROVE  /\ \E k \in Keys, v \in Values :
                             OneArg(call.item) = Abstract!OneItem(k, v)
                      /\ OneArg(call.item) # Abstract!NoItems
                      /\ <<e>> \in Abstract!Errors
      OBVIOUS
  <2>1. PICK k \in Keys, v \in Values : call.item = [key |-> k, value |-> v]
      BY DEF RInv, IInv, ItemInv, CallItems
  <2>2. <<e>> \in Abstract!Errors
      BY DEF Abstract!Errors, Abstract!MemoryErrors
  <2> QED
      BY <2>1, <2>2, OneArgs DEF NoItems, Abstract!NoItems
<1>8. ASSUME NEW K \in SUBSET DOMAIN CallSeen.arg, K # DOMAIN CallSeen.arg,
             CallSeen.op \in {"setitem", "update"}, call.item # NoItem,
             SeenItems' = [SeenItems EXCEPT
                 ![d] = Abstract!Merge(@, [k \in K |-> CallSeen.arg[k]])]
      PROVE  Simulates
  <2>1. SeenKinds' = SeenKinds /\ CallSeen.self = d
      BY <1>3, <1>5, <1>8
  <2>2. Abstract!Add
      BY <1>2, <1>4, <1>7, <1>8, <2>1
         DEF Abstract!Add, Abstract!Added, Abstract!Return, SeenItems, SeenKinds
  <2> QED
      BY <1>4, <2>2 DEF Simulates, Abstract!Next
<1>9. CASE call.op \in ItemByItem
  <2>1. /\ CallSeen.op \in Abstract!ItemByItem /\ CallSeen.self = d
        /\ CallSeen.op = call.op
      BY <1>5, <1>9 DEF ItemByItem, Abstract!ItemByItem
  <2>2. \/ CallSeen.arg = Abstract!NoItems /\ ret' = <<"Exception">>
        \/ CallSeen.arg # Abstract!NoItems /\ ret' \in Abstract!Errors
    <3>1. OneArg(NoItem) = Abstract!NoItems
        BY OneArgs DEF NoItems, Abstract!NoItems
    <3> QED
        BY <1>2, <1>5, <1>7, <1>9, <3>1 DEF ItemByItem
  <2>3. \/ call.op # "dictK" /\ SeenItems' = SeenItems /\ SeenKinds' = SeenKinds
        \/ /\ call.op = "dictK"
           /\ SeenItems' = [SeenItems EXCEPT ![d] = Abstract!NoItems]
           /\ SeenKinds' = [SeenKinds EXCEPT ![d] = "free"]
      BY <1>3, <1>4, <1>6, <1>9 DEF ItemByItem, NoItems, Abstract!NoItems
  <2>4. Abstract!EndItems
      BY <1>4, <2>1, <2>2, <2>3
         DEF Abstract!EndItems, Abstract!Return, SeenItems, SeenKinds
  <2> QED
      BY <1>4, <2>4 DEF Simulates, Abstract!Next
<1>10. CASE call.op = "setitem"
  <2>1. /\ call.item # NoItem /\ CallSeen.op = "setitem"
        /\ CallSeen.arg = OneArg(call.item)
      BY <1>5, <1>10 DEF ItemByItem
  <2>2. PICK k \in Keys, v \in Values : CallSeen.arg = Abstract!OneItem(k, v)
      BY <1>7, <2>1
  <2>3. DOMAIN CallSeen.arg # {}
      BY <2>2 DEF Abstract!OneItem
  <2> DEFINE K == {}
             nothing == [j \in K |-> CallSeen.arg[j]]
  <2>4. Abstract!Merge(Now(d), nothing) = Now(d)
    <3>1. Now(d) = [j \in DOMAIN Now(d) |-> Now(d)[j]]
        BY <1>5, NowHolds DEF Holds, RInv
    <3>2. DOMAIN nothing = {}
        OBVIOUS
    <3> QED
        BY <3>1, <3>2, MergeNothing
  <2>5. SeenItems' = [SeenItems EXCEPT ![d] = Abstract!Merge(@, nothing)]
      BY <1>5, <1>6, <1>10, <2>4 DEF SeenItems
  <2>6. K \in SUBSET DOMAIN CallSeen.arg /\ K # DOMAIN CallSeen.arg
      BY <2>3
  <2> HIDE DEF K
  <2> QED
      BY <1>8, <2>1, <2>5, <2>6
<1>11. CASE call.op = "update"
  <2> DEFINE o == call.other
             K == Passed \ {call.item.key}
  <2>1. /\ call.item # NoItem /\ CallSeen.op = "update" /\ CallSeen.arg = Now(o)
      BY <1>5, <1>11, RunSeen DEF ItemByItem
  <2>2. K \in SUBSET DOMAIN Now(o) /\ K # DOMAIN Now(o)
      BY <1>11, <2>1, UpdateKeys
  <2>3. Now(d) = Over(call.before, Part(Now(o), K))
      BY <1>1, <1>11 DEF RInv, UpdateInv
  <2>4. Now(d) = Abstract!Merge(SeenItems[d], [j \in K |-> CallSeen.arg[j]])
      BY <1>5, <1>11, <2>1, <2>3 DEF Over, Part, Abstract!Merge
  <2>5. SeenItems' = [SeenItems EXCEPT
            ![d] = Abstract!Merge(@, [j \in K |-> CallSeen.arg[j]])]
      BY <1>3, <1>4, <1>5, <1>11, <2>4 DEF SeenItems
  <2> HIDE DEF K, o
  <2> QED
      BY <1>8, <2>1, <2>2, <2>5
<1>12. CASE call.op = "setdefault"
  <2>1. PICK k \in Keys, v \in Values : call.item = [key |-> k, value |-> v]
      BY <1>12 DEF RInv, IInv, ItemInv, CallItems, ItemByItem
  <2>2. /\ call.item # NoItem /\ CallSeen.op = "setdefault" /\ CallSeen.self = d
        /\ CallSeen.arg = Abstract!OneItem(k, v)
      BY <1>5, <1>12, <2>1, OneArgs DEF ItemByItem
  <2>3. /\ k \in DOMAIN CallSeen.arg
        /\ e = "TypeError" \/ (k \notin DOMAIN SeenItems[d] /\ <<e>> \in Abstract!MemoryErrors)
    <3>1. k \in DOMAIN Abstract!OneItem(k, v)
        BY DEF Abstract!OneItem
    <3>2. CASE e = "TypeError"
        BY <2>2, <3>1, <3>2
    <3>3. CASE e # "TypeError"
      <4>1. k \notin DOMAIN Now(d)
          BY <1>1, <1>12, <2>1, <2>2, <3>3
      <4>2. e \in {"MemoryError", "MemorySizeOverflowError"}
          BY <2>2, <3>3
      <4>3. <<e>> \in Abstract!MemoryErrors
          BY <4>2 DEF Abstract!MemoryErrors
      <4> QED
          BY <1>5, <1>12, <2>2, <3>1, <4>1, <4>3
    <3> QED
        BY <3>2, <3>3
  <2>4. SeenItems' = SeenItems /\ SeenKinds' = SeenKinds
      BY <1>3, <1>6, <1>12
  <2>5. Abstract!SetDefault
      BY <1>2, <1>4, <1>7, <2>2, <2>3, <2>4
         DEF Abstract!SetDefault, Abstract!Return, SeenItems, SeenKinds
  <2> QED
      BY <1>4, <2>5 DEF Simulates, Abstract!Next
<1>13. call.op \in ItemByItem \cup {"setitem", "update", "setdefault"}
    BY DEF RInv, IInv, UsersInv, CallPlaced, Idle, Ops, OneItemOps
<1> QED
    BY <1>9, <1>10, <1>11, <1>12, <1>13

\* The iterator of a call raised.
LEMMA ItemRaisesSimulates ==
    ASSUME RInv, IInv', KeysetsGrow, ItemRaises
    PROVE  Simulates
<1>1. /\ ~Idle /\ resize = NoResize /\ call.item = NoItem /\ call.op \in ItemByItem
      /\ GiveUp("Exception")
    BY AwaitingState DEF ItemRaises, RInv, ItemByItem
<1> QED
    BY <1>1, GiveUpSimulates

\* A key raises while its item is pushed.
LEMMA PushRaisesSimulates ==
    ASSUME RInv, IInv', KeysetsGrow, PushRaises
    PROVE  Simulates
<1>1. ~Idle /\ resize = NoResize /\ call.item # NoItem /\ GiveUp("TypeError")
    BY DEF PushRaises, Pushing, RInv, IInv, UsersInv, CallPlaced, NoCall
<1> QED
    BY <1>1, GiveUpSimulates

\* The item of the call is in the dict d it works on, and nothing else
\* changes.
Pushed(d) ==
    /\ \A c \in Dicts \ {d} : dicts'[c] = dicts[c]
    /\ dicts'[d].kind = dicts[d].kind
    /\ Items(d)' = Put(Now(d), call.item.key, call.item.value)
    /\ resize' = NoResize
    /\ \E left : ItemDone(left)

\* An item that is pushed goes over the others.
LEMMA PutMerges ==
    ASSUME NEW f, NEW k, NEW v
    PROVE  Put(f, k, v) = Abstract!Merge(f, Abstract!OneItem(k, v))
<1> DEFINE g == Abstract!OneItem(k, v)
<1>1. DOMAIN g = {k} /\ g[k] = v
    BY DEF Abstract!OneItem
<1>2. Abstract!Merge(f, g)
      = [j \in DOMAIN f \cup DOMAIN g |-> IF j \in DOMAIN g THEN g[j] ELSE f[j]]
    BY DEF Abstract!Merge
<1> HIDE DEF g
<1>3. Abstract!Merge(f, g) = [j \in DOMAIN f \cup {k} |-> IF j = k THEN v ELSE f[j]]
    BY <1>1, <1>2
<1> QED
    BY <1>3 DEF Put, g

\* An update has one more item of the other dict.
LEMMA PutOver ==
    ASSUME NEW f, NEW g, NEW K, NEW k \in K
    PROVE  Put(Over(f, Part(g, K \ {k})), k, g[k]) = Over(f, Part(g, K))
<1> DEFINE a == Over(f, Part(g, K \ {k}))
           b == Over(f, Part(g, K))
<1>1. /\ DOMAIN a = DOMAIN f \cup (K \ {k})
      /\ \A j \in DOMAIN a : a[j] = IF j \in K \ {k} THEN g[j] ELSE f[j]
    BY DEF Over, Part
<1>2. /\ DOMAIN b = DOMAIN f \cup K
      /\ \A j \in DOMAIN b : b[j] = IF j \in K THEN g[j] ELSE f[j]
      /\ b = [j \in DOMAIN b |-> b[j]]
    BY DEF Over, Part
<1> HIDE DEF a, b
<1>3. DOMAIN a \cup {k} = DOMAIN b
    BY <1>1, <1>2
<1>4. \A j \in DOMAIN b : b[j] = IF j = k THEN g[k] ELSE a[j]
    BY <1>1, <1>2, <1>3
<1>5. Put(a, k, g[k]) = b
    BY <1>2, <1>3, <1>4 DEF Put
<1> QED
    BY <1>5 DEF a, b

\* What an update keeps while an item of the other dict goes in.
LEMMA UpdatePushed ==
    ASSUME RInv, IInv', KeysetsGrow, ~Idle, call.item # NoItem, call.op = "update",
           NEW d \in Dicts, d = Self, Pushed(d)
    PROVE  /\ UpdateInv' /\ SeenItems' = SeenItems /\ CallSeen' = CallSeen
           /\ SeenKinds' = SeenKinds /\ MovedInv' /\ UNCHANGED ret
<1> DEFINE k == call.item.key
<1>0. PICK o \in Dicts : o = call.other
    BY RunSeen
<1>1. PICK left : call' = [call EXCEPT !.item = NoItem, !.spaceleft = left] /\ ret' = ret
    BY DEF Pushed, ItemDone, OneItemOps
<1>2. /\ call'.op = "update" /\ call'.self = d /\ call'.other = o /\ call.other = o
      /\ call'.item = NoItem /\ call'.scan = call.scan /\ call'.hint = call.hint
      /\ call'.before = call.before
    BY <1>0, <1>1 DEF RInv, IInv, UsersInv, Shapes, NoCall, Self
<1>3. /\ ~Resizing' /\ ~Idle' /\ Self' = d
    BY <1>2 DEF Resizing, Idle, Self, Pushed
<1>4. /\ o # d /\ ~Free(o) /\ ~Free(d) /\ Items(o) = Now(o)
      /\ SeenItems[d] = call.before /\ ValuesNow(o) = OtherValues
      /\ CallSeen = [op |-> "update", self |-> d, arg |-> Items(o)]
    BY <1>0, RunSeen
<1>5. dicts'[o] = dicts[o] /\ ~(Resizing /\ o = Self)
    BY <1>4 DEF Pushed
<1>6. StepSaw(d)
  <2>1. SelfSteps(d)
      BY <1>2 DEF SelfSteps, Pushed
  <2> QED
      BY <2>1, StepSees DEF RInv
<1>7. SeenItems' = SeenItems /\ SeenKinds' = SeenKinds
  <2>1. ~Free(d)'
      BY <1>4 DEF Free, Pushed
  <2>2. ItemsSeen(d)' = call.before
      BY <1>2, <1>3, <2>1 DEF ItemsSeen
  <2>3. SeenItems' = SeenItems
      BY <1>4, <1>6, <2>2 DEF StepSaw, SeenItems
  <2>4. SeenKinds' = SeenKinds
      BY <1>6 DEF StepSaw, SeenKinds, Pushed
  <2> QED
      BY <2>3, <2>4
<1>8. CallSeen' = CallSeen
  <2>1. Items(call.other)' = Items(o)
    <3>1. Items(o)' = Items(o)
        BY <1>4, <1>6 DEF StepSaw
    <3> QED
        BY <1>2, <3>1 DEF Items, Free, Table
  <2> QED
      BY <1>2, <1>3, <1>4, <2>1 DEF CallSeen
<1>9. UpdateInv'
  <2>1. /\ Items(o)' = Now(o)
        /\ \A s \in Valued(OtherValues) : Table(o)'[s] = Table(o)[s]
      BY <1>0, <1>4, <1>5, ItemsKept DEF RInv, OtherValues
  <2>2. /\ Now(call.other)' = Now(o) /\ Table(call.other)' = Table(o)'
        /\ OtherValues' = OtherValues
    <3>1. Now(call.other)' = Items(o)'
        BY <1>2, <1>3, <1>4, <1>5 DEF Now, Items, ValuesNow, Free, Table
    <3> QED
        BY <1>0, <1>2, <1>5, <2>1, <3>1 DEF OtherValues, Table
  <2>3. Rest' = Rest
      BY <1>2, <2>2 DEF Rest
  <2>4. Passed' = Passed
      BY <1>0, <2>1, <2>2, <2>3 DEF Passed
  <2>5. Passed \ {NULL} = Passed /\ k \in Passed /\ Now(o)[k] = call.item.value
      BY <1>0, UpdateKeys, TableConstants
  <2>6. Now(Self)' = Over(call.before, Part(Now(o), Passed))
    <3>1. Now(Self)' = Items(d)'
        BY <1>3, <1>4 DEF Now, Items, ValuesNow, Free, Table, Pushed
    <3>2. Items(d)' = Put(Now(d), k, Now(o)[k])
        BY <2>5 DEF Pushed
    <3>3. Now(d) = Over(call.before, Part(Now(o), Passed \ {k}))
        BY <1>0 DEF RInv, UpdateInv
    <3> HIDE DEF k
    <3> QED
        BY <2>5, <3>1, <3>2, <3>3, PutOver
  <2>7. Passed' \ {call'.item.key} = Passed
      BY <1>2, <2>4, <2>5 DEF NoItem
  <2>8. /\ call.scan \in Nat /\ call.hint = Cardinality(Rest)
        /\ call.before = [j \in DOMAIN call.before |-> call.before[j]]
      BY DEF RInv, UpdateInv
  <2>9. Now(Self)' = Over(call'.before, Part(Now(call.other)', Passed' \ {call'.item.key}))
      BY <1>2, <2>2, <2>6, <2>7
  <2> QED
      BY <1>2, <1>3, <1>4, <2>3, <2>8, <2>9 DEF UpdateInv
<1>10. MovedInv'
    BY <1>3 DEF MovedInv
<1> QED
    BY <1>1, <1>7, <1>8, <1>9, <1>10

\* An item goes in: the call is over, or waits for the next item.
LEMMA PushedSimulates ==
    ASSUME RInv, IInv', KeysetsGrow, ~Idle, call.item # NoItem,
           NEW d \in Dicts, d = Self, Pushed(d),
           call.op = "setdefault" => call.item.key \notin DOMAIN Now(d)
    PROVE  Simulates
<1>1. PICK k \in Keys, v \in Values : call.item = [key |-> k, value |-> v]
    BY DEF RInv, IInv, ItemInv, CallItems
<1>2. /\ OneArg(call.item) = Abstract!OneItem(k, v)
      /\ OneArg(call.item) # Abstract!NoItems /\ OneArg(NoItem) = Abstract!NoItems
    BY <1>1, OneArgs DEF NoItems, Abstract!NoItems
<1>3. Items(d)' = Abstract!Merge(Now(d), Abstract!OneItem(k, v))
  <2>1. Items(d)' = Put(Now(d), k, v)
      BY <1>1 DEF Pushed
  <2> QED
      BY <2>1, PutMerges
<1>4. /\ SeenItems[d] = IF call.op = "update" THEN call.before ELSE Now(d)
      /\ CallSeen = [op |-> call.op, self |-> d,
                     arg |-> IF call.op = "update" THEN Items(call.other)
                             ELSE OneArg(call.item)]
    BY RunSeen
<1>5. PICK left : ItemDone(left)
    BY DEF Pushed
<1>6. CASE call.op \in OneItemOps
  <2>1. /\ call' = NoCall
        /\ ret' = IF call.op = "setitem" THEN None ELSE <<v>>
      BY <1>1, <1>5, <1>6 DEF ItemDone, Return, OneItemOps
  <2>2. /\ MovedInv' /\ UpdateInv' /\ CallSeen' = Abstract!NoCall
        /\ SeenItems' = [SeenItems EXCEPT ![d] = Items(d)']
        /\ SeenKinds' = [SeenKinds EXCEPT ![d] = dicts'[d].kind]
      BY <2>1, Returned DEF Pushed
  <2>3. SeenKinds' = SeenKinds
      BY <2>2 DEF SeenKinds, Pushed
  <2>4. /\ CallSeen.op = call.op /\ CallSeen.self = d /\ SeenItems[d] = Now(d)
        /\ CallSeen.arg = Abstract!OneItem(k, v)
      BY <1>2, <1>4, <1>6 DEF OneItemOps
  <2>5. SeenItems' = [SeenItems EXCEPT ![d] = Abstract!Merge(@, CallSeen.arg)]
      BY <1>3, <2>2, <2>4 DEF SeenItems
  <2>6. CASE call.op = "setitem"
    <3>1. Abstract!Add
        BY <2>1, <2>2, <2>3, <2>4, <2>5, <2>6
           DEF Abstract!Add, Abstract!Added, Abstract!Return, SeenItems, SeenKinds,
               None, Abstract!None
    <3> QED
        BY <2>2, <3>1 DEF Simulates, Abstract!Next
  <2>7. CASE call.op = "setdefault"
    <3>1. k \in DOMAIN CallSeen.arg /\ CallSeen.arg[k] = v
        BY <2>4 DEF Abstract!OneItem
    <3>2. k \notin DOMAIN SeenItems[d] /\ ret' = <<CallSeen.arg[k]>>
        BY <1>1, <2>1, <2>4, <2>7, <3>1
    <3>3. Abstract!SetDefault
        BY <2>2, <2>3, <2>4, <2>5, <2>7, <3>1, <3>2
           DEF Abstract!SetDefault, Abstract!Added, Abstract!Return, SeenItems,
               SeenKinds
    <3> QED
        BY <2>2, <3>3 DEF Simulates, Abstract!Next
  <2> QED
      BY <1>6, <2>6, <2>7 DEF OneItemOps
<1>7. CASE call.op = "update"
  <2>1. /\ UpdateInv' /\ SeenItems' = SeenItems /\ CallSeen' = CallSeen
        /\ SeenKinds' = SeenKinds /\ MovedInv' /\ UNCHANGED ret
      BY <1>7, UpdatePushed
  <2> QED
      BY <2>1 DEF Simulates, Abstract!vars, SeenItems, SeenKinds
<1>8. CASE call.op \in ItemByItem
  <2>1. call' = [call EXCEPT !.item = NoItem, !.spaceleft = left] /\ ret' = ret
      BY <1>5, <1>8 DEF ItemDone, OneItemOps, ItemByItem
  <2>2. call'.op = call.op /\ call'.self = d /\ call'.item = NoItem
      BY <2>1 DEF RInv, IInv, UsersInv, Shapes, NoCall, Self
  <2>3. ~Resizing' /\ ~Idle' /\ Self' = d /\ call.op # "update"
      BY <1>8, <2>2 DEF Resizing, Idle, Self, Pushed, ItemByItem
  <2>4. StepSaw(d)
    <3>1. SelfSteps(d)
        BY <2>2 DEF SelfSteps, Pushed
    <3> QED
        BY <3>1, StepSees DEF RInv
  <2>5. MovedInv' /\ UpdateInv'
      BY <2>2, <2>3 DEF MovedInv, UpdateInv
  <2>6. SeenKinds' = SeenKinds
      BY <2>4 DEF StepSaw, SeenKinds, Pushed
  <2>7. ItemsSeen(d)' = Items(d)'
      BY <2>2, <2>3 DEF ItemsSeen
  <2>8. /\ CallSeen.op \in Abstract!ItemByItem /\ CallSeen.self = d
        /\ CallSeen.arg = Abstract!OneItem(k, v) /\ CallSeen.arg # Abstract!NoItems
      BY <1>2, <1>4, <1>8, <2>3 DEF ItemByItem, Abstract!ItemByItem
  <2>9. SeenItems' = [SeenItems EXCEPT ![d] = Abstract!Merge(@, CallSeen.arg)]
      BY <1>3, <1>4, <2>3, <2>4, <2>7, <2>8 DEF StepSaw, SeenItems
  <2>10. CallSeen' = [CallSeen EXCEPT !.arg = Abstract!NoItems]
    <3>1. CallSeen' = [op |-> call.op, self |-> d, arg |-> OneArg(NoItem)]
        BY <2>2, <2>3 DEF CallSeen, OneArg
    <3> QED
        BY <1>2, <1>4, <3>1
  <2>11. Abstract!AddYielded
      BY <2>1, <2>6, <2>8, <2>9, <2>10
         DEF Abstract!AddYielded, Abstract!Added, SeenItems, SeenKinds
  <2> QED
      BY <2>5, <2>11 DEF Simulates, Abstract!Next
<1>9. call.op \in OneItemOps \cup ItemByItem \cup {"update"}
    BY DEF RInv, IInv, UsersInv, CallPlaced, Idle, Ops
<1> QED
    BY <1>6, <1>7, <1>8, <1>9

\* The value x comes beside the values v of d, whose table is now u.
ComesIn(d, u, v, s, x) ==
    u = Table(d)' /\ dicts'[d].values = [v EXCEPT ![s] = x]

\* The items of a dict once an item went in, whatever keys came to its table.
LEMMA ItemsPut ==
    ASSUME IInv', NEW d \in Dicts, ~Free(d)', NEW f, NEW t, NEW v, Holds(f, t, v),
           DOMAIN v = DOMAIN t, Valued(v) \subseteq UsedSlots(t),
           NEW u, Grown(t, u), NEW s \in UsedSlots(u), NEW x \in Values,
           ComesIn(d, u, v, s, x)
    PROVE  Items(d)' = Put(f, u[s].key, x)
<1> DEFINE w == [v EXCEPT ![s] = x]
<1>2. PICK size : TableSound(u, size)
  <2>1. KeysetSound(keysets'[dicts'[d].keyset])
      BY LiveAfter DEF IInv, TablesInv
  <2> QED
      BY <2>1 DEF KeysetSound, Table, ComesIn
<1>3. /\ DOMAIN v = DOMAIN u /\ Valued(v) \subseteq UsedSlots(u) /\ Holds(f, u, v)
      /\ s \in UsedSlots(u)
    BY GrownUsed, HoldsGrown DEF Grown
<1>4. Holds(Put(f, u[s].key, x), u, w)
    BY <1>2, <1>3, HoldsPut
<1>5. Valued(w) \subseteq UsedSlots(u)
    BY <1>3 DEF Valued
<1>6. Items(d)' = ItemsOf(u, w)
    BY DEF Items, Free, ComesIn
<1> HIDE DEF w
<1>7. Holds(ItemsOf(u, w), u, w)
    BY <1>2, <1>5, ItemsHold
<1>8. ItemsOf(u, w) = Put(f, u[s].key, x)
    BY <1>4, <1>7, HoldsOne
<1> QED
    BY <1>6, <1>8

\* The keyset has the key already, perhaps from another dict.
LEMMA PushExistingKeySimulates ==
    ASSUME RInv, IInv', KeysetsGrow, ~Idle, call.item # NoItem, resize = NoResize,
           NEW s \in Lookup(Self, call.item.key), PushExistingKey(s),
           Table(Self)[s].key \in Keys,
           call.op = "setdefault" => dicts[Self].values[s] = NULL
    PROVE  Simulates
<1>1. PICK d \in Dicts : d = Self
    BY RunSeen
<1>2. PICK k \in Keys, x \in Values : call.item = [key |-> k, value |-> x]
    BY DEF RInv, IInv, ItemInv, CallItems
<1> DEFINE v == dicts[d].values
           new == SetValue(dicts[d], s, x)
<1>3. /\ dicts' = [dicts EXCEPT ![d] = new] /\ keysets' = keysets
      /\ ItemDone(call.spaceleft) /\ resize' = NoResize
    BY <1>1, <1>2 DEF PushExistingKey
<1>4. /\ new.keyset = dicts[d].keyset /\ new.kind = dicts[d].kind
      /\ new.values = [v EXCEPT ![s] = x]
    BY DEF SetValue, RInv, IInv, UsersInv, Shapes, FreeDict
<1> HIDE DEF new
<1>5. dicts'[d] = new /\ \A c \in Dicts \ {d} : dicts'[c] = dicts[c]
    BY <1>3 DEF RInv, IInv, UsersInv, Shapes
<1>6. ~Free(d) /\ ~Free(d)' /\ ValuesNow(d) = v /\ Table(d)' = Table(d)
    BY <1>1, <1>3, <1>4, <1>5, RunSeen DEF Free, Table, Resizing
<1>7. /\ k \in DOMAIN Now(d) <=> v[s] # NULL
      /\ Table(d)[s].key = k /\ s \in UsedSlots(Table(d))
  <2>1. s \in Lookup(d, k) /\ Table(d)[s].key \in Keys
      BY <1>1, <1>2
  <2> QED
      BY <1>6, <2>1, LookupItem DEF RInv
<1>8. /\ Holds(Now(d), Table(d), v) /\ DOMAIN v = DOMAIN Table(d)
      /\ Valued(v) \subseteq UsedSlots(Table(d)) /\ Grown(Table(d), Table(d)')
    BY <1>6, NowHolds, DictSound, GrownSame DEF RInv, LinedUp
<1>9. Items(d)' = Put(Now(d), k, x)
  <2>1. dicts'[d].values = [v EXCEPT ![s] = x]
      BY <1>4, <1>5
  <2>2. PICK u : u = Table(d)'
      OBVIOUS
  <2>3. s \in UsedSlots(u) /\ u[s].key = k /\ Grown(Table(d), u)
      BY <1>6, <1>7, <1>8, <2>2
  <2>4. ComesIn(d, u, v, s, x)
      BY <2>1, <2>2 DEF ComesIn
  <2> QED
      BY <1>6, <1>8, <2>3, <2>4, ItemsPut
<1>10. Pushed(d)
    BY <1>2, <1>3, <1>4, <1>5, <1>9 DEF Pushed
<1>11. call.op = "setdefault" => call.item.key \notin DOMAIN Now(d)
    BY <1>1, <1>2, <1>7
<1> QED
    BY <1>1, <1>10, <1>11, PushedSimulates

\* A key the keyset does not have is no key of the dict.
LEMMA NewKeyUnseen ==
    ASSUME RInv, ~Idle, call.item # NoItem, resize = NoResize,
           NEW s \in Lookup(Self, call.item.key), Table(Self)[s].key \notin Keys
    PROVE  call.item.key \notin DOMAIN Now(Self) /\ call.item.key \in Keys
<1>1. PICK d \in Dicts : d = Self
    BY RunSeen
<1>2. call.item.key \in Keys
    BY DEF RInv, IInv, ItemInv, CallItems
<1>3. s \in Lookup(d, call.item.key) /\ Table(d)[s].key \notin Keys /\ ~Free(d)
    BY <1>1, RunSeen
<1>4. call.item.key \notin DOMAIN Now(d)
    BY <1>2, <1>3, LookupItem DEF RInv
<1> QED
    BY <1>1, <1>2, <1>4

\* _ypDict_push_newkey when there is room.
NewKeyIn(s, n, used, left) ==
    /\ keysets' = [keysets EXCEPT ![n].table = PutKey(@, s, call.item.key),
                                  ![n].fill = @ + used]
    /\ dicts' = [dicts EXCEPT ![Self].values[s] = call.item.value,
                              ![Self].len = @ + 1]
    /\ ItemDone(left)
    /\ UNCHANGED resize

\* The keyset has room for a new key.
LEMMA NewKeySimulates ==
    ASSUME RInv, IInv', KeysetsGrow, ~Idle, call.item # NoItem, resize = NoResize,
           NEW s \in Lookup(Self, call.item.key), Table(Self)[s].key \notin Keys,
           NEW used, NEW left, NewKeyIn(s, dicts[Self].keyset, used, left)
    PROVE  Simulates
<1>n. PICK n : n = dicts[Self].keyset
    OBVIOUS
<1>0. /\ keysets' = [keysets EXCEPT ![n].table = PutKey(@, s, call.item.key),
                                    ![n].fill = @ + used]
      /\ dicts' = [dicts EXCEPT ![Self].values[s] = call.item.value,
                                ![Self].len = @ + 1]
      /\ ItemDone(left) /\ resize' = NoResize
    BY <1>n DEF NewKeyIn
<1>1. PICK d \in Dicts : d = Self
    BY RunSeen
<1>2. PICK k \in Keys, x \in Values : call.item = [key |-> k, value |-> x]
    BY DEF RInv, IInv, ItemInv, CallItems
<1>v. PICK v : v = dicts[d].values
    OBVIOUS
<1>t. PICK t : t = Table(d)
    OBVIOUS
<1>3. /\ dicts'[d].values = [v EXCEPT ![s] = x]
      /\ dicts'[d].keyset = dicts[d].keyset /\ dicts'[d].kind = dicts[d].kind
      /\ \A c \in Dicts \ {d} : dicts'[c] = dicts[c]
    BY <1>0, <1>1, <1>2, <1>v DEF RInv, IInv, UsersInv, Shapes, FreeDict
<1>4. ~Free(d) /\ ~Free(d)' /\ ValuesNow(d) = v /\ n \in Keysets
    BY <1>1, <1>3, <1>n, <1>v, RunSeen DEF Free, Resizing, RInv, IInv, UsersInv, DictsPlaced
<1>5. Table(d)' = PutKey(t, s, k)
  <2>1. keysets'[n].table = PutKey(keysets[n].table, s, k)
      BY <1>0, <1>2, <1>4 DEF RInv, IInv, UsersInv, Shapes, FreeKeyset
  <2> QED
      BY <1>1, <1>3, <1>n, <1>t, <2>1 DEF Table
<1>6. s \in DOMAIN t
  <2>1. s \in Lookup(d, k)
      BY <1>1, <1>2
  <2> QED
      BY <1>4, <1>t, <2>1, LookupInTable DEF RInv
<1>u. PICK u : u = Table(d)'
    OBVIOUS
<1>7. s \in UsedSlots(u) /\ u[s].key = k
    BY <1>5, <1>6, <1>u DEF UsedSlots, PutKey
<1>8. /\ Holds(Now(d), t, v) /\ DOMAIN v = DOMAIN t /\ Valued(v) \subseteq UsedSlots(t)
    BY <1>4, <1>t, NowHolds, DictSound DEF RInv, LinedUp
<1>9. Grown(t, u)
  <2>1. n \in Live /\ n \in Live'
      BY <1>1, <1>3, <1>4, <1>n, LiveRefs, LiveAfter DEF RInv, IInv
  <2> QED
      BY <1>1, <1>3, <1>4, <1>n, <1>t, <1>u, <2>1 DEF KeysetsGrow, Table
<1>10. Items(d)' = Put(Now(d), k, x)
  <2>1. /\ IInv' /\ d \in Dicts /\ ~Free(d)' /\ Holds(Now(d), t, v)
        /\ DOMAIN v = DOMAIN t /\ Valued(v) \subseteq UsedSlots(t)
        /\ Grown(t, u) /\ s \in UsedSlots(u) /\ x \in Values
      BY <1>4, <1>7, <1>8, <1>9
  <2>2. ComesIn(d, u, v, s, x)
      BY <1>3, <1>u DEF ComesIn
  <2>3. Items(d)' = Put(Now(d), u[s].key, x)
      BY ONLY <2>1, <2>2, ItemsPut
  <2> QED
      BY <1>7, <2>3
<1>11. Pushed(d)
  <2>1. resize' = NoResize /\ \E e : ItemDone(e)
      BY <1>0
  <2> QED
      BY ONLY <1>2, <1>3, <1>10, <2>1 DEF Pushed
<1>12. call.item.key \notin DOMAIN Now(d)
    BY <1>1, NewKeyUnseen
<1> QED
    BY <1>1, <1>11, <1>12, PushedSimulates

\* Where the key of an item to be moved goes.
LEMMA CleanSlotFree ==
    ASSUME IInv, Resizing, NEW k \in Keys,
           NEW t \in CleanSlot(keysets[resize.ks].table, keysets[resize.ks].alloclen, k)
    PROVE  /\ t \in DOMAIN keysets[resize.ks].table
           /\ keysets[resize.ks].table[t].key = NULL
           /\ t \notin Valued(dicts[Self].values) /\ t \in DOMAIN dicts[Self].values
<1> DEFINE ks == keysets[resize.ks]
<1>1. /\ KeysetSound(ks) /\ TableSound(ks.table, ks.alloclen) /\ ks.alloclen \in AllocLens
    BY ResizeState
<1>2. ks.table \in [0 .. ks.alloclen - 1 -> Entry]
    BY <1>1 DEF TableSound
<1> HIDE DEF ks
<1>3. \E s \in 0 .. ks.alloclen - 1 : ks.table[s].key = NULL
    BY <1>1, <1>2, NullSlotExists DEF KeysetSound
<1>4. t \in 0 .. ks.alloclen - 1 /\ ks.table[t].key = NULL
    BY <1>1, <1>2, <1>3, CleanSlotFinds DEF ks
<1>5. LinedUp(dicts[Self].values, dicts[Self].len - resize.left, ks.table)
    BY DEF IInv, ResizeInv, ks
<1> QED
    BY <1>2, <1>4, <1>5, TableConstants DEF LinedUp, UsedSlots, ks

\* Once all is moved the new values hold the items.
LEMMA MovedHolds ==
    ASSUME IInv, MovedInv, Resizing, resize.left = 0
    PROVE  Holds(Now(Self), keysets[resize.ks].table, dicts[Self].values)
<1> DEFINE f == Now(Self)
           t == Table(Self)
           u == keysets[resize.ks].table
           v == resize.values
           w == dicts[Self].values
<1>1. Holds(f, t, v)
    BY ResizeState, NowHolds DEF ValuesNow
<1>2. ToMove = {}
  <2>1. AllocLen(Self) \in AllocLens /\ TableSound(t, AllocLen(Self))
      BY ResizeState
  <2>2. /\ LinedUp(v, dicts[Self].len, t) /\ Cardinality(ToMove) = 0
      BY DEF IInv, ResizeInv
  <2>3. IsFiniteSet(Valued(v))
      BY <2>1, <2>2, LinedFinite
  <2>4. IsFiniteSet(ToMove)
      BY <2>3, FS_Subset DEF ToMove
  <2> QED
      BY <2>2, <2>4, FS_EmptySet
<1>3. /\ \A r \in Valued(v) : \E s \in Valued(w) : u[s].key = t[r].key
      /\ \A s \in Valued(w) : \E r \in Valued(v) : u[s].key = t[r].key /\ w[s] = v[r]
    BY <1>2 DEF MovedInv, Carried
<1> HIDE DEF f, t, u, v, w
<1>4. {t[r].key : r \in Valued(v)} = {u[s].key : s \in Valued(w)}
    BY <1>3
<1>5. ASSUME NEW s \in Valued(w) PROVE f[u[s].key] = w[s]
    BY <1>1, <1>3 DEF Holds
<1> QED
    BY <1>1, <1>4, <1>5 DEF Holds, f, u, w

\* The old keyset is released, and the item that had no room goes in.
LEMMA ResizeDoneSimulates ==
    ASSUME RInv, IInv', KeysetsGrow, ResizeDone
    PROVE  Simulates
<1>1. /\ Resizing /\ resize.left = 0 /\ resize' = NoResize /\ ~Idle
      /\ call.item # NoItem
    BY DEF ResizeDone, Resizing, RInv, IInv, UsersInv, ResizePlaced
<1>2. PICK d \in Dicts : d = Self
    BY <1>1, RunSeen
<1>3. PICK k \in Keys, x \in Values : call.item = [key |-> k, value |-> x]
    BY <1>1 DEF RInv, IInv, ItemInv, CallItems
<1>4. PICK n : n = resize.ks
    OBVIOUS
<1>v. PICK v : v = dicts[d].values
    OBVIOUS
<1>t. PICK t : t = keysets[n].table
    OBVIOUS
<1>5. PICK s \in CleanSlot(keysets[resize.ks].table, keysets[resize.ks].alloclen,
                       call.item.key) :
          /\ keysets' = [Release(keysets, dicts[Self].keyset) EXCEPT
                 ![resize.ks].table = PutKey(@, s, call.item.key),
                 ![resize.ks].fill = @ + 1]
          /\ dicts' = [dicts EXCEPT ![Self].keyset = resize.ks,
                 ![Self].values[s] = call.item.value, ![Self].len = @ + 1]
          /\ ItemDone(Space(keysets[resize.ks].alloclen, keysets[resize.ks].fill + 1))
    BY DEF ResizeDone
<1>6. /\ n \in Live /\ n \in Keysets /\ dicts[d].keyset # n /\ ~Free(d)
      /\ dicts[d].keyset \in Keysets /\ keysets[dicts[d].keyset].refs # 0
    BY <1>1, <1>2, <1>4, ResizeState, LiveRefs DEF RInv, IInv, Live
<1>7. /\ dicts'[d].values = [v EXCEPT ![s] = x]
      /\ dicts'[d].keyset = n /\ dicts'[d].kind = dicts[d].kind
      /\ \A c \in Dicts \ {d} : dicts'[c] = dicts[c]
    BY <1>2, <1>3, <1>4, <1>5, <1>v DEF RInv, IInv, UsersInv, Shapes, FreeDict
<1>8. keysets'[n].table = PutKey(t, s, k)
  <2> DEFINE released == Release(keysets, dicts[Self].keyset)
  <2>1. released[n] = keysets[n]
      BY <1>2, <1>6 DEF Release, RInv, IInv, UsersInv, Shapes
  <2>2. DOMAIN released = Keysets /\ DOMAIN released[n] = DOMAIN FreeKeyset
      BY <1>2, <1>6, <2>1, ReleasedRefs DEF RInv, IInv
  <2>3. keysets' = [released EXCEPT ![resize.ks].table = PutKey(@, s, call.item.key),
                                    ![resize.ks].fill = @ + 1]
      BY <1>5
  <2> HIDE DEF released
  <2> QED
      BY <1>3, <1>4, <1>6, <1>t, <2>1, <2>2, <2>3 DEF FreeKeyset
<1>u. PICK u : u = Table(d)'
    OBVIOUS
<1>9. /\ s \in DOMAIN t /\ DOMAIN v = DOMAIN t /\ Valued(v) \subseteq UsedSlots(t)
  <2>1. s \in CleanSlot(keysets[resize.ks].table, keysets[resize.ks].alloclen, k)
      BY <1>3, <1>5
  <2>2. LinedUp(dicts[Self].values, dicts[Self].len - resize.left,
                keysets[resize.ks].table)
      BY <1>1 DEF RInv, IInv, ResizeInv
  <2> QED
      BY <1>1, <1>2, <1>4, <1>t, <1>v, <2>1, <2>2, CleanSlotFree DEF RInv, LinedUp
<1>10. u = PutKey(t, s, k) /\ s \in UsedSlots(u) /\ u[s].key = k
  <2>1. u = PutKey(t, s, k)
      BY <1>7, <1>8, <1>u DEF Table
  <2> QED
      BY <1>9, <2>1 DEF UsedSlots, PutKey
<1>11. Grown(t, u) /\ ~Free(d)'
  <2>1. ~Free(d)'
      BY <1>6, <1>7 DEF Free
  <2>2. n \in Live'
      BY <1>7, <2>1, LiveAfter DEF IInv
  <2> QED
      BY <1>6, <1>7, <1>t, <1>u, <2>1, <2>2 DEF KeysetsGrow, Table
<1>12. Holds(Now(d), t, v)
    BY <1>1, <1>2, <1>4, <1>t, <1>v, MovedHolds DEF RInv
<1>13. Items(d)' = Put(Now(d), k, x)
  <2>1. ComesIn(d, u, v, s, x)
      BY <1>7, <1>u DEF ComesIn
  <2> QED
      BY <1>9, <1>10, <1>11, <1>12, <2>1, ItemsPut
<1>14. Pushed(d)
  <2>1. \E left : ItemDone(left)
      BY <1>5
  <2> QED
      BY ONLY <1>1, <1>3, <1>7, <1>13, <2>1 DEF Pushed
<1>15. k \notin DOMAIN Now(d)
  <2>1. k \notin KeysIn(t)
      BY <1>1, <1>3, <1>4, <1>t DEF RInv, IInv, ResizeInv
  <2> QED
      BY <1>9, <1>12, <2>1 DEF Holds, KeysIn
<1> QED
    BY <1>1, <1>2, <1>3, <1>14, <1>15, PushedSimulates

\* What the caller sees of a dict, in a form that can be used after a step.
SeenFacts ==
    \A d \in Dicts :
        ItemsSeen(d) = IF Free(d) THEN NoItems
                       ELSE IF d = Self /\ call.op = "update" THEN call.before
                       ELSE Now(d)

\* In every state that is so.
LEMMA SeenNow == IInv /\ MovedInv => SeenFacts
BY SeenIs DEF SeenFacts

\* The same after a step.
LEMMA SeenNowAfter == IInv' /\ MovedInv' => SeenFacts'
BY SeenNow, PTL

\* A step of a call that changes no items.
Unseen(d) ==
    /\ MovedInv' /\ UNCHANGED <<call, ret>>
    /\ \A c \in Dicts \ {d} : dicts'[c] = dicts[c]
    /\ dicts'[d].kind = dicts[d].kind
    /\ Now(d)' = Now(d)

\* Nobody sees such a step.
LEMMA UnseenSimulates ==
    ASSUME RInv, IInv', KeysetsGrow, ~Idle, NEW d \in Dicts, d = Self, Unseen(d)
    PROVE  Simulates
<1>1. /\ ~Free(d) /\ ~Free(d)' /\ Self' = d /\ ~Idle'
      /\ \A e \in Dicts : Free(e)' <=> Free(e)
    BY RunSeen DEF Free, Unseen, Self, Idle
<1>2. StepSaw(d)
  <2>1. SelfSteps(d)
      BY DEF SelfSteps, Unseen, Self
  <2> QED
      BY <2>1, StepSees DEF RInv
<1>3. ItemsSeen(d)' = SeenItems[d]
  <2>1. ItemsSeen(d)' = IF call'.op = "update" THEN call'.before ELSE Now(d)'
      BY <1>1, SeenNowAfter DEF SeenFacts, Unseen
  <2> QED
      BY <2>1, RunSeen DEF Unseen
<1>4. SeenItems' = SeenItems /\ SeenKinds' = SeenKinds
  <2>1. SeenItems' = SeenItems
      BY <1>2, <1>3 DEF StepSaw, SeenItems
  <2>2. SeenKinds' = SeenKinds
      BY <1>2 DEF StepSaw, SeenKinds, Unseen
  <2> QED
      BY <2>1, <2>2
<1>5. CASE call.op # "update"
  <2>1. UpdateInv'
      BY <1>5 DEF UpdateInv, Unseen
  <2>2. CallSeen' = CallSeen
      BY <1>1, <1>5 DEF CallSeen, Unseen
  <2> QED
      BY <1>4, <2>1, <2>2 DEF Simulates, Abstract!vars, SeenItems, SeenKinds, Unseen
<1>6. CASE call.op = "update"
  <2>1. PICK o \in Dicts : o = call.other
      BY <1>6, RunSeen
  <2>2. /\ call'.op = "update" /\ call'.other = o /\ call'.item = call.item
        /\ call'.scan = call.scan /\ call'.hint = call.hint
        /\ call'.before = call.before
      BY <1>6, <2>1 DEF Unseen
  <2>3. /\ o # d /\ ~Free(o) /\ Items(o) = Now(o) /\ ValuesNow(o) = OtherValues
        /\ CallSeen = [op |-> "update", self |-> d, arg |-> Items(o)]
      BY <1>6, <2>1, RunSeen
  <2>4. dicts'[o] = dicts[o] /\ ~(Resizing /\ o = Self) /\ ~(Resizing /\ o = Self)'
      BY <1>1, <2>3 DEF Unseen
  <2>5. /\ Items(o)' = Now(o)
        /\ \A s \in Valued(OtherValues) : Table(o)'[s] = Table(o)[s]
      BY <2>1, <2>3, <2>4, ItemsKept DEF RInv, OtherValues
  <2>6. CallSeen' = CallSeen
    <3>1. Items(call.other)' = Items(o)
        BY <2>2, <2>3, <2>5 DEF Items, Free, Table
    <3> QED
        BY <1>1, <2>2, <2>3, <3>1 DEF CallSeen
  <2>7. /\ Now(call.other)' = Now(o) /\ Table(call.other)' = Table(o)'
        /\ OtherValues' = OtherValues
    <3>1. Now(call.other)' = Items(o)'
        BY <1>1, <2>2, <2>3, <2>4 DEF Now, Items, ValuesNow, Free, Table
    <3> QED
        BY <2>1, <2>2, <2>4, <2>5, <3>1 DEF OtherValues, Table
  <2>8. Rest' = Rest
      BY <2>2, <2>7 DEF Rest
  <2>9. Passed' = Passed
      BY <2>1, <2>5, <2>7, <2>8 DEF Passed
  <2>10. /\ call.scan \in Nat /\ call.hint = Cardinality(Rest)
         /\ call.before = [j \in DOMAIN call.before |-> call.before[j]]
         /\ Now(d) = Over(call.before, Part(Now(o), Passed \ {call.item.key}))
         /\ call.item # NoItem =>
               \E s \in Valued(OtherValues) \ Rest :
                  call.item = [key |-> Table(o)[s].key, value |-> OtherValues[s]]
      BY <1>6, <2>1 DEF RInv, UpdateInv
  <2>11. Now(Self)' = Now(d)
      BY <1>1 DEF Now, Table, ValuesNow, Unseen
  <2>12. Now(Self)' = Over(call'.before,
                           Part(Now(call.other)', Passed' \ {call'.item.key}))
      BY <2>2, <2>7, <2>9, <2>10, <2>11
  <2>13. call'.item # NoItem =>
            \E s \in Valued(OtherValues)' \ Rest' :
               call'.item = [key |-> Table(call.other)'[s].key,
                             value |-> OtherValues'[s]]
      BY <2>2, <2>5, <2>7, <2>8, <2>10
  <2>14. UpdateInv'
      BY <1>1, <2>2, <2>3, <2>8, <2>10, <2>12, <2>13 DEF UpdateInv
  <2> QED
      BY <1>4, <2>6, <2>14 DEF Simulates, Abstract!vars, SeenItems, SeenKinds, Unseen
<1> QED
    BY <1>5, <1>6

\* A resize begins: nothing is moved, and nothing is lost.
LEMMA BeginResizeSimulates ==
    ASSUME RInv, IInv', KeysetsGrow, ~Idle, call.item # NoItem, resize = NoResize,
           NEW m, BeginResize(Self, m), UNCHANGED <<call, ret>>
    PROVE  Simulates
<1>1. PICK d \in Dicts : d = Self
    BY RunSeen
<1>2. PICK n : n = FreshKeyset
    OBVIOUS
<1> DEFINE size == CalcAllocLen(m)
           inline == size <= InlineLen /\ ~dicts[Self].inline
<1>3. /\ keysets' = [keysets EXCEPT ![n] = NewKeyset(size)]
      /\ resize' = [ks |-> n, values |-> dicts[Self].values,
                    scan |-> 0, left |-> dicts[Self].len]
      /\ dicts' = [dicts EXCEPT
            ![Self].values = NoValues(size), ![Self].inline = inline,
            ![Self].finger = IF inline THEN InlineLen ELSE size]
    BY <1>2 DEF BeginResize
<1> HIDE DEF size, inline
<1>4. /\ \A c \in Dicts \ {d} : dicts'[c] = dicts[c]
      /\ dicts'[d].keyset = dicts[d].keyset /\ dicts'[d].kind = dicts[d].kind
      /\ dicts'[d].values = NoValues(size)
    BY <1>1, <1>3 DEF RInv, IInv, UsersInv, Shapes, FreeDict
<1>5. ~Free(d) /\ ValuesNow(d) = dicts[d].values
    BY <1>1, RunSeen DEF Resizing
<1>f. n \in Keysets /\ keysets[n].refs = 0
  <2>1. resize.ks = NULL
      BY DEF NoResize
  <2> QED
      BY <1>2, <2>1, FreshExists DEF RInv, IInv, UsersInv
<1>6. Self' = d /\ Resizing' /\ resize'.values = dicts[d].values /\ resize'.scan = 0
  <2>1. resize'.ks = n /\ NoResize.ks = NULL
      BY <1>3 DEF NoResize
  <2> QED
      BY <1>1, <1>3, <1>f, <2>1, DictConstants DEF Self, Resizing
<1>7. Table(d)' = Table(d)
  <2>1. dicts[d].keyset \in Live
      BY <1>5, LiveRefs DEF RInv, IInv
  <2>2. dicts[d].keyset # n /\ dicts[d].keyset \in Keysets
      BY <1>f, <2>1 DEF Live
  <2> QED
      BY <1>3, <1>4, <2>2 DEF Table, RInv, IInv, UsersInv, Shapes
<1>8. Now(d)' = Now(d)
    BY <1>5, <1>6, <1>7 DEF Now, ValuesNow
<1>9. MovedInv'
  <2>1. Valued(dicts[d].values) \subseteq Nat
    <3>1. /\ LinedUp(dicts[d].values, dicts[d].len, Table(d))
          /\ TableSound(Table(d), AllocLen(d)) /\ AllocLen(d) \in AllocLens
        BY <1>5, DictSound DEF RInv
    <3>2. DOMAIN Table(d) = 0 .. AllocLen(d) - 1 /\ AllocLen(d) \in Nat
        BY <3>1, TableConstants DEF TableSound
    <3> QED
        BY <3>1, <3>2 DEF LinedUp, UsedSlots
  <2>2. Valued(resize'.values) \ ToMove' = {}
      BY <1>6, <2>1 DEF ToMove
  <2>3. Valued(dicts'[Self'].values) = {}
      BY <1>4, <1>6 DEF Valued, NoValues
  <2> QED
      BY <2>2, <2>3 DEF MovedInv
<1>10. Unseen(d)
    BY ONLY <1>4, <1>8, <1>9, UNCHANGED <<call, ret>> DEF Unseen
<1> QED
    BY <1>1, <1>10, UnseenSimulates

\* An item moves to the new keyset, with its value.
LEMMA ResizeMoveSimulates ==
    ASSUME RInv, IInv', KeysetsGrow, ResizeMove
    PROVE  Simulates
<1>1. /\ Resizing /\ resize.left > 0 /\ ~Idle /\ UNCHANGED <<call, ret>>
      /\ DOMAIN resize = DOMAIN NoResize
    BY DEF ResizeMove, Resizing, NoResize, RInv, IInv, UsersInv, ResizePlaced, ResizeInv
<1>2. PICK d \in Dicts : d = Self
    BY <1>1, RunSeen
<1>3. PICK n : n = resize.ks
    OBVIOUS
<1>v. PICK v : v = resize.values
    OBVIOUS
<1>w. PICK w : w = dicts[d].values
    OBVIOUS
<1>4. PICK s \in Valued(resize.values) :
          /\ s >= resize.scan
          /\ \A r \in Valued(resize.values) : r >= resize.scan => s <= r
          /\ \E t \in CleanSlot(keysets[resize.ks].table,
                          keysets[resize.ks].alloclen, Table(Self)[s].key) :
                /\ keysets' = [keysets EXCEPT
                      ![resize.ks].table = [@ EXCEPT ![t] = Table(Self)[s]],
                      ![resize.ks].fill = @ + 1]
                /\ dicts' = [dicts EXCEPT
                      ![Self].values[t] = resize.values[s]]
          /\ resize' = [resize EXCEPT !.scan = s + 1, !.left = @ - 1]
    BY DEF ResizeMove
<1>5. PICK t \in CleanSlot(keysets[resize.ks].table,
                          keysets[resize.ks].alloclen, Table(Self)[s].key) :
          /\ keysets' = [keysets EXCEPT
                ![resize.ks].table = [@ EXCEPT ![t] = Table(Self)[s]],
                ![resize.ks].fill = @ + 1]
          /\ dicts' = [dicts EXCEPT ![Self].values[t] = resize.values[s]]
    BY <1>4
<1>6. /\ dicts'[d].values = [w EXCEPT ![t] = v[s]]
      /\ dicts'[d].keyset = dicts[d].keyset /\ dicts'[d].kind = dicts[d].kind
      /\ \A c \in Dicts \ {d} : dicts'[c] = dicts[c]
    BY <1>2, <1>5, <1>v, <1>w DEF RInv, IInv, UsersInv, Shapes, FreeDict
<1>7. /\ resize'.ks = n /\ resize'.values = v /\ resize'.scan = s + 1
      /\ Self' = d
    BY <1>1, <1>2, <1>3, <1>4, <1>v DEF NoResize, Self
<1>8. /\ n \in Keysets /\ dicts[d].keyset # n /\ ~Free(d)
    BY <1>1, <1>2, <1>3, ResizeState DEF RInv, Live
<1>9. keysets'[n].table = [keysets[n].table EXCEPT ![t] = Table(d)[s]]
    BY <1>2, <1>3, <1>5, <1>8 DEF RInv, IInv, UsersInv, Shapes, FreeKeyset
<1>10. Table(d)' = Table(d) /\ Resizing'
  <2>1. \A c \in Keysets \ {n} : keysets'[c] = keysets[c]
      BY <1>3, <1>5 DEF RInv, IInv, UsersInv, Shapes
  <2>2. dicts[d].keyset \in Keysets
      BY <1>8 DEF RInv, IInv, UsersInv, DictsPlaced
  <2> QED
      BY <1>6, <1>7, <1>8, <2>1, <2>2, DictConstants DEF Table, Resizing, NoResize
<1>11. /\ s \in UsedSlots(Table(d)) /\ Valued(v) \subseteq Nat /\ s \in Valued(v)
       /\ Table(d)[s].key \in Keys /\ resize.scan \in Nat
  <2>1. /\ LinedUp(resize.values, dicts[Self].len, Table(Self)) /\ resize.scan \in Nat
        /\ TableSound(Table(Self), AllocLen(Self)) /\ AllocLen(Self) \in AllocLens
      BY <1>1, ResizeState DEF RInv, IInv, ResizeInv
  <2>2. DOMAIN Table(Self) = 0 .. AllocLen(Self) - 1 /\ AllocLen(Self) \in Nat
      BY <2>1, TableConstants DEF TableSound
  <2> QED
      BY <1>2, <1>4, <1>v, <2>1, <2>2 DEF LinedUp, UsedSlots
<1>12. /\ t \in DOMAIN keysets[n].table /\ t \notin Valued(w) /\ t \in DOMAIN w
  <2>1. Table(Self)[s].key \in Keys
      BY <1>2, <1>11
  <2> QED
      BY <1>1, <1>2, <1>3, <1>w, <2>1, CleanSlotFree DEF RInv
<1>13. Valued(v) \ ToMove' = (Valued(v) \ ToMove) \cup {s}
  <2>1. ToMove = {r \in Valued(v) : r >= resize.scan}
      BY <1>v DEF ToMove
  <2>2. ToMove' = {r \in Valued(v) : r >= s + 1}
      BY <1>7 DEF ToMove
  <2>3. s >= resize.scan /\ \A r \in Valued(v) : r >= resize.scan => s <= r
      BY <1>4, <1>v
  <2> QED
      BY <1>11, <2>1, <2>2, <2>3
<1>14. Valued(dicts'[d].values) = Valued(w) \cup {t}
  <2>1. v[s] # NULL
      BY <1>11 DEF Valued
  <2> QED
      BY <1>6, <1>12, <2>1 DEF Valued
<1>15. Carried(s, t)'
    BY <1>6, <1>7, <1>9, <1>10, <1>12 DEF Carried
<1>16. ASSUME NEW r \in Valued(v), NEW q \in Valued(w), Carried(r, q)
       PROVE  Carried(r, q)' /\ q \in Valued(dicts'[d].values)
  <2>1. keysets[n].table[q].key = Table(d)[r].key /\ w[q] = v[r] /\ q # t
      BY <1>2, <1>3, <1>v, <1>w, <1>12, <1>16 DEF Carried
  <2>2. keysets'[n].table[q] = keysets[n].table[q] /\ dicts'[d].values[q] = w[q]
      BY <1>6, <1>9, <2>1 DEF Valued
  <2> QED
      BY <1>7, <1>10, <1>14, <2>1, <2>2 DEF Carried
<1>17. /\ \A r \in Valued(v) \ ToMove : \E q \in Valued(w) : Carried(r, q)
       /\ \A q \in Valued(w) : \E r \in Valued(v) : Carried(r, q)
    BY <1>1, <1>2, <1>v, <1>w DEF RInv, MovedInv
<1>18. MovedInv'
  <2>1. ASSUME NEW r \in Valued(v) \ ToMove'
        PROVE  \E q \in Valued(dicts'[d].values) : Carried(r, q)'
    <3>1. CASE r = s
        BY <1>14, <1>15, <3>1
    <3>2. CASE r \in Valued(v) \ ToMove
        BY <1>16, <1>17, <3>2
    <3> QED
        BY <1>13, <3>1, <3>2
  <2>2. ASSUME NEW q \in Valued(dicts'[d].values)
        PROVE  \E r \in Valued(v) : Carried(r, q)'
    <3>1. CASE q = t
        BY <1>11, <1>15, <3>1
    <3>2. CASE q \in Valued(w)
        BY <1>16, <1>17, <3>2
    <3> QED
        BY <1>14, <3>1, <3>2
  <2> QED
      BY <1>7, <2>1, <2>2 DEF MovedInv
<1>19. Now(d)' = Now(d)
    BY <1>1, <1>2, <1>v, <1>7, <1>10 DEF Now, ValuesNow
<1>20. Unseen(d)
    BY ONLY <1>1, <1>6, <1>18, <1>19 DEF Unseen
<1> QED
    BY <1>1, <1>2, <1>20, UnseenSimulates

\* The item of a call is pushed.
LEMMA PushItemSimulates ==
    ASSUME RInv, IInv', KeysetsGrow, PushItem
    PROVE  Simulates
<1>1. ~Idle /\ Pushing /\ call.item # NoItem /\ resize = NoResize
    BY DEF PushItem, Pushing, RInv, IInv, UsersInv, CallPlaced, NoCall
<1>2. PICK s \in Lookup(Self, call.item.key) :
          \/ KeepValue(s)
          \/ /\ Table(Self)[s].key \in Keys
             /\ call.op = "setdefault" => dicts[Self].values[s] = NULL
             /\ PushExistingKey(s)
          \/ Table(Self)[s].key \notin Keys /\ PushNewKey(s)
    BY DEF PushItem
<1>3. CASE KeepValue(s)
    BY <1>1, <1>3, KeepValueSimulates
<1>4. CASE /\ Table(Self)[s].key \in Keys
           /\ call.op = "setdefault" => dicts[Self].values[s] = NULL
           /\ PushExistingKey(s)
    BY <1>1, <1>4, PushExistingKeySimulates
<1>5. CASE Table(Self)[s].key \notin Keys /\ PushNewKey(s)
  <2>1. CASE GiveUp("MemorySizeOverflowError") \/ GiveUp("MemoryError")
    <3>1. call.item.key \notin DOMAIN Now(Self)
        BY <1>1, <1>5, NewKeyUnseen
    <3> QED
        BY <1>1, <2>1, <3>1, GiveUpSimulates
  <2>2. CASE \E m : BeginResize(Self, m) /\ UNCHANGED <<call, ret>>
      BY <1>1, <2>2, BeginResizeSimulates
  <2>3. CASE \E used, left : NewKeyIn(s, dicts[Self].keyset, used, left)
      BY <1>1, <1>5, <2>3, NewKeySimulates
  <2>4. PushNewKey(s) <=>
          LET n    == dicts[Self].keyset
              slot == keysets[n].table[s]
              used == IF slot.key = NULL THEN 1 ELSE 0
          IN  \/ /\ call.spaceleft > 0 \/ slot.key = Dummy
                 /\ NewKeyIn(s, n, used, call.spaceleft - used)
              \/ /\ call.spaceleft <= 0 /\ slot.key # Dummy
                 /\ \/ dicts[Self].len > SetLenMax - 1 /\ GiveUp("MemorySizeOverflowError")
                    \/ dicts[Self].len <= SetLenMax - 1 /\ GiveUp("MemoryError")
                    \/ /\ dicts[Self].len <= SetLenMax - 1
                       /\ BeginResize(Self, GrowTo(dicts[Self].len,
                                        IF call.op \in OneItemOps THEN 0 ELSE call.hint))
                       /\ UNCHANGED <<call, ret>>
      BY DEF PushNewKey, NewKeyIn
  <2> QED
      BY <1>5, <2>1, <2>2, <2>3, <2>4
<1> QED
    BY <1>2, <1>3, <1>4, <1>5

\* Nothing happens.
LEMMA StutterSimulates ==
    ASSUME RInv, UNCHANGED vars
    PROVE  Simulates
<1>1. UNCHANGED <<dicts, keysets, call, resize, ret>>
    BY DEF vars
<1>2. \A d \in Dicts : Items(d)' = Items(d) /\ ItemsSeen(d)' = ItemsSeen(d)
    BY <1>1 DEF ItemsSeen, Items, Free, Table, Self, Resizing
<1>3. SeenItems' = SeenItems /\ SeenKinds' = SeenKinds /\ CallSeen' = CallSeen
    BY <1>1, <1>2 DEF SeenItems, SeenKinds, CallSeen, Idle, Self, Items, Free, Table
<1>4. MovedInv'
    BY <1>1 DEF RInv, MovedInv, Resizing, ToMove, Carried, Self, Table
<1>5. UpdateInv'
  <2>1. /\ Rest' = Rest /\ OtherValues' = OtherValues /\ Passed' = Passed
        /\ Now(Self)' = Now(Self) /\ Now(call.other)' = Now(call.other)
        /\ Table(call.other)' = Table(call.other) /\ Self' = Self
      BY <1>1 DEF Rest, OtherValues, Passed, Table, Now, ValuesNow, Resizing, Self
  <2> QED
      BY <1>1, <2>1 DEF RInv, UpdateInv
<1> QED
    BY <1>1, <1>3, <1>4, <1>5 DEF Simulates, Abstract!vars, SeenItems, SeenKinds

\* Every step of a dict is a step of DictSpec, or none.
LEMMA NextSimulates ==
    ASSUME RInv, [Next]_vars
    PROVE  IInv' /\ Simulates
<1>0. IInv /\ IInv' /\ KeysetsGrow
    BY NextTables DEF RInv
<1>1. CASE UNCHANGED vars
    BY <1>0, <1>1, StutterSimulates
<1>2. ASSUME NEW d \in Dicts,
             New(d) \/ Freeze(d) \/ Dealloc(d) \/ Clear(d) \/ PopItem(d)
      PROVE  Simulates
  <2>1. CASE New(d) \/ Freeze(d)
      BY <1>0, <2>1, NewSimulates, FreezeSimulates
  <2>2. CASE Dealloc(d) \/ Clear(d)
      BY <1>0, <2>2, DeallocSimulates, ClearSimulates
  <2>3. CASE PopItem(d)
      BY <1>0, <2>3, PopItemSimulates
  <2> QED
      BY <1>2, <2>1, <2>2, <2>3
<1>3. ASSUME NEW d \in Dicts, NEW k \in Keys,
             GetItem(d, k) \/ PopValue(d, k) \/ DelItem(d, k)
      PROVE  Simulates
    BY <1>0, <1>3, GetItemSimulates, RemoveSimulates
<1>4. ASSUME NEW d \in Dicts, NEW o \in Dicts,
             \/ CopyEmpty(d, o) \/ BeginUpdate(d, o)
             \/ \E type \in {"dict", "frozendict"} : Copy(d, o, type)
      PROVE  Simulates
    BY <1>0, <1>4, NewSimulates, CopySimulates, BeginUpdateSimulates DEF CopyEmpty
<1>5. ASSUME NEW d \in Dicts,
             \/ \E k \in Keys, v \in Values : BeginSetItem(d, k, v) \/ BeginSetDefault(d, k, v)
             \/ \E h \in Hints : BeginUpdateIter(d, h) \/ BeginUpdateK(d, h)
      PROVE  Simulates
    BY <1>0, <1>5, BeginSimulates
<1>6. ASSUME NEW d \in Dicts,
             \E h \in Hints, type \in {"dict", "frozendict"} : BeginDictK(d, type, h)
      PROVE  Simulates
    BY <1>0, <1>6, BeginDictKSimulates
<1>7. CASE Step
  <2>1. CASE \E k \in Keys, v \in Values : NextItem(k, v)
      BY <1>0, <2>1, NextItemSimulates
  <2>2. CASE NextOfOther \/ EndOfItems \/ ItemRaises
      BY <1>0, <2>2, NextOfOtherSimulates, EndOfItemsSimulates, ItemRaisesSimulates
  <2>3. CASE PushItem
      BY <1>0, <2>3, PushItemSimulates
  <2>4. CASE ResizeMove \/ ResizeDone
      BY <1>0, <2>4, ResizeMoveSimulates, ResizeDoneSimulates
  <2> QED
      BY <1>7, <2>1, <2>2, <2>3, <2>4 DEF Step
<1>8. CASE Call
  <2>1. PICK d \in Dicts :
            \/ New(d) \/ Freeze(d) \/ Dealloc(d) \/ PopItem(d) \/ Clear(d)
            \/ \E o \in Dicts :
                  \/ CopyEmpty(d, o) \/ BeginUpdate(d, o)
                  \/ \E type \in {"dict", "frozendict"} : Copy(d, o, type)
            \/ \E k \in Keys :
                  \/ GetItem(d, k) \/ PopValue(d, k) \/ DelItem(d, k)
                  \/ \E v \in Values : BeginSetItem(d, k, v) \/ BeginSetDefault(d, k, v)
            \/ \E h \in Hints :
                  \/ BeginUpdateIter(d, h) \/ BeginUpdateK(d, h)
                  \/ \E type \in {"dict", "frozendict"} : BeginDictK(d, type, h)
      BY <1>8 DEF Call
  <2> QED
      BY <1>0, <1>2, <1>3, <1>4, <1>5, <1>6, <2>1, Zenon
<1>9. CASE LookupRaises
    BY <1>0, <1>9, FailsSimulates DEF LookupRaises, RInv
<1>10. CASE PushRaises
    BY <1>0, <1>10, PushRaisesSimulates
<1>11. UNCHANGED vars \/ Step \/ Call \/ LookupRaises \/ PushRaises
    BY DEF Next
<1> QED
    BY <1>0, <1>1, <1>7, <1>8, <1>9, <1>10, <1>11

\* At first there are no dicts, here and in DictSpec.
LEMMA InitSimulates == Init => RInv /\ Abstract!Init
<1> SUFFICES ASSUME Init PROVE RInv /\ Abstract!Init
    OBVIOUS
<1>1. IInv /\ Idle /\ ret = None
    BY InitTables DEF Init, Idle, NoCall
<1>2. /\ MovedInv /\ UpdateInv /\ SeenItems = [d \in Dicts |-> Items(d)]
      /\ CallSeen = Abstract!NoCall
    BY <1>1, IdleSeen DEF IdleFacts
<1>3. \A d \in Dicts : Items(d) = NoItems /\ dicts[d].kind = "free"
    BY DEF Init, Items, Free, FreeDict
<1>4. /\ SeenItems = [d \in Dicts |-> Abstract!NoItems]
      /\ SeenKinds = [d \in Dicts |-> "free"]
    BY <1>2, <1>3 DEF SeenKinds, NoItems, Abstract!NoItems
<1>5. Abstract!Init
    BY <1>1, <1>2, <1>4 DEF Abstract!Init, SeenItems, SeenKinds, None, Abstract!None
<1> QED
    BY <1>1, <1>2, <1>5 DEF RInv

\* To their callers dicts are maps of their own, whoever shares their keysets
\* and whatever fails: every behaviour of _ypDict_push, _ypDict_resize,
\* _ypDict_copy and the other methods is one of DictSpec.
THEOREM DictRefinement == Spec => ImplementsDictSpec
<1>1. Init => RInv /\ Abstract!Init
    BY InitSimulates
<1>2. RInv /\ [Next]_vars => RInv' /\ [Abstract!Next]_(Abstract!vars)
    BY NextSimulates DEF RInv, Simulates
<1> QED
    BY <1>1, <1>2, PTL DEF Spec, ImplementsDictSpec, Abstract!Spec
=============================================================================
