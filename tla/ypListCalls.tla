----------------------------- MODULE ypListCalls -----------------------------
(***************************************************************************)
(* ypList with what its user sees of each step: the call that was made,    *)
(* with its arguments, next to what it returned.                           *)
(***************************************************************************)
EXTENDS ypList

VARIABLE call       \* the last call or step, with its arguments
cvars == <<vars, call>>

CInit == Init /\ call = <<"none">>

CChange ==
    \/ \E x \in Items :
          \/ Append1(x) /\ call' = <<"append", x>>
          \/ Remove1(x) /\ call' = <<"remove", x>>
          \/ \E i \in Indices : \/ Insert(i, x) /\ call' = <<"insert", i, x>>
                                \/ SetIndex(i, x) /\ call' = <<"setindex", i, x>>
    \/ \E i \in Indices : \/ PopIndex(i) /\ call' = <<"popindex", i>>
                          \/ DelIndex(i) /\ call' = <<"delindex", i>>
    \/ \E x \in Args \cup {Self} :
          \/ ExtendFromTuple(x) /\ call' = <<"extend from", x>>
          \/ \E s \in Slices : SetSlice(s, x) /\ call' = <<"setslice", s, x>>
    \/ \E s \in Slices : DelSlice(s) /\ call' = <<"delslice", s>>
    \/ \E f \in Factors : IRepeat(f) /\ call' = <<"irepeat", f>>
    \/ \E keyed, reverse \in BOOLEAN :
          Sort(keyed, reverse) /\ call' = <<"sort", keyed, reverse>>
    \/ Pop /\ call' = <<"pop">>
    \/ ReverseItems /\ call' = <<"reverse">>
    \/ Clear /\ call' = <<"clear">>
    \/ Extend /\ call' = <<"extend">>
    \/ Freeze /\ call' = <<"freeze">>
    \/ Hash /\ call' = <<"hash">>

CStep ==
    \/ (ClearPops \/ ClearResumes \/ ClearEnds) /\ call' = <<"clear steps">>
    \/ \E x \in Items : ItemArrives(x) /\ call' = <<"item", x>>
    \/ ExtendEnds /\ call' = <<"extend ends">>
    \/ \E k \in Ranks : KeyReturns(k) /\ call' = <<"key", k>>
    \/ (SortEnds \/ SortFails) /\ call' = <<"sort ends">>

CNext == CChange \/ CStep

CSpec == CInit /\ [][CNext]_cvars
-----------------------------------------------------------------------------
Abstract == INSTANCE ListSpec WITH
    contents <- array,
    calls <- [k \in DOMAIN frames |->
                IF frames[k].op = "sort"
                THEN [op |-> "sort", user |-> frames[k].user,
                      items |-> frames[k].items, keys |-> frames[k].keys,
                      reverse |-> frames[k].reverse]
                ELSE frames[k]]

\* The list is the sequence that nohtyP.h describes: each call changes it at
\* the indices and slices it was given and returns what it should, whatever
\* the buffer does, and whatever is called while a sort, an extend or a clear
\* runs.
ImplementsListSpec == Abstract!Spec
=============================================================================
