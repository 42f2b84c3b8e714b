---------------------------- MODULE ypDictStale ----------------------------
(***************************************************************************)
(* Any update of a dict from another.  _ypDict_update_fromdict reads       *)
(* mp->keyset before its loop.  When an item makes the dict resize, the    *)
(* loop goes on with the old keyset, which the resize has released.        *)
(***************************************************************************)
EXTENDS ypDict

\* key_loc lies in the old keyset, so that the value goes to a place outside
\* the dict's value array.  What that place holds is not known: the item may
\* be counted in len or not.
PushItemStale ==
    /\ Pushing /\ ~KeysetKnown
    /\ \E n \in {0, 1} : dicts' = [dicts EXCEPT ![Self].len = @ + n]
    /\ ItemDone(call.spaceleft)
    /\ UNCHANGED <<keysets, resize>>

StaleNext == Next \/ PushItemStale \/ \E d, o \in Dicts : UpdateFrom(d, o)

StaleSpec == Init /\ [][StaleNext]_vars

\* yp_update says "Add the elements from x to mapping": when it returns
\* without an exception the dict has every item of the other.
UpdateAddsAll ==
    [][\A d \in Dicts : d = Self /\ call.op = "update" /\ call'.op = "idle"
                                  /\ ret' = None =>
          \A k \in DOMAIN Items(call.other) :
             /\ k \in DOMAIN Items(d)'
             /\ Items(d)'[k] = Items(call.other)[k]]_vars
=============================================================================
