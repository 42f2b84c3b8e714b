---------------------------- MODULE MCypProxies ----------------------------
(***************************************************************************)
(* Small instances of ypProxies for TLC.                                   *)
(***************************************************************************)
EXTENDS ypProxies, TLC

Interchangeable == Permutations(Proxy) \cup Permutations(Addr)
=============================================================================
