---------------------------- MODULE MCStorelyStats ----------------------------
(* Small instances of StorelyStats for TLC. *)
EXTENDS StorelyStats, TLC

CONSTANTS p1, p2, e1, e2, k1, k2, k3

Alike == Permutations({k1, k2, k3}) \cup Permutations({p1, p2}) \cup Permutations({e1, e2})
=============================================================================
