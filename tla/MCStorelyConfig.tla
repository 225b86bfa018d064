---------------------------- MODULE MCStorelyConfig ----------------------------
(* Small instances of StorelyConfig for TLC. *)
EXTENDS StorelyConfig

CONSTANTS i1, i2, m1, r1, n1, n2, z1, z2

\* The sanitizer turns namespace n2 into n1.
CleanToFirst == [ns \in Namespaces |-> n1]
=============================================================================
