--------------------------- MODULE MCMemoryAdapter ---------------------------
(* Small instances of MemoryAdapter for TLC. *)
EXTENDS MemoryAdapter, TLC

CONSTANTS v1, a1, t1

\* "a" and "ab": one is a prefix of the other, but not with the separator.
PlainNamespaces == {<<"a">>, <<"a", "b">>}
OneKey          == {<<"b">>}
\* "a" and "a:b": the second lies inside the first.
NestedNamespaces == {<<"a">>, <<"a", ":", "b">>}
=============================================================================
