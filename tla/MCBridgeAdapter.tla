--------------------------- MODULE MCBridgeAdapter ---------------------------
(* Small instances of BridgeAdapter for TLC. *)
EXTENDS BridgeAdapter, TLC

CONSTANTS s1, s2, a1, a2, v1, t1, t2

TwoNamespaces  == {<<"a">>, <<"a", "b">>}
TwoKeys        == {<<"b">>, <<"c">>}
\* One store has every method, the other has none of the optional ones.
OneNative      == [s \in Stores |-> IF s = s1 THEN Optional ELSE {}]

Row(l)         == [val |-> v1, exp |-> l]
\* Data of an earlier process, over after one tick, under all keys but one.
AllShort       == {[k \in FullKeys |-> IF k = <<"a", "b", Separator, "c">> THEN None ELSE Row(0)]}

\* One caller uses the batches, clear and iterator, the other writes single keys.
BatchesAndKeys == (t1 :> {"getMany", "setMany", "hasMany", "deleteMany", "clear", "iterator"})
                  @@ (t2 :> {"set", "delete"})
=============================================================================
