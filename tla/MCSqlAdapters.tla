--------------------------- MODULE MCSqlAdapters ---------------------------
(* Model checking of SqlAdapters: two keys, two callers. *)
EXTENDS SqlAdapters

MCNames  == <<"k", "l">>
MCMaxTime == [a \in Adapters |-> 1]
MCBatches == {<<>>, <<"k">>, <<"k", "l">>, <<"k", "k">>}
MCLives  == [a \in Adapters |-> {None, 1}]
MCStored == [s \in Slots |-> s[2]]

\* One caller does everything, the other gets in its way.
CONSTANTS t1, t2
AllOps == KeyOps \cup {"clear", "iterator", "clearExpired", "disconnect"}
MCOps  == t1 :> AllOps @@ t2 :> {"set", "delete", "clearExpired", "disconnect"}
=============================================================================
