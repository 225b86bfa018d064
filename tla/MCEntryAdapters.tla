-------------------------- MODULE MCEntryAdapters --------------------------
(* Model checking of EntryAdapters: two keys, two callers. *)
EXTENDS EntryAdapters

MCNames   == <<"k", "l">>
MCStored  == [s \in Slots |-> s[2]]
MCBatches == {<<>>, <<"k">>, <<"k", "l">>, <<"k", "k">>}

\* Three ticks: a lease is still shared at the second.
MCLives == [a \in Adapters |-> CASE a = "etcd" -> {None, 3} [] a = "rocksdb" -> {None, 1} [] a = "dynamo" -> {2} [] OTHER -> {1}]

\* Nothing that memcache is asked to keep expires meanwhile.
MCMaxTime == [a \in Adapters |-> IF a = "memcache" THEN 0 ELSE 1]

\* One caller does everything, the other gets in its way.
CONSTANTS t1, t2
MCOps == t1 :> KeyOps \cup {"clear", "iterator", "clearExpired", "disconnect"} @@ t2 :> {"set"}
=============================================================================
