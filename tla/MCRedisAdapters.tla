-------------------------- MODULE MCRedisAdapters --------------------------
(* Model checking of RedisAdapters: two keys, one on each of two masters. *)
EXTENDS RedisAdapters

CONSTANTS t1, t2, m1, m2

MCNames   == <<"k", "l">>
MCStored  == [s \in Slots |-> s[2]]
MCMaster  == "k" :> m1 @@ "l" :> m2
MCMaxTime == [a \in Adapters |-> 1]
MCBatches == {<<>>, <<"k">>, <<"k", "l">>, <<"k", "k">>}

\* A TTL that is not positive is what StorelyRedis and StorelyKeyDB differ in.
MCLives == [a \in Adapters |-> CASE a = "redis" -> {None, -1} [] a = "keydb" -> {1, -1} [] a = "valkey" -> {None, 1}]

\* TTLs that StorelyValkey's transactions do not take.
MCRefused == [a \in Adapters |-> {-1}]

\* The pattern of namespace n is met by the keys of nm.
MCExtending == {<<"n", "nm">>}

\* One caller does everything, the other gets in its way.
MCOps == t1 :> KeyOps \cup {"clear", "iterator", "disconnect"} @@ t2 :> {"set", "disconnect"}
=============================================================================
