--------------------------- MODULE RedisAdapters ---------------------------
(***************************************************************************)
(* The adapters of redis, keydb and valkey over one server or cluster: a   *)
(* behaviour is one adapter's.                                             *)
(***************************************************************************)
EXTENDS ValkeyAdapter, RedisAdapter

Init == CallsInit /\ RedisInit
Next == RedisNext \/ KeydbNext \/ ValkeyNext \/ Tick
Spec == Init /\ [][Next]_vars
=============================================================================
