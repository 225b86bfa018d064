-------------------------- MODULE MemcacheAdapter --------------------------
(***************************************************************************)
(* StorelyMemcache (storage/memcache/src/index.ts): one command for each   *)
(* key, raced against a timeout.  A command that timed out is not          *)
(* withdrawn: the call goes on, and the server may still do it.            *)
(***************************************************************************)
EXTENDS EntryServer

Mc(do) == Served("memcache", do)
MemcacheInit == adapter = "memcache" /\ Entries /\ aux = [boot |-> "ready", since |-> 0, open |-> TRUE]

MemcacheGet(t, j)     == j.op = "get" /\ Enter(t, j, Each(t, j, "read"))
MemcacheGetMany(t, j) == j.op = "getMany" /\ Enter(t, j, Each(t, j, "read"))
MemcacheHas(t, j)     == j.op = "has" /\ Enter(t, j, Each(t, j, "read"))
MemcacheHasMany(t, j) == j.op = "hasMany" /\ Enter(t, j, Each(t, j, "read"))

\* An entry found expired is deleted before the call answers.
MemcacheRead ==
    \E r \in Mc("read") :
        Serve(r, db, aux, IF Old(r.of, r.at, now) = {} THEN {} ELSE {Command(r.t, r.of, "sweep", r.at, {})},
              Judged(job[r.t], r.at, now))
MemcacheSwept ==
    \E r \in Mc("sweep") : Serve(r, Drop(db, SlotsAt(r.of, r.at)), aux, {}, job[r.t])

\* The entry has expired when Date.now() is beyond the time the call made of its TTL.
MemcacheSet(t, j)     == j.op = "set" /\ Enter(t, j, Each(t, j, "set"))
MemcacheSetMany(t, j) == j.op = "setMany" /\ Enter(t, j, Each(t, j, "set"))
Wrapped(r) == Write(db, r.of, r.at, IF r.of.live = None THEN None ELSE r.of.at + r.of.live + 1)
MemcacheStored == \E r \in Mc("set") : Serve(r, Wrapped(r), aux, {}, True(job[r.t], r.at))

MemcacheDelete(t, j)     == j.op = "delete" /\ Enter(t, j, Each(t, j, "delete"))
MemcacheDeleteMany(t, j) == j.op = "deleteMany" /\ Enter(t, j, Each(t, j, "delete"))
MemcacheDeleted ==
    \E r \in Mc("delete") :
        Serve(r, Drop(db, SlotsAt(r.of, r.at)), aux, {}, Existed(job[r.t], r.at))

\* clear flushes the server, for callers that say they know; else it throws.
MemcacheClear(t, j) ==
    /\ j.op = "clear"
    /\ \E destructive \in BOOLEAN :
          Enter(t, IF destructive THEN j ELSE Failed(j), IF destructive THEN {Command(t, j, "clear", {}, {})} ELSE {})
MemcacheFlushed == \E r \in Mc("clear") : Serve(r, Drop(db, Slots), aux, {}, job[r.t])

\* A failed command is answered as if there were no entry, and false by writes; so
\* is one that timed out, which stays in flight.
MemcacheGoesOn(j, r) == IF r.do = "clear" THEN Failed(j) ELSE IF r.do = "sweep" THEN j ELSE Unsure(j, r.at)
MemcacheFails == UNION {Failing("memcache", do) : do \in {"read", "sweep", "set", "delete", "clear"}}
MemcacheFailed ==
    \E r \in MemcacheFails : \E F \in IF Live(r) /\ r.do # "read" THEN {{}, Late({r})} ELSE {{}} :
        Serve(r, db, aux, F, MemcacheGoesOn(job[r.t], r))

MemcacheDisconnect(t, j) == j.op = "disconnect" /\ EnterWith(t, j, {}, [aux EXCEPT !.open = FALSE])

MemcacheCall(t, j) ==
    \/ MemcacheGet(t, j) \/ MemcacheGetMany(t, j) \/ MemcacheHas(t, j) \/ MemcacheHasMany(t, j)
    \/ MemcacheSet(t, j) \/ MemcacheSetMany(t, j) \/ MemcacheDelete(t, j) \/ MemcacheDeleteMany(t, j)
    \/ MemcacheClear(t, j) \/ MemcacheDisconnect(t, j)

MemcacheNext ==
    \/ adapter = "memcache" /\ \E t \in Tasks : NewCall(t, MemcacheCall)
    \/ MemcacheRead \/ MemcacheSwept \/ MemcacheStored \/ MemcacheDeleted \/ MemcacheFlushed
    \/ MemcacheFailed
=============================================================================
