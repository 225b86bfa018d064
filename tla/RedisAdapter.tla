---------------------------- MODULE RedisAdapter ----------------------------
(***************************************************************************)
(* StorelyRedis (storage/redis/src/index.ts) and StorelyKeyDB              *)
(* (storage/keydb/src/index.ts), whose operations are the same but for the *)
(* TTLs they take: operations that first get a connected client, batches   *)
(* as one transaction or one for each master.  The namespace is not        *)
(* changed during a call, and is not empty.                                *)
(***************************************************************************)
EXTENDS RedisServer

Redis == {"redis", "keydb"}

\* What each operation sends once it has a client.
RedisSet(t, j)        == {Command(t, j, "set", All(j), {})}
RedisSetMany(t, j)    == Grouped(t, j, "set")
RedisHas(t, j)        == {Command(t, j, "read", All(j), {})}
RedisHasMany(t, j)    == Grouped(t, j, "read")
RedisGet(t, j)        == {Command(t, j, "read", All(j), {})}
RedisGetMany(t, j)    == IF All(j) = {} THEN {} ELSE Grouped(t, j, "read")
RedisDelete(t, j)     == {Command(t, j, "delete", All(j), {})}
RedisDeleteMany(t, j) == Grouped(t, j, "delete")
RedisIterator(t, j)   == {Command(t, j, "scan", {}, 1)}
\* clear scans every master at the same time.
RedisClear(t, j) ==
    {Command(t, j, "scan to clear", {}, <<m, 1>>) : m \in IF aux.cluster THEN Masters ELSE {None}}

RedisSends(t, j) ==
    CASE j.op = "set" -> RedisSet(t, j)
      [] j.op = "setMany" -> RedisSetMany(t, j)
      [] j.op = "has" -> RedisHas(t, j)
      [] j.op = "hasMany" -> RedisHasMany(t, j)
      [] j.op = "get" -> RedisGet(t, j)
      [] j.op = "getMany" -> RedisGetMany(t, j)
      [] j.op = "delete" -> RedisDelete(t, j)
      [] j.op = "deleteMany" -> RedisDeleteMany(t, j)
      [] j.op = "iterator" -> RedisIterator(t, j)
      [] j.op = "clear" -> RedisClear(t, j)

---------------------------------------------------------------------------
(* getClient *)

\* In a cluster each master's command of a batch gets the client on its own: the
\* first connects it, and the others find it open and no masters to send to.
Unrouted(t, j) ==
    IF aux.cluster /\ j.op \in {"hasMany", "getMany", "deleteMany"}
    THEN {Command(t, j, "unrouted", I, {}) : I \in Groups(j)} ELSE {}

\* An empty batch that is answered, or sends nothing, without a client.
Clientless(j) ==
    j.op \in KeyOps /\ All(j) = {} /\ (j.op = "getMany" \/ (aux.cluster /\ j.op # "setMany"))

\* The client is there, or is being connected: isOpen.  Otherwise it connects now.
RedisCall(t, j) ==
    /\ j.op \in KeyOps \cup {"clear", "iterator"}
    /\ IF aux.open \/ Clientless(j) THEN Enter(t, j, RedisSends(t, j))
       ELSE IF aux.connecting THEN Enter(t, j, IF Unrouted(t, j) = {} THEN RedisSends(t, j) ELSE Unrouted(t, j))
       ELSE IF Unrouted(t, j) = {}
       THEN EnterWith(t, j, {Command(t, j, "connect", {}, {})}, [aux EXCEPT !.connecting = TRUE])
       ELSE \E I \in Groups(j) :
               EnterWith(t, j, {Command(t, j, "connect", I, {})} \cup {r \in Unrouted(t, j) : r.at # I},
                         [aux EXCEPT !.connecting = TRUE])

RedisConnected ==
    \E r \in Sent(Redis, "connect") :
        /\ aux.connecting
        /\ Serve(r, db, [aux EXCEPT !.connecting = FALSE, !.open = TRUE],
                 {c \in RedisSends(r.t, r.of) : r.at # {} => c.at = r.at}, job[r.t])

\* The connection fails, or takes longer than connectionTimeout: the client is
\* destroyed.  The call rejects, or goes on with it without throwOnConnectError.
RedisNotConnected ==
    \E r \in Sent(Redis, "connect") :
        LET a == [aux EXCEPT !.connecting = FALSE, !.open = FALSE]
        IN  /\ Faults \/ ~aux.connecting
            /\ RejectWith(r, db, a) \/ (r.of.op # "iterator" /\ Finish(r, db, a, Failed(job[r.t])))

---------------------------------------------------------------------------
(* What the server does *)

\* TTLs that are not positive are no TTLs to StorelyRedis; StorelyKeyDB leaves
\* out 0 only.
RedisPx(live) == IF live # None /\ live <= 0 THEN None ELSE live
KeydbPx(live) == IF live = 0 THEN None ELSE live
Px(live)      == IF adapter = "redis" THEN RedisPx(live) ELSE KeydbPx(live)

\* Mutant of Answers: a failure is emitted, and the answers are as after a success.
AnswersSwallowed(j, b) == [Answered(j, All(j), LAMBDA i : TRUE) EXCEPT !.failed = ~b]
Answers(j, b) == [Answered(j, All(j), LAMBDA i : b) EXCEPT !.failed = ~b]

\* A batch of several transactions fails when one of them does; a failure is
\* answered false for every entry, or thrown with throwOnErrors.
RedisWritten ==
    \E r \in Served(Redis, "set") :
        /\ r.at = {} \/ Accepted(Px(r.of.live))
        /\ Serve(r, Written(r, Px(r.of.live)), aux, {}, Answered(job[r.t], r.at, LAMBDA i : TRUE))
RedisNotWritten ==
    \/ \E r \in Served(Redis, "set") :
          /\ r.at # {} /\ ~Accepted(Px(r.of.live))
          /\ Reject(r, db) \/ Finish(r, db, aux, Answers(job[r.t], FALSE))
    \/ \E r \in Failing(Redis, "set") :
          \E d \in Outcomes(r, IF Accepted(Px(r.of.live)) THEN Written(r, Px(r.of.live)) ELSE db) :
             Reject(r, d) \/ Finish(r, d, aux, Answers(job[r.t], FALSE))

RedisRead ==
    \E r \in Served(Redis, "read") :
        Serve(r, db, aux, {}, Found(job[r.t], r.at))

\* Answers are kept by key: the second UNLINK of a key answers for both.
Unlinked(j, I) ==
    Answered(j, I, LAMBDA i : There(Slot(j, i)) /\ \A m \in I : j.keys[m] = j.keys[i] => m = i)
RedisDeleted ==
    \E r \in Served(Redis, "delete") :
        Serve(r, Drop(db, SlotsAt(r.of, r.at)), aux, {}, Unlinked(job[r.t], r.at))

RedisFailed ==
    \/ \E r \in Failing(Redis, "read") \cup Sent(Redis, "unrouted") :
          Reject(r, db) \/ Finish(r, db, aux, Failed(job[r.t]))
    \/ \E r \in Failing(Redis, "delete") :
          \E d \in Outcomes(r, Drop(db, SlotsAt(r.of, r.at))) :
             Reject(r, d) \/ Finish(r, d, aux, Failed(job[r.t]))

RedisScanned ==
    \E r \in Served(Redis, "scan") : \E ks \in Scan(r.of.ns, None, r.with) :
        Serve(r, db, aux, AfterPage(r, ks), job[r.t])
RedisYields ==
    \E r \in Served(Redis, "mget") :
        Serve(r, db, aux, NextPage(r, r.with[2]), Yielded(job[r.t], r.with[1]))
RedisIterationFailed == \E r \in Failing(Redis, "scan") \cup Failing(Redis, "mget") : Reject(r, db)

\* clear deletes the keys of each page while it scans on.
RedisClears(r, ks) ==
    (IF ks = <<>> THEN {} ELSE {Command(r.t, r.of, "clear", {}, Page(r.of.ns, ks))})
        \cup (IF r.with[2] < Len(Names)
              THEN {Command(r.t, r.of, "scan to clear", {}, <<r.with[1], r.with[2] + 1>>)} ELSE {})
RedisScannedToClear ==
    \E r \in Served(Redis, "scan to clear") : \E ks \in Scan(r.of.ns, r.with[1], r.with[2]) :
        Serve(r, db, aux, RedisClears(r, ks), job[r.t])
RedisCleared == \E r \in Served(Redis, "clear") : Serve(r, Drop(db, r.with), aux, {}, job[r.t])
RedisNotCleared ==
    \/ \E r \in Failing(Redis, "scan to clear") : Finish(r, db, aux, Failed(job[r.t]))
    \/ \E r \in Failing(Redis, "clear") : \E d \in Outcomes(r, Drop(db, r.with)) :
          Finish(r, d, aux, Failed(job[r.t]))

\* close(), or destroy(): the client is closed at once.
RedisDisconnect(t, j) ==
    /\ j.op = "disconnect"
    /\ EnterWith(t, j, IF aux.open \/ aux.connecting THEN {Command(t, j, "close", {}, {})} ELSE {},
                 [aux EXCEPT !.open = FALSE, !.connecting = FALSE])
RedisClosed == \E r \in Sent(Redis, "close") : Serve(r, db, aux, {}, job[r.t])

RedisTimedOut == TimedOut(Redis)

RedisServes ==
    \/ RedisConnected \/ RedisNotConnected \/ RedisWritten \/ RedisNotWritten \/ RedisRead \/ RedisDeleted
    \/ RedisFailed \/ RedisScanned \/ RedisYields \/ RedisIterationFailed \/ RedisScannedToClear
    \/ RedisCleared \/ RedisNotCleared \/ RedisClosed \/ RedisTimedOut

RedisNext ==
    \/ adapter = "redis" /\ \E t \in Tasks : NewCall(t, RedisCall) \/ NewCall(t, RedisDisconnect)
    \/ RedisServes

---------------------------------------------------------------------------
(* StorelyKeyDB *)

KeydbSet(t, j)        == j.op = "set" /\ RedisCall(t, j)
KeydbSetMany(t, j)    == j.op = "setMany" /\ RedisCall(t, j)
KeydbHas(t, j)        == j.op = "has" /\ RedisCall(t, j)
KeydbHasMany(t, j)    == j.op = "hasMany" /\ RedisCall(t, j)
KeydbGet(t, j)        == j.op = "get" /\ RedisCall(t, j)
KeydbGetMany(t, j)    == j.op = "getMany" /\ RedisCall(t, j)
KeydbDelete(t, j)     == j.op = "delete" /\ RedisCall(t, j)
KeydbDeleteMany(t, j) == j.op = "deleteMany" /\ RedisCall(t, j)
KeydbIterator(t, j)   == j.op = "iterator" /\ RedisCall(t, j)
KeydbClear(t, j)      == j.op = "clear" /\ RedisCall(t, j)
KeydbDisconnect(t, j) == RedisDisconnect(t, j)

KeydbCall(t, j) ==
    \/ KeydbSet(t, j) \/ KeydbSetMany(t, j) \/ KeydbHas(t, j) \/ KeydbHasMany(t, j) \/ KeydbGet(t, j)
    \/ KeydbGetMany(t, j) \/ KeydbDelete(t, j) \/ KeydbDeleteMany(t, j) \/ KeydbIterator(t, j)
    \/ KeydbClear(t, j) \/ KeydbDisconnect(t, j)

\* What these calls send is served by RedisServes, a part of RedisNext.
KeydbNext == adapter = "keydb" /\ \E t \in Tasks : NewCall(t, KeydbCall)
=============================================================================
