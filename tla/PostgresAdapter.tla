-------------------------- MODULE PostgresAdapter --------------------------
(***************************************************************************)
(* StorelyPostgres (storage/postgres/src/index.ts): deletes that return    *)
(* what they deleted, batches as arrays, and a timer for expired rows.     *)
(* A namespace is not the empty string, which clear and iterator take for  *)
(* none at all while set does not.                                         *)
(***************************************************************************)
EXTENDS SqlTable

Pg(do) == Served("postgres", do)

\* init: a statement that fails is only emitted, and the connection is kept.
PostgresBoot == adapter = "postgres" /\ Boot({"ready"})

PostgresGet(t, j)     == j.op = "get" /\ Enter(t, j, {Command(t, j, "select", All(j), {})})
PostgresHas(t, j)     == j.op = "has" /\ Enter(t, j, {Command(t, j, "select", All(j), {})})
PostgresGetMany(t, j) == j.op = "getMany" /\ Enter(t, j, {Command(t, j, "select", All(j), {})})
PostgresHasMany(t, j) == j.op = "hasMany" /\ Enter(t, j, {Command(t, j, "select", All(j), {})})
PostgresSelected == \E r \in Pg("select") : SelectRows(r, Judged(job[r.t], r.at), {})
PostgresSwept    == \E r \in Pg("sweep") : Serve(r, Drop(db, r.with), aux, {}, job[r.t])

\* INSERT ... SELECT FROM UNNEST ... ON CONFLICT DO UPDATE: one statement does not
\* update a row twice, so a batch that names a key twice is rejected as a whole.
PostgresSet(t, j)     == j.op = "set" /\ Enter(t, j, {Command(t, j, "upsert", All(j), {})})
PostgresSetMany(t, j) == j.op = "setMany" /\ Enter(t, j, {Command(t, j, "upsert", All(j), {})})
Distinct(r) == Cardinality(SlotsAt(r.of, r.at)) = Cardinality(r.at)
PostgresUpserted ==
    \E r \in Pg("upsert") :
        Distinct(r) /\ Serve(r, Upserted(r), aux, {}, Answered(job[r.t], r.at, LAMBDA i : TRUE))
PostgresSetFailed ==
    \/ \E r \in Pg("upsert") : ~Distinct(r) /\ Serve(r, db, aux, {}, Failed(job[r.t]))
    \/ \E r \in Failing("postgres", "upsert") :
          Distinct(r) /\ \E d \in Outcomes(r, Upserted(r)) : Serve(r, d, aux, {}, Failed(job[r.t]))

\* DELETE ... RETURNING, for deleteMany in chunks.
PostgresDelete(t, j)     == j.op = "delete" /\ Enter(t, j, {Command(t, j, "delete", All(j), {})})
PostgresDeleteMany(t, j) == j.op = "deleteMany" /\ Enter(t, j, NextChunk(t, j, "delete"))
PostgresDeleted ==
    \E r \in Pg("delete") :
        LET j == Beyond(Existed(job[r.t], r.at))
        IN  Serve(r, Drop(db, SlotsAt(r.of, r.at)), aux,
                  IF j.op = "delete" THEN {} ELSE NextChunk(r.t, j, "delete"), j)

PostgresClear(t, j) == j.op = "clear" /\ Enter(t, j, {Command(t, j, "clear", {}, {})})
PostgresCleared     == \E r \in Pg("clear") : Serve(r, Drop(db, In(r.of.ns)), aux, {}, job[r.t])

\* An error of a page is emitted, and ends the iteration.
PostgresIterator(t, j) == j.op = "iterator" /\ Enter(t, j, {Command(t, j, "page", {}, now)})
PostgresPage           == \E r \in Pg("page") : Page(r)
PostgresPull           == \E r \in Sent("postgres", "pull") : Pull(r)
PostgresPageFailed     == \E r \in Failing("postgres", "page") : Serve(r, db, aux, {}, Failed(job[r.t]))

PostgresClearExpired(t, j) == j.op = "clearExpired" /\ Enter(t, j, {Command(t, j, "expire", {}, now)})
PostgresExpired == \E r \in Pg("expire") : Serve(r, Drop(db, ExpiredRows(r.with)), aux, {}, job[r.t])

\* clearExpiredInterval: the timer runs clearExpired, whose Date.now() is not
\* later than the moment its statement is served.
PostgresTimer == adapter = "postgres" /\ \E n \in 0..now : Timed(Drop(db, ExpiredRows(n)))

\* disconnect stops the timer and ends the pool.
PostgresDisconnect(t, j) ==
    /\ j.op = "disconnect"
    /\ EnterWith(t, j, {Command(t, j, "end", {}, {})}, [aux EXCEPT !.open = FALSE])
PostgresEnded == \E r \in Sent("postgres", "end") : Serve(r, db, aux, {}, job[r.t])

PostgresRejected == Rejects("postgres", Removed)

PostgresCall(t, j) ==
    \/ PostgresGet(t, j) \/ PostgresGetMany(t, j) \/ PostgresHas(t, j) \/ PostgresHasMany(t, j)
    \/ PostgresSet(t, j) \/ PostgresSetMany(t, j) \/ PostgresDelete(t, j) \/ PostgresDeleteMany(t, j)
    \/ PostgresClear(t, j) \/ PostgresIterator(t, j) \/ PostgresClearExpired(t, j) \/ PostgresDisconnect(t, j)

PostgresNext ==
    \/ adapter = "postgres" /\ \E t \in Tasks : NewCall(t, PostgresCall)
    \/ PostgresSelected \/ PostgresSwept \/ PostgresUpserted \/ PostgresSetFailed \/ PostgresDeleted
    \/ PostgresCleared \/ PostgresPage \/ PostgresPull \/ PostgresPageFailed \/ PostgresExpired
    \/ PostgresTimer \/ PostgresEnded \/ PostgresRejected \/ PostgresBoot
=============================================================================
