---------------------------- MODULE MysqlAdapter ----------------------------
(***************************************************************************)
(* StorelyMysql (storage/mysql/src/index.ts): one statement per operation  *)
(* where that is possible, select-then-delete where it is not.             *)
(***************************************************************************)
EXTENDS SqlTable

My(do) == Served("mysql", do)

\* The constructor's statements create and migrate the table.  An error other
\* than "already there" leaves the adapter without a connection.
MysqlBoot == adapter = "mysql" /\ Boot({"ready"} \cup IF Faults \/ ~aux.open THEN {"failed"} ELSE {})

\* get, getMany, has and hasMany select the rows of all keys.  An empty getMany
\* makes `IN ()`, which is no SQL and rejected.
MysqlGet(t, j)     == j.op = "get" /\ Enter(t, j, {Command(t, j, "select", All(j), {})})
MysqlHas(t, j)     == j.op = "has" /\ Enter(t, j, {Command(t, j, "select", All(j), {})})
MysqlGetMany(t, j) == j.op = "getMany" /\ Enter(t, j, {Command(t, j, "select", All(j), {})})
MysqlHasMany(t, j) ==
    j.op = "hasMany" /\ Enter(t, j, IF All(j) = {} THEN {} ELSE {Command(t, j, "select", All(j), {})})

MysqlSelected ==
    \E r \in My("select") :
        IF r.at = {} THEN Reject(r, db) ELSE SelectRows(r, Judged(job[r.t], r.at), {})
MysqlSwept == \E r \in My("sweep") : Serve(r, Drop(db, r.with), aux, {}, job[r.t])

\* INSERT ... ON DUPLICATE KEY UPDATE of all entries; a failure is caught, and
\* answered false for every entry.
MysqlSet(t, j) == j.op = "set" /\ Enter(t, j, {Command(t, j, "upsert", All(j), {})})
MysqlSetMany(t, j) ==
    j.op = "setMany" /\ Enter(t, j, IF All(j) = {} THEN {} ELSE {Command(t, j, "upsert", All(j), {})})
MysqlUpserted ==
    \E r \in My("upsert") : Serve(r, Upserted(r), aux, {}, Answered(job[r.t], r.at, LAMBDA i : TRUE))
MysqlSetFailed ==
    \E r \in Failing("mysql", "upsert") : \E d \in Outcomes(r, Upserted(r)) :
        Serve(r, d, aux, {}, Failed(job[r.t]))

\* DELETE: affectedRows is the answer.  deleteMany: for each chunk, which keys
\* exist, then delete them.
MysqlDelete(t, j)     == j.op = "delete" /\ Enter(t, j, {Command(t, j, "delete", All(j), {})})
MysqlDeleteMany(t, j) == j.op = "deleteMany" /\ Enter(t, j, NextChunk(t, j, "existing"))

MysqlExisting ==
    \E r \in My("existing") :
        Serve(r, db, aux, {Command(r.t, r.of, "delete", r.at, {})}, Existed(job[r.t], r.at))
MysqlDeleted ==
    \E r \in My("delete") :
        LET one == r.of.op = "delete"
            j   == IF one THEN Existed(job[r.t], r.at) ELSE Beyond(job[r.t])
        IN  Serve(r, Drop(db, SlotsAt(r.of, r.at)), aux, IF one THEN {} ELSE NextChunk(r.t, j, "existing"), j)

MysqlClear(t, j) == j.op = "clear" /\ Enter(t, j, {Command(t, j, "clear", {}, {})})
MysqlCleared     == \E r \in My("clear") : Serve(r, Drop(db, In(r.of.ns)), aux, {}, job[r.t])

MysqlIterator(t, j) == j.op = "iterator" /\ Enter(t, j, {Command(t, j, "page", {}, now)})
MysqlPage           == \E r \in My("page") : Page(r)
MysqlPull           == \E r \in Sent("mysql", "pull") : Pull(r)

MysqlClearExpired(t, j) == j.op = "clearExpired" /\ Enter(t, j, {Command(t, j, "expire", {}, now)})
MysqlExpired == \E r \in My("expire") : Serve(r, Drop(db, ExpiredRows(r.with)), aux, {}, job[r.t])

\* The event of intervalExpiration: `expires BETWEEN 1 AND` the server's clock.
MysqlEvent == adapter = "mysql" /\ Timed(Drop(db, ExpiredRows(now + 1)))

\* The pool is ended without waiting for the connection.
MysqlDisconnect(t, j) ==
    j.op = "disconnect" /\ EnterWith(t, j, {Command(t, j, "end", {}, {})}, [aux EXCEPT !.open = FALSE])
MysqlEnded == \E r \in Sent("mysql", "end") : Serve(r, db, aux, {}, job[r.t])

MysqlRejected == Rejects("mysql", Removed)

MysqlCall(t, j) ==
    \/ MysqlGet(t, j) \/ MysqlGetMany(t, j) \/ MysqlHas(t, j) \/ MysqlHasMany(t, j)
    \/ MysqlSet(t, j) \/ MysqlSetMany(t, j) \/ MysqlDelete(t, j) \/ MysqlDeleteMany(t, j)
    \/ MysqlClear(t, j) \/ MysqlIterator(t, j) \/ MysqlClearExpired(t, j) \/ MysqlDisconnect(t, j)

MysqlNext ==
    \/ adapter = "mysql" /\ \E t \in Tasks : NewCall(t, MysqlCall)
    \/ MysqlSelected \/ MysqlSwept \/ MysqlUpserted \/ MysqlSetFailed \/ MysqlExisting
    \/ MysqlDeleted \/ MysqlCleared \/ MysqlPage \/ MysqlPull \/ MysqlExpired \/ MysqlEnded
    \/ MysqlRejected \/ MysqlEvent \/ MysqlBoot
=============================================================================
