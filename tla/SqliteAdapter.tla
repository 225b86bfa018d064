--------------------------- MODULE SqliteAdapter ---------------------------
(***************************************************************************)
(* StorelySqlite (storage/sqlite/src/index.ts): every batch is cut into    *)
(* chunks, for a statement takes at most 999 parameters.                   *)
(***************************************************************************)
EXTENDS SqlTable

Lite(do) == Served("sqlite", do)

\* createConnection and the constructor's statements: an error is kept, and every
\* statement and close() reject with it.
SqliteBoot == adapter = "sqlite" /\ Boot({"ready"} \cup IF Faults THEN {"failed"} ELSE {})

\* getMany and hasMany: for each chunk, select its rows and delete the expired.
SqliteGet(t, j)     == j.op = "get" /\ Enter(t, j, {Command(t, j, "select", All(j), {})})
SqliteHas(t, j)     == j.op = "has" /\ Enter(t, j, {Command(t, j, "select", All(j), {})})
SqliteGetMany(t, j) == j.op = "getMany" /\ Enter(t, j, NextChunk(t, j, "select"))
SqliteHasMany(t, j) == j.op = "hasMany" /\ Enter(t, j, NextChunk(t, j, "select"))

\* Rows are kept by key: what a chunk found of a key answers every entry with it.
SqliteJudged(j, I) ==
    Answered(j, {i \in All(j) : Slot(j, i) \in SlotsAt(j, I) /\ db[Slot(j, i)] # None
                                /\ Slot(j, i) \notin Old(j, I)},
             LAMBDA i : Answer(j.op, db[Slot(j, i)], FALSE))

SqliteSelected ==
    \E r \in Lite("select") :
        LET j == IF r.of.op \in SingleOps THEN job[r.t] ELSE Beyond(job[r.t])
        IN  SelectRows(r, SqliteJudged(j, r.at), IF j.op \in SingleOps THEN {} ELSE NextChunk(r.t, j, "select"))
SqliteSwept ==
    \E r \in Lite("sweep") :
        Serve(r, Drop(db, r.with), aux,
              IF r.of.op \in SingleOps THEN {} ELSE NextChunk(r.t, job[r.t], "select"), job[r.t])

\* A failure of one chunk leaves its answers false, and the others are written.
SqliteSet(t, j)     == j.op = "set" /\ Enter(t, j, {Command(t, j, "upsert", All(j), {})})
SqliteSetMany(t, j) == j.op = "setMany" /\ Enter(t, j, NextChunk(t, j, "upsert"))
NextUpsert(r, j) == IF r.of.op = "set" THEN {} ELSE NextChunk(r.t, j, "upsert")
\* Mutant of SqliteResults: results[j] counts from the beginning of its batch.
ResultsFromFirst(j, I) == Answered(j, {i \in All(j) : i <= Cardinality(I)}, LAMBDA i : TRUE)
SqliteResults(j, I) == Answered(j, I, LAMBDA i : TRUE)
SqliteUpserted ==
    \E r \in Lite("upsert") :
        LET j == Beyond(SqliteResults(job[r.t], r.at))
        IN  Serve(r, Upserted(r), aux, NextUpsert(r, j), j)
SqliteSetFailed ==
    \E r \in Failing("sqlite", "upsert") : \E d \in Outcomes(r, Upserted(r)) :
        LET j == Beyond(Failed(job[r.t]))
        IN  Serve(r, d, aux, NextUpsert(r, j), j)

\* deleteMany: for each chunk, which keys exist, then delete them.
SqliteDelete(t, j)     == j.op = "delete" /\ Enter(t, j, {Command(t, j, "delete", All(j), {})})
SqliteDeleteMany(t, j) == j.op = "deleteMany" /\ Enter(t, j, NextChunk(t, j, "existing"))
SqliteExisting ==
    \E r \in Lite("existing") :
        Serve(r, db, aux, {Command(r.t, r.of, "delete", r.at, {})}, Existed(job[r.t], r.at))
SqliteDeleted ==
    \E r \in Lite("delete") :
        LET one == r.of.op = "delete"
            j   == IF one THEN Existed(job[r.t], r.at) ELSE Beyond(job[r.t])
        IN  Serve(r, Drop(db, SlotsAt(r.of, r.at)), aux, IF one THEN {} ELSE NextChunk(r.t, j, "existing"), j)

SqliteClear(t, j) == j.op = "clear" /\ Enter(t, j, {Command(t, j, "clear", {}, {})})
SqliteCleared     == \E r \in Lite("clear") : Serve(r, Drop(db, In(r.of.ns)), aux, {}, job[r.t])

\* An error of a page is emitted, and ends the iteration.
SqliteIterator(t, j) == j.op = "iterator" /\ Enter(t, j, {Command(t, j, "page", {}, now)})
SqlitePage           == \E r \in Lite("page") : Page(r)
SqlitePull           == \E r \in Sent("sqlite", "pull") : Pull(r)
SqlitePageFailed     == \E r \in Failing("sqlite", "page") : Serve(r, db, aux, {}, Failed(job[r.t]))

SqliteClearExpired(t, j) == j.op = "clearExpired" /\ Enter(t, j, {Command(t, j, "expire", {}, now)})
SqliteExpired == \E r \in Lite("expire") : Serve(r, Drop(db, ExpiredRows(r.with)), aux, {}, job[r.t])

SqliteTimer == adapter = "sqlite" /\ \E n \in 0..now : Timed(Drop(db, ExpiredRows(n)))

\* disconnect stops the timer, and closes the database once there is one.
SqliteDisconnect(t, j) ==
    j.op = "disconnect" /\ Enter(t, j, {Command(t, j, "end", {}, {})})
SqliteEnded  == \E r \in Lite("end") : Serve(r, db, [aux EXCEPT !.open = FALSE], {}, job[r.t])
SqliteUnended == \E r \in Failing("sqlite", "end") : Reject(r, db)

SqliteRejected == Rejects("sqlite", Removed)

SqliteCall(t, j) ==
    \/ SqliteGet(t, j) \/ SqliteGetMany(t, j) \/ SqliteHas(t, j) \/ SqliteHasMany(t, j)
    \/ SqliteSet(t, j) \/ SqliteSetMany(t, j) \/ SqliteDelete(t, j) \/ SqliteDeleteMany(t, j)
    \/ SqliteClear(t, j) \/ SqliteIterator(t, j) \/ SqliteClearExpired(t, j) \/ SqliteDisconnect(t, j)

SqliteNext ==
    \/ adapter = "sqlite" /\ \E t \in Tasks : NewCall(t, SqliteCall)
    \/ SqliteSelected \/ SqliteSwept \/ SqliteUpserted \/ SqliteSetFailed \/ SqliteExisting
    \/ SqliteDeleted \/ SqliteCleared \/ SqlitePage \/ SqlitePull \/ SqlitePageFailed \/ SqliteExpired
    \/ SqliteTimer \/ SqliteEnded \/ SqliteUnended \/ SqliteRejected \/ SqliteBoot
=============================================================================
