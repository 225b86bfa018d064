---------------------------- MODULE MongoAdapter ----------------------------
(***************************************************************************)
(* StorelyMongo (storage/mongo/src/index.ts) without GridFS: one document  *)
(* for each key and namespace, replaced in place; what has expired is      *)
(* deleted by the _id of its document, which a write in between keeps.     *)
(*                                                                         *)
(* aux.ids: how many documents each key has had; the last is its own.      *)
(***************************************************************************)
EXTENDS EntryServer

Mg(do) == Served("mongo", do)

MongoInit ==
    /\ adapter = "mongo" /\ Entries
    /\ aux = [boot |-> "pending", since |-> 0, open |-> TRUE,
              ids |-> [s \in Slots |-> IF db[s] = None THEN 0 ELSE 1]]

\* initConnection; if it fails, so does all that awaits it.
MongoConnected    == Boot("mongo", "ready")
MongoNotConnected == Faults /\ Boot("mongo", "failed")

\* A write that leaves the rows d makes documents for the keys that had none.
Documents(d) == [aux EXCEPT !.ids = [s \in Slots |-> IF db[s] = None /\ d[s] # None THEN @[s] + 1 ELSE @[s]]]
\* The documents of the keys S; and the keys whose documents D are still there.
Ids(S)        == {<<s, aux.ids[s]>> : s \in S}
StillThere(D) == {s \in Slots : <<s, aux.ids[s]>> \in D}

MongoGet(t, j)     == j.op = "get" /\ Enter(t, j, {Command(t, j, "find", All(j), {})})
MongoGetMany(t, j) == j.op = "getMany" /\ Enter(t, j, {Command(t, j, "find", All(j), {})})
MongoHas(t, j)     == j.op = "has" /\ Enter(t, j, {Command(t, j, "count", All(j), {})})
MongoHasMany(t, j) == j.op = "hasMany" /\ Enter(t, j, {Command(t, j, "count", All(j), {})})

\* get judges its document by the clock when it has come, the others by the clock
\* when they asked.
MongoFound ==
    \E r \in Mg("find") :
        LET n   == IF r.of.op = "get" THEN now ELSE Made(r)
            old == Old(r.of, r.at, n)
        IN  Serve(r, db, aux, IF old = {} THEN {} ELSE {Command(r.t, r.of, "sweep", r.at, Ids(old))},
                  Judged(job[r.t], r.at, n))
MongoCounted == \E r \in Mg("count") : Serve(r, db, aux, {}, Judged(job[r.t], r.at, Made(r)))
MongoSwept   == \E r \in Mg("sweep") : Serve(r, Drop(db, StillThere(r.with)), aux, {}, job[r.t])

\* set: an upsert, whose TTL counts from the call; a TTL that is not positive is none.
MongoEnd(live, n) == IF live = None \/ (live # None => live <= 0) THEN None ELSE n + live
MongoSet(t, j) == j.op = "set" /\ Enter(t, j, {Command(t, j, "upsert", All(j), {})})
Upserted(r)    == Write(db, r.of, r.at, MongoEnd(r.of.live, r.of.at))
MongoUpserted  == \E r \in Mg("upsert") : Serve(r, Upserted(r), Documents(Upserted(r)), {}, True(job[r.t], r.at))

\* setMany: one unordered bulk write, of which the server may do any part, and of
\* two entries with one key either last.
MongoSetMany(t, j) == j.op = "setMany" /\ Enter(t, j, {Command(t, j, "bulk", All(j), {})})
Lasts(r, P) == {W \in SUBSET P : \A i \in P : Cardinality({m \in W : r.of.keys[m] = r.of.keys[i]}) = 1}
MongoBulk ==
    \E r \in Mg("bulk") : \E P \in IF Faults THEN SUBSET r.at ELSE {r.at} : \E W \in Lasts(r, P) :
        LET d == Write(db, r.of, W, MongoEnd(r.of.live, Made(r)))
        IN  r.at # {} /\ Serve(r, d, Documents(d), {}, Unsure(True(job[r.t], P), r.at \ P))

\* delete: one document.  deleteMany: for each chunk, which keys exist, then delete them.
MongoDelete(t, j) == j.op = "delete" /\ Enter(t, j, {Command(t, j, "delete", All(j), {})})
DeleteFrom(t, j, p) ==
    IF Chunk(j, p, WriteChunk) = {} THEN {} ELSE {Command(t, j, "existing", Chunk(j, p, WriteChunk), p)}
MongoDeleteMany(t, j) == j.op = "deleteMany" /\ Enter(t, j, DeleteFrom(t, j, 1))
MongoExisting ==
    \E r \in Mg("existing") :
        Serve(r, db, aux, {Command(r.t, r.of, "delete", r.at, r.with)}, Existed(job[r.t], r.at))
MongoDeleted ==
    \E r \in Mg("delete") :
        LET one == r.of.op = "delete"
        IN  Serve(r, Drop(db, SlotsAt(r.of, r.at)), aux,
                  IF one THEN {} ELSE DeleteFrom(r.t, r.of, r.with + WriteChunk),
                  IF one THEN Existed(job[r.t], r.at) ELSE job[r.t])

MongoClear(t, j) == j.op = "clear" /\ Enter(t, j, {Command(t, j, "clear", {}, {})})
MongoCleared     == \E r \in Mg("clear") : Serve(r, Drop(db, In(r.of.ns)), aux, {}, job[r.t])

\* clearExpired does nothing without GridFS.
MongoClearExpired(t, j) == j.op = "clearExpired" /\ Enter(t, j, {})

\* iterator: page by page, all judged by the clock at its beginning; what has expired
\* is deleted between the documents that are yielded.  with: where the page begins,
\* and its documents.
MongoIterator(t, j) == j.op = "iterator" /\ Enter(t, j, {Command(t, j, "page", {}, 1)})
MongoPage ==
    \E r \in Mg("page") :
        LET ks == {k \in Keys : \E q \in r.with..(r.with + PageSize - 1) : q \in DOMAIN Names /\ Names[q] = k}
            S  == {s \in In(r.of.ns) : s[2] \in ks /\ db[s] # None}
        IN  Serve(r, db, aux, {Command(r.t, r.of, "pull", {}, <<r.with + PageSize, [s \in S |-> db[s]], Ids(S)>>)},
                  job[r.t])
MongoPulled ==
    \E r \in Sent("mongo", "pull") :
        LET rows == r.with[2]
            s    == First(rows)
            rest == Command(r.t, r.of, "pull", {}, <<r.with[1], Without(rows, s), r.with[3]>>)
        IN  IF DOMAIN rows = {}
            THEN Serve(r, db, aux, IF r.with[1] > Len(Names) THEN {} ELSE {Command(r.t, r.of, "page", {}, r.with[1])},
                       job[r.t])
            ELSE IF Expired(rows[s], Made(r))
            THEN Serve(r, db, aux, {Command(r.t, r.of, "drop", {}, <<s, rest>>)}, job[r.t])
            ELSE Serve(r, db, aux, {rest}, Yield(job[r.t], s[2], rows[s].val))
Dropping(r)  == {d \in r.with[2].with[3] : d[1] = r.with[1]}
MongoDropped == \E r \in Mg("drop") : Serve(r, Drop(db, StillThere(Dropping(r))), aux, {r.with[2]}, job[r.t])

\* set and setMany answer false for what failed; an empty bulk write is an error.
\* Everything else rejects.
MongoNotSet ==
    \/ \E r \in Failing("mongo", "upsert") : \E d \in Outcomes(r, Upserted(r)) :
          Serve(r, d, Documents(d), {}, Failed(job[r.t]))
    \/ \E r \in {r \in Failing("mongo", "bulk") : aux.boot = "ready"} \cup {r \in Mg("bulk") : r.at = {}} :
          Serve(r, db, aux, {}, Failed(job[r.t]))
MongoWould(r) ==
    CASE r.do = "sweep" -> Drop(db, StillThere(r.with))
      [] r.do = "drop" -> Drop(db, StillThere(Dropping(r)))
      [] r.do = "delete" -> Drop(db, SlotsAt(r.of, r.at))
      [] r.do = "clear" -> Drop(db, In(r.of.ns))
      [] OTHER -> db
MongoRejected ==
    \E r \in {r \in Failing("mongo", "bulk") : aux.boot = "failed"}
              \cup UNION {Failing("mongo", do) : do \in {"find", "count", "sweep", "existing", "delete", "clear", "page", "drop"}} :
        \E d \in Outcomes(r, MongoWould(r)) : Reject(r, d)

\* disconnect awaits the connection, and closes it.
MongoDisconnect(t, j) == j.op = "disconnect" /\ Enter(t, j, {Command(t, j, "close", {}, {})})
MongoClosed ==
    \/ \E r \in Sent("mongo", "close") : aux.boot = "ready" /\ Serve(r, db, [aux EXCEPT !.open = FALSE], {}, job[r.t])
    \/ \E r \in Sent("mongo", "close") : aux.boot = "failed" /\ Reject(r, db)

MongoCall(t, j) ==
    \/ MongoGet(t, j) \/ MongoGetMany(t, j) \/ MongoHas(t, j) \/ MongoHasMany(t, j) \/ MongoSet(t, j)
    \/ MongoSetMany(t, j) \/ MongoDelete(t, j) \/ MongoDeleteMany(t, j) \/ MongoClear(t, j)
    \/ MongoClearExpired(t, j) \/ MongoIterator(t, j) \/ MongoDisconnect(t, j)

MongoNext ==
    \/ adapter = "mongo" /\ \E t \in Tasks : NewCall(t, MongoCall)
    \/ MongoConnected \/ MongoNotConnected \/ MongoFound \/ MongoCounted \/ MongoSwept \/ MongoUpserted
    \/ MongoBulk \/ MongoDeleted \/ MongoExisting \/ MongoCleared \/ MongoPage \/ MongoPulled \/ MongoDropped
    \/ MongoNotSet \/ MongoRejected \/ MongoClosed
=============================================================================
