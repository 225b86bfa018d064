--------------------------- MODULE RocksdbAdapter ---------------------------
(***************************************************************************)
(* StorelyRocksDB (storage/rocksdb/src/index.ts): an embedded store.  The  *)
(* time of expiry is in the value, which the facade has made; what has     *)
(* expired is deleted by key in an operation of its own.                   *)
(***************************************************************************)
EXTENDS EntryServer

CONSTANTS
    IterationLimit,    \* iterationLimit; 0: none
    PastTilde          \* the keys that come after every "~"

ASSUME RocksdbAssumption == IterationLimit \in Nat /\ PastTilde \subseteq Keys

Rk(do) == Served("rocksdb", do)
RocksdbInit == adapter = "rocksdb" /\ Entries /\ aux = [boot |-> "pending", since |-> 0, open |-> TRUE]

\* The constructor's open, which all operations but empty batches await.
RocksdbOpened    == Boot("rocksdb", "ready")
RocksdbNotOpened == Faults /\ Boot("rocksdb", "failed")

OneRead(t, j, do) == IF All(j) = {} THEN {} ELSE {Command(t, j, do, All(j), {})}
RocksdbGet(t, j)     == j.op = "get" /\ Enter(t, j, OneRead(t, j, "read"))
RocksdbGetMany(t, j) == j.op = "getMany" /\ Enter(t, j, OneRead(t, j, "read"))
RocksdbHas(t, j)     == j.op = "has" /\ Enter(t, j, OneRead(t, j, "read"))
RocksdbHasMany(t, j) == j.op = "hasMany" /\ Enter(t, j, OneRead(t, j, "read"))
RocksdbRead ==
    \E r \in Rk("read") :
        LET old == Old(r.of, r.at, now)
        IN  Serve(r, db, aux, IF old = {} THEN {} ELSE {Command(r.t, r.of, "sweep", r.at, old)},
                  Judged(job[r.t], r.at, now))
RocksdbSwept == \E r \in Rk("sweep") : Serve(r, Drop(db, r.with), aux, {}, job[r.t])

RocksdbSet(t, j)     == j.op = "set" /\ Enter(t, j, OneRead(t, j, "put"))
RocksdbSetMany(t, j) == j.op = "setMany" /\ Enter(t, j, OneRead(t, j, "put"))
Enveloped(r) == Write(db, r.of, r.at, IF r.of.live = None THEN None ELSE r.of.at + r.of.live)
RocksdbPut   == \E r \in Rk("put") : Serve(r, Enveloped(r), aux, {}, True(job[r.t], r.at))

\* delete, deleteMany: what is there, then delete that.
RocksdbDelete(t, j)     == j.op = "delete" /\ Enter(t, j, OneRead(t, j, "existing"))
RocksdbDeleteMany(t, j) == j.op = "deleteMany" /\ Enter(t, j, OneRead(t, j, "existing"))
RocksdbExisting ==
    \E r \in Rk("existing") :
        LET I == {i \in r.at : db[Slot(r.of, i)] # None}
        IN  Serve(r, db, aux, IF I = {} THEN {} ELSE {Command(r.t, r.of, "delete", I, {})}, Existed(job[r.t], r.at))
RocksdbDeleted == \E r \in Rk("delete") : Serve(r, Drop(db, SlotsAt(r.of, r.at)), aux, {}, job[r.t])

\* The keys between the prefix of a namespace and the prefix with a "~".
Between(ns) == {s \in In(ns) : s[2] \notin PastTilde}
RocksdbClear(t, j) == j.op = "clear" /\ Enter(t, j, {Command(t, j, "clear", {}, {})})
RocksdbCleared     == \E r \in Rk("clear") : Serve(r, Drop(db, Between(r.of.ns)), aux, {}, job[r.t])

\* iterator: over the store as it is at its beginning, at most IterationLimit entries,
\* each judged when it is pulled.
RocksdbIterator(t, j) == j.op = "iterator" /\ Enter(t, j, {Command(t, j, "snapshot", {}, {})})
Limited(S) ==
    IF IterationLimit = 0 THEN S ELSE {s \in S : Cardinality({u \in S : Before(u[2], s[2])}) < IterationLimit}
PullFrom(t, j, rows) == IF DOMAIN rows = {} THEN {} ELSE {Command(t, j, "pull", {}, rows)}
RocksdbSnapshot ==
    \E r \in Rk("snapshot") :
        LET S == Limited({s \in Between(r.of.ns) : db[s] # None})
        IN  Serve(r, db, aux, PullFrom(r.t, r.of, [s \in S |-> db[s]]), job[r.t])
RocksdbPulled ==
    \E r \in Rk("pull") :
        LET s   == First(r.with)
            row == r.with[s]
        IN  Serve(r, db, aux, PullFrom(r.t, r.of, Without(r.with, s)),
                  IF Expired(row, now) THEN job[r.t] ELSE Yield(job[r.t], s[2], row.val))

\* clearExpired, called or by its timer: the keys that have expired, then delete them.
RocksdbClearExpired(t, j) == j.op = "clearExpired" /\ Enter(t, j, {Command(t, j, "collect", {}, {})})
RocksdbCollected ==
    \E r \in Rk("collect") :
        LET old == {s \in Between(r.of.ns) : Expired(db[s], Made(r))}
        IN  Serve(r, db, aux, IF old = {} THEN {} ELSE {Command(r.t, r.of, "sweep", {}, old)}, job[r.t])

\* An error is thrown with throwOnErrors, and else answered as if nothing were
\* there, and false by writes; one of the opening is always thrown.
RocksdbWould(r) ==
    CASE r.do = "sweep" -> Drop(db, r.with)
      [] r.do = "put" -> Enveloped(r)
      [] r.do = "delete" -> Drop(db, SlotsAt(r.of, r.at))
      [] r.do = "clear" -> Drop(db, Between(r.of.ns))
      [] OTHER -> db
RocksdbFailed ==
    \E r \in UNION {Failing("rocksdb", do) : do \in {"read", "sweep", "put", "existing", "delete", "clear",
                                                     "snapshot", "pull", "collect"}} :
        \E d \in Outcomes(r, RocksdbWould(r)) :
            \/ Reject(r, d)
            \/ aux.boot = "ready" /\ Finish(r, d, aux, Failed(Answered(job[r.t], All(r.of), LAMBDA i : Answer(r.of.op, None, TRUE))))

\* disconnect stops the timer and closes the store.
RocksdbDisconnect(t, j) == j.op = "disconnect" /\ EnterWith(t, j, {}, [aux EXCEPT !.open = FALSE])

RocksdbCall(t, j) ==
    \/ RocksdbGet(t, j) \/ RocksdbGetMany(t, j) \/ RocksdbHas(t, j) \/ RocksdbHasMany(t, j)
    \/ RocksdbSet(t, j) \/ RocksdbSetMany(t, j) \/ RocksdbDelete(t, j) \/ RocksdbDeleteMany(t, j)
    \/ RocksdbClear(t, j) \/ RocksdbIterator(t, j) \/ RocksdbClearExpired(t, j) \/ RocksdbDisconnect(t, j)

RocksdbNext ==
    \/ adapter = "rocksdb" /\ \E t \in Tasks : NewCall(t, RocksdbCall)
    \/ RocksdbOpened \/ RocksdbNotOpened \/ RocksdbRead \/ RocksdbSwept \/ RocksdbPut \/ RocksdbExisting
    \/ RocksdbDeleted \/ RocksdbCleared \/ RocksdbSnapshot \/ RocksdbPulled \/ RocksdbCollected \/ RocksdbFailed
=============================================================================
