--------------------------- MODULE DynamoAdapter ---------------------------
(***************************************************************************)
(* StorelyDynamo (storage/dynamo/src/index.ts): a table that is made if it *)
(* is not there; batch requests the service may leave unfinished; times of *)
(* expiry in whole seconds.                                                *)
(*                                                                         *)
(* aux.step: the next request of ensureTable; aux.table: the table of the  *)
(* service, which another client may make too.                             *)
(***************************************************************************)
EXTENDS EntryServer

CONSTANT SecondTicks    \* the ticks of now in a second

ASSUME DynamoAssumption == SecondTicks \in Nat \ {0}

Dy(do) == {r \in Served("dynamo", do) : aux.table = "active"}
DynamoFailing(do) ==
    Failing("dynamo", do) \cup {r \in Sent("dynamo", do) : aux.boot = "ready" /\ aux.table # "active"}

DynamoInit ==
    /\ adapter = "dynamo"
    /\ \E table \in {"none", "active"} :
          /\ aux = [boot |-> "pending", open |-> TRUE, step |-> "describe", since |-> 0, table |-> table]
          /\ IF table = "none" THEN db = [s \in Slots |-> None] ELSE Entries

---------------------------------------------------------------------------
(* ensureTable and createTable, which all operations await; an error is emitted *)

At(step)    == adapter = "dynamo" /\ aux.boot = "pending" /\ aux.step = step
Go(step)    == Happen(db, [aux EXCEPT !.step = step])
Ready(step) == Happen(db, [aux EXCEPT !.boot = "ready", !.step = step, !.since = now])

\* A table that is there is waited for; one that is not is described once more and
\* then created.
DynamoDescribed ==
    \/ At("describe") /\ IF aux.table = "none" THEN Go("describe again") ELSE Go("wait")
    \/ At("describe again") /\ IF aux.table = "none" THEN Go("create") ELSE Go("wait")
\* Mutant of DynamoCreated: what was created is not waited for.
DynamoCreatedOnly ==
    At("create") /\ Happen(db, [aux EXCEPT !.table = IF @ = "none" THEN "creating" ELSE @, !.step = "reap"])
\* Both who creates the table and who finds it in creation wait for it, and then
\* have the service drop what expires; it may say that this is so already.
DynamoCreated ==
    /\ At("create")
    /\ Happen(db, [aux EXCEPT !.table = IF @ = "none" THEN "creating" ELSE @, !.step = "wait to reap"])
DynamoWaited ==
    \/ At("wait") /\ aux.table = "active" /\ Ready("done")
    \/ At("wait to reap") /\ aux.table = "active" /\ Go("reap")
DynamoReaps   == At("reap") /\ Ready("done")
DynamoNoTable == Faults /\ adapter = "dynamo" /\ aux.boot = "pending" /\ Ready("failed")

\* The service makes the table active; another client creates it.
DynamoActive ==
    adapter = "dynamo" /\ aux.table = "creating" /\ Happen(db, [aux EXCEPT !.table = "active"])
DynamoOther ==
    adapter = "dynamo" /\ aux.table = "none" /\ Happen(db, [aux EXCEPT !.table = "creating"])

\* Operations reach the service only when the table is there, unless a request of
\* ensureTable failed.
TableReady == adapter = "dynamo" /\ aux.boot = "ready" /\ aux.step # "failed" => aux.table = "active"

---------------------------------------------------------------------------
(* Entries *)

\* expiresAt is a second after the TTL, in whole seconds, and is read a second
\* early: the entry has expired from the beginning of the second its TTL ends in.
\* Mutant of DynamoEnd: without the second that is added.
DynamoEndShort(r) == IF r.of.live = None THEN None ELSE SecondTicks * ((Made(r) + r.of.live - SecondTicks) \div SecondTicks)
DynamoEnd(r) ==
    IF r.of.live = None THEN None
    ELSE SecondTicks * ((Made(r) + r.of.live) \div SecondTicks)
DynamoItems(r, I) == Write(db, r.of, I, DynamoEnd(r))

DynamoSet(t, j) == j.op = "set" /\ Enter(t, j, Each(t, j, "put"))
DynamoPut == \E r \in Dy("put") : Serve(r, DynamoItems(r, r.at), aux, {}, True(job[r.t], r.at))

\* setMany: chunk by chunk, all answered true at first.  The service takes some of a
\* chunk; what it leaves is answered false, at the last entry of the key.
WriteFrom(t, j, p) ==
    IF Chunk(j, p, WriteChunk) = {} THEN {} ELSE {Command(t, j, "write", Chunk(j, p, WriteChunk), p)}
DynamoSetMany(t, j) == j.op = "setMany" /\ Enter(t, True(j, All(j)), WriteFrom(t, j, 1))
LastOf(j, i) == CHOOSE m \in All(j) : j.keys[m] = j.keys[i] /\ \A n \in All(j) : j.keys[n] = j.keys[i] => n <= m
\* Mutant of DynamoWritten: what the service leaves is not looked at.
DynamoWrittenBlind ==
    \E r \in Dy("write") : ~Repeats(r) /\ \E P \in SUBSET r.at :
        Serve(r, DynamoItems(r, P), aux, WriteFrom(r.t, r.of, r.with + WriteChunk), job[r.t])
DynamoWritten ==
    \E r \in Dy("write") :
        /\ ~Repeats(r)
        /\ \E P \in SUBSET r.at :
              LET left == {LastOf(r.of, i) : i \in r.at \ P}
              IN  Serve(r, DynamoItems(r, P), aux, WriteFrom(r.t, r.of, r.with + WriteChunk),
                        Answered(job[r.t], left, LAMBDA i : FALSE))

DynamoGet(t, j) == j.op = "get" /\ Enter(t, j, Each(t, j, "read"))
DynamoHas(t, j) == j.op = "has" /\ Enter(t, j, Each(t, j, "read"))
DynamoRead ==
    \E r \in Dy("read") :
        Serve(r, db, aux, IF Old(r.of, r.at, now) = {} THEN {} ELSE {Command(r.t, r.of, "sweep", r.at, {})},
              Judged(job[r.t], r.at, now))
DynamoSwept == \E r \in Dy("sweep") : Serve(r, Drop(db, SlotsAt(r.of, r.at)), aux, {}, job[r.t])

\* getMany, hasMany: chunk by chunk, each asked for again until the service has left
\* nothing of it; then all are judged, and those that have expired are deleted.
\* with: the rows there are so far.
ReadFrom(t, j, p, rows) ==
    IF Chunk(j, p, ReadChunk) = {} THEN {Command(t, j, "judge", All(j), rows)}
    ELSE {Command(t, j, "batch", Chunk(j, p, ReadChunk), <<p, rows>>)}
NoRows == [s \in Slots |-> None]
DynamoGetMany(t, j) == j.op = "getMany" /\ Enter(t, j, IF All(j) = {} THEN {} ELSE ReadFrom(t, j, 1, NoRows))
DynamoHasMany(t, j) == j.op = "hasMany" /\ Enter(t, j, IF All(j) = {} THEN {} ELSE ReadFrom(t, j, 1, NoRows))
DynamoBatch ==
    \E r \in Dy("batch") :
        /\ ~Repeats(r)
        /\ \E P \in (SUBSET r.at) \ {{}} :
              LET rows == [s \in Slots |-> IF s \in SlotsAt(r.of, P) THEN db[s] ELSE r.with[2][s]]
              IN  Serve(r, db, aux,
                        IF P = r.at THEN ReadFrom(r.t, r.of, r.with[1] + ReadChunk, rows)
                        ELSE {Command(r.t, r.of, "batch", r.at \ P, <<r.with[1], rows>>)},
                        job[r.t])
DynamoJudged ==
    \E r \in Sent("dynamo", "judge") :
        LET old == {i \in r.at : Expired(r.with[Slot(r.of, i)], now)}
        IN  Serve(r, db, aux, {Command(r.t, r.of, "sweep", {i}, {}) : i \in old},
                  Answered(job[r.t], r.at, LAMBDA i : Answer(r.of.op, r.with[Slot(r.of, i)], i \in old)))

DynamoDelete(t, j)     == j.op = "delete" /\ Enter(t, j, Each(t, j, "delete"))
DynamoDeleteMany(t, j) == j.op = "deleteMany" /\ Enter(t, j, Each(t, j, "delete"))
DynamoDeleted ==
    \E r \in Dy("delete") :
        Serve(r, Drop(db, SlotsAt(r.of, r.at)), aux, {}, Existed(job[r.t], r.at))

\* clear: the keys of each page are deleted, at the same time, before the next page.
PageAt(ns, p) ==
    {<<ns, Names[q]>> : q \in {q \in DOMAIN Names : q >= p /\ q < p + PageSize}} \cap {s \in Slots : db[s] # None}
NextPage(t, j, do, p) == IF p > Len(Names) THEN {} ELSE {Command(t, j, do, {}, p)}
DynamoClear(t, j) == j.op = "clear" /\ Enter(t, j, NextPage(t, j, "scan to clear", 1))
DynamoScannedToClear ==
    \E r \in Dy("scan to clear") :
        LET S == PageAt(r.of.ns, r.with)
        IN  Serve(r, db, aux,
                  IF S = {} THEN NextPage(r.t, r.of, "scan to clear", r.with + PageSize)
                  ELSE {Command(r.t, r.of, "clear", {}, <<s, r.with>>) : s \in S},
                  job[r.t])
LastOfPage(r) == \A c \in Mine(flight, r.t, r.c) : c = r
\* Mutant of AfterClear: the first page of a scan is taken for all of it.
AfterClearFirst(r) == {}
AfterClear(r) == IF LastOfPage(r) THEN NextPage(r.t, r.of, "scan to clear", r.with[2] + PageSize) ELSE {}
DynamoCleared ==
    \E r \in Dy("clear") : Serve(r, Drop(db, {r.with[1]}), aux, AfterClear(r), job[r.t])

\* iterator: page by page, judged when the page is there; what has expired is
\* deleted between the entries that are yielded.
DynamoIterator(t, j) == j.op = "iterator" /\ Enter(t, j, NextPage(t, j, "scan", 1))
DynamoScanned ==
    \E r \in Dy("scan") :
        Serve(r, db, aux,
              {Command(r.t, r.of, "pull", {}, <<r.with, [s \in PageAt(r.of.ns, r.with) |-> db[s]], now>>)}, job[r.t])
DynamoPulled ==
    \E r \in Sent("dynamo", "pull") :
        LET rows == r.with[2]
            s    == First(rows)
            rest == Command(r.t, r.of, "pull", {}, <<r.with[1], Without(rows, s), r.with[3]>>)
        IN  IF DOMAIN rows = {} THEN Serve(r, db, aux, NextPage(r.t, r.of, "scan", r.with[1] + PageSize), job[r.t])
            ELSE IF Expired(rows[s], r.with[3])
            THEN Serve(r, db, aux, {Command(r.t, r.of, "drop", {}, <<s, rest>>)}, job[r.t])
            ELSE Serve(r, db, aux, {rest}, Yield(job[r.t], s[2], rows[s].val))
DynamoDropped ==
    \E r \in Dy("drop") : Serve(r, Drop(db, {r.with[1]}), aux, {r.with[2]}, job[r.t])

\* What fails of one key is answered as if it were not there; of a batch, for all of
\* it, and a batch that names a key twice fails.  A failed scan ends clear, and
\* rejects from the iterator.
DynamoWould(r) ==
    CASE r.do \in {"sweep", "delete"} -> Drop(db, SlotsAt(r.of, r.at))
      [] r.do \in {"clear", "drop"} -> Drop(db, {r.with[1]})
      [] r.do = "put" -> DynamoItems(r, r.at)
      [] r.do = "write" -> IF Repeats(r) THEN db ELSE DynamoItems(r, r.at)
      [] OTHER -> db
DynamoGoesOn(j, r) ==
    CASE r.do \in {"read", "put", "delete"} -> Unsure(j, r.at)
      [] r.do \in {"write", "batch"} -> Failed(Answered(j, All(j), LAMBDA i : Answer(j.op, None, TRUE)))
      [] r.do \in {"clear", "scan to clear"} -> Failed(j)
      [] OTHER -> j
DynamoFailed ==
    \E r \in {r \in Dy("write") \cup Dy("batch") : Repeats(r)}
              \cup UNION {DynamoFailing(do) : do \in {"read", "put", "sweep", "delete", "write", "batch",
                                                    "scan to clear", "clear", "drop"}} :
        \E d \in IF aux.table = "active" THEN Outcomes(r, DynamoWould(r)) ELSE {db} :
            Serve(r, d, aux, IF r.do = "clear" THEN AfterClear(r) ELSE IF r.do = "drop" THEN {r.with[2]} ELSE {},
                  DynamoGoesOn(job[r.t], r))
DynamoRejected == \E r \in DynamoFailing("scan") : Reject(r, db)

\* disconnect: there is nothing to close.
DynamoDisconnect(t, j) == j.op = "disconnect" /\ Enter(t, j, {})

DynamoCall(t, j) ==
    \/ DynamoGet(t, j) \/ DynamoGetMany(t, j) \/ DynamoHas(t, j) \/ DynamoHasMany(t, j) \/ DynamoSet(t, j)
    \/ DynamoSetMany(t, j) \/ DynamoDelete(t, j) \/ DynamoDeleteMany(t, j) \/ DynamoClear(t, j)
    \/ DynamoIterator(t, j) \/ DynamoDisconnect(t, j)

DynamoNext ==
    \/ adapter = "dynamo" /\ \E t \in Tasks : NewCall(t, DynamoCall)
    \/ DynamoDescribed \/ DynamoCreated \/ DynamoWaited \/ DynamoReaps \/ DynamoNoTable \/ DynamoActive
    \/ DynamoOther \/ DynamoPut \/ DynamoWritten \/ DynamoRead \/ DynamoSwept \/ DynamoBatch \/ DynamoJudged
    \/ DynamoDeleted \/ DynamoScannedToClear \/ DynamoCleared \/ DynamoScanned \/ DynamoPulled
    \/ DynamoDropped \/ DynamoFailed \/ DynamoRejected
=============================================================================
