---------------------------- MODULE EntryServer ----------------------------
(***************************************************************************)
(* What the adapters of memcache, etcd, dynamo, mongo and rocksdb have in  *)
(* common: entries that carry their own time of expiry, which the adapter  *)
(* judges by its own clock and deletes in a command of their own, and      *)
(* which the server may drop by itself some time after.                    *)
(*                                                                         *)
(* aux.boot: how far the constructor's promise of a connection, a table or *)
(* an open database is, which every operation awaits; aux.since: when it   *)
(* was there.  aux.open: not disconnected.                                 *)
(***************************************************************************)
EXTENDS StorageCalls

CONSTANTS
    WriteChunk, ReadChunk,    \* entries of a batch that go into one command
    PageSize                  \* entries of a page of a scan

ASSUME EntriesAssumption == {WriteChunk, ReadChunk, PageSize} \subseteq Nat \ {0}

\* What was there before has expired, or expires while the first calls are under way.
Entries == \E e \in {0, 1} : db \in [Slots -> {None, [val |-> Original, exp |-> e]}]

\* The commands that are served next, or fail, before or after the server did
\* their work.
Sent(name, do)    == {r \in flight : adapter = name /\ r.do = do}
Served(name, do)  == {r \in Sent(name, do) : aux.boot = "ready" /\ r.sent}
Failing(name, do) == {r \in Sent(name, do) : aux.boot = "failed" \/ (aux.boot = "ready" /\ (Faults \/ ~r.sent))}
Outcomes(r, d)    == IF aux.boot = "ready" /\ r.sent THEN {db, d} ELSE {db}

Boot(name, b) == adapter = name /\ aux.boot = "pending" /\ Happen(db, [aux EXCEPT !.boot = b, !.since = now])
\* When what a call does first was done.
Made(r) == Max({r.of.at, aux.since})

\* One command for each entry, all at the same time; or for a chunk, from entry p on.
Each(t, j, do) == {Command(t, j, do, {i}, {}) : i \in All(j)}
Chunk(j, p, size) == {i \in All(j) : i >= p /\ i < p + size}
Repeats(r) == \E i, m \in r.at : i # m /\ r.of.keys[i] = r.of.keys[m]

\* Mutants: what has expired a moment later; an answer whatever has expired.
OldEarly(j, I, n) == {s \in SlotsAt(j, I) : Expired(db[s], n + 1)}
JudgedAll(j, I, n) == Answered(j, I, LAMBDA i : Answer(j.op, db[Slot(j, i)], FALSE))
\* Entries judged by the clock at n.
Old(j, I, n)    == {s \in SlotsAt(j, I) : Expired(db[s], n)}
Judged(j, I, n) == Answered(j, I, LAMBDA i : Answer(j.op, db[Slot(j, i)], Expired(db[Slot(j, i)], n)))
Existed(j, I)   == Answered(j, I, LAMBDA i : db[Slot(j, i)] # None)
True(j, I)      == Answered(j, I, LAMBDA i : TRUE)

\* The entries of a walk in hand, in the server's order; and an entry yielded by an
\* iterator.
First(rows)      == CHOOSE s \in DOMAIN rows : \A u \in DOMAIN rows : u = s \/ Before(s[2], u[2])
Without(rows, s) == [u \in DOMAIN rows \ {s} |-> rows[u]]
Yield(j, k, v) == [j EXCEPT !.out = Append(@, [key |-> k, val |-> v])]

\* The server drops an entry whose TTL has passed.
Reaped(names) ==
    adapter \in names /\ \E s \in Slots : Expired(db[s], now) /\ Happen(Drop(db, {s}), aux)
=============================================================================
