------------------------------ MODULE SqlTable ------------------------------
(***************************************************************************)
(* The table the SQL adapters keep their entries in, unique by key and     *)
(* namespace, with an `expires` column; and the statements they have in    *)
(* common.  A row that has expired stays until a statement deletes it.     *)
(*                                                                         *)
(* aux.boot: how far the constructor's promise of a connection is, which   *)
(* every statement awaits.  aux.open: the pool or the database was not     *)
(* ended.                                                                  *)
(***************************************************************************)
EXTENDS StorageCalls

CONSTANTS
    BatchSize,    \* entries of a batch that go into one statement
    PageSize      \* iterationLimit

ASSUME SqlAssumption == BatchSize \in Nat \ {0} /\ PageSize \in Nat \ {0}

SqlInit ==
    /\ aux \in [boot : {"pending"}, open : {TRUE}]
    /\ db \in [Slots -> {None, [val |-> Original, exp |-> None], [val |-> Original, exp |-> 0]}]

\* The statements of an adapter that are served next, or fail: the server rejects
\* them, before or after it did their work, or there is no connection.
Sent(name, do)    == {r \in flight : adapter = name /\ r.do = do}
Served(name, do)  == {r \in Sent(name, do) : aux.boot = "ready" /\ r.sent}
Failing(name, do) == {r \in Sent(name, do) : aux.boot = "failed" \/ (aux.boot = "ready" /\ (Faults \/ ~r.sent))}
Outcomes(r, d)    == IF aux.boot = "ready" /\ r.sent THEN {db, d} ELSE {db}

Boot(outcomes) == aux.boot = "pending" /\ \E b \in outcomes : Happen(db, [aux EXCEPT !.boot = b])

\* The first entries of a batch that were not yet in a statement, and the rest.
Chunk(j)  == {i \in All(j) : i >= j.i /\ i < j.i + BatchSize}
Beyond(j) == [j EXCEPT !.i = @ + BatchSize]
\* The statement do, or nothing, for the next chunk of a batch.
NextChunk(t, j, do) == IF Chunk(j) = {} THEN {} ELSE {Command(t, j, do, Chunk(j), {})}

---------------------------------------------------------------------------
(* SELECT ... WHERE key IN ..., judged by the Date.now() the call started with *)

Old(j, I)    == {s \in SlotsAt(j, I) : Expired(db[s], j.at)}
\* Mutant of Judged: what has expired is deleted, but still answered.
JudgedAll(j, I) == Answered(j, I, LAMBDA i : Answer(j.op, db[Slot(j, i)], FALSE))
Judged(j, I) == Answered(j, I, LAMBDA i : Answer(j.op, db[Slot(j, i)], Slot(j, i) \in Old(j, I)))

\* What has expired is deleted in a statement of its own before the call goes on
\* with rest.
SelectRows(r, j, rest) ==
    LET old == Old(r.of, r.at)
    IN  Serve(r, db, aux,
              IF old = {} THEN rest ELSE {Command(r.t, r.of, "sweep", r.at, old)}, j)

\* Mutant of Upserted: the statement leaves out the column of the value.
UpsertedEmpty(r) == [s \in Slots |-> IF s \in SlotsAt(r.of, r.at) THEN [val |-> None, exp |-> None] ELSE db[s]]
\* INSERT ... that updates the rows there are.
Upserted(r) == Write(db, r.of, r.at, IF r.of.live = None THEN None ELSE r.of.at + r.of.live)

Existing(j, I) == {s \in SlotsAt(j, I) : db[s] # None}
Existed(j, I) == Answered(j, All(j), LAMBDA i : j.res[i] \/ Slot(j, i) \in Existing(j, I))

---------------------------------------------------------------------------
(* ORDER BY key LIMIT PageSize, after the last key of the page before *)

\* Mutant of PageKeys: the next page begins at an OFFSET of as many rows as there were.
PageKeysOffset(j, n) ==
    LET ks == SelectSeq(Names, LAMBDA k : Visible(db[<<j.ns, k>>], n))
        o  == Len(j.out)
    IN  SubSeq(ks, o + 1, IF Len(ks) < o + PageSize THEN Len(ks) ELSE o + PageSize)

\* The keys are in the server's order; InOrder lists a set of their positions.
InOrder(S) == CHOOSE f \in [1..Cardinality(S) -> S] : \A l, m \in DOMAIN f : l < m => f[l] < f[m]
DuePage(j, n) == {i \in DOMAIN Names : /\ Visible(db[<<j.ns, Names[i]>>], n)
                                       /\ j.last = None \/ Before(j.last, Names[i])}
OnPage(due) == {i \in due : Cardinality({m \in due : m < i}) < PageSize}
PageKeys(j, n) ==
    LET page == InOrder(OnPage(DuePage(j, n)))
    IN  [m \in DOMAIN page |-> Names[page[m]]]

\* The rows of a page are yielded; a full page is followed by another, whose
\* statement is made, with a new Date.now(), when the caller pulls beyond it.
Page(r) ==
    LET j  == job[r.t]
        ks == PageKeys(j, r.with)
    IN  Serve(r, db, aux,
              IF Len(ks) < PageSize THEN {} ELSE {Command(r.t, j, "pull", {}, 0)},
              IF ks = <<>> THEN j
              ELSE [j EXCEPT !.last = ks[Len(ks)],
                             !.out = @ \o [i \in DOMAIN ks |-> [key |-> ks[i], val |-> db[<<j.ns, ks[i]>>].val]]])
Pull(r) == Serve(r, db, aux, {Command(r.t, job[r.t], "page", {}, now)}, job[r.t])

---------------------------------------------------------------------------
\* Mutant of ExpiredRows: `expires <= n`.
ExpiredRowsEarly(n) == {s \in Slots : Expired(db[s], n)}
\* clearExpired: `expires < n`, one moment later than a read finds it expired.
ExpiredRows(n) == {s \in Slots : Expired(db[s], n - 1)}

Timed(d) == aux.boot = "ready" /\ aux.open /\ d # db /\ Happen(d, aux)

\* A failure rejects the call: of a select, or of a statement that removes rows.
Rejects(name, removed(_)) ==
    \/ \E r \in UNION {Failing(name, do) : do \in {"select", "existing", "page"}} : Reject(r, db)
    \/ \E r \in UNION {Failing(name, do) : do \in {"sweep", "delete", "clear", "expire"}} :
          \E d \in Outcomes(r, Drop(db, removed(r))) : Reject(r, d)
Removed(r) ==
    CASE r.do = "sweep" -> r.with
      [] r.do = "delete" -> SlotsAt(r.of, r.at)
      [] r.do = "clear" -> In(r.of.ns)
      [] r.do = "expire" -> ExpiredRows(r.with)
=============================================================================
