----------------------------- MODULE EntryProofs -----------------------------
(***************************************************************************)
(* Proofs about the adapters of memcache, etcd, dynamo, mongo and rocksdb, *)
(* for every number of callers, keys, batches and namespaces, every size   *)
(* of chunks and pages, and every clock.                                   *)
(*                                                                         *)
(* A call has things to settle (Items): the entries of its batch, or the   *)
(* keys of the namespace it clears or goes through.  Each is settled, or a *)
(* command in flight, or one that is sent after it, has yet to settle it   *)
(* (Covers).  Commands carry rows that were read before (Hand): what the   *)
(* call knows of them is what they were when it saw them (Carries), and    *)
(* who finds one expired and sweeps it finds the same row, or one that was *)
(* written meanwhile (SweptOK).                                            *)
(***************************************************************************)
EXTENDS EntryAdapters, FiniteSetTheorems, WellFoundedInduction, TLAPS

---------------------------------------------------------------------------
(* What is assumed of the constants *)

\* EffectsReportedElse is about an etcd instance without a TTL of its own, whose set
\* after disconnect would answer true and write nothing; and about batches of dynamo
\* that name a key once, or go into one chunk: of one that names a key in two chunks,
\* what the service leaves of the first is answered at the second.
Distinct(b) == \A ns \in Namespaces, i, m \in DOMAIN b : Stored[<<ns, b[i]>>] = Stored[<<ns, b[m]>>] => i = m
Reports ==
    /\ "etcd" \in Adapters => SharedTtl = None
    /\ "dynamo" \in Adapters => \A b \in Batches : Len(b) <= WriteChunk \/ Distinct(b)
\* WalksCompleteElse is about keys that come before "~", and no limit that cuts an iteration.
Whole == "rocksdb" \in Adapters => PastTilde = {} /\ (IterationLimit = 0 \/ Len(Names) <= IterationLimit)
\* SweepSafe: flush of memcache empties all namespaces.
Alone == "memcache" \in Adapters => \A m, n \in Namespaces : m = n
\* TtlKept: StorelyMongo takes a TTL that is not positive for none.
Positive == "mongo" \in Adapters => \A live \in Lives["mongo"] \ {None} : live > 0

---------------------------------------------------------------------------
(* Calls *)

WalkOps == {"clear", "iterator", "clearExpired", "disconnect"}

\* A call is a record with these fields.
Fields == {"op", "c", "ns", "keys", "live", "at", "i", "last", "out", "put", "failed", "unsure", "over", "res"}
IsJob(j) == j = [f \in Fields |-> j[f]]

\* What a command knows of its call, and what of it stays until it ends.
Of(j) == [c |-> j.c, op |-> j.op, ns |-> j.ns, keys |-> j.keys, live |-> j.live, at |-> j.at]
Positions == UNION {DOMAIN b : b \in Batches}

\* The keys of a setMany of dynamo are apart, or go into one chunk.
Apart(o, a) ==
    a = "dynamo" /\ o.op = "setMany" /\ Reports =>
        Len(o.keys) <= WriteChunk \/ \A i, m \in DOMAIN o.keys : o.keys[i] = o.keys[m] => i = m
\* o is what a command knows of a call of adapter a, when n were made and it is time m.
OfOK(o, a, n, m) ==
    /\ o = Of(o) /\ o.op \in KeyOps \cup WalkOps /\ o.c \in 1..n
    /\ o.ns \in Namespaces /\ o.keys \in Seq(Keys) /\ DOMAIN o.keys \subseteq Positions
    /\ o.live \in Lives[a] \cup {None} /\ o.at \in 0..m
    /\ (o.op \in SingleOps => Len(o.keys) = 1) /\ (o.op \notin KeyOps => o.keys = <<>>)
    /\ Apart(o, a)

CallOK(j) ==
    /\ IsJob(j) /\ j.put \subseteq All(j) /\ j.failed \in BOOLEAN /\ DOMAIN j.res = All(j)
    /\ j.over = In(j.ns) /\ j.out \in Seq([key : Keys, val : Values])

\* The keys of a namespace from the one at p on; what a call is to settle.
From(ns, p) == {<<ns, Names[q]>> : q \in {q \in DOMAIN Names : q >= p}}
Items(j) == IF j.op \in {"clear", "iterator"} THEN In(j.ns) ELSE All(j)

---------------------------------------------------------------------------
(* Commands *)

Fits(do, op) ==
    /\ do \in {"read", "find", "count"} => op \in ReadOps \cup HasOps
    /\ do \in {"batch", "judge"} => op \in {"getMany", "hasMany"}
    /\ do \in {"set", "put", "upsert", "bulk", "write"} => op \in WriteOps
    /\ do = "write" => op = "setMany"
    /\ do \in {"existing", "delete"} => op \in DeleteOps
    /\ do = "sweep" => op \in ReadOps \cup HasOps \cup {"clearExpired"}
    /\ do \in {"all", "snapshot", "scan", "page", "pull", "drop"} => op = "iterator"
    /\ do \in {"clear", "scan to clear"} => op = "clear"
    /\ do = "collect" => op = "clearExpired"
    /\ do \in {"revoke", "close"} => op = "disconnect"

\* The rows a command carries, and the keys it has them of; the command that follows
\* one that drops a key.
NoHand == [s \in {} |-> None]
Hand(q, a) ==
    IF q.do = "pull" THEN (IF a \in {"etcd", "rocksdb"} THEN q.with ELSE q.with[2])
    ELSE IF q.do = "batch" THEN q.with[2] ELSE IF q.do = "judge" THEN q.with ELSE NoHand
BeenRead(q) ==
    IF q.do = "batch" THEN {i \in All(q.of) : i < q.with[1] + ReadChunk /\ i \notin q.at}
    ELSE IF q.do = "judge" THEN All(q.of) ELSE {}
InHand(q, a) == IF q.do = "pull" THEN DOMAIN Hand(q, a) ELSE SlotsAt(q.of, BeenRead(q))
Parked(r, a) == IF r.do = "drop" THEN (IF a = "etcd" THEN r.with[2] ELSE {r.with[2]}) ELSE {}

\* Commands that go through a batch in chunks, with where theirs begins.
Chunked(q, a) == q.do = "write" \/ (a = "mongo" /\ q.of.op = "deleteMany" /\ q.do \in {"existing", "delete"})

\* What is left of a walk after the page in hand.
Ahead(q, a) ==
    IF a = "dynamo" THEN From(q.of.ns, q.with[1] + PageSize) ELSE IF a = "mongo" THEN From(q.of.ns, q.with[1]) ELSE {}

\* A lease, or none.
IsLease(x) == x = None \/ (x.made \in Nat /\ x.for \in Nat)

\* What a command of adapter a is like, at time m.
PullOK(q, a, m) ==
    /\ \A s \in DOMAIN Hand(q, a) : s \in In(q.of.ns) /\ s \notin Ahead(q, a) /\ Hand(q, a)[s] \in Rows \ {None}
    /\ a \in {"etcd", "rocksdb"} => DOMAIN Hand(q, a) # {}
    /\ a \in {"dynamo", "mongo"} => q.with[1] \in Nat \ {0}
    /\ a = "dynamo" => q.with[3] \in 0..m
ShapeOK(q, a, m) ==
    /\ (q.do = "read" /\ a # "rocksdb") => \E i \in All(q.of) : q.at = {i}
    /\ Chunked(q, a) => q.with \in Nat \ {0} /\ q.at = Chunk(q.of, q.with, WriteChunk)
    /\ q.do = "batch" =>
          q.with[1] \in Nat \ {0} /\ q.at \subseteq Chunk(q.of, q.with[1], ReadChunk) /\ q.with[2] \in [Slots -> Rows]
    /\ q.do = "judge" => q.at = All(q.of) /\ q.with \in [Slots -> Rows]
    /\ q.do = "write" => a = "dynamo" /\ (q.with = 1 \/ q.with > WriteChunk)
    /\ (q.do = "put" /\ a = "dynamo") => q.of.op = "set"
    /\ q.do = "pull" => PullOK(q, a, m)
    /\ q.do \in {"scan", "page", "scan to clear"} => q.with \in Nat \ {0}
    /\ (q.do = "clear" /\ a = "dynamo") => q.with[1] \in In(q.of.ns) /\ q.with[2] \in Nat \ {0}
    /\ q.do = "drop" => q.with[1] \in In(q.of.ns)
    /\ (q.do = "put" /\ a = "etcd") => IsLease(q.with)
    /\ (q.do = "put" /\ a = "etcd" /\ q.of.live # None) =>
          /\ q.with # None /\ q.with.made \in 0..q.of.at /\ q.with.for = Bucket(q.of.live)
          /\ 2 * (q.of.at - q.with.made) < q.with.for

IsCommand(q) == q = [f \in {"t", "c", "do", "at", "with", "sent", "of"} |-> q[f]]

\* Only what memcache gave up waiting for is in flight for no call, and sends nothing.
PlainOK(q, a, n, m) ==
    /\ IsCommand(q) /\ q.t \in Tasks /\ q.c \in {0, q.of.c}
    /\ q.c = 0 => a = "memcache" /\ q.do \in {"sweep", "set", "delete", "clear"}
    /\ OfOK(q.of, a, n, m) /\ q.at \subseteq All(q.of) /\ Fits(q.do, q.of.op) /\ ShapeOK(q, a, m)
CommandOK(r, a, n, m) ==
    /\ PlainOK(r, a, n, m)
    /\ \A q \in Parked(r, a) : PlainOK(q, a, n, m) /\ q.do = "pull" /\ q.t = r.t /\ q.c = r.c /\ q.of = r.of
    /\ \A p, q \in Parked(r, a) : p = q

\* What a command of adapter a, and those that follow it, have yet to settle.
Settling(q, a) ==
    IF Chunked(q, a) THEN {i \in All(q.of) : i >= q.with}
    ELSE IF q.do \in {"read", "find", "count", "set", "put", "upsert", "bulk", "existing", "delete"} THEN q.at
    ELSE IF q.do \in {"batch", "judge"} THEN All(q.of)
    ELSE IF q.do = "pull" THEN DOMAIN Hand(q, a) \cup Ahead(q, a)
    ELSE IF q.do \in {"scan", "page", "scan to clear"} THEN From(q.of.ns, q.with)
    ELSE IF q.do = "clear" /\ a = "dynamo" THEN {q.with[1]} \cup From(q.of.ns, q.with[2] + PageSize)
    ELSE IF q.do \in {"clear", "all", "snapshot"} THEN In(q.of.ns)
    ELSE {}
Covers(r, a) == UNION {Settling(q, a) : q \in {r} \cup Parked(r, a)}

---------------------------------------------------------------------------
(* The invariant *)

\* What is told of a call's writes is what became of them.
Tells(j, a) == Reports /\ ~(a = "etcd" /\ j.op = "setMany")
\* The call judges late, at time n: JudgedLate, before it ends.
Moved(j, a, n) ==
    /\ j.at < n
    /\ \/ a = "dynamo" /\ j.op \in {"getMany", "hasMany"}
       \/ a \in {"etcd", "rocksdb"} /\ j.op = "iterator"

\* Item i of a call that saw H is settled, at time n.
AnswerOK(j, i, H, a, n) ==
    /\ j.op \in ReadOps => j.res[i] \in H[Slot(j, i)] \/ (Moved(j, a, n) /\ j.res[i] = None)
    /\ j.op \in HasOps => /\ j.res[i] \in BOOLEAN
                          /\ j.res[i] => \E x \in H[Slot(j, i)] : x \notin {None, Stale}
                          /\ ~j.res[i] => None \in H[Slot(j, i)] \/ Moved(j, a, n)
    /\ j.op \in WriteOps => j.res[i] \in BOOLEAN /\ (Tells(j, a) => (j.res[i] <=> i \in j.put))
    /\ j.op \in DeleteOps => /\ j.res[i] \in BOOLEAN /\ None \in H[Slot(j, i)]
                             /\ j.res[i] => \E x \in H[Slot(j, i)] : x # None
    /\ (j.op = "clear" /\ Whole) => None \in H[i]
    /\ (j.op = "iterator" /\ Whole) =>
          None \in H[i] \/ Moved(j, a, n) \/ \E m \in DOMAIN j.out : j.out[m].key = i[2]
\* A command of it failed.
Excused(j, i, a) ==
    /\ j.failed \/ (j.op \in KeyOps /\ i \in j.unsure)
    /\ (j.op \in WriteOps /\ Tells(j, a)) => (j.res[i] => i \in j.put)
Settled(j, i, H, a, n) == AnswerOK(j, i, H, a, n) \/ Excused(j, i, a)
\* It is not settled yet.
Open(j, i, H, a) ==
    /\ j.op \in WriteOps => j.res[i] \in BOOLEAN /\ i \notin j.put /\ (j.res[i] => a = "dynamo" /\ j.op = "setMany")
    /\ j.op \in DeleteOps => j.res[i] \in BOOLEAN /\ (j.res[i] => \E x \in H[Slot(j, i)] : x # None)

\* The rows d, as they are at time m, are noted in H.
Noted(j, H, d, m) == \A s \in Concerns(j) : Looks(d[s], j.at, m) \subseteq H[s]

Waits(j, F, a, H, n) ==
    \A i \in Items(j) : Settled(j, i, H, a, n) \/ (Open(j, i, H, a) /\ \E r \in F : i \in Covers(r, a))

\* What an iterator has yielded.
OutOK(j, F, a, H) ==
    j.op = "iterator" =>
        /\ \A i, m \in DOMAIN j.out : j.out[i].key = j.out[m].key => i = m
        /\ \A i \in DOMAIN j.out :
              LET s == <<j.ns, j.out[i].key>> IN j.out[i].val \in H[s] /\ \A r \in F : s \notin Covers(r, a)

\* The rows in hand will be judged by the clock at JudgeAt, where they do not tell
\* whether they have been seen to expire.
JudgeAt(q, a, x) ==
    IF q.do = "pull" /\ a = "dynamo" THEN q.with[3]
    ELSE IF q.do = "pull" /\ a = "mongo" THEN (IF q.of.at < x.since THEN x.since ELSE q.of.at) ELSE q.of.at
SeenAt(row, m, S) == IF Visible(row, m) THEN row.val \in S ELSE None \in S
\* No row is of an entry that is still to be written.
Unwritten(q, d) ==
    \A s \in Slots : d[s] # None /\ d[s].val[1] = q.of.c => \A i \in All(q.of) : i >= q.with => d[s].val[2] # i
HandSeen(q, H, a, x) ==
    /\ \A s \in InHand(q, a) : SeenAt(Hand(q, a)[s], JudgeAt(q, a, x), H[s])
    /\ (q.do = "pull" /\ a = "mongo") => x.boot # "pending"
Carries(r, H, a, x, d) ==
    /\ \A q \in {r} \cup Parked(r, a) : HandSeen(q, H, a, x)
    /\ r.do = "write" => Unwritten(r, d)

\* Commands of one call in flight at the same time.
Together(F, a) ==
    \A q, r \in F :
        \/ q = r
        \/ q.of.op \in KeyOps /\ q.do # "write"
        \/ a = "dynamo" /\ q.do = "clear" /\ r.do = "clear" /\ q.with[2] = r.with[2]

\* What is still to be written in chunks has been answered true in advance.
PutOK(j, F) ==
    \A r \in F : r.do = "write" =>
        \A i \in All(j) : i >= r.with => j.res[i] \in BOOLEAN /\ i \notin j.put /\ (Reports => j.res[i])

TaskOK(t) ==
    job[t] # Idle =>
        /\ CallOK(job[t]) /\ OfOK(Of(job[t]), adapter, calls, now) /\ job[t].op \in Ops[t]
        /\ Mine(flight, t, job[t].c) # {} /\ (\A r \in Mine(flight, t, job[t].c) : r.of = Of(job[t]))
        /\ \A r \in flight : r.of.c = job[t].c => r.t = t
        /\ Noted(job[t], seen[t], db, now)
        /\ Waits(job[t], Mine(flight, t, job[t].c), adapter, seen[t], now)
        /\ OutOK(job[t], Mine(flight, t, job[t].c), adapter, seen[t])
        /\ Together(Mine(flight, t, job[t].c), adapter) /\ PutOK(job[t], Mine(flight, t, job[t].c))
        /\ \A r \in Mine(flight, t, job[t].c) : Carries(r, seen[t], adapter, aux, db)

\* What a sweep is about to delete was expired when it was found, and is still there,
\* or gone, or has been written since.
Targets(r, a) ==
    IF r.do = "drop" THEN {r.with[1]}
    ELSE IF r.do # "sweep" THEN {}
    ELSE IF a = "rocksdb" THEN r.with ELSE IF a = "mongo" THEN {p[1] : p \in r.with} ELSE SlotsAt(r.of, r.at)
SweptOK(r, a, d, D, m) ==
    /\ \A s \in Targets(r, a) \cap Slots : d[s] = None \/ Expired(d[s], m) \/ s \in D[r.of.c]
    /\ \A q \in {r} \cup Parked(r, a) : \A s \in InHand(q, a) :
          Hand(q, a)[s] # None => d[s] \in {None, Hand(q, a)[s]} \/ s \in D[r.of.c]

\* The table, to those whom ensureTable has let pass.
TableOK(x) ==
    /\ x.step = "reap" => x.table = "active"
    /\ (x.boot = "ready" /\ x.step # "failed") => x.table = "active"
LeasesOK(x, m) ==
    /\ x.leases = [b \in {Bucket(l) : l \in Lives["etcd"] \ {None}} |-> x.leases[b]]
    /\ IsLease(x.shared)
    /\ \A b \in DOMAIN x.leases : x.leases[b] # None => x.leases[b].made \in 0..m /\ x.leases[b].for = b
AuxOK(x, a, m) ==
    /\ x = [f \in DOMAIN x |-> x[f]] /\ {"boot", "since", "open"} \subseteq DOMAIN x /\ x.since \in 0..m
    /\ a = "dynamo" => {"step", "table"} \subseteq DOMAIN x /\ TableOK(x)
    /\ a = "etcd" => {"leases", "shared", "on"} \subseteq DOMAIN x /\ LeasesOK(x, m)

Past(d, n) == \A s \in Slots : d[s] # None => d[s].val[1] <= n
Types ==
    /\ adapter \in Adapters /\ now \in 0..MaxTime[adapter] /\ calls \in 0..MaxCalls
    /\ db \in [Slots -> Rows] /\ Past(db, calls) /\ AuxOK(aux, adapter, now)
    /\ job = [t \in Tasks |-> job[t]]
FlightOK(r) == CommandOK(r, adapter, calls, now) /\ SweptOK(r, adapter, db, dirty, now)

Promises == ReadsCurrentElse /\ (Reports => EffectsReportedElse) /\ (Whole => WalksCompleteElse)

CallsInv == Types /\ (\A r \in flight : FlightOK(r)) /\ \A t \in Tasks : TaskOK(t)
IInv == CallsInv /\ Promises

---------------------------------------------------------------------------
(* Rows and what they look like *)

LEMMA SlotIn == ASSUME NEW j, NEW a, NEW n, NEW m, OfOK(Of(j), a, n, m), NEW i \in All(j) PROVE Slot(j, i) \in Slots
  <1>1. j.ns \in Namespaces /\ j.keys \in Seq(Keys) /\ i \in DOMAIN j.keys
    BY DEF OfOK, Of, All
  <1> QED BY <1>1 DEF Slot, Slots

\* A row is what a call that looks at it now has seen, by every clock from its beginning on.
LEMMA RowLooks ==
    ASSUME NEW row \in Rows, NEW at \in Nat, NEW n \in Nat, NEW m \in Nat, at <= m, m <= n
    PROVE  /\ SeenAt(row, m, Looks(row, at, n))
           /\ row # None => row.val \notin {None, Stale} /\ \E v \in Looks(row, at, n) : v # None
  <1>1. row # None => row.val \in Values /\ row.exp \in Int \cup {None}
    BY DEF Rows, Row
  <1>2. row # None => row.val \notin {None, Stale} /\ Stale # None
    BY <1>1, CallsAssumption
  <1>3. Visible(row, m) => row # None /\ Visible(row, at)
    BY <1>1, CallsAssumption DEF Visible, Expired
  <1>4. Visible(row, n) => Visible(row, m)
    BY <1>1, CallsAssumption DEF Visible, Expired
  <1>5. row # None /\ ~Visible(row, n) => Expired(row, n)
    BY DEF Visible
  <1>6. Visible(row, n) => row # None /\ Visible(row, at)
    BY <1>3, <1>4
  <1> QED BY <1>1, <1>2, <1>3, <1>4, <1>5, <1>6 DEF Looks, SeenAt

LEMMA RowsOf ==
    ASSUME NEW v \in Values, NEW e \in Int \cup {None} PROVE [val |-> v, exp |-> e] \in Rows \ {None}
  BY CallsAssumption DEF Rows, Row

LEMMA DropRows ==
    ASSUME NEW S, db \in [Slots -> Rows]
    PROVE  /\ Drop(db, S) \in [Slots -> Rows]
           /\ \A s \in Slots : Drop(db, S)[s] = IF s \in S THEN None ELSE db[s]
  BY DEF Drop, Rows

LEMMA SeenGrows ==
    ASSUME NEW row, NEW m, NEW S, NEW T, S \subseteq T, SeenAt(row, m, S) PROVE SeenAt(row, m, T)
  BY DEF SeenAt

LEMMA EntriesIn == ASSUME NEW S, NEW o \in Seq(S) PROVE \A i \in DOMAIN o : o[i] \in S
  OBVIOUS

LEMMA EntriesAre == ASSUME NEW S, NEW o \in Seq(S) PROVE Len(o) \in Nat /\ DOMAIN o = 1..Len(o)
  OBVIOUS

---------------------------------------------------------------------------
(* What a step leaves as it was *)

\* What every step does: it moves the clock and the count of calls on, the adapter
\* stays the one it is, and connects once.
Goes ==
    /\ adapter' = adapter /\ now' \in 0..MaxTime[adapter] /\ now <= now'
    /\ calls' \in 0..MaxCalls /\ calls <= calls' /\ db' \in [Slots -> Rows] /\ Past(db', calls')
    /\ AuxOK(aux', adapter, now')
    /\ aux.boot # "pending" => aux'.boot = aux.boot /\ aux'.since = aux.since
    /\ Witness

LEMMA Numbers ==
    ASSUME Types
    PROVE  /\ now \in Nat /\ calls \in Nat /\ MaxTime[adapter] \in Nat /\ MaxCalls \in Nat
           /\ aux.since \in Nat /\ aux.since <= now
           /\ WriteChunk \in Nat \ {0} /\ ReadChunk \in Nat \ {0} /\ PageSize \in Nat \ {0}
  <1>1. MaxTime[adapter] \in Nat /\ MaxCalls \in Nat
    BY CallsAssumption DEF Types
  <1>2. now \in 0..MaxTime[adapter] /\ calls \in 0..MaxCalls /\ aux.since \in 0..now
    BY DEF Types, AuxOK
  <1> QED BY <1>1, <1>2, EntriesAssumption

LEMMA OfStays ==
    ASSUME Types, Goes, NEW o, OfOK(o, adapter, calls, now) PROVE OfOK(o, adapter', calls', now')
  <1>1. o.c \in 1..calls' /\ o.at \in 0..now'
    <2>1. o.c \in 1..calls /\ o.at \in 0..now /\ calls \in Nat /\ now \in Nat
      BY Numbers DEF OfOK
    <2>2. calls' \in Nat /\ now' \in Nat /\ calls <= calls' /\ now <= now'
      BY CallsAssumption DEF Goes, Types
    <2> QED BY <2>1, <2>2
  <1> QED BY <1>1 DEF OfOK, Goes

LEMMA PlainStays ==
    ASSUME Types, Goes, NEW q, PlainOK(q, adapter, calls, now) PROVE PlainOK(q, adapter', calls', now')
  <1>1. OfOK(q.of, adapter', calls', now') /\ adapter' = adapter
    BY OfStays DEF PlainOK, Goes
  <1>2. \A x : x \in 0..now => x \in 0..now'
    <2>1. now \in Nat /\ now' \in Nat /\ now <= now'
      BY Numbers, CallsAssumption DEF Goes, Types
    <2> QED BY <2>1
  <1>3. PullOK(q, adapter, now) => PullOK(q, adapter', now')
    BY <1>1, <1>2 DEF PullOK
  <1>4. ShapeOK(q, adapter', now')
    <2>1. ShapeOK(q, adapter, now)
      BY DEF PlainOK
    <2> QED BY <1>1, <1>3, <2>1 DEF ShapeOK
  <1> QED BY <1>1, <1>4 DEF PlainOK

LEMMA CommandStays ==
    ASSUME Types, Goes, NEW r, CommandOK(r, adapter, calls, now)
    PROVE  CommandOK(r, adapter', calls', now')
  <1>1. adapter' = adapter
    BY DEF Goes
  <1> QED BY <1>1, PlainStays DEF CommandOK

LEMMA OpsApart ==
    /\ ReadOps \cup HasOps \cup DeleteOps \subseteq KeyOps \ WriteOps
    /\ WriteOps \subseteq KeyOps /\ KeyOps \cap WalkOps = {}
    /\ ReadOps \cap (HasOps \cup DeleteOps) = {} /\ HasOps \cap DeleteOps = {}
    /\ {"getMany", "hasMany"} \subseteq ReadOps \cup HasOps
    /\ KeyOps = ReadOps \cup HasOps \cup WriteOps \cup DeleteOps
  BY DEF ReadOps, HasOps, DeleteOps, KeyOps, WriteOps, WalkOps

\* Commands that sweep, or carry rows, are of calls that sweep.
LEMMA SweepsOf ==
    ASSUME NEW q, NEW a, NEW n, NEW m, PlainOK(q, a, n, m), q.do \in {"sweep", "drop", "pull", "batch", "judge"}
    PROVE  Sweeps(q.of)
  <1>1. q.of.op \in ReadOps \cup HasOps \cup {"clearExpired", "iterator", "getMany", "hasMany"}
    BY DEF PlainOK, Fits
  <1> QED BY <1>1 DEF Sweeps, ReadOps, HasOps, WriteOps, DeleteOps

\* What is marked stays marked, and what is written is marked.
LEMMA DirtyGrows ==
    ASSUME Types, Goes, NEW r \in flight', CommandOK(r, adapter, calls, now), Sweeps(r.of)
    PROVE  /\ dirty[r.of.c] \subseteq dirty'[r.of.c]
           /\ \A s \in Slots : db'[s] \notin {None, db[s]} => s \in dirty'[r.of.c]
  <1>1. r.of.c \in 1..MaxCalls
    <2>1. r.of.c \in 1..calls /\ calls \in 0..MaxCalls /\ MaxCalls \in Nat
      BY Numbers DEF CommandOK, PlainOK, OfOK, Types
    <2> QED BY <2>1
  <1> DEFINE going == {q.of : q \in flight'} \cup {job'[t] : t \in {u \in Tasks : job'[u] # Idle}}
  <1>2. dirty' = [c \in 1..MaxCalls |->
                    IF \E j \in going : j.c = c /\ Sweeps(j)
                    THEN dirty[c] \cup {s \in Slots : db'[s] \notin {None, db[s]}} ELSE {}]
    BY DEF Goes, Witness
  <1>3. r.of \in going
    OBVIOUS
  <1> HIDE DEF going
  <1>4. dirty'[r.of.c] = dirty[r.of.c] \cup {s \in Slots : db'[s] \notin {None, db[s]}}
    BY <1>1, <1>2, <1>3
  <1> QED BY <1>4

LEMMA InHandSlots ==
    ASSUME NEW q, NEW a, NEW n, NEW m, PlainOK(q, a, n, m)
    PROVE  /\ InHand(q, a) \subseteq Slots
           /\ InHand(q, a) # {} => q.do \in {"pull", "batch", "judge"}
           /\ \A s \in InHand(q, a) : Hand(q, a)[s] \in Rows
  <1>1. q.of = Of(q.of) /\ ShapeOK(q, a, m)
    BY DEF PlainOK, OfOK
  <1>2. \A i \in All(q.of) : Slot(q.of, i) \in Slots
    BY <1>1, SlotIn DEF PlainOK
  <1>3. CASE q.do = "pull"
    <2>1. InHand(q, a) = DOMAIN Hand(q, a)
      BY <1>3 DEF InHand
    <2>2. \A s \in DOMAIN Hand(q, a) : s \in In(q.of.ns) /\ Hand(q, a)[s] \in Rows
      BY <1>1, <1>3 DEF ShapeOK, PullOK
    <2> QED BY <1>3, <2>1, <2>2 DEF In
  <1>4. CASE q.do \in {"batch", "judge"}
    <2>1. Hand(q, a) \in [Slots -> Rows] /\ InHand(q, a) = SlotsAt(q.of, BeenRead(q)) /\ BeenRead(q) \subseteq All(q.of)
      BY <1>1, <1>4 DEF InHand, Hand, ShapeOK, BeenRead
    <2> QED BY <1>2, <1>4, <2>1 DEF SlotsAt
  <1>5. CASE q.do \notin {"pull", "batch", "judge"}
    <2>1. InHand(q, a) = {}
      BY <1>5 DEF InHand, BeenRead, SlotsAt
    <2> QED BY <2>1
  <1> QED BY <1>3, <1>4, <1>5

LEMMA SweptStays ==
    ASSUME Types, Goes, NEW r \in flight', FlightOK(r) PROVE SweptOK(r, adapter', db', dirty', now')
  <1>1. CommandOK(r, adapter, calls, now) /\ SweptOK(r, adapter, db, dirty, now) /\ adapter' = adapter
    BY DEF FlightOK, Goes
  <1>2. ASSUME NEW s \in Slots PROVE Expired(db[s], now) => db'[s] = None \/ Expired(db'[s], now') \/ db'[s] \notin {None, db[s]}
    <2>1. now \in Nat /\ now' \in Nat /\ now <= now' /\ db[s] \in Rows
      BY Numbers, CallsAssumption DEF Goes, Types
    <2>2. db[s] # None => db[s].exp \in Int \cup {None}
      BY <2>1 DEF Rows, Row
    <2> QED BY <2>1, <2>2, CallsAssumption DEF Expired
  <1>3. ASSUME NEW s \in Targets(r, adapter) \cap Slots PROVE db'[s] = None \/ Expired(db'[s], now') \/ s \in dirty'[r.of.c]
    <2>1. r.do \in {"sweep", "drop"}
      BY DEF Targets
    <2>2. Sweeps(r.of)
      BY <1>1, <2>1, SweepsOf DEF CommandOK
    <2>3. db[s] = None \/ Expired(db[s], now) \/ s \in dirty[r.of.c]
      BY <1>1 DEF SweptOK
    <2> QED BY <1>1, <1>2, <2>2, <2>3, DirtyGrows
  <1>4. ASSUME NEW q \in {r} \cup Parked(r, adapter), NEW s \in InHand(q, adapter), Hand(q, adapter)[s] # None
        PROVE  db'[s] \in {None, Hand(q, adapter)[s]} \/ s \in dirty'[r.of.c]
    <2>1. PlainOK(q, adapter, calls, now) /\ q.of = r.of
      BY <1>1 DEF CommandOK
    <2>2. s \in Slots /\ q.do \in {"pull", "batch", "judge"}
      BY <2>1, InHandSlots
    <2>3. Sweeps(r.of)
      BY <2>1, <2>2, SweepsOf
    <2>4. db[s] \in {None, Hand(q, adapter)[s]} \/ s \in dirty[r.of.c]
      BY <1>1, <1>4 DEF SweptOK
    <2> QED BY <1>1, <2>2, <2>3, <2>4, DirtyGrows
  <1> QED BY <1>1, <1>3, <1>4 DEF SweptOK

LEMMA TypesStay == ASSUME Types, Goes, job' = [t \in Tasks |-> job'[t]] PROVE Types'
  BY DEF Types, Goes

LEMMA WitnessSeen ==
    ASSUME Witness, NEW t \in Tasks, job'[t] # Idle
    PROVE  seen'[t] = More(IF job[t] = Idle THEN Nothing ELSE seen[t], Concerns(job'[t]), db', job'[t].at, now')
  BY DEF Witness

LEMMA ConcernsSlots == ASSUME NEW j, NEW a, NEW n, NEW m, OfOK(Of(j), a, n, m) PROVE Concerns(j) \subseteq Slots
  <1>1. j.op \in KeyOps \cup WalkOps /\ Of(j).op = j.op
    BY DEF OfOK, Of
  <1>2. j.op \in KeyOps \ WriteOps => Concerns(j) = {Slot(j, i) : i \in All(j)}
    BY DEF Concerns, Slot, All, WriteOps
  <1>3. j.op \in WriteOps \/ j.op \notin KeyOps => Concerns(j) \in {{}, Slots}
    BY DEF Concerns, WriteOps, KeyOps
  <1> QED BY <1>2, <1>3, SlotIn

\* The keys of reads and deletions are concerned, and all that a walk may meet.
LEMMA KeysConcern ==
    ASSUME NEW j, NEW a, NEW n, NEW m, OfOK(Of(j), a, n, m), j.op \in KeyOps \ WriteOps, NEW i \in All(j)
    PROVE  Slot(j, i) \in Concerns(j) /\ Slot(j, i) \in Slots
  <1>1. Slot(j, i) \in Concerns(j)
    BY DEF Concerns, Slot, All
  <1> QED BY <1>1, SlotIn

LEMMA WalksConcern == ASSUME NEW j, j.op \in WalkOps PROVE Concerns(j) = Slots
  BY DEF Concerns, WalkOps, KeyOps, WriteOps, ReadOps, HasOps, DeleteOps

---------------------------------------------------------------------------
(* What is settled stays settled *)

\* k is a call j that has moved: it fails for more, and has yielded more.
Further(j, k) ==
    /\ Of(k) = Of(j) /\ (j.failed => k.failed) /\ j.unsure \subseteq k.unsure
    /\ \A m \in DOMAIN j.out : m \in DOMAIN k.out /\ k.out[m] = j.out[m]

LEMMA SameCall ==
    ASSUME NEW j, NEW k, Of(k) = Of(j)
    PROVE  /\ k.op = j.op /\ k.c = j.c /\ k.ns = j.ns /\ k.keys = j.keys /\ k.live = j.live /\ k.at = j.at
           /\ All(k) = All(j) /\ Items(k) = Items(j) /\ (\A i : Slot(k, i) = Slot(j, i)) /\ Concerns(k) = Concerns(j)
           /\ \A a, n : Moved(k, a, n) = Moved(j, a, n) /\ Tells(k, a) = Tells(j, a)
  <1>1. k.op = j.op /\ k.c = j.c /\ k.ns = j.ns /\ k.keys = j.keys /\ k.live = j.live /\ k.at = j.at
    BY DEF Of
  <1> QED BY <1>1 DEF All, Items, Slot, Concerns, Moved, Tells

LEMMA MovedGrows == ASSUME NEW j, NEW a, NEW n \in Nat, NEW m \in Nat, j.at \in Nat, n <= m, Moved(j, a, n) PROVE Moved(j, a, m)
  BY DEF Moved

LEMMA SettledGrows ==
    ASSUME NEW j, NEW k, NEW i, NEW H, NEW G, NEW a, NEW c, NEW n \in Nat, NEW m \in Nat, OfOK(Of(j), a, c, n), n <= m,
           Further(j, k), i \in Items(j), k.res[i] = j.res[i], i \in k.put <=> i \in j.put,
           \A s \in Slots : H[s] \subseteq G[s]
    PROVE  /\ Settled(j, i, H, a, n) => Settled(k, i, G, a, m)
           /\ Open(j, i, H, a) => Open(k, i, G, a)
  <1>1. /\ k.op = j.op /\ Items(k) = Items(j) /\ Slot(k, i) = Slot(j, i)
        /\ Moved(k, a, n) = Moved(j, a, n) /\ Tells(k, a) = Tells(j, a) /\ k.at = j.at
    BY SameCall DEF Further
  <1>2. Moved(j, a, n) => Moved(k, a, m)
    <2>1. j.at \in Nat
      BY DEF OfOK, Of
    <2> QED BY <1>1, <2>1, MovedGrows
  <1>3. j.op \in KeyOps => H[Slot(j, i)] \subseteq G[Slot(j, i)]
    <2>1. j.op \in KeyOps => i \in All(j)
      BY DEF Items, KeyOps, ReadOps, HasOps, WriteOps, DeleteOps
    <2> QED BY <2>1, SlotIn
  <1>4. j.op \in {"clear", "iterator"} => H[i] \subseteq G[i]
    BY DEF Items, In
  <1>5. \A x \in DOMAIN j.out : x \in DOMAIN k.out /\ k.out[x].key = j.out[x].key
    BY DEF Further
  <1>6. AnswerOK(j, i, H, a, n) => AnswerOK(k, i, G, a, m)
    <2> SUFFICES ASSUME AnswerOK(j, i, H, a, n) PROVE AnswerOK(k, i, G, a, m)
      OBVIOUS
    <2>1. k.op \in ReadOps => k.res[i] \in G[Slot(k, i)] \/ (Moved(k, a, m) /\ k.res[i] = None)
      BY <1>1, <1>2, <1>3, OpsApart DEF AnswerOK
    <2>2. k.op \in HasOps => /\ k.res[i] \in BOOLEAN
                             /\ k.res[i] => \E x \in G[Slot(k, i)] : x \notin {None, Stale}
                             /\ ~k.res[i] => None \in G[Slot(k, i)] \/ Moved(k, a, m)
      BY <1>1, <1>2, <1>3, OpsApart DEF AnswerOK
    <2>3. k.op \in WriteOps => k.res[i] \in BOOLEAN /\ (Tells(k, a) => (k.res[i] <=> i \in k.put))
      BY <1>1 DEF AnswerOK
    <2>4. k.op \in DeleteOps => /\ k.res[i] \in BOOLEAN /\ None \in G[Slot(k, i)]
                                /\ k.res[i] => \E x \in G[Slot(k, i)] : x # None
      BY <1>1, <1>3, OpsApart DEF AnswerOK
    <2>5. (k.op = "clear" /\ Whole) => None \in G[i]
      BY <1>1, <1>4 DEF AnswerOK
    <2>6. (k.op = "iterator" /\ Whole) =>
             None \in G[i] \/ Moved(k, a, m) \/ \E x \in DOMAIN k.out : k.out[x].key = i[2]
      BY <1>1, <1>2, <1>4, <1>5 DEF AnswerOK
    <2> QED BY <2>1, <2>2, <2>3, <2>4, <2>5, <2>6 DEF AnswerOK
  <1>7. Excused(j, i, a) => Excused(k, i, a)
    BY <1>1 DEF Excused, Further
  <1>8. Open(j, i, H, a) => Open(k, i, G, a)
    BY <1>1, <1>3, OpsApart DEF Open
  <1> QED BY <1>6, <1>7, <1>8 DEF Settled

LEMMA FurtherSelf == ASSUME NEW j PROVE Further(j, j)
  BY DEF Further

\* A call sees more, while the rows come to be d: what its commands carry is still right.
LEMMA CarriesGrow ==
    ASSUME NEW r, NEW H, NEW G, NEW a, NEW x, NEW y, NEW d, NEW e, NEW n, NEW m, CommandOK(r, a, n, m),
           Carries(r, H, a, x, d), \A s \in Slots : H[s] \subseteq G[s],
           x.boot # "pending" => y.boot = x.boot /\ y.since = x.since,
           r.do = "write" => \A s \in Slots : e[s] \in {None, d[s]} \/ e[s].val[1] # r.of.c
    PROVE  Carries(r, G, a, y, e)
  <1>1. ASSUME NEW q \in {r} \cup Parked(r, a) PROVE HandSeen(q, G, a, y)
    <2>1. HandSeen(q, H, a, x) /\ PlainOK(q, a, n, m)
      BY DEF Carries, CommandOK
    <2>2. JudgeAt(q, a, y) = JudgeAt(q, a, x)
      BY <2>1 DEF JudgeAt, HandSeen
    <2>3. \A s \in InHand(q, a) : SeenAt(Hand(q, a)[s], JudgeAt(q, a, y), G[s])
      BY <2>1, <2>2, InHandSlots, SeenGrows DEF HandSeen
    <2> QED BY <2>1, <2>3 DEF HandSeen
  <1>2. r.do = "write" => Unwritten(r, e)
    <2>1. r.do = "write" => Unwritten(r, d)
      BY DEF Carries
    <2> QED BY <2>1 DEF Unwritten
  <1> QED BY <1>1, <1>2 DEF Carries

\* A call that neither moves nor ends.
LEMMA OthersKeep ==
    ASSUME Types, Goes, NEW t \in Tasks, TaskOK(t), job'[t] = job[t], \A r \in flight : FlightOK(r),
           job[t] # Idle =>
               /\ Mine(flight', t, job[t].c) = Mine(flight, t, job[t].c)
               /\ \A r \in flight' : r.of.c = job[t].c => r.t = t
               /\ adapter = "dynamo" => \A s \in Slots : db'[s] \in {None, db[s]} \/ db'[s].val[1] # job[t].c
    PROVE  TaskOK(t)'
  <1> SUFFICES ASSUME job[t] # Idle PROVE TaskOK(t)'
    BY DEF TaskOK
  <1> DEFINE j == job[t]
             H == seen[t]
             G == seen'[t]
             mine == Mine(flight, t, j.c)
  <1>1. /\ CallOK(j) /\ OfOK(Of(j), adapter, calls, now) /\ j.op \in Ops[t]
        /\ mine # {} /\ \A r \in mine : r.of = Of(j)
        /\ Waits(j, mine, adapter, H, now) /\ OutOK(j, mine, adapter, H) /\ Together(mine, adapter) /\ PutOK(j, mine)
        /\ \A r \in mine : Carries(r, H, adapter, aux, db)
    BY DEF TaskOK
  <1>2. OfOK(Of(j), adapter', calls', now') /\ adapter' = adapter
    BY <1>1, OfStays DEF Goes
  <1>3. G = More(H, Concerns(j), db', j.at, now')
    BY WitnessSeen DEF Goes
  <1>4. now \in Nat /\ now' \in Nat /\ now <= now'
    BY Numbers, CallsAssumption DEF Goes, Types
  <1> HIDE DEF j, H, G, mine
  <1>5. \A s \in Slots : G[s] = IF s \in Concerns(j) THEN H[s] \cup Looks(db'[s], j.at, now') ELSE H[s]
    BY <1>3 DEF More
  <1>6. \A s \in Slots : H[s] \subseteq G[s]
    BY <1>5
  <1>7. Noted(j, G, db', now')
    BY <1>1, <1>5, ConcernsSlots DEF Noted
  <1>8. Waits(j, mine, adapter', G, now')
    <2>1. \A i \in Items(j) : /\ Settled(j, i, H, adapter, now) => Settled(j, i, G, adapter, now')
                              /\ Open(j, i, H, adapter) => Open(j, i, G, adapter)
      BY <1>1, <1>4, <1>6, SettledGrows, FurtherSelf
    <2> QED BY <1>1, <1>2, <2>1 DEF Waits
  <1>9. OutOK(j, mine, adapter', G)
    <2> SUFFICES ASSUME j.op = "iterator" PROVE OutOK(j, mine, adapter', G)
      BY DEF OutOK
    <2>1. \A i \in DOMAIN j.out : <<j.ns, j.out[i].key>> \in Slots
      <3>1. j.ns \in Namespaces /\ j.out \in Seq([key : Keys, val : Values])
        BY <1>1 DEF OfOK, Of, CallOK
      <3>2. \A i \in DOMAIN j.out : j.out[i] \in [key : Keys, val : Values]
        BY <3>1, EntriesIn
      <3> QED BY <3>1, <3>2 DEF Slots
    <2> QED BY <1>1, <1>2, <1>6, <2>1 DEF OutOK
  <1>10. \A r \in mine : Carries(r, G, adapter', aux', db')
    <2> SUFFICES ASSUME NEW r \in mine PROVE Carries(r, G, adapter, aux', db')
      BY <1>2
    <2>1. CommandOK(r, adapter, calls, now) /\ Carries(r, H, adapter, aux, db) /\ r.of = Of(j)
      BY <1>1 DEF FlightOK, mine, Mine
    <2>2. r.do = "write" => \A s \in Slots : db'[s] \in {None, db[s]} \/ db'[s].val[1] # r.of.c
      <3>1. r.do = "write" => adapter = "dynamo"
        BY <2>1 DEF CommandOK, PlainOK, ShapeOK
      <3>2. r.of.c = j.c
        BY <2>1 DEF Of
      <3> QED BY <3>1, <3>2 DEF j
    <2>3. aux.boot # "pending" => aux'.boot = aux.boot /\ aux'.since = aux.since
      BY DEF Goes
    <2> QED BY <1>6, <2>1, <2>2, <2>3, CarriesGrow
  <1> QED BY <1>1, <1>2, <1>7, <1>8, <1>9, <1>10 DEF TaskOK, j, G, mine

---------------------------------------------------------------------------
(* What callers learn *)

LEMMA NoReply == ASSUME reply' = Idle PROVE Promises'
  <1>1. (\A ops : ~Ended(ops)') /\ ~JudgedLate' /\ ~BlindSetMany'
    BY DEF Ended, JudgedLate, BlindSetMany
  <1>2. ReadsCurrentElse'
    BY <1>1 DEF ReadsCurrentElse, ReadsCurrent
  <1>3. EffectsReportedElse'
    BY <1>1 DEF EffectsReportedElse, WritesReported, TruesWritten, DeletesReported
  <1>4. WalksCompleteElse'
    BY <1>1 DEF WalksCompleteElse, ClearComplete, IterationOnce, IterationComplete
  <1> QED BY <1>2, <1>3, <1>4 DEF Promises

\* A call that ends with all it had to settle settled has answered right.
LEMMA EndedRight ==
    ASSUME NEW k, NEW H, CallOK(k), \A i \in Items(k) : Settled(k, i, H, adapter, now), OutOK(k, {}, adapter, H),
           reply' = [job |-> k, seen |-> H], adapter' = adapter, now' = now, k # Idle
    PROVE  Promises'
  <1>1. reply'.job = k /\ reply'.seen = H /\ reply' # Idle
    BY DEF Idle
  <1>2. \A i : Held(i)' = H[Slot(k, i)]
    BY <1>1 DEF Held
  <1>3. Sure' = All(k) \ k.unsure
    BY <1>1 DEF Sure
  <1>4. \A ops : Ended(ops)' => k.op \in ops /\ ~k.failed
    BY <1>1 DEF Ended
  <1>5. JudgedLate' <=> Moved(k, adapter, now)
    BY <1>1 DEF JudgedLate, Moved
  <1>6. \A i \in Items(k) : ~k.failed /\ i \notin k.unsure => AnswerOK(k, i, H, adapter, now)
    BY DEF Settled, Excused
  <1>7. k.op \in KeyOps => Items(k) = All(k)
    BY DEF Items, KeyOps, ReadOps, HasOps, WriteOps, DeleteOps
  <1>8. ReadsCurrentElse'
    <2>1. Ended(ReadOps)' => \A i \in All(k) \ k.unsure :
             k.res[i] \in H[Slot(k, i)] \/ (Moved(k, adapter, now) /\ k.res[i] = None)
      BY <1>4, <1>6, <1>7, OpsApart DEF AnswerOK
    <2>2. Ended(HasOps)' => \A i \in All(k) \ k.unsure :
             /\ k.res[i] \in BOOLEAN
             /\ k.res[i] => \E x \in H[Slot(k, i)] : x \notin {None, Stale}
             /\ ~k.res[i] => None \in H[Slot(k, i)] \/ Moved(k, adapter, now)
      BY <1>4, <1>6, <1>7, OpsApart DEF AnswerOK
    <2>3. ~JudgedLate' => ReadsCurrent'
      <3> SUFFICES ASSUME ~JudgedLate' PROVE ReadsCurrent'
        OBVIOUS
      <3>1. Ended(ReadOps)' => \A i \in All(k) \ k.unsure : k.res[i] \in H[Slot(k, i)]
        BY <1>5, <2>1
      <3>2. Ended(HasOps)' => \A i \in All(k) \ k.unsure :
               IF k.res[i] THEN H[Slot(k, i)] \ {None, Stale} # {} ELSE None \in H[Slot(k, i)]
        BY <1>5, <2>2
      <3> QED BY <1>1, <1>2, <1>3, <3>1, <3>2 DEF ReadsCurrent
    <2>4. Ended(ReadOps)' => \A i \in All(k) \ k.unsure : k.res[i] \in H[Slot(k, i)] \cup {None}
      BY <2>1
    <2>5. Ended(HasOps)' => \A i \in All(k) \ k.unsure : k.res[i] => H[Slot(k, i)] \ {None, Stale} # {}
      BY <2>2
    <2> QED BY <1>1, <1>2, <1>3, <2>3, <2>4, <2>5 DEF ReadsCurrentElse
  <1>9. Reports => EffectsReportedElse'
    <2> SUFFICES ASSUME Reports PROVE EffectsReportedElse'
      OBVIOUS
    <2>1. BlindSetMany' <=> ~Tells(k, adapter)
      BY <1>1 DEF BlindSetMany, Tells
    <2>2. k.op \in WriteOps /\ Tells(k, adapter) => \A i \in All(k) : k.res[i] => i \in k.put
      BY <1>7, OpsApart DEF Settled, AnswerOK, Excused
    <2>3. Tells(k, adapter) => TruesWritten'
      BY <1>1, <2>2 DEF TruesWritten
    <2>4. Tells(k, adapter) /\ Ended(WriteOps)' => \A i \in k.put \cap (All(k) \ k.unsure) : k.res[i]
      BY <1>4, <1>6, <1>7, OpsApart DEF AnswerOK
    <2>5. Tells(k, adapter) => WritesReported'
      BY <1>1, <1>3, <2>3, <2>4 DEF WritesReported
    <2>6. DeletesReported'
      <3>1. Ended(DeleteOps)' => \A i \in All(k) \ k.unsure :
               None \in H[Slot(k, i)] /\ (k.res[i] => \E x \in H[Slot(k, i)] : x # None)
        BY <1>4, <1>6, <1>7, OpsApart DEF AnswerOK
      <3>2. Ended(DeleteOps)' => \A i \in All(k) \ k.unsure :
               None \in H[Slot(k, i)] /\ (k.res[i] => H[Slot(k, i)] # {None})
        BY <3>1
      <3> QED BY <1>1, <1>2, <1>3, <3>2 DEF DeletesReported
    <2> QED BY <2>1, <2>5, <2>6 DEF EffectsReportedElse
  <1>10. Whole => WalksCompleteElse'
    <2> SUFFICES ASSUME Whole PROVE WalksCompleteElse'
      OBVIOUS
    <2>1. k.op \in {"clear", "iterator"} => k.op \notin KeyOps /\ Items(k) = In(k.ns)
      BY DEF Items, KeyOps, ReadOps, HasOps, WriteOps, DeleteOps
    <2>2. k.op \in {"clear", "iterator"} /\ ~k.failed => \A s \in In(k.ns) : AnswerOK(k, s, H, adapter, now)
      BY <2>1 DEF Settled, Excused
    <2>3. Ended({"clear"})' => \A s \in k.over : None \in H[s]
      BY <1>4, <2>2 DEF AnswerOK, CallOK
    <2>4. ClearComplete'
      BY <1>1, <2>3 DEF ClearComplete
    <2>5. Ended({"iterator"})' => \A i, m \in DOMAIN k.out : k.out[i].key = k.out[m].key => i = m
      BY <1>4 DEF OutOK
    <2>6. IterationOnce'
      BY <1>1, <2>5 DEF IterationOnce
    <2>7. Ended({"iterator"})' => \A i \in DOMAIN k.out : k.out[i].val \in H[<<k.ns, k.out[i].key>>]
      BY <1>4 DEF OutOK
    <2>8. ~JudgedLate' => IterationComplete'
      <3>1. Ended({"iterator"})' /\ ~JudgedLate' =>
               \A s \in In(k.ns) : None \notin H[s] => \E i \in DOMAIN k.out : k.out[i].key = s[2]
        BY <1>4, <1>5, <2>2 DEF AnswerOK
      <3> QED BY <1>1, <2>7, <3>1 DEF IterationComplete
    <2> QED BY <1>1, <2>4, <2>6, <2>7, <2>8 DEF WalksCompleteElse
  <1> QED BY <1>8, <1>9, <1>10 DEF Promises

\* Of a call that failed as a whole, only its `true`s count.
LEMMA FailedRight ==
    ASSUME NEW k, NEW H, k.failed, k.op \in WriteOps => \A i \in All(k) : k.res[i] => i \in k.put,
           reply' = [job |-> k, seen |-> H]
    PROVE  Promises'
  <1>1. reply'.job = k /\ \A ops : ~Ended(ops)'
    BY DEF Ended
  <1>2. ReadsCurrentElse'
    BY <1>1 DEF ReadsCurrentElse, ReadsCurrent
  <1>3. EffectsReportedElse'
    BY <1>1 DEF EffectsReportedElse, WritesReported, TruesWritten, DeletesReported
  <1>4. WalksCompleteElse'
    BY <1>1 DEF WalksCompleteElse, ClearComplete, IterationOnce, IterationComplete
  <1> QED BY <1>2, <1>3, <1>4 DEF Promises

---------------------------------------------------------------------------
(* The moves of a call *)

After(r, d, j)  == [j EXCEPT !.put = @ \cup Taken(r, d)]
Sights(r, d, j) == More(seen[r.t], Concerns(j), d, j.at, now)

\* k is a call j after it moved: its variables changed, but for put.
Onward(j, k) == CallOK(k) /\ Further(j, k) /\ k.put = j.put

\* What follows command r.
Sends(r, F) == \A f \in F : f.t = r.t /\ f.of = r.of /\ f.c \in {0, r.c} /\ FlightOK(f)
\* What of its call is in flight then.
NextOf(r, F) == Mine((flight \ {r}) \cup F, r.t, r.c)

\* What r is to settle is settled, or left to a command that follows.
Settles(r, d, F, j) ==
    \A i \in Items(j) :
        \/ Settled(After(r, d, j), i, Sights(r, d, j), adapter, now)
        \/ /\ \E f \in NextOf(r, F) : i \in Covers(f, adapter)
           /\ Open(After(r, d, j), i, Sights(r, d, j), adapter)
        \/ /\ j.res[i] = job[r.t].res[i] /\ i \notin Taken(r, d)
           /\ i \in Covers(r, adapter) => \E f \in NextOf(r, F) : i \in Covers(f, adapter)

Moves(r, d, F, j) ==
    /\ Onward(job[r.t], j) /\ Settles(r, d, F, j)
    /\ OutOK(After(r, d, j), NextOf(r, F), adapter, Sights(r, d, j)) /\ Together(NextOf(r, F), adapter)
    /\ PutOK(After(r, d, j), NextOf(r, F))
    /\ \A f \in F : Carries(f, Sights(r, d, j), adapter, aux, d)

\* What r leaves of the rows, for which it answers: it writes entries of its own, loses
\* no row it may not lose, and keeps to the TTL.
Lawful(r, s) ==
    \/ r.do = "delete" /\ s \in SlotsAt(r.of, r.at)
    \/ r.do = "clear" /\ s \in In(r.of.ns)
    \/ r.do = "revoke"
    \/ r.do \in {"sweep", "drop"} /\ s \in dirty[r.of.c]
Timely(r, d) ==
    \A s \in SlotsAt(r.of, r.at) : r.of.live # None /\ d[s] # db[s] /\ d[s] # None =>
        /\ d[s].exp >= r.of.at + r.of.live - Slack(r.of.live)
        /\ d[s].exp <= Made(r) + r.of.live + 1
Leaves(r, d) ==
    /\ d \in [Slots -> Rows]
    /\ \A s \in Slots : d[s] \in {None, db[s]} \/ \E i \in r.at : d[s] # None /\ d[s].val = <<r.of.c, i>>
    /\ Alone => \A s \in Slots : Visible(db[s], now) /\ d[s] = None => Lawful(r, s)
    /\ Positive => Timely(r, d)

\* What an action says of a step.
Stepped == (Alone => SweepSafeStep) /\ (Positive => TtlWithin(Slack))
Kept    == IInv' /\ Stepped

LEMMA FlightIs ==
    ASSUME CallsInv, NEW r \in flight
    PROVE  /\ Types /\ CommandOK(r, adapter, calls, now) /\ PlainOK(r, adapter, calls, now) /\ r.t \in Tasks /\ TaskOK(r.t)
           /\ OfOK(r.of, adapter, calls, now) /\ r.of = Of(r.of) /\ r.at \subseteq All(r.of)
           /\ r.c \in {0, r.of.c} /\ r.of.c \in 1..calls /\ Fits(r.do, r.of.op) /\ ShapeOK(r, adapter, now)
           /\ SweptOK(r, adapter, db, dirty, now)
  BY DEF CallsInv, FlightOK, CommandOK, PlainOK, OfOK

\* The call that waits for r.
LEMMA LiveCall ==
    ASSUME CallsInv, NEW r \in flight, Live(r)
    PROVE  /\ job[r.t] # Idle /\ job[r.t].c = r.c /\ r.c = r.of.c /\ r \in Mine(flight, r.t, r.c)
           /\ CallOK(job[r.t]) /\ r.of = Of(job[r.t]) /\ job[r.t].op \in Ops[r.t]
           /\ (\A q \in Mine(flight, r.t, r.c) : q.of = r.of /\ Carries(q, seen[r.t], adapter, aux, db))
           /\ (\A q \in flight : q.of.c = r.c => q.t = r.t)
           /\ Noted(job[r.t], seen[r.t], db, now)
           /\ Waits(job[r.t], Mine(flight, r.t, r.c), adapter, seen[r.t], now)
           /\ OutOK(job[r.t], Mine(flight, r.t, r.c), adapter, seen[r.t])
           /\ Together(Mine(flight, r.t, r.c), adapter) /\ PutOK(job[r.t], Mine(flight, r.t, r.c))
           /\ job[r.t].op = r.of.op /\ job[r.t].at = r.of.at /\ job[r.t].ns = r.of.ns /\ job[r.t].keys = r.of.keys
           /\ All(job[r.t]) = All(r.of) /\ Items(job[r.t]) = Items(r.of)
           /\ \A i : Slot(job[r.t], i) = Slot(r.of, i)
  <1> DEFINE j == job[r.t]
  <1>1. TaskOK(r.t) /\ r.c \in {0, r.of.c} /\ j # Idle /\ j.c = r.c
    BY FlightIs DEF Live
  <1>2. r \in Mine(flight, r.t, j.c)
    BY <1>1 DEF Mine
  <1>3. /\ CallOK(j) /\ OfOK(Of(j), adapter, calls, now) /\ j.op \in Ops[r.t]
        /\ \A q \in Mine(flight, r.t, j.c) : q.of = Of(j) /\ Carries(q, seen[r.t], adapter, aux, db)
        /\ \A q \in flight : q.of.c = j.c => q.t = r.t
        /\ Noted(j, seen[r.t], db, now)
        /\ Waits(j, Mine(flight, r.t, j.c), adapter, seen[r.t], now)
        /\ OutOK(j, Mine(flight, r.t, j.c), adapter, seen[r.t])
        /\ Together(Mine(flight, r.t, j.c), adapter) /\ PutOK(j, Mine(flight, r.t, j.c))
    BY <1>1 DEF TaskOK
  <1> HIDE DEF j
  <1>4. r.of = Of(j)
    BY <1>2, <1>3
  <1>5. Of(j).c = j.c /\ Of(j).op = j.op /\ Of(j).at = j.at /\ Of(j).ns = j.ns /\ Of(j).keys = j.keys
    BY DEF Of
  <1>6. All(j) = All(r.of) /\ Items(j) = Items(r.of) /\ \A i : Slot(j, i) = Slot(r.of, i)
    BY <1>4, <1>5 DEF All, Items, Slot
  <1> QED BY <1>1, <1>2, <1>3, <1>4, <1>5, <1>6 DEF j

LEMMA NotIdle == ASSUME NEW j, NEW a, NEW n, NEW m, OfOK(Of(j), a, n, m) PROVE j # Idle
  <1>1. j.op \in KeyOps \cup WalkOps
    BY DEF OfOK, Of
  <1> QED BY <1>1 DEF Idle, KeyOps, ReadOps, HasOps, WriteOps, DeleteOps, WalkOps

LEMMA AfterOK ==
    ASSUME CallsInv, NEW r \in flight, Live(r), NEW d, NEW j, Onward(job[r.t], j)
    PROVE  LET k == After(r, d, j)
           IN  /\ CallOK(k) /\ Of(k) = Of(j) /\ Of(j) = r.of /\ k # Idle /\ k.res = j.res /\ k.out = j.out
               /\ k.put = job[r.t].put \cup Taken(r, d) /\ k.failed = j.failed /\ k.unsure = j.unsure
               /\ Further(job[r.t], k)
  <1> DEFINE k == After(r, d, j)
  <1>1. /\ r.of = Of(job[r.t]) /\ CallOK(j) /\ Further(job[r.t], j) /\ j.put = job[r.t].put
        /\ OfOK(Of(j), adapter, calls, now) /\ r.of = Of(j) /\ r.at \subseteq All(r.of)
    BY LiveCall, FlightIs DEF Onward, Further
  <1>2. /\ IsJob(k) /\ k.put = j.put \cup Taken(r, d)
        /\ k.op = j.op /\ k.c = j.c /\ k.ns = j.ns /\ k.keys = j.keys /\ k.live = j.live /\ k.at = j.at
        /\ k.res = j.res /\ k.failed = j.failed /\ k.unsure = j.unsure /\ k.out = j.out /\ k.over = j.over
    BY <1>1 DEF CallOK, IsJob, Fields, After
  <1> HIDE DEF k
  <1>3. Of(k) = Of(j)
    BY <1>2 DEF Of
  <1>4. All(k) = All(j) /\ All(r.of) = All(j)
    BY <1>1, <1>2, SameCall DEF All, Of
  <1>5. Taken(r, d) \subseteq r.at
    BY DEF Taken
  <1>6. CallOK(k)
    BY <1>1, <1>2, <1>4, <1>5 DEF CallOK
  <1>7. k # Idle
    BY <1>1, <1>3, NotIdle
  <1>8. Further(job[r.t], k)
    BY <1>1, <1>2, <1>3 DEF Further
  <1> QED BY <1>1, <1>2, <1>3, <1>6, <1>7, <1>8 DEF k

\* What r has not to do with stays as settled as it was.
LEMMA StaysSettled ==
    ASSUME CallsInv, NEW r \in flight, Live(r), NEW d, NEW j, Onward(job[r.t], j), NEW i \in Items(j),
           j.res[i] = job[r.t].res[i], i \notin Taken(r, d)
    PROVE  /\ i \in Items(job[r.t])
           /\ Settled(job[r.t], i, seen[r.t], adapter, now) =>
                 Settled(After(r, d, j), i, Sights(r, d, j), adapter, now)
           /\ Open(job[r.t], i, seen[r.t], adapter) => Open(After(r, d, j), i, Sights(r, d, j), adapter)
  <1> DEFINE k == After(r, d, j)
             jt == job[r.t]
             H == seen[r.t]
             G == Sights(r, d, j)
  <1>1. /\ Of(k) = Of(j) /\ k.res = j.res /\ k.put = jt.put \cup Taken(r, d) /\ Further(jt, k) /\ Of(jt) = Of(j)
    BY AfterOK, LiveCall
  <1>2. OfOK(Of(jt), adapter, calls, now) /\ now \in Nat /\ now <= now
    BY LiveCall, FlightIs, Numbers
  <1>3. \A s \in Slots : H[s] \subseteq G[s]
    BY DEF Sights, More
  <1>4. i \in Items(jt) /\ k.res[i] = jt.res[i] /\ (i \in k.put <=> i \in jt.put)
    BY <1>1, SameCall
  <1> HIDE DEF k, jt, H, G
  <1>5. /\ Settled(jt, i, H, adapter, now) => Settled(k, i, G, adapter, now)
        /\ Open(jt, i, H, adapter) => Open(k, i, G, adapter)
    BY <1>1, <1>2, <1>3, <1>4, SettledGrows
  <1> QED BY <1>4, <1>5 DEF k, jt, H, G

\* Commands of the call that stay in flight carry what they did.
LEMMA MineCarry ==
    ASSUME CallsInv, NEW r \in flight, Live(r), NEW d, Leaves(r, d), NEW j, NEW q \in Mine(flight, r.t, r.c), q # r
    PROVE  Carries(q, Sights(r, d, j), adapter, aux, d)
  <1>1. /\ CommandOK(q, adapter, calls, now) /\ q.of = r.of /\ Carries(q, seen[r.t], adapter, aux, db)
        /\ Together(Mine(flight, r.t, r.c), adapter) /\ r \in Mine(flight, r.t, r.c) /\ r.of = Of(r.of)
    BY LiveCall, FlightIs DEF Mine
  <1>2. \A s \in Slots : seen[r.t][s] \subseteq Sights(r, d, j)[s]
    BY DEF Sights, More
  <1>3. q.do # "write"
    BY <1>1 DEF Together
  <1> QED BY <1>1, <1>2, <1>3, CarriesGrow

\* A write in chunks is alone.
LEMMA NoWrites ==
    ASSUME CallsInv, NEW r \in flight, Live(r), NEW F, \A f \in F : f.do # "write", NEW k
    PROVE  PutOK(k, NextOf(r, F))
  <1> SUFFICES ASSUME NEW q \in NextOf(r, F), q.do = "write" PROVE FALSE
    BY DEF PutOK
  <1>1. Together(Mine(flight, r.t, r.c), adapter) /\ r \in Mine(flight, r.t, r.c)
    BY LiveCall
  <1>2. q \in Mine(flight, r.t, r.c) /\ q # r
    BY DEF NextOf, Mine
  <1> QED BY <1>1, <1>2 DEF Together

\* The call goes on.
LEMMA MovedOK ==
    ASSUME CallsInv, Goes, NEW r \in flight, Live(r), NEW F, NEW j, Sends(r, F), Leaves(r, db'), Moves(r, db', F, j),
           now' = now, flight' = (flight \ {r}) \cup F, job'[r.t] = After(r, db', j), NextOf(r, F) # {},
           aux'.boot = aux.boot, aux'.since = aux.since
    PROVE  TaskOK(r.t)'
  <1> DEFINE t == r.t
             k == After(r, db', j)
             jt == job[t]
             H == seen[t]
             G == Sights(r, db', j)
             mine == Mine(flight, t, r.c)
             next == NextOf(r, F)
  <1>1. Types /\ t \in Tasks /\ Onward(jt, j) /\ Settles(r, db', F, j) /\ OutOK(k, next, adapter, G)
        /\ Together(next, adapter) /\ PutOK(k, next) /\ (\A f \in F : Carries(f, G, adapter, aux, db')) /\ adapter' = adapter
    BY FlightIs DEF Moves, Goes
  <1>2. /\ CallOK(k) /\ Of(k) = Of(j) /\ Of(j) = r.of /\ k # Idle /\ k.res = j.res
        /\ k.put = jt.put \cup Taken(r, db') /\ Further(jt, k)
    BY <1>1, AfterOK
  <1>3. /\ jt # Idle /\ jt.c = r.c /\ r.c = r.of.c /\ jt.op \in Ops[t] /\ (\A q \in mine : q.of = r.of) /\ r.of = Of(jt)
        /\ (\A q \in flight : q.of.c = r.c => q.t = t) /\ Waits(jt, mine, adapter, H, now)
        /\ OfOK(r.of, adapter, calls, now)
    BY LiveCall, FlightIs
  <1>4. job'[t] = k /\ next = Mine(flight', t, k.c) /\ k.c = r.c /\ k.op = jt.op /\ k.at = j.at /\ Concerns(k) = Concerns(j)
    <2>1. k.c = r.c /\ k.op = jt.op
      BY <1>2, <1>3 DEF Of
    <2>2. k.at = j.at /\ Concerns(k) = Concerns(j)
      BY <1>2, SameCall
    <2> QED BY <2>1, <2>2 DEF NextOf
  <1>5. seen'[t] = G
    <2>1. seen'[t] = More(H, Concerns(k), db', k.at, now)
      BY <1>1, <1>2, <1>3, <1>4, WitnessSeen DEF Goes
    <2> QED BY <1>4, <2>1 DEF Sights
  <1>6. OfOK(Of(k), adapter', calls', now')
    BY <1>1, <1>2, <1>3, OfStays
  <1>7. Noted(k, G, db', now')
    <2>1. \A s \in Slots : s \in Concerns(j) => Looks(db'[s], j.at, now) \subseteq G[s]
      BY DEF Sights, More
    <2>2. Concerns(j) \subseteq Slots
      BY <1>2, <1>3, ConcernsSlots
    <2> QED BY <1>4, <2>1, <2>2 DEF Noted
  <1>8. next \subseteq (mine \ {r}) \cup F /\ mine \ {r} \subseteq next
    BY DEF NextOf, Mine
  <1>9. \A q \in next : q.of = Of(k)
    BY <1>2, <1>3, <1>8 DEF Sends
  <1>10. \A q \in flight' : q.of.c = k.c => q.t = t
    BY <1>3, <1>4 DEF Sends
  <1>11. ASSUME NEW i \in Items(k)
         PROVE  Settled(k, i, G, adapter, now) \/ (Open(k, i, G, adapter) /\ \E q \in next : i \in Covers(q, adapter))
    <2>1. i \in Items(j) /\ i \in Items(jt)
      BY <1>2, <1>3, SameCall
    <2>2. CASE /\ j.res[i] = jt.res[i] /\ i \notin Taken(r, db')
               /\ i \in Covers(r, adapter) => \E f \in next : i \in Covers(f, adapter)
      <3>1. /\ Settled(jt, i, H, adapter, now) => Settled(k, i, G, adapter, now)
            /\ Open(jt, i, H, adapter) => Open(k, i, G, adapter)
        BY <1>1, <2>1, <2>2, StaysSettled
      <3>2. Settled(jt, i, H, adapter, now) \/ (Open(jt, i, H, adapter) /\ \E q \in mine : i \in Covers(q, adapter))
        BY <1>3, <2>1 DEF Waits
      <3>3. (\E q \in mine : i \in Covers(q, adapter)) => \E q \in next : i \in Covers(q, adapter)
        BY <1>8, <2>2
      <3> QED BY <3>1, <3>2, <3>3
    <2> QED BY <1>1, <2>1, <2>2 DEF Settles
  <1>12. Waits(k, next, adapter', G, now')
    BY <1>1, <1>11 DEF Waits
  <1>13. \A q \in next : Carries(q, G, adapter', aux', db')
    <2> SUFFICES ASSUME NEW q \in next PROVE Carries(q, G, adapter, aux', db')
      BY <1>1
    <2>1. Carries(q, G, adapter, aux, db')
      BY <1>1, <1>8, MineCarry
    <2>2. CommandOK(q, adapter, calls, now)
      BY <1>8, FlightIs DEF Sends, FlightOK, Mine
    <2>3. \A s \in Slots : G[s] \subseteq G[s]
      OBVIOUS
    <2>4. \A s \in Slots : db'[s] \in {None, db'[s]}
      OBVIOUS
    <2> QED BY <2>1, <2>2, <2>3, <2>4, CarriesGrow
  <1> HIDE DEF k, jt, H, G, mine, next
  <1>14. OutOK(k, next, adapter', G) /\ Together(next, adapter') /\ PutOK(k, next) /\ next # {}
    BY <1>1 DEF next
  <1> QED BY <1>2, <1>3, <1>4, <1>5, <1>6, <1>7, <1>9, <1>10, <1>12, <1>13, <1>14 DEF TaskOK, t, next

LEMMA Assembled ==
    ASSUME CallsInv, Goes, job' = [t \in Tasks |-> job'[t]],
           \A r \in flight' : r \in flight \/ FlightOK(r) \/ FlightOK(r)',
           \A t \in Tasks : TaskOK(t)'
    PROVE  CallsInv'
  <1>1. Types' /\ Types
    BY TypesStay DEF CallsInv
  <1>2. ASSUME NEW r \in flight' PROVE FlightOK(r)'
    <2>1. CASE FlightOK(r)'
      BY <2>1
    <2>2. CASE FlightOK(r)
      <3>1. CommandOK(r, adapter', calls', now')
        BY <1>1, <2>2, CommandStays DEF FlightOK
      <3>2. SweptOK(r, adapter', db', dirty', now')
        BY <1>1, <2>2, SweptStays
      <3> QED BY <3>1, <3>2 DEF FlightOK
    <2> QED BY <2>1, <2>2 DEF CallsInv
  <1> QED BY <1>1, <1>2 DEF CallsInv

\* What becomes of the tasks whose call command r is not of.
LEMMA OthersServed ==
    ASSUME CallsInv, Goes, NEW r \in flight, Leaves(r, db'), NEW F, Sends(r, F), flight' = (flight \ {r}) \cup F,
           NEW t \in Tasks, ~Live(r) \/ t # r.t, job'[t] = job[t]
    PROVE  TaskOK(t)'
  <1>1. Types /\ TaskOK(t) /\ \A q \in flight : FlightOK(q)
    BY DEF CallsInv
  <1>2. r.of.c \in 1..calls /\ r.c \in {0, r.of.c} /\ (r.c = 0 => adapter = "memcache")
    BY FlightIs DEF PlainOK
  <1> SUFFICES ASSUME job[t] # Idle
               PROVE  /\ Mine(flight', t, job[t].c) = Mine(flight, t, job[t].c)
                      /\ \A q \in flight' : q.of.c = job[t].c => q.t = t
                      /\ adapter = "dynamo" => \A s \in Slots : db'[s] \in {None, db[s]} \/ db'[s].val[1] # job[t].c
    BY <1>1, OthersKeep
  <1>3. OfOK(Of(job[t]), adapter, calls, now) /\ \A q \in flight : q.of.c = job[t].c => q.t = t
    BY <1>1 DEF TaskOK
  <1>4. job[t].c # 0
    <2>1. job[t].c \in 1..calls /\ calls \in Nat
      BY <1>1, <1>3, Numbers DEF OfOK, Of
    <2> QED BY <2>1
  <1>5. Mine(flight', t, job[t].c) = Mine(flight, t, job[t].c)
    BY <1>4 DEF Sends, Mine, Live
  <1>6. \A q \in flight' : q.of.c = job[t].c => q.t = t
    BY <1>3 DEF Sends
  <1>7. adapter = "dynamo" => r.of.c # job[t].c
    BY <1>2, <1>3 DEF Live
  <1>8. adapter = "dynamo" => \A s \in Slots : db'[s] \in {None, db[s]} \/ db'[s].val[1] # job[t].c
    <2> SUFFICES ASSUME adapter = "dynamo", NEW s \in Slots, db'[s] \notin {None, db[s]} PROVE db'[s].val[1] # job[t].c
      OBVIOUS
    <2>1. PICK i \in r.at : db'[s].val = <<r.of.c, i>>
      BY DEF Leaves
    <2> QED BY <1>7, <2>1
  <1> QED BY <1>5, <1>6, <1>8

LEMMA IdleOK == ASSUME NEW t, job'[t] = Idle PROVE TaskOK(t)'
  BY DEF TaskOK


\* No step but one that serves a command moves a row, but for what has expired.
LEMMA StillStepped == ASSUME db' = db, now' = now PROVE Stepped
  <1>1. \A s \in Slots : ~Lost(s)
    BY DEF Lost, Visible
  <1>2. SweepSafeStep
    BY <1>1 DEF SweepSafeStep
  <1>3. TtlWithin(Slack)
    BY DEF TtlWithin
  <1> QED BY <1>2, <1>3 DEF Stepped

LEMMA GoesOn ==
    ASSUME CallsInv, adapter' = adapter, now' = now, calls' = calls, db' \in [Slots -> Rows], Past(db', calls),
           AuxOK(aux', adapter, now), aux.boot # "pending" => aux'.boot = aux.boot /\ aux'.since = aux.since, Witness
    PROVE  Goes
  <1>1. now \in 0..MaxTime[adapter] /\ calls \in 0..MaxCalls
    BY DEF CallsInv, Types
  <1>2. now <= now /\ calls <= calls
    BY Numbers DEF CallsInv
  <1> QED BY <1>1, <1>2 DEF Goes

LEMMA LeavesPast == ASSUME CallsInv, NEW r \in flight, NEW d, Leaves(r, d) PROVE Past(d, calls)
  <1>1. Past(db, calls) /\ r.of.c \in 1..calls /\ calls \in Nat
    BY FlightIs, Numbers DEF Types
  <1>2. r.of.c <= calls
    BY <1>1
  <1>3. ASSUME NEW s \in Slots, d[s] # None PROVE d[s].val[1] <= calls
    <2>1. d[s] = db[s] \/ \E i \in r.at : d[s].val = <<r.of.c, i>>
      BY <1>3 DEF Leaves
    <2> QED BY <1>1, <1>2, <1>3, <2>1 DEF Past
  <1> QED BY <1>3 DEF Past

\* What becomes of the rows when r is served is what an action may do.
LEMMA ServedStepped ==
    ASSUME CallsInv, NEW r \in flight, NEW d, Leaves(r, d), db' = d, now' = now, NEW F,
           flight' = (flight \ {r}) \cup F, d = db \/ r \notin F
    PROVE  Stepped
  <1>1. CASE d = db
    BY <1>1, StillStepped
  <1>2. CASE r \notin F
    <2>1. r \in flight \ flight' /\ \A q \in flight \ flight' : q = r
      BY <1>2
    <2>2. Alone => SweepSafeStep
      <3> SUFFICES ASSUME Alone, NEW s \in Slots, Lost(s) PROVE \E q \in flight \ flight' : Lawful(q, s)
        BY DEF SweepSafeStep, Lawful
      <3>1. Visible(db[s], now) /\ d[s] = None
        BY DEF Lost
      <3> QED BY <2>1, <3>1 DEF Leaves
    <2>3. Positive => TtlWithin(Slack)
      BY <2>1 DEF TtlWithin, Leaves, Timely
    <2> QED BY <2>2, <2>3 DEF Stepped
  <1> QED BY <1>1, <1>2

\* The adapter keeps a.
Keeps(a) == AuxOK(a, adapter, now) /\ a.boot = aux.boot /\ a.since = aux.since

\* Command r is served, and the call goes on or is over.
LEMMA ServeKeeps ==
    ASSUME CallsInv, NEW r \in flight, NEW d, Leaves(r, d), NEW a, Keeps(a), NEW F, d = db \/ r \notin F, Sends(r, F),
           NEW j, Live(r) => Moves(r, d, F, j), Serve(r, d, a, F, j)
    PROVE  Kept
  <1> DEFINE k == After(r, d, j)
  <1>1. /\ db' = d /\ adapter' = adapter /\ aux' = a /\ now' = now /\ calls' = calls /\ Witness
        /\ flight' = (flight \ {r}) \cup F
    BY DEF Serve, Step
  <1>2. Goes
    BY <1>1, GoesOn, LeavesPast DEF Keeps, Leaves
  <1>3. r.t \in Tasks /\ job = [t \in Tasks |-> job[t]]
    BY FlightIs DEF Types
  <1>4. \A q \in flight' : q \in flight \/ FlightOK(q) \/ FlightOK(q)'
    BY <1>1 DEF Sends
  <1>5. Stepped
    BY <1>1, ServedStepped
  <1>6. CASE ~Live(r)
    <2>1. reply' = Idle /\ job' = job
      BY <1>6 DEF Serve, Step
    <2>2. \A t \in Tasks : TaskOK(t)'
      BY <1>1, <1>2, <1>6, <2>1, OthersServed
    <2>3. CallsInv'
      BY <1>2, <1>3, <1>4, <2>1, <2>2, Assembled
    <2> QED BY <1>5, <2>1, <2>3, NoReply DEF IInv, Kept
  <1>7. CASE Live(r) /\ Mine(flight', r.t, r.c) # {}
    <2>1. reply' = Idle /\ job' = [job EXCEPT ![r.t] = k]
      BY <1>1, <1>7 DEF Serve, Step, After
    <2> HIDE DEF k
    <2>2. job' = [t \in Tasks |-> job'[t]] /\ job'[r.t] = k /\ \A t \in Tasks : t # r.t => job'[t] = job[t]
      BY <1>3, <2>1
    <2>3. aux'.boot = aux.boot /\ aux'.since = aux.since /\ NextOf(r, F) # {}
      BY <1>1, <1>7 DEF Keeps, NextOf
    <2>4. TaskOK(r.t)'
      BY <1>1, <1>2, <1>7, <2>2, <2>3, MovedOK DEF k
    <2>5. \A t \in Tasks : t # r.t => TaskOK(t)'
      BY <1>1, <1>2, <2>2, OthersServed
    <2>6. CallsInv'
      BY <1>2, <1>4, <2>2, <2>4, <2>5, Assembled
    <2> QED BY <1>5, <2>1, <2>6, NoReply DEF IInv, Kept
  <1>8. CASE Live(r) /\ Mine(flight', r.t, r.c) = {}
    <2>1. reply' = [job |-> k, seen |-> Sights(r, d, j)] /\ job' = [job EXCEPT ![r.t] = Idle]
      BY <1>1, <1>8 DEF Serve, Step, After, Sights
    <2>2. job' = [t \in Tasks |-> job'[t]] /\ job'[r.t] = Idle /\ \A t \in Tasks : t # r.t => job'[t] = job[t]
      BY <1>3, <2>1
    <2>3. \A t \in Tasks : t # r.t => TaskOK(t)'
      BY <1>1, <1>2, <2>2, OthersServed
    <2>4. CallsInv'
      BY <1>2, <1>4, <2>2, <2>3, IdleOK, Assembled
    <2>5. NextOf(r, F) = {} /\ Moves(r, d, F, j)
      BY <1>1, <1>8 DEF NextOf
    <2>6. Onward(job[r.t], j) /\ OutOK(k, {}, adapter, Sights(r, d, j)) /\ Settles(r, d, F, j)
      BY <2>5 DEF Moves
    <2>7. CallOK(k) /\ Of(k) = Of(j) /\ Of(j) = r.of /\ k # Idle
      BY <1>8, <2>6, AfterOK
    <2>8. Mine(flight, r.t, r.c) = {r}
      <3>1. r \in Mine(flight, r.t, r.c)
        BY <1>8, LiveCall
      <3> QED BY <1>1, <1>8, <3>1 DEF Mine
    <2>9. ASSUME NEW i \in Items(k) PROVE Settled(k, i, Sights(r, d, j), adapter, now)
      <3>1. i \in Items(j) /\ i \in Items(job[r.t])
        BY <1>8, <2>7, LiveCall, SameCall
      <3>2. CASE j.res[i] = job[r.t].res[i] /\ i \notin Taken(r, d) /\ i \notin Covers(r, adapter)
        <4>1. Settled(job[r.t], i, seen[r.t], adapter, now)
          BY <1>8, <2>8, <3>1, <3>2, LiveCall DEF Waits
        <4> QED BY <1>8, <2>6, <3>1, <3>2, <4>1, StaysSettled
      <3> QED BY <2>5, <2>6, <3>1, <3>2 DEF Settles
    <2> HIDE DEF k
    <2>10. Promises'
      BY <1>1, <2>1, <2>6, <2>7, <2>9, EndedRight
    <2> QED BY <1>5, <2>4, <2>10 DEF IInv, Kept
  <1> QED BY <1>6, <1>7, <1>8

\* The call ends with command r, although others of it may be in flight.
LEMMA EndsKeep ==
    ASSUME CallsInv, NEW r \in flight, NEW d, Leaves(r, d), db' = d, aux' = aux, adapter' = adapter, now' = now,
           calls' = calls, Witness, flight' = flight \ {r}, job' = IF Live(r) THEN [job EXCEPT ![r.t] = Idle] ELSE job
    PROVE  CallsInv' /\ Stepped
  <1>1. AuxOK(aux, adapter, now) /\ flight' = (flight \ {r}) \cup {} /\ r \notin {} /\ Sends(r, {})
    BY DEF Types, CallsInv, Sends
  <1>2. Goes
    BY <1>1, GoesOn, LeavesPast DEF Leaves
  <1>3. r.t \in Tasks /\ job = [t \in Tasks |-> job[t]]
    BY FlightIs DEF Types
  <1>4. /\ job' = [t \in Tasks |-> job'[t]]
        /\ Live(r) => job'[r.t] = Idle
        /\ \A t \in Tasks : (~Live(r) \/ t # r.t) => job'[t] = job[t]
    BY <1>3
  <1>5. ASSUME NEW t \in Tasks PROVE TaskOK(t)'
    <2>1. CASE Live(r) /\ t = r.t
      BY <1>4, <2>1, IdleOK
    <2>2. CASE ~Live(r) \/ t # r.t
      <3>1. job'[t] = job[t] /\ Leaves(r, db')
        BY <1>4, <2>2
      <3> QED BY <1>1, <1>2, <2>2, <3>1, OthersServed
    <2> QED BY <2>1, <2>2
  <1>6. \A q \in flight' : q \in flight \/ FlightOK(q) \/ FlightOK(q)'
    OBVIOUS
  <1>7. CallsInv'
    BY <1>2, <1>4, <1>5, <1>6, Assembled
  <1>8. Stepped
    BY <1>1, ServedStepped
  <1> QED BY <1>7, <1>8

LEMMA RejectKeeps == ASSUME CallsInv, NEW r \in flight, NEW d, Leaves(r, d), Reject(r, d) PROVE Kept
  <1>1. CallsInv' /\ Stepped
    BY EndsKeep DEF Reject, RejectWith
  <1>2. reply' = Idle
    BY DEF Reject, RejectWith
  <1> QED BY <1>1, <1>2, NoReply DEF IInv, Kept

\* It ends with an error that is caught: it acknowledges nothing that was not written.
Fails(j) == CallOK(j) /\ j.failed /\ (j.op \in WriteOps => \A i \in All(j) : ~j.res[i])

LEMMA FinishKeeps ==
    ASSUME CallsInv, NEW r \in flight, NEW d, Leaves(r, d), NEW j, Live(r) => Fails(j), Finish(r, d, aux, j)
    PROVE  Kept
  <1>1. /\ db' = d /\ adapter' = adapter /\ aux' = aux /\ now' = now /\ calls' = calls /\ Witness
        /\ flight' = flight \ {r}
    BY DEF Finish, Step
  <1>2. job' = IF Live(r) THEN [job EXCEPT ![r.t] = Idle] ELSE job
    BY DEF Finish, Step
  <1>3. CallsInv' /\ Stepped
    BY <1>1, <1>2, EndsKeep
  <1>4. CASE ~Live(r)
    BY <1>3, <1>4, NoReply DEF Finish, Step, IInv, Kept
  <1>5. CASE Live(r)
    <2> DEFINE k == After(r, d, j)
    <2>1. reply' = [job |-> k, seen |-> Sights(r, d, j)]
      BY <1>5 DEF Finish, Step, After, Sights
    <2>2. k.failed = j.failed /\ k.op = j.op /\ k.res = j.res /\ k.keys = j.keys
      BY <1>5 DEF After, Fields, Fails, CallOK, IsJob
    <2> HIDE DEF k
    <2>3. k.failed /\ (k.op \in WriteOps => \A i \in All(k) : k.res[i] => i \in k.put)
      BY <1>5, <2>2 DEF Fails, All
    <2>4. Promises'
      BY <2>1, <2>3, FailedRight
    <2> QED BY <1>3, <2>4 DEF IInv, Kept
  <1> QED BY <1>4, <1>5

\* A step nobody called for: rows that have expired may go.
LEMMA HappenKeeps ==
    ASSUME CallsInv, NEW S, \A s \in S \cap Slots : Expired(db[s], now), NEW a, AuxOK(a, adapter, now),
           aux.boot # "pending" => a.boot = aux.boot /\ a.since = aux.since, NEW d, d = db \/ d = Drop(db, S), Happen(d, a)
    PROVE  Kept
  <1>1. /\ db' = d /\ adapter' = adapter /\ aux' = a /\ now' = now /\ calls' = calls /\ Witness
        /\ flight' = flight /\ reply' = Idle /\ job' = job
    BY DEF Happen
  <1>2. db \in [Slots -> Rows] /\ Past(db, calls) /\ job = [t \in Tasks |-> job[t]]
    BY DEF CallsInv, Types
  <1>3. db' \in [Slots -> Rows] /\ \A s \in Slots : db'[s] = db[s] \/ (db'[s] = None /\ s \in S)
    BY <1>1, <1>2, DropRows
  <1>4. Past(db', calls)
    BY <1>2, <1>3 DEF Past
  <1>5. Goes
    BY <1>1, <1>3, <1>4, GoesOn
  <1>6. ASSUME NEW u \in Tasks PROVE TaskOK(u)'
    <2>1. Types /\ TaskOK(u) /\ \A r \in flight : FlightOK(r)
      BY DEF CallsInv
    <2>2. job[u] # Idle => \A r \in flight' : r.of.c = job[u].c => r.t = u
      BY <1>1, <2>1 DEF TaskOK
    <2> QED BY <1>1, <1>3, <1>5, <2>1, <2>2, OthersKeep
  <1>7. CallsInv'
    BY <1>1, <1>2, <1>5, <1>6, Assembled
  <1>8. Stepped
    <2>1. \A s \in Slots : ~Lost(s)
      BY <1>1, <1>3 DEF Lost, Visible
    <2>2. flight \ flight' = {}
      BY <1>1
    <2>3. SweepSafeStep
      BY <2>1 DEF SweepSafeStep
    <2> QED BY <2>2, <2>3 DEF Stepped, TtlWithin
  <1> QED BY <1>1, <1>7, <1>8, NoReply DEF IInv, Kept

LEMMA TickKeeps == ASSUME CallsInv, Tick PROVE Kept
  <1>1. /\ db' = db /\ adapter' = adapter /\ aux' = aux /\ now' = now + 1 /\ now < MaxTime[adapter] /\ calls' = calls
        /\ Witness /\ flight' = flight /\ reply' = Idle /\ job' = job
    BY DEF Tick
  <1>2. /\ Types /\ now \in Nat /\ calls \in Nat /\ calls \in 0..MaxCalls /\ now \in 0..MaxTime[adapter]
        /\ MaxTime[adapter] \in Nat
    BY Numbers DEF CallsInv, Types
  <1>3. AuxOK(aux, adapter, now')
    <2>1. \A x : x \in 0..now => x \in 0..now'
      BY <1>1, <1>2
    <2> QED BY <1>2, <2>1 DEF Types, AuxOK, LeasesOK
  <1>4. Goes
    <2>1. now' \in 0..MaxTime[adapter] /\ now <= now' /\ calls <= calls'
      BY <1>1, <1>2
    <2> QED BY <1>1, <1>2, <1>3, <2>1 DEF Goes, Types
  <1>5. ASSUME NEW u \in Tasks PROVE TaskOK(u)'
    <2>1. Types /\ TaskOK(u) /\ \A r \in flight : FlightOK(r)
      BY DEF CallsInv
    <2>2. job[u] # Idle => \A r \in flight' : r.of.c = job[u].c => r.t = u
      BY <1>1, <2>1 DEF TaskOK
    <2>3. \A s \in Slots : db'[s] \in {None, db[s]}
      BY <1>1
    <2> QED BY <1>1, <1>4, <2>1, <2>2, <2>3, OthersKeep
  <1>6. CallsInv'
    BY <1>1, <1>2, <1>4, <1>5, Assembled DEF Types
  <1>7. Stepped
    <2>1. SweepSafeStep
      BY <1>1 DEF SweepSafeStep, Lost, Visible
    <2> QED BY <1>1, <2>1 DEF Stepped, TtlWithin
  <1> QED BY <1>1, <1>6, <1>7, NoReply DEF IInv, Kept

---------------------------------------------------------------------------
(* New calls *)

\* A call as it is made, of n calls, and what it has seen then.
Fresh(j, t, n) == CallOK(j) /\ OfOK(Of(j), adapter, n, now) /\ j.op \in Ops[t] /\ j.c = n /\ j.at = now /\ j.out = <<>>
Starts(j) == More(Nothing, Concerns(j), db, now, now)

\* What a new call sends carries no rows.
Opens(j, t, n, F) ==
    /\ \A f \in F : /\ f.t = t /\ f.of = Of(j) /\ f.c = j.c /\ CommandOK(f, adapter, n, now)
                    /\ f.do \notin {"sweep", "drop", "pull"} /\ InHand(f, adapter) = {}
    /\ \A i \in Items(j) : \/ Settled(j, i, Starts(j), adapter, now)
                           \/ Open(j, i, Starts(j), adapter) /\ \E f \in F : i \in Covers(f, adapter)
    /\ Together(F, adapter) /\ PutOK(j, F)

LEMMA NewJobFresh ==
    ASSUME CallsInv, NEW t \in Tasks, NEW op \in Ops[t], op \in KeyOps \cup WalkOps, NEW ns \in Namespaces,
           NEW ks \in Batches, op \in SingleOps => Len(ks) = 1, op \notin KeyOps => ks = <<>>,
           NEW live \in Lives[adapter] \cup {None}
    PROVE  LET j == NewJob(op, ns, ks, live)
           IN  /\ Fresh(j, t, calls + 1) /\ j.op = op /\ j.put = {} /\ j.unsure = {}
               /\ j.res = [i \in All(j) |-> IF op \in ReadOps THEN None ELSE FALSE]
  <1> DEFINE j == NewJob(op, ns, ks, live)
  <1>1. ks \in Seq(Keys) /\ calls \in Nat /\ now \in Nat /\ DOMAIN ks \subseteq Positions
    BY CallsAssumption, Numbers DEF CallsInv, Positions
  <1>2. /\ IsJob(j) /\ j.op = op /\ j.c = calls + 1 /\ j.ns = ns /\ j.live = live /\ j.at = now /\ j.out = <<>>
        /\ j.keys = [i \in DOMAIN ks |-> Stored[<<ns, ks[i]>>]] /\ j.put = {} /\ j.failed = FALSE /\ j.unsure = {}
        /\ j.res = [i \in DOMAIN ks |-> IF op \in ReadOps THEN None ELSE FALSE] /\ j.over = In(ns)
    BY DEF NewJob, IsJob, Fields
  <1> HIDE DEF j
  <1>3. j.keys \in Seq(Keys) /\ DOMAIN j.keys = DOMAIN ks /\ Len(j.keys) = Len(ks) /\ (ks = <<>> => j.keys = <<>>)
    <2>1. \A i \in DOMAIN ks : Stored[<<ns, ks[i]>>] \in Keys
      BY <1>1, CallsAssumption DEF Slots
    <2>2. DOMAIN ks = 1..Len(ks) /\ Len(ks) \in Nat
      BY <1>1
    <2>3. j.keys \in [1..Len(ks) -> Keys]
      BY <1>2, <2>1, <2>2
    <2> HIDE DEF Keys
    <2>4. j.keys \in Seq(Keys) /\ Len(j.keys) = Len(ks) /\ DOMAIN j.keys = DOMAIN ks
      BY <2>2, <2>3
    <2> QED BY <2>4
  <1>4. Of(j) = [c |-> calls + 1, op |-> op, ns |-> ns, keys |-> j.keys, live |-> live, at |-> now]
    BY <1>2 DEF Of
  <1>5. OfOK(Of(j), adapter, calls + 1, now)
    <2>1. Of(j) = Of(Of(j))
      BY DEF Of
    <2>2. calls + 1 \in 1..(calls + 1) /\ now \in 0..now
      BY <1>1
    <2>3. op \in SingleOps => Len(j.keys) = 1
      BY <1>3
    <2>4. Apart(Of(j), adapter)
      <3>1. Len(Of(j).keys) = Len(ks) /\ DOMAIN Of(j).keys = DOMAIN ks /\ \A i \in DOMAIN ks : Of(j).keys[i] = Stored[<<ns, ks[i]>>]
        BY <1>2, <1>3, <1>4
      <3>2. ASSUME adapter = "dynamo", Reports PROVE Len(ks) <= WriteChunk \/ Distinct(ks)
        <4>1. "dynamo" \in Adapters
          BY <3>2 DEF CallsInv, Types
        <4> QED BY <3>2, <4>1 DEF Reports
      <3>3. Distinct(ks) => \A i, m \in DOMAIN Of(j).keys : Of(j).keys[i] = Of(j).keys[m] => i = m
        <4> SUFFICES ASSUME Distinct(ks), NEW i \in DOMAIN Of(j).keys, NEW m \in DOMAIN Of(j).keys, Of(j).keys[i] = Of(j).keys[m]
                     PROVE  i = m
          OBVIOUS
        <4>1. i \in DOMAIN ks /\ m \in DOMAIN ks /\ Stored[<<ns, ks[i]>>] = Stored[<<ns, ks[m]>>]
          BY ONLY <3>1, i \in DOMAIN Of(j).keys, m \in DOMAIN Of(j).keys, Of(j).keys[i] = Of(j).keys[m]
        <4> QED BY <4>1, Zenon DEF Distinct
      <3>4. adapter = "dynamo" /\ Reports => Len(Of(j).keys) <= WriteChunk \/ \A i, m \in DOMAIN Of(j).keys : Of(j).keys[i] = Of(j).keys[m] => i = m
        BY <3>1, <3>2, <3>3
      <3> QED BY <3>4, Zenon DEF Apart
    <2> QED BY <1>1, <1>3, <1>4, <2>1, <2>2, <2>3, <2>4 DEF OfOK
  <1>6. CallOK(j)
    <2>1. j.out \in Seq([key : Keys, val : Values])
      BY <1>2
    <2> QED BY <1>2, <1>3, <2>1 DEF CallOK, All
  <1> QED BY <1>2, <1>3, <1>5, <1>6 DEF Fresh, j, All

LEMMA NothingOut == ASSUME NEW j, j.out = <<>>, NEW F, NEW a, NEW H PROVE OutOK(j, F, a, H)
  BY DEF OutOK

LEMMA EnterKeeps ==
    ASSUME CallsInv, NEW t \in Tasks, NEW j, Fresh(j, t, calls + 1), NEW F, Opens(j, t, calls + 1, F),
           NEW a, Keeps(a), EnterWith(t, j, F, a)
    PROVE  Kept
  <1>1. /\ db' = db /\ adapter' = adapter /\ aux' = a /\ now' = now /\ calls' = calls + 1 /\ Witness
        /\ flight' = flight \cup F /\ job[t] = Idle /\ calls < MaxCalls
    BY DEF EnterWith
  <1>2. calls \in Nat /\ MaxCalls \in Nat /\ calls + 1 \in 0..MaxCalls /\ calls <= calls + 1 /\ calls + 1 \notin 0..calls
    BY <1>1, Numbers DEF CallsInv
  <1>3. Types /\ db \in [Slots -> Rows] /\ Past(db, calls) /\ job = [u \in Tasks |-> job[u]]
    BY DEF CallsInv, Types
  <1>4. Past(db, calls + 1)
    <2>1. ASSUME NEW s \in Slots, db[s] # None PROVE db[s].val[1] <= calls + 1
      <3>1. db[s].val[1] <= calls /\ db[s] \in Rows
        BY <1>3, <2>1 DEF Past
      <3>2. db[s].val[1] \in Nat
        BY <1>2, <2>1, <3>1, CallsAssumption DEF Rows, Row, Values
      <3> QED BY <1>2, <3>1, <3>2
    <2> QED BY <2>1 DEF Past
  <1>5. Goes
    <2>1. now \in 0..MaxTime[adapter] /\ now <= now
      BY <1>3, Numbers DEF Types
    <2> QED BY <1>1, <1>2, <1>3, <1>4, <2>1 DEF Goes, Keeps
  <1>6. \A f \in F : f.t = t /\ f.c = calls + 1 /\ f.of = Of(j) /\ f.of.c = calls + 1
    <2>1. Of(j).c = calls + 1 /\ j.c = calls + 1
      BY DEF Fresh, Of
    <2> QED BY <2>1 DEF Opens
  <1>7. \A q \in flight : q.of.c \in 1..calls /\ q.c \in 0..calls
    <2>1. \A q \in flight : q.of.c \in 1..calls /\ q.c \in {0, q.of.c}
      BY FlightIs
    <2> QED BY <1>2, <2>1
  <1>8. \A q \in flight' : q \in flight \/ FlightOK(q) \/ FlightOK(q)'
    <2> SUFFICES ASSUME NEW q \in F PROVE FlightOK(q)'
      BY <1>1
    <2>1. CommandOK(q, adapter', calls', now') /\ q.do \notin {"sweep", "drop", "pull"} /\ InHand(q, adapter) = {}
      BY <1>1 DEF Opens
    <2>2. Targets(q, adapter) = {} /\ Parked(q, adapter) = {}
      BY <2>1 DEF Targets, Parked
    <2>3. SweptOK(q, adapter', db', dirty', now')
      BY <1>1, <2>1, <2>2 DEF SweptOK
    <2> QED BY <2>1, <2>3 DEF FlightOK
  <1>9. \A u \in Tasks : u # t /\ job'[u] = job[u] => TaskOK(u)'
    <2>1. ASSUME NEW u \in Tasks, u # t, job'[u] = job[u] PROVE TaskOK(u)'
      <3>1. Types /\ TaskOK(u) /\ \A r \in flight : FlightOK(r)
        BY DEF CallsInv
      <3>2. \A s \in Slots : db'[s] \in {None, db[s]}
        BY <1>1
      <3>3. job[u] # Idle => Mine(flight', u, job[u].c) = Mine(flight, u, job[u].c)
        BY <1>1, <1>6, <2>1 DEF Mine
      <3>4. job[u] # Idle => \A r \in flight' : r.of.c = job[u].c => r.t = u
        <4>1. job[u] # Idle => job[u].c \in 1..calls /\ \A r \in flight : r.of.c = job[u].c => r.t = u
          BY <3>1 DEF TaskOK, OfOK, Of
        <4>2. calls + 1 \notin 1..calls
          BY <1>2
        <4> QED BY <1>1, <1>6, <4>1, <4>2
      <3> QED BY <1>5, <2>1, <3>1, <3>2, <3>3, <3>4, OthersKeep
    <2> QED BY <2>1
  <1>10. Stepped
    BY <1>1, StillStepped
  <1>11. j # Idle
    BY NotIdle DEF Fresh
  <1>12. CASE F = {}
    <2> DEFINE H == Starts(j)
    <2>1. job' = job /\ reply' = [job |-> j, seen |-> H]
      BY <1>12 DEF EnterWith, Starts
    <2>2. \A i \in Items(j) : Settled(j, i, H, adapter, now)
      BY <1>12 DEF Opens
    <2> HIDE DEF H
    <2>3. CallOK(j) /\ OutOK(j, {}, adapter, H)
      BY NothingOut DEF Fresh
    <2>4. Promises'
      BY <1>1, <1>11, <2>1, <2>2, <2>3, EndedRight
    <2>5. TaskOK(t)'
      BY <1>1, <2>1, IdleOK
    <2>6. \A u \in Tasks : TaskOK(u)'
      BY <1>9, <2>1, <2>5
    <2>7. CallsInv'
      BY <1>3, <1>5, <1>8, <2>1, <2>6, Assembled
    <2> QED BY <1>10, <2>4, <2>7 DEF IInv, Kept
  <1>13. CASE F # {}
    <2>1. reply' = Idle /\ job' = [job EXCEPT ![t] = j]
      BY <1>13 DEF EnterWith
    <2>2. job' = [u \in Tasks |-> job'[u]] /\ job'[t] = j /\ \A u \in Tasks : u # t => job'[u] = job[u]
      BY <1>3, <2>1
    <2> DEFINE G == Starts(j)
               mine == Mine(flight', t, j.c)
    <2>3. j.c = calls + 1 /\ j.at = now /\ j.out = <<>> /\ CallOK(j) /\ j.op \in Ops[t] /\ OfOK(Of(j), adapter, calls + 1, now)
      BY DEF Fresh
    <2>4. seen'[t] = G
      <3>1. seen'[t] = More(Nothing, Concerns(j), db', j.at, now')
        BY <1>1, <1>11, <2>2, WitnessSeen
      <3> QED BY <1>1, <2>3, <3>1 DEF Starts
    <2>5. mine = F
      <3>1. calls + 1 \notin 0..calls
        BY <1>2
      <3> QED BY <1>1, <1>6, <1>7, <2>3, <3>1 DEF Mine
    <2>6. Noted(j, G, db', now')
      <3>1. Concerns(j) \subseteq Slots
        BY <2>3, ConcernsSlots
      <3> QED BY <1>1, <2>3, <3>1 DEF Noted, More, Starts
    <2>7. Waits(j, mine, adapter', G, now')
      BY <1>1, <2>5 DEF Waits, Opens
    <2>8. \A q \in mine : q.of = Of(j)
      BY <1>6, <2>5
    <2>9. \A q \in flight' : q.of.c = j.c => q.t = t
      <3>1. calls + 1 \notin 1..calls
        BY <1>2
      <3> QED BY <1>1, <1>6, <1>7, <2>3, <3>1
    <2>10. ASSUME NEW q \in mine PROVE Carries(q, G, adapter', aux', db')
      <3>1. q.do \notin {"sweep", "drop", "pull"} /\ InHand(q, adapter) = {} /\ q.of.c = calls + 1
        BY <1>6, <2>5 DEF Opens
      <3>2. Parked(q, adapter) = {} /\ HandSeen(q, G, adapter', aux')
        BY <1>1, <3>1 DEF Parked, HandSeen
      <3>3. \A s \in Slots : db[s] # None => db[s].val[1] # calls + 1
        <4>1. ASSUME NEW s \in Slots, db[s] # None PROVE db[s].val[1] # calls + 1
          <5>1. db[s].val[1] <= calls
            BY <1>3, <4>1 DEF Past
          <5> QED BY <1>2, <5>1
        <4> QED BY <4>1
      <3>4. Unwritten(q, db')
        BY <1>1, <3>1, <3>3 DEF Unwritten
      <3> QED BY <1>1, <3>2, <3>4 DEF Carries
    <2>11. OutOK(j, mine, adapter', G) /\ Together(mine, adapter') /\ mine # {}
      BY <1>1, <1>13, <2>3, <2>5, NothingOut DEF Opens
    <2>16. PutOK(j, mine)
      BY <2>5 DEF Opens
    <2>12. OfOK(Of(j), adapter', calls', now')
      BY <1>1, <2>3
    <2> HIDE DEF G, mine
    <2>13. TaskOK(t)'
      BY <2>2, <2>3, <2>4, <2>6, <2>7, <2>8, <2>9, <2>10, <2>11, <2>12, <2>16 DEF TaskOK, mine
    <2>14. \A u \in Tasks : TaskOK(u)'
      BY <1>9, <2>2, <2>13
    <2>15. CallsInv'
      BY <1>5, <1>8, <2>2, <2>14, Assembled
    <2> QED BY <1>10, <2>1, <2>15, NoReply DEF IInv, Kept
  <1> QED BY <1>12, <1>13

---------------------------------------------------------------------------
(* Commands and clocks *)

LEMMA CommandIs ==
    ASSUME NEW t, NEW j, NEW do, NEW I, NEW with
    PROVE  LET f == Command(t, j, do, I, with)
           IN  f.t = t /\ f.c = j.c /\ f.do = do /\ f.at = I /\ f.with = with /\ f.of = Of(j) /\ IsCommand(f)
  BY DEF Command, Of, IsCommand

LEMMA OfAll ==
    ASSUME NEW j
    PROVE  /\ All(Of(j)) = All(j) /\ Of(Of(j)) = Of(j) /\ \A i : Slot(Of(j), i) = Slot(j, i)
           /\ Of(j).op = j.op /\ Of(j).keys = j.keys /\ Of(j).c = j.c /\ Of(j).ns = j.ns /\ Of(j).at = j.at
           /\ Of(j).live = j.live
  BY DEF Of, All, Slot

LEMMA ServedIn ==
    ASSUME NEW name, NEW do
    PROVE  /\ Sent(name, do) = {r \in flight : adapter = name /\ r.do = do}
           /\ Served(name, do) \subseteq Sent(name, do) /\ Failing(name, do) \subseteq Sent(name, do)
           /\ \A r \in Served(name, do) : aux.boot = "ready"
           /\ \A r \in Failing(name, do) : aux.boot \in {"ready", "failed"}
  BY DEF Sent, Served, Failing

\* When a command was called for, and when it could first be sent.
LEMMA Clocks ==
    ASSUME CallsInv, NEW r \in flight
    PROVE  /\ now \in Nat /\ r.of.at \in Nat /\ r.of.at <= now
           /\ Made(r) \in Nat /\ r.of.at <= Made(r) /\ Made(r) <= now
           /\ Made(r) = IF r.of.at < aux.since THEN aux.since ELSE r.of.at
           /\ r.of.live \in Int \cup {None} /\ r.of.live # None => r.of.live \in Int
           /\ r.of.live \in Lives[adapter] \cup {None} /\ Lives[adapter] \subseteq Int \cup {None}
  <1>1. now \in Nat /\ aux.since \in Nat /\ aux.since <= now /\ r.of.at \in 0..now /\ r.of.live \in Lives[adapter] \cup {None}
    BY FlightIs, Numbers DEF OfOK
  <1> DEFINE m == IF r.of.at < aux.since THEN aux.since ELSE r.of.at
             S == {r.of.at, aux.since}
  <1>2. m \in S /\ \A y \in S : m >= y
    BY <1>1
  <1>3. \A x \in S : (\A y \in S : x >= y) => x = m
    BY <1>1
  <1>4. Max(S) = m
    BY <1>2, <1>3 DEF Max
  <1>5. Lives[adapter] \subseteq Int \cup {None}
    BY CallsAssumption DEF CallsInv, Types
  <1> QED BY <1>1, <1>4, <1>5 DEF Made

\* What a call j of task t sends when n were made.
Calling(j, t, n) == t \in Tasks /\ OfOK(Of(j), adapter, n, now)

LEMMA CallingOf == ASSUME CallsInv, NEW r \in flight PROVE Calling(r.of, r.t, calls) /\ r.of = Of(r.of)
  BY FlightIs DEF Calling

LEMMA PlainMade ==
    ASSUME NEW j, NEW t, NEW n, Calling(j, t, n), NEW do, NEW I \in SUBSET All(j), NEW with, Fits(do, j.op),
           ShapeOK(Command(t, j, do, I, with), adapter, now)
    PROVE  LET f == Command(t, j, do, I, with)
           IN  PlainOK(f, adapter, n, now) /\ (do # "drop" => CommandOK(f, adapter, n, now) /\ Parked(f, adapter) = {})
  <1> DEFINE f == Command(t, j, do, I, with)
  <1>1. f.t = t /\ f.c = j.c /\ f.do = do /\ f.at = I /\ f.of = Of(j) /\ IsCommand(f)
    BY CommandIs
  <1> HIDE DEF f
  <1>2. f.c = f.of.c /\ f.of.c # 0 /\ f.of.op = j.op /\ All(f.of) = All(j)
    <2>1. Of(j).c \in 1..n
      BY DEF Calling, OfOK
    <2> QED BY <1>1, <2>1, OfAll
  <1>3. PlainOK(f, adapter, n, now)
    BY <1>1, <1>2 DEF PlainOK, Calling, f
  <1>4. do # "drop" => Parked(f, adapter) = {}
    BY <1>1 DEF Parked
  <1> QED BY <1>3, <1>4 DEF CommandOK, f

\* A command that needs nothing of those before it.
Light(do, a, op) ==
    \/ do \in {"sweep", "find", "count", "set", "upsert", "bulk", "all", "snapshot", "collect", "revoke", "close"}
    \/ do = "put" /\ a # "etcd" /\ (a = "dynamo" => op = "set")
    \/ do = "clear" /\ a # "dynamo"
    \/ do \in {"existing", "delete"} /\ ~(a = "mongo" /\ op = "deleteMany")
    \/ do = "read" /\ a = "rocksdb"

LEMMA LightMade ==
    ASSUME NEW j, NEW t, NEW n, Calling(j, t, n), NEW do, NEW I \in SUBSET All(j), NEW with, Fits(do, j.op),
           Light(do, adapter, j.op) \/ (do = "read" /\ \E i \in All(j) : I = {i})
    PROVE  LET f == Command(t, j, do, I, with) IN CommandOK(f, adapter, n, now) /\ Parked(f, adapter) = {}
  <1> DEFINE f == Command(t, j, do, I, with)
  <1>1. f.do = do /\ f.at = I /\ f.of = Of(j) /\ f.of.op = j.op /\ All(f.of) = All(j)
    BY CommandIs, OfAll
  <1> HIDE DEF f
  <1>2. do \notin {"write", "batch", "judge", "pull", "scan", "page", "scan to clear", "drop"}
    BY DEF Light
  <1>3. ~Chunked(f, adapter)
    BY <1>1, <1>2 DEF Chunked, Light
  <1>4. ShapeOK(f, adapter, now)
    BY <1>1, <1>2, <1>3 DEF ShapeOK, Light
  <1>5. ShapeOK(Command(t, j, do, I, with), adapter, now)
    BY <1>4 DEF f
  <1> HIDE DEF f
  <1>6. PlainOK(f, adapter, n, now) /\ CommandOK(f, adapter, n, now) /\ Parked(f, adapter) = {}
    BY <1>2, <1>5, PlainMade DEF f
  <1> QED BY <1>6 DEF f

\* What one that drops nothing covers, and one that only sweeps.
LEMMA CoversOf ==
    ASSUME NEW f, NEW a, f.do # "drop" PROVE Parked(f, a) = {} /\ Covers(f, a) = Settling(f, a)
  BY DEF Parked, Covers

LEMMA LightCovers ==
    ASSUME NEW f, NEW a, Light(f.do, a, f.of.op) \/ f.do = "read"
    PROVE  /\ f.do \in {"read", "find", "count", "set", "put", "upsert", "bulk", "existing", "delete"} => Covers(f, a) = f.at
           /\ f.do \in {"clear", "all", "snapshot"} => Covers(f, a) = In(f.of.ns)
           /\ f.do \in {"sweep", "collect", "revoke", "close"} => Covers(f, a) = {}
           /\ InHand(f, a) = {}
  <1>1. f.do \notin {"write", "batch", "judge", "pull", "scan", "page", "scan to clear", "drop"} /\ ~Chunked(f, a)
    BY DEF Light, Chunked
  <1>2. Covers(f, a) = Settling(f, a)
    BY <1>1, CoversOf
  <1>3. f.do = "clear" => a # "dynamo"
    BY DEF Light
  <1>4. InHand(f, a) = {}
    BY <1>1 DEF InHand, BeenRead, SlotsAt
  <1> QED BY <1>1, <1>2, <1>3, <1>4 DEF Settling

\* Sweeps that a command sends.
LEMMA SweepSends ==
    ASSUME CallsInv, NEW r \in flight, r.c = r.of.c, NEW I \in SUBSET All(r.of), NEW with, Fits("sweep", r.of.op),
           NEW f, f = Command(r.t, r.of, "sweep", I, with),
           \A s \in Targets(f, adapter) \cap Slots : db[s] = None \/ Expired(db[s], now) \/ s \in dirty[r.of.c]
    PROVE  /\ f.t = r.t /\ f.of = r.of /\ f.c \in {0, r.c} /\ FlightOK(f) /\ Covers(f, adapter) = {} /\ f.do = "sweep"
           /\ Carries(f, seen[r.t], adapter, aux, db) /\ \A H, x, d : Carries(f, H, adapter, x, d)
  <1>1. f.t = r.t /\ f.of = r.of /\ f.c = r.c /\ f.do = "sweep"
    BY CommandIs, CallingOf
  <1>2. CommandOK(f, adapter, calls, now) /\ Parked(f, adapter) = {}
    <2>1. Light("sweep", adapter, r.of.op)
      BY DEF Light
    <2> QED BY <2>1, CallingOf, LightMade
  <1>3. Covers(f, adapter) = {} /\ InHand(f, adapter) = {}
    <2>1. Light(f.do, adapter, f.of.op)
      BY <1>1 DEF Light
    <2> QED BY <1>1, <2>1, LightCovers
  <1>4. SweptOK(f, adapter, db, dirty, now)
    BY <1>1, <1>2, <1>3 DEF SweptOK
  <1>5. \A H, x, d : Carries(f, H, adapter, x, d)
    BY <1>1, <1>2, <1>3 DEF Carries, HandSeen
  <1> QED BY <1>1, <1>2, <1>3, <1>4, <1>5 DEF FlightOK

LEMMA NoneSent == ASSUME NEW r PROVE Sends(r, {})
  BY DEF Sends

---------------------------------------------------------------------------
(* What becomes of a call *)

LEMMA StaysOnward == ASSUME CallsInv, NEW r \in flight, Live(r) PROVE Onward(job[r.t], job[r.t])
  BY LiveCall, FurtherSelf DEF Onward

LEMMA AnsweredOnward ==
    ASSUME NEW h, NEW j, Onward(h, j), NEW R, DOMAIN R = All(j)
    PROVE  LET k == [j EXCEPT !.res = R]
           IN  /\ Onward(h, k) /\ k.res = R /\ k.unsure = j.unsure /\ k.failed = j.failed /\ Of(k) = Of(j) /\ k.put = j.put
               /\ k.out = j.out
  <1> DEFINE k == [j EXCEPT !.res = R]
  <1>1. /\ IsJob(k) /\ k.res = R /\ k.unsure = j.unsure /\ k.failed = j.failed /\ k.put = j.put /\ k.out = j.out
        /\ k.over = j.over /\ k.op = j.op /\ k.c = j.c /\ k.ns = j.ns /\ k.keys = j.keys /\ k.live = j.live /\ k.at = j.at
    BY DEF Onward, CallOK, IsJob, Fields
  <1> HIDE DEF k
  <1>2. Of(k) = Of(j) /\ All(k) = All(j)
    BY <1>1 DEF Of, All
  <1>3. CallOK(k) /\ Further(h, k)
    BY <1>1, <1>2 DEF Onward, CallOK, Further
  <1> QED BY <1>1, <1>2, <1>3 DEF Onward, k

LEMMA UnsureOnward ==
    ASSUME NEW h, NEW j, Onward(h, j), NEW U
    PROVE  LET k == Unsure(j, U)
           IN  /\ Onward(h, k) /\ k.res = j.res /\ k.unsure = j.unsure \cup U /\ k.failed = j.failed /\ Of(k) = Of(j)
               /\ k.put = j.put /\ k.out = j.out
  <1> DEFINE k == Unsure(j, U)
  <1>1. /\ IsJob(k) /\ k.res = j.res /\ k.unsure = j.unsure \cup U /\ k.failed = j.failed /\ k.put = j.put /\ k.out = j.out
        /\ k.over = j.over /\ k.op = j.op /\ k.c = j.c /\ k.ns = j.ns /\ k.keys = j.keys /\ k.live = j.live /\ k.at = j.at
    BY DEF Onward, CallOK, IsJob, Fields, Unsure
  <1> HIDE DEF k
  <1>2. Of(k) = Of(j) /\ All(k) = All(j)
    BY <1>1 DEF Of, All
  <1>3. CallOK(k) /\ Further(h, k)
    BY <1>1, <1>2 DEF Onward, CallOK, Further
  <1> QED BY <1>1, <1>2, <1>3 DEF Onward, k

LEMMA FailedOnward ==
    ASSUME NEW h, NEW j, Onward(h, j)
    PROVE  LET k == Failed(j)
           IN  /\ Onward(h, k) /\ k.res = j.res /\ k.unsure = j.unsure /\ k.failed = TRUE /\ Of(k) = Of(j)
               /\ k.put = j.put /\ k.out = j.out
  <1> DEFINE k == Failed(j)
  <1>1. /\ IsJob(k) /\ k.res = j.res /\ k.unsure = j.unsure /\ k.failed = TRUE /\ k.put = j.put /\ k.out = j.out
        /\ k.over = j.over /\ k.op = j.op /\ k.c = j.c /\ k.ns = j.ns /\ k.keys = j.keys /\ k.live = j.live /\ k.at = j.at
    BY DEF Onward, CallOK, IsJob, Fields, Failed
  <1> HIDE DEF k
  <1>2. Of(k) = Of(j) /\ All(k) = All(j)
    BY <1>1 DEF Of, All
  <1>3. CallOK(k) /\ Further(h, k)
    BY <1>1, <1>2 DEF Onward, CallOK, Further
  <1> QED BY <1>1, <1>2, <1>3 DEF Onward, k

\* What a call that waits for r sees of the keys it is concerned with.
LEMMA SightsAt ==
    ASSUME CallsInv, NEW r \in flight, Live(r), NEW d, NEW j, Onward(job[r.t], j), NEW s \in Concerns(r.of)
    PROVE  /\ s \in Slots /\ seen[r.t][s] \subseteq Sights(r, d, j)[s]
           /\ Looks(d[s], r.of.at, now) \subseteq Sights(r, d, j)[s]
           /\ Looks(db[s], r.of.at, now) \subseteq seen[r.t][s]
  <1>1. /\ Of(j) = r.of /\ Of(job[r.t]) = r.of /\ Noted(job[r.t], seen[r.t], db, now) /\ job[r.t].at = r.of.at
        /\ OfOK(Of(j), adapter, calls, now) /\ Of(r.of) = r.of
    BY LiveCall, FlightIs DEF Onward, Further
  <1>2. Concerns(j) = Concerns(r.of) /\ Concerns(job[r.t]) = Concerns(r.of) /\ j.at = r.of.at
    BY <1>1, SameCall
  <1>3. s \in Slots
    BY <1>1, <1>2, ConcernsSlots
  <1>4. Sights(r, d, j)[s] = seen[r.t][s] \cup Looks(d[s], r.of.at, now)
    BY <1>2, <1>3 DEF Sights, More
  <1>5. Looks(db[s], r.of.at, now) \subseteq seen[r.t][s]
    BY <1>1, <1>2 DEF Noted
  <1> QED BY <1>3, <1>4, <1>5

LEMMA KeySights ==
    ASSUME CallsInv, NEW r \in flight, Live(r), r.of.op \in KeyOps \ WriteOps, NEW d, NEW j, Onward(job[r.t], j),
           NEW i \in All(r.of)
    PROVE  LET s == Slot(r.of, i)
           IN  /\ s \in Slots /\ seen[r.t][s] \subseteq Sights(r, d, j)[s]
               /\ Looks(d[s], r.of.at, now) \subseteq Sights(r, d, j)[s]
               /\ Looks(db[s], r.of.at, now) \subseteq seen[r.t][s]
  <1>1. Slot(r.of, i) \in Concerns(r.of)
    BY FlightIs, KeysConcern
  <1> QED BY <1>1, SightsAt

\* An entry is answered by a row that was seen.
LEMMA ReadSettled ==
    ASSUME CallsInv, NEW r \in flight, Live(r), r.of.op \in ReadOps \cup HasOps, NEW d, NEW j, Onward(job[r.t], j),
           NEW i \in All(r.of), NEW row \in Rows, NEW old \in BOOLEAN, j.res[i] = Answer(r.of.op, row, old),
           row # None /\ ~old => row.val \in Sights(r, d, j)[Slot(r.of, i)],
           row = None \/ old => None \in Sights(r, d, j)[Slot(r.of, i)] \/ Moved(r.of, adapter, now)
    PROVE  Settled(After(r, d, j), i, Sights(r, d, j), adapter, now)
  <1> DEFINE k == After(r, d, j)
             H == Sights(r, d, j)
  <1>1. Of(k) = Of(j) /\ Of(j) = r.of /\ k.res = j.res /\ Of(r.of) = r.of
    BY AfterOK, FlightIs
  <1> HIDE DEF k, H
  <1>2. k.op = r.of.op /\ Slot(k, i) = Slot(r.of, i) /\ Moved(k, adapter, now) = Moved(r.of, adapter, now)
    BY <1>1, SameCall
  <1>3. row # None => row.val \notin {None, Stale}
    BY CallsAssumption DEF Rows, Row
  <1>4. r.of.op \in ReadOps => r.of.op \notin HasOps \cup WriteOps \cup DeleteOps \cup {"clear", "iterator"}
    BY DEF ReadOps, HasOps, WriteOps, DeleteOps
  <1>5. r.of.op \in HasOps => r.of.op \notin ReadOps \cup WriteOps \cup DeleteOps \cup {"clear", "iterator"}
    BY DEF ReadOps, HasOps, WriteOps, DeleteOps
  <1>6. CASE r.of.op \in ReadOps
    <2>1. k.res[i] = IF row = None \/ old THEN None ELSE row.val
      BY <1>1, <1>6 DEF Answer
    <2>2. k.res[i] \in H[Slot(k, i)] \/ (Moved(k, adapter, now) /\ k.res[i] = None)
      BY <1>2, <2>1 DEF H
    <2> QED BY <1>2, <1>4, <1>6, <2>2 DEF Settled, AnswerOK, k, H
  <1>7. CASE r.of.op \in HasOps
    <2>1. k.res[i] = (row # None /\ ~old)
      BY <1>1, <1>5, <1>7 DEF Answer
    <2>2. /\ k.res[i] \in BOOLEAN
          /\ k.res[i] => \E x \in H[Slot(k, i)] : x \notin {None, Stale}
          /\ ~k.res[i] => None \in H[Slot(k, i)] \/ Moved(k, adapter, now)
      BY <1>2, <1>3, <2>1 DEF H
    <2> QED BY <1>2, <1>5, <1>7, <2>2 DEF Settled, AnswerOK, k, H
  <1> QED BY <1>6, <1>7

\* An entry of a write, or a deletion, is answered.
LEMMA WriteSettled ==
    ASSUME CallsInv, NEW r \in flight, Live(r), r.of.op \in WriteOps, NEW d, NEW j, Onward(job[r.t], j),
           NEW i \in All(r.of), j.res[i] \in BOOLEAN,
           Tells(r.of, adapter) => (j.res[i] <=> i \in job[r.t].put \cup Taken(r, d))
    PROVE  Settled(After(r, d, j), i, Sights(r, d, j), adapter, now)
  <1> DEFINE k == After(r, d, j)
  <1>1. Of(k) = Of(j) /\ Of(j) = r.of /\ k.res = j.res /\ Of(r.of) = r.of /\ k.put = job[r.t].put \cup Taken(r, d)
    BY AfterOK, FlightIs
  <1> HIDE DEF k
  <1>2. k.op = r.of.op /\ Tells(k, adapter) = Tells(r.of, adapter)
    BY <1>1, SameCall
  <1>3. r.of.op \notin ReadOps \cup HasOps \cup DeleteOps \cup {"clear", "iterator"}
    BY DEF ReadOps, HasOps, WriteOps, DeleteOps
  <1> QED BY <1>1, <1>2, <1>3 DEF Settled, AnswerOK, k

LEMMA DeleteSettled ==
    ASSUME CallsInv, NEW r \in flight, Live(r), r.of.op \in DeleteOps, NEW d, NEW j, Onward(job[r.t], j),
           NEW i \in All(r.of), j.res[i] \in BOOLEAN, None \in Sights(r, d, j)[Slot(r.of, i)],
           j.res[i] => \E x \in Sights(r, d, j)[Slot(r.of, i)] : x # None
    PROVE  Settled(After(r, d, j), i, Sights(r, d, j), adapter, now)
  <1> DEFINE k == After(r, d, j)
             H == Sights(r, d, j)
  <1>1. Of(k) = Of(j) /\ Of(j) = r.of /\ k.res = j.res /\ Of(r.of) = r.of
    BY AfterOK, FlightIs
  <1> HIDE DEF k, H
  <1>2. k.op = r.of.op /\ Slot(k, i) = Slot(r.of, i)
    BY <1>1, SameCall
  <1>3. r.of.op \notin ReadOps \cup HasOps \cup WriteOps \cup {"clear", "iterator"}
    BY DEF ReadOps, HasOps, WriteOps, DeleteOps
  <1>4. k.res[i] \in BOOLEAN /\ None \in H[Slot(k, i)] /\ (k.res[i] => \E x \in H[Slot(k, i)] : x # None)
    BY <1>1, <1>2 DEF H
  <1> QED BY <1>2, <1>3, <1>4 DEF Settled, AnswerOK, k, H

\* What failed is excused, unless it is a write that answers true all the same.
LEMMA Excuses ==
    ASSUME CallsInv, NEW r \in flight, Live(r), NEW d, NEW j, Onward(job[r.t], j), NEW i,
           j.failed \/ (r.of.op \in KeyOps /\ i \in j.unsure),
           r.of.op \in WriteOps /\ Tells(r.of, adapter) => (j.res[i] => i \in job[r.t].put \cup Taken(r, d))
    PROVE  Settled(After(r, d, j), i, Sights(r, d, j), adapter, now)
  <1> DEFINE k == After(r, d, j)
  <1>1. /\ Of(k) = Of(j) /\ Of(j) = r.of /\ k.res = j.res /\ Of(r.of) = r.of /\ k.put = job[r.t].put \cup Taken(r, d)
        /\ k.failed = j.failed /\ k.unsure = j.unsure
    BY AfterOK, FlightIs
  <1> HIDE DEF k
  <1>2. k.op = r.of.op /\ Tells(k, adapter) = Tells(r.of, adapter)
    BY <1>1, SameCall
  <1> QED BY <1>1, <1>2 DEF Settled, Excused, k

\* What was answered true before was written, but in batches of dynamo, answered true in advance.
LEMMA TrueWritten ==
    ASSUME CallsInv, NEW r \in flight, Live(r), r.of.op \in WriteOps, NEW i \in All(r.of), Tells(r.of, adapter),
           ~(adapter = "dynamo" /\ r.of.op = "setMany"), job[r.t].res[i]
    PROVE  i \in job[r.t].put
  <1> DEFINE jt == job[r.t]
  <1>1. Waits(jt, Mine(flight, r.t, r.c), adapter, seen[r.t], now) /\ jt.op = r.of.op /\ Of(jt) = r.of /\ All(jt) = All(r.of)
    BY LiveCall
  <1>2. Tells(jt, adapter)
    BY <1>1 DEF Tells
  <1>3. Items(jt) = All(jt)
    BY <1>1 DEF Items, WriteOps
  <1> HIDE DEF jt
  <1>4. Settled(jt, i, seen[r.t], adapter, now) \/ Open(jt, i, seen[r.t], adapter)
    BY <1>1, <1>3 DEF Waits
  <1> QED BY <1>1, <1>2, <1>4 DEF Settled, AnswerOK, Excused, Open, jt

\* The moves of calls of keys.
LEMMA KeyMoves ==
    ASSUME CallsInv, NEW r \in flight, Live(r), r.of.op \in KeyOps, r.do # "write", NEW d, NEW j, Onward(job[r.t], j),
           NEW F, Sends(r, F), \A f \in F : f.do # "write" /\ Carries(f, Sights(r, d, j), adapter, aux, d),
           \A i \in All(r.of) :
               \/ Settled(After(r, d, j), i, Sights(r, d, j), adapter, now)
               \/ /\ \E f \in NextOf(r, F) : i \in Covers(f, adapter)
                  /\ Open(After(r, d, j), i, Sights(r, d, j), adapter)
               \/ /\ j.res[i] = job[r.t].res[i] /\ i \notin Taken(r, d)
                  /\ i \in Covers(r, adapter) => \E f \in NextOf(r, F) : i \in Covers(f, adapter)
    PROVE  Moves(r, d, F, j)
  <1> DEFINE k == After(r, d, j)
  <1>1. Of(k) = Of(j) /\ Of(j) = r.of /\ Of(r.of) = r.of
    BY AfterOK, FlightIs
  <1>2. r.of.op \notin {"clear", "iterator"}
    BY DEF KeyOps, ReadOps, HasOps, WriteOps, DeleteOps
  <1>3. Items(j) = All(r.of) /\ k.op # "iterator"
    <2>1. Items(j) = Items(r.of) /\ k.op = r.of.op
      BY <1>1, SameCall
    <2> QED BY <1>2, <2>1 DEF Items
  <1>4. OutOK(k, NextOf(r, F), adapter, Sights(r, d, j))
    BY <1>3 DEF OutOK
  <1>5. Settles(r, d, F, j)
    BY <1>3 DEF Settles
  <1>6. Together(NextOf(r, F), adapter)
    <2> SUFFICES ASSUME NEW p \in NextOf(r, F), NEW q \in NextOf(r, F), p # q PROVE p.of.op \in KeyOps /\ p.do # "write"
      BY DEF Together
    <2>1. CASE p \in F
      BY <2>1 DEF Sends
    <2>2. CASE p \in Mine(flight, r.t, r.c) /\ p # r
      <3>1. p.of = r.of /\ Together(Mine(flight, r.t, r.c), adapter) /\ r \in Mine(flight, r.t, r.c)
        BY <2>2, LiveCall
      <3> QED BY <2>2, <3>1 DEF Together
    <2> QED BY <2>1, <2>2 DEF NextOf, Mine
  <1>7. PutOK(k, NextOf(r, F))
    BY NoWrites
  <1> HIDE DEF k
  <1> QED BY <1>4, <1>5, <1>6, <1>7 DEF Moves, k

\* What was yielded stays yielded, and is not gone through again.
LEMMA OutStays ==
    ASSUME CallsInv, NEW r \in flight, Live(r), NEW d, NEW j, Onward(job[r.t], j), j.out = job[r.t].out, NEW F,
           \A s \in Slots : (\E f \in F : s \in Covers(f, adapter)) =>
                               \E q \in Mine(flight, r.t, r.c) : s \in Covers(q, adapter)
    PROVE  OutOK(After(r, d, j), F, adapter, Sights(r, d, j))
  <1> DEFINE k == After(r, d, j)
             jt == job[r.t]
             mine == Mine(flight, r.t, r.c)
  <1>1. OutOK(jt, mine, adapter, seen[r.t]) /\ CallOK(jt) /\ OfOK(Of(jt), adapter, calls, now)
    BY LiveCall, FlightIs
  <1>2. Of(k) = Of(jt) /\ k.out = jt.out
    BY AfterOK, LiveCall
  <1>3. k.op = jt.op /\ k.ns = jt.ns
    BY <1>2, SameCall
  <1>4. \A s \in Slots : seen[r.t][s] \subseteq Sights(r, d, j)[s]
    BY DEF Sights, More
  <1>5. \A m \in DOMAIN jt.out : <<jt.ns, jt.out[m].key>> \in Slots
    <2>1. jt.ns \in Namespaces /\ jt.out \in Seq([key : Keys, val : Values])
      BY <1>1 DEF OfOK, Of, CallOK
    <2>2. \A m \in DOMAIN jt.out : jt.out[m] \in [key : Keys, val : Values]
      BY <2>1, EntriesIn
    <2> QED BY <2>1, <2>2 DEF Slots
  <1> HIDE DEF k, jt, mine
  <1>6. OutOK(k, F, adapter, Sights(r, d, j))
    <2> SUFFICES ASSUME jt.op = "iterator" PROVE OutOK(k, F, adapter, Sights(r, d, j))
      BY <1>3 DEF OutOK
    <2>1. \A i, m \in DOMAIN jt.out : jt.out[i].key = jt.out[m].key => i = m
      BY <1>1 DEF OutOK
    <2>2. ASSUME NEW i \in DOMAIN jt.out
          PROVE  LET s == <<jt.ns, jt.out[i].key>>
                 IN  jt.out[i].val \in Sights(r, d, j)[s] /\ \A f \in F : s \notin Covers(f, adapter)
      <3> DEFINE s == <<jt.ns, jt.out[i].key>>
      <3>1. s \in Slots /\ jt.out[i].val \in seen[r.t][s] /\ \A q \in mine : s \notin Covers(q, adapter)
        BY <1>1, <1>5 DEF OutOK
      <3> QED BY <1>4, <3>1 DEF mine
    <2> QED BY <1>2, <1>3, <2>1, <2>2 DEF OutOK
  <1> QED BY <1>6 DEF k

\* Nothing follows r, and the call yields nothing.
LEMMA LastMoves ==
    ASSUME CallsInv, NEW r \in flight, Live(r), NEW d, NEW j, Onward(job[r.t], j), j.out = job[r.t].out,
           Settles(r, d, {}, j)
    PROVE  Moves(r, d, {}, j)
  <1>1. Together(Mine(flight, r.t, r.c), adapter)
    BY LiveCall
  <1>2. NextOf(r, {}) \subseteq Mine(flight, r.t, r.c)
    BY DEF NextOf, Mine
  <1>3. Together(NextOf(r, {}), adapter)
    BY <1>1, <1>2 DEF Together
  <1>4. OutOK(After(r, d, j), NextOf(r, {}), adapter, Sights(r, d, j))
    BY <1>2, OutStays
  <1> DEFINE k == After(r, d, j)
             F == {}
  <1>5. PutOK(k, NextOf(r, F))
    <2>1. \A f \in F : f.do # "write"
      OBVIOUS
    <2> HIDE DEF F, k
    <2> QED BY <2>1, NoWrites
  <1> QED BY <1>3, <1>4, <1>5 DEF Moves

\* A command of a call that says nothing of it, and to which nothing is left.
LEMMA SilentMoves ==
    ASSUME CallsInv, NEW r \in flight, Live(r), NEW d, Taken(r, d) = {}, Covers(r, adapter) = {}
    PROVE  Moves(r, d, {}, job[r.t])
  <1>1. Onward(job[r.t], job[r.t])
    BY StaysOnward
  <1>2. Settles(r, d, {}, job[r.t])
    BY DEF Settles
  <1> QED BY <1>1, <1>2, LastMoves

---------------------------------------------------------------------------
(* What becomes of the rows *)

LEMMA LeavesSame == ASSUME CallsInv, NEW r \in flight PROVE Leaves(r, db)
  <1>1. db \in [Slots -> Rows]
    BY DEF CallsInv, Types
  <1>2. Timely(r, db)
    BY DEF Timely
  <1>3. Alone => \A s \in Slots : Visible(db[s], now) /\ db[s] = None => Lawful(r, s)
    BY DEF Visible
  <1> QED BY <1>1, <1>2, <1>3 DEF Leaves

\* What the same value is written to has not moved.
LEMMA TakenSame ==
    ASSUME NEW r, NEW d, r.of.op \notin WriteOps PROVE Taken(r, d) = {}
  BY DEF Taken

LEMMA LeavesDrop ==
    ASSUME CallsInv, NEW r \in flight, NEW S, Alone => \A s \in S \cap Slots : Visible(db[s], now) => Lawful(r, s)
    PROVE  Leaves(r, Drop(db, S))
  <1>1. db \in [Slots -> Rows]
    BY DEF CallsInv, Types
  <1> DEFINE d == Drop(db, S)
  <1>2. d \in [Slots -> Rows] /\ \A s \in Slots : d[s] = IF s \in S THEN None ELSE db[s]
    BY <1>1, DropRows
  <1> HIDE DEF d
  <1>3. \A i \in All(r.of) : Slot(r.of, i) \in Slots
    BY FlightIs, SlotIn
  <1>4. r.at \subseteq All(r.of)
    BY FlightIs
  <1>5. Timely(r, d)
    BY <1>2, <1>3, <1>4 DEF Timely, SlotsAt
  <1>6. Alone => \A s \in Slots : Visible(db[s], now) /\ d[s] = None => Lawful(r, s)
    BY <1>2 DEF Visible
  <1> QED BY <1>2, <1>5, <1>6 DEF Leaves, d

\* A sweep deletes only what it may.
LEMMA SweepLeaves ==
    ASSUME CallsInv, NEW r \in flight, r.do \in {"sweep", "drop"}, NEW S, S \cap Slots \subseteq Targets(r, adapter)
    PROVE  Leaves(r, Drop(db, S))
  <1>1. SweptOK(r, adapter, db, dirty, now)
    BY FlightIs
  <1>2. ASSUME NEW s \in S \cap Slots, Visible(db[s], now) PROVE Lawful(r, s)
    <2>1. db[s] = None \/ Expired(db[s], now) \/ s \in dirty[r.of.c]
      BY <1>1 DEF SweptOK
    <2> QED BY <1>2, <2>1 DEF Visible, Lawful
  <1> QED BY <1>2, LeavesDrop

LEMMA ClearLeaves ==
    ASSUME CallsInv, NEW r \in flight, r.do = "clear", NEW S, Alone => S \cap Slots \subseteq In(r.of.ns)
    PROVE  Leaves(r, Drop(db, S))
  BY LeavesDrop DEF Lawful

LEMMA DeleteLeaves ==
    ASSUME CallsInv, NEW r \in flight, r.do = "delete"
    PROVE  Leaves(r, Drop(db, SlotsAt(r.of, r.at)))
  BY LeavesDrop DEF Lawful

LEMMA OutcomesAre == ASSUME NEW r, NEW d, NEW e \in Outcomes(r, d) PROVE e = db \/ e = d
  BY DEF Outcomes

LEMMA LastPosition ==
    ASSUME NEW n \in Nat, NEW J, J \subseteq 1..n, J # {}
    PROVE  \E j \in J : \A m \in J : m <= j
  <1> DEFINE K == {k \in Nat : \A m \in J : m <= k}
             R == {p \in Nat \X Nat : p[1] < p[2]}
  <1>1. n \in K /\ K \subseteq Nat
    OBVIOUS
  <1>2. IsWellFoundedOn(R, Nat)
    BY NatLessThanWellFounded DEF OpToRel
  <1>3. \A x, y \in Nat : <<y, x>> \in R <=> y < x
    OBVIOUS
  <1>4. PICK k \in K : \A l \in K : <<l, k>> \notin R
    <2> HIDE DEF K, R
    <2> QED BY <1>1, <1>2, WFMin
  <1>5. k \in Nat /\ (\A m \in J : m <= k) /\ \A l \in K : ~(l < k)
    BY <1>3, <1>4
  <1>6. ASSUME k \notin J PROVE FALSE
    <2>1. \A m \in J : m \in Nat /\ m >= 1 /\ m <= k /\ m # k
      BY <1>5, <1>6
    <2>2. PICK m \in J : m >= 1 /\ m <= k
      BY <2>1
    <2>3. k - 1 \in Nat
      BY <1>5, <2>1, <2>2
    <2>4. \A l \in Nat : l <= k /\ l # k => l <= k - 1
      BY <1>5
    <2>5. k - 1 \in K
      BY <2>1, <2>3, <2>4
    <2> HIDE DEF K
    <2> QED BY <1>5, <2>3, <2>5
  <1> QED BY <1>5, <1>6

\* A write leaves for each key it names the last entry that names it.
LEMMA WriteLeaves ==
    ASSUME CallsInv, NEW r \in flight, r.of.op \in WriteOps, NEW I \in SUBSET r.at, NEW e \in Int \cup {None},
           Positive /\ r.of.live # None =>
               e >= r.of.at + r.of.live - Slack(r.of.live) /\ e <= Made(r) + r.of.live + 1
    PROVE  LET d == Write(db, r.of, I, e)
           IN  /\ Leaves(r, d) /\ (r.c = r.of.c => I \subseteq Taken(r, d)) /\ Taken(r, d) \subseteq r.at
               /\ \A s \in Slots : (\A i \in I : Slot(r.of, i) # s) => d[s] = db[s]
               /\ \A s \in Slots : (\E i \in I : Slot(r.of, i) = s) => \E i \in I : d[s] # None /\ d[s].val = <<r.of.c, i>>
  <1> DEFINE j == r.of
             d == Write(db, j, I, e)
             W(s) == {i \in I : Slot(j, i) = s}
             last(s) == CHOOSE i \in W(s) : \A m \in W(s) : m <= i
  <1>1. r.at \subseteq All(j) /\ db \in [Slots -> Rows] /\ \A i \in All(j) : Slot(j, i) \in Slots
    <2>1. r.at \subseteq All(j) /\ Types /\ OfOK(Of(j), adapter, calls, now)
      BY FlightIs
    <2> QED BY <2>1, SlotIn DEF Types
  <1>2. All(j) = 1..Len(j.keys) /\ Len(j.keys) \in Nat /\ All(j) \subseteq Positions /\ j.c \in 0..MaxCalls
    <2>1. j.keys \in Seq(Keys) /\ DOMAIN j.keys \subseteq Positions /\ j.c \in 1..calls /\ calls \in 0..MaxCalls
      BY FlightIs DEF OfOK, Types
    <2>2. j.c \in 0..MaxCalls
      BY <2>1, CallsAssumption
    <2> QED BY <2>1, <2>2 DEF All
  <1>3. ASSUME NEW s \in Slots, W(s) # {} PROVE last(s) \in I /\ Slot(j, last(s)) = s
    <2>1. W(s) \subseteq 1..Len(j.keys)
      BY <1>1, <1>2
    <2> HIDE DEF W
    <2>2. \E i \in W(s) : \A m \in W(s) : m <= i
      BY <1>2, <1>3, <2>1, LastPosition
    <2>3. last(s) \in W(s)
      BY <2>2
    <2> QED BY <2>3 DEF W
  <1>4. d = [s \in Slots |-> IF W(s) = {} THEN db[s] ELSE [val |-> <<j.c, last(s)>>, exp |-> e]]
    BY DEF Write
  <1> HIDE DEF last, d
  <1>5. ASSUME NEW s \in Slots, W(s) # {} PROVE [val |-> <<j.c, last(s)>>, exp |-> e] \in Rows \ {None}
    <2>1. last(s) \in Positions
      BY <1>1, <1>2, <1>3, <1>5
    <2>2. <<j.c, last(s)>> \in Values
      BY <1>2, <2>1 DEF Values, Positions
    <2> QED BY <2>2, RowsOf
  <1>6. d \in [Slots -> Rows]
    <2>1. \A s \in Slots : (IF W(s) = {} THEN db[s] ELSE [val |-> <<j.c, last(s)>>, exp |-> e]) \in Rows
      BY <1>1, <1>5
    <2> HIDE DEF W
    <2> QED BY <1>4, <2>1
  <1>7. \A s \in Slots : W(s) = {} => d[s] = db[s]
    BY <1>4
  <1>8. \A s \in Slots : W(s) # {} =>
           d[s] # None /\ d[s].val = <<j.c, last(s)>> /\ d[s].exp = e /\ last(s) \in I /\ Slot(j, last(s)) = s
    <2> SUFFICES ASSUME NEW s \in Slots, W(s) # {}
                 PROVE  d[s] # None /\ d[s].val = <<j.c, last(s)>> /\ d[s].exp = e /\ last(s) \in I /\ Slot(j, last(s)) = s
      OBVIOUS
    <2>1. last(s) \in I /\ Slot(j, last(s)) = s /\ [val |-> <<j.c, last(s)>>, exp |-> e] # None
      BY <1>3, <1>5
    <2> HIDE DEF W
    <2>2. d[s] = [val |-> <<j.c, last(s)>>, exp |-> e]
      BY <1>4
    <2> QED BY <2>1, <2>2
  <1>9. ASSUME NEW i \in I, r.c = j.c PROVE i \in Taken(r, d)
    <2> DEFINE s == Slot(j, i)
    <2>1. s \in Slots /\ W(s) # {}
      BY <1>1, <1>9
    <2>2. d[s] # None /\ d[s].val = <<r.c, last(s)>> /\ last(s) \in r.at /\ Slot(j, last(s)) = s
      BY <1>8, <1>9, <2>1
    <2> QED BY <2>2 DEF Taken
  <1>10. Positive => Timely(r, d)
    <2> SUFFICES ASSUME Positive, NEW s \in SlotsAt(j, r.at), j.live # None, d[s] # db[s]
                 PROVE  d[s].exp >= j.at + j.live - Slack(j.live) /\ d[s].exp <= Made(r) + j.live + 1
      BY DEF Timely
    <2>1. s \in Slots
      BY <1>1 DEF SlotsAt
    <2>2. d[s].exp = e
      BY <1>7, <1>8, <2>1
    <2> QED BY <2>2
  <1>11. \A s \in Slots : d[s] = db[s] \/ \E i \in r.at : d[s] # None /\ d[s].val = <<j.c, i>>
    <2> HIDE DEF W
    <2> QED BY <1>7, <1>8
  <1>12. Alone => \A s \in Slots : Visible(db[s], now) /\ d[s] = None => Lawful(r, s)
    BY <1>11 DEF Visible
  <1>13. Leaves(r, d)
    BY <1>6, <1>10, <1>11, <1>12 DEF Leaves
  <1>14. Taken(r, d) \subseteq r.at
    BY DEF Taken
  <1>15. \A s \in Slots : (\A i \in I : Slot(j, i) # s) => d[s] = db[s]
    BY <1>7
  <1>16. \A s \in Slots : (\E i \in I : Slot(j, i) = s) => \E i \in I : d[s] # None /\ d[s].val = <<j.c, i>>
    <2>1. \A s \in Slots : (\E i \in I : Slot(j, i) = s) => W(s) # {}
      OBVIOUS
    <2> HIDE DEF W
    <2> QED BY <1>8, <2>1
  <1> QED BY <1>9, <1>13, <1>14, <1>15, <1>16 DEF d

---------------------------------------------------------------------------
(* Commands of single keys, of every adapter *)

LEMMA NotLate ==
    ASSUME CallsInv, NEW r \in flight, r.do \notin {"sweep", "set", "delete", "clear"} \/ adapter # "memcache"
    PROVE  r.c = r.of.c
  BY FlightIs DEF PlainOK

LEMMA ReadOnly ==
    ASSUME CallsInv, NEW r \in flight, r.of.op \notin WriteOps
    PROVE  Leaves(r, db) /\ Taken(r, db) = {}
  BY LeavesSame, TakenSame

\* A row that is there is judged by the clock at n, and the call has seen what it finds.
LEMMA JudgedSeen ==
    ASSUME CallsInv, NEW r \in flight, Live(r), r.of.op \in KeyOps \ WriteOps, NEW j, Onward(job[r.t], j),
           NEW i \in All(r.of), NEW n \in Nat, r.of.at <= n, n <= now
    PROVE  LET row == db[Slot(r.of, i)]
           IN  /\ row \in Rows /\ SeenAt(row, n, Sights(r, db, j)[Slot(r.of, i)])
               /\ row # None => row.val \notin {None, Stale} /\ \E x \in Sights(r, db, j)[Slot(r.of, i)] : x # None
  <1> DEFINE s == Slot(r.of, i)
             H == Sights(r, db, j)[s]
  <1>1. s \in Slots /\ Looks(db[s], r.of.at, now) \subseteq H
    BY KeySights
  <1>2. db[s] \in Rows
    BY <1>1 DEF CallsInv, Types
  <1>3. now \in Nat /\ r.of.at \in Nat
    BY Clocks
  <1> HIDE DEF s, H
  <1>4. /\ SeenAt(db[s], n, Looks(db[s], r.of.at, now))
        /\ db[s] # None => db[s].val \notin {None, Stale} /\ \E x \in Looks(db[s], r.of.at, now) : x # None
    BY <1>2, <1>3, RowLooks
  <1>5. SeenAt(db[s], n, H)
    BY <1>1, <1>4, SeenGrows
  <1> QED BY <1>1, <1>2, <1>4, <1>5 DEF s, H

\* Entries are read and judged; what has expired is swept by F.
LEMMA ReadKeeps ==
    ASSUME CallsInv, NEW r \in flight, r.do \in {"read", "find", "count"}, NEW n \in Nat, r.of.at <= n, n <= now, NEW F,
           \A f \in F :
               /\ \E I \in SUBSET All(r.of) : \E with : f = Command(r.t, r.of, "sweep", I, with)
               /\ \A s \in Targets(f, adapter) \cap Slots : Expired(db[s], now),
           Serve(r, db, aux, F, Judged(job[r.t], r.at, n))
    PROVE  Kept
  <1> DEFINE jt == job[r.t]
             R == [i \in DOMAIN jt.res |-> IF i \in r.at THEN Answer(jt.op, db[Slot(jt, i)], Expired(db[Slot(jt, i)], n))
                                           ELSE jt.res[i]]
             j == [jt EXCEPT !.res = R]
  <1>1. Judged(jt, r.at, n) = j
    BY DEF Judged, Answered
  <1>2. r.of.op \in ReadOps \cup HasOps /\ r.of.op \in KeyOps \ WriteOps /\ r.c = r.of.c /\ r.at \subseteq All(r.of)
    <2>1. Fits(r.do, r.of.op) /\ r.at \subseteq All(r.of) /\ r.c = r.of.c
      BY FlightIs, NotLate
    <2>2. r.of.op \in ReadOps \cup HasOps
      BY <2>1 DEF Fits
    <2> QED BY <2>1, <2>2, OpsApart
  <1>3. ASSUME NEW f \in F
        PROVE  /\ f.t = r.t /\ f.of = r.of /\ f.c \in {0, r.c} /\ FlightOK(f) /\ f.do = "sweep"
               /\ \A H, x, d : Carries(f, H, adapter, x, d)
    <2>1. PICK I \in SUBSET All(r.of) : \E with : f = Command(r.t, r.of, "sweep", I, with)
      OBVIOUS
    <2>3. PICK with : f = Command(r.t, r.of, "sweep", I, with)
      BY <2>1
    <2>4. \A s \in Targets(f, adapter) \cap Slots : Expired(db[s], now)
      OBVIOUS
    <2>2. Fits("sweep", r.of.op)
      BY <1>2 DEF Fits
    <2>5. \A s \in Targets(f, adapter) \cap Slots : db[s] = None \/ Expired(db[s], now) \/ s \in dirty[r.of.c]
      BY <2>4
    <2>6. r.c = r.of.c
      BY <1>2
    <2>7. f.t = r.t /\ f.c = r.of.c /\ f.of = Of(r.of) /\ f.do = "sweep" /\ r.of = Of(r.of)
      BY <2>3, CommandIs, CallingOf
    <2>8. FlightOK(f)
      BY <2>2, <2>3, <2>5, <2>6, SweepSends
    <2>9. \A H, x, d : Carries(f, H, adapter, x, d)
      BY <2>2, <2>3, <2>5, <2>6, SweepSends
    <2> QED BY <2>6, <2>7, <2>8, <2>9
  <1>4. Sends(r, F)
    BY <1>3 DEF Sends
  <1>5. Leaves(r, db) /\ Taken(r, db) = {}
    BY <1>2, ReadOnly
  <1>6. ASSUME Live(r) PROVE Moves(r, db, F, j)
    <2>1. /\ Onward(jt, jt) /\ CallOK(jt) /\ jt.op = r.of.op /\ All(jt) = All(r.of) /\ \A i : Slot(jt, i) = Slot(r.of, i)
      BY <1>6, StaysOnward, LiveCall
    <2>2. DOMAIN R = All(jt)
      BY <2>1 DEF CallOK
    <2>3. \A i \in All(r.of) :
             R[i] = IF i \in r.at THEN Answer(r.of.op, db[Slot(r.of, i)], Expired(db[Slot(r.of, i)], n)) ELSE jt.res[i]
      BY <2>1, <2>2
    <2> HIDE DEF R
    <2>4. Onward(jt, j) /\ j.res = R
      BY <2>1, <2>2, AnsweredOnward
    <2> HIDE DEF j, jt
    <2>5. ASSUME NEW i \in r.at PROVE Settled(After(r, db, j), i, Sights(r, db, j), adapter, now)
      <3> DEFINE row == db[Slot(r.of, i)]
                 old == Expired(row, n)
                 H == Sights(r, db, j)[Slot(r.of, i)]
      <3>1. i \in All(r.of) /\ row \in Rows /\ SeenAt(row, n, H)
        BY <1>2, <1>6, <2>4, JudgedSeen DEF jt
      <3>2. old \in BOOLEAN /\ (row # None /\ ~old => row.val \in H) /\ (row = None \/ old => None \in H)
        BY <3>1 DEF SeenAt, Visible, Expired
      <3>3. j.res[i] = Answer(r.of.op, row, old)
        BY <2>3, <2>4, <3>1
      <3> HIDE DEF row, old
      <3> QED BY <1>2, <1>6, <2>4, <3>1, <3>2, <3>3, ReadSettled DEF jt
    <2>6. \A i \in All(r.of) \ r.at : j.res[i] = jt.res[i] /\ i \notin Covers(r, adapter)
      <3>1. ~Chunked(r, adapter) /\ r.do # "drop"
        BY DEF Chunked
      <3>2. Covers(r, adapter) = r.at
        BY <3>1, CoversOf DEF Settling
      <3> QED BY <2>3, <2>4, <3>2
    <2>7. r.do # "write" /\ \A f \in F : f.do # "write" /\ Carries(f, Sights(r, db, j), adapter, aux, db)
      BY <1>3
    <2> QED BY <1>2, <1>4, <1>5, <1>6, <2>4, <2>5, <2>6, <2>7, KeyMoves DEF jt
  <1>7. Serve(r, db, aux, F, j)
    BY <1>1
  <1>8. Keeps(aux)
    BY DEF Keeps, CallsInv, Types
  <1> HIDE DEF j
  <1> QED BY <1>4, <1>5, <1>6, <1>7, <1>8, ServeKeeps

LEMMA KeepsSame == CallsInv => Keeps(aux)
  BY DEF Keeps, CallsInv, Types

\* What has expired is deleted, or the command fails.
LEMMA SweptKeeps ==
    ASSUME CallsInv, NEW r \in flight, r.do = "sweep", NEW S, S \cap Slots \subseteq Targets(r, adapter),
           NEW d, d = db \/ d = Drop(db, S), Serve(r, d, aux, {}, job[r.t])
    PROVE  Kept
  <1>1. Leaves(r, d)
    BY LeavesSame, SweepLeaves
  <1>2. Covers(r, adapter) = {}
    <2>1. Light(r.do, adapter, r.of.op)
      BY DEF Light
    <2> QED BY <2>1, LightCovers
  <1>3. Taken(r, d) = {}
    <2>1. r.of.op \in ReadOps \cup HasOps \cup {"clearExpired"}
      BY FlightIs DEF Fits
    <2>2. r.of.op \notin WriteOps
      BY <2>1 DEF ReadOps, HasOps, WriteOps
    <2> QED BY <2>2, TakenSame
  <1>4. Live(r) => Moves(r, d, {}, job[r.t])
    BY <1>2, <1>3, SilentMoves
  <1> QED BY <1>1, <1>4, KeepsSame, NoneSent, ServeKeeps

\* Entries are written, all together.
LEMMA PutKeeps ==
    ASSUME CallsInv, NEW r \in flight, r.do \in {"set", "put", "upsert"}, NEW e \in Int \cup {None},
           Positive /\ r.of.live # None =>
               e >= r.of.at + r.of.live - Slack(r.of.live) /\ e <= Made(r) + r.of.live + 1,
           NEW a, Keeps(a), Serve(r, Write(db, r.of, r.at, e), a, {}, True(job[r.t], r.at))
    PROVE  Kept
  <1> DEFINE jt == job[r.t]
             d == Write(db, r.of, r.at, e)
             R == [i \in DOMAIN jt.res |-> IF i \in r.at THEN TRUE ELSE jt.res[i]]
             j == [jt EXCEPT !.res = R]
  <1>1. True(jt, r.at) = j
    BY DEF True, Answered
  <1>2. r.of.op \in WriteOps /\ r.of.op \in KeyOps /\ r.at \subseteq All(r.of)
    <2>1. r.of.op \in WriteOps
      BY FlightIs DEF Fits
    <2> QED BY <2>1, FlightIs, OpsApart
  <1>3. Leaves(r, d) /\ (r.c = r.of.c => r.at \subseteq Taken(r, d)) /\ Taken(r, d) \subseteq r.at
    <2>1. r.at \in SUBSET r.at
      OBVIOUS
    <2> QED BY <1>2, <2>1, WriteLeaves
  <1> HIDE DEF d
  <1>4. ASSUME Live(r) PROVE Moves(r, d, {}, j)
    <2>1. /\ Onward(jt, jt) /\ CallOK(jt) /\ jt.op = r.of.op /\ All(jt) = All(r.of) /\ r.c = r.of.c
      BY <1>4, StaysOnward, LiveCall
    <2>2. DOMAIN R = All(jt)
      BY <2>1 DEF CallOK
    <2>3. \A i \in All(r.of) : R[i] = IF i \in r.at THEN TRUE ELSE jt.res[i]
      BY <2>1, <2>2
    <2> HIDE DEF R
    <2>4. Onward(jt, j) /\ j.res = R
      BY <2>1, <2>2, AnsweredOnward
    <2> HIDE DEF j, jt
    <2>5. ASSUME NEW i \in r.at PROVE Settled(After(r, d, j), i, Sights(r, d, j), adapter, now)
      <3>1. i \in All(r.of) /\ j.res[i] = TRUE /\ i \in Taken(r, d)
        BY <1>2, <1>3, <2>1, <2>3, <2>4
      <3> QED BY <1>2, <1>4, <2>4, <3>1, WriteSettled DEF jt
    <2>6. \A i \in All(r.of) \ r.at : j.res[i] = jt.res[i] /\ i \notin Covers(r, adapter) /\ i \notin Taken(r, d)
      <3>1. ~Chunked(r, adapter) /\ r.do # "drop"
        BY DEF Chunked
      <3>2. Covers(r, adapter) = r.at
        BY <3>1, CoversOf DEF Settling
      <3> QED BY <1>3, <2>3, <2>4, <3>2
    <2> QED BY <1>2, <1>4, <2>4, <2>5, <2>6, NoneSent, KeyMoves DEF jt
  <1>5. Serve(r, d, a, {}, j)
    BY <1>1 DEF d
  <1> HIDE DEF j
  <1> QED BY <1>3, <1>4, <1>5, NoneSent, ServeKeeps

\* Entries are deleted, and it is told which were there.
LEMMA DeletedKeeps ==
    ASSUME CallsInv, NEW r \in flight, r.do = "delete", ~Chunked(r, adapter),
           Serve(r, Drop(db, SlotsAt(r.of, r.at)), aux, {}, Existed(job[r.t], r.at))
    PROVE  Kept
  <1> DEFINE jt == job[r.t]
             d == Drop(db, SlotsAt(r.of, r.at))
             R == [i \in DOMAIN jt.res |-> IF i \in r.at THEN db[Slot(jt, i)] # None ELSE jt.res[i]]
             j == [jt EXCEPT !.res = R]
  <1>1. Existed(jt, r.at) = j
    BY DEF Existed, Answered
  <1>2. r.of.op \in DeleteOps /\ r.of.op \in KeyOps \ WriteOps /\ r.at \subseteq All(r.of)
    <2>1. r.of.op \in DeleteOps
      BY FlightIs DEF Fits
    <2> QED BY <2>1, FlightIs, OpsApart
  <1>3. Leaves(r, d) /\ Taken(r, d) = {}
    BY <1>2, DeleteLeaves, TakenSame
  <1>4. db \in [Slots -> Rows]
    BY DEF CallsInv, Types
  <1>5. \A s \in Slots : s \in SlotsAt(r.of, r.at) => d[s] = None
    BY <1>4, DropRows
  <1> HIDE DEF d
  <1>6. ASSUME Live(r) PROVE Moves(r, d, {}, j)
    <2>1. /\ Onward(jt, jt) /\ CallOK(jt) /\ jt.op = r.of.op /\ All(jt) = All(r.of) /\ \A i : Slot(jt, i) = Slot(r.of, i)
      BY <1>6, StaysOnward, LiveCall
    <2>2. DOMAIN R = All(jt)
      BY <2>1 DEF CallOK
    <2>3. \A i \in All(r.of) : R[i] = IF i \in r.at THEN db[Slot(r.of, i)] # None ELSE jt.res[i]
      BY <2>1, <2>2
    <2> HIDE DEF R
    <2>4. Onward(jt, j) /\ j.res = R
      BY <2>1, <2>2, AnsweredOnward
    <2> HIDE DEF j, jt
    <2>5. ASSUME NEW i \in r.at PROVE Settled(After(r, d, j), i, Sights(r, d, j), adapter, now)
      <3> DEFINE s == Slot(r.of, i)
                 H == Sights(r, d, j)[s]
      <3>1. i \in All(r.of) /\ j.res[i] = (db[s] # None)
        BY <1>2, <2>3, <2>4
      <3>2. /\ s \in Slots /\ seen[r.t][s] \subseteq H /\ Looks(d[s], r.of.at, now) \subseteq H
            /\ Looks(db[s], r.of.at, now) \subseteq seen[r.t][s]
        BY <1>2, <1>6, <2>4, <3>1, KeySights DEF jt
      <3>3. d[s] = None /\ db[s] \in Rows
        BY <1>4, <1>5, <3>2 DEF SlotsAt
      <3>4. None \in H
        BY <3>2, <3>3 DEF Looks, Visible
      <3>5. db[s] # None => \E x \in H : x # None
        <4>1. now \in Nat /\ r.of.at \in Nat /\ r.of.at <= now
          BY Clocks
        <4>2. db[s] # None => \E x \in Looks(db[s], r.of.at, now) : x # None
          BY <3>3, <4>1, RowLooks
        <4> QED BY <3>2, <4>2
      <3> HIDE DEF s
      <3> QED BY <1>2, <1>6, <2>4, <3>1, <3>4, <3>5, DeleteSettled DEF jt, s
    <2>6. \A i \in All(r.of) \ r.at : j.res[i] = jt.res[i] /\ i \notin Covers(r, adapter) /\ i \notin Taken(r, d)
      <3>1. r.do # "drop"
        OBVIOUS
      <3>2. Covers(r, adapter) = r.at
        BY <3>1, CoversOf DEF Settling
      <3> QED BY <1>3, <2>3, <2>4, <3>2
    <2> QED BY <1>2, <1>6, <2>4, <2>5, <2>6, NoneSent, KeyMoves DEF jt
  <1>7. Serve(r, d, aux, {}, j)
    BY <1>1 DEF d
  <1> HIDE DEF j
  <1> QED BY <1>3, <1>6, <1>7, KeepsSame, NoneSent, ServeKeeps

\* The command of entries fails: the call goes on without them.  It may stay in flight,
\* for no call.
LEMMA LateSends ==
    ASSUME CallsInv, NEW r \in flight, adapter = "memcache", r.do \in {"sweep", "set", "delete", "clear"}
    PROVE  Sends(r, Late({r})) /\ \A f \in Late({r}) : f.do # "write" /\ f.c = 0 /\ \A H, x, d : Carries(f, H, adapter, x, d)
  <1> DEFINE f == [r EXCEPT !.c = 0]
  <1>1. CommandOK(r, adapter, calls, now) /\ PlainOK(r, adapter, calls, now) /\ SweptOK(r, adapter, db, dirty, now)
    BY FlightIs
  <1>2. /\ f.t = r.t /\ f.c = 0 /\ f.do = r.do /\ f.at = r.at /\ f.with = r.with /\ f.of = r.of /\ IsCommand(f)
    BY <1>1 DEF PlainOK, IsCommand
  <1> HIDE DEF f
  <1>3. Chunked(f, adapter) = FALSE /\ Parked(f, adapter) = {} /\ InHand(f, adapter) = {}
    BY <1>2 DEF Chunked, Parked, InHand, BeenRead, SlotsAt
  <1>4. ShapeOK(f, adapter, now)
    BY <1>2, <1>3 DEF ShapeOK
  <1>5. PlainOK(f, adapter, calls, now)
    BY <1>1, <1>2, <1>4 DEF PlainOK
  <1>6. CommandOK(f, adapter, calls, now)
    BY <1>3, <1>5 DEF CommandOK
  <1>7. Targets(f, adapter) = Targets(r, adapter)
    BY <1>2 DEF Targets
  <1>8. SweptOK(f, adapter, db, dirty, now)
    BY <1>1, <1>2, <1>3, <1>7 DEF SweptOK
  <1>9. \A H, x, d : Carries(f, H, adapter, x, d)
    BY <1>2, <1>3 DEF Carries, HandSeen
  <1>10. Late({r}) = {f}
    BY DEF Late, f
  <1> QED BY <1>2, <1>6, <1>8, <1>9, <1>10 DEF Sends, FlightOK

LEMMA UnsureKeeps ==
    ASSUME CallsInv, NEW r \in flight, r.do \in {"read", "set", "put", "delete"}, ~Chunked(r, adapter),
           r.do = "set" => adapter = "memcache",
           NEW d, Leaves(r, d), NEW F, d = db \/ r \notin F, Sends(r, F),
           \A f \in F : f.do # "write" /\ \A H, x, e : Carries(f, H, adapter, x, e),
           Serve(r, d, aux, F, Unsure(job[r.t], r.at))
    PROVE  Kept
  <1> DEFINE jt == job[r.t]
             j == Unsure(jt, r.at)
  <1>1. r.of.op \in KeyOps /\ r.at \subseteq All(r.of)
    <2>1. Fits(r.do, r.of.op)
      BY FlightIs
    <2>2. r.of.op \in ReadOps \cup HasOps \cup WriteOps \cup DeleteOps
      BY <2>1 DEF Fits
    <2> QED BY <2>2, FlightIs, OpsApart
  <1>2. ASSUME Live(r) PROVE Moves(r, d, F, j)
    <2>1. Onward(jt, j) /\ j.res = jt.res /\ j.unsure = jt.unsure \cup r.at
      BY <1>2, StaysOnward, UnsureOnward
    <2> HIDE DEF j
    <2>2. ASSUME NEW i \in r.at PROVE Settled(After(r, d, j), i, Sights(r, d, j), adapter, now)
      <3>1. r.of.op \in WriteOps /\ Tells(r.of, adapter) => (j.res[i] => i \in jt.put)
        <4>1. r.of.op \in WriteOps => ~(adapter = "dynamo" /\ r.of.op = "setMany")
          <5>1. Fits(r.do, r.of.op) /\ ShapeOK(r, adapter, now) /\ PlainOK(r, adapter, calls, now)
            BY FlightIs
          <5>2. r.of.op \in WriteOps => r.do \in {"set", "put"}
            BY <5>1 DEF Fits, WriteOps, ReadOps, HasOps, DeleteOps
          <5> QED BY <5>1, <5>2 DEF ShapeOK
        <4> SUFFICES ASSUME r.of.op \in WriteOps, Tells(r.of, adapter), j.res[i] PROVE i \in jt.put
          OBVIOUS
        <4>2. i \in All(r.of) /\ jt.res[i]
          BY <1>1, <2>1
        <4> QED BY <1>2, <4>1, <4>2, TrueWritten DEF jt
      <3> QED BY <1>1, <1>2, <2>1, <3>1, Excuses
    <2>3. \A i \in All(r.of) \ r.at : j.res[i] = jt.res[i] /\ i \notin Covers(r, adapter) /\ i \notin Taken(r, d)
      <3>1. r.do # "drop"
        OBVIOUS
      <3>2. Covers(r, adapter) = r.at
        BY <3>1, CoversOf DEF Settling
      <3>3. Taken(r, d) \subseteq r.at
        BY DEF Taken
      <3> QED BY <2>1, <3>2, <3>3
    <2> QED BY <1>1, <1>2, <2>1, <2>2, <2>3, KeyMoves
  <1> HIDE DEF j
  <1>3. Serve(r, d, aux, F, j)
    BY DEF j
  <1> QED BY <1>2, <1>3, KeepsSame, ServeKeeps

---------------------------------------------------------------------------
(* Commands that fail, and commands of walks *)

\* A command of which nothing is told is served.
LEMMA QuietKeeps ==
    ASSUME CallsInv, NEW r \in flight, Covers(r, adapter) = {}, NEW d, Leaves(r, d), Taken(r, d) = {},
           NEW a, Keeps(a), Serve(r, d, a, {}, job[r.t])
    PROVE  Kept
  BY SilentMoves, NoneSent, ServeKeeps

\* The call fails; what is left of it goes on.
LEMMA FailMoves ==
    ASSUME CallsInv, NEW r \in flight, Live(r), NEW d, NEW j, Onward(job[r.t], j), j.out = job[r.t].out, j.failed,
           \A i \in All(r.of) : r.of.op \in WriteOps /\ Tells(r.of, adapter) =>
                                   (j.res[i] => i \in job[r.t].put \cup Taken(r, d)),
           NEW F, F = {} \/ (r.of.op # "iterator" /\ Together(NextOf(r, F), adapter) /\ \A f \in F : f.do # "write"),
           \A f \in F : Carries(f, Sights(r, d, j), adapter, aux, d)
    PROVE  Moves(r, d, F, j)
  <1>1. Of(j) = r.of /\ Of(After(r, d, j)) = r.of /\ Of(r.of) = r.of
    BY AfterOK, FlightIs
  <1>2. Items(j) = Items(r.of) /\ After(r, d, j).op = r.of.op
    BY <1>1, SameCall
  <1>3. r.of.op \in WriteOps => Items(j) = All(r.of)
    BY <1>2 DEF Items, WriteOps
  <1>4. \A i \in Items(j) : Settled(After(r, d, j), i, Sights(r, d, j), adapter, now)
    <2> TAKE i \in Items(j)
    <2>1. r.of.op \in WriteOps /\ Tells(r.of, adapter) => (j.res[i] => i \in job[r.t].put \cup Taken(r, d))
      BY <1>3
    <2> QED BY <2>1, Excuses
  <1>5. Settles(r, d, F, j)
    BY <1>4 DEF Settles
  <1>6. CASE F = {}
    BY <1>5, <1>6, LastMoves
  <1>7. CASE r.of.op # "iterator" /\ Together(NextOf(r, F), adapter) /\ \A f \in F : f.do # "write"
    <2>1. OutOK(After(r, d, j), NextOf(r, F), adapter, Sights(r, d, j))
      BY <1>2, <1>7 DEF OutOK
    <2>2. PutOK(After(r, d, j), NextOf(r, F))
      BY <1>7, NoWrites
    <2> QED BY <1>5, <1>7, <2>1, <2>2 DEF Moves
  <1> QED BY <1>6, <1>7

LEMMA FailedKeeps ==
    ASSUME CallsInv, NEW r \in flight, r.of.op \notin WriteOps, NEW d, Leaves(r, d),
           Serve(r, d, aux, {}, Failed(job[r.t]))
    PROVE  Kept
  <1> DEFINE j == Failed(job[r.t])
  <1>1. ASSUME Live(r) PROVE Moves(r, d, {}, j)
    <2>1. Onward(job[r.t], j) /\ j.out = job[r.t].out /\ j.failed
      BY <1>1, StaysOnward, FailedOnward
    <2> HIDE DEF j
    <2> QED BY <1>1, <2>1, FailMoves
  <1> HIDE DEF j
  <1>2. Serve(r, d, aux, {}, j)
    BY DEF j
  <1> QED BY <1>1, <1>2, KeepsSame, NoneSent, ServeKeeps

\* A key of a walk is settled.
LEMMA WalkSettled ==
    ASSUME CallsInv, NEW r \in flight, Live(r), r.of.op \in {"clear", "iterator"}, NEW d, NEW j, Onward(job[r.t], j),
           NEW s \in In(r.of.ns),
           Whole => \/ None \in Sights(r, d, j)[s]
                    \/ /\ r.of.op = "iterator"
                       /\ Moved(r.of, adapter, now) \/ \E m \in DOMAIN j.out : j.out[m].key = s[2]
    PROVE  Settled(After(r, d, j), s, Sights(r, d, j), adapter, now)
  <1> DEFINE k == After(r, d, j)
             H == Sights(r, d, j)
  <1>1. Of(k) = Of(j) /\ Of(j) = r.of /\ k.out = j.out /\ Of(r.of) = r.of
    BY AfterOK, FlightIs
  <1> HIDE DEF k
  <1>2. k.op = r.of.op /\ Moved(k, adapter, now) = Moved(r.of, adapter, now)
    BY <1>1, SameCall
  <1>3. r.of.op \notin ReadOps \cup HasOps \cup WriteOps \cup DeleteOps
    BY DEF ReadOps, HasOps, WriteOps, DeleteOps
  <1>4. Whole => None \in H[s] \/ (k.op = "iterator" /\ (Moved(k, adapter, now) \/ \E m \in DOMAIN k.out : k.out[m].key = s[2]))
    BY <1>1, <1>2
  <1> HIDE DEF H
  <1>5. AnswerOK(k, s, H, adapter, now)
    BY <1>2, <1>3, <1>4 DEF AnswerOK
  <1> QED BY <1>5 DEF Settled, k, H

\* What a walk sees of the keys of its namespace.
LEMMA WalkSights ==
    ASSUME CallsInv, NEW r \in flight, Live(r), r.of.op \in {"clear", "iterator"}, NEW d, NEW j, Onward(job[r.t], j),
           NEW s \in In(r.of.ns)
    PROVE  /\ s \in Slots /\ seen[r.t][s] \subseteq Sights(r, d, j)[s]
           /\ Looks(d[s], r.of.at, now) \subseteq Sights(r, d, j)[s]
           /\ Looks(db[s], r.of.at, now) \subseteq seen[r.t][s]
           /\ d[s] = None => None \in Sights(r, d, j)[s]
  <1>1. s \in Slots
    BY DEF In
  <1>2. s \in Concerns(r.of)
    BY <1>1, WalksConcern DEF WalkOps
  <1>3. Looks(d[s], r.of.at, now) \subseteq Sights(r, d, j)[s]
    BY <1>2, SightsAt
  <1>4. d[s] = None => None \in Sights(r, d, j)[s]
    BY <1>3 DEF Looks, Visible
  <1> QED BY <1>1, <1>2, <1>3, <1>4, SightsAt

LEMMA WalkItems ==
    ASSUME CallsInv, NEW r \in flight, Live(r), r.of.op \in {"clear", "iterator"}, NEW j, Onward(job[r.t], j)
    PROVE  Items(j) = In(r.of.ns) /\ r.of.op \notin WriteOps /\ \A d : Taken(r, d) = {}
  <1>1. Of(j) = r.of /\ Of(r.of) = r.of
    BY FlightIs, LiveCall DEF Onward, Further
  <1>2. Items(j) = Items(r.of)
    BY <1>1, SameCall
  <1>3. r.of.op \notin WriteOps
    BY DEF WriteOps
  <1> QED BY <1>2, <1>3, TakenSame DEF Items

\* A namespace is emptied in one command.
LEMMA ClearedKeeps ==
    ASSUME CallsInv, NEW r \in flight, r.do = "clear", adapter # "dynamo", NEW S,
           Alone => S \cap Slots \subseteq In(r.of.ns), Whole => In(r.of.ns) \subseteq S,
           Serve(r, Drop(db, S), aux, {}, job[r.t])
    PROVE  Kept
  <1> DEFINE d == Drop(db, S)
  <1>1. Leaves(r, d)
    BY ClearLeaves
  <1>2. r.of.op = "clear"
    BY FlightIs DEF Fits
  <1>3. \A s \in Slots : s \in S => d[s] = None
    BY DropRows DEF CallsInv, Types
  <1> HIDE DEF d
  <1>4. ASSUME Live(r) PROVE Moves(r, d, {}, job[r.t])
    <2>1. Onward(job[r.t], job[r.t])
      BY <1>4, StaysOnward
    <2>2. ASSUME NEW s \in In(r.of.ns) PROVE Settled(After(r, d, job[r.t]), s, Sights(r, d, job[r.t]), adapter, now)
      <3>1. Whole => s \in S /\ s \in Slots
        BY DEF In
      <3>2. Whole => None \in Sights(r, d, job[r.t])[s]
        BY <1>2, <1>3, <1>4, <2>1, <3>1, WalkSights
      <3> QED BY <1>2, <1>4, <2>1, <3>2, WalkSettled
    <2>3. Settles(r, d, {}, job[r.t])
      BY <1>2, <1>4, <2>1, <2>2, WalkItems DEF Settles
    <2> QED BY <1>4, <2>1, <2>3, LastMoves
  <1>5. Serve(r, d, aux, {}, job[r.t])
    BY DEF d
  <1> QED BY <1>1, <1>4, <1>5, KeepsSame, NoneSent, ServeKeeps

---------------------------------------------------------------------------
(* How calls begin *)

\* A call as NewJob makes it.
New(j, t) ==
    /\ Fresh(j, t, calls + 1) /\ j.put = {} /\ j.unsure = {}
    /\ j.res = [i \in All(j) |-> IF j.op \in ReadOps THEN None ELSE FALSE]

LEMMA NewIs ==
    ASSUME NEW t \in Tasks, NEW j, New(j, t)
    PROVE  /\ Calling(j, t, calls + 1) /\ j.op \in KeyOps \cup WalkOps /\ (j.op \notin KeyOps => All(j) = {})
           /\ (\A i \in Items(j) : \A H, a : Open(j, i, H, a)) /\ j.ns \in Namespaces
           /\ (j.op \in {"clear", "iterator"} => Items(j) = In(j.ns)) /\ (j.op \notin {"clear", "iterator"} => Items(j) = All(j))
  <1>1. Calling(j, t, calls + 1) /\ OfOK(Of(j), adapter, calls + 1, now)
    BY DEF New, Fresh, Calling
  <1>2. j.op \in KeyOps \cup WalkOps /\ (j.op \notin KeyOps => j.keys = <<>>) /\ j.ns \in Namespaces
    BY <1>1, OfAll DEF OfOK
  <1>3. j.op \notin KeyOps => All(j) = {}
    BY <1>2 DEF All
  <1>4. ASSUME NEW i \in Items(j), NEW H, NEW a PROVE Open(j, i, H, a)
    <2>1. j.op \in WriteOps \cup DeleteOps => j.op \notin ReadOps /\ i \in All(j)
      BY DEF Items, WriteOps, DeleteOps, ReadOps
    <2>2. j.op \in WriteOps \cup DeleteOps => j.res[i] = FALSE /\ i \notin j.put
      BY <2>1 DEF New
    <2> QED BY <2>2 DEF Open
  <1> QED BY <1>1, <1>2, <1>3, <1>4 DEF Items

LEMMA StartKeeps ==
    ASSUME CallsInv, NEW t \in Tasks, NEW j, New(j, t), NEW F,
           \A f \in F : /\ f.t = t /\ f.of = Of(j) /\ f.c = j.c /\ CommandOK(f, adapter, calls + 1, now)
                        /\ f.do \notin {"sweep", "drop", "pull", "write"} /\ InHand(f, adapter) = {},
           \A i \in Items(j) : \E f \in F : i \in Covers(f, adapter),
           Together(F, adapter), NEW a, Keeps(a), EnterWith(t, j, F, a)
    PROVE  Kept
  <1>1. \A i \in Items(j) : Open(j, i, Starts(j), adapter)
    BY NewIs
  <1>2. Opens(j, t, calls + 1, F)
    BY <1>1 DEF Opens, PutOK
  <1> QED BY <1>2, EnterKeeps DEF New

LEMMA NoneKeeps ==
    ASSUME CallsInv, NEW t \in Tasks, NEW j, New(j, t), Items(j) = {}, NEW a, Keeps(a), EnterWith(t, j, {}, a)
    PROVE  Kept
  <1>1. Together({}, adapter)
    BY DEF Together
  <1> QED BY <1>1, StartKeeps

\* One command for each entry.
LEMMA EachKeeps ==
    ASSUME CallsInv, NEW t \in Tasks, NEW j, New(j, t), NEW do \in {"read", "set", "put", "delete"}, Fits(do, j.op),
           Light(do, adapter, j.op) \/ do = "read", Enter(t, j, Each(t, j, do))
    PROVE  Kept
  <1>1. j.op \in KeyOps /\ Items(j) = All(j)
    <2>1. j.op \in KeyOps
      BY DEF Fits, KeyOps
    <2>2. j.op \notin {"clear", "iterator"}
      BY <2>1 DEF KeyOps, ReadOps, HasOps, WriteOps, DeleteOps
    <2> QED BY <2>1, <2>2 DEF Items
  <1>2. ASSUME NEW i \in All(j)
        PROVE  LET f == Command(t, j, do, {i}, {})
               IN  /\ f.t = t /\ f.of = Of(j) /\ f.c = j.c /\ CommandOK(f, adapter, calls + 1, now) /\ f.do = do
                   /\ InHand(f, adapter) = {} /\ Covers(f, adapter) = {i}
    <2> DEFINE f == Command(t, j, do, {i}, {})
    <2>1. f.t = t /\ f.c = j.c /\ f.do = do /\ f.at = {i} /\ f.of = Of(j) /\ f.of.op = j.op
      BY CommandIs, OfAll
    <2>2. CommandOK(f, adapter, calls + 1, now)
      BY NewIs, LightMade
    <2> HIDE DEF f
    <2>3. InHand(f, adapter) = {} /\ Covers(f, adapter) = f.at
      BY <2>1, LightCovers
    <2> QED BY <2>1, <2>2, <2>3 DEF f
  <1>3. \A f \in Each(t, j, do) :
           /\ f.t = t /\ f.of = Of(j) /\ f.c = j.c /\ CommandOK(f, adapter, calls + 1, now)
           /\ f.do \notin {"sweep", "drop", "pull", "write"} /\ InHand(f, adapter) = {} /\ f.do = do
    <2> TAKE f \in Each(t, j, do)
    <2>1. PICK i \in All(j) : f = Command(t, j, do, {i}, {})
      BY DEF Each
    <2> QED BY <1>2, <2>1
  <1>4. \A i \in Items(j) : \E f \in Each(t, j, do) : i \in Covers(f, adapter)
    <2> TAKE i \in Items(j)
    <2>1. Command(t, j, do, {i}, {}) \in Each(t, j, do) /\ i \in Covers(Command(t, j, do, {i}, {}), adapter)
      BY <1>1, <1>2 DEF Each
    <2> QED BY <2>1
  <1>5. Together(Each(t, j, do), adapter)
    BY <1>1, <1>3, OfAll DEF Together
  <1> HIDE DEF Each
  <1> QED BY <1>3, <1>4, <1>5, KeepsSame, StartKeeps DEF Enter

\* One command, or none.
LEMMA OneKeeps ==
    ASSUME CallsInv, NEW t \in Tasks, NEW j, New(j, t), NEW f, f.t = t, f.of = Of(j), f.c = j.c,
           CommandOK(f, adapter, calls + 1, now), f.do \notin {"sweep", "drop", "pull", "write"}, InHand(f, adapter) = {},
           Items(j) \subseteq Covers(f, adapter), NEW a, Keeps(a),
           EnterWith(t, j, {f}, a)
    PROVE  Kept
  <1>1. Together({f}, adapter)
    BY DEF Together
  <1> QED BY <1>1, StartKeeps

LEMMA AllKeeps ==
    ASSUME CallsInv, NEW t \in Tasks, NEW j, New(j, t), NEW with,
           NEW do \in {"read", "find", "count", "set", "put", "upsert", "bulk", "existing", "delete"}, Fits(do, j.op),
           Light(do, adapter, j.op),
           \/ Enter(t, j, {Command(t, j, do, All(j), with)})
           \/ All(j) = {} /\ Enter(t, j, {})
    PROVE  Kept
  <1> DEFINE f == Command(t, j, do, All(j), with)
  <1>1. j.op \in KeyOps /\ Items(j) = All(j)
    <2>1. j.op \in KeyOps
      BY DEF Fits, KeyOps
    <2>2. j.op \notin {"clear", "iterator"}
      BY <2>1 DEF KeyOps, ReadOps, HasOps, WriteOps, DeleteOps
    <2> QED BY <2>1, <2>2 DEF Items
  <1>2. f.t = t /\ f.c = j.c /\ f.do = do /\ f.at = All(j) /\ f.of = Of(j) /\ f.of.op = j.op
    BY CommandIs, OfAll
  <1>3. CommandOK(f, adapter, calls + 1, now)
    BY NewIs, LightMade
  <1> HIDE DEF f
  <1>4. InHand(f, adapter) = {} /\ Covers(f, adapter) = f.at
    BY <1>2, LightCovers
  <1>5. CASE EnterWith(t, j, {f}, aux)
    BY <1>1, <1>2, <1>3, <1>4, <1>5, KeepsSame, OneKeeps
  <1>6. CASE All(j) = {} /\ EnterWith(t, j, {}, aux)
    BY <1>1, <1>6, KeepsSame, NoneKeeps
  <1> QED BY <1>5, <1>6 DEF Enter, f

LEMMA WalkEnters ==
    ASSUME CallsInv, NEW t \in Tasks, NEW j, New(j, t),
           NEW do \in {"clear", "all", "snapshot", "collect", "revoke", "close"}, Fits(do, j.op), Light(do, adapter, j.op),
           Enter(t, j, {Command(t, j, do, {}, {})})
    PROVE  Kept
  <1> DEFINE f == Command(t, j, do, {}, {})
  <1>1. f.t = t /\ f.c = j.c /\ f.do = do /\ f.of = Of(j) /\ f.of.op = j.op /\ f.of.ns = j.ns
    BY CommandIs, OfAll
  <1>2. CommandOK(f, adapter, calls + 1, now)
    BY NewIs, LightMade
  <1> HIDE DEF f
  <1>3. /\ InHand(f, adapter) = {} /\ (do \in {"clear", "all", "snapshot"} => Covers(f, adapter) = In(j.ns))
        /\ do \notin {"clear", "all", "snapshot"} => j.op \in {"clearExpired", "disconnect"}
    BY <1>1, LightCovers DEF Fits
  <1>4. Items(j) \subseteq Covers(f, adapter)
    <2>1. CASE do \in {"clear", "all", "snapshot"}
      <3>1. j.op \in {"clear", "iterator"}
        BY <2>1 DEF Fits
      <3> QED BY <1>3, <2>1, <3>1 DEF Items
    <2>2. CASE do \notin {"clear", "all", "snapshot"}
      <3>1. j.op \notin KeyOps
        BY <1>3, <2>2 DEF KeyOps, ReadOps, HasOps, WriteOps, DeleteOps
      <3> QED BY <1>3, <2>2, <3>1, NewIs
    <2> QED BY <2>1, <2>2
  <1>5. EnterWith(t, j, {f}, aux)
    BY DEF Enter, f
  <1> QED BY <1>1, <1>2, <1>3, <1>4, <1>5, KeepsSame, OneKeeps

\* The server's order, and the keys of a namespace from the first on, which are all of it.
LEMMA NamesAre ==
    /\ Len(Names) \in Nat /\ DOMAIN Names = 1..Len(Names) /\ (\A q \in DOMAIN Names : q \in Nat /\ Names[q] \in Keys)
    /\ \A q, m \in DOMAIN Names : Names[q] = Names[m] => q = m
  <1>1. Names \in Seq(STRING)
    BY CallsAssumption
  <1>2. Len(Names) \in Nat /\ DOMAIN Names = 1..Len(Names)
    BY <1>1, EntriesAre
  <1>3. \A q \in DOMAIN Names : q \in Nat
    BY <1>2
  <1> QED BY <1>2, <1>3, CallsAssumption DEF Keys

Pages == {"scan", "page", "scan to clear"}
Begins(p) == p \in Nat \ {0} /\ \A ns : In(ns) \subseteq From(ns, p)

LEMMA FromFirst == Begins(1)
  <1>1. ASSUME NEW ns, NEW s \in In(ns) PROVE s \in From(ns, 1)
    <2>1. s[1] = ns /\ s = <<s[1], s[2]>> /\ s[2] \in Keys
      BY DEF In, Slots
    <2>2. PICK q \in DOMAIN Names : s[2] = Names[q]
      BY <2>1 DEF Keys
    <2>3. q >= 1
      BY NamesAre
    <2> QED BY <2>1, <2>2, <2>3 DEF From
  <1> QED BY <1>1 DEF Begins

LEMMA PagesFit ==
    /\ \A do \in Pages : /\ do \notin {"sweep", "drop", "pull", "write"} /\ \A op : Fits(do, op) => op \in {"clear", "iterator"}
    /\ \A f, a : f.do \in Pages =>
          /\ ~Chunked(f, a) /\ Parked(f, a) = {} /\ InHand(f, a) = {} /\ Covers(f, a) = From(f.of.ns, f.with)
          /\ \A m : ShapeOK(f, a, m) <=> f.with \in Nat \ {0}
  <1>1. \A do \in Pages : /\ do \notin {"sweep", "drop", "pull", "batch", "judge", "write", "existing", "delete", "read", "put"}
                          /\ do \notin {"find", "count", "set", "upsert", "bulk", "clear", "all", "snapshot"}
    BY Zenon DEF Pages
  <1>2. \A do \in Pages : \A op : Fits(do, op) => op \in {"clear", "iterator"}
    BY Zenon DEF Pages, Fits
  <1>3. ASSUME NEW f, NEW a, f.do \in Pages
        PROVE  /\ ~Chunked(f, a) /\ Parked(f, a) = {} /\ InHand(f, a) = {} /\ Covers(f, a) = From(f.of.ns, f.with)
               /\ \A m : ShapeOK(f, a, m) <=> f.with \in Nat \ {0}
    <2> DEFINE do == f.do
    <2>1. /\ do \notin {"sweep", "drop", "pull", "batch", "judge", "write", "existing", "delete", "read", "put"}
          /\ do \notin {"find", "count", "set", "upsert", "bulk", "clear", "all", "snapshot"}
      BY <1>1, <1>3
    <2>2. ~Chunked(f, a) /\ Parked(f, a) = {} /\ BeenRead(f) = {}
      BY <2>1 DEF Chunked, Parked, BeenRead
    <2>3. InHand(f, a) = {}
      BY <2>1, <2>2 DEF InHand, SlotsAt
    <2>4. Settling(f, a) = From(f.of.ns, f.with)
      BY <1>3, <2>1, <2>2, Zenon DEF Settling, Pages
    <2>5. Covers(f, a) = From(f.of.ns, f.with)
      BY <2>1, <2>4, CoversOf
    <2>6. \A m : ShapeOK(f, a, m) <=> f.with \in Nat \ {0}
      BY <1>3, <2>1, <2>2, Zenon DEF ShapeOK, Pages
    <2> QED BY <2>2, <2>3, <2>5, <2>6
  <1> QED BY <1>1, <1>2, <1>3

LEMMA PageMade ==
    ASSUME NEW j, NEW t, NEW n, Calling(j, t, n), NEW do \in Pages, Fits(do, j.op), NEW p \in Nat \ {0}
    PROVE  LET f == Command(t, j, do, {}, p)
           IN  /\ f.t = t /\ f.of = Of(j) /\ f.c = j.c /\ f.do = do /\ f.with = p /\ CommandOK(f, adapter, n, now)
               /\ Parked(f, adapter) = {} /\ InHand(f, adapter) = {} /\ Covers(f, adapter) = From(j.ns, p)
  <1> DEFINE f == Command(t, j, do, {}, p)
  <1>1. f.t = t /\ f.of = Of(j) /\ f.c = j.c /\ f.do = do /\ f.with = p
    BY CommandIs
  <1> HIDE DEF f
  <1>2. f.of.ns = j.ns
    BY <1>1, OfAll
  <1>3. /\ Parked(f, adapter) = {} /\ InHand(f, adapter) = {} /\ Covers(f, adapter) = From(j.ns, p)
        /\ ShapeOK(f, adapter, now)
    BY <1>1, <1>2, PagesFit
  <1>4. do # "drop"
    BY PagesFit
  <1>5. CommandOK(f, adapter, n, now)
    BY <1>3, <1>4, PlainMade DEF f
  <1> QED BY <1>1, <1>3, <1>5 DEF f

LEMMA PageEnters ==
    ASSUME CallsInv, NEW t \in Tasks, NEW j, New(j, t), NEW do \in Pages, Fits(do, j.op),
           NEW p, Begins(p), Enter(t, j, {Command(t, j, do, {}, p)})
    PROVE  Kept
  <1> DEFINE f == Command(t, j, do, {}, p)
  <1>1. j.op \in {"clear", "iterator"} /\ do \notin {"sweep", "drop", "pull", "write"}
    BY PagesFit
  <1>2. /\ f.t = t /\ f.of = Of(j) /\ f.c = j.c /\ f.do = do /\ CommandOK(f, adapter, calls + 1, now)
        /\ InHand(f, adapter) = {} /\ Covers(f, adapter) = From(j.ns, p)
    <2>1. p \in Nat \ {0}
      BY DEF Begins
    <2> QED BY <2>1, NewIs, PageMade
  <1> HIDE DEF f
  <1>3. Items(j) \subseteq Covers(f, adapter)
    BY <1>1, <1>2 DEF Items, Begins
  <1>4. EnterWith(t, j, {f}, aux)
    BY DEF Enter, f
  <1> QED BY <1>1, <1>2, <1>3, <1>4, KeepsSame, OneKeeps

LEMMA NoPageKeeps ==
    ASSUME CallsInv, NEW t \in Tasks, NEW j, New(j, t), j.op \in {"clear", "iterator"}, 1 \notin DOMAIN Names, Enter(t, j, {})
    PROVE  Kept
  <1>1. DOMAIN Names = {}
    BY NamesAre
  <1>2. In(j.ns) = {}
    BY <1>1 DEF In, Slots, Keys
  <1>3. Items(j) = {}
    BY <1>2 DEF Items
  <1> QED BY <1>3, KeepsSame, NoneKeeps DEF Enter

\* A call that fails as it begins.
LEMMA FailedEnters ==
    ASSUME CallsInv, NEW t \in Tasks, NEW j, New(j, t), j.op \notin WriteOps, Enter(t, Failed(j), {})
    PROVE  Kept
  <1> DEFINE k == Failed(j)
  <1>1. Onward(j, j)
    BY FurtherSelf DEF Onward, New, Fresh
  <1>2. Onward(j, k) /\ k.failed = TRUE /\ Of(k) = Of(j) /\ k.out = j.out
    BY <1>1, FailedOnward
  <1> HIDE DEF k
  <1>3. k.op = j.op /\ k.c = j.c /\ k.at = j.at
    BY <1>2, SameCall
  <1>4. Fresh(k, t, calls + 1)
    BY <1>2, <1>3 DEF Fresh, New, Onward
  <1>5. \A i \in Items(k) : Settled(k, i, Starts(k), adapter, now)
    BY <1>2, <1>3 DEF Settled, Excused
  <1>6. Opens(k, t, calls + 1, {})
    BY <1>5 DEF Opens, Together, PutOK
  <1> QED BY <1>4, <1>6, KeepsSame, EnterKeeps DEF Enter, k

---------------------------------------------------------------------------
(* StorelyMemcache *)

LEMMA NewMade ==
    ASSUME CallsInv, NEW t \in Tasks, NEW op \in Ops[t], NEW ns \in Namespaces, NEW ks \in Batches,
           op \in SingleOps <=> Len(ks) = 1, op \notin KeyOps => ks = <<>>,
           NEW live \in IF op \in WriteOps THEN Lives[adapter] ELSE {None}
    PROVE  LET j == NewJob(op, ns, ks, live) IN j.op \in KeyOps \cup WalkOps => New(j, t)
  <1> DEFINE j == NewJob(op, ns, ks, live)
  <1>1. j.op = op
    BY DEF NewJob
  <1>2. live \in Lives[adapter] \cup {None}
    OBVIOUS
  <1>3. /\ j.put = {} /\ j.unsure = {} /\ j.keys = [i \in DOMAIN ks |-> Stored[<<ns, ks[i]>>]]
        /\ j.res = [i \in DOMAIN ks |-> IF op \in ReadOps THEN None ELSE FALSE]
    BY DEF NewJob
  <1>4. op \in KeyOps \cup WalkOps => Fresh(j, t, calls + 1)
    <2> SUFFICES ASSUME op \in KeyOps \cup WalkOps PROVE Fresh(j, t, calls + 1)
      OBVIOUS
    <2>1. op \in SingleOps => Len(ks) = 1
      OBVIOUS
    <2> QED BY <1>2, <2>1, NewJobFresh
  <1> HIDE DEF j
  <1> QED BY <1>1, <1>3, <1>4 DEF New, j, All

LEMMA ClosedKept ==
    ASSUME CallsInv
    PROVE  Keeps([aux EXCEPT !.open = FALSE])
  <1>1. AuxOK(aux, adapter, now)
    BY DEF CallsInv, Types
  <1> DEFINE a == [aux EXCEPT !.open = FALSE]
  <1>2. /\ DOMAIN a = DOMAIN aux /\ a = [f \in DOMAIN a |-> a[f]]
        /\ \A f \in DOMAIN aux : f # "open" => a[f] = aux[f]
    BY DEF AuxOK
  <1>3. a.boot = aux.boot /\ a.since = aux.since
    BY <1>1 DEF AuxOK
  <1> HIDE DEF a
  <1>4. adapter = "dynamo" => a.step = aux.step /\ a.table = aux.table
    BY <1>1, <1>2 DEF AuxOK
  <1>5. adapter = "etcd" => a.leases = aux.leases /\ a.shared = aux.shared
    BY <1>1, <1>2 DEF AuxOK
  <1>6. adapter = "dynamo" => TableOK(a)
    BY <1>1, <1>3, <1>4 DEF AuxOK, TableOK
  <1>7. adapter = "etcd" => LeasesOK(a, now)
    BY <1>1, <1>5 DEF AuxOK, LeasesOK
  <1> QED BY <1>1, <1>2, <1>3, <1>6, <1>7 DEF Keeps, AuxOK, a

LEMMA MemcacheCallKeeps ==
    ASSUME CallsInv, adapter = "memcache", NEW t \in Tasks, NEW j, New(j, t), MemcacheCall(t, j)
    PROVE  Kept
  <1>1. CASE j.op \in ReadOps \cup HasOps /\ Enter(t, j, Each(t, j, "read"))
    <2>1. Fits("read", j.op)
      BY <1>1 DEF Fits
    <2> QED BY <1>1, <2>1, EachKeeps
  <1>2. CASE j.op \in WriteOps /\ Enter(t, j, Each(t, j, "set"))
    <2>1. Fits("set", j.op) /\ Light("set", adapter, j.op)
      BY <1>2 DEF Fits, Light
    <2> QED BY <1>2, <2>1, EachKeeps
  <1>3. CASE j.op \in DeleteOps /\ Enter(t, j, Each(t, j, "delete"))
    <2>1. Fits("delete", j.op) /\ Light("delete", adapter, j.op)
      BY <1>3 DEF Fits, Light
    <2> QED BY <1>3, <2>1, EachKeeps
  <1>4. CASE MemcacheClear(t, j)
    <2>1. j.op = "clear" /\ j.op \notin WriteOps
      BY <1>4 DEF MemcacheClear, WriteOps
    <2>2. CASE Enter(t, j, {Command(t, j, "clear", {}, {})})
      <3>1. Fits("clear", j.op) /\ Light("clear", adapter, j.op)
        BY <2>1 DEF Fits, Light
      <3> QED BY <2>2, <3>1, WalkEnters
    <2>3. CASE Enter(t, Failed(j), {})
      BY <2>1, <2>3, FailedEnters
    <2> QED BY <1>4, <2>2, <2>3 DEF MemcacheClear
  <1>5. CASE MemcacheDisconnect(t, j)
    <2> DEFINE a == [aux EXCEPT !.open = FALSE]
    <2>1. j.op = "disconnect" /\ EnterWith(t, j, {}, a)
      BY <1>5 DEF MemcacheDisconnect
    <2>2. Items(j) = {}
      BY <2>1, NewIs DEF KeyOps, ReadOps, HasOps, WriteOps, DeleteOps
    <2>3. Keeps(a)
      BY ClosedKept
    <2> HIDE DEF a
    <2> QED BY <2>1, <2>2, <2>3, NoneKeeps
  <1> QED
    BY <1>1, <1>2, <1>3, <1>4, <1>5
    DEF MemcacheCall, MemcacheGet, MemcacheGetMany, MemcacheHas, MemcacheHasMany, MemcacheSet, MemcacheSetMany,
        MemcacheDelete, MemcacheDeleteMany, ReadOps, HasOps, WriteOps, DeleteOps

LEMMA MemcacheOps == ASSUME NEW t, NEW j, MemcacheCall(t, j) PROVE j.op \in KeyOps \cup WalkOps
  BY DEF MemcacheCall, MemcacheGet, MemcacheGetMany, MemcacheHas, MemcacheHasMany, MemcacheSet, MemcacheSetMany,
         MemcacheDelete, MemcacheDeleteMany, MemcacheClear, MemcacheDisconnect, KeyOps, ReadOps, HasOps, WriteOps,
         DeleteOps, WalkOps

LEMMA MemcacheEnters ==
    ASSUME CallsInv, adapter = "memcache", NEW t \in Tasks, NewCall(t, MemcacheCall)
    PROVE  Kept
  <1>1. PICK op \in Ops[t], ns \in Namespaces, ks \in Batches :
           /\ (op \in SingleOps <=> Len(ks) = 1) /\ (op \notin KeyOps => ks = <<>>)
           /\ \E live \in IF op \in WriteOps THEN Lives[adapter] ELSE {None} : MemcacheCall(t, NewJob(op, ns, ks, live))
    BY Zenon DEF NewCall
  <1>2. PICK live \in IF op \in WriteOps THEN Lives[adapter] ELSE {None} : MemcacheCall(t, NewJob(op, ns, ks, live))
    BY <1>1
  <1> DEFINE j == NewJob(op, ns, ks, live)
  <1>3. New(j, t)
    BY <1>1, <1>2, MemcacheOps, NewMade
  <1> HIDE DEF j
  <1> QED BY <1>2, <1>3, MemcacheCallKeeps DEF j

\* A key is read by a command of its own; it is deleted if it has expired.
LEMMA KeyReadKeeps ==
    ASSUME CallsInv, adapter \in {"memcache", "etcd", "dynamo"}, NEW r \in flight, r.do = "read",
           Serve(r, db, aux, IF Old(r.of, r.at, now) = {} THEN {} ELSE {Command(r.t, r.of, "sweep", r.at, {})},
                 Judged(job[r.t], r.at, now))
    PROVE  Kept
  <1> DEFINE f == Command(r.t, r.of, "sweep", r.at, {})
             F == IF Old(r.of, r.at, now) = {} THEN {} ELSE {f}
  <1>1. PICK i \in All(r.of) : r.at = {i}
    BY FlightIs DEF ShapeOK
  <1>2. now \in Nat /\ r.of.at <= now /\ now <= now
    BY Clocks
  <1>3. ASSUME Old(r.of, r.at, now) # {}
        PROVE  \A s \in Targets(f, adapter) \cap Slots : Expired(db[s], now)
    <2>1. f.do = "sweep" /\ f.at = r.at /\ f.of = r.of
      BY CommandIs, CallingOf
    <2> HIDE DEF f
    <2>2. Targets(f, adapter) = {Slot(r.of, i)}
      BY <1>1, <2>1 DEF Targets, SlotsAt
    <2>3. Expired(db[Slot(r.of, i)], now)
      BY <1>1, <1>3 DEF Old, SlotsAt
    <2> QED BY <2>2, <2>3
  <1>4. \A q \in F :
           /\ \E I \in SUBSET All(r.of) : \E with : q = Command(r.t, r.of, "sweep", I, with)
           /\ \A s \in Targets(q, adapter) \cap Slots : Expired(db[s], now)
    <2>1. r.at \in SUBSET All(r.of)
      BY <1>1
    <2> QED BY <1>3, <2>1
  <1>5. Serve(r, db, aux, F, Judged(job[r.t], r.at, now))
    OBVIOUS
  <1>6. r.do \in {"read", "find", "count"}
    OBVIOUS
  <1> HIDE DEF F
  <1> QED BY <1>2, <1>4, <1>5, <1>6, ReadKeeps

LEMMA KeySweptKeeps ==
    ASSUME CallsInv, adapter \in {"memcache", "etcd", "dynamo"}, NEW r \in flight, r.do = "sweep",
           NEW d, d = db \/ d = Drop(db, SlotsAt(r.of, r.at)), Serve(r, d, aux, {}, job[r.t])
    PROVE  Kept
  <1>1. Targets(r, adapter) = SlotsAt(r.of, r.at)
    BY DEF Targets
  <1> QED BY <1>1, SweptKeeps

\* What is left in flight is of no call.
LEMMA LateMoves ==
    ASSUME CallsInv, NEW r \in flight, Live(r), NEW d, NEW j, Moves(r, d, {}, j), NEW F,
           \A f \in F : f.c = 0 /\ \A H, x, e : Carries(f, H, adapter, x, e)
    PROVE  Moves(r, d, F, j)
  <1>1. r.c # 0
    <2>1. calls \in Nat /\ r.of.c \in 1..calls /\ r.c = r.of.c
      BY FlightIs, LiveCall, Numbers
    <2> QED BY <2>1
  <1>2. NextOf(r, F) = NextOf(r, {})
    BY <1>1 DEF NextOf, Mine
  <1>3. Settles(r, d, F, j)
    BY <1>2 DEF Moves, Settles
  <1> QED BY <1>2, <1>3 DEF Moves

LEMMA MemcacheFailedKeeps == ASSUME CallsInv, MemcacheFailed PROVE Kept
  <1>1. PICK r \in MemcacheFails : \E F \in IF Live(r) /\ r.do # "read" THEN {{}, Late({r})} ELSE {{}} :
                                      Serve(r, db, aux, F, MemcacheGoesOn(job[r.t], r))
    BY Zenon DEF MemcacheFailed
  <1>2. r \in flight /\ adapter = "memcache" /\ r.do \in {"read", "sweep", "set", "delete", "clear"}
    BY ServedIn DEF MemcacheFails
  <1>3. PICK F : F \in {{}, Late({r})} /\ (F # {} => r.do # "read") /\ Serve(r, db, aux, F, MemcacheGoesOn(job[r.t], r))
    BY <1>1
  <1>4. Sends(r, F) /\ \A f \in F : f.do # "write" /\ f.c = 0 /\ \A H, x, e : Carries(f, H, adapter, x, e)
    BY <1>2, <1>3, NoneSent, LateSends
  <1>5. Leaves(r, db)
    BY <1>2, LeavesSame
  <1>6. CASE r.do \in {"read", "set", "delete"}
    <2>1. MemcacheGoesOn(job[r.t], r) = Unsure(job[r.t], r.at)
      BY <1>6 DEF MemcacheGoesOn
    <2>2. ~Chunked(r, adapter)
      BY <1>2 DEF Chunked
    <2> QED BY <1>2, <1>3, <1>4, <1>5, <1>6, <2>1, <2>2, UnsureKeeps
  <1>7. CASE r.do = "sweep"
    <2>1. MemcacheGoesOn(job[r.t], r) = job[r.t]
      BY <1>7 DEF MemcacheGoesOn
    <2>2. Covers(r, adapter) = {}
      <3>1. Light(r.do, adapter, r.of.op)
        BY <1>7 DEF Light
      <3> QED BY <1>7, <3>1, LightCovers
    <2>3. Taken(r, db) = {}
      <3>1. r.of.op \in ReadOps \cup HasOps \cup {"clearExpired"}
        BY <1>2, <1>7, FlightIs DEF Fits
      <3>2. r.of.op \notin WriteOps
        BY <3>1 DEF ReadOps, HasOps, WriteOps
      <3> QED BY <3>2, TakenSame
    <2>4. Live(r) => Moves(r, db, F, job[r.t])
      BY <1>2, <1>4, <2>2, <2>3, SilentMoves, LateMoves
    <2> QED BY <1>2, <1>3, <1>4, <1>5, <2>1, <2>4, KeepsSame, ServeKeeps
  <1>8. CASE r.do = "clear"
    <2>1. MemcacheGoesOn(job[r.t], r) = Failed(job[r.t])
      BY <1>8 DEF MemcacheGoesOn
    <2>2. r.of.op \notin WriteOps
      BY <1>2, <1>8, FlightIs DEF Fits, WriteOps
    <2>3. ASSUME Live(r) PROVE Moves(r, db, F, Failed(job[r.t]))
      <3> DEFINE j == Failed(job[r.t])
      <3>1. Onward(job[r.t], j) /\ j.out = job[r.t].out /\ j.failed
        BY <1>2, <2>3, StaysOnward, FailedOnward
      <3> HIDE DEF j
      <3>2. Moves(r, db, {}, j)
        BY <1>2, <2>2, <2>3, <3>1, FailMoves
      <3> QED BY <1>2, <1>4, <2>3, <3>2, LateMoves DEF j
    <2> QED BY <1>2, <1>3, <1>4, <1>5, <2>1, <2>3, KeepsSame, ServeKeeps
  <1> QED BY <1>2, <1>6, <1>7, <1>8

LEMMA MemcacheKeeps == ASSUME CallsInv, MemcacheNext PROVE Kept
  <1>1. ASSUME adapter = "memcache", NEW t \in Tasks, NewCall(t, MemcacheCall) PROVE Kept
    BY <1>1, MemcacheEnters
  <1>2. CASE MemcacheRead
    <2>1. PICK r \in Mc("read") :
             Serve(r, db, aux, IF Old(r.of, r.at, now) = {} THEN {} ELSE {Command(r.t, r.of, "sweep", r.at, {})},
                   Judged(job[r.t], r.at, now))
      BY <1>2, Zenon DEF MemcacheRead
    <2>2. r \in flight /\ r.do = "read" /\ adapter = "memcache"
      BY ServedIn DEF Mc
    <2> QED BY <2>1, <2>2, KeyReadKeeps
  <1>3. CASE MemcacheSwept
    <2>1. PICK r \in Mc("sweep") : Serve(r, Drop(db, SlotsAt(r.of, r.at)), aux, {}, job[r.t])
      BY <1>3, Zenon DEF MemcacheSwept
    <2>2. r \in flight /\ r.do = "sweep" /\ adapter = "memcache"
      BY ServedIn DEF Mc
    <2> QED BY <2>1, <2>2, KeySweptKeeps
  <1>4. CASE MemcacheStored
    <2>1. PICK r \in Mc("set") : Serve(r, Wrapped(r), aux, {}, True(job[r.t], r.at))
      BY <1>4, Zenon DEF MemcacheStored
    <2>2. r \in flight /\ r.do = "set" /\ adapter = "memcache"
      BY ServedIn DEF Mc
    <2> DEFINE e == IF r.of.live = None THEN None ELSE r.of.at + r.of.live + 1
    <2>3. /\ r.of.at \in Nat /\ (r.of.live # None => r.of.live \in Int)
          /\ Made(r) \in Nat /\ r.of.at <= Made(r) /\ Slack(r.of.live) = 0
      BY <2>2, Clocks DEF Slack
    <2>4. e \in Int \cup {None} /\ (r.of.live # None => e >= r.of.at + r.of.live - 0 /\ e <= Made(r) + r.of.live + 1)
      BY <2>3
    <2>5. Serve(r, Write(db, r.of, r.at, e), aux, {}, True(job[r.t], r.at))
      BY <2>1 DEF Wrapped
    <2> HIDE DEF e
    <2> QED BY <2>2, <2>3, <2>4, <2>5, KeepsSame, PutKeeps
  <1>5. CASE MemcacheDeleted
    <2>1. PICK r \in Mc("delete") : Serve(r, Drop(db, SlotsAt(r.of, r.at)), aux, {}, Existed(job[r.t], r.at))
      BY <1>5, Zenon DEF MemcacheDeleted
    <2>2. r \in flight /\ r.do = "delete" /\ ~Chunked(r, adapter)
      BY ServedIn DEF Mc, Chunked
    <2> QED BY <2>1, <2>2, DeletedKeeps
  <1>6. CASE MemcacheFlushed
    <2>1. PICK r \in Mc("clear") : Serve(r, Drop(db, Slots), aux, {}, job[r.t])
      BY <1>6, Zenon DEF MemcacheFlushed
    <2>2. r \in flight /\ r.do = "clear" /\ adapter = "memcache"
      BY ServedIn DEF Mc
    <2>3. Alone => Slots \cap Slots \subseteq In(r.of.ns)
      <3>1. adapter \in Adapters /\ r.of.ns \in Namespaces
        BY <2>2, FlightIs DEF OfOK, Types
      <3> QED BY <2>2, <3>1 DEF Alone, In, Slots
    <2>4. In(r.of.ns) \subseteq Slots
      BY DEF In
    <2> QED BY <2>1, <2>2, <2>3, <2>4, ClearedKeeps
  <1>7. CASE MemcacheFailed
    BY <1>7, MemcacheFailedKeeps
  <1> QED BY <1>1, <1>2, <1>3, <1>4, <1>5, <1>6, <1>7 DEF MemcacheNext

---------------------------------------------------------------------------
(* Walks: rows in hand are pulled one after the other *)

LEMMA FirstIn ==
    ASSUME NEW ns, NEW rows, DOMAIN rows \subseteq In(ns), DOMAIN rows # {}
    PROVE  First(rows) \in DOMAIN rows
  <1> DEFINE Q == {q \in DOMAIN Names : <<ns, Names[q]>> \in DOMAIN rows}
             R == {p \in Nat \X Nat : p[1] < p[2]}
  <1>1. ASSUME NEW s \in DOMAIN rows PROVE \E q \in Q : s = <<ns, Names[q]>>
    <2>1. s[1] = ns /\ s = <<s[1], s[2]>> /\ s[2] \in Keys
      BY DEF In, Slots
    <2>2. PICK q \in DOMAIN Names : s[2] = Names[q]
      BY <2>1 DEF Keys
    <2> QED BY <2>1, <2>2
  <1>2. Q \subseteq Nat /\ Q # {}
    <2>1. PICK s : s \in DOMAIN rows
      OBVIOUS
    <2>2. Q # {}
      BY <1>1, <2>1
    <2>3. Q \subseteq Nat
      BY NamesAre
    <2> QED BY <2>2, <2>3
  <1>3. IsWellFoundedOn(R, Nat)
    BY NatLessThanWellFounded DEF OpToRel
  <1>4. PICK q \in Q : \A m \in Q : <<m, q>> \notin R
    <2> HIDE DEF Q, R
    <2> QED BY <1>2, <1>3, WFMin
  <1>5. \A m \in Q : m = q \/ q < m
    <2> TAKE m \in Q
    <2>1. m \in Nat /\ q \in Nat /\ ~(m < q)
      BY <1>2, <1>4
    <2> QED BY <2>1
  <1>6. <<ns, Names[q]>> \in DOMAIN rows /\ \A u \in DOMAIN rows : u = <<ns, Names[q]>> \/ Before(<<ns, Names[q]>>[2], u[2])
    <2>1. ASSUME NEW u \in DOMAIN rows PROVE u = <<ns, Names[q]>> \/ Before(Names[q], u[2])
      <3>1. PICK m \in Q : u = <<ns, Names[m]>>
        BY <1>1
      <3>2. m = q \/ q < m
        BY <1>5
      <3>3. u[2] = Names[m] /\ m \in DOMAIN Names /\ q \in DOMAIN Names
        BY <3>1
      <3> QED BY <3>1, <3>2, <3>3 DEF Before
    <2> QED BY <2>1
  <1> QED BY <1>6 DEF First

\* The command of an iterator is alone.
LEMMA IteratorAlone ==
    ASSUME CallsInv, NEW r \in flight, Live(r), r.of.op = "iterator"
    PROVE  /\ Mine(flight, r.t, r.c) = {r} /\ (\A F : NextOf(r, F) = Mine(F, r.t, r.c)) /\ Items(r.of) = In(r.of.ns)
           /\ \A j : Onward(job[r.t], j) => Items(j) = In(r.of.ns) /\ \A d : Taken(r, d) = {}
  <1>1. /\ Together(Mine(flight, r.t, r.c), adapter) /\ r \in Mine(flight, r.t, r.c)
        /\ \A q \in Mine(flight, r.t, r.c) : q.of = r.of
    BY LiveCall
  <1>2. "iterator" \notin KeyOps
    BY DEF KeyOps, ReadOps, HasOps, WriteOps, DeleteOps
  <1>3. \A q \in Mine(flight, r.t, r.c) : q.do = "clear" => q.of.op = "clear"
    BY FlightIs DEF Mine, Fits
  <1>4. \A q \in Mine(flight, r.t, r.c) : q = r
    BY <1>1, <1>2, <1>3 DEF Together
  <1>5. Mine(flight, r.t, r.c) = {r}
    BY <1>1, <1>4
  <1>6. \A F : NextOf(r, F) = Mine(F, r.t, r.c)
    BY <1>5 DEF NextOf, Mine
  <1>7. Items(r.of) = In(r.of.ns)
    BY DEF Items
  <1> QED BY <1>5, <1>6, <1>7, WalkItems

LEMMA IteratorMoves ==
    ASSUME CallsInv, NEW r \in flight, Live(r), r.of.op = "iterator", NEW d, NEW j, Onward(job[r.t], j),
           j.res = job[r.t].res, NEW F, (\A f, g \in F : f = g),
           \A f \in F : f.t = r.t /\ f.c = r.c /\ Carries(f, seen[r.t], adapter, aux, db) /\ CommandOK(f, adapter, calls, now),
           d = db \/ \A f \in F : f.do # "write",
           OutOK(After(r, d, j), F, adapter, Sights(r, d, j)),
           \A s \in In(r.of.ns) : s \in Covers(r, adapter) =>
               (\E f \in F : s \in Covers(f, adapter)) \/ Settled(After(r, d, j), s, Sights(r, d, j), adapter, now)
    PROVE  Moves(r, d, F, j)
  <1>1. NextOf(r, F) = F /\ Items(j) = In(r.of.ns) /\ Taken(r, d) = {}
    <2>1. NextOf(r, F) = Mine(F, r.t, r.c) /\ Items(j) = In(r.of.ns) /\ Taken(r, d) = {}
      BY IteratorAlone
    <2> QED BY <2>1 DEF Mine
  <1>2. Settles(r, d, F, j)
    BY <1>1 DEF Settles
  <1>3. Together(F, adapter)
    BY DEF Together
  <1>4. \A f \in F : Carries(f, Sights(r, d, j), adapter, aux, d)
    <2> TAKE f \in F
    <2>1. \A s \in Slots : seen[r.t][s] \subseteq Sights(r, d, j)[s]
      BY DEF Sights, More
    <2>2. f.do = "write" => \A s \in Slots : d[s] \in {None, db[s]} \/ d[s].val[1] # f.of.c
      OBVIOUS
    <2> QED BY <2>1, <2>2, CarriesGrow
  <1>5. PutOK(After(r, d, j), F)
    <2> DEFINE k == After(r, d, j)
    <2>1. Of(k) = r.of /\ Of(r.of) = r.of
      BY AfterOK, FlightIs
    <2> HIDE DEF k
    <2>2. All(k) = All(r.of)
      BY <2>1, SameCall
    <2>3. All(r.of) = {}
      <3>1. r.of.keys = <<>>
        BY FlightIs DEF OfOK, KeyOps, ReadOps, HasOps, WriteOps, DeleteOps
      <3> QED BY <3>1 DEF All
    <2> QED BY <2>2, <2>3 DEF PutOK, k
  <1> QED BY <1>1, <1>2, <1>3, <1>4, <1>5 DEF Moves

\* f is what is left in hand when r has come to the entry s.
IsRest(f, r, a, s) ==
    /\ f.t = r.t /\ f.of = r.of /\ f.c = r.c /\ f.do = "pull" /\ IsCommand(f) /\ f.at = {}
    /\ Hand(f, a) = Without(Hand(r, a), s) /\ (a \in {"dynamo", "mongo"} => f.with[1] = r.with[1] /\ f.with[3] = r.with[3])
    /\ a \in {"etcd", "rocksdb"} => DOMAIN Hand(f, a) # {}

LEMMA RestIs ==
    ASSUME CallsInv, NEW r \in flight, r.do = "pull", NEW s \in DOMAIN Hand(r, adapter), NEW f, IsRest(f, r, adapter, s)
    PROVE  /\ FlightOK(f) /\ PlainOK(f, adapter, calls, now) /\ CommandOK(f, adapter, calls, now) /\ Parked(f, adapter) = {}
           /\ Covers(f, adapter) = Covers(r, adapter) \ {s} /\ InHand(f, adapter) = InHand(r, adapter) \ {s}
           /\ \A H, x, d : Carries(r, H, adapter, x, d) => Carries(f, H, adapter, x, d)
           /\ \A H, x : HandSeen(r, H, adapter, x) => HandSeen(f, H, adapter, x)
  <1> DEFINE rows == Hand(r, adapter)
             rest == Hand(f, adapter)
  <1>1. DOMAIN rest = DOMAIN rows \ {s} /\ \A u \in DOMAIN rest : rest[u] = rows[u]
    BY DEF IsRest, Without
  <1>2. /\ PlainOK(r, adapter, calls, now) /\ PullOK(r, adapter, now) /\ SweptOK(r, adapter, db, dirty, now)
        /\ Fits("pull", r.of.op) /\ r.c # 0
    <2>1. PlainOK(r, adapter, calls, now) /\ SweptOK(r, adapter, db, dirty, now) /\ r.c = r.of.c /\ r.of.c \in 1..calls /\ calls \in Nat
      BY FlightIs, NotLate, Numbers
    <2>2. r.c # 0
      BY <2>1
    <2> QED BY <2>1, <2>2 DEF PlainOK, ShapeOK
  <1>3. Ahead(f, adapter) = Ahead(r, adapter) /\ \A x : JudgeAt(f, adapter, x) = JudgeAt(r, adapter, x)
    BY DEF IsRest, Ahead, JudgeAt
  <1>4. PullOK(f, adapter, now)
    BY <1>1, <1>2, <1>3 DEF PullOK, IsRest
  <1>5. ShapeOK(f, adapter, now)
    <2>1. ~Chunked(f, adapter)
      BY DEF Chunked, IsRest
    <2> QED BY <1>4, <2>1 DEF ShapeOK, IsRest
  <1>6. PlainOK(f, adapter, calls, now) /\ Parked(f, adapter) = {}
    BY <1>2, <1>5 DEF PlainOK, IsRest, Parked
  <1>7. CommandOK(f, adapter, calls, now)
    BY <1>6 DEF CommandOK
  <1>8. InHand(f, adapter) = InHand(r, adapter) \ {s} /\ InHand(r, adapter) = DOMAIN rows
    BY <1>1 DEF InHand, IsRest
  <1>9. Covers(f, adapter) = Covers(r, adapter) \ {s}
    <2>1. Covers(f, adapter) = DOMAIN rest \cup Ahead(f, adapter) /\ Covers(r, adapter) = DOMAIN rows \cup Ahead(r, adapter)
      <3>1. f.do = "pull" /\ ~Chunked(f, adapter) /\ ~Chunked(r, adapter)
        BY DEF IsRest, Chunked
      <3>2. Covers(f, adapter) = Settling(f, adapter) /\ Covers(r, adapter) = Settling(r, adapter)
        BY <3>1, CoversOf
      <3> QED BY <3>1, <3>2 DEF Settling
    <2>2. s \notin Ahead(r, adapter)
      BY <1>2 DEF PullOK
    <2> QED BY <1>1, <1>3, <2>1, <2>2
  <1>10. \A H, x : HandSeen(r, H, adapter, x) => HandSeen(f, H, adapter, x)
    BY <1>1, <1>3, <1>8 DEF HandSeen, IsRest
  <1>11. SweptOK(f, adapter, db, dirty, now)
    <2>1. Targets(f, adapter) = {}
      BY DEF Targets, IsRest
    <2>2. \A u \in InHand(r, adapter) : rows[u] # None => db[u] \in {None, rows[u]} \/ u \in dirty[r.of.c]
      BY <1>2 DEF SweptOK
    <2>3. \A u \in InHand(f, adapter) : rest[u] # None => db[u] \in {None, rest[u]} \/ u \in dirty[f.of.c]
      BY <1>1, <1>8, <2>2 DEF IsRest
    <2> QED BY <1>6, <2>1, <2>3 DEF SweptOK
  <1>12. \A H, x, d : Carries(r, H, adapter, x, d) => Carries(f, H, adapter, x, d)
    BY <1>6, <1>10 DEF Carries, IsRest
  <1> QED BY <1>6, <1>7, <1>8, <1>9, <1>10, <1>11, <1>12 DEF FlightOK

\* The entry r comes to, and what is known of it.
LEMMA PullIs ==
    ASSUME CallsInv, NEW r \in flight, r.do = "pull", DOMAIN Hand(r, adapter) # {}
    PROVE  LET s == First(Hand(r, adapter))
               row == Hand(r, adapter)[s]
           IN  /\ s \in DOMAIN Hand(r, adapter) /\ s \in In(r.of.ns) /\ s \in Slots /\ s[1] = r.of.ns /\ s = <<s[1], s[2]>> /\ s[2] \in Keys
               /\ row \in Rows \ {None} /\ row \in Row /\ s \in Covers(r, adapter) /\ r.of.op = "iterator" /\ r.c = r.of.c
               /\ db[s] \in {None, row} \/ s \in dirty[r.of.c]
               /\ Live(r) => SeenAt(row, JudgeAt(r, adapter, aux), seen[r.t][s])
  <1> DEFINE rows == Hand(r, adapter)
             s == First(rows)
             row == rows[s]
  <1>1. PullOK(r, adapter, now) /\ r.of.op = "iterator" /\ SweptOK(r, adapter, db, dirty, now) /\ r.c = r.of.c
    BY FlightIs, NotLate DEF ShapeOK, Fits
  <1>2. DOMAIN rows \subseteq In(r.of.ns) /\ DOMAIN rows # {}
    BY <1>1 DEF PullOK
  <1>3. s \in DOMAIN rows
    <2> HIDE DEF rows
    <2> QED BY <1>2, FirstIn
  <1> HIDE DEF s
  <1>4. s \in In(r.of.ns) /\ row \in Rows \ {None}
    BY <1>1, <1>3 DEF PullOK
  <1>5. s \in Slots /\ s[1] = r.of.ns /\ s = <<s[1], s[2]>> /\ s[2] \in Keys
    BY <1>4 DEF In, Slots
  <1>6. InHand(r, adapter) = DOMAIN rows
    BY DEF InHand
  <1>7. db[s] \in {None, row} \/ s \in dirty[r.of.c]
    BY <1>1, <1>3, <1>4, <1>6 DEF SweptOK
  <1>8. Live(r) => SeenAt(row, JudgeAt(r, adapter, aux), seen[r.t][s])
    <2> SUFFICES ASSUME Live(r) PROVE SeenAt(row, JudgeAt(r, adapter, aux), seen[r.t][s])
      OBVIOUS
    <2>1. Carries(r, seen[r.t], adapter, aux, db)
      BY LiveCall
    <2> QED BY <1>3, <1>6, <2>1 DEF Carries, HandSeen
  <1>9. s \in Covers(r, adapter)
    <2>1. ~Chunked(r, adapter)
      BY DEF Chunked
    <2>2. Covers(r, adapter) = Settling(r, adapter)
      BY CoversOf
    <2> QED BY <1>3, <2>1, <2>2 DEF Settling
  <1>10. row \in Row
    BY <1>4 DEF Rows
  <1> QED BY <1>1, <1>3, <1>4, <1>5, <1>7, <1>8, <1>9, <1>10 DEF s

\* The rows in hand are judged by the clock at n.
JudgesAt(r, n) ==
    /\ n \in Nat /\ n <= now
    /\ n = JudgeAt(r, adapter, aux) \/ (adapter \in {"etcd", "rocksdb"} /\ n = now)

LEMMA JudgedRight ==
    ASSUME CallsInv, NEW r \in flight, r.do = "pull", NEW n, JudgesAt(r, n), NEW row \in Row, NEW H,
           SeenAt(row, JudgeAt(r, adapter, aux), H)
    PROVE  /\ Expired(row, n) => None \in H \/ Moved(r.of, adapter, now)
           /\ ~Expired(row, n) => row.val \in H
           /\ Expired(row, n) => Expired(row, now)
  <1>1. /\ n \in Nat /\ n <= now /\ now \in Nat /\ r.of.at \in Nat /\ r.of.at <= now /\ r.of.op = "iterator"
        /\ row # None /\ row.exp \in Int \cup {None}
    BY Clocks, FlightIs, CallsAssumption DEF JudgesAt, Fits, Row
  <1>2. Expired(row, n) => Expired(row, now)
    BY <1>1 DEF Expired
  <1>3. CASE n = JudgeAt(r, adapter, aux)
    BY <1>1, <1>2, <1>3 DEF SeenAt, Visible
  <1>4. CASE adapter \in {"etcd", "rocksdb"} /\ n = now
    <2>1. JudgeAt(r, adapter, aux) = r.of.at
      BY <1>4 DEF JudgeAt
    <2>2. IF Visible(row, r.of.at) THEN row.val \in H ELSE None \in H
      BY <2>1 DEF SeenAt
    <2>3. Expired(row, now) /\ Visible(row, r.of.at) => r.of.at < now
      BY <1>1 DEF Expired, Visible
    <2>4. r.of.at < now => Moved(r.of, adapter, now)
      BY <1>1, <1>4 DEF Moved
    <2>5. ~Expired(row, now) => Visible(row, r.of.at)
      BY <1>1 DEF Expired, Visible
    <2> QED BY <1>2, <1>4, <2>2, <2>3, <2>4, <2>5
  <1> QED BY <1>3, <1>4 DEF JudgesAt

\* What the call knows of the entry goes with it.
LEMMA GoneSettled ==
    ASSUME CallsInv, NEW r \in flight, Live(r), r.of.op = "iterator", NEW d, NEW j, Onward(job[r.t], j), NEW s \in In(r.of.ns),
           Whole => None \in seen[r.t][s] \/ Moved(r.of, adapter, now)
    PROVE  Settled(After(r, d, j), s, Sights(r, d, j), adapter, now)
  <1>1. s \in Slots
    BY DEF In
  <1>2. seen[r.t][s] \subseteq Sights(r, d, j)[s]
    BY <1>1 DEF Sights, More
  <1> QED BY <1>2, WalkSettled

\* The call's out stays as it is.
LEMMA PassMoves ==
    ASSUME CallsInv, NEW r \in flight, Live(r), r.of.op = "iterator", NEW d, NEW F, (\A f, g \in F : f = g),
           \A f \in F : /\ f.t = r.t /\ f.c = r.c /\ Carries(f, seen[r.t], adapter, aux, db)
                        /\ CommandOK(f, adapter, calls, now) /\ f.do # "write"
                        /\ Covers(f, adapter) \cap Slots \subseteq Covers(r, adapter),
           \A s \in In(r.of.ns) : s \in Covers(r, adapter) =>
               (\E f \in F : s \in Covers(f, adapter)) \/ (Whole => None \in seen[r.t][s] \/ Moved(r.of, adapter, now))
    PROVE  Moves(r, d, F, job[r.t])
  <1> DEFINE j == job[r.t]
  <1>1. Onward(j, j) /\ r \in Mine(flight, r.t, r.c)
    BY StaysOnward, LiveCall
  <1>2. OutOK(After(r, d, j), F, adapter, Sights(r, d, j))
    <2>1. \A s \in Slots : (\E f \in F : s \in Covers(f, adapter)) => \E q \in Mine(flight, r.t, r.c) : s \in Covers(q, adapter)
      BY <1>1
    <2> QED BY <1>1, <2>1, OutStays
  <1>3. \A s \in In(r.of.ns) : s \in Covers(r, adapter) =>
           (\E f \in F : s \in Covers(f, adapter)) \/ Settled(After(r, d, j), s, Sights(r, d, j), adapter, now)
    BY <1>1, GoneSettled
  <1> QED BY <1>1, <1>2, <1>3, IteratorMoves

LEMMA YieldOnward ==
    ASSUME NEW h, CallOK(h), NEW k \in Keys, NEW v \in Values
    PROVE  LET j == Yield(h, k, v)
           IN  /\ Onward(h, j) /\ j.res = h.res /\ Len(h.out) \in Nat /\ DOMAIN h.out = 1..Len(h.out)
               /\ DOMAIN j.out = 1..(Len(h.out) + 1) /\ (\A i \in DOMAIN h.out : j.out[i] = h.out[i])
               /\ j.out[Len(h.out) + 1].key = k /\ j.out[Len(h.out) + 1].val = v
  <1> DEFINE j == Yield(h, k, v)
             e == [key |-> k, val |-> v]
             E == [key : Keys, val : Values]
             n == Len(h.out)
  <1>1. IsJob(h) /\ h.out \in Seq(E) /\ e \in E
    BY DEF CallOK
  <1>2. /\ IsJob(j) /\ j.out = Append(h.out, e) /\ j.res = h.res /\ j.put = h.put /\ j.failed = h.failed /\ j.unsure = h.unsure
        /\ j.op = h.op /\ j.c = h.c /\ j.ns = h.ns /\ j.keys = h.keys /\ j.live = h.live /\ j.at = h.at /\ j.over = h.over
    BY <1>1 DEF IsJob, Fields, Yield
  <1> HIDE DEF j, E
  <1>3. e.key = k /\ e.val = v
    OBVIOUS
  <1> HIDE DEF e
  <1>4. /\ n \in Nat /\ DOMAIN h.out = 1..n /\ j.out \in Seq(E) /\ DOMAIN j.out = 1..(n + 1)
        /\ (\A i \in 1..n : j.out[i] = h.out[i]) /\ j.out[n + 1] = e
    BY <1>1, <1>2
  <1> HIDE DEF n
  <1>5. Of(j) = Of(h) /\ All(j) = All(h)
    BY <1>2 DEF Of, All
  <1>6. CallOK(j)
    BY <1>2, <1>4, <1>5 DEF CallOK, E
  <1>7. \A m \in DOMAIN h.out : m \in DOMAIN j.out /\ j.out[m] = h.out[m]
    BY <1>4
  <1>8. Onward(h, j)
    BY <1>2, <1>5, <1>6, <1>7 DEF Onward, Further
  <1> QED BY <1>2, <1>3, <1>4, <1>8 DEF j, n

LEMMA YieldMoves ==
    ASSUME CallsInv, NEW r \in flight, Live(r), r.of.op = "iterator", NEW d, NEW F, (\A f, g \in F : f = g),
           NEW s \in In(r.of.ns), s \in Covers(r, adapter), NEW v \in Values, v \in seen[r.t][s],
           \A f \in F : /\ f.t = r.t /\ f.c = r.c /\ Carries(f, seen[r.t], adapter, aux, db)
                        /\ CommandOK(f, adapter, calls, now) /\ f.do # "write"
                        /\ Covers(f, adapter) \subseteq Covers(r, adapter) \ {s},
           \A u \in Covers(r, adapter) \ {s} : \E f \in F : u \in Covers(f, adapter)
    PROVE  Moves(r, d, F, Yield(job[r.t], s[2], v))
  <1> DEFINE h == job[r.t]
             j == Yield(h, s[2], v)
             k == After(r, d, j)
             n == Len(h.out)
             H == Sights(r, d, j)
  <1>1. CallOK(h) /\ OutOK(h, Mine(flight, r.t, r.c), adapter, seen[r.t]) /\ r \in Mine(flight, r.t, r.c) /\ h.ns = r.of.ns
        /\ h.op = "iterator"
    BY LiveCall
  <1>2. s[1] = r.of.ns /\ s = <<s[1], s[2]>> /\ s[2] \in Keys /\ s \in Slots
    BY DEF In, Slots
  <1>3. /\ Onward(h, j) /\ j.res = h.res /\ n \in Nat /\ DOMAIN h.out = 1..n
        /\ DOMAIN j.out = 1..(n + 1) /\ (\A i \in DOMAIN h.out : j.out[i] = h.out[i])
        /\ j.out[n + 1].key = s[2] /\ j.out[n + 1].val = v
    BY <1>1, <1>2, YieldOnward
  <1> HIDE DEF j
  <1>4. k.out = j.out /\ Of(k) = r.of /\ Of(r.of) = r.of
    BY <1>3, AfterOK, FlightIs
  <1> HIDE DEF k
  <1>5. k.op = "iterator" /\ k.ns = r.of.ns
    BY <1>1, <1>4, SameCall, LiveCall
  <1>6. \A u \in Slots : seen[r.t][u] \subseteq H[u]
    BY DEF Sights, More
  <1> HIDE DEF h, n, H
  <1>7. \A i \in 1..n : /\ h.out[i].val \in seen[r.t][<<r.of.ns, h.out[i].key>>]
                        /\ <<r.of.ns, h.out[i].key>> \notin Covers(r, adapter) /\ h.out[i].key \in Keys
    <2> TAKE i \in 1..n
    <2>1. /\ h.out[i].val \in seen[r.t][<<h.ns, h.out[i].key>>]
          /\ \A q \in Mine(flight, r.t, r.c) : <<h.ns, h.out[i].key>> \notin Covers(q, adapter)
      BY <1>1, <1>3 DEF OutOK
    <2>2. h.out[i] \in [key : Keys, val : Values]
      BY <1>1, <1>3, EntriesIn DEF CallOK
    <2> QED BY <1>1, <2>1, <2>2
  <1>8. \A i, m \in 1..n : h.out[i].key = h.out[m].key => i = m
    BY <1>1, <1>3 DEF OutOK
  <1>9. \A i \in 1..(n + 1) : i \in 1..n \/ i = n + 1
    BY <1>3
  <1>10. \A i, m \in DOMAIN k.out : k.out[i].key = k.out[m].key => i = m
    <2> SUFFICES ASSUME NEW i \in 1..(n + 1), NEW m \in 1..(n + 1), k.out[i].key = k.out[m].key PROVE i = m
      BY <1>3, <1>4
    <2>1. i \in 1..n => k.out[i] = h.out[i] /\ h.out[i].key # s[2]
      BY <1>2, <1>3, <1>4, <1>7
    <2>2. m \in 1..n => k.out[m] = h.out[m] /\ h.out[m].key # s[2]
      BY <1>2, <1>3, <1>4, <1>7
    <2> QED BY <1>3, <1>4, <1>8, <1>9, <2>1, <2>2
  <1>11. ASSUME NEW i \in DOMAIN k.out
         PROVE  LET u == <<k.ns, k.out[i].key>>
                IN  k.out[i].val \in H[u] /\ \A f \in F : u \notin Covers(f, adapter)
    <2>1. CASE i \in 1..n
      <3>1. k.out[i] = h.out[i]
        BY <1>3, <1>4, <2>1
      <3>2. <<r.of.ns, h.out[i].key>> \in Slots
        BY <1>2, <1>7, <2>1 DEF Slots
      <3> QED BY <1>5, <1>6, <1>7, <2>1, <3>1, <3>2
    <2>2. CASE i = n + 1
      <3>1. k.out[i].key = s[2] /\ k.out[i].val = v /\ <<k.ns, k.out[i].key>> = s
        BY <1>2, <1>3, <1>4, <1>5, <2>2
      <3> QED BY <1>2, <1>6, <3>1
    <2> QED BY <1>3, <1>4, <1>9, <2>1, <2>2
  <1>12. OutOK(k, F, adapter, H)
    BY <1>10, <1>11 DEF OutOK
  <1>13. Settled(k, s, H, adapter, now)
    <2>1. n + 1 \in DOMAIN j.out
      BY <1>3
    <2>2. \E m \in DOMAIN j.out : j.out[m].key = s[2]
      BY <1>3, <2>1
    <2> QED BY <1>3, <2>2, WalkSettled DEF k, H, h
  <1>14. \A u \in In(r.of.ns) : u \in Covers(r, adapter) =>
            (\E f \in F : u \in Covers(f, adapter)) \/ Settled(k, u, H, adapter, now)
    BY <1>13
  <1>15. d = db \/ \A f \in F : f.do # "write"
    OBVIOUS
  <1>16. Moves(r, d, F, j)
    BY <1>3, <1>12, <1>14, <1>15, IteratorMoves DEF k, H, h
  <1> QED BY <1>16 DEF j, h

\* What is left in hand after the entry s: nothing, or one command.
Rests(r, F, a, s) ==
    /\ \A f \in F : IsRest(f, r, a, s)
    /\ \A f, g \in F : f = g
    /\ \A u \in Covers(r, a) \ {s} : \E f \in F : u \in Covers(f, a)

LEMMA RestsAre ==
    ASSUME CallsInv, NEW r \in flight, r.do = "pull", NEW s \in DOMAIN Hand(r, adapter), NEW F, Rests(r, F, adapter, s)
    PROVE  /\ \A f \in F : /\ f.t = r.t /\ f.of = r.of /\ f.c = r.c /\ f.do = "pull" /\ FlightOK(f)
                           /\ CommandOK(f, adapter, calls, now) /\ Covers(f, adapter) = Covers(r, adapter) \ {s}
                           /\ Live(r) => Carries(f, seen[r.t], adapter, aux, db)
           /\ Sends(r, F)
  <1>1. ASSUME NEW f \in F
        PROVE  /\ f.t = r.t /\ f.of = r.of /\ f.c = r.c /\ f.do = "pull" /\ FlightOK(f)
               /\ CommandOK(f, adapter, calls, now) /\ Covers(f, adapter) = Covers(r, adapter) \ {s}
               /\ Live(r) => Carries(f, seen[r.t], adapter, aux, db)
    <2>1. IsRest(f, r, adapter, s)
      BY DEF Rests
    <2>2. /\ FlightOK(f) /\ CommandOK(f, adapter, calls, now) /\ Covers(f, adapter) = Covers(r, adapter) \ {s}
          /\ \A H, x, d : Carries(r, H, adapter, x, d) => Carries(f, H, adapter, x, d)
      BY <2>1, RestIs
    <2>3. Live(r) => Carries(r, seen[r.t], adapter, aux, db)
      BY LiveCall
    <2> QED BY <2>1, <2>2, <2>3 DEF IsRest
  <1> QED BY <1>1 DEF Sends

\* The entry has expired, and is passed.
LEMMA PassedKeeps ==
    ASSUME CallsInv, NEW r \in flight, r.do = "pull", DOMAIN Hand(r, adapter) # {}, NEW s, s = First(Hand(r, adapter)),
           NEW n, JudgesAt(r, n), Expired(Hand(r, adapter)[s], n), NEW F, Rests(r, F, adapter, s),
           Serve(r, db, aux, F, job[r.t])
    PROVE  Kept
  <1> DEFINE row == Hand(r, adapter)[s]
  <1>1. /\ s \in DOMAIN Hand(r, adapter) /\ s \in In(r.of.ns) /\ row \in Row /\ r.of.op = "iterator" /\ s \in Covers(r, adapter)
        /\ Live(r) => SeenAt(row, JudgeAt(r, adapter, aux), seen[r.t][s])
    BY PullIs
  <1>2. Sends(r, F) /\ \A f \in F : /\ f.t = r.t /\ f.c = r.c /\ f.do = "pull" /\ CommandOK(f, adapter, calls, now)
                                    /\ Covers(f, adapter) = Covers(r, adapter) \ {s}
                                    /\ Live(r) => Carries(f, seen[r.t], adapter, aux, db)
    BY <1>1, RestsAre
  <1>3. ASSUME Live(r) PROVE Moves(r, db, F, job[r.t])
    <2>1. None \in seen[r.t][s] \/ Moved(r.of, adapter, now)
      BY <1>1, <1>3, JudgedRight
    <2>2. (\A f, g \in F : f = g) /\ \A u \in Covers(r, adapter) \ {s} : \E f \in F : u \in Covers(f, adapter)
      BY DEF Rests
    <2> QED BY <1>1, <1>2, <1>3, <2>1, <2>2, PassMoves
  <1> QED BY <1>2, <1>3, LeavesSame, KeepsSame, ServeKeeps

\* The entry is yielded.
LEMMA YieldedKeeps ==
    ASSUME CallsInv, NEW r \in flight, r.do = "pull", DOMAIN Hand(r, adapter) # {}, NEW s, s = First(Hand(r, adapter)),
           NEW n, JudgesAt(r, n), ~Expired(Hand(r, adapter)[s], n), NEW F, Rests(r, F, adapter, s),
           Serve(r, db, aux, F, Yield(job[r.t], s[2], Hand(r, adapter)[s].val))
    PROVE  Kept
  <1> DEFINE row == Hand(r, adapter)[s]
  <1>1. /\ s \in DOMAIN Hand(r, adapter) /\ s \in In(r.of.ns) /\ row \in Row /\ r.of.op = "iterator" /\ s \in Covers(r, adapter)
        /\ Live(r) => SeenAt(row, JudgeAt(r, adapter, aux), seen[r.t][s])
    BY PullIs
  <1>2. Sends(r, F) /\ \A f \in F : /\ f.t = r.t /\ f.c = r.c /\ f.do = "pull" /\ CommandOK(f, adapter, calls, now)
                                    /\ Covers(f, adapter) = Covers(r, adapter) \ {s}
                                    /\ Live(r) => Carries(f, seen[r.t], adapter, aux, db)
    BY <1>1, RestsAre
  <1>3. ASSUME Live(r) PROVE Moves(r, db, F, Yield(job[r.t], s[2], row.val))
    <2>1. row.val \in seen[r.t][s] /\ row.val \in Values
      BY <1>1, <1>3, JudgedRight DEF Row
    <2>2. (\A f, g \in F : f = g) /\ \A u \in Covers(r, adapter) \ {s} : \E f \in F : u \in Covers(f, adapter)
      BY DEF Rests
    <2> QED BY <1>1, <1>2, <1>3, <2>1, <2>2, YieldMoves
  <1> QED BY <1>2, <1>3, LeavesSame, KeepsSame, ServeKeeps

\* The entry has expired, and is to be deleted before the walk goes on.
LEMMA FoundKeeps ==
    ASSUME CallsInv, NEW r \in flight, r.do = "pull", DOMAIN Hand(r, adapter) # {}, NEW s, s = First(Hand(r, adapter)),
           adapter # "rocksdb", NEW n, JudgesAt(r, n), Expired(Hand(r, adapter)[s], n), NEW rest,
           NEW f, f = Command(r.t, r.of, "drop", {}, <<s, rest>>), Rests(r, Parked(f, adapter), adapter, s),
           Serve(r, db, aux, {f}, job[r.t])
    PROVE  Kept
  <1> DEFINE row == Hand(r, adapter)[s]
             G == Parked(f, adapter)
  <1>1. /\ s \in DOMAIN Hand(r, adapter) /\ s \in In(r.of.ns) /\ row \in Row /\ r.of.op = "iterator" /\ s \in Covers(r, adapter)
        /\ db[s] \in {None, row} \/ s \in dirty[r.of.c]
        /\ Live(r) => SeenAt(row, JudgeAt(r, adapter, aux), seen[r.t][s])
    BY PullIs
  <1>2. r.c = r.of.c
    BY PullIs
  <1>3. \A g \in G : /\ g.t = r.t /\ g.of = r.of /\ g.c = r.c /\ g.do = "pull" /\ FlightOK(g)
                     /\ Covers(g, adapter) = Covers(r, adapter) \ {s} /\ Parked(g, adapter) = {}
                     /\ Live(r) => Carries(g, seen[r.t], adapter, aux, db)
    <2>1. \A g \in G : g.do = "pull" => Parked(g, adapter) = {}
      BY DEF Parked
    <2> HIDE DEF G
    <2> QED BY <1>1, <2>1, RestsAre DEF G
  <1>4. /\ f.t = r.t /\ f.c = r.c /\ f.do = "drop" /\ f.at = {} /\ f.with = <<s, rest>> /\ f.of = r.of /\ f.with[1] = s
    <2>1. f.t = r.t /\ f.c = r.of.c /\ f.do = "drop" /\ f.at = {} /\ f.with = <<s, rest>> /\ f.of = Of(r.of)
      BY CommandIs
    <2> QED BY <1>2, <2>1, FlightIs
  <1>5. Expired(row, now)
    <2>1. n \in Nat /\ n <= now /\ now \in Nat /\ row.exp \in Int \cup {None}
      BY <1>1, Clocks DEF JudgesAt, Row
    <2> QED BY <2>1 DEF Expired
  <1>6. PlainOK(f, adapter, calls, now)
    <2>1. Calling(r.of, r.t, calls) /\ {} \in SUBSET All(r.of) /\ Fits("drop", r.of.op)
      BY <1>1, CallingOf DEF Fits
    <2>2. ShapeOK(f, adapter, now)
      <3>1. ~Chunked(f, adapter)
        BY <1>4 DEF Chunked
      <3> QED BY <1>1, <1>4, <3>1 DEF ShapeOK
    <2> QED BY <2>1, <2>2, PlainMade
  <1>7. CommandOK(f, adapter, calls, now)
    <2>1. \A g \in G : PlainOK(g, adapter, calls, now)
      BY <1>3 DEF FlightOK, CommandOK
    <2> QED BY <1>3, <1>4, <1>6, <2>1 DEF CommandOK, Rests
  <1>8. InHand(f, adapter) = {} /\ Targets(f, adapter) = {s}
    BY <1>4 DEF InHand, BeenRead, SlotsAt, Targets
  <1>9. SweptOK(f, adapter, db, dirty, now)
    <2>1. db[s] = None \/ Expired(db[s], now) \/ s \in dirty[r.of.c]
      BY <1>1, <1>5
    <2>2. \A g \in G : \A u \in InHand(g, adapter) :
             Hand(g, adapter)[u] # None => db[u] \in {None, Hand(g, adapter)[u]} \/ u \in dirty[r.of.c]
      BY <1>3 DEF FlightOK, SweptOK
    <2> HIDE DEF G
    <2> QED BY <1>4, <1>8, <2>1, <2>2 DEF SweptOK, G
  <1>10. Live(r) => Carries(f, seen[r.t], adapter, aux, db)
    <2> SUFFICES ASSUME Live(r) PROVE Carries(f, seen[r.t], adapter, aux, db)
      OBVIOUS
    <2>1. \A g \in G : HandSeen(g, seen[r.t], adapter, aux)
      BY <1>3 DEF Carries
    <2>2. HandSeen(f, seen[r.t], adapter, aux)
      BY <1>4, <1>8 DEF HandSeen
    <2> QED BY <1>4, <2>1, <2>2 DEF Carries
  <1>11. Covers(f, adapter) = UNION {Settling(q, adapter) : q \in G} /\ \A g \in G : Covers(g, adapter) = Settling(g, adapter)
    <2>1. Settling(f, adapter) = {}
      BY <1>4 DEF Settling, Chunked
    <2>2. \A g \in G : Covers(g, adapter) = Settling(g, adapter)
      BY <1>3, CoversOf
    <2> HIDE DEF G
    <2> QED BY <2>1, <2>2 DEF Covers, G
  <1>12. \A u \in Covers(r, adapter) \ {s} : u \in Covers(f, adapter)
    BY <1>11 DEF Rests
  <1>13. Covers(f, adapter) \subseteq Covers(r, adapter)
    BY <1>3, <1>11
  <1> HIDE DEF G
  <1>14. Sends(r, {f})
    BY <1>4, <1>7, <1>9 DEF Sends, FlightOK
  <1>15. ASSUME Live(r) PROVE Moves(r, db, {f}, job[r.t])
    <2>1. None \in seen[r.t][s] \/ Moved(r.of, adapter, now)
      BY <1>1, <1>15, JudgedRight
    <2> QED BY <1>1, <1>4, <1>7, <1>10, <1>12, <1>13, <1>15, <2>1, PassMoves
  <1> QED BY <1>14, <1>15, LeavesSame, KeepsSame, ServeKeeps

\* It is deleted, or the command fails: the walk goes on with what it left in hand.
LEMMA DroppedKeeps ==
    ASSUME CallsInv, NEW r \in flight, r.do = "drop", NEW S, S \cap Slots \subseteq {r.with[1]},
           NEW d, d = db \/ d = Drop(db, S), Serve(r, d, aux, Parked(r, adapter), job[r.t])
    PROVE  Kept
  <1> DEFINE G == Parked(r, adapter)
  <1>1. /\ CommandOK(r, adapter, calls, now) /\ SweptOK(r, adapter, db, dirty, now) /\ r.of.op = "iterator" /\ r.c = r.of.c
    BY FlightIs, NotLate DEF Fits
  <1>2. /\ \A g \in G : /\ PlainOK(g, adapter, calls, now) /\ g.do = "pull" /\ g.t = r.t /\ g.c = r.c /\ g.of = r.of
                        /\ Parked(g, adapter) = {}
        /\ \A f, g \in G : f = g
    <2>1. \A g \in G : g.do = "pull" => Parked(g, adapter) = {}
      BY DEF Parked
    <2> QED BY <1>1, <2>1 DEF CommandOK
  <1>3. \A g \in G : CommandOK(g, adapter, calls, now)
    BY <1>2 DEF CommandOK
  <1>4. \A g \in G : FlightOK(g)
    <2> TAKE g \in G
    <2>1. \A u \in InHand(g, adapter) : Hand(g, adapter)[u] # None =>
             db[u] \in {None, Hand(g, adapter)[u]} \/ u \in dirty[r.of.c]
      BY <1>1 DEF SweptOK
    <2>2. Targets(g, adapter) = {} /\ Parked(g, adapter) = {} /\ g.of = r.of
      BY <1>2 DEF Targets
    <2>3. SweptOK(g, adapter, db, dirty, now)
      BY <2>1, <2>2 DEF SweptOK
    <2> QED BY <1>3, <2>3 DEF FlightOK
  <1>5. Sends(r, G)
    BY <1>2, <1>4 DEF Sends
  <1>6. Covers(r, adapter) = UNION {Settling(q, adapter) : q \in G} /\ \A g \in G : Covers(g, adapter) = Settling(g, adapter)
    <2>1. Settling(r, adapter) = {}
      BY DEF Settling, Chunked
    <2>2. \A g \in G : Covers(g, adapter) = Settling(g, adapter)
      BY <1>2, CoversOf
    <2> HIDE DEF G
    <2> QED BY <2>1, <2>2 DEF Covers, G
  <1>7. Leaves(r, d)
    <2>1. Targets(r, adapter) = {r.with[1]}
      BY DEF Targets
    <2> QED BY <2>1, LeavesSame, SweepLeaves
  <1>8. Live(r) => \A g \in G : Carries(g, seen[r.t], adapter, aux, db)
    <2> SUFFICES ASSUME Live(r), NEW g \in G PROVE Carries(g, seen[r.t], adapter, aux, db)
      OBVIOUS
    <2>1. Carries(r, seen[r.t], adapter, aux, db)
      BY LiveCall
    <2>2. HandSeen(g, seen[r.t], adapter, aux)
      BY <2>1 DEF Carries
    <2> QED BY <1>2, <2>2 DEF Carries
  <1> HIDE DEF G
  <1>9. ASSUME Live(r) PROVE Moves(r, d, G, job[r.t])
    <2>1. \A g \in G : /\ g.t = r.t /\ g.c = r.c /\ Carries(g, seen[r.t], adapter, aux, db)
                       /\ CommandOK(g, adapter, calls, now) /\ g.do # "write" /\ Covers(g, adapter) \subseteq Covers(r, adapter)
      BY <1>2, <1>3, <1>6, <1>8, <1>9
    <2>2. \A u \in Covers(r, adapter) : \E g \in G : u \in Covers(g, adapter)
      BY <1>6
    <2> QED BY <1>1, <1>2, <1>9, <2>1, <2>2, PassMoves
  <1>10. d = db \/ r \notin G
    BY <1>2
  <1>11. Serve(r, d, aux, G, job[r.t])
    BY DEF G
  <1> QED BY <1>5, <1>7, <1>9, <1>10, <1>11, KeepsSame, ServeKeeps

\* The rows a walk is to go through are read.
LEMMA ScanKeeps ==
    ASSUME CallsInv, NEW r \in flight, r.of.op = "iterator", NEW f, f.t = r.t, f.of = r.of, f.c = r.c, f.do = "pull",
           IsCommand(f), f.at = {}, PullOK(f, adapter, now),
           \A s \in DOMAIN Hand(f, adapter) : Hand(f, adapter)[s] = db[s],
           JudgeAt(f, adapter, aux) \in Nat, r.of.at <= JudgeAt(f, adapter, aux), JudgeAt(f, adapter, aux) <= now,
           adapter = "mongo" => aux.boot # "pending",
           Covers(f, adapter) \subseteq Covers(r, adapter),
           \A s \in In(r.of.ns) : s \in Covers(r, adapter) => s \in Covers(f, adapter) \/ db[s] = None \/ ~Whole,
           NEW F, F = {f} \/ (F = {} /\ Covers(f, adapter) = {}), Serve(r, db, aux, F, job[r.t])
    PROVE  Kept
  <1> DEFINE rows == Hand(f, adapter)
  <1>1. /\ PlainOK(r, adapter, calls, now) /\ r.c = r.of.c /\ r.c # 0 /\ now \in Nat /\ r.of.at \in Nat /\ r.of.at <= now
        /\ db \in [Slots -> Rows]
    <2>1. r.of.c \in 1..calls /\ calls \in Nat /\ r.c \in {0, r.of.c} /\ PlainOK(r, adapter, calls, now)
      BY FlightIs, Numbers
    <2>2. r.of.op # "clear" /\ r.of.op \notin KeyOps /\ r.of.op # "clearExpired"
      BY DEF KeyOps, ReadOps, HasOps, WriteOps, DeleteOps
    <2>3. r.do \notin {"sweep", "set", "delete", "clear"}
      <3>1. Fits(r.do, r.of.op)
        BY FlightIs
      <3> QED BY <2>2, <3>1 DEF Fits, KeyOps
    <2>4. r.c = r.of.c
      BY <2>3, NotLate
    <2>5. r.c # 0
      BY <2>1, <2>4
    <2> QED BY <2>1, <2>4, <2>5, Clocks DEF CallsInv, Types
  <1>2. ~Chunked(f, adapter) /\ Parked(f, adapter) = {} /\ Targets(f, adapter) = {} /\ InHand(f, adapter) = DOMAIN rows
    BY DEF Chunked, Parked, Targets, InHand
  <1>3. ShapeOK(f, adapter, now) /\ Fits("pull", r.of.op)
    BY <1>2 DEF ShapeOK, Fits
  <1>4. CommandOK(f, adapter, calls, now)
    <2>1. PlainOK(f, adapter, calls, now)
      BY <1>1, <1>3 DEF PlainOK
    <2> QED BY <1>2, <2>1 DEF CommandOK
  <1>5. FlightOK(f)
    BY <1>2, <1>4 DEF FlightOK, SweptOK
  <1>6. Sends(r, F)
    BY <1>1, <1>5 DEF Sends
  <1>7. ASSUME Live(r), NEW s \in Slots PROVE Looks(db[s], r.of.at, now) \subseteq seen[r.t][s]
    <2>1. s \in Concerns(r.of) /\ r.of.op \in WalkOps
      BY WalksConcern DEF WalkOps
    <2>2. Onward(job[r.t], job[r.t])
      BY <1>7, StaysOnward
    <2> QED BY <1>7, <2>1, <2>2, SightsAt
  <1>8. DOMAIN rows \subseteq Slots
    BY DEF PullOK, In
  <1>9. ASSUME Live(r) PROVE Carries(f, seen[r.t], adapter, aux, db)
    <2>1. \A s \in DOMAIN rows : SeenAt(rows[s], JudgeAt(f, adapter, aux), seen[r.t][s])
      <3> TAKE s \in DOMAIN rows
      <3>1. s \in Slots /\ rows[s] = db[s] /\ db[s] \in Rows
        BY <1>1, <1>8
      <3>2. SeenAt(db[s], JudgeAt(f, adapter, aux), Looks(db[s], r.of.at, now))
        BY <1>1, <3>1, RowLooks
      <3>3. Looks(db[s], r.of.at, now) \subseteq seen[r.t][s]
        BY <1>7, <1>9, <3>1
      <3> QED BY <3>1, <3>2, <3>3, SeenGrows
    <2>2. HandSeen(f, seen[r.t], adapter, aux)
      BY <1>2, <2>1 DEF HandSeen
    <2> QED BY <1>2, <2>2 DEF Carries
  <1>10. ASSUME Live(r) PROVE Moves(r, db, F, job[r.t])
    <2>1. \A s \in In(r.of.ns) : s \in Covers(r, adapter) =>
             (\E g \in F : s \in Covers(g, adapter)) \/ (Whole => None \in seen[r.t][s] \/ Moved(r.of, adapter, now))
      <3> SUFFICES ASSUME NEW s \in In(r.of.ns), s \in Covers(r, adapter), s \notin Covers(f, adapter), Whole
                   PROVE  None \in seen[r.t][s]
        OBVIOUS
      <3>1. s \in Slots /\ db[s] = None
        BY DEF In
      <3>2. None \in Looks(db[s], r.of.at, now)
        BY <3>1 DEF Looks, Visible
      <3> QED BY <1>7, <1>10, <3>1, <3>2
    <2>2. \A g \in F : /\ g.t = r.t /\ g.c = r.c /\ Carries(g, seen[r.t], adapter, aux, db)
                       /\ CommandOK(g, adapter, calls, now) /\ g.do # "write" /\ Covers(g, adapter) \subseteq Covers(r, adapter)
      BY <1>4, <1>9, <1>10
    <2>3. \A g, h \in F : g = h
      OBVIOUS
    <2> QED BY <1>10, <2>1, <2>2, <2>3, PassMoves
  <1> QED BY <1>6, <1>10, LeavesSame, KeepsSame, ServeKeeps

\* A walk goes on with what follows, or is over, without any rows.
LEMMA NextKeeps ==
    ASSUME CallsInv, NEW r \in flight, r.c = r.of.c, r.of.op = "iterator", NEW do \in Pages, Fits(do, "iterator"), NEW p \in Nat \ {0},
           Covers(r, adapter) \subseteq From(r.of.ns, p), From(r.of.ns, p) \subseteq Covers(r, adapter),
           NEW F, F = {Command(r.t, r.of, do, {}, p)} \/ (F = {} /\ Covers(r, adapter) = {}),
           Serve(r, db, aux, F, job[r.t])
    PROVE  Kept
  <1> DEFINE f == Command(r.t, r.of, do, {}, p)
  <1>1. /\ f.t = r.t /\ f.of = r.of /\ f.c = r.c /\ f.do = do /\ CommandOK(f, adapter, calls, now)
        /\ Parked(f, adapter) = {} /\ InHand(f, adapter) = {} /\ Covers(f, adapter) = From(r.of.ns, p)
    <2>1. Calling(r.of, r.t, calls) /\ r.of = Of(r.of)
      BY CallingOf
    <2> QED BY <2>1, PageMade
  <1> HIDE DEF f
  <1>2. f.do \notin {"sweep", "drop", "pull", "write"}
    <2>1. do \notin {"sweep", "drop", "pull", "write"} /\ "write" \notin Pages
      BY PagesFit, Zenon DEF Pages
    <2> QED BY <1>1, <2>1
  <1>3. Targets(f, adapter) = {} /\ FlightOK(f)
    <2>1. Targets(f, adapter) = {}
      BY <1>2 DEF Targets
    <2> QED BY <1>1, <2>1 DEF FlightOK, SweptOK
  <1>4. \A H, x, d : Carries(f, H, adapter, x, d)
    BY <1>1, <1>2 DEF Carries, HandSeen
  <1>5. F = {f} \/ (F = {} /\ Covers(r, adapter) = {})
    BY DEF f
  <1>6. Sends(r, F)
    BY <1>1, <1>3, <1>5 DEF Sends
  <1>7. ASSUME Live(r) PROVE Moves(r, db, F, job[r.t])
    <2>1. \A g \in F : /\ g.t = r.t /\ g.c = r.c /\ Carries(g, seen[r.t], adapter, aux, db)
                       /\ CommandOK(g, adapter, calls, now) /\ g.do # "write" /\ Covers(g, adapter) \subseteq Covers(r, adapter)
      BY <1>1, <1>2, <1>4, <1>5
    <2>2. \A u \in Covers(r, adapter) : \E g \in F : u \in Covers(g, adapter)
      BY <1>1, <1>5
    <2>3. \A g, h \in F : g = h
      BY <1>5
    <2> QED BY <1>7, <2>1, <2>2, <2>3, PassMoves
  <1> QED BY <1>6, <1>7, LeavesSame, KeepsSame, ServeKeeps

\* There are no rows to go through.
LEMMA EmptyKeeps ==
    ASSUME CallsInv, NEW r \in flight, r.of.op = "iterator",
           \A s \in In(r.of.ns) : s \in Covers(r, adapter) => db[s] = None \/ ~Whole,
           Serve(r, db, aux, {}, job[r.t])
    PROVE  Kept
  <1>1. ASSUME Live(r) PROVE Moves(r, db, {}, job[r.t])
    <2>1. \A s \in In(r.of.ns) : s \in Covers(r, adapter) => (Whole => None \in seen[r.t][s])
      <3> SUFFICES ASSUME NEW s \in In(r.of.ns), s \in Covers(r, adapter), Whole PROVE None \in seen[r.t][s]
        OBVIOUS
      <3>1. Onward(job[r.t], job[r.t])
        BY <1>1, StaysOnward
      <3>2. db[s] = None /\ Looks(db[s], r.of.at, now) \subseteq seen[r.t][s]
        BY <1>1, <3>1, WalkSights
      <3> QED BY <3>2 DEF Looks, Visible
    <2> QED BY <1>1, <2>1, PassMoves
  <1> QED BY <1>1, LeavesSame, KeepsSame, NoneSent, ServeKeeps

---------------------------------------------------------------------------
(* StorelyEtcd *)

LEMMA MaxOf == ASSUME NEW x \in Int, NEW y \in Int PROVE Max({x, y}) = IF x < y THEN y ELSE x
  BY DEF Max
LEMMA MinOf == ASSUME NEW x \in Int, NEW y \in Int PROVE Min({x, y}) = IF x < y THEN x ELSE y
  BY DEF Min
LEMMA MinOne == ASSUME NEW x \in Int PROVE Min({x}) = x
  BY DEF Min

\* A bucket is no shorter than the TTL it is for.
LEMMA BucketIs ==
    ASSUME NEW live \in Int PROVE Bucket(live) \in Nat /\ Bucket(live) >= 1 /\ Bucket(live) >= live
  <1> DEFINE q == (live + LeaseUnit - 1) \div LeaseUnit
             m == Max({1, q})
  <1>1. LeaseUnit \in Nat \ {0}
    BY EtcdAssumption
  <1>2. q \in Int /\ LeaseUnit * q >= live
    BY <1>1
  <1> HIDE DEF q
  <1>3. m \in Nat /\ m >= 1 /\ m >= q
    BY <1>2, MaxOf
  <1> HIDE DEF m
  <1>4. LeaseUnit * m >= LeaseUnit * q /\ LeaseUnit * m >= LeaseUnit /\ LeaseUnit * m \in Nat
    BY <1>1, <1>2, <1>3
  <1>5. Bucket(live) = LeaseUnit * m
    BY DEF Bucket, m, q
  <1> QED BY <1>1, <1>2, <1>4, <1>5

\* The lease a put is given: half of its time has not passed.
LEMMA LeaseIs ==
    ASSUME CallsInv, adapter = "etcd", NEW live \in Lives["etcd"] \ {None}, NEW lease \in LeaseFor(live)
    PROVE  /\ lease.made \in 0..now /\ lease.for = Bucket(live) /\ 2 * (now - lease.made) < lease.for
           /\ live \in Int /\ Bucket(live) \in DOMAIN aux.leases
           /\ LeasesOK([aux EXCEPT !.leases[Bucket(live)] = lease], now) /\ lease # None
           /\ Keeps([aux EXCEPT !.leases[Bucket(live)] = lease])
  <1> DEFINE b == Bucket(live)
             a == [aux EXCEPT !.leases[b] = lease]
  <1>1. /\ AuxOK(aux, adapter, now) /\ LeasesOK(aux, now) /\ now \in Nat /\ adapter \in Adapters
    BY Numbers DEF CallsInv, Types, AuxOK
  <1>2. live \in Int
    BY <1>1, CallsAssumption
  <1>3. b \in Nat /\ b >= 1
    BY <1>2, BucketIs
  <1>4. b \in DOMAIN aux.leases
    BY <1>1 DEF LeasesOK
  <1>5. lease.made \in 0..now /\ lease.for = b /\ 2 * (now - lease.made) < lease.for /\ lease # None
    <2>1. CASE Reusable(aux.leases[b]) /\ lease = aux.leases[b]
      BY <1>1, <1>4, <2>1 DEF LeasesOK, Reusable
    <2>2. ASSUME NEW ok \in BOOLEAN, lease = Lease(b, ok)
          PROVE  lease.made \in 0..now /\ lease.for = b /\ 2 * (now - lease.made) < lease.for /\ lease # None
      <3>1. lease.made = now /\ lease.for = b /\ now - now = 0 /\ 2 * 0 < b
        BY <1>1, <1>3, <2>2 DEF Lease
      <3>2. lease \in [made : Nat, for : Nat, granted : BOOLEAN]
        BY <1>1, <1>3, <2>2 DEF Lease
      <3>3. lease # None
        BY <3>2, EtcdAssumption
      <3> QED BY <1>1, <3>1, <3>3
    <2>3. LeaseFor(live) \subseteq {aux.leases[b]} \cup {Lease(b, ok) : ok \in BOOLEAN} /\ (lease # Lease(b, TRUE) /\ lease # Lease(b, FALSE) => Reusable(aux.leases[b]) /\ lease = aux.leases[b])
      BY DEF LeaseFor
    <2> QED BY <2>1, <2>2, <2>3
  <1>6. /\ DOMAIN a = DOMAIN aux /\ a = [f \in DOMAIN a |-> a[f]] /\ a.boot = aux.boot /\ a.since = aux.since
        /\ a.shared = aux.shared /\ a.leases = [aux.leases EXCEPT ![b] = lease]
    BY <1>1 DEF AuxOK
  <1> HIDE DEF a, b
  <1>7. /\ DOMAIN a.leases = DOMAIN aux.leases /\ a.leases = [c \in DOMAIN aux.leases |-> a.leases[c]]
        /\ \A c \in DOMAIN aux.leases : a.leases[c] = IF c = b THEN lease ELSE aux.leases[c]
    BY <1>1, <1>4, <1>6 DEF LeasesOK
  <1>8. LeasesOK(a, now)
    <2>1. DOMAIN aux.leases = {Bucket(l) : l \in Lives["etcd"] \ {None}}
      BY <1>1 DEF LeasesOK
    <2>2. a.leases = [c \in {Bucket(l) : l \in Lives["etcd"] \ {None}} |-> a.leases[c]]
      BY <1>7, <2>1
    <2>3. IsLease(a.shared)
      BY <1>1, <1>6 DEF LeasesOK
    <2>4. \A c \in DOMAIN a.leases : a.leases[c] # None => a.leases[c].made \in 0..now /\ a.leases[c].for = c
      BY <1>1, <1>5, <1>7 DEF LeasesOK
    <2> QED BY <2>2, <2>3, <2>4 DEF LeasesOK
  <1>9. Keeps(a)
    BY <1>1, <1>6, <1>8 DEF Keeps, AuxOK
  <1> QED BY <1>2, <1>4, <1>5, <1>8, <1>9 DEF a, b

\* Entries are put on a lease, or on none.
LEMMA PutsKeep ==
    ASSUME CallsInv, adapter = "etcd", NEW t \in Tasks, NEW j, New(j, t), j.op \in WriteOps, NEW lease, IsLease(lease),
           j.live # None => /\ lease # None /\ lease.made \in 0..now /\ lease.for = Bucket(j.live)
                            /\ 2 * (now - lease.made) < lease.for,
           NEW a, Keeps(a), NEW F, F = {Command(t, j, "put", {i}, lease) : i \in All(j)}, EnterWith(t, j, F, a)
    PROVE  Kept
  <1>1. j.op \in KeyOps /\ Items(j) = All(j) /\ j.at = now /\ Fits("put", j.op)
    <2>1. j.op \in KeyOps /\ j.op \notin {"clear", "iterator"}
      BY DEF KeyOps, WriteOps
    <2> QED BY <2>1 DEF Items, Fits, New, Fresh
  <1>2. ASSUME NEW i \in All(j)
        PROVE  LET f == Command(t, j, "put", {i}, lease)
               IN  /\ f.t = t /\ f.of = Of(j) /\ f.c = j.c /\ CommandOK(f, adapter, calls + 1, now) /\ f.do = "put"
                   /\ InHand(f, adapter) = {} /\ Covers(f, adapter) = {i}
    <2> DEFINE f == Command(t, j, "put", {i}, lease)
    <2>1. /\ f.t = t /\ f.c = j.c /\ f.do = "put" /\ f.at = {i} /\ f.of = Of(j) /\ f.of.op = j.op /\ f.with = lease
          /\ f.of.at = now /\ f.of.live = j.live
      BY <1>1, CommandIs, OfAll
    <2> HIDE DEF f
    <2>2. ~Chunked(f, adapter)
      BY <2>1 DEF Chunked
    <2>3. ShapeOK(f, adapter, now)
      BY <2>1, <2>2 DEF ShapeOK
    <2>4. CommandOK(f, adapter, calls + 1, now)
      <3>1. Calling(j, t, calls + 1) /\ {i} \in SUBSET All(j)
        BY NewIs
      <3> QED BY <1>1, <2>3, <3>1, PlainMade DEF f
    <2>5. InHand(f, adapter) = {} /\ Covers(f, adapter) = {i}
      <3>1. Settling(f, adapter) = {i}
        BY <2>1, <2>2 DEF Settling
      <3>2. InHand(f, adapter) = {}
        BY <2>1 DEF InHand, BeenRead, SlotsAt
      <3> QED BY <2>1, <3>1, <3>2, CoversOf
    <2> QED BY <2>1, <2>4, <2>5 DEF f
  <1>3. \A f \in F : /\ f.t = t /\ f.of = Of(j) /\ f.c = j.c /\ CommandOK(f, adapter, calls + 1, now)
                     /\ f.do \notin {"sweep", "drop", "pull", "write"} /\ InHand(f, adapter) = {} /\ f.do = "put"
    <2> TAKE f \in F
    <2>1. PICK i \in All(j) : f = Command(t, j, "put", {i}, lease)
      OBVIOUS
    <2> QED BY <1>2, <2>1
  <1>4. \A i \in Items(j) : \E f \in F : i \in Covers(f, adapter)
    <2> TAKE i \in Items(j)
    <2>1. Command(t, j, "put", {i}, lease) \in F /\ i \in Covers(Command(t, j, "put", {i}, lease), adapter)
      BY <1>1, <1>2
    <2> QED BY <2>1
  <1>5. Together(F, adapter)
    <2>1. \A f \in F : f.of.op \in KeyOps /\ f.do # "write"
      <3>1. Of(j).op \in KeyOps
        BY <1>1, OfAll
      <3> QED BY <1>3, <3>1
    <2> QED BY <2>1 DEF Together
  <1>6. EnterWith(t, j, F, a)
    OBVIOUS
  <1> QED BY <1>3, <1>4, <1>5, <1>6, StartKeeps

\* After disconnect set does nothing, and answers true: what EffectsReportedElse leaves out.
LEMMA BlindKeeps ==
    ASSUME CallsInv, adapter = "etcd", NEW t \in Tasks, NEW j, New(j, t), j.op \in WriteOps, SharedTtl # None,
           Enter(t, True(j, All(j)), {})
    PROVE  Kept
  <1> DEFINE R == [i \in DOMAIN j.res |-> IF i \in All(j) THEN TRUE ELSE j.res[i]]
             k == [j EXCEPT !.res = R]
  <1>1. True(j, All(j)) = k
    BY DEF True, Answered
  <1>2. Onward(j, j) /\ DOMAIN j.res = All(j)
    BY FurtherSelf DEF Onward, New, Fresh, CallOK
  <1>3. DOMAIN R = All(j) /\ \A i \in All(j) : R[i] = TRUE
    BY <1>2
  <1> HIDE DEF R
  <1>4. Onward(j, k) /\ k.res = R /\ Of(k) = Of(j) /\ k.out = j.out
    BY <1>2, <1>3, AnsweredOnward
  <1> HIDE DEF k
  <1>5. k.op = j.op /\ k.c = j.c /\ k.at = j.at /\ Items(k) = All(j)
    <2>1. j.op \notin {"clear", "iterator"}
      BY DEF WriteOps
    <2> QED BY <1>4, <2>1, SameCall DEF Items
  <1>6. Fresh(k, t, calls + 1)
    BY <1>4, <1>5 DEF Fresh, New, Onward
  <1>7. ~Tells(k, adapter)
    BY DEF Tells, Reports, CallsInv, Types
  <1>8. \A i \in Items(k) : Settled(k, i, Starts(k), adapter, now)
    <2> TAKE i \in Items(k)
    <2>1. k.res[i] = TRUE
      BY <1>3, <1>4, <1>5
    <2>2. k.op \notin ReadOps \cup HasOps \cup DeleteOps \cup {"clear", "iterator"}
      BY <1>5 DEF ReadOps, HasOps, WriteOps, DeleteOps
    <2>3. AnswerOK(k, i, Starts(k), adapter, now)
      BY <1>7, <2>1, <2>2 DEF AnswerOK
    <2> QED BY <2>3 DEF Settled
  <1>9. Opens(k, t, calls + 1, {})
    BY <1>8 DEF Opens, Together, PutOK
  <1> QED BY <1>1, <1>6, <1>9, KeepsSame, EnterKeeps DEF Enter

LEMMA EtcdPutsKeep ==
    ASSUME CallsInv, adapter = "etcd", NEW t \in Tasks, NEW j, New(j, t), j.op \in WriteOps, EtcdPuts(t, j)
    PROVE  Kept
  <1>1. CASE SharedTtl # None /\ Enter(t, True(j, All(j)), {})
    BY <1>1, BlindKeeps
  <1>2. CASE (j.live = None \/ All(j) = {}) /\ Enter(t, j, {Command(t, j, "put", {i}, aux.shared) : i \in All(j)})
    <2>1. EnterWith(t, j, {Command(t, j, "put", {i}, aux.shared) : i \in All(j)}, aux)
      BY <1>2 DEF Enter
    <2>2. IsLease(aux.shared)
      BY DEF CallsInv, Types, AuxOK, LeasesOK
    <2>3. CASE j.live = None
      <3> DEFINE F == {Command(t, j, "put", {i}, aux.shared) : i \in All(j)}
      <3>1. EnterWith(t, j, F, aux)
        BY <2>1
      <3>2. F = {Command(t, j, "put", {i}, aux.shared) : i \in All(j)}
        OBVIOUS
      <3> HIDE DEF F
      <3> QED BY <2>2, <2>3, <3>1, <3>2, KeepsSame, PutsKeep
    <2>4. CASE All(j) = {}
      <3>1. EnterWith(t, j, {}, aux) /\ Items(j) = {}
        <4>1. {Command(t, j, "put", {i}, aux.shared) : i \in All(j)} = {}
          BY <2>4
        <4>2. j.op \notin {"clear", "iterator"}
          BY DEF WriteOps
        <4> QED BY <2>1, <2>4, <4>1, <4>2 DEF Items
      <3> QED BY <3>1, KeepsSame, NoneKeeps
    <2> QED BY <1>2, <2>3, <2>4
  <1>3. ASSUME j.live # None, NEW lease \in LeaseFor(j.live),
               EnterWith(t, j, {Command(t, j, "put", {i}, lease) : i \in All(j)}, [aux EXCEPT !.leases[Bucket(j.live)] = lease])
        PROVE  Kept
    <2> DEFINE a == [aux EXCEPT !.leases[Bucket(j.live)] = lease]
    <2>1. j.live \in Lives["etcd"] \ {None}
      <3>1. j.live \in Lives[adapter] \cup {None}
        BY OfAll DEF New, Fresh, OfOK
      <3> QED BY <1>3, <3>1
    <2>2. /\ lease.made \in 0..now /\ lease.for = Bucket(j.live) /\ 2 * (now - lease.made) < lease.for /\ lease # None
          /\ j.live \in Int /\ Keeps(a)
      BY <1>3, <2>1, LeaseIs
    <2>3. IsLease(lease)
      <3>1. Bucket(j.live) \in Nat /\ now \in Nat
        BY <2>2, BucketIs, Numbers DEF CallsInv
      <3> QED BY <2>2, <3>1 DEF IsLease
    <2> DEFINE F == {Command(t, j, "put", {i}, lease) : i \in All(j)}
    <2>4. EnterWith(t, j, F, a) /\ F = {Command(t, j, "put", {i}, lease) : i \in All(j)}
      BY <1>3
    <2> HIDE DEF a, F
    <2> QED BY <2>2, <2>3, <2>4, PutsKeep
  <1>4. /\ EtcdPuts(t, j)
        /\ \/ SharedTtl # None /\ Enter(t, True(j, All(j)), {})
           \/ (j.live = None \/ All(j) = {}) /\ Enter(t, j, {Command(t, j, "put", {i}, aux.shared) : i \in All(j)})
           \/ j.live # None /\ \E lease \in LeaseFor(j.live) :
                 EnterWith(t, j, {Command(t, j, "put", {i}, lease) : i \in All(j)}, [aux EXCEPT !.leases[Bucket(j.live)] = lease])
    BY Zenon DEF EtcdPuts
  <1> QED BY <1>1, <1>2, <1>3, <1>4

LEMMA EtcdCallKeeps ==
    ASSUME CallsInv, adapter = "etcd", NEW t \in Tasks, NEW j, New(j, t), EtcdCall(t, j)
    PROVE  Kept
  <1>1. CASE j.op \in ReadOps \cup HasOps /\ Enter(t, j, Each(t, j, "read"))
    <2>1. Fits("read", j.op)
      BY <1>1 DEF Fits
    <2> QED BY <1>1, <2>1, EachKeeps
  <1>2. CASE j.op \in WriteOps /\ EtcdPuts(t, j)
    BY <1>2, EtcdPutsKeep
  <1>3. CASE j.op \in DeleteOps /\ Enter(t, j, Each(t, j, "delete"))
    <2>1. Fits("delete", j.op) /\ Light("delete", adapter, j.op)
      BY <1>3 DEF Fits, Light
    <2> QED BY <1>3, <2>1, EachKeeps
  <1>4. CASE EtcdClear(t, j)
    <2>1. j.op = "clear" /\ Enter(t, j, {Command(t, j, "clear", {}, {})})
      BY <1>4 DEF EtcdClear
    <2>2. Fits("clear", j.op) /\ Light("clear", adapter, j.op)
      BY <2>1 DEF Fits, Light
    <2> QED BY <2>1, <2>2, WalkEnters
  <1>5. CASE EtcdIterator(t, j)
    <2>1. j.op = "iterator" /\ Enter(t, j, {Command(t, j, "all", {}, {})})
      BY <1>5 DEF EtcdIterator
    <2>2. Fits("all", j.op) /\ Light("all", adapter, j.op)
      BY <2>1 DEF Fits, Light
    <2> QED BY <2>1, <2>2, WalkEnters
  <1>6. CASE EtcdDisconnect(t, j)
    <2>1. j.op = "disconnect" /\ Enter(t, j, {Command(t, j, "revoke", {}, {})})
      BY <1>6 DEF EtcdDisconnect
    <2>2. Fits("revoke", j.op) /\ Light("revoke", adapter, j.op)
      BY <2>1 DEF Fits, Light
    <2> QED BY <2>1, <2>2, WalkEnters
  <1> QED
    BY <1>1, <1>2, <1>3, <1>4, <1>5, <1>6
    DEF EtcdCall, EtcdGet, EtcdGetMany, EtcdHas, EtcdHasMany, EtcdSet, EtcdSetMany, EtcdDelete, EtcdDeleteMany,
        ReadOps, HasOps, WriteOps, DeleteOps

LEMMA EtcdOps == ASSUME NEW t, NEW j, EtcdCall(t, j) PROVE j.op \in KeyOps \cup WalkOps
  BY DEF EtcdCall, EtcdGet, EtcdGetMany, EtcdHas, EtcdHasMany, EtcdSet, EtcdSetMany, EtcdDelete, EtcdDeleteMany,
         EtcdClear, EtcdIterator, EtcdDisconnect, KeyOps, ReadOps, HasOps, WriteOps, DeleteOps, WalkOps

LEMMA EtcdEnters ==
    ASSUME CallsInv, adapter = "etcd", NEW t \in Tasks, NewCall(t, EtcdCall)
    PROVE  Kept
  <1>1. PICK op \in Ops[t], ns \in Namespaces, ks \in Batches :
           /\ (op \in SingleOps <=> Len(ks) = 1) /\ (op \notin KeyOps => ks = <<>>)
           /\ \E live \in IF op \in WriteOps THEN Lives[adapter] ELSE {None} : EtcdCall(t, NewJob(op, ns, ks, live))
    BY Zenon DEF NewCall
  <1>2. PICK live \in IF op \in WriteOps THEN Lives[adapter] ELSE {None} : EtcdCall(t, NewJob(op, ns, ks, live))
    BY <1>1
  <1> DEFINE j == NewJob(op, ns, ks, live)
  <1>3. New(j, t)
    BY <1>1, <1>2, EtcdOps, NewMade
  <1> HIDE DEF j
  <1> QED BY <1>2, <1>3, EtcdCallKeeps DEF j

\* What is left in hand of an answer that had all entries, all at once.
LEMMA RestMade ==
    ASSUME CallsInv, NEW r \in flight, r.do = "pull", adapter \in {"etcd", "rocksdb"}, NEW s \in DOMAIN r.with,
           NEW rest, rest = Without(r.with, s),
           NEW F, F = IF DOMAIN rest = {} THEN {} ELSE {Command(r.t, r.of, "pull", {}, rest)}
    PROVE  Rests(r, F, adapter, s)
  <1> DEFINE f == Command(r.t, r.of, "pull", {}, rest)
  <1>1. r.c = r.of.c /\ r.of = Of(r.of)
    BY FlightIs, NotLate
  <1>2. f.t = r.t /\ f.c = r.c /\ f.of = r.of /\ f.do = "pull" /\ f.with = rest /\ IsCommand(f) /\ f.at = {}
    BY <1>1, CommandIs
  <1> HIDE DEF f
  <1>3. Hand(r, adapter) = r.with /\ Hand(f, adapter) = rest
    BY <1>2 DEF Hand
  <1>4. DOMAIN rest # {} => IsRest(f, r, adapter, s)
    BY <1>2, <1>3 DEF IsRest
  <1>5. F = IF DOMAIN rest = {} THEN {} ELSE {f}
    BY DEF f
  <1>6. Covers(r, adapter) = DOMAIN r.with
    <2>1. Covers(r, adapter) = Settling(r, adapter) /\ ~Chunked(r, adapter)
      BY CoversOf DEF Chunked
    <2> QED BY <1>3, <2>1 DEF Settling, Ahead
  <1>7. DOMAIN rest # {} => Covers(f, adapter) = Covers(r, adapter) \ {s}
    BY <1>3, <1>4, RestIs
  <1>8. DOMAIN rest = DOMAIN r.with \ {s}
    BY DEF Without
  <1> QED BY <1>4, <1>5, <1>6, <1>7, <1>8 DEF Rests

LEMMA EtcdPulledKeeps == ASSUME CallsInv, EtcdPulled PROVE Kept
  <1>1. PICK r \in Sent("etcd", "pull") :
           LET s    == First(r.with)
               rest == Without(r.with, s)
               next == IF DOMAIN rest = {} THEN {} ELSE {Command(r.t, r.of, "pull", {}, rest)}
           IN  IF Expired(r.with[s], now)
               THEN Serve(r, db, aux, {Command(r.t, r.of, "drop", {}, <<s, next>>)}, job[r.t])
               ELSE Serve(r, db, aux, next, Yield(job[r.t], s[2], r.with[s].val))
    BY Zenon DEF EtcdPulled
  <1> DEFINE s    == First(r.with)
             rest == Without(r.with, s)
             next == IF DOMAIN rest = {} THEN {} ELSE {Command(r.t, r.of, "pull", {}, rest)}
             f    == Command(r.t, r.of, "drop", {}, <<s, next>>)
  <1>2. r \in flight /\ r.do = "pull" /\ adapter = "etcd"
    BY ServedIn
  <1>3. Hand(r, adapter) = r.with /\ DOMAIN Hand(r, adapter) # {}
    BY <1>2, FlightIs DEF Hand, ShapeOK, PullOK
  <1>4. s \in DOMAIN r.with /\ s = First(Hand(r, adapter))
    BY <1>2, <1>3, PullIs
  <1>5. JudgesAt(r, now)
    BY <1>2, Clocks DEF JudgesAt
  <1>6. CASE Expired(r.with[s], now)
    <2>1. Serve(r, db, aux, {f}, job[r.t])
      BY <1>1, <1>6
    <2>2. f.do = "drop" /\ f.with = <<s, next>>
      <3> HIDE DEF s, rest, next
      <3> QED BY CommandIs
    <2>3. f = Command(r.t, r.of, "drop", {}, <<s, next>>)
      OBVIOUS
    <2>4. next = IF DOMAIN rest = {} THEN {} ELSE {Command(r.t, r.of, "pull", {}, rest)}
      OBVIOUS
    <2>5. rest = Without(r.with, s)
      OBVIOUS
    <2> HIDE DEF s, rest, next, f
    <2>6. Parked(f, adapter) = next
      BY <1>2, <2>2 DEF Parked
    <2>7. Rests(r, next, adapter, s)
      BY <1>2, <1>4, <2>4, <2>5, RestMade
    <2> QED BY <1>2, <1>3, <1>4, <1>5, <1>6, <2>1, <2>3, <2>6, <2>7, FoundKeeps
  <1>7. CASE ~Expired(r.with[s], now)
    <2>1. Serve(r, db, aux, next, Yield(job[r.t], s[2], r.with[s].val))
      BY <1>1, <1>7
    <2>4. next = IF DOMAIN rest = {} THEN {} ELSE {Command(r.t, r.of, "pull", {}, rest)}
      OBVIOUS
    <2>5. rest = Without(r.with, s)
      OBVIOUS
    <2> HIDE DEF s, rest, next, f
    <2>7. Rests(r, next, adapter, s)
      BY <1>2, <1>4, <2>4, <2>5, RestMade
    <2> QED BY <1>2, <1>3, <1>4, <1>5, <1>7, <2>1, <2>7, YieldedKeeps
  <1> QED BY <1>6, <1>7

LEMMA EtcdAllKeeps == ASSUME CallsInv, EtcdAll PROVE Kept
  <1>1. PICK r \in Et("all") :
           LET rows == [s \in {s \in In(r.of.ns) : db[s] # None} |-> db[s]]
           IN  Serve(r, db, aux, IF DOMAIN rows = {} THEN {} ELSE {Command(r.t, r.of, "pull", {}, rows)}, job[r.t])
    BY Zenon DEF EtcdAll
  <1> DEFINE rows == [s \in {s \in In(r.of.ns) : db[s] # None} |-> db[s]]
             f == Command(r.t, r.of, "pull", {}, rows)
             F == IF DOMAIN rows = {} THEN {} ELSE {f}
  <1>2. r \in flight /\ r.do = "all" /\ adapter = "etcd"
    BY ServedIn DEF Et
  <1>3. DOMAIN rows \subseteq In(r.of.ns) /\ \A s \in In(r.of.ns) : IF s \in DOMAIN rows THEN rows[s] = db[s] /\ db[s] # None ELSE db[s] = None
    OBVIOUS
  <1>4. r.of.op = "iterator" /\ r.c = r.of.c /\ r.of = Of(r.of) /\ Covers(r, adapter) = In(r.of.ns)
    <2>1. r.of.op = "iterator" /\ r.c = r.of.c /\ r.of = Of(r.of)
      BY <1>2, FlightIs, NotLate DEF Fits
    <2>2. Light(r.do, adapter, r.of.op)
      BY <1>2 DEF Light
    <2> QED BY <1>2, <2>1, <2>2, LightCovers
  <1>5. f.t = r.t /\ f.of = r.of /\ f.c = r.c /\ f.do = "pull" /\ IsCommand(f) /\ f.at = {} /\ f.with = rows
    BY <1>4, CommandIs
  <1>6. Serve(r, db, aux, F, job[r.t])
    BY <1>1
  <1>7. In(r.of.ns) \subseteq Slots /\ db \in [Slots -> Rows]
    BY DEF In, CallsInv, Types
  <1> HIDE DEF f, rows
  <1>8. Hand(f, adapter) = rows /\ Ahead(f, adapter) = {} /\ JudgeAt(f, adapter, aux) = r.of.at
    BY <1>2, <1>5 DEF Hand, Ahead, JudgeAt
  <1>9. Covers(f, adapter) = DOMAIN rows
    <2>1. Covers(f, adapter) = Settling(f, adapter) /\ ~Chunked(f, adapter)
      BY <1>5, CoversOf DEF Chunked
    <2> QED BY <1>5, <1>8, <2>1 DEF Settling
  <1>10. CASE DOMAIN rows = {}
    <2>1. Serve(r, db, aux, {}, job[r.t])
      BY <1>6, <1>10
    <2> QED BY <1>2, <1>3, <1>4, <1>10, <2>1, EmptyKeeps
  <1>11. CASE DOMAIN rows # {}
    <2>1. Serve(r, db, aux, F, job[r.t]) /\ F = {f}
      BY <1>6, <1>11
    <2> HIDE DEF F
    <2>2. PullOK(f, adapter, now)
      BY <1>2, <1>3, <1>5, <1>7, <1>8, <1>11 DEF PullOK
    <2>3. JudgeAt(f, adapter, aux) \in Nat /\ r.of.at <= JudgeAt(f, adapter, aux) /\ JudgeAt(f, adapter, aux) <= now
      BY <1>2, <1>8, Clocks
    <2>4. \A s \in DOMAIN Hand(f, adapter) : Hand(f, adapter)[s] = db[s]
      BY <1>3, <1>8
    <2>5. Covers(f, adapter) \subseteq Covers(r, adapter)
      BY <1>3, <1>4, <1>9
    <2>6. \A s \in In(r.of.ns) : s \in Covers(r, adapter) => s \in Covers(f, adapter) \/ db[s] = None \/ ~Whole
      BY <1>3, <1>9
    <2> QED BY <1>2, <1>4, <1>5, <2>1, <2>2, <2>3, <2>4, <2>5, <2>6, ScanKeeps
  <1> QED BY <1>10, <1>11

\* What becomes of the leases when they are revoked.
LEMMA RevokedKept ==
    ASSUME CallsInv, adapter = "etcd"
    PROVE  Keeps([aux EXCEPT !.open = FALSE, !.shared = None, !.leases = [b \in DOMAIN @ |-> None]])
  <1> DEFINE a == [aux EXCEPT !.open = FALSE, !.shared = None, !.leases = [b \in DOMAIN @ |-> None]]
  <1>1. AuxOK(aux, adapter, now) /\ LeasesOK(aux, now)
    BY DEF CallsInv, Types, AuxOK
  <1>2. /\ DOMAIN a = DOMAIN aux /\ a = [f \in DOMAIN a |-> a[f]] /\ a.boot = aux.boot /\ a.since = aux.since
        /\ a.shared = None /\ a.leases = [b \in DOMAIN aux.leases |-> None]
    BY <1>1 DEF AuxOK
  <1> HIDE DEF a
  <1>3. DOMAIN a.leases = DOMAIN aux.leases /\ (\A b \in DOMAIN a.leases : a.leases[b] = None) /\ DOMAIN aux.leases = {Bucket(l) : l \in Lives["etcd"] \ {None}}
    BY <1>1, <1>2 DEF LeasesOK
  <1>4. a.leases = [b \in DOMAIN a.leases |-> a.leases[b]]
    BY <1>2
  <1>5. a.leases = [b \in {Bucket(l) : l \in Lives["etcd"] \ {None}} |-> a.leases[b]]
    BY <1>3, <1>4
  <1>6. LeasesOK(a, now)
    BY <1>2, <1>3, <1>5 DEF LeasesOK, IsLease
  <1> QED BY <1>1, <1>2, <1>6 DEF Keeps, AuxOK, a

LEMMA EtcdRevokedKeeps == ASSUME CallsInv, EtcdRevoked PROVE Kept
  <1> DEFINE a == [aux EXCEPT !.open = FALSE, !.shared = None, !.leases = [b \in DOMAIN @ |-> None]]
  <1>1. PICK r \in Sent("etcd", "revoke") :
           \E L \in SUBSET (({aux.shared} \cup {aux.leases[b] : b \in DOMAIN aux.leases}) \ {None}) :
              Serve(r, IF aux.open THEN Drop(db, {s \in Slots : aux.on[s] \in L}) ELSE db, a, {}, job[r.t])
    BY Zenon DEF EtcdRevoked
  <1>2. PICK L : Serve(r, IF aux.open THEN Drop(db, {s \in Slots : aux.on[s] \in L}) ELSE db, a, {}, job[r.t])
    BY <1>1
  <1> DEFINE S == {s \in Slots : aux.on[s] \in L}
             d == IF aux.open THEN Drop(db, S) ELSE db
  <1>3. r \in flight /\ r.do = "revoke" /\ adapter = "etcd"
    BY ServedIn
  <1>4. Keeps(a)
    BY <1>3, RevokedKept
  <1>5. Leaves(r, d)
    <2> HIDE DEF S
    <2>1. Leaves(r, Drop(db, S))
      BY <1>3, LeavesDrop DEF Lawful
    <2> QED BY <1>3, <2>1, LeavesSame
  <1>6. Covers(r, adapter) = {} /\ Taken(r, d) = {}
    <2>1. Light(r.do, adapter, r.of.op) /\ r.of.op = "disconnect"
      BY <1>3, FlightIs DEF Light, Fits
    <2> QED BY <1>3, <2>1, LightCovers, TakenSame DEF WriteOps
  <1> HIDE DEF a, d
  <1>7. Serve(r, d, a, {}, job[r.t])
    BY <1>2 DEF d, a
  <1> QED BY <1>3, <1>4, <1>5, <1>6, <1>7, QuietKeeps

LEMMA AttachedKept ==
    ASSUME CallsInv, adapter = "etcd", NEW r PROVE Keeps(Attached(r))
  <1> DEFINE x == [s \in Slots |-> IF s \in SlotsAt(r.of, r.at) THEN r.with ELSE aux.on[s]]
             a == [aux EXCEPT !.on = x]
  <1>1. AuxOK(aux, adapter, now) /\ LeasesOK(aux, now)
    BY DEF CallsInv, Types, AuxOK
  <1>2. Attached(r) = a
    BY DEF Attached
  <1> HIDE DEF x
  <1>3. /\ DOMAIN a = DOMAIN aux /\ a = [f \in DOMAIN a |-> a[f]] /\ a.boot = aux.boot /\ a.since = aux.since
        /\ a.shared = aux.shared /\ a.leases = aux.leases
    BY <1>1 DEF AuxOK
  <1> HIDE DEF a
  <1>4. LeasesOK(a, now)
    BY <1>1, <1>3 DEF LeasesOK
  <1>5. Keeps(a)
    BY <1>1, <1>3, <1>4 DEF Keeps, AuxOK
  <1> QED BY <1>2, <1>5

\* When the entry goes: at the end of the lease, or of its own time.
LEMMA LeaseEnds ==
    ASSUME NEW at \in Nat, NEW live \in Int, NEW made \in 0..at, 2 * (at - made) < Bucket(live), adapter = "etcd"
    PROVE  LET e == Min({at + live + 1, made + Bucket(live)})
           IN  e \in Int /\ e >= at + live - Slack(live) /\ e <= at + live + 1
  <1> DEFINE b == Bucket(live)
             h == b \div 2
             e == Min({at + live + 1, made + b})
  <1>1. b \in Nat /\ b >= live
    BY BucketIs
  <1>2. Slack(live) = h
    BY Zenon DEF Slack
  <1> HIDE DEF b
  <1>3. h \in Nat /\ 2 * h >= b - 1
    BY <1>1
  <1>4. 2 * (at - made) < b
    BY DEF b
  <1>5. e = IF at + live + 1 < made + b THEN at + live + 1 ELSE made + b
    BY <1>1, MinOf
  <1> HIDE DEF e, h
  <1>6. e \in Int /\ e >= at + live - h /\ e <= at + live + 1
    BY <1>1, <1>3, <1>4, <1>5
  <1> QED BY <1>2, <1>6 DEF e, b

LEMMA EtcdPutKeeps == ASSUME CallsInv, EtcdPut PROVE Kept
  <1>1. PICK r \in Et("put") : Serve(r, Leased(r), Attached(r), {}, True(job[r.t], r.at))
    BY Zenon DEF EtcdPut
  <1>2. r \in flight /\ r.do = "put" /\ adapter = "etcd"
    BY ServedIn DEF Et
  <1> DEFINE own  == IF r.of.live = None THEN {} ELSE {r.of.at + r.of.live + 1}
             ends == own \cup IF r.with = None THEN {} ELSE {r.with.made + r.with.for}
             e    == IF ends = {} THEN None ELSE Min(ends)
  <1>3. IsLease(r.with) /\ (r.of.live # None => /\ r.with # None /\ r.with.made \in 0..r.of.at /\ r.with.for = Bucket(r.of.live)
                                                 /\ 2 * (r.of.at - r.with.made) < r.with.for)
    BY <1>2, FlightIs DEF ShapeOK
  <1>4. /\ r.of.at \in Nat /\ (r.of.live # None => r.of.live \in Int) /\ Made(r) \in Nat /\ r.of.at <= Made(r)
    BY <1>2, Clocks
  <1>5. e \in Int \cup {None} /\ (r.of.live # None => e >= r.of.at + r.of.live - Slack(r.of.live) /\ e <= Made(r) + r.of.live + 1)
    <2>1. CASE r.of.live # None
      <3>1. ends = {r.of.at + r.of.live + 1, r.with.made + Bucket(r.of.live)}
        BY <1>3, <2>1
      <3> HIDE DEF ends
      <3>2. e = Min({r.of.at + r.of.live + 1, r.with.made + Bucket(r.of.live)})
        BY <3>1
      <3>3. LET x == Min({r.of.at + r.of.live + 1, r.with.made + Bucket(r.of.live)})
            IN  x \in Int /\ x >= r.of.at + r.of.live - Slack(r.of.live) /\ x <= r.of.at + r.of.live + 1
        BY <1>2, <1>3, <1>4, <2>1, LeaseEnds
      <3> HIDE DEF e
      <3> QED BY <1>4, <2>1, <3>2, <3>3
    <2>2. CASE r.of.live = None /\ r.with = None
      BY <2>2
    <2>3. CASE r.of.live = None /\ r.with # None
      <3>1. ends = {r.with.made + r.with.for} /\ r.with.made + r.with.for \in Int
        BY <1>3, <2>3 DEF IsLease
      <3> HIDE DEF ends
      <3>2. e = r.with.made + r.with.for
        BY <3>1, MinOne
      <3> QED BY <2>3, <3>1, <3>2
    <2> QED BY <2>1, <2>2, <2>3
  <1>6. Serve(r, Write(db, r.of, r.at, e), Attached(r), {}, True(job[r.t], r.at))
    BY <1>1 DEF Leased
  <1>7. Keeps(Attached(r))
    BY <1>2, AttachedKept
  <1> HIDE DEF e
  <1> QED BY <1>2, <1>5, <1>6, <1>7, PutKeeps

LEMMA EtcdFailedKeeps == ASSUME CallsInv, EtcdFailed PROVE Kept
  <1>1. ASSUME NEW r \in flight, adapter = "etcd", r.do = "put", Serve(r, db, aux, {}, EtcdGoesOn(job[r.t], r))
        PROVE  Kept
    <2>1. Leaves(r, db) /\ ~Chunked(r, adapter)
      BY <1>1, LeavesSame DEF Chunked
    <2>2. EtcdGoesOn(job[r.t], r) = Unsure(IF job[r.t].op = "setMany" THEN True(job[r.t], r.at) ELSE job[r.t], r.at)
      BY <1>1, Zenon DEF EtcdGoesOn
    <2>3. CASE job[r.t].op # "setMany"
      <3>1. EtcdGoesOn(job[r.t], r) = Unsure(job[r.t], r.at)
        BY <2>2, <2>3
      <3> QED BY <1>1, <2>1, <3>1, NoneSent, UnsureKeeps
    <2>4. CASE job[r.t].op = "setMany"
      <3> DEFINE jt == job[r.t]
                 R == [i \in DOMAIN jt.res |-> IF i \in r.at THEN TRUE ELSE jt.res[i]]
                 h == [jt EXCEPT !.res = R]
                 j == Unsure(h, r.at)
      <3>1. True(jt, r.at) = h
        BY DEF True, Answered
      <3>2. EtcdGoesOn(jt, r) = j
        BY <2>2, <2>4, <3>1
      <3>3. ASSUME Live(r) PROVE Moves(r, db, {}, j)
        <4>1. Onward(jt, jt) /\ DOMAIN jt.res = All(jt) /\ r.of.op = "setMany" /\ All(jt) = All(r.of)
          BY <1>1, <2>4, <3>3, StaysOnward, LiveCall DEF CallOK
        <4>2. DOMAIN R = All(jt) /\ \A i \in All(jt) : R[i] = IF i \in r.at THEN TRUE ELSE jt.res[i]
          BY <4>1
        <4> HIDE DEF R
        <4>3. Onward(jt, h) /\ h.res = R /\ h.unsure = jt.unsure
          BY <4>1, <4>2, AnsweredOnward
        <4> HIDE DEF h
        <4>4. Onward(jt, j) /\ j.res = R /\ j.unsure = jt.unsure \cup r.at
          BY <4>3, UnsureOnward
        <4> HIDE DEF j
        <4>5. r.of.op \in KeyOps /\ r.of.op \in WriteOps /\ ~Tells(r.of, adapter)
          BY <1>1, <4>1 DEF KeyOps, WriteOps, Tells
        <4>6. Covers(r, adapter) = r.at /\ Taken(r, db) \subseteq r.at
          <5>1. Settling(r, adapter) = r.at
            BY <1>1, <2>1 DEF Settling
          <5>2. Covers(r, adapter) = Settling(r, adapter)
            BY <1>1, CoversOf
          <5> QED BY <5>1, <5>2 DEF Taken
        <4>7. ASSUME NEW i \in All(r.of)
              PROVE  \/ Settled(After(r, db, j), i, Sights(r, db, j), adapter, now)
                     \/ j.res[i] = jt.res[i] /\ i \notin Taken(r, db) /\ i \notin Covers(r, adapter)
          <5>1. CASE i \in r.at
            BY <1>1, <3>3, <4>4, <4>5, <5>1, Excuses
          <5>2. CASE i \notin r.at
            BY <4>1, <4>2, <4>4, <4>6, <5>2
          <5> QED BY <5>1, <5>2
        <4> HIDE DEF jt
        <4>8. r.do # "write" /\ Sends(r, {})
          BY <1>1, NoneSent
        <4> QED BY <1>1, <3>3, <4>4, <4>5, <4>7, <4>8, KeyMoves DEF jt
      <3>4. Serve(r, db, aux, {}, j)
        BY <1>1, <3>2
      <3> HIDE DEF j
      <3> QED BY <1>1, <2>1, <3>3, <3>4, KeepsSame, NoneSent, ServeKeeps
    <2> QED BY <2>3, <2>4
  <1>2. ASSUME NEW do \in {"read", "sweep", "delete", "clear", "all", "drop"}, NEW r \in Failing("etcd", do),
               NEW d \in Outcomes(r, EtcdWould(r)),
               Serve(r, d, aux, IF r.do = "drop" THEN r.with[2] ELSE {}, EtcdGoesOn(job[r.t], r))
        PROVE  Kept
    <2>1. r \in flight /\ r.do = do /\ adapter = "etcd"
      BY <1>2, ServedIn
    <2>2. d = db \/ d = EtcdWould(r)
      BY <1>2, OutcomesAre
    <2>3. CASE do = "read"
      <3>1. EtcdWould(r) = db /\ EtcdGoesOn(job[r.t], r) = Unsure(job[r.t], r.at)
        BY <2>1, <2>3, Zenon DEF EtcdWould, EtcdGoesOn
      <3>2. d = db /\ Serve(r, db, aux, {}, Unsure(job[r.t], r.at))
        BY <1>2, <2>1, <2>2, <2>3, <3>1
      <3>3. ~Chunked(r, adapter)
        BY <2>1 DEF Chunked
      <3> QED BY <2>1, <2>3, <3>2, <3>3, LeavesSame, NoneSent, UnsureKeeps
    <2>4. CASE do = "delete"
      <3>1. EtcdWould(r) = Drop(db, SlotsAt(r.of, r.at)) /\ EtcdGoesOn(job[r.t], r) = Unsure(job[r.t], r.at)
        BY <2>1, <2>4, Zenon DEF EtcdWould, EtcdGoesOn
      <3>2. Serve(r, d, aux, {}, Unsure(job[r.t], r.at))
        BY <1>2, <2>1, <2>4, <3>1
      <3>3. ~Chunked(r, adapter)
        BY <2>1 DEF Chunked
      <3>4. Leaves(r, d)
        BY <2>1, <2>2, <2>4, <3>1, LeavesSame, DeleteLeaves
      <3> QED BY <2>1, <2>4, <3>2, <3>3, <3>4, NoneSent, UnsureKeeps
    <2>5. CASE do = "sweep"
      <3>1. EtcdWould(r) = Drop(db, SlotsAt(r.of, r.at)) /\ EtcdGoesOn(job[r.t], r) = job[r.t]
        BY <2>1, <2>5, Zenon DEF EtcdWould, EtcdGoesOn
      <3>2. Serve(r, d, aux, {}, job[r.t])
        BY <1>2, <2>1, <2>5, <3>1
      <3> QED BY <2>1, <2>2, <2>5, <3>1, <3>2, KeySweptKeeps
    <2>6. CASE do = "drop"
      <3>1. EtcdWould(r) = Drop(db, {r.with[1]}) /\ EtcdGoesOn(job[r.t], r) = job[r.t]
        BY <2>1, <2>6, Zenon DEF EtcdWould, EtcdGoesOn
      <3>2. Parked(r, adapter) = r.with[2]
        BY <2>1, <2>6 DEF Parked
      <3>3. Serve(r, d, aux, Parked(r, adapter), job[r.t])
        BY <1>2, <2>1, <2>6, <3>1, <3>2
      <3> DEFINE S == {r.with[1]}
      <3>4. S \cap Slots \subseteq {r.with[1]} /\ (d = db \/ d = Drop(db, S))
        BY <2>2, <3>1
      <3> HIDE DEF S
      <3> QED BY <2>1, <2>6, <3>3, <3>4, DroppedKeeps
    <2>7. CASE do \in {"clear", "all"}
      <3>1. EtcdGoesOn(job[r.t], r) = Failed(job[r.t])
        BY <2>1, <2>7, Zenon DEF EtcdGoesOn
      <3>2. Serve(r, d, aux, {}, Failed(job[r.t]))
        BY <1>2, <2>1, <2>7, <3>1
      <3>3. r.of.op \in {"clear", "iterator"} /\ r.of.op \notin WriteOps
        BY <2>1, <2>7, FlightIs DEF Fits, WriteOps
      <3>4. Leaves(r, d)
        <4>1. CASE do = "all"
          <5>1. EtcdWould(r) = db
            BY <2>1, <4>1, Zenon DEF EtcdWould
          <5> QED BY <2>1, <2>2, <5>1, LeavesSame
        <4>2. CASE do = "clear"
          <5>1. EtcdWould(r) = Drop(db, In(r.of.ns))
            BY <2>1, <4>2, Zenon DEF EtcdWould
          <5> QED BY <2>1, <2>2, <4>2, <5>1, LeavesSame, ClearLeaves
        <4> QED BY <2>7, <4>1, <4>2
      <3> QED BY <2>1, <3>2, <3>3, <3>4, FailedKeeps
    <2> QED BY <1>2, <2>3, <2>4, <2>5, <2>6, <2>7
  <1>3. CASE \E r \in Failing("etcd", "put") \cup {r \in Et("put") : r.with # None => Gone(r.with)} :
               Serve(r, db, aux, {}, EtcdGoesOn(job[r.t], r))
    <2>1. PICK r \in Failing("etcd", "put") \cup {r \in Et("put") : r.with # None => Gone(r.with)} :
               Serve(r, db, aux, {}, EtcdGoesOn(job[r.t], r))
      BY <1>3
    <2>2. r \in flight /\ r.do = "put" /\ adapter = "etcd"
      BY ServedIn DEF Et
    <2> QED BY <1>1, <2>1, <2>2
  <1>4. CASE \E r \in UNION {Failing("etcd", do) : do \in {"read", "sweep", "delete", "clear", "all", "drop"}} :
                \E d \in Outcomes(r, EtcdWould(r)) :
                   Serve(r, d, aux, IF r.do = "drop" THEN r.with[2] ELSE {}, EtcdGoesOn(job[r.t], r))
    <2>1. PICK r \in UNION {Failing("etcd", do) : do \in {"read", "sweep", "delete", "clear", "all", "drop"}} :
                \E d \in Outcomes(r, EtcdWould(r)) :
                   Serve(r, d, aux, IF r.do = "drop" THEN r.with[2] ELSE {}, EtcdGoesOn(job[r.t], r))
      BY <1>4
    <2>2. PICK do \in {"read", "sweep", "delete", "clear", "all", "drop"} : r \in Failing("etcd", do)
      BY <2>1
    <2>3. PICK d \in Outcomes(r, EtcdWould(r)) :
                   Serve(r, d, aux, IF r.do = "drop" THEN r.with[2] ELSE {}, EtcdGoesOn(job[r.t], r))
      BY <2>1
    <2> QED BY <1>2, <2>2, <2>3
  <1> QED BY <1>3, <1>4, Zenon DEF EtcdFailed

LEMMA EtcdKeeps == ASSUME CallsInv, EtcdNext PROVE Kept
  <1>1. ASSUME adapter = "etcd", NEW t \in Tasks, NewCall(t, EtcdCall) PROVE Kept
    BY <1>1, EtcdEnters
  <1>2. CASE EtcdRead
    <2>1. PICK r \in Et("read") :
             Serve(r, db, aux, IF Old(r.of, r.at, now) = {} THEN {} ELSE {Command(r.t, r.of, "sweep", r.at, {})},
                   Judged(job[r.t], r.at, now))
      BY <1>2, Zenon DEF EtcdRead
    <2>2. r \in flight /\ r.do = "read" /\ adapter = "etcd"
      BY ServedIn DEF Et
    <2> QED BY <2>1, <2>2, KeyReadKeeps
  <1>3. CASE EtcdSwept
    <2>1. PICK r \in Et("sweep") : Serve(r, Drop(db, SlotsAt(r.of, r.at)), aux, {}, job[r.t])
      BY <1>3, Zenon DEF EtcdSwept
    <2>2. r \in flight /\ r.do = "sweep" /\ adapter = "etcd"
      BY ServedIn DEF Et
    <2> QED BY <2>1, <2>2, KeySweptKeeps
  <1>4. CASE EtcdDeleted
    <2>1. PICK r \in Et("delete") : Serve(r, Drop(db, SlotsAt(r.of, r.at)), aux, {}, Existed(job[r.t], r.at))
      BY <1>4, Zenon DEF EtcdDeleted
    <2>2. r \in flight /\ r.do = "delete" /\ ~Chunked(r, adapter)
      BY ServedIn DEF Et, Chunked
    <2> QED BY <2>1, <2>2, DeletedKeeps
  <1>5. CASE EtcdCleared
    <2>1. PICK r \in Et("clear") : Serve(r, Drop(db, In(r.of.ns)), aux, {}, job[r.t])
      BY <1>5, Zenon DEF EtcdCleared
    <2>2. r \in flight /\ r.do = "clear" /\ adapter = "etcd"
      BY ServedIn DEF Et
    <2>3. In(r.of.ns) \cap Slots \subseteq In(r.of.ns)
      OBVIOUS
    <2> QED BY <2>1, <2>2, <2>3, ClearedKeeps
  <1>6. CASE EtcdDropped
    <2>1. PICK r \in Et("drop") : Serve(r, Drop(db, {r.with[1]}), aux, r.with[2], job[r.t])
      BY <1>6, Zenon DEF EtcdDropped
    <2>2. r \in flight /\ r.do = "drop" /\ adapter = "etcd"
      BY ServedIn DEF Et
    <2>3. Parked(r, adapter) = r.with[2]
      BY <2>2 DEF Parked
    <2> DEFINE S == {r.with[1]}
               d == Drop(db, S)
    <2>4. S \cap Slots \subseteq {r.with[1]} /\ d = Drop(db, S) /\ Serve(r, d, aux, Parked(r, adapter), job[r.t])
      BY <2>1, <2>3
    <2> HIDE DEF S, d
    <2> QED BY <2>2, <2>4, DroppedKeeps
  <1> QED BY <1>1, <1>2, <1>3, <1>4, <1>5, <1>6, EtcdPutKeeps, EtcdAllKeeps, EtcdPulledKeeps, EtcdRevokedKeeps, EtcdFailedKeeps
          DEF EtcdNext

---------------------------------------------------------------------------
(* StorelyRocksDB *)

\* The constructor's promise is fulfilled, or not.
LEMMA BootKeeps ==
    ASSUME CallsInv, adapter \in {"mongo", "rocksdb"}, aux.boot = "pending", NEW b,
           Happen(db, [aux EXCEPT !.boot = b, !.since = now])
    PROVE  Kept
  <1> DEFINE a == [aux EXCEPT !.boot = b, !.since = now]
  <1>1. AuxOK(aux, adapter, now) /\ now \in Nat
    BY Numbers DEF CallsInv, Types
  <1>2. DOMAIN a = DOMAIN aux /\ a = [f \in DOMAIN a |-> a[f]] /\ a.since = now
    BY <1>1 DEF AuxOK
  <1> HIDE DEF a
  <1>3. AuxOK(a, adapter, now)
    BY <1>1, <1>2 DEF AuxOK
  <1>4. Happen(db, a)
    BY DEF a
  <1> DEFINE S == {}
  <1>5. \A s \in S \cap Slots : Expired(db[s], now)
    OBVIOUS
  <1> HIDE DEF S
  <1> QED BY <1>3, <1>4, <1>5, HappenKeeps

LEMMA RocksdbCallKeeps ==
    ASSUME CallsInv, adapter = "rocksdb", NEW t \in Tasks, NEW j, New(j, t), RocksdbCall(t, j)
    PROVE  Kept
  <1>1. ASSUME NEW do \in {"read", "put", "existing"}, Fits(do, j.op), Enter(t, j, OneRead(t, j, do)) PROVE Kept
    <2>1. Light(do, adapter, j.op)
      BY DEF Light
    <2>2. Enter(t, j, {Command(t, j, do, All(j), {})}) \/ (All(j) = {} /\ Enter(t, j, {}))
      BY <1>1 DEF OneRead
    <2> QED BY <1>1, <2>1, <2>2, AllKeeps
  <1>2. CASE j.op \in ReadOps \cup HasOps /\ Enter(t, j, OneRead(t, j, "read"))
    <2>1. Fits("read", j.op)
      BY <1>2 DEF Fits
    <2> QED BY <1>1, <1>2, <2>1
  <1>3. CASE j.op \in WriteOps /\ Enter(t, j, OneRead(t, j, "put"))
    <2>1. Fits("put", j.op)
      BY <1>3 DEF Fits
    <2> QED BY <1>1, <1>3, <2>1
  <1>4. CASE j.op \in DeleteOps /\ Enter(t, j, OneRead(t, j, "existing"))
    <2>1. Fits("existing", j.op)
      BY <1>4 DEF Fits
    <2> QED BY <1>1, <1>4, <2>1
  <1>5. CASE RocksdbClear(t, j)
    <2>1. j.op = "clear" /\ Enter(t, j, {Command(t, j, "clear", {}, {})})
      BY <1>5 DEF RocksdbClear
    <2>2. Fits("clear", j.op) /\ Light("clear", adapter, j.op)
      BY <2>1 DEF Fits, Light
    <2> QED BY <2>1, <2>2, WalkEnters
  <1>6. CASE RocksdbIterator(t, j)
    <2>1. j.op = "iterator" /\ Enter(t, j, {Command(t, j, "snapshot", {}, {})})
      BY <1>6 DEF RocksdbIterator
    <2>2. Fits("snapshot", j.op) /\ Light("snapshot", adapter, j.op)
      BY <2>1 DEF Fits, Light
    <2> QED BY <2>1, <2>2, WalkEnters
  <1>7. CASE RocksdbClearExpired(t, j)
    <2>1. j.op = "clearExpired" /\ Enter(t, j, {Command(t, j, "collect", {}, {})})
      BY <1>7 DEF RocksdbClearExpired
    <2>2. Fits("collect", j.op) /\ Light("collect", adapter, j.op)
      BY <2>1 DEF Fits, Light
    <2> QED BY <2>1, <2>2, WalkEnters
  <1>8. CASE RocksdbDisconnect(t, j)
    <2> DEFINE a == [aux EXCEPT !.open = FALSE]
    <2>1. j.op = "disconnect" /\ EnterWith(t, j, {}, a)
      BY <1>8 DEF RocksdbDisconnect
    <2>2. Items(j) = {}
      BY <2>1, NewIs DEF KeyOps, ReadOps, HasOps, WriteOps, DeleteOps
    <2>3. Keeps(a)
      BY ClosedKept
    <2> HIDE DEF a
    <2> QED BY <2>1, <2>2, <2>3, NoneKeeps
  <1> QED
    BY <1>2, <1>3, <1>4, <1>5, <1>6, <1>7, <1>8
    DEF RocksdbCall, RocksdbGet, RocksdbGetMany, RocksdbHas, RocksdbHasMany, RocksdbSet, RocksdbSetMany, RocksdbDelete,
        RocksdbDeleteMany, ReadOps, HasOps, WriteOps, DeleteOps

LEMMA RocksdbOps == ASSUME NEW t, NEW j, RocksdbCall(t, j) PROVE j.op \in KeyOps \cup WalkOps
  BY DEF RocksdbCall, RocksdbGet, RocksdbGetMany, RocksdbHas, RocksdbHasMany, RocksdbSet, RocksdbSetMany, RocksdbDelete,
         RocksdbDeleteMany, RocksdbClear, RocksdbIterator, RocksdbClearExpired, RocksdbDisconnect, KeyOps, ReadOps, HasOps,
         WriteOps, DeleteOps, WalkOps

LEMMA RocksdbEnters ==
    ASSUME CallsInv, adapter = "rocksdb", NEW t \in Tasks, NewCall(t, RocksdbCall)
    PROVE  Kept
  <1>1. PICK op \in Ops[t], ns \in Namespaces, ks \in Batches :
           /\ (op \in SingleOps <=> Len(ks) = 1) /\ (op \notin KeyOps => ks = <<>>)
           /\ \E live \in IF op \in WriteOps THEN Lives[adapter] ELSE {None} : RocksdbCall(t, NewJob(op, ns, ks, live))
    BY Zenon DEF NewCall
  <1>2. PICK live \in IF op \in WriteOps THEN Lives[adapter] ELSE {None} : RocksdbCall(t, NewJob(op, ns, ks, live))
    BY <1>1
  <1> DEFINE j == NewJob(op, ns, ks, live)
  <1>3. New(j, t)
    BY <1>1, <1>2, RocksdbOps, NewMade
  <1> HIDE DEF j
  <1> QED BY <1>2, <1>3, RocksdbCallKeeps DEF j

\* What is left of a deletion once its keys are gone, or others wait for the next chunk.
LEMMA GoneMoves ==
    ASSUME CallsInv, NEW r \in flight, Live(r), r.of.op \in DeleteOps, NEW d, NEW F, Sends(r, F),
           \A f \in F : f.do # "write" /\ Carries(f, Sights(r, d, job[r.t]), adapter, aux, d),
           \A i \in All(r.of) : i \in Covers(r, adapter) =>
               d[Slot(r.of, i)] = None \/ \E f \in NextOf(r, F) : i \in Covers(f, adapter)
    PROVE  Moves(r, d, F, job[r.t])
  <1> DEFINE j == job[r.t]
             H == Sights(r, d, j)
  <1>1. Onward(j, j)
    BY StaysOnward
  <1>2. r.of.op \in KeyOps /\ r.of.op \notin WriteOps /\ Taken(r, d) = {} /\ r.do # "write"
    <2>1. r.of.op \in KeyOps /\ r.of.op \notin WriteOps
      BY OpsApart DEF KeyOps
    <2>2. r.do # "write"
      BY <2>1, FlightIs DEF Fits
    <2> QED BY <2>1, <2>2, TakenSame
  <1>3. ASSUME NEW i \in All(r.of)
        PROVE  \/ Settled(After(r, d, j), i, H, adapter, now)
               \/ /\ j.res[i] = j.res[i] /\ i \notin Taken(r, d)
                  /\ i \in Covers(r, adapter) => \E f \in NextOf(r, F) : i \in Covers(f, adapter)
    <2> SUFFICES ASSUME i \in Covers(r, adapter), d[Slot(r.of, i)] = None
                 PROVE  Settled(After(r, d, j), i, H, adapter, now)
      BY <1>2
    <2>1. /\ Items(j) = All(r.of) /\ Waits(j, Mine(flight, r.t, r.c), adapter, seen[r.t], now)
          /\ j.op = r.of.op /\ \A m : Slot(j, m) = Slot(r.of, m)
      <3>1. Items(r.of) = All(r.of)
        BY DEF Items, DeleteOps
      <3> QED BY <3>1, LiveCall
    <2>2. CASE Settled(j, i, seen[r.t], adapter, now)
      BY <1>1, <1>2, <2>1, <2>2, StaysSettled
    <2>3. CASE Open(j, i, seen[r.t], adapter)
      <3>1. /\ seen[r.t][Slot(r.of, i)] \subseteq H[Slot(r.of, i)]
            /\ Looks(d[Slot(r.of, i)], r.of.at, now) \subseteq H[Slot(r.of, i)]
        BY <1>1, <1>2, KeySights
      <3>2. None \in H[Slot(r.of, i)]
        BY <3>1 DEF Looks, Visible
      <3>3. j.res[i] \in BOOLEAN /\ (j.res[i] => \E x \in seen[r.t][Slot(r.of, i)] : x # None)
        BY <2>1, <2>3 DEF Open
      <3> HIDE DEF H, j
      <3> QED BY <1>1, <3>1, <3>2, <3>3, DeleteSettled DEF H, j
    <2> QED BY <2>1, <2>2, <2>3 DEF Waits
  <1> HIDE DEF H
  <1>4. \A i \in All(r.of) :
           \/ Settled(After(r, d, job[r.t]), i, Sights(r, d, job[r.t]), adapter, now)
           \/ /\ \E f \in NextOf(r, F) : i \in Covers(f, adapter)
              /\ Open(After(r, d, job[r.t]), i, Sights(r, d, job[r.t]), adapter)
           \/ /\ job[r.t].res[i] = job[r.t].res[i] /\ i \notin Taken(r, d)
              /\ i \in Covers(r, adapter) => \E f \in NextOf(r, F) : i \in Covers(f, adapter)
    BY <1>3 DEF H
  <1> QED BY <1>1, <1>2, <1>4, KeyMoves

\* What is there is found, and is to be deleted: it is answered now.
LEMMA ExistingMoves ==
    ASSUME CallsInv, NEW r \in flight, Live(r), r.do = "existing", NEW j, j = Existed(job[r.t], r.at),
           NEW F, Sends(r, F), \A f \in F : f.do # "write" /\ \A H, x, d : Carries(f, H, adapter, x, d),
           \A i \in All(r.of) : i \in Covers(r, adapter) =>
               \/ i \in r.at /\ db[Slot(r.of, i)] = None
               \/ \E f \in NextOf(r, F) : i \in Covers(f, adapter),
           r.at \subseteq Covers(r, adapter)
    PROVE  Moves(r, db, F, j)
  <1> DEFINE jt == job[r.t]
             R == [i \in DOMAIN jt.res |-> IF i \in r.at THEN db[Slot(jt, i)] # None ELSE jt.res[i]]
             H == Sights(r, db, j)
  <1>1. Onward(jt, jt) /\ DOMAIN jt.res = All(jt) /\ All(jt) = All(r.of) /\ (\A i : Slot(jt, i) = Slot(r.of, i))
    BY StaysOnward, LiveCall DEF CallOK
  <1>2. j = [jt EXCEPT !.res = R]
    BY DEF Existed, Answered
  <1>3. DOMAIN R = All(jt) /\ \A i \in All(r.of) : R[i] = IF i \in r.at THEN db[Slot(r.of, i)] # None ELSE jt.res[i]
    BY <1>1
  <1> HIDE DEF R
  <1>4. Onward(jt, j) /\ j.res = R
    BY <1>1, <1>2, <1>3, AnsweredOnward
  <1>5. r.of.op \in DeleteOps /\ r.of.op \in KeyOps /\ r.of.op \notin WriteOps /\ Taken(r, db) = {}
    <2>1. r.of.op \in DeleteOps
      BY FlightIs DEF Fits
    <2>2. r.of.op \in KeyOps /\ r.of.op \notin WriteOps
      BY <2>1, OpsApart DEF KeyOps
    <2> QED BY <2>1, <2>2, TakenSame
  <1>6. ASSUME NEW i \in All(r.of)
        PROVE  \/ Settled(After(r, db, j), i, H, adapter, now)
               \/ /\ \E f \in NextOf(r, F) : i \in Covers(f, adapter)
                  /\ Open(After(r, db, j), i, H, adapter)
               \/ /\ j.res[i] = jt.res[i] /\ i \notin Taken(r, db)
                  /\ i \in Covers(r, adapter) => \E f \in NextOf(r, F) : i \in Covers(f, adapter)
    <2>1. CASE i \notin r.at
      BY <1>3, <1>4, <1>5, <2>1
    <2>2. CASE i \in r.at
      <3> DEFINE row == db[Slot(r.of, i)]
      <3>1. /\ Slot(r.of, i) \in Slots /\ row \in Rows
            /\ Looks(row, r.of.at, now) \subseteq H[Slot(r.of, i)]
        <4>1. Slot(r.of, i) \in Slots /\ Looks(row, r.of.at, now) \subseteq H[Slot(r.of, i)]
          BY <1>4, <1>5, KeySights
        <4> QED BY <4>1 DEF CallsInv, Types
      <3>2. j.res[i] = (row # None)
        BY <1>3, <1>4, <2>2
      <3>3. now \in Nat /\ r.of.at \in Nat /\ r.of.at <= now
        BY Clocks
      <3>4. row # None => \E x \in H[Slot(r.of, i)] : x # None
        BY <3>1, <3>3, RowLooks
      <3>5. CASE row = None
        <4>1. None \in H[Slot(r.of, i)]
          BY <3>1, <3>5 DEF Looks, Visible
        <4>2. j.res[i] \in BOOLEAN /\ ~j.res[i]
          BY <3>2, <3>5
        <4> HIDE DEF row, H
        <4> QED BY <1>4, <1>5, <4>1, <4>2, DeleteSettled DEF H
      <3>6. CASE row # None
        <4>1. \E f \in NextOf(r, F) : i \in Covers(f, adapter)
          BY <2>2, <3>6
        <4>2. After(r, db, j).res = j.res /\ Of(After(r, db, j)) = r.of /\ Of(r.of) = r.of
          BY <1>4, AfterOK, FlightIs
        <4>3. After(r, db, j).op = r.of.op /\ Slot(After(r, db, j), i) = Slot(r.of, i)
          BY <4>2, SameCall
        <4>4. j.res[i] \in BOOLEAN
          BY <3>2
        <4> HIDE DEF row, H
        <4>5. Open(After(r, db, j), i, H, adapter)
          BY <1>5, <3>4, <3>6, <4>2, <4>3, <4>4 DEF Open
        <4> QED BY <4>1, <4>5
      <3> QED BY <3>5, <3>6
    <2> QED BY <2>1, <2>2
  <1> HIDE DEF H, jt
  <1>7. r.do # "write" /\ \A f \in F : f.do # "write" /\ Carries(f, Sights(r, db, j), adapter, aux, db)
    OBVIOUS
  <1> QED BY <1>4, <1>5, <1>6, <1>7, KeyMoves DEF jt, H

LEMMA RocksdbReadKeeps == ASSUME CallsInv, RocksdbRead PROVE Kept
  <1>1. PICK r \in Rk("read") :
           LET old == Old(r.of, r.at, now)
           IN  Serve(r, db, aux, IF old = {} THEN {} ELSE {Command(r.t, r.of, "sweep", r.at, old)}, Judged(job[r.t], r.at, now))
    BY Zenon DEF RocksdbRead
  <1> DEFINE old == Old(r.of, r.at, now)
             f == Command(r.t, r.of, "sweep", r.at, old)
             F == IF old = {} THEN {} ELSE {f}
  <1>2. r \in flight /\ r.do = "read" /\ adapter = "rocksdb"
    BY ServedIn DEF Rk
  <1>3. now \in Nat /\ r.of.at <= now /\ now <= now
    BY <1>2, Clocks
  <1>4. \A s \in Targets(f, adapter) \cap Slots : Expired(db[s], now)
    <2>1. f.do = "sweep" /\ f.with = old
      BY CommandIs
    <2> HIDE DEF f
    <2>2. Targets(f, adapter) = old
      BY <1>2, <2>1 DEF Targets
    <2> QED BY <2>2 DEF Old
  <1>5. \A q \in F :
           /\ \E I \in SUBSET All(r.of) : \E with : q = Command(r.t, r.of, "sweep", I, with)
           /\ \A s \in Targets(q, adapter) \cap Slots : Expired(db[s], now)
    <2>1. r.at \in SUBSET All(r.of)
      BY <1>2, FlightIs
    <2> QED BY <1>4, <2>1
  <1>6. Serve(r, db, aux, F, Judged(job[r.t], r.at, now))
    BY <1>1
  <1>7. r.do \in {"read", "find", "count"}
    BY <1>2
  <1> HIDE DEF F
  <1> QED BY <1>2, <1>3, <1>5, <1>6, <1>7, ReadKeeps

LEMMA RocksdbExistingKeeps == ASSUME CallsInv, RocksdbExisting PROVE Kept
  <1>1. PICK r \in Rk("existing") :
           LET I == {i \in r.at : db[Slot(r.of, i)] # None}
           IN  Serve(r, db, aux, IF I = {} THEN {} ELSE {Command(r.t, r.of, "delete", I, {})}, Existed(job[r.t], r.at))
    BY Zenon DEF RocksdbExisting
  <1> DEFINE I == {i \in r.at : db[Slot(r.of, i)] # None}
             f == Command(r.t, r.of, "delete", I, {})
             F == IF I = {} THEN {} ELSE {f}
             j == Existed(job[r.t], r.at)
  <1>2. r \in flight /\ r.do = "existing" /\ adapter = "rocksdb"
    BY ServedIn DEF Rk
  <1>3. /\ r.at \subseteq All(r.of) /\ r.of = Of(r.of) /\ r.c = r.of.c /\ r.of.op \in DeleteOps
        /\ Calling(r.of, r.t, calls)
    BY <1>2, FlightIs, NotLate, CallingOf DEF Fits
  <1>4. f.t = r.t /\ f.of = r.of /\ f.c = r.c /\ f.do = "delete" /\ f.at = I
    BY <1>3, CommandIs
  <1>5. I \in SUBSET All(r.of) /\ I \subseteq r.at /\ \A i \in r.at : i \in I \/ db[Slot(r.of, i)] = None
    BY <1>3
  <1> HIDE DEF I
  <1>6. /\ CommandOK(f, adapter, calls, now) /\ Parked(f, adapter) = {}
        /\ Light(f.do, adapter, f.of.op)
    <2>1. Fits("delete", r.of.op) /\ Light("delete", adapter, r.of.op)
      BY <1>2, <1>3 DEF Fits, Light
    <2>2. CommandOK(f, adapter, calls, now) /\ Parked(f, adapter) = {}
      BY <1>3, <1>5, <2>1, LightMade
    <2> QED BY <1>4, <2>1, <2>2
  <1> HIDE DEF f
  <1>7. Covers(f, adapter) = I /\ InHand(f, adapter) = {} /\ Targets(f, adapter) = {}
    BY <1>4, <1>6, LightCovers DEF Targets
  <1>8. FlightOK(f) /\ \A H, x, d : Carries(f, H, adapter, x, d)
    <2>1. HandSeen(f, {}, adapter, aux) /\ \A H, x : HandSeen(f, H, adapter, x)
      BY <1>4, <1>7 DEF HandSeen
    <2> QED BY <1>4, <1>6, <1>7, <2>1 DEF FlightOK, SweptOK, Carries
  <1>9. Sends(r, F) /\ \A g \in F : g.do # "write" /\ \A H, x, d : Carries(g, H, adapter, x, d)
    BY <1>4, <1>8 DEF Sends
  <1>10. Covers(r, adapter) = r.at
    <2>1. Light(r.do, adapter, r.of.op)
      BY <1>2 DEF Light
    <2> QED BY <1>2, <2>1, LightCovers
  <1>11. \A i \in I : \E g \in NextOf(r, F) : i \in Covers(g, adapter)
    BY <1>4, <1>7 DEF NextOf, Mine
  <1>12. Serve(r, db, aux, F, j)
    BY <1>1 DEF I, f
  <1>13. j = Existed(job[r.t], r.at)
    OBVIOUS
  <1> HIDE DEF F, j
  <1>14. Live(r) => Moves(r, db, F, j)
    BY <1>2, <1>5, <1>9, <1>10, <1>11, <1>13, ExistingMoves
  <1> QED BY <1>2, <1>9, <1>12, <1>14, LeavesSame, KeepsSame, ServeKeeps

LEMMA RocksdbDeletedKeeps == ASSUME CallsInv, RocksdbDeleted PROVE Kept
  <1>1. PICK r \in Rk("delete") : Serve(r, Drop(db, SlotsAt(r.of, r.at)), aux, {}, job[r.t])
    BY Zenon DEF RocksdbDeleted
  <1> DEFINE d == Drop(db, SlotsAt(r.of, r.at))
  <1>2. r \in flight /\ r.do = "delete" /\ adapter = "rocksdb"
    BY ServedIn DEF Rk
  <1>3. Leaves(r, d)
    BY <1>2, DeleteLeaves
  <1>4. Covers(r, adapter) = r.at /\ r.of.op \in DeleteOps
    <2>1. Light(r.do, adapter, r.of.op)
      BY <1>2 DEF Light
    <2>2. r.of.op \in DeleteOps
      BY <1>2, FlightIs DEF Fits
    <2> QED BY <1>2, <2>1, <2>2, LightCovers
  <1>5. \A i \in All(r.of) : i \in r.at => d[Slot(r.of, i)] = None
    <2> TAKE i \in All(r.of)
    <2>1. Slot(r.of, i) \in Slots
      BY <1>2, FlightIs, SlotIn
    <2> QED BY <2>1 DEF Drop, SlotsAt
  <1> HIDE DEF d
  <1>6. Live(r) => Moves(r, d, {}, job[r.t])
    BY <1>2, <1>4, <1>5, NoneSent, GoneMoves
  <1>7. Serve(r, d, aux, {}, job[r.t])
    BY <1>1 DEF d
  <1> QED BY <1>2, <1>3, <1>6, <1>7, KeepsSame, NoneSent, ServeKeeps

\* What an iteration is limited to is all there is, where the limit is no less than the keys there are.
LEMMA LimitedAll ==
    ASSUME IterationLimit = 0 \/ Len(Names) <= IterationLimit, NEW ns, NEW S, S \subseteq In(ns)
    PROVE  Limited(S) = S
  <1>1. CASE IterationLimit = 0
    BY <1>1 DEF Limited
  <1>2. CASE IterationLimit # 0 /\ Len(Names) <= IterationLimit
    <2>1. /\ Len(Names) \in Nat /\ DOMAIN Names = 1..Len(Names) /\ (\A q \in DOMAIN Names : q \in Nat /\ Names[q] \in Keys)
          /\ \A q, m \in DOMAIN Names : Names[q] = Names[m] => q = m
      BY NamesAre
    <2> DEFINE N == Len(Names)
               f == [q \in 1..N |-> <<ns, Names[q]>>]
               T == {<<ns, Names[q]>> : q \in 1..N}
    <2>2. f \in Surjection(1..N, T)
      BY DEF Surjection
    <2>3. IsFiniteSet(1..N) /\ Cardinality(1..N) = N
      BY <2>1, FS_Interval
    <2>4. IsFiniteSet(T) /\ Cardinality(T) <= N
      <3> HIDE DEF f, T
      <3> QED BY <2>2, <2>3, FS_Surjection
    <2>5. In(ns) \subseteq T
      <3> SUFFICES ASSUME NEW s \in In(ns) PROVE s \in T
        OBVIOUS
      <3>1. s[1] = ns /\ s[2] \in Keys /\ s = <<s[1], s[2]>>
        BY DEF In, Slots
      <3>2. PICK q \in DOMAIN Names : s[2] = Names[q]
        BY <3>1 DEF Keys
      <3> QED BY <2>1, <3>1, <3>2
    <2> HIDE DEF T, f
    <2>6. ASSUME NEW s \in S PROVE Cardinality({u \in S : Before(u[2], s[2])}) < IterationLimit
      <3> DEFINE U == {u \in S : Before(u[2], s[2])}
      <3>1. U \subseteq T /\ s \in T
        BY <2>5
      <3>2. s \notin U
        BY <2>1 DEF Before
      <3> HIDE DEF U
      <3>3. Cardinality(U) <= Cardinality(T) /\ Cardinality(U) # Cardinality(T) /\ IsFiniteSet(U)
        BY <2>4, <3>1, <3>2, FS_Subset
      <3>4. Cardinality(U) \in Nat /\ Cardinality(T) \in Nat /\ IterationLimit \in Nat
        BY <2>4, <3>3, FS_CardinalityType, RocksdbAssumption
      <3> QED BY <1>2, <2>1, <2>4, <3>3, <3>4 DEF U
    <2> QED BY <1>2, <2>6 DEF Limited
  <1> QED BY <1>1, <1>2

LEMMA RocksdbSnapshotKeeps == ASSUME CallsInv, RocksdbSnapshot PROVE Kept
  <1>1. PICK r \in Rk("snapshot") :
           LET S == Limited({s \in Between(r.of.ns) : db[s] # None})
           IN  Serve(r, db, aux, PullFrom(r.t, r.of, [s \in S |-> db[s]]), job[r.t])
    BY Zenon DEF RocksdbSnapshot
  <1> DEFINE B == {s \in Between(r.of.ns) : db[s] # None}
             S == Limited(B)
             rows == [s \in S |-> db[s]]
             f == Command(r.t, r.of, "pull", {}, rows)
             F == IF DOMAIN rows = {} THEN {} ELSE {f}
  <1>2. r \in flight /\ r.do = "snapshot" /\ adapter = "rocksdb" /\ adapter \in Adapters
    BY ServedIn DEF Rk, CallsInv, Types
  <1>3. B \subseteq In(r.of.ns) /\ S \subseteq B /\ \A s \in S : db[s] # None
    BY DEF Between, Limited
  <1>4. Whole => \A s \in In(r.of.ns) : s \in S \/ db[s] = None
    <2> SUFFICES ASSUME Whole, NEW s \in In(r.of.ns), db[s] # None PROVE s \in S
      OBVIOUS
    <2>1. PastTilde = {} /\ (IterationLimit = 0 \/ Len(Names) <= IterationLimit)
      BY <1>2 DEF Whole
    <2>2. s \in B
      BY <2>1 DEF Between
    <2> HIDE DEF B
    <2>3. Limited(B) = B
      BY <1>3, <2>1, LimitedAll
    <2> QED BY <2>2, <2>3
  <1> HIDE DEF S, B
  <1>5. DOMAIN rows = S /\ \A s \in S : rows[s] = db[s]
    OBVIOUS
  <1>6. r.of.op = "iterator" /\ r.c = r.of.c /\ r.of = Of(r.of) /\ Covers(r, adapter) = In(r.of.ns)
    <2>1. r.of.op = "iterator" /\ r.c = r.of.c /\ r.of = Of(r.of)
      BY <1>2, FlightIs, NotLate DEF Fits
    <2>2. Light(r.do, adapter, r.of.op)
      BY <1>2 DEF Light
    <2> QED BY <1>2, <2>1, <2>2, LightCovers
  <1>7. f.t = r.t /\ f.of = r.of /\ f.c = r.c /\ f.do = "pull" /\ IsCommand(f) /\ f.at = {} /\ f.with = rows
    BY <1>6, CommandIs
  <1>8. Serve(r, db, aux, F, job[r.t])
    BY <1>1 DEF PullFrom, S, B
  <1>9. In(r.of.ns) \subseteq Slots /\ db \in [Slots -> Rows]
    BY DEF In, CallsInv, Types
  <1> HIDE DEF f, rows
  <1>10. Hand(f, adapter) = rows /\ Ahead(f, adapter) = {} /\ JudgeAt(f, adapter, aux) = r.of.at
    BY <1>2, <1>7 DEF Hand, Ahead, JudgeAt
  <1>11. Covers(f, adapter) = S
    <2>1. Covers(f, adapter) = Settling(f, adapter) /\ ~Chunked(f, adapter)
      BY <1>7, CoversOf DEF Chunked
    <2> QED BY <1>5, <1>7, <1>10, <2>1 DEF Settling
  <1>12. CASE S = {}
    <2>1. Serve(r, db, aux, {}, job[r.t])
      BY <1>5, <1>8, <1>12
    <2> QED BY <1>2, <1>4, <1>6, <1>12, <2>1, EmptyKeeps
  <1>13. CASE S # {}
    <2>1. Serve(r, db, aux, F, job[r.t]) /\ F = {f}
      BY <1>5, <1>8, <1>13
    <2> HIDE DEF F
    <2>2. PullOK(f, adapter, now)
      BY <1>2, <1>3, <1>5, <1>7, <1>9, <1>10, <1>13 DEF PullOK
    <2>3. JudgeAt(f, adapter, aux) \in Nat /\ r.of.at <= JudgeAt(f, adapter, aux) /\ JudgeAt(f, adapter, aux) <= now
      BY <1>2, <1>10, Clocks
    <2>4. \A s \in DOMAIN Hand(f, adapter) : Hand(f, adapter)[s] = db[s]
      BY <1>5, <1>10
    <2>5. Covers(f, adapter) \subseteq Covers(r, adapter)
      BY <1>3, <1>6, <1>11
    <2>6. \A s \in In(r.of.ns) : s \in Covers(r, adapter) => s \in Covers(f, adapter) \/ db[s] = None \/ ~Whole
      BY <1>4, <1>11
    <2> QED BY <1>2, <1>6, <1>7, <2>1, <2>2, <2>3, <2>4, <2>5, <2>6, ScanKeeps
  <1> QED BY <1>12, <1>13

LEMMA RocksdbPulledKeeps == ASSUME CallsInv, RocksdbPulled PROVE Kept
  <1>1. PICK r \in Rk("pull") :
           LET s   == First(r.with)
               row == r.with[s]
           IN  Serve(r, db, aux, PullFrom(r.t, r.of, Without(r.with, s)),
                     IF Expired(row, now) THEN job[r.t] ELSE Yield(job[r.t], s[2], row.val))
    BY Zenon DEF RocksdbPulled
  <1> DEFINE s    == First(r.with)
             rest == Without(r.with, s)
             F    == PullFrom(r.t, r.of, rest)
  <1>2. r \in flight /\ r.do = "pull" /\ adapter = "rocksdb"
    BY ServedIn DEF Rk
  <1>3. Hand(r, adapter) = r.with /\ DOMAIN Hand(r, adapter) # {}
    BY <1>2, FlightIs DEF Hand, ShapeOK, PullOK
  <1>4. s \in DOMAIN r.with /\ s = First(Hand(r, adapter))
    BY <1>2, <1>3, PullIs
  <1>5. JudgesAt(r, now)
    BY <1>2, Clocks DEF JudgesAt
  <1>6. F = IF DOMAIN rest = {} THEN {} ELSE {Command(r.t, r.of, "pull", {}, rest)}
    BY DEF PullFrom
  <1>7. rest = Without(r.with, s)
    OBVIOUS
  <1>8. Serve(r, db, aux, F, IF Expired(r.with[s], now) THEN job[r.t] ELSE Yield(job[r.t], s[2], r.with[s].val))
    BY <1>1
  <1> HIDE DEF s, rest, F
  <1>9. Rests(r, F, adapter, s)
    BY <1>2, <1>4, <1>6, <1>7, RestMade
  <1>10. CASE Expired(r.with[s], now)
    <2>1. Serve(r, db, aux, F, job[r.t])
      BY <1>8, <1>10
    <2> QED BY <1>2, <1>3, <1>4, <1>5, <1>9, <1>10, <2>1, PassedKeeps
  <1>11. CASE ~Expired(r.with[s], now)
    <2>1. Serve(r, db, aux, F, Yield(job[r.t], s[2], r.with[s].val))
      BY <1>8, <1>11
    <2> QED BY <1>2, <1>3, <1>4, <1>5, <1>9, <1>11, <2>1, YieldedKeeps
  <1> QED BY <1>10, <1>11

\* Keys that have expired are collected, and swept.
LEMMA RocksdbCollectedKeeps == ASSUME CallsInv, RocksdbCollected PROVE Kept
  <1>1. PICK r \in Rk("collect") :
           LET old == {s \in Between(r.of.ns) : Expired(db[s], Made(r))}
           IN  Serve(r, db, aux, IF old = {} THEN {} ELSE {Command(r.t, r.of, "sweep", {}, old)}, job[r.t])
    BY Zenon DEF RocksdbCollected
  <1> DEFINE old == {s \in Between(r.of.ns) : Expired(db[s], Made(r))}
             f == Command(r.t, r.of, "sweep", {}, old)
             F == IF old = {} THEN {} ELSE {f}
  <1>2. r \in flight /\ r.do = "collect" /\ adapter = "rocksdb"
    BY ServedIn DEF Rk
  <1>3. /\ r.of.op = "clearExpired" /\ r.c = r.of.c /\ Fits("sweep", r.of.op) /\ r.of.op \notin KeyOps
        /\ r.of.op \notin {"clear", "iterator"} /\ r.of.op \notin WriteOps
    BY <1>2, FlightIs, NotLate DEF Fits, KeyOps, ReadOps, HasOps, WriteOps, DeleteOps
  <1>4. All(r.of) = {}
    <2>1. r.of.keys = <<>>
      BY <1>2, <1>3, FlightIs DEF OfOK
    <2> QED BY <2>1 DEF All
  <1>5. \A s \in old \cap Slots : Expired(db[s], now)
    <2> TAKE s \in old \cap Slots
    <2>1. now \in Nat /\ Made(r) \in Nat /\ Made(r) <= now /\ db[s] \in Rows
      BY <1>2, Clocks DEF CallsInv, Types
    <2>2. Expired(db[s], Made(r))
      OBVIOUS
    <2> HIDE DEF old
    <2>3. db[s] # None => db[s].exp \in Int \cup {None}
      BY <2>1 DEF Rows, Row
    <2> QED BY <2>1, <2>2, <2>3 DEF Expired
  <1>6. Serve(r, db, aux, F, job[r.t])
    BY <1>1
  <1> HIDE DEF old
  <1>7. /\ f.t = r.t /\ f.of = r.of /\ f.c \in {0, r.c} /\ FlightOK(f) /\ Covers(f, adapter) = {} /\ f.do = "sweep"
        /\ \A H, x, d : Carries(f, H, adapter, x, d)
    <2>1. f.do = "sweep" /\ f.with = old
      BY CommandIs
    <2>2. Targets(f, adapter) = old
      <3> HIDE DEF f
      <3> QED BY <1>2, <2>1 DEF Targets
    <2>3. \A s \in Targets(f, adapter) \cap Slots : db[s] = None \/ Expired(db[s], now) \/ s \in dirty[r.of.c]
      BY <1>5, <2>2
    <2> DEFINE I == {}
    <2>4. I \in SUBSET All(r.of) /\ f = Command(r.t, r.of, "sweep", I, old)
      OBVIOUS
    <2>5. r.of = Of(r.of)
      BY <1>2, CallingOf
    <2>6. f.t = r.t /\ f.of = r.of /\ f.c = r.c
      BY <1>3, <2>5, CommandIs
    <2> HIDE DEF f, I
    <2>7. FlightOK(f) /\ Covers(f, adapter) = {}
      BY <1>2, <1>3, <2>3, <2>4, SweepSends
    <2>8. \A H, x, d : Carries(f, H, adapter, x, d)
      BY <1>2, <1>3, <2>3, <2>4, SweepSends
    <2> QED BY <2>1, <2>6, <2>7, <2>8
  <1> HIDE DEF f
  <1>8. Sends(r, F)
    BY <1>7 DEF Sends
  <1>9. ASSUME Live(r) PROVE Moves(r, db, F, job[r.t])
    <2>1. Onward(job[r.t], job[r.t]) /\ Items(job[r.t]) = {}
      <3>1. Items(r.of) = {}
        BY <1>3, <1>4 DEF Items
      <3> QED BY <1>2, <1>9, <3>1, StaysOnward, LiveCall
    <2>2. \A q, g \in NextOf(r, F) : q = g
      <3>1. /\ Together(Mine(flight, r.t, r.c), adapter) /\ r \in Mine(flight, r.t, r.c)
            /\ \A q \in Mine(flight, r.t, r.c) : q.of = r.of
        BY <1>2, <1>9, LiveCall
      <3>2. \A q \in Mine(flight, r.t, r.c) : q = r
        BY <1>2, <1>3, <3>1 DEF Together
      <3>3. NextOf(r, F) \subseteq F
        BY <3>2 DEF NextOf, Mine
      <3> QED BY <3>3
    <2>3. Settles(r, db, F, job[r.t])
      BY <2>1 DEF Settles
    <2>4. OutOK(After(r, db, job[r.t]), NextOf(r, F), adapter, Sights(r, db, job[r.t]))
      <3>1. Of(After(r, db, job[r.t])) = r.of /\ Of(r.of) = r.of
        BY <1>2, <1>9, <2>1, AfterOK, FlightIs
      <3>2. After(r, db, job[r.t]).op = r.of.op
        BY <3>1, SameCall
      <3> QED BY <1>3, <3>2 DEF OutOK
    <2>5. Together(NextOf(r, F), adapter)
      BY <2>2 DEF Together
    <2>6. PutOK(After(r, db, job[r.t]), NextOf(r, F))
      <3>1. \A g \in F : g.do # "write"
        BY <1>7
      <3> HIDE DEF F
      <3> QED BY <1>2, <1>9, <3>1, NoWrites
    <2> QED BY <1>7, <2>1, <2>3, <2>4, <2>5, <2>6 DEF Moves
  <1> HIDE DEF F
  <1> QED BY <1>2, <1>6, <1>8, <1>9, LeavesSame, KeepsSame, ServeKeeps

LEMMA EnvelopedLeaves ==
    ASSUME CallsInv, adapter = "rocksdb", NEW r \in flight, r.do = "put"
    PROVE  /\ Leaves(r, Enveloped(r))
           /\ \E e \in Int \cup {None} : /\ Enveloped(r) = Write(db, r.of, r.at, e)
                                         /\ r.of.live # None => e >= r.of.at + r.of.live - Slack(r.of.live) /\ e <= Made(r) + r.of.live + 1
  <1> DEFINE e == IF r.of.live = None THEN None ELSE r.of.at + r.of.live
  <1>1. /\ r.of.at \in Nat /\ (r.of.live # None => r.of.live \in Int) /\ Made(r) \in Nat /\ r.of.at <= Made(r)
    BY Clocks
  <1>2. Slack(r.of.live) = 0
    BY Zenon DEF Slack
  <1>3. e \in Int \cup {None} /\ (r.of.live # None => e >= r.of.at + r.of.live - Slack(r.of.live) /\ e <= Made(r) + r.of.live + 1)
    BY <1>1, <1>2
  <1>4. Enveloped(r) = Write(db, r.of, r.at, e)
    BY DEF Enveloped
  <1>5. r.of.op \in WriteOps /\ r.at \in SUBSET r.at
    BY FlightIs DEF Fits
  <1> HIDE DEF e
  <1>6. Leaves(r, Write(db, r.of, r.at, e))
    BY <1>3, <1>5, WriteLeaves
  <1> QED BY <1>3, <1>4, <1>6

LEMMA RocksdbFailedKeeps == ASSUME CallsInv, RocksdbFailed PROVE Kept
  <1> DEFINE Dos == {"read", "sweep", "put", "existing", "delete", "clear", "snapshot", "pull", "collect"}
  <1>0. PICK r \in UNION {Failing("rocksdb", do) : do \in Dos} :
          \E d \in Outcomes(r, RocksdbWould(r)) :
            \/ Reject(r, d)
            \/ Finish(r, d, aux, Failed(Answered(job[r.t], All(r.of), LAMBDA i : Answer(r.of.op, None, TRUE))))
    BY Zenon DEF RocksdbFailed
  <1>9. PICK do \in Dos : r \in Failing("rocksdb", do)
    BY <1>0
  <1>1. PICK d \in Outcomes(r, RocksdbWould(r)) :
            \/ Reject(r, d)
            \/ Finish(r, d, aux, Failed(Answered(job[r.t], All(r.of), LAMBDA i : Answer(r.of.op, None, TRUE))))
    BY <1>0
  <1>2. r \in flight /\ r.do = do /\ adapter = "rocksdb"
    BY <1>9, ServedIn
  <1>3. d = db \/ d = RocksdbWould(r)
    BY <1>1, OutcomesAre
  <1>4. Leaves(r, db)
    BY <1>2, LeavesSame
  <1>5. Leaves(r, d)
    <2>1. CASE do = "sweep"
      <3>1. RocksdbWould(r) = Drop(db, r.with)
        BY <1>2, <2>1, Zenon DEF RocksdbWould
      <3>2. r.with \cap Slots \subseteq Targets(r, adapter)
        BY <1>2, <2>1 DEF Targets
      <3> QED BY <1>2, <1>3, <1>4, <2>1, <3>1, <3>2, SweepLeaves
    <2>2. CASE do = "put"
      <3>1. RocksdbWould(r) = Enveloped(r)
        BY <1>2, <2>2, Zenon DEF RocksdbWould
      <3> QED BY <1>2, <1>3, <1>4, <2>2, <3>1, EnvelopedLeaves
    <2>3. CASE do = "delete"
      <3>1. RocksdbWould(r) = Drop(db, SlotsAt(r.of, r.at))
        BY <1>2, <2>3, Zenon DEF RocksdbWould
      <3> QED BY <1>2, <1>3, <1>4, <2>3, <3>1, DeleteLeaves
    <2>4. CASE do = "clear"
      <3>1. RocksdbWould(r) = Drop(db, Between(r.of.ns))
        BY <1>2, <2>4, Zenon DEF RocksdbWould
      <3>2. Between(r.of.ns) \cap Slots \subseteq In(r.of.ns)
        BY DEF Between
      <3> QED BY <1>2, <1>3, <1>4, <2>4, <3>1, <3>2, ClearLeaves
    <2>5. CASE do \in {"read", "existing", "snapshot", "pull", "collect"}
      <3>1. RocksdbWould(r) = db
        BY <1>2, <2>5, Zenon DEF RocksdbWould
      <3> QED BY <1>3, <1>4, <3>1
    <2> QED BY <1>9, <2>1, <2>2, <2>3, <2>4, <2>5
  <1>6. CASE Reject(r, d)
    BY <1>2, <1>5, <1>6, RejectKeeps
  <1> DEFINE jt == job[r.t]
             R == [i \in DOMAIN jt.res |-> IF i \in All(r.of) THEN Answer(r.of.op, None, TRUE) ELSE jt.res[i]]
             k == [jt EXCEPT !.res = R]
             j == Failed(k)
  <1>7. CASE Finish(r, d, aux, Failed(Answered(job[r.t], All(r.of), LAMBDA i : Answer(r.of.op, None, TRUE))))
    <2>1. Finish(r, d, aux, j)
      BY <1>7 DEF Answered
    <2>2. ASSUME Live(r) PROVE Fails(j)
      <3>1. Onward(jt, jt) /\ DOMAIN jt.res = All(jt) /\ jt.op = r.of.op /\ All(jt) = All(r.of)
        BY <1>2, <2>2, StaysOnward, LiveCall DEF CallOK
      <3>2. DOMAIN R = All(jt) /\ \A i \in All(jt) : R[i] = Answer(r.of.op, None, TRUE)
        BY <3>1
      <3> HIDE DEF R
      <3>3. Onward(jt, k) /\ k.res = R
        BY <3>1, <3>2, AnsweredOnward
      <3> HIDE DEF k
      <3>4. Onward(jt, j) /\ j.res = R /\ j.failed = TRUE
        BY <3>3, FailedOnward
      <3> HIDE DEF j
      <3>5. CallOK(j) /\ j.op = r.of.op /\ All(j) = All(jt)
        <4>1. Of(j) = Of(jt)
          BY <3>4 DEF Onward, Further
        <4> QED BY <3>1, <3>4, <4>1, SameCall DEF Onward
      <3>6. r.of.op \in WriteOps => \A i \in All(jt) : ~R[i]
        <4>1. r.of.op \in WriteOps => r.of.op \notin ReadOps
          BY DEF WriteOps, ReadOps
        <4> QED BY <3>2, <4>1 DEF Answer
      <3> QED BY <3>4, <3>5, <3>6 DEF Fails
    <2> HIDE DEF j
    <2> QED BY <1>2, <1>5, <2>1, <2>2, FinishKeeps
  <1> QED BY <1>1, <1>6, <1>7

LEMMA RocksdbKeeps == ASSUME CallsInv, RocksdbNext PROVE Kept
  <1>1. ASSUME adapter = "rocksdb", NEW t \in Tasks, NewCall(t, RocksdbCall) PROVE Kept
    BY <1>1, RocksdbEnters
  <1>2. ASSUME NEW b, Boot("rocksdb", b) PROVE Kept
    BY <1>2, BootKeeps DEF Boot
  <1>3. CASE RocksdbSwept
    <2>1. PICK r \in Rk("sweep") : Serve(r, Drop(db, r.with), aux, {}, job[r.t])
      BY <1>3, Zenon DEF RocksdbSwept
    <2>2. r \in flight /\ r.do = "sweep" /\ adapter = "rocksdb"
      BY ServedIn DEF Rk
    <2>3. r.with \cap Slots \subseteq Targets(r, adapter)
      BY <2>2 DEF Targets
    <2> QED BY <2>1, <2>2, <2>3, SweptKeeps
  <1>4. CASE RocksdbPut
    <2>1. PICK r \in Rk("put") : Serve(r, Enveloped(r), aux, {}, True(job[r.t], r.at))
      BY <1>4, Zenon DEF RocksdbPut
    <2>2. r \in flight /\ r.do = "put" /\ adapter = "rocksdb"
      BY ServedIn DEF Rk
    <2>3. PICK e \in Int \cup {None} : /\ Enveloped(r) = Write(db, r.of, r.at, e)
                                       /\ r.of.live # None => e >= r.of.at + r.of.live - Slack(r.of.live) /\ e <= Made(r) + r.of.live + 1
      BY <2>2, EnvelopedLeaves
    <2>4. Serve(r, Write(db, r.of, r.at, e), aux, {}, True(job[r.t], r.at))
      BY <2>1, <2>3
    <2> QED BY <2>2, <2>3, <2>4, KeepsSame, PutKeeps
  <1>5. CASE RocksdbCleared
    <2>1. PICK r \in Rk("clear") : Serve(r, Drop(db, Between(r.of.ns)), aux, {}, job[r.t])
      BY <1>5, Zenon DEF RocksdbCleared
    <2>2. r \in flight /\ r.do = "clear" /\ adapter = "rocksdb" /\ adapter \in Adapters
      BY ServedIn DEF Rk, CallsInv, Types
    <2>3. Between(r.of.ns) \cap Slots \subseteq In(r.of.ns) /\ (Whole => In(r.of.ns) \subseteq Between(r.of.ns))
      BY <2>2 DEF Between, Whole
    <2> QED BY <2>1, <2>2, <2>3, ClearedKeeps
  <1> QED BY <1>1, <1>2, <1>3, <1>4, <1>5, RocksdbReadKeeps, RocksdbExistingKeeps, RocksdbDeletedKeeps, RocksdbSnapshotKeeps,
             RocksdbPulledKeeps, RocksdbCollectedKeeps, RocksdbFailedKeeps
          DEF RocksdbNext, RocksdbOpened, RocksdbNotOpened

---------------------------------------------------------------------------
(* StorelyMongo *)

\* deleteMany goes on with the chunk at p.
LEMMA DeleteFromIs ==
    ASSUME adapter = "mongo", NEW j, NEW t, NEW n, Calling(j, t, n), j.op = "deleteMany", NEW p \in Nat \ {0},
           NEW F, F = DeleteFrom(t, j, p)
    PROVE  /\ \A f \in F : /\ f.t = t /\ f.of = Of(j) /\ f.c = j.c /\ f.do = "existing" /\ CommandOK(f, adapter, n, now)
                           /\ InHand(f, adapter) = {} /\ Parked(f, adapter) = {} /\ Covers(f, adapter) = {i \in All(j) : i >= p}
           /\ \A i \in All(j) : i >= p => \E f \in F : i \in Covers(f, adapter)
  <1> DEFINE I == Chunk(j, p, WriteChunk)
             f == Command(t, j, "existing", I, p)
  <1>1. f.t = t /\ f.of = Of(j) /\ f.c = j.c /\ f.do = "existing" /\ f.at = I /\ f.with = p
    BY CommandIs
  <1>2. All(Of(j)) = All(j) /\ Of(j).op = j.op /\ I \in SUBSET All(j) /\ Chunk(Of(j), p, WriteChunk) = I
    BY OfAll DEF Chunk
  <1>3. Chunked(f, adapter)
    <2> HIDE DEF f
    <2> QED BY <1>1, <1>2 DEF Chunked
  <1>4. ShapeOK(f, adapter, now)
    <2> HIDE DEF f, I
    <2> QED BY <1>1, <1>2 DEF ShapeOK
  <1>5. CommandOK(f, adapter, n, now) /\ Parked(f, adapter) = {}
    <2>1. Fits("existing", j.op)
      BY DEF Fits, DeleteOps
    <2> HIDE DEF I
    <2> QED BY <1>2, <1>4, <2>1, PlainMade
  <1> HIDE DEF f
  <1>6. InHand(f, adapter) = {}
    BY <1>1 DEF InHand, BeenRead, SlotsAt
  <1>7. Covers(f, adapter) = {i \in All(j) : i >= p}
    BY <1>1, <1>2, <1>3, CoversOf DEF Settling
  <1>8. F = IF I = {} THEN {} ELSE {f}
    BY DEF DeleteFrom, f
  <1>9. I = {} => \A i \in All(j) : ~(i >= p)
    <2>1. WriteChunk \in Nat \ {0}
      BY EntriesAssumption
    <2>2. Len(j.keys) \in Nat /\ All(j) = 1..Len(j.keys)
      <3>1. j.keys \in Seq(Keys)
        BY <1>2, OfAll DEF Calling, OfOK
      <3> QED BY <3>1, EntriesAre DEF All
    <2> QED BY <2>1, <2>2 DEF Chunk
  <1> HIDE DEF I
  <1> QED BY <1>1, <1>5, <1>6, <1>7, <1>8, <1>9

LEMMA MongoDeletesKeep ==
    ASSUME CallsInv, adapter = "mongo", NEW t \in Tasks, NEW j, New(j, t), j.op = "deleteMany", Enter(t, j, DeleteFrom(t, j, 1))
    PROVE  Kept
  <1> DEFINE F == DeleteFrom(t, j, 1)
  <1>1. Calling(j, t, calls + 1) /\ Items(j) = All(j) /\ j.op \in KeyOps /\ Of(j).op = j.op
    BY NewIs, OfAll DEF KeyOps, DeleteOps
  <1>2. F = DeleteFrom(t, j, 1) /\ 1 \in Nat \ {0}
    OBVIOUS
  <1> HIDE DEF F
  <1>3. /\ \A f \in F : /\ f.t = t /\ f.of = Of(j) /\ f.c = j.c /\ f.do = "existing" /\ CommandOK(f, adapter, calls + 1, now)
                        /\ InHand(f, adapter) = {}
        /\ \A i \in All(j) : i >= 1 => \E f \in F : i \in Covers(f, adapter)
    BY <1>1, <1>2, DeleteFromIs
  <1>4. \A i \in All(j) : i >= 1
    <2>1. j.keys \in Seq(Keys)
      BY <1>1, OfAll DEF Calling, OfOK
    <2> QED BY <2>1, EntriesAre DEF All
  <1>5. Together(F, adapter)
    BY <1>1, <1>3 DEF Together
  <1>6. EnterWith(t, j, F, aux)
    BY DEF Enter, F
  <1> QED BY <1>1, <1>3, <1>4, <1>5, <1>6, KeepsSame, StartKeeps

LEMMA MongoCallKeeps ==
    ASSUME CallsInv, adapter = "mongo", NEW t \in Tasks, NEW j, New(j, t), MongoCall(t, j)
    PROVE  Kept
  <1>1. ASSUME NEW do \in {"find", "count", "upsert", "bulk"}, Fits(do, j.op), Enter(t, j, {Command(t, j, do, All(j), {})})
        PROVE  Kept
    <2>1. Light(do, adapter, j.op)
      BY DEF Light
    <2> QED BY <1>1, <2>1, AllKeeps
  <1>2. CASE j.op \in ReadOps /\ Enter(t, j, {Command(t, j, "find", All(j), {})})
    <2>1. Fits("find", j.op)
      BY <1>2 DEF Fits
    <2> QED BY <1>1, <1>2, <2>1
  <1>3. CASE j.op \in HasOps /\ Enter(t, j, {Command(t, j, "count", All(j), {})})
    <2>1. Fits("count", j.op)
      BY <1>3 DEF Fits
    <2> QED BY <1>1, <1>3, <2>1
  <1>4. CASE j.op = "set" /\ Enter(t, j, {Command(t, j, "upsert", All(j), {})})
    <2>1. Fits("upsert", j.op)
      BY <1>4 DEF Fits, WriteOps
    <2> QED BY <1>1, <1>4, <2>1
  <1>5. CASE j.op = "setMany" /\ Enter(t, j, {Command(t, j, "bulk", All(j), {})})
    <2>1. Fits("bulk", j.op)
      BY <1>5 DEF Fits, WriteOps
    <2> QED BY <1>1, <1>5, <2>1
  <1>6. CASE j.op = "delete" /\ Enter(t, j, {Command(t, j, "delete", All(j), {})})
    <2>1. Fits("delete", j.op) /\ Light("delete", adapter, j.op)
      BY <1>6 DEF Fits, DeleteOps, Light
    <2> QED BY <1>6, <2>1, AllKeeps
  <1>7. CASE MongoDeleteMany(t, j)
    BY <1>7, MongoDeletesKeep DEF MongoDeleteMany
  <1>8. CASE MongoClear(t, j)
    <2>1. j.op = "clear" /\ Enter(t, j, {Command(t, j, "clear", {}, {})})
      BY <1>8 DEF MongoClear
    <2>2. Fits("clear", j.op) /\ Light("clear", adapter, j.op)
      BY <2>1 DEF Fits, Light
    <2> QED BY <2>1, <2>2, WalkEnters
  <1>9. CASE MongoIterator(t, j)
    <2>1. j.op = "iterator" /\ Enter(t, j, {Command(t, j, "page", {}, 1)})
      BY <1>9 DEF MongoIterator
    <2>2. Fits("page", j.op) /\ "page" \in Pages
      BY <2>1, Zenon DEF Fits, Pages
    <2> QED BY <2>1, <2>2, FromFirst, PageEnters
  <1>10. CASE MongoClearExpired(t, j)
    <2>1. j.op = "clearExpired" /\ EnterWith(t, j, {}, aux)
      BY <1>10 DEF MongoClearExpired, Enter
    <2>2. Items(j) = {}
      BY <2>1, NewIs DEF KeyOps, ReadOps, HasOps, WriteOps, DeleteOps
    <2> QED BY <2>1, <2>2, KeepsSame, NoneKeeps
  <1>11. CASE MongoDisconnect(t, j)
    <2>1. j.op = "disconnect" /\ Enter(t, j, {Command(t, j, "close", {}, {})})
      BY <1>11 DEF MongoDisconnect
    <2>2. Fits("close", j.op) /\ Light("close", adapter, j.op)
      BY <2>1 DEF Fits, Light
    <2> QED BY <2>1, <2>2, WalkEnters
  <1> QED
    BY <1>2, <1>3, <1>4, <1>5, <1>6, <1>7, <1>8, <1>9, <1>10, <1>11
    DEF MongoCall, MongoGet, MongoGetMany, MongoHas, MongoHasMany, MongoSet, MongoSetMany, MongoDelete, ReadOps, HasOps

LEMMA MongoOps == ASSUME NEW t, NEW j, MongoCall(t, j) PROVE j.op \in KeyOps \cup WalkOps
  BY DEF MongoCall, MongoGet, MongoGetMany, MongoHas, MongoHasMany, MongoSet, MongoSetMany, MongoDelete, MongoDeleteMany,
         MongoClear, MongoIterator, MongoClearExpired, MongoDisconnect, KeyOps, ReadOps, HasOps, WriteOps, DeleteOps, WalkOps

LEMMA MongoEnters ==
    ASSUME CallsInv, adapter = "mongo", NEW t \in Tasks, NewCall(t, MongoCall)
    PROVE  Kept
  <1>1. PICK op \in Ops[t], ns \in Namespaces, ks \in Batches :
           /\ (op \in SingleOps <=> Len(ks) = 1) /\ (op \notin KeyOps => ks = <<>>)
           /\ \E live \in IF op \in WriteOps THEN Lives[adapter] ELSE {None} : MongoCall(t, NewJob(op, ns, ks, live))
    BY Zenon DEF NewCall
  <1>2. PICK live \in IF op \in WriteOps THEN Lives[adapter] ELSE {None} : MongoCall(t, NewJob(op, ns, ks, live))
    BY <1>1
  <1> DEFINE j == NewJob(op, ns, ks, live)
  <1>3. New(j, t)
    BY <1>1, <1>2, MongoOps, NewMade
  <1> HIDE DEF j
  <1> QED BY <1>2, <1>3, MongoCallKeeps DEF j

\* The documents that are still there are of the keys they were found under.
LEMMA StillThereIs == ASSUME NEW D PROVE StillThere(D) \subseteq {p[1] : p \in D}
  BY DEF StillThere

LEMMA MongoFoundKeeps == ASSUME CallsInv, MongoFound PROVE Kept
  <1>1. PICK r \in Mg("find") :
           LET n   == IF r.of.op = "get" THEN now ELSE Made(r)
               old == Old(r.of, r.at, n)
           IN  Serve(r, db, aux, IF old = {} THEN {} ELSE {Command(r.t, r.of, "sweep", r.at, Ids(old))}, Judged(job[r.t], r.at, n))
    BY Zenon DEF MongoFound
  <1> DEFINE n   == IF r.of.op = "get" THEN now ELSE Made(r)
             old == Old(r.of, r.at, n)
             f == Command(r.t, r.of, "sweep", r.at, Ids(old))
             F == IF old = {} THEN {} ELSE {f}
  <1>2. r \in flight /\ r.do = "find" /\ adapter = "mongo"
    BY ServedIn DEF Mg
  <1>3. n \in Nat /\ r.of.at <= n /\ n <= now /\ now \in Nat
    BY <1>2, Clocks
  <1>4. Serve(r, db, aux, F, Judged(job[r.t], r.at, n))
    BY <1>1
  <1> HIDE DEF n
  <1>5. \A s \in Targets(f, adapter) \cap Slots : Expired(db[s], now)
    <2>1. f.do = "sweep" /\ f.with = Ids(old)
      BY CommandIs
    <2> HIDE DEF f, old
    <2>2. \A s \in Targets(f, adapter) : s \in old
      BY <1>2, <2>1 DEF Targets, Ids
    <2> USE DEF old
    <2>3. \A s \in old : Expired(db[s], n)
      BY DEF Old
    <2>4. \A s \in Slots : db[s] # None => db[s].exp \in Int \cup {None}
      BY DEF CallsInv, Types, Rows, Row
    <2> HIDE DEF old
    <2> QED BY <1>3, <2>2, <2>3, <2>4 DEF Expired
  <1>6. \A q \in F :
           /\ \E I \in SUBSET All(r.of) : \E with : q = Command(r.t, r.of, "sweep", I, with)
           /\ \A s \in Targets(q, adapter) \cap Slots : Expired(db[s], now)
    <2>1. r.at \in SUBSET All(r.of)
      BY <1>2, FlightIs
    <2> QED BY <1>5, <2>1
  <1>7. r.do \in {"read", "find", "count"}
    BY <1>2
  <1> HIDE DEF F
  <1> QED BY <1>2, <1>3, <1>4, <1>6, <1>7, ReadKeeps

LEMMA MongoCountedKeeps == ASSUME CallsInv, MongoCounted PROVE Kept
  <1>1. PICK r \in Mg("count") : Serve(r, db, aux, {}, Judged(job[r.t], r.at, Made(r)))
    BY Zenon DEF MongoCounted
  <1> DEFINE F == {}
             n == Made(r)
  <1>2. r \in flight /\ r.do \in {"read", "find", "count"}
    BY ServedIn DEF Mg
  <1>3. n \in Nat /\ r.of.at <= n /\ n <= now
    BY <1>2, Clocks
  <1>4. \A q \in F :
           /\ \E I \in SUBSET All(r.of) : \E with : q = Command(r.t, r.of, "sweep", I, with)
           /\ \A s \in Targets(q, adapter) \cap Slots : Expired(db[s], now)
    OBVIOUS
  <1>5. Serve(r, db, aux, F, Judged(job[r.t], r.at, n))
    BY <1>1
  <1> HIDE DEF F, n
  <1> QED BY <1>2, <1>3, <1>4, <1>5, ReadKeeps

LEMMA DocumentsKept == ASSUME CallsInv, adapter = "mongo", NEW d PROVE Keeps(Documents(d))
  <1> DEFINE x == [s \in Slots |-> IF db[s] = None /\ d[s] # None THEN aux.ids[s] + 1 ELSE aux.ids[s]]
             a == [aux EXCEPT !.ids = x]
  <1>1. AuxOK(aux, adapter, now)
    BY DEF CallsInv, Types
  <1>2. Documents(d) = a
    BY DEF Documents
  <1> HIDE DEF x
  <1>3. DOMAIN a = DOMAIN aux /\ a = [f \in DOMAIN a |-> a[f]] /\ a.boot = aux.boot /\ a.since = aux.since
    BY <1>1 DEF AuxOK
  <1> HIDE DEF a
  <1> QED BY <1>1, <1>2, <1>3 DEF Keeps, AuxOK

\* When a document is written to expire.
LEMMA MongoEnds ==
    ASSUME CallsInv, adapter = "mongo", NEW r \in flight, NEW n \in Nat, r.of.at <= n, n <= Made(r)
    PROVE  LET e == MongoEnd(r.of.live, n)
           IN  /\ e \in Int \cup {None}
               /\ Positive /\ r.of.live # None =>
                      e >= r.of.at + r.of.live - Slack(r.of.live) /\ e <= Made(r) + r.of.live + 1
  <1>1. /\ r.of.at \in Nat /\ r.of.live \in Int \cup {None} /\ Made(r) \in Nat
        /\ r.of.live \in Lives[adapter] \cup {None} /\ adapter \in Adapters
    BY Clocks DEF CallsInv, Types
  <1>2. Slack(r.of.live) = 0
    BY Zenon DEF Slack
  <1>3. Positive /\ r.of.live # None => r.of.live > 0
    BY <1>1 DEF Positive
  <1>4. r.of.live # None => r.of.live \in Int
    BY <1>1
  <1> QED BY <1>1, <1>2, <1>3, <1>4 DEF MongoEnd

LEMMA UpsertedLeaves ==
    ASSUME CallsInv, adapter = "mongo", NEW r \in flight, r.do = "upsert" PROVE Leaves(r, Upserted(r))
  <1> DEFINE e == MongoEnd(r.of.live, r.of.at)
  <1>1. r.of.op \in WriteOps /\ r.at \in SUBSET r.at
    BY FlightIs DEF Fits
  <1>2. e \in Int \cup {None} /\ (Positive /\ r.of.live # None =>
            e >= r.of.at + r.of.live - Slack(r.of.live) /\ e <= Made(r) + r.of.live + 1)
    BY Clocks, MongoEnds
  <1> HIDE DEF e
  <1>3. Leaves(r, Write(db, r.of, r.at, e))
    BY <1>1, <1>2, WriteLeaves
  <1> QED BY <1>3 DEF Upserted, e

LEMMA MongoUpsertedKeeps == ASSUME CallsInv, MongoUpserted PROVE Kept
  <1>1. PICK r \in Mg("upsert") : Serve(r, Upserted(r), Documents(Upserted(r)), {}, True(job[r.t], r.at))
    BY Zenon DEF MongoUpserted
  <1> DEFINE e == MongoEnd(r.of.live, r.of.at)
             a == Documents(Upserted(r))
  <1>2. r \in flight /\ r.do = "upsert" /\ adapter = "mongo"
    BY ServedIn DEF Mg
  <1>3. e \in Int \cup {None} /\ (Positive /\ r.of.live # None =>
            e >= r.of.at + r.of.live - Slack(r.of.live) /\ e <= Made(r) + r.of.live + 1)
    BY <1>2, Clocks, MongoEnds
  <1>4. Keeps(a)
    BY <1>2, DocumentsKept
  <1>5. Serve(r, Write(db, r.of, r.at, e), a, {}, True(job[r.t], r.at))
    BY <1>1 DEF Upserted
  <1> HIDE DEF e, a
  <1> QED BY <1>2, <1>3, <1>4, <1>5, PutKeeps

\* What is last of each key is among the entries a bulk write takes.
LEMMA LastsAre ==
    ASSUME NEW r, NEW P, NEW W \in Lasts(r, P)
    PROVE  W \subseteq P /\ \A i \in P : \E m \in W : r.of.keys[m] = r.of.keys[i]
  <1>1. W \subseteq P /\ \A i \in P : Cardinality({m \in W : r.of.keys[m] = r.of.keys[i]}) = 1
    BY DEF Lasts
  <1>2. ASSUME NEW i \in P PROVE \E m \in W : r.of.keys[m] = r.of.keys[i]
    <2> DEFINE U == {m \in W : r.of.keys[m] = r.of.keys[i]}
    <2>1. Cardinality(U) = 1
      BY <1>1
    <2>2. U # {}
      <3> SUFFICES ASSUME U = {} PROVE FALSE
        OBVIOUS
      <3>1. Cardinality(U) = 0
        BY FS_EmptySet
      <3> HIDE DEF U
      <3> QED BY <2>1, <3>1
    <2> QED BY <2>2
  <1> QED BY <1>1, <1>2

LEMMA MongoBulkKeeps == ASSUME CallsInv, MongoBulk PROVE Kept
  <1>1. PICK r \in Mg("bulk") : \E P \in IF Faults THEN SUBSET r.at ELSE {r.at} : \E W \in Lasts(r, P) :
           LET d == Write(db, r.of, W, MongoEnd(r.of.live, Made(r)))
           IN  r.at # {} /\ Serve(r, d, Documents(d), {}, Unsure(True(job[r.t], P), r.at \ P))
    BY Zenon DEF MongoBulk
  <1>2. PICK P \in SUBSET r.at : \E W \in Lasts(r, P) :
           LET d == Write(db, r.of, W, MongoEnd(r.of.live, Made(r)))
           IN  r.at # {} /\ Serve(r, d, Documents(d), {}, Unsure(True(job[r.t], P), r.at \ P))
    BY <1>1
  <1>3. PICK W \in Lasts(r, P) :
           LET d == Write(db, r.of, W, MongoEnd(r.of.live, Made(r)))
           IN  r.at # {} /\ Serve(r, d, Documents(d), {}, Unsure(True(job[r.t], P), r.at \ P))
    BY <1>2
  <1> DEFINE e == MongoEnd(r.of.live, Made(r))
             d == Write(db, r.of, W, e)
             a == Documents(d)
             jt == job[r.t]
             R == [i \in DOMAIN jt.res |-> IF i \in P THEN TRUE ELSE jt.res[i]]
             h == [jt EXCEPT !.res = R]
             j == Unsure(h, r.at \ P)
  <1>4. r \in flight /\ r.do = "bulk" /\ adapter = "mongo"
    BY ServedIn DEF Mg
  <1>5. W \subseteq P /\ P \subseteq r.at /\ \A i \in P : \E m \in W : r.of.keys[m] = r.of.keys[i]
    BY <1>3, LastsAre
  <1>6. e \in Int \cup {None} /\ (Positive /\ r.of.live # None =>
            e >= r.of.at + r.of.live - Slack(r.of.live) /\ e <= Made(r) + r.of.live + 1)
    BY <1>4, Clocks, MongoEnds
  <1>7. Keeps(a)
    BY <1>4, DocumentsKept
  <1>8. True(jt, P) = h
    BY DEF True, Answered
  <1>9. Serve(r, d, a, {}, j)
    BY <1>3, <1>8
  <1> HIDE DEF a, e
  <1>10. r.of.op \in WriteOps /\ r.of.op \in KeyOps /\ r.c = r.of.c /\ Covers(r, adapter) = r.at /\ r.at \subseteq All(r.of)
    <2>1. r.of.op \in WriteOps /\ r.c = r.of.c /\ r.at \subseteq All(r.of) /\ Light(r.do, adapter, r.of.op)
      BY <1>4, FlightIs, NotLate DEF Fits, Light
    <2> QED BY <1>4, <2>1, LightCovers DEF KeyOps
  <1>11. Leaves(r, d) /\ W \subseteq Taken(r, d) /\ Taken(r, d) \subseteq r.at
    <2>1. W \in SUBSET r.at
      BY <1>5
    <2> QED BY <1>4, <1>6, <1>10, <2>1, WriteLeaves
  <1> HIDE DEF d
  <1>12. P \subseteq Taken(r, d)
    <2> SUFFICES ASSUME NEW i \in P PROVE i \in Taken(r, d)
      OBVIOUS
    <2>1. PICK m \in W : r.of.keys[m] = r.of.keys[i]
      BY <1>5
    <2>2. m \in Taken(r, d) /\ Slot(r.of, m) = Slot(r.of, i)
      BY <1>11, <2>1 DEF Slot
    <2> QED BY <1>5, <1>10, <2>2 DEF Taken
  <1>13. ASSUME Live(r) PROVE Moves(r, d, {}, j)
    <2>1. Onward(jt, jt) /\ DOMAIN jt.res = All(jt) /\ jt.op = r.of.op /\ All(jt) = All(r.of)
      BY <1>4, <1>13, StaysOnward, LiveCall DEF CallOK
    <2>2. DOMAIN R = All(jt) /\ \A i \in All(r.of) : R[i] = IF i \in P THEN TRUE ELSE jt.res[i]
      BY <2>1
    <2> HIDE DEF R
    <2>3. Onward(jt, h) /\ h.res = R /\ h.unsure = jt.unsure
      BY <2>1, <2>2, AnsweredOnward
    <2> HIDE DEF h
    <2>4. Onward(jt, j) /\ j.res = R /\ j.unsure = jt.unsure \cup (r.at \ P)
      BY <2>3, UnsureOnward
    <2> HIDE DEF j
    <2>5. ASSUME NEW i \in All(r.of)
          PROVE  \/ Settled(After(r, d, j), i, Sights(r, d, j), adapter, now)
                 \/ j.res[i] = jt.res[i] /\ i \notin Taken(r, d) /\ i \notin Covers(r, adapter)
      <3>1. CASE i \in P
        <4>1. j.res[i] = TRUE /\ i \in jt.put \cup Taken(r, d)
          BY <1>12, <2>2, <2>4, <3>1
        <4> QED BY <1>4, <1>10, <1>13, <2>4, <4>1, WriteSettled
      <3>2. CASE i \in r.at \ P
        <4>1. i \in j.unsure /\ j.res[i] = jt.res[i]
          BY <2>2, <2>4, <3>2
        <4>2. r.of.op \in WriteOps /\ Tells(r.of, adapter) => (j.res[i] => i \in jt.put \cup Taken(r, d))
          BY <1>4, <1>10, <1>13, <4>1, TrueWritten
        <4> QED BY <1>4, <1>10, <1>13, <2>4, <4>1, <4>2, Excuses
      <3>3. CASE i \notin r.at
        BY <1>5, <1>10, <1>11, <2>2, <2>4, <3>3
      <3> QED BY <3>1, <3>2, <3>3
    <2> HIDE DEF jt
    <2>6. r.do # "write" /\ Sends(r, {})
      BY <1>4, NoneSent
    <2> QED BY <1>4, <1>10, <1>13, <2>4, <2>5, <2>6, KeyMoves DEF jt
  <1> HIDE DEF j
  <1> QED BY <1>4, <1>7, <1>9, <1>11, <1>13, NoneSent, ServeKeeps

LEMMA MongoSweptKeeps == ASSUME CallsInv, MongoSwept PROVE Kept
  <1>1. PICK r \in Mg("sweep") : Serve(r, Drop(db, StillThere(r.with)), aux, {}, job[r.t])
    BY Zenon DEF MongoSwept
  <1> DEFINE S == StillThere(r.with)
             d == Drop(db, S)
  <1>2. r \in flight /\ r.do = "sweep" /\ adapter = "mongo"
    BY ServedIn DEF Mg
  <1>3. S \cap Slots \subseteq Targets(r, adapter)
    BY <1>2, StillThereIs DEF Targets
  <1>4. d = db \/ d = Drop(db, S)
    OBVIOUS
  <1>5. Serve(r, d, aux, {}, job[r.t])
    BY <1>1
  <1> HIDE DEF S, d
  <1> QED BY <1>2, <1>3, <1>4, <1>5, SweptKeeps

LEMMA MongoExistingKeeps == ASSUME CallsInv, MongoExisting PROVE Kept
  <1>1. PICK r \in Mg("existing") :
           Serve(r, db, aux, {Command(r.t, r.of, "delete", r.at, r.with)}, Existed(job[r.t], r.at))
    BY Zenon DEF MongoExisting
  <1> DEFINE f == Command(r.t, r.of, "delete", r.at, r.with)
             F == {f}
             j == Existed(job[r.t], r.at)
  <1>2. r \in flight /\ r.do = "existing" /\ adapter = "mongo"
    BY ServedIn DEF Mg
  <1>3. /\ r.at \in SUBSET All(r.of) /\ r.of = Of(r.of) /\ r.c = r.of.c /\ r.of.op \in DeleteOps
        /\ Calling(r.of, r.t, calls)
    BY <1>2, FlightIs, NotLate, CallingOf DEF Fits
  <1>4. f.t = r.t /\ f.of = r.of /\ f.c = r.c /\ f.do = "delete" /\ f.at = r.at /\ f.with = r.with
    BY <1>3, CommandIs
  <1>5. Fits("delete", r.of.op)
    BY <1>3 DEF Fits
  <1>6. Chunked(f, adapter) <=> Chunked(r, adapter)
    <2> HIDE DEF f
    <2> QED BY <1>2, <1>4 DEF Chunked
  <1>7. CommandOK(f, adapter, calls, now) /\ Parked(f, adapter) = {}
    <2>1. CASE r.of.op = "deleteMany"
      <3>1. ShapeOK(f, adapter, now)
        <4>1. Chunked(r, adapter) /\ ShapeOK(r, adapter, now)
          BY <1>2, <2>1, FlightIs DEF Chunked
        <4> HIDE DEF f
        <4> QED BY <1>2, <1>4, <1>6, <4>1 DEF ShapeOK
      <3> QED BY <1>3, <1>5, <3>1, PlainMade
    <2>2. CASE r.of.op # "deleteMany"
      <3>1. Light("delete", adapter, r.of.op)
        BY <2>2 DEF Light
      <3> QED BY <1>3, <1>5, <3>1, LightMade
    <2> QED BY <2>1, <2>2
  <1> HIDE DEF f
  <1>8. Covers(f, adapter) = Covers(r, adapter) /\ InHand(f, adapter) = {} /\ Targets(f, adapter) = {}
    <2>1. Settling(f, adapter) = Settling(r, adapter)
      BY <1>2, <1>4, <1>6 DEF Settling
    <2>2. InHand(f, adapter) = {} /\ Targets(f, adapter) = {}
      BY <1>4 DEF InHand, BeenRead, SlotsAt, Targets
    <2> QED BY <1>2, <1>4, <2>1, <2>2, CoversOf
  <1>9. r.at \subseteq Covers(r, adapter)
    <2>1. Covers(r, adapter) = Settling(r, adapter) /\ ShapeOK(r, adapter, now)
      BY <1>2, CoversOf, FlightIs
    <2>2. CASE Chunked(r, adapter)
      BY <2>1, <2>2 DEF ShapeOK, Settling, Chunk
    <2>3. CASE ~Chunked(r, adapter)
      BY <1>2, <2>1, <2>3 DEF Settling
    <2> QED BY <2>2, <2>3
  <1>10. FlightOK(f) /\ \A H, x, d : Carries(f, H, adapter, x, d)
    <2>1. HandSeen(f, {}, adapter, aux) /\ \A H, x : HandSeen(f, H, adapter, x)
      BY <1>4, <1>8 DEF HandSeen
    <2> QED BY <1>4, <1>7, <1>8, <2>1 DEF FlightOK, SweptOK, Carries
  <1>11. Sends(r, F) /\ \A g \in F : g.do # "write" /\ \A H, x, d : Carries(g, H, adapter, x, d)
    BY <1>4, <1>10 DEF Sends
  <1>12. \A i \in Covers(r, adapter) : \E g \in NextOf(r, F) : i \in Covers(g, adapter)
    BY <1>4, <1>8 DEF NextOf, Mine
  <1>13. Serve(r, db, aux, F, j)
    BY <1>1 DEF f
  <1>14. j = Existed(job[r.t], r.at)
    OBVIOUS
  <1> HIDE DEF F, j
  <1>15. Live(r) => Moves(r, db, F, j)
    BY <1>2, <1>3, <1>9, <1>11, <1>12, <1>14, ExistingMoves
  <1> QED BY <1>2, <1>11, <1>13, <1>15, LeavesSame, KeepsSame, ServeKeeps

LEMMA MongoDeletedKeeps == ASSUME CallsInv, MongoDeleted PROVE Kept
  <1>1. PICK r \in Mg("delete") :
           LET one == r.of.op = "delete"
           IN  Serve(r, Drop(db, SlotsAt(r.of, r.at)), aux,
                     IF one THEN {} ELSE DeleteFrom(r.t, r.of, r.with + WriteChunk),
                     IF one THEN Existed(job[r.t], r.at) ELSE job[r.t])
    BY Zenon DEF MongoDeleted
  <1> DEFINE d == Drop(db, SlotsAt(r.of, r.at))
  <1>2. r \in flight /\ r.do = "delete" /\ adapter = "mongo"
    BY ServedIn DEF Mg
  <1>3. r.of.op \in DeleteOps /\ r.of = Of(r.of) /\ r.c = r.of.c /\ Calling(r.of, r.t, calls) /\ ShapeOK(r, adapter, now)
    BY <1>2, FlightIs, NotLate, CallingOf DEF Fits
  <1>4. CASE r.of.op = "delete"
    <2>1. ~Chunked(r, adapter)
      BY <1>2, <1>4 DEF Chunked
    <2>2. Serve(r, Drop(db, SlotsAt(r.of, r.at)), aux, {}, Existed(job[r.t], r.at))
      BY <1>1, <1>4
    <2> QED BY <1>2, <2>1, <2>2, DeletedKeeps
  <1>5. CASE r.of.op # "delete"
    <2> DEFINE p == r.with + WriteChunk
               F == DeleteFrom(r.t, r.of, p)
    <2>1. r.of.op = "deleteMany"
      BY <1>3, <1>5 DEF DeleteOps
    <2>2. Chunked(r, adapter) /\ r.with \in Nat \ {0} /\ r.at = Chunk(r.of, r.with, WriteChunk)
      BY <1>2, <1>3, <2>1 DEF Chunked, ShapeOK
    <2>3. p \in Nat \ {0} /\ p = r.with + WriteChunk
      BY <2>2, EntriesAssumption
    <2>4. Covers(r, adapter) = {i \in All(r.of) : i >= r.with}
      BY <1>2, <2>2, CoversOf DEF Settling
    <2>5. Serve(r, d, aux, F, job[r.t])
      BY <1>1, <1>5
    <2>6. F = DeleteFrom(r.t, r.of, p)
      OBVIOUS
    <2>7. \A i \in r.at : d[Slot(r.of, i)] = None
      <3> TAKE i \in r.at
      <3>1. Slot(r.of, i) \in Slots
        BY <1>2, FlightIs, SlotIn
      <3> QED BY <3>1 DEF Drop, SlotsAt
    <2>8. Leaves(r, d)
      BY <1>2, DeleteLeaves
    <2> HIDE DEF p, F, d
    <2>9. /\ \A f \in F : /\ f.t = r.t /\ f.of = r.of /\ f.c = r.c /\ f.do = "existing" /\ CommandOK(f, adapter, calls, now)
                          /\ InHand(f, adapter) = {} /\ Parked(f, adapter) = {}
          /\ \A i \in All(r.of) : i >= p => \E f \in F : i \in Covers(f, adapter)
      BY <1>2, <1>3, <2>1, <2>3, <2>6, DeleteFromIs
    <2>10. ASSUME NEW f \in F PROVE FlightOK(f) /\ \A H, x, e : Carries(f, H, adapter, x, e)
      <3>1. Targets(f, adapter) = {}
        BY <2>9 DEF Targets
      <3>2. \A H, x : HandSeen(f, H, adapter, x)
        BY <2>9 DEF HandSeen
      <3> QED BY <2>9, <3>1, <3>2 DEF FlightOK, SweptOK, Carries
    <2>11. Sends(r, F) /\ \A f \in F : f.do # "write" /\ \A H, x, e : Carries(f, H, adapter, x, e)
      BY <2>9, <2>10 DEF Sends
    <2>12. \A i \in All(r.of) : i \in Covers(r, adapter) =>
               d[Slot(r.of, i)] = None \/ \E f \in NextOf(r, F) : i \in Covers(f, adapter)
      <3> TAKE i \in All(r.of)
      <3> SUFFICES ASSUME i \in Covers(r, adapter), d[Slot(r.of, i)] # None PROVE \E f \in NextOf(r, F) : i \in Covers(f, adapter)
        OBVIOUS
      <3>1. i \in Nat
        BY <1>2, FlightIs, EntriesAre DEF OfOK, All
      <3>2. i >= p
        BY <2>2, <2>3, <2>4, <2>7, <3>1, EntriesAssumption DEF Chunk
      <3> QED BY <2>9, <3>2 DEF NextOf, Mine
    <2>13. Live(r) => Moves(r, d, F, job[r.t])
      BY <1>2, <1>3, <2>11, <2>12, GoneMoves
    <2>14. r \notin F
      BY <1>2, <2>9
    <2> QED BY <1>2, <2>5, <2>8, <2>11, <2>13, <2>14, KeepsSame, ServeKeeps
  <1> QED BY <1>4, <1>5

LEMMA MongoClearedKeeps == ASSUME CallsInv, MongoCleared PROVE Kept
  <1>1. PICK r \in Mg("clear") : Serve(r, Drop(db, In(r.of.ns)), aux, {}, job[r.t])
    BY Zenon DEF MongoCleared
  <1> DEFINE S == In(r.of.ns)
  <1>2. r \in flight /\ r.do = "clear" /\ adapter # "dynamo"
    BY ServedIn DEF Mg
  <1>3. (Alone => S \cap Slots \subseteq In(r.of.ns)) /\ (Whole => In(r.of.ns) \subseteq S)
    OBVIOUS
  <1>4. Serve(r, Drop(db, S), aux, {}, job[r.t])
    BY <1>1
  <1> HIDE DEF S
  <1> QED BY <1>2, <1>3, <1>4, ClearedKeeps

\* The keys of the page at p, and those from the next page on, are those from p on.
PageOf(ns, p) == {s \in In(ns) : \E q \in p..(p + PageSize - 1) : q \in DOMAIN Names /\ Names[q] = s[2]}
LEMMA PageAhead ==
    ASSUME NEW ns \in Namespaces, NEW p \in Nat \ {0}
    PROVE  /\ p + PageSize \in Nat \ {0}
           /\ \A s \in PageOf(ns, p) : s \in From(ns, p) /\ s \notin From(ns, p + PageSize)
           /\ From(ns, p + PageSize) \subseteq From(ns, p) /\ From(ns, p) \subseteq In(ns)
           /\ \A s \in From(ns, p) : s \in PageOf(ns, p) \/ s \in From(ns, p + PageSize)
  <1>1. PageSize \in Nat \ {0}
    BY EntriesAssumption
  <1>2. /\ (\A q \in DOMAIN Names : q \in Nat /\ Names[q] \in Keys)
        /\ \A q, m \in DOMAIN Names : Names[q] = Names[m] => q = m
    BY NamesAre
  <1>3. ASSUME NEW s \in PageOf(ns, p) PROVE s \in From(ns, p) /\ s \notin From(ns, p + PageSize)
    <2>1. PICK q \in p..(p + PageSize - 1) : q \in DOMAIN Names /\ Names[q] = s[2]
      BY DEF PageOf
    <2>2. s \in In(ns)
      BY DEF PageOf
    <2>3. s = <<ns, Names[q]>>
      BY <2>1, <2>2 DEF In, Slots
    <2>4. s \in From(ns, p)
      BY <1>1, <1>2, <2>1, <2>3 DEF From
    <2>5. ASSUME NEW m \in DOMAIN Names, m >= p + PageSize, s = <<ns, Names[m]>> PROVE FALSE
      <3>1. Names[m] = Names[q]
        BY <2>3, <2>5
      <3>2. m = q
        BY <1>2, <2>1, <3>1
      <3> QED BY <1>1, <2>1, <2>5, <3>2
    <2> QED BY <2>4, <2>5 DEF From
  <1>4. ASSUME NEW s \in From(ns, p) PROVE s \in In(ns) /\ (s \in PageOf(ns, p) \/ s \in From(ns, p + PageSize))
    <2>1. PICK q \in DOMAIN Names : q >= p /\ s = <<ns, Names[q]>>
      BY DEF From
    <2>2. s \in In(ns) /\ s[2] = Names[q]
      BY <1>2, <2>1 DEF In, Slots
    <2>3. CASE q >= p + PageSize
      BY <2>1, <2>2, <2>3 DEF From
    <2>4. CASE ~(q >= p + PageSize)
      <3>1. q \in p..(p + PageSize - 1)
        BY <1>1, <1>2, <2>1, <2>4
      <3> QED BY <2>2, <3>1 DEF PageOf
    <2> QED BY <2>2, <2>3, <2>4
  <1>5. From(ns, p + PageSize) \subseteq From(ns, p)
    BY <1>1, <1>2 DEF From
  <1>6. p + PageSize \in Nat \ {0}
    BY <1>1
  <1> QED BY <1>3, <1>4, <1>5, <1>6

LEMMA MongoPageKeeps == ASSUME CallsInv, MongoPage PROVE Kept
  <1>1. PICK r \in Mg("page") :
           LET ks == {k \in Keys : \E q \in r.with..(r.with + PageSize - 1) : q \in DOMAIN Names /\ Names[q] = k}
               S  == {s \in In(r.of.ns) : s[2] \in ks /\ db[s] # None}
           IN  Serve(r, db, aux, {Command(r.t, r.of, "pull", {}, <<r.with + PageSize, [s \in S |-> db[s]], Ids(S)>>)},
                     job[r.t])
    BY Zenon DEF MongoPage
  <1> DEFINE ks == {k \in Keys : \E q \in r.with..(r.with + PageSize - 1) : q \in DOMAIN Names /\ Names[q] = k}
             S  == {s \in In(r.of.ns) : s[2] \in ks /\ db[s] # None}
             rows == [s \in S |-> db[s]]
             ids == Ids(S)
             p == r.with + PageSize
             f == Command(r.t, r.of, "pull", {}, <<p, rows, ids>>)
             F == {f}
  <1>2. r \in flight /\ r.do = "page" /\ adapter = "mongo" /\ aux.boot = "ready"
    BY ServedIn DEF Mg
  <1>3. /\ r.of.op = "iterator" /\ r.c = r.of.c /\ r.of = Of(r.of) /\ r.of.ns \in Namespaces
        /\ r.with \in Nat \ {0} /\ Covers(r, adapter) = From(r.of.ns, r.with)
    <2>1. r.do \in Pages
      BY <1>2 DEF Pages
    <2>2. r.of.op = "iterator" /\ r.c = r.of.c /\ r.of = Of(r.of) /\ r.of.ns \in Namespaces
      BY <1>2, FlightIs, NotLate DEF Fits, OfOK
    <2>3. ShapeOK(r, adapter, now)
      BY <1>2, FlightIs
    <2> QED BY <2>1, <2>2, <2>3, PagesFit
  <1>4. \A s \in In(r.of.ns) : s \in Slots /\ s[2] \in Keys
    BY DEF In, Slots
  <1>5. \A s \in In(r.of.ns) : s \in S <=> s \in PageOf(r.of.ns, r.with) /\ db[s] # None
    BY <1>4 DEF PageOf
  <1>6. S \subseteq In(r.of.ns)
    OBVIOUS
  <1>7. f.t = r.t /\ f.of = r.of /\ f.c = r.c /\ f.do = "pull" /\ IsCommand(f) /\ f.at = {} /\ f.with = <<p, rows, ids>>
    BY <1>3, CommandIs
  <1>8. Serve(r, db, aux, F, job[r.t])
    BY <1>1
  <1> HIDE DEF ks, S
  <1>9. DOMAIN rows = S /\ \A s \in S : rows[s] = db[s]
    OBVIOUS
  <1> HIDE DEF rows, ids, f
  <1>10. /\ p \in Nat \ {0} /\ p = r.with + PageSize
         /\ \A s \in PageOf(r.of.ns, r.with) : s \in From(r.of.ns, r.with) /\ s \notin From(r.of.ns, p)
         /\ From(r.of.ns, p) \subseteq From(r.of.ns, r.with) /\ From(r.of.ns, r.with) \subseteq In(r.of.ns)
         /\ \A s \in From(r.of.ns, r.with) : s \in PageOf(r.of.ns, r.with) \/ s \in From(r.of.ns, p)
    BY <1>3, PageAhead
  <1> HIDE DEF p
  <1>11. f.with[1] = p /\ f.with[2] = rows
    BY <1>7
  <1>12. Hand(f, adapter) = rows /\ Ahead(f, adapter) = From(r.of.ns, p) /\ JudgeAt(f, adapter, aux) = Made(r)
    <2>1. Hand(f, adapter) = rows /\ Ahead(f, adapter) = From(r.of.ns, p)
      BY <1>2, <1>7, <1>11 DEF Hand, Ahead
    <2>2. JudgeAt(f, adapter, aux) = IF r.of.at < aux.since THEN aux.since ELSE r.of.at
      BY <1>2, <1>7 DEF JudgeAt
    <2>3. Made(r) = IF r.of.at < aux.since THEN aux.since ELSE r.of.at
      BY <1>2, Clocks
    <2> QED BY <2>1, <2>2, <2>3
  <1>13. Covers(f, adapter) = S \cup From(r.of.ns, p)
    <2>1. Covers(f, adapter) = Settling(f, adapter) /\ ~Chunked(f, adapter)
      BY <1>7, CoversOf DEF Chunked
    <2> QED BY <1>7, <1>9, <1>12, <2>1 DEF Settling
  <1>14. db \in [Slots -> Rows]
    BY DEF CallsInv, Types
  <1>15. PullOK(f, adapter, now)
    <2>1. \A s \in S : s \in In(r.of.ns) /\ s \notin From(r.of.ns, p) /\ rows[s] \in Rows \ {None}
      BY <1>4, <1>5, <1>6, <1>9, <1>10, <1>14
    <2> QED BY <1>2, <1>7, <1>9, <1>10, <1>11, <1>12, <2>1 DEF PullOK
  <1>16. JudgeAt(f, adapter, aux) \in Nat /\ r.of.at <= JudgeAt(f, adapter, aux) /\ JudgeAt(f, adapter, aux) <= now
    BY <1>2, <1>12, Clocks
  <1>17. \A s \in DOMAIN Hand(f, adapter) : Hand(f, adapter)[s] = db[s]
    BY <1>9, <1>12
  <1>18. Covers(f, adapter) \subseteq Covers(r, adapter)
    BY <1>3, <1>5, <1>6, <1>10, <1>13
  <1>19. \A s \in In(r.of.ns) : s \in Covers(r, adapter) => s \in Covers(f, adapter) \/ db[s] = None \/ ~Whole
    BY <1>3, <1>5, <1>10, <1>13
  <1>20. F = {f} /\ (adapter = "mongo" => aux.boot # "pending")
    BY <1>2
  <1> HIDE DEF F
  <1> QED BY <1>2, <1>3, <1>7, <1>8, <1>15, <1>16, <1>17, <1>18, <1>19, <1>20, ScanKeeps

LEMMA MongoPulledKeeps == ASSUME CallsInv, MongoPulled PROVE Kept
  <1>1. PICK r \in Sent("mongo", "pull") :
           LET rows == r.with[2]
               s    == First(rows)
               rest == Command(r.t, r.of, "pull", {}, <<r.with[1], Without(rows, s), r.with[3]>>)
           IN  IF DOMAIN rows = {}
               THEN Serve(r, db, aux, IF r.with[1] > Len(Names) THEN {} ELSE {Command(r.t, r.of, "page", {}, r.with[1])},
                          job[r.t])
               ELSE IF Expired(rows[s], Made(r))
               THEN Serve(r, db, aux, {Command(r.t, r.of, "drop", {}, <<s, rest>>)}, job[r.t])
               ELSE Serve(r, db, aux, {rest}, Yield(job[r.t], s[2], rows[s].val))
    BY Zenon DEF MongoPulled
  <1> DEFINE rows == r.with[2]
             s    == First(rows)
             left == Without(rows, s)
             rest == Command(r.t, r.of, "pull", {}, <<r.with[1], left, r.with[3]>>)
             f    == Command(r.t, r.of, "drop", {}, <<s, rest>>)
             p    == r.with[1]
  <1>2. r \in flight /\ r.do = "pull" /\ adapter = "mongo"
    BY ServedIn
  <1>3. Hand(r, adapter) = rows /\ r.of.op = "iterator" /\ r.c = r.of.c /\ r.of = Of(r.of) /\ p \in Nat \ {0}
    BY <1>2, FlightIs, NotLate DEF Hand, ShapeOK, PullOK, Fits
  <1>4. CASE DOMAIN rows = {}
    <2> DEFINE g == Command(r.t, r.of, "page", {}, p)
               F == IF p > Len(Names) THEN {} ELSE {g}
    <2>1. Serve(r, db, aux, F, job[r.t])
      BY <1>1, <1>4
    <2>2. Covers(r, adapter) = From(r.of.ns, p)
      <3>1. Covers(r, adapter) = Settling(r, adapter) /\ ~Chunked(r, adapter)
        BY <1>2, CoversOf DEF Chunked
      <3> QED BY <1>2, <1>3, <1>4, <3>1 DEF Settling, Ahead
    <2>3. p > Len(Names) => From(r.of.ns, p) = {}
      BY <1>3, NamesAre DEF From
    <2>4. "page" \in Pages /\ Fits("page", "iterator")
      BY DEF Pages, Fits
    <2>5. F = {Command(r.t, r.of, "page", {}, p)} \/ (F = {} /\ Covers(r, adapter) = {})
      BY <2>2, <2>3
    <2> HIDE DEF F, p
    <2> QED BY <1>2, <1>3, <2>1, <2>2, <2>4, <2>5, NextKeeps
  <1>5. CASE DOMAIN rows # {}
    <2>1. s = First(Hand(r, adapter)) /\ s \in DOMAIN Hand(r, adapter) /\ DOMAIN Hand(r, adapter) # {}
      BY <1>2, <1>3, <1>5, PullIs
    <2>2. JudgesAt(r, Made(r))
      <3>1. /\ now \in Nat /\ Made(r) \in Nat /\ Made(r) <= now
            /\ Made(r) = IF r.of.at < aux.since THEN aux.since ELSE r.of.at
        BY <1>2, Clocks
      <3>2. JudgeAt(r, adapter, aux) = IF r.of.at < aux.since THEN aux.since ELSE r.of.at
        BY <1>2 DEF JudgeAt
      <3> QED BY <3>1, <3>2 DEF JudgesAt
    <2>3. /\ rest.t = r.t /\ rest.of = r.of /\ rest.c = r.c /\ rest.do = "pull" /\ IsCommand(rest) /\ rest.at = {}
          /\ rest.with = <<p, left, r.with[3]>>
      BY <1>3, CommandIs
    <2>4. f.do = "drop" /\ f.with = <<s, rest>>
      BY CommandIs
    <2>5. left = Without(Hand(r, adapter), s)
      BY <1>3
    <2>6. rows = Hand(r, adapter)
      BY <1>3
    <2>7. IF Expired(rows[s], Made(r)) THEN Serve(r, db, aux, {f}, job[r.t])
          ELSE Serve(r, db, aux, {rest}, Yield(job[r.t], s[2], rows[s].val))
      BY <1>1, <1>5
    <2>8. f = Command(r.t, r.of, "drop", {}, <<s, rest>>)
      OBVIOUS
    <2> HIDE DEF f, rest, left, s, p
    <2>9. IsRest(rest, r, adapter, s)
      <3>1. Hand(rest, adapter) = left /\ rest.with[1] = r.with[1] /\ rest.with[3] = r.with[3]
        BY <1>2, <2>3 DEF Hand, p
      <3> QED BY <1>2, <2>3, <2>5, <3>1 DEF IsRest
    <2> DEFINE F == {rest}
    <2>10. Rests(r, F, adapter, s)
      <3>1. Covers(rest, adapter) = Covers(r, adapter) \ {s}
        BY <1>2, <2>1, <2>9, RestIs
      <3> QED BY <2>9, <3>1 DEF Rests
    <2>11. Parked(f, adapter) = F
      BY <1>2, <2>4 DEF Parked
    <2> HIDE DEF F
    <2>12. CASE Expired(rows[s], Made(r))
      <3>1. Serve(r, db, aux, {f}, job[r.t]) /\ Expired(Hand(r, adapter)[s], Made(r)) /\ Rests(r, Parked(f, adapter), adapter, s)
        BY <2>6, <2>7, <2>10, <2>11, <2>12
      <3> HIDE DEF rows
      <3> QED BY <1>2, <2>1, <2>2, <2>8, <3>1, FoundKeeps
    <2>13. CASE ~Expired(rows[s], Made(r))
      <3>1. Serve(r, db, aux, F, Yield(job[r.t], s[2], Hand(r, adapter)[s].val)) /\ ~Expired(Hand(r, adapter)[s], Made(r))
        BY <2>6, <2>7, <2>13 DEF F
      <3> HIDE DEF rows
      <3> QED BY <1>2, <2>1, <2>2, <2>10, <3>1, YieldedKeeps
    <2> QED BY <2>12, <2>13
  <1> QED BY <1>4, <1>5

LEMMA MongoDroppedKeeps == ASSUME CallsInv, MongoDropped PROVE Kept
  <1>1. PICK r \in Mg("drop") : Serve(r, Drop(db, StillThere(Dropping(r))), aux, {r.with[2]}, job[r.t])
    BY Zenon DEF MongoDropped
  <1> DEFINE S == StillThere(Dropping(r))
             d == Drop(db, S)
  <1>2. r \in flight /\ r.do = "drop" /\ adapter = "mongo"
    BY ServedIn DEF Mg
  <1>3. S \cap Slots \subseteq {r.with[1]}
    BY StillThereIs DEF Dropping
  <1>4. Parked(r, adapter) = {r.with[2]}
    BY <1>2 DEF Parked
  <1>5. Serve(r, d, aux, Parked(r, adapter), job[r.t]) /\ (d = db \/ d = Drop(db, S))
    BY <1>1, <1>4
  <1> HIDE DEF S, d
  <1> QED BY <1>2, <1>3, <1>5, DroppedKeeps

\* A write fails as a whole, whether the server took it or not.
LEMMA NotSetKeeps ==
    ASSUME CallsInv, NEW r \in flight, r.of.op \in WriteOps, ~(adapter = "dynamo" /\ r.of.op = "setMany"),
           NEW d, Leaves(r, d), NEW a, Keeps(a), Serve(r, d, a, {}, Failed(job[r.t]))
    PROVE  Kept
  <1> DEFINE jt == job[r.t]
             j == Failed(jt)
             F == {}
  <1>1. ASSUME Live(r) PROVE Moves(r, d, F, j)
    <2>1. Onward(jt, jt)
      BY <1>1, StaysOnward
    <2>2. Onward(jt, j) /\ j.res = jt.res /\ j.failed /\ j.out = jt.out
      BY <2>1, FailedOnward
    <2> HIDE DEF j
    <2>3. \A i \in All(r.of) : r.of.op \in WriteOps /\ Tells(r.of, adapter) => (j.res[i] => i \in jt.put \cup Taken(r, d))
      BY <1>1, <2>2, TrueWritten
    <2>4. F = {} /\ \A f \in F : Carries(f, Sights(r, d, j), adapter, aux, d)
      OBVIOUS
    <2> HIDE DEF jt, F
    <2> QED BY <1>1, <2>2, <2>3, <2>4, FailMoves DEF jt
  <1>2. Serve(r, d, a, {}, j)
    OBVIOUS
  <1> HIDE DEF j
  <1> QED BY <1>1, <1>2, NoneSent, ServeKeeps

LEMMA MongoNotSetKeeps == ASSUME CallsInv, MongoNotSet PROVE Kept
  <1>1. ASSUME NEW r \in Failing("mongo", "upsert"), NEW d \in Outcomes(r, Upserted(r)),
               Serve(r, d, Documents(d), {}, Failed(job[r.t]))
        PROVE  Kept
    <2>1. r \in flight /\ r.do = "upsert" /\ adapter = "mongo"
      BY ServedIn
    <2>2. r.of.op \in WriteOps
      BY <2>1, FlightIs DEF Fits
    <2>3. Leaves(r, d)
      BY <2>1, OutcomesAre, LeavesSame, UpsertedLeaves
    <2> DEFINE a == Documents(d)
    <2>4. Keeps(a)
      BY <2>1, DocumentsKept
    <2>5. Serve(r, d, a, {}, Failed(job[r.t]))
      BY <1>1
    <2> HIDE DEF a
    <2> QED BY <2>1, <2>2, <2>3, <2>4, <2>5, NotSetKeeps
  <1>2. ASSUME NEW r \in Failing("mongo", "bulk") \cup Mg("bulk"), Serve(r, db, aux, {}, Failed(job[r.t])) PROVE Kept
    <2>1. r \in flight /\ r.do = "bulk" /\ adapter = "mongo"
      BY ServedIn DEF Mg
    <2>2. r.of.op \in WriteOps
      BY <2>1, FlightIs DEF Fits
    <2> QED BY <1>2, <2>1, <2>2, LeavesSame, KeepsSame, NotSetKeeps
  <1>3. CASE \E r \in Failing("mongo", "upsert") : \E d \in Outcomes(r, Upserted(r)) : Serve(r, d, Documents(d), {}, Failed(job[r.t]))
    BY <1>1, <1>3
  <1>4. CASE \E r \in {r \in Failing("mongo", "bulk") : aux.boot = "ready"} \cup {r \in Mg("bulk") : r.at = {}} :
                Serve(r, db, aux, {}, Failed(job[r.t]))
    <2>1. PICK r \in {r \in Failing("mongo", "bulk") : aux.boot = "ready"} \cup {r \in Mg("bulk") : r.at = {}} :
                Serve(r, db, aux, {}, Failed(job[r.t]))
      BY <1>4, Zenon
    <2>2. r \in Failing("mongo", "bulk") \cup Mg("bulk")
      BY <2>1
    <2> QED BY <1>2, <2>1, <2>2
  <1> QED BY <1>3, <1>4, Zenon DEF MongoNotSet

LEMMA MongoRejectedKeeps == ASSUME CallsInv, MongoRejected PROVE Kept
  <1> DEFINE Dos == {"find", "count", "sweep", "existing", "delete", "clear", "page", "drop"}
  <1>1. PICK r \in {r \in Failing("mongo", "bulk") : aux.boot = "failed"} \cup UNION {Failing("mongo", do) : do \in Dos} :
          \E d \in Outcomes(r, MongoWould(r)) : Reject(r, d)
    BY Zenon DEF MongoRejected
  <1>2. PICK do \in Dos \cup {"bulk"} : r \in Failing("mongo", do)
    BY <1>1
  <1>3. PICK d \in Outcomes(r, MongoWould(r)) : Reject(r, d)
    BY <1>1
  <1>4. r \in flight /\ r.do = do /\ adapter = "mongo"
    BY <1>2, ServedIn
  <1>5. d = db \/ d = MongoWould(r)
    BY <1>3, OutcomesAre
  <1>6. Leaves(r, db)
    BY <1>4, LeavesSame
  <1>7. Leaves(r, d)
    <2>1. CASE do = "sweep"
      <3> DEFINE S == StillThere(r.with)
      <3>1. MongoWould(r) = Drop(db, S)
        BY <1>4, <2>1, Zenon DEF MongoWould
      <3>2. S \cap Slots \subseteq Targets(r, adapter)
        BY <1>4, <2>1, StillThereIs DEF Targets
      <3> HIDE DEF S
      <3> QED BY <1>4, <1>5, <1>6, <2>1, <3>1, <3>2, SweepLeaves
    <2>2. CASE do = "drop"
      <3> DEFINE S == StillThere(Dropping(r))
      <3>1. MongoWould(r) = Drop(db, S)
        BY <1>4, <2>2, Zenon DEF MongoWould
      <3>2. S \cap Slots \subseteq Targets(r, adapter)
        BY <1>4, <2>2, StillThereIs DEF Targets, Dropping
      <3> HIDE DEF S
      <3> QED BY <1>4, <1>5, <1>6, <2>2, <3>1, <3>2, SweepLeaves
    <2>3. CASE do = "delete"
      <3>1. MongoWould(r) = Drop(db, SlotsAt(r.of, r.at))
        BY <1>4, <2>3, Zenon DEF MongoWould
      <3> QED BY <1>4, <1>5, <1>6, <2>3, <3>1, DeleteLeaves
    <2>4. CASE do = "clear"
      <3> DEFINE S == In(r.of.ns)
      <3>1. MongoWould(r) = Drop(db, S)
        BY <1>4, <2>4, Zenon DEF MongoWould
      <3>2. S \cap Slots \subseteq In(r.of.ns)
        OBVIOUS
      <3> HIDE DEF S
      <3> QED BY <1>4, <1>5, <1>6, <2>4, <3>1, <3>2, ClearLeaves
    <2>5. CASE do \in {"find", "count", "existing", "page", "bulk"}
      <3>1. MongoWould(r) = db
        BY <1>4, <2>5, Zenon DEF MongoWould
      <3> QED BY <1>5, <1>6, <3>1
    <2> QED BY <1>2, <2>1, <2>2, <2>3, <2>4, <2>5
  <1> QED BY <1>3, <1>4, <1>7, RejectKeeps

LEMMA MongoClosedKeeps == ASSUME CallsInv, MongoClosed PROVE Kept
  <1>1. ASSUME NEW r \in Sent("mongo", "close"), Serve(r, db, [aux EXCEPT !.open = FALSE], {}, job[r.t]) PROVE Kept
    <2> DEFINE a == [aux EXCEPT !.open = FALSE]
    <2>1. r \in flight /\ r.do = "close"
      BY ServedIn
    <2>2. Covers(r, adapter) = {}
      <3>1. Light(r.do, adapter, r.of.op)
        BY <2>1 DEF Light
      <3> QED BY <2>1, <3>1, LightCovers
    <2>3. Taken(r, db) = {}
      <3>1. r.of.op \notin WriteOps
        BY <2>1, FlightIs DEF Fits, WriteOps
      <3> QED BY <3>1, TakenSame
    <2>4. Keeps(a)
      BY ClosedKept
    <2>5. Serve(r, db, a, {}, job[r.t])
      BY <1>1
    <2> HIDE DEF a
    <2> QED BY <2>1, <2>2, <2>3, <2>4, <2>5, LeavesSame, QuietKeeps
  <1>2. ASSUME NEW r \in Sent("mongo", "close"), Reject(r, db) PROVE Kept
    BY <1>2, ServedIn, LeavesSame, RejectKeeps
  <1> QED BY <1>1, <1>2, Zenon DEF MongoClosed

LEMMA MongoKeeps == ASSUME CallsInv, MongoNext PROVE Kept
  <1>1. ASSUME adapter = "mongo", NEW t \in Tasks, NewCall(t, MongoCall) PROVE Kept
    BY <1>1, MongoEnters
  <1>2. ASSUME NEW b, Boot("mongo", b) PROVE Kept
    BY <1>2, BootKeeps DEF Boot
  <1> QED BY <1>1, <1>2, MongoFoundKeeps, MongoCountedKeeps, MongoSweptKeeps, MongoUpsertedKeeps, MongoBulkKeeps,
             MongoExistingKeeps, MongoDeletedKeeps, MongoClearedKeeps, MongoPageKeeps, MongoPulledKeeps, MongoDroppedKeeps,
             MongoNotSetKeeps, MongoRejectedKeeps, MongoClosedKeeps
          DEF MongoNext, MongoConnected, MongoNotConnected

---------------------------------------------------------------------------
(* StorelyDynamo *)

\* A step of ensureTable: the adapter keeps what it does of the table.
LEMMA TableKeeps ==
    ASSUME CallsInv, adapter = "dynamo", NEW a, DOMAIN a = DOMAIN aux, a = [f \in DOMAIN a |-> a[f]], TableOK(a),
           a.since \in 0..now, aux.boot # "pending" => a.boot = aux.boot /\ a.since = aux.since, Happen(db, a)
    PROVE  Kept
  <1>1. AuxOK(aux, adapter, now)
    BY DEF CallsInv, Types
  <1>2. AuxOK(a, adapter, now)
    BY <1>1 DEF AuxOK
  <1> DEFINE S == {}
  <1>3. \A s \in S \cap Slots : Expired(db[s], now)
    OBVIOUS
  <1> HIDE DEF S
  <1> QED BY <1>2, <1>3, HappenKeeps

LEMMA TableIs ==
    ASSUME CallsInv, adapter = "dynamo"
    PROVE  /\ aux = [f \in DOMAIN aux |-> aux[f]] /\ {"boot", "since", "step", "table"} \subseteq DOMAIN aux
           /\ aux.since \in 0..now /\ now \in 0..now /\ TableOK(aux)
  <1>1. AuxOK(aux, adapter, now) /\ now \in Nat
    BY Numbers DEF CallsInv, Types
  <1> QED BY <1>1 DEF AuxOK

\* ensureTable comes to its next request.
LEMMA GoKeeps ==
    ASSUME CallsInv, adapter = "dynamo", aux.boot = "pending", NEW step, step = "reap" => aux.table = "active", Go(step)
    PROVE  Kept
  <1> DEFINE a == [aux EXCEPT !.step = step]
  <1>1. a.step = step /\ a.table = aux.table /\ a.boot = aux.boot /\ a.since = aux.since
    BY TableIs
  <1>2. DOMAIN a = DOMAIN aux /\ a = [f \in DOMAIN a |-> a[f]] /\ a.since \in 0..now
    BY <1>1, TableIs
  <1>3. Happen(db, a)
    BY DEF Go
  <1> HIDE DEF a
  <1>4. TableOK(a)
    BY <1>1 DEF TableOK
  <1> QED BY <1>1, <1>2, <1>3, <1>4, TableKeeps

\* It has come to its end.
LEMMA ReadyKeeps ==
    ASSUME CallsInv, adapter = "dynamo", aux.boot = "pending", NEW step, step # "reap",
           step # "failed" => aux.table = "active", Ready(step)
    PROVE  Kept
  <1> DEFINE a == [aux EXCEPT !.boot = "ready", !.step = step, !.since = now]
  <1>1. a.step = step /\ a.table = aux.table /\ a.since = now
    BY TableIs
  <1>2. DOMAIN a = DOMAIN aux /\ a = [f \in DOMAIN a |-> a[f]] /\ a.since \in 0..now
    BY <1>1, TableIs
  <1>3. Happen(db, a)
    BY DEF Ready
  <1> HIDE DEF a
  <1>4. TableOK(a)
    BY <1>1 DEF TableOK
  <1> QED BY <1>1, <1>2, <1>3, <1>4, TableKeeps

\* The service makes the table, or another client does.
LEMMA ServiceKeeps ==
    ASSUME CallsInv, adapter = "dynamo", NEW table, NEW a, a = [aux EXCEPT !.table = table] \/ aux.boot = "pending",
           a.table = table, a.boot = aux.boot, a.since = aux.since, a.step = aux.step \/ a.step # "reap",
           DOMAIN a = DOMAIN aux, a = [f \in DOMAIN a |-> a[f]], table = "active" \/ aux.table # "active" \/ table = aux.table,
           Happen(db, a)
    PROVE  Kept
  <1>1. TableOK(a)
    <2>1. TableOK(aux)
      BY TableIs
    <2>2. CASE aux.boot = "pending"
      BY <2>1, <2>2 DEF TableOK
    <2>3. CASE a = [aux EXCEPT !.table = table]
      <3>1. a.step = aux.step
        BY <2>3, TableIs
      <3> QED BY <2>1, <3>1 DEF TableOK
    <2> QED BY <2>2, <2>3
  <1>2. a.since \in 0..now
    BY TableIs
  <1> QED BY <1>1, <1>2, TableKeeps

LEMMA DynamoTableKeeps ==
    ASSUME CallsInv, DynamoDescribed \/ DynamoCreated \/ DynamoWaited \/ DynamoReaps \/ DynamoNoTable \/ DynamoActive \/ DynamoOther
    PROVE  Kept
  <1> DEFINE Asks == {"describe again", "wait", "create", "wait to reap"}
  <1>1. \A x \in Asks : x # "reap"
    BY Zenon
  <1>2. ASSUME NEW x \in Asks, adapter = "dynamo", aux.boot = "pending", Go(x) PROVE Kept
    BY <1>1, <1>2, GoKeeps
  <1>3. CASE DynamoDescribed
    <2>1. adapter = "dynamo" /\ aux.boot = "pending"
      BY <1>3, Zenon DEF DynamoDescribed, At
    <2>2. \E x \in Asks : Go(x)
      BY <1>3, Zenon DEF DynamoDescribed
    <2> HIDE DEF Asks
    <2> QED BY <1>2, <2>1, <2>2
  <1>4. CASE DynamoCreated
    <2> DEFINE y == IF aux.table = "none" THEN "creating" ELSE aux.table
               w == "wait to reap"
               a == [aux EXCEPT !.table = y, !.step = w]
    <2>1. adapter = "dynamo" /\ aux.boot = "pending" /\ Happen(db, [aux EXCEPT !.table = IF @ = "none" THEN "creating" ELSE @, !.step = w])
      BY <1>4, Zenon DEF DynamoCreated, At
    <2>2. w # "reap"
      BY Zenon
    <2> HIDE DEF w, Asks
    <2>3. Happen(db, a)
      BY <2>1
    <2>4. a.table = y /\ a.step = w /\ a.boot = aux.boot /\ a.since = aux.since
      BY <2>1, TableIs
    <2>5. DOMAIN a = DOMAIN aux /\ a = [f \in DOMAIN a |-> a[f]] /\ (y = "active" \/ aux.table # "active" \/ y = aux.table)
      BY <2>1, TableIs
    <2> HIDE DEF a, y
    <2> QED BY <2>1, <2>2, <2>3, <2>4, <2>5, ServiceKeeps
  <1>5. CASE DynamoWaited
    <2>1. CASE At("wait") /\ aux.table = "active" /\ Ready("done")
      <3>1. adapter = "dynamo" /\ aux.boot = "pending"
        BY <2>1, Zenon DEF At
      <3> HIDE DEF Asks
      <3> QED BY <2>1, <3>1, ReadyKeeps
    <2>2. CASE adapter = "dynamo" /\ aux.boot = "pending" /\ aux.table = "active" /\ Go("reap")
      <3> HIDE DEF Asks
      <3> QED BY <2>2, GoKeeps
    <2> QED BY <1>5, <2>1, <2>2, Zenon DEF DynamoWaited, At
  <1>6. CASE DynamoReaps
    <2>1. adapter = "dynamo" /\ aux.boot = "pending" /\ aux.step = "reap" /\ Ready("done")
      BY <1>6, Zenon DEF DynamoReaps, At
    <2> HIDE DEF Asks
    <2>2. aux.table = "active"
      BY <2>1, TableIs DEF TableOK
    <2> QED BY <2>1, <2>2, ReadyKeeps
  <1>7. CASE DynamoNoTable
    <2>1. adapter = "dynamo" /\ aux.boot = "pending" /\ Ready("failed")
      BY <1>7, Zenon DEF DynamoNoTable
    <2> HIDE DEF Asks
    <2> QED BY <2>1, ReadyKeeps
  <1>8. ASSUME adapter = "dynamo", NEW y, Happen(db, [aux EXCEPT !.table = y]), y = "active" \/ aux.table # "active" PROVE Kept
    <2> HIDE DEF Asks
    <2> DEFINE a == [aux EXCEPT !.table = y]
    <2>1. /\ a.table = y /\ a.step = aux.step /\ a.boot = aux.boot /\ a.since = aux.since
          /\ DOMAIN a = DOMAIN aux /\ a = [f \in DOMAIN a |-> a[f]]
      BY <1>8, TableIs
    <2>2. Happen(db, a) /\ (a = [aux EXCEPT !.table = y] \/ aux.boot = "pending")
      BY <1>8
    <2> HIDE DEF a
    <2> QED BY <1>8, <2>1, <2>2, ServiceKeeps
  <1>9. CASE DynamoActive \/ DynamoOther
    <2> HIDE DEF Asks
    <2> QED BY <1>8, <1>9 DEF DynamoActive, DynamoOther
  <1> QED BY <1>3, <1>4, <1>5, <1>6, <1>7, <1>9

\* Requests that reach the table.
LEMMA DyIn ==
    ASSUME NEW do, NEW r \in Dy(do)
    PROVE  r \in flight /\ r.do = do /\ adapter = "dynamo" /\ aux.boot = "ready" /\ aux.table = "active"
  BY ServedIn DEF Dy

\* expiresAt is in whole seconds, and no later than asked for.
LEMMA DynamoEnds ==
    ASSUME CallsInv, adapter = "dynamo", NEW r \in flight
    PROVE  /\ DynamoEnd(r) \in Int \cup {None}
           /\ r.of.live # None =>
                  DynamoEnd(r) >= r.of.at + r.of.live - Slack(r.of.live) /\ DynamoEnd(r) <= Made(r) + r.of.live + 1
  <1>1. /\ r.of.at \in Nat /\ Made(r) \in Nat /\ r.of.at <= Made(r)
        /\ r.of.live # None => r.of.live \in Int
    BY Clocks
  <1>2. Slack(r.of.live) = SecondTicks - 1
    BY Zenon DEF Slack
  <1>3. SecondTicks \in Nat \ {0}
    BY DynamoAssumption
  <1>4. CASE r.of.live = None
    BY <1>4 DEF DynamoEnd
  <1>5. CASE r.of.live # None
    <2> DEFINE m == Made(r) + r.of.live
               e == SecondTicks * (m \div SecondTicks)
    <2>1. m \in Int
      BY <1>1, <1>5
    <2>2. DynamoEnd(r) = e
      BY <1>5 DEF DynamoEnd
    <2> HIDE DEF m
    <2>3. e \in Int /\ e <= m /\ e >= m - (SecondTicks - 1)
      BY <1>3, <2>1
    <2> HIDE DEF e
    <2> QED BY <1>1, <1>2, <1>3, <1>5, <2>1, <2>2, <2>3 DEF m
  <1> QED BY <1>4, <1>5

LEMMA DynamoItemsLeave ==
    ASSUME CallsInv, adapter = "dynamo", NEW r \in flight, r.of.op \in WriteOps, NEW I \in SUBSET r.at,
           NEW d, d = DynamoItems(r, I)
    PROVE  /\ Leaves(r, d) /\ (r.c = r.of.c => I \subseteq Taken(r, d)) /\ Taken(r, d) \subseteq r.at
           /\ \A s \in Slots : (\A i \in I : Slot(r.of, i) # s) => d[s] = db[s]
           /\ \A s \in Slots : (\E i \in I : Slot(r.of, i) = s) => \E i \in I : d[s] # None /\ d[s].val = <<r.of.c, i>>
  <1> DEFINE e == DynamoEnd(r)
  <1>1. e \in Int \cup {None} /\ (Positive /\ r.of.live # None =>
            e >= r.of.at + r.of.live - Slack(r.of.live) /\ e <= Made(r) + r.of.live + 1)
    BY DynamoEnds
  <1> HIDE DEF e
  <1>2. d = Write(db, r.of, I, e)
    BY DEF DynamoItems, e
  <1> DEFINE w == Write(db, r.of, I, e)
  <1>3. /\ Leaves(r, w) /\ (r.c = r.of.c => I \subseteq Taken(r, w)) /\ Taken(r, w) \subseteq r.at
        /\ \A s \in Slots : (\A i \in I : Slot(r.of, i) # s) => w[s] = db[s]
        /\ \A s \in Slots : (\E i \in I : Slot(r.of, i) = s) => \E i \in I : w[s] # None /\ w[s].val = <<r.of.c, i>>
    BY <1>1, WriteLeaves
  <1>4. d = w
    BY <1>2
  <1> HIDE DEF w
  <1> QED BY <1>3, <1>4

LEMMA DynamoPutKeeps == ASSUME CallsInv, DynamoPut PROVE Kept
  <1>1. PICK r \in Dy("put") : Serve(r, DynamoItems(r, r.at), aux, {}, True(job[r.t], r.at))
    BY Zenon DEF DynamoPut
  <1> DEFINE e == DynamoEnd(r)
  <1>2. r \in flight /\ r.do = "put" /\ adapter = "dynamo"
    BY DyIn
  <1>3. e \in Int \cup {None} /\ (Positive /\ r.of.live # None =>
            e >= r.of.at + r.of.live - Slack(r.of.live) /\ e <= Made(r) + r.of.live + 1)
    BY <1>2, DynamoEnds
  <1>4. Serve(r, Write(db, r.of, r.at, e), aux, {}, True(job[r.t], r.at))
    BY <1>1 DEF DynamoItems
  <1> HIDE DEF e
  <1> QED BY <1>2, <1>3, <1>4, KeepsSame, PutKeeps

LEMMA DynamoReadKeeps == ASSUME CallsInv, DynamoRead PROVE Kept
  <1>1. PICK r \in Dy("read") :
           Serve(r, db, aux, IF Old(r.of, r.at, now) = {} THEN {} ELSE {Command(r.t, r.of, "sweep", r.at, {})},
                 Judged(job[r.t], r.at, now))
    BY Zenon DEF DynamoRead
  <1>2. r \in flight /\ r.do = "read" /\ adapter = "dynamo"
    BY DyIn
  <1> QED BY <1>1, <1>2, KeyReadKeeps

LEMMA DynamoSweptKeeps == ASSUME CallsInv, DynamoSwept PROVE Kept
  <1>1. PICK r \in Dy("sweep") : Serve(r, Drop(db, SlotsAt(r.of, r.at)), aux, {}, job[r.t])
    BY Zenon DEF DynamoSwept
  <1> DEFINE d == Drop(db, SlotsAt(r.of, r.at))
  <1>2. r \in flight /\ r.do = "sweep" /\ adapter \in {"memcache", "etcd", "dynamo"}
    BY DyIn
  <1>3. (d = db \/ d = Drop(db, SlotsAt(r.of, r.at))) /\ Serve(r, d, aux, {}, job[r.t])
    BY <1>1
  <1> HIDE DEF d
  <1> QED BY <1>2, <1>3, KeySweptKeeps

LEMMA DynamoDeletedKeeps == ASSUME CallsInv, DynamoDeleted PROVE Kept
  <1>1. PICK r \in Dy("delete") : Serve(r, Drop(db, SlotsAt(r.of, r.at)), aux, {}, Existed(job[r.t], r.at))
    BY Zenon DEF DynamoDeleted
  <1>2. r \in flight /\ r.do = "delete" /\ adapter = "dynamo"
    BY DyIn
  <1>3. ~Chunked(r, adapter)
    BY <1>2 DEF Chunked
  <1> QED BY <1>1, <1>2, <1>3, DeletedKeeps

\* setMany goes on with the chunk at p.
LEMMA WriteFromIs ==
    ASSUME CallsInv, adapter = "dynamo", NEW j, NEW t, NEW n, Calling(j, t, n), j.op = "setMany", NEW p \in Nat \ {0},
           p = 1 \/ p > WriteChunk, NEW F, F = WriteFrom(t, j, p)
    PROVE  /\ \A f \in F : /\ f.t = t /\ f.of = Of(j) /\ f.c = j.c /\ f.do = "write" /\ f.with = p
                           /\ CommandOK(f, adapter, n, now) /\ InHand(f, adapter) = {} /\ Parked(f, adapter) = {}
                           /\ Targets(f, adapter) = {} /\ Covers(f, adapter) = {i \in All(j) : i >= p}
           /\ \A f, g \in F : f = g
           /\ \A i \in All(j) : i >= p => \E f \in F : i \in Covers(f, adapter)
           /\ All(j) \subseteq Nat \ {0}
  <1> DEFINE I == Chunk(j, p, WriteChunk)
             f == Command(t, j, "write", I, p)
  <1>1. f.t = t /\ f.of = Of(j) /\ f.c = j.c /\ f.do = "write" /\ f.at = I /\ f.with = p
    BY CommandIs
  <1>2. All(Of(j)) = All(j) /\ Of(j).op = j.op /\ I \in SUBSET All(j) /\ Chunk(Of(j), p, WriteChunk) = I
    BY OfAll DEF Chunk
  <1>3. Chunked(f, adapter)
    <2> HIDE DEF f
    <2> QED BY <1>1, <1>2 DEF Chunked
  <1>4. ShapeOK(f, adapter, now)
    <2> HIDE DEF f, I
    <2> QED BY <1>1, <1>2 DEF ShapeOK
  <1>5. CommandOK(f, adapter, n, now) /\ Parked(f, adapter) = {}
    <2>1. Fits("write", j.op)
      BY DEF Fits, WriteOps
    <2> HIDE DEF I
    <2> QED BY <1>2, <1>4, <2>1, PlainMade
  <1> HIDE DEF f
  <1>6. InHand(f, adapter) = {} /\ Targets(f, adapter) = {}
    BY <1>1 DEF InHand, BeenRead, SlotsAt, Targets
  <1>7. Covers(f, adapter) = {i \in All(j) : i >= p}
    BY <1>1, <1>2, <1>3, CoversOf DEF Settling
  <1>8. F = IF I = {} THEN {} ELSE {f}
    BY DEF WriteFrom, f
  <1>9. Len(j.keys) \in Nat /\ All(j) = 1..Len(j.keys)
    <2>1. j.keys \in Seq(Keys)
      BY <1>2, OfAll DEF Calling, OfOK
    <2> QED BY <2>1, EntriesAre DEF All
  <1>10. I = {} => \A i \in All(j) : ~(i >= p)
    <2>1. WriteChunk \in Nat \ {0}
      BY EntriesAssumption
    <2> QED BY <1>9, <2>1 DEF Chunk
  <1>11. All(j) \subseteq Nat \ {0}
    BY <1>9
  <1> HIDE DEF I
  <1> QED BY <1>1, <1>5, <1>6, <1>7, <1>8, <1>10, <1>11

LEMMA DynamoSetManyKeeps ==
    ASSUME CallsInv, adapter = "dynamo", NEW t \in Tasks, NEW j, New(j, t), DynamoSetMany(t, j)
    PROVE  Kept
  <1> DEFINE F == WriteFrom(t, j, 1)
             R == [i \in DOMAIN j.res |-> IF i \in All(j) THEN TRUE ELSE j.res[i]]
             k == [j EXCEPT !.res = R]
  <1>1. j.op = "setMany" /\ Enter(t, True(j, All(j)), F)
    BY DEF DynamoSetMany
  <1>2. Calling(j, t, calls + 1) /\ Items(j) = All(j) /\ j.op \in WriteOps /\ Of(j).op = j.op
    BY <1>1, NewIs, OfAll DEF WriteOps
  <1>3. k = True(j, All(j))
    BY DEF True, Answered
  <1>4. EnterWith(t, k, F, aux)
    BY <1>1, <1>3 DEF Enter
  <1>5. Onward(j, j) /\ DOMAIN j.res = All(j)
    BY FurtherSelf DEF Onward, New, Fresh, CallOK
  <1>6. DOMAIN R = All(j) /\ \A i \in All(j) : R[i] = TRUE
    BY <1>5
  <1>7. F = WriteFrom(t, j, 1) /\ 1 \in Nat \ {0}
    OBVIOUS
  <1> HIDE DEF R, F
  <1>8. Onward(j, k) /\ k.res = R /\ Of(k) = Of(j) /\ k.put = j.put /\ k.out = j.out
    BY <1>5, <1>6, AnsweredOnward
  <1> HIDE DEF k
  <1>9. /\ \A f \in F : /\ f.t = t /\ f.of = Of(j) /\ f.c = j.c /\ f.do = "write" /\ CommandOK(f, adapter, calls + 1, now)
                        /\ InHand(f, adapter) = {}
        /\ (\A f, g \in F : f = g) /\ All(j) \subseteq Nat \ {0}
        /\ \A i \in All(j) : i >= 1 => \E f \in F : i \in Covers(f, adapter)
    BY <1>1, <1>2, <1>7, WriteFromIs
  <1>10. k.op = j.op /\ k.c = j.c /\ k.at = j.at /\ All(k) = All(j) /\ Items(k) = All(j)
    BY <1>2, <1>8, SameCall
  <1>11. Fresh(k, t, calls + 1)
    BY <1>8, <1>10 DEF Fresh, New, Onward
  <1>12. \A i \in All(j) : k.res[i] = TRUE /\ i \notin k.put
    BY <1>6, <1>8 DEF New
  <1>13. \A i \in Items(k) : Open(k, i, Starts(k), adapter) /\ \E f \in F : i \in Covers(f, adapter)
    <2> TAKE i \in Items(k)
    <2>1. Open(k, i, Starts(k), adapter)
      BY <1>1, <1>10, <1>12 DEF Open, DeleteOps
    <2>2. i \in Nat \ {0}
      BY <1>9, <1>10
    <2>3. i >= 1
      BY <2>2
    <2> QED BY <1>9, <1>10, <2>1, <2>3
  <1>14. Together(F, adapter)
    BY <1>9 DEF Together
  <1>15. PutOK(k, F)
    BY <1>10, <1>12 DEF PutOK
  <1>16. Opens(k, t, calls + 1, F)
    BY <1>8, <1>9, <1>10, <1>13, <1>14, <1>15 DEF Opens
  <1> QED BY <1>4, <1>11, <1>16, KeepsSame, EnterKeeps

\* What the service left of a chunk is answered at the last entry of the key.
LEMMA LastIs ==
    ASSUME NEW o, NEW n, NEW m, OfOK(o, adapter, n, m), NEW i \in All(o)
    PROVE  LastOf(o, i) \in All(o) /\ o.keys[LastOf(o, i)] = o.keys[i] /\ i <= LastOf(o, i)
  <1> DEFINE J == {x \in All(o) : o.keys[x] = o.keys[i]}
  <1>1. Len(o.keys) \in Nat /\ All(o) = 1..Len(o.keys)
    <2>1. o.keys \in Seq(Keys)
      BY DEF OfOK
    <2> QED BY <2>1, EntriesAre DEF All
  <1>2. J \subseteq 1..Len(o.keys) /\ i \in J
    BY <1>1
  <1>3. \E x \in J : \A y \in J : y <= x
    BY <1>1, <1>2, LastPosition
  <1>4. \E x \in All(o) : o.keys[x] = o.keys[i] /\ \A y \in All(o) : o.keys[y] = o.keys[i] => y <= x
    BY <1>3
  <1> QED BY <1>4 DEF LastOf

LEMMA DynamoWrittenKeeps == ASSUME CallsInv, DynamoWritten PROVE Kept
  <1>1. PICK r \in Dy("write") :
           /\ ~Repeats(r)
           /\ \E P \in SUBSET r.at :
                 LET left == {LastOf(r.of, i) : i \in r.at \ P}
                 IN  Serve(r, DynamoItems(r, P), aux, WriteFrom(r.t, r.of, r.with + WriteChunk),
                           Answered(job[r.t], left, LAMBDA i : FALSE))
    BY Zenon DEF DynamoWritten
  <1>2. PICK P \in SUBSET r.at :
           LET left == {LastOf(r.of, i) : i \in r.at \ P}
           IN  Serve(r, DynamoItems(r, P), aux, WriteFrom(r.t, r.of, r.with + WriteChunk),
                     Answered(job[r.t], left, LAMBDA i : FALSE))
    BY <1>1
  <1> DEFINE left == {LastOf(r.of, i) : i \in r.at \ P}
             d == DynamoItems(r, P)
             p == r.with + WriteChunk
             F == WriteFrom(r.t, r.of, p)
             jt == job[r.t]
             R == [i \in DOMAIN jt.res |-> IF i \in left THEN FALSE ELSE jt.res[i]]
             j == [jt EXCEPT !.res = R]
  <1>3. r \in flight /\ r.do = "write" /\ adapter = "dynamo"
    BY DyIn
  <1>4. /\ r.of.op = "setMany" /\ r.of.op \in WriteOps /\ r.of.op \in KeyOps /\ r.of = Of(r.of) /\ r.c = r.of.c
        /\ Calling(r.of, r.t, calls) /\ OfOK(r.of, adapter, calls, now) /\ r.at \subseteq All(r.of)
    <2>1. r.of.op = "setMany" /\ r.c = r.of.c
      BY <1>3, FlightIs, NotLate DEF Fits
    <2> QED BY <1>3, <2>1, FlightIs, CallingOf DEF WriteOps, KeyOps
  <1>5. r.with \in Nat \ {0} /\ r.at = Chunk(r.of, r.with, WriteChunk) /\ (r.with = 1 \/ r.with > WriteChunk)
    BY <1>3, FlightIs DEF ShapeOK, Chunked
  <1>6. WriteChunk \in Nat \ {0} /\ p \in Nat \ {0} /\ p > WriteChunk /\ p = r.with + WriteChunk
    BY <1>5, EntriesAssumption
  <1>7. Serve(r, d, aux, F, j)
    <2>1. j = Answered(jt, left, LAMBDA i : FALSE)
      BY DEF Answered
    <2> QED BY <1>2, <2>1
  <1>8. /\ Leaves(r, d) /\ P \subseteq Taken(r, d) /\ Taken(r, d) \subseteq r.at
        /\ \A s \in Slots : (\A i \in P : Slot(r.of, i) # s) => d[s] = db[s]
        /\ \A s \in Slots : (\E i \in P : Slot(r.of, i) = s) => \E i \in P : d[s] # None /\ d[s].val = <<r.of.c, i>>
    BY <1>3, <1>4, DynamoItemsLeave
  <1>9. F = WriteFrom(r.t, r.of, p)
    OBVIOUS
  <1> HIDE DEF d, p, F
  <1>10. /\ \A f \in F : /\ f.t = r.t /\ f.of = r.of /\ f.c = r.c /\ f.do = "write" /\ f.with = p
                         /\ CommandOK(f, adapter, calls, now) /\ InHand(f, adapter) = {} /\ Parked(f, adapter) = {}
                         /\ Targets(f, adapter) = {} /\ Covers(f, adapter) = {i \in All(r.of) : i >= p}
         /\ (\A f, g \in F : f = g)
         /\ \A i \in All(r.of) : i >= p => \E f \in F : i \in Covers(f, adapter)
         /\ All(r.of) \subseteq Nat \ {0}
    BY <1>3, <1>4, <1>6, <1>9, WriteFromIs
  <1>11. \A f \in F : FlightOK(f)
    BY <1>10 DEF FlightOK, SweptOK
  <1>12. Sends(r, F)
    BY <1>10, <1>11 DEF Sends
  <1>13. d = db \/ r \notin F
    <2>1. ASSUME r \in F PROVE FALSE
      <3>1. r.with = p
        BY <1>10, <2>1
      <3> QED BY <1>5, <1>6, <3>1
    <2> QED BY <2>1
  <1>14. \A i \in All(r.of) : i \in r.at <=> (i >= r.with /\ ~(i >= p))
    BY <1>5, <1>6, <1>10 DEF Chunk
  <1>15. /\ \A m \in left : m \in All(r.of) /\ m >= r.with
         /\ Reports => \A m \in All(r.of) : m \in left <=> m \in r.at \ P
    <2>1. \A i \in r.at : LastOf(r.of, i) \in All(r.of) /\ r.of.keys[LastOf(r.of, i)] = r.of.keys[i] /\ i <= LastOf(r.of, i)
      BY <1>4, LastIs
    <2>2. ASSUME NEW m \in left PROVE m \in All(r.of) /\ m >= r.with
      <3>1. PICK i \in r.at : m = LastOf(r.of, i)
        BY <2>2
      <3>2. m \in All(r.of) /\ i <= m /\ i \in All(r.of) /\ i >= r.with
        BY <1>4, <1>14, <2>1, <3>1
      <3> QED BY <1>5, <1>10, <3>2
    <2>3. ASSUME Reports, NEW i \in r.at PROVE LastOf(r.of, i) = i
      <3> DEFINE m == LastOf(r.of, i)
      <3>1. m \in All(r.of) /\ r.of.keys[m] = r.of.keys[i] /\ i \in All(r.of)
        BY <1>4, <2>1
      <3> HIDE DEF m
      <3>2. CASE \A x, y \in All(r.of) : r.of.keys[x] = r.of.keys[y] => x = y
        BY <3>1, <3>2 DEF m
      <3>3. CASE Len(r.of.keys) <= WriteChunk
        <4>1. All(r.of) = 1..Len(r.of.keys) /\ Len(r.of.keys) \in Nat
          <5>1. r.of.keys \in Seq(Keys)
            BY <1>4 DEF OfOK
          <5> QED BY <5>1, EntriesAre DEF All
        <4>2. m \in r.at
          BY <1>5, <1>6, <1>14, <3>1, <3>3, <4>1 DEF Chunk
        <4> QED BY <1>1, <3>1, <4>2 DEF Repeats, m
      <3>4. Apart(r.of, adapter)
        BY <1>4 DEF OfOK
      <3>5. Len(r.of.keys) <= WriteChunk \/ \A x, y \in All(r.of) : r.of.keys[x] = r.of.keys[y] => x = y
        BY <1>3, <1>4, <2>3, <3>4 DEF Apart, All
      <3> QED BY <3>2, <3>3, <3>5
    <2>4. ASSUME Reports, NEW m \in All(r.of) PROVE m \in left <=> m \in r.at \ P
      <3>1. ASSUME m \in left PROVE m \in r.at \ P
        <4>1. PICK i \in r.at \ P : m = LastOf(r.of, i)
          BY <3>1
        <4> QED BY <2>3, <2>4, <4>1
      <3>2. ASSUME m \in r.at \ P PROVE m \in left
        <4>1. LastOf(r.of, m) = m
          BY <2>3, <2>4, <3>2
        <4> QED BY <3>2, <4>1
      <3> QED BY <3>1, <3>2
    <2> HIDE DEF left
    <2> QED BY <2>2, <2>4
  <1> HIDE DEF left
  <1>16. ASSUME Live(r) PROVE Moves(r, d, F, j)
    <2>1. /\ Onward(jt, jt) /\ DOMAIN jt.res = All(jt) /\ All(jt) = All(r.of) /\ jt.op = r.of.op
          /\ PutOK(jt, Mine(flight, r.t, r.c)) /\ Together(Mine(flight, r.t, r.c), adapter) /\ r \in Mine(flight, r.t, r.c)
          /\ Carries(r, seen[r.t], adapter, aux, db)
      BY <1>3, <1>16, StaysOnward, LiveCall DEF CallOK
    <2>2. DOMAIN R = All(jt) /\ \A i \in All(r.of) : R[i] = IF i \in left THEN FALSE ELSE jt.res[i]
      BY <2>1
    <2> HIDE DEF R
    <2>3. Onward(jt, j) /\ j.res = R /\ j.put = jt.put /\ Of(j) = Of(jt)
      BY <2>1, <2>2, AnsweredOnward
    <2> HIDE DEF j
    <2>4. \A i \in All(r.of) : i >= r.with => jt.res[i] \in BOOLEAN /\ i \notin jt.put /\ (Reports => jt.res[i])
      BY <1>3, <2>1 DEF PutOK
    <2>5. Unwritten(r, db)
      BY <1>3, <2>1 DEF Carries
    <2>6. Taken(r, d) = P
      <3> SUFFICES ASSUME NEW i \in Taken(r, d), i \notin P PROVE FALSE
        BY <1>8
      <3> DEFINE s == Slot(r.of, i)
      <3>1. i \in r.at /\ s \in Slots
        BY <1>4, <1>8, SlotIn
      <3>2. \A k \in r.at : Slot(r.of, k) = s => k = i
        BY <1>1, <3>1 DEF Repeats, Slot
      <3>3. d[s] # None /\ \E k \in r.at : Slot(r.of, k) = s /\ d[s].val = <<r.c, k>>
        BY <1>4 DEF Taken
      <3>4. d[s] = db[s]
        BY <1>8, <3>1, <3>2
      <3> HIDE DEF s
      <3>5. db[s] # None /\ db[s].val = <<r.of.c, i>>
        BY <1>4, <3>2, <3>3, <3>4
      <3>6. i \in All(r.of) /\ i >= r.with
        BY <1>4, <1>14, <3>1
      <3> QED BY <2>5, <3>1, <3>5, <3>6 DEF Unwritten
    <2>7. NextOf(r, F) = F
      <3>1. \A q \in Mine(flight, r.t, r.c) : q = r
        BY <1>3, <2>1 DEF Together
      <3> QED BY <1>10, <3>1 DEF NextOf, Mine
    <2>8. Of(j) = r.of /\ j.op = r.of.op /\ All(j) = All(r.of) /\ Items(j) = All(r.of)
      <3>1. Of(j) = r.of
        BY <1>3, <1>16, <2>3, AfterOK
      <3>2. j.op = r.of.op /\ All(j) = All(r.of) /\ Items(j) = Items(r.of)
        BY <1>4, <3>1, SameCall
      <3> QED BY <1>4, <3>1, <3>2 DEF Items
    <2> DEFINE k == After(r, d, j)
               G == Sights(r, d, j)
    <2>9. Of(k) = r.of /\ k.res = R /\ k.put = jt.put \cup P /\ k.op = r.of.op /\ All(k) = All(r.of)
      <3>1. Of(k) = r.of /\ k.res = R /\ k.put = jt.put \cup P
        BY <1>3, <1>16, <2>3, <2>6, AfterOK
      <3> HIDE DEF k
      <3> QED BY <1>4, <3>1, SameCall
    <2>10. ASSUME NEW i \in All(r.of), i >= r.with, ~(i >= p) PROVE Settled(k, i, G, adapter, now)
      <3>1. i \in r.at /\ j.res[i] \in BOOLEAN
        BY <1>14, <2>2, <2>3, <2>4, <2>10
      <3>2. Tells(r.of, adapter) => (j.res[i] <=> i \in job[r.t].put \cup Taken(r, d))
        <4> SUFFICES ASSUME Reports PROVE j.res[i] <=> i \in job[r.t].put \cup Taken(r, d)
          BY DEF Tells
        <4>1. i \in left <=> i \notin P
          BY <1>15, <3>1
        <4>2. CASE i \in P
          BY <2>2, <2>3, <2>4, <2>6, <2>10, <4>1, <4>2
        <4>3. CASE i \notin P
          BY <2>2, <2>3, <2>4, <2>6, <2>10, <4>1, <4>3
        <4> QED BY <4>2, <4>3
      <3> QED BY <1>3, <1>4, <1>16, <2>3, <3>1, <3>2, WriteSettled
    <2>11. \A i \in All(r.of) : i >= p => i >= r.with /\ i \notin P
      <3> TAKE i \in All(r.of)
      <3>1. i \in Nat
        BY <1>10
      <3>2. i >= p => i >= r.with
        BY <1>5, <1>6, <3>1
      <3> QED BY <1>14, <3>2
    <2>12. ASSUME NEW i \in All(r.of), i >= p
           PROVE  k.res[i] \in BOOLEAN /\ i \notin k.put /\ (Reports => k.res[i])
      <3>1. jt.res[i] \in BOOLEAN /\ i \notin jt.put /\ (Reports => jt.res[i]) /\ i \notin P
        BY <2>4, <2>11, <2>12
      <3>2. Reports => i \notin left
        BY <1>14, <1>15, <2>12
      <3> QED BY <2>2, <2>9, <3>1, <3>2
    <2>13. Settles(r, d, F, j)
      <3> SUFFICES ASSUME NEW i \in All(r.of)
                   PROVE  \/ Settled(k, i, G, adapter, now)
                          \/ (\E f \in F : i \in Covers(f, adapter)) /\ Open(k, i, G, adapter)
                          \/ j.res[i] = jt.res[i] /\ i \notin Taken(r, d) /\ i \notin Covers(r, adapter)
        BY <2>7, <2>8 DEF Settles
      <3>1. CASE i >= p
        <4>1. Open(k, i, G, adapter)
          BY <1>3, <1>4, <2>9, <2>12, <3>1 DEF Open, DeleteOps
        <4> QED BY <1>10, <3>1, <4>1
      <3>2. CASE i >= r.with /\ ~(i >= p)
        BY <2>10, <3>2
      <3>3. CASE ~(i >= r.with)
        <4>1. i \notin left /\ i \notin r.at
          BY <1>14, <1>15, <3>3
        <4>2. Covers(r, adapter) = {x \in All(r.of) : x >= r.with}
          BY <1>3, CoversOf DEF Settling, Chunked
        <4> QED BY <2>2, <2>3, <2>6, <3>3, <4>1, <4>2
      <3> QED BY <2>11, <3>1, <3>2, <3>3
    <2>14. OutOK(k, F, adapter, G)
      BY <1>4, <2>9 DEF OutOK
    <2>15. Together(F, adapter)
      BY <1>10 DEF Together
    <2>16. PutOK(k, F)
      BY <1>10, <2>9, <2>12 DEF PutOK
    <2>17. \A f \in F : Carries(f, G, adapter, aux, d)
      <3> TAKE f \in F
      <3>1. HandSeen(f, G, adapter, aux) /\ Parked(f, adapter) = {}
        BY <1>10 DEF HandSeen
      <3>2. Unwritten(f, d)
        <4> SUFFICES ASSUME NEW s \in Slots, d[s] # None, d[s].val[1] = r.of.c, NEW i \in All(r.of), i >= p
                     PROVE  d[s].val[2] # i
          BY <1>10 DEF Unwritten
        <4>1. CASE \E m \in P : Slot(r.of, m) = s
          <5>1. PICK m \in P : d[s].val = <<r.of.c, m>>
            BY <1>8, <4>1
          <5> QED BY <2>11, <5>1
        <4>2. CASE ~\E m \in P : Slot(r.of, m) = s
          <5>1. d[s] = db[s]
            BY <1>8, <4>2
          <5> QED BY <2>5, <2>11, <5>1 DEF Unwritten
        <4> QED BY <4>1, <4>2
      <3> QED BY <3>1, <3>2 DEF Carries
    <2> QED BY <2>3, <2>7, <2>13, <2>14, <2>15, <2>16, <2>17 DEF Moves
  <1> HIDE DEF j
  <1> QED BY <1>3, <1>7, <1>8, <1>12, <1>13, <1>16, KeepsSame, ServeKeeps

\* getMany and hasMany go on with the chunk at p, or have come to judge.
LEMMA ReadFromIs ==
    ASSUME CallsInv, adapter = "dynamo", NEW j, NEW t, NEW n, Calling(j, t, n), j.op \in {"getMany", "hasMany"},
           NEW p \in Nat \ {0}, NEW rows \in [Slots -> Rows], NEW F, F = ReadFrom(t, j, p, rows)
    PROVE  /\ F # {} /\ \A f, g \in F : f = g
           /\ \A f \in F : /\ f.t = t /\ f.of = Of(j) /\ f.c = j.c /\ f.do \in {"batch", "judge"}
                          /\ CommandOK(f, adapter, n, now) /\ Parked(f, adapter) = {} /\ Covers(f, adapter) = All(j)
                          /\ Hand(f, adapter) = rows /\ \A i : i \in BeenRead(f) <=> i \in All(j) /\ i < p
  <1> DEFINE I == Chunk(j, p, ReadChunk)
  <1>1. /\ All(Of(j)) = All(j) /\ Of(j).op = j.op /\ I \in SUBSET All(j) /\ Chunk(Of(j), p, ReadChunk) = I
        /\ All(j) \in SUBSET All(j)
    BY OfAll DEF Chunk
  <1>2. Len(j.keys) \in Nat /\ All(j) = 1..Len(j.keys)
    <2>1. j.keys \in Seq(Keys)
      BY <1>1, OfAll DEF Calling, OfOK
    <2> QED BY <2>1, EntriesAre DEF All
  <1>3. ReadChunk \in Nat \ {0}
    BY EntriesAssumption
  <1>4. I = {} => \A i \in All(j) : i < p
    <2>1. ASSUME NEW i \in All(j), ~(i < p) PROVE p \in I
      <3>1. i \in Nat /\ i <= Len(j.keys) /\ p <= i
        BY <1>2, <2>1
      <3>2. p \in All(j)
        BY <1>2, <3>1
      <3>3. p >= p /\ p < p + ReadChunk
        BY <1>3
      <3> QED BY <3>2, <3>3 DEF Chunk
    <2> QED BY <2>1
  <1>5. \A i \in All(j) : (i < p + ReadChunk /\ i \notin I) <=> i < p
    BY <1>2, <1>3 DEF Chunk
  <1>6. Fits("batch", j.op) /\ Fits("judge", j.op)
    BY DEF Fits
  <1> HIDE DEF I
  <1>7. CASE I = {}
    <2> DEFINE A == All(j)
               f == Command(t, j, "judge", A, rows)
    <2>1. f.t = t /\ f.of = Of(j) /\ f.c = j.c /\ f.do = "judge" /\ f.at = A /\ f.with = rows
      BY CommandIs
    <2>2. F = {f}
      BY <1>7 DEF ReadFrom, I
    <2>3. ShapeOK(f, adapter, now)
      <3> HIDE DEF f
      <3> QED BY <1>1, <2>1 DEF ShapeOK, Chunked
    <2>4. A \in SUBSET All(j)
      OBVIOUS
    <2> HIDE DEF A
    <2>5. CommandOK(f, adapter, n, now) /\ Parked(f, adapter) = {}
      BY <1>6, <2>3, <2>4, PlainMade
    <2> HIDE DEF f
    <2>6. Hand(f, adapter) = rows
      BY <2>1 DEF Hand
    <2>7. \A i : i \in BeenRead(f) <=> i \in All(j) /\ i < p
      BY <1>1, <1>4, <1>7, <2>1 DEF BeenRead
    <2>8. Covers(f, adapter) = All(j)
      BY <1>1, <2>1, CoversOf DEF Settling, Chunked
    <2> QED BY <2>1, <2>2, <2>5, <2>6, <2>7, <2>8
  <1>8. CASE I # {}
    <2> DEFINE w == <<p, rows>>
               f == Command(t, j, "batch", I, w)
    <2>1. f.t = t /\ f.of = Of(j) /\ f.c = j.c /\ f.do = "batch" /\ f.at = I /\ f.with = w /\ w[1] = p /\ w[2] = rows
      BY CommandIs
    <2>2. F = {f}
      BY <1>8 DEF ReadFrom, I
    <2> HIDE DEF w
    <2>3. ShapeOK(f, adapter, now)
      <3> HIDE DEF f
      <3> QED BY <1>1, <2>1 DEF ShapeOK, Chunked
    <2>5. CommandOK(f, adapter, n, now) /\ Parked(f, adapter) = {}
      BY <1>1, <1>6, <2>3, PlainMade
    <2> HIDE DEF f
    <2>6. Hand(f, adapter) = rows
      BY <2>1 DEF Hand
    <2>7. \A i : i \in BeenRead(f) <=> i \in All(j) /\ i < p
      BY <1>1, <1>5, <2>1 DEF BeenRead
    <2>8. Covers(f, adapter) = All(j)
      BY <1>1, <2>1, CoversOf DEF Settling, Chunked
    <2> QED BY <2>1, <2>2, <2>5, <2>6, <2>7, <2>8
  <1> QED BY <1>7, <1>8

LEMMA DynamoReadManyKeeps ==
    ASSUME CallsInv, adapter = "dynamo", NEW t \in Tasks, NEW j, New(j, t), j.op \in {"getMany", "hasMany"},
           Enter(t, j, IF All(j) = {} THEN {} ELSE ReadFrom(t, j, 1, NoRows))
    PROVE  Kept
  <1> DEFINE F == ReadFrom(t, j, 1, NoRows)
  <1>1. Calling(j, t, calls + 1) /\ Items(j) = All(j) /\ Of(j).op = j.op /\ Of(j).c = j.c
    BY NewIs, OfAll
  <1>2. CASE All(j) = {}
    <2>1. EnterWith(t, j, {}, aux) /\ Items(j) = {}
      BY <1>1, <1>2 DEF Enter
    <2> QED BY <2>1, KeepsSame, NoneKeeps
  <1>3. CASE All(j) # {}
    <2>1. NoRows \in [Slots -> Rows]
      BY DEF NoRows, Rows
    <2>2. F = ReadFrom(t, j, 1, NoRows) /\ 1 \in Nat \ {0}
      OBVIOUS
    <2>3. EnterWith(t, j, F, aux)
      BY <1>3 DEF Enter
    <2> HIDE DEF F
    <2>4. PICK f : /\ F = {f} /\ f.t = t /\ f.of = Of(j) /\ f.c = j.c /\ f.do \in {"batch", "judge"}
                   /\ CommandOK(f, adapter, calls + 1, now) /\ Parked(f, adapter) = {} /\ Covers(f, adapter) = All(j)
                   /\ \A i : i \in BeenRead(f) <=> i \in All(j) /\ i < 1
      <3>1. /\ F # {} /\ \A f, g \in F : f = g
            /\ \A f \in F : /\ f.t = t /\ f.of = Of(j) /\ f.c = j.c /\ f.do \in {"batch", "judge"}
                           /\ CommandOK(f, adapter, calls + 1, now) /\ Parked(f, adapter) = {} /\ Covers(f, adapter) = All(j)
                           /\ \A i : i \in BeenRead(f) <=> i \in All(j) /\ i < 1
        BY <1>1, <2>1, <2>2, ReadFromIs
      <3> QED BY <3>1
    <2>5. BeenRead(f) = {}
      <3>1. j.keys \in Seq(Keys)
        BY <1>1, OfAll DEF Calling, OfOK
      <3>2. Len(j.keys) \in Nat /\ All(j) = 1..Len(j.keys)
        BY <3>1, EntriesAre DEF All
      <3> QED BY <2>4, <3>2
    <2>6. InHand(f, adapter) = {}
      BY <2>4, <2>5 DEF InHand, SlotsAt
    <2> QED BY <1>1, <2>3, <2>4, <2>6, KeepsSame, OneKeeps
  <1> QED BY <1>2, <1>3

\* The rows there are go on to be asked for, or judged.
LEMMA BatchGoesOn ==
    ASSUME CallsInv, NEW r \in flight, r.do = "batch", NEW P \in SUBSET r.at, NEW rows \in [Slots -> Rows],
           \A s \in Slots : rows[s] = IF s \in SlotsAt(r.of, P) THEN db[s] ELSE r.with[2][s],
           NEW f, f.t = r.t, f.of = r.of, f.c = r.c, f.do \in {"batch", "judge"}, CommandOK(f, adapter, calls, now),
           Parked(f, adapter) = {}, Covers(f, adapter) = All(r.of), Hand(f, adapter) = rows,
           BeenRead(f) = BeenRead(r) \cup P, Serve(r, db, aux, {f}, job[r.t])
    PROVE  Kept
  <1> DEFINE F == {f}
             jt == job[r.t]
  <1>1. /\ r.of.op \in {"getMany", "hasMany"} /\ r.of.op \in KeyOps \ WriteOps /\ r.at \subseteq All(r.of)
        /\ OfOK(r.of, adapter, calls, now) /\ r.of = Of(r.of)
    BY FlightIs, OpsApart DEF Fits
  <1>2. InHand(f, adapter) = SlotsAt(r.of, BeenRead(r)) \cup SlotsAt(r.of, P)
    BY DEF InHand, SlotsAt
  <1>3. InHand(r, adapter) = SlotsAt(r.of, BeenRead(r)) /\ Hand(r, adapter) = r.with[2]
    BY DEF InHand, Hand
  <1>4. SlotsAt(r.of, P) \subseteq Slots /\ SlotsAt(r.of, BeenRead(r)) \subseteq Slots
    <2>1. P \subseteq All(r.of) /\ BeenRead(r) \subseteq All(r.of)
      BY <1>1 DEF BeenRead
    <2> QED BY <1>1, <2>1, SlotIn DEF SlotsAt
  <1>5. FlightOK(f)
    <2>1. SweptOK(r, adapter, db, dirty, now)
      BY FlightIs
    <2>2. \A s \in InHand(r, adapter) : Hand(r, adapter)[s] # None => db[s] \in {None, Hand(r, adapter)[s]} \/ s \in dirty[r.of.c]
      BY <2>1 DEF SweptOK
    <2>3. \A s \in InHand(f, adapter) : Hand(f, adapter)[s] # None => db[s] \in {None, Hand(f, adapter)[s]} \/ s \in dirty[f.of.c]
      BY <1>2, <1>3, <1>4, <2>2
    <2>4. Targets(f, adapter) = {}
      BY DEF Targets
    <2> QED BY <2>3, <2>4 DEF FlightOK, SweptOK
  <1>6. Sends(r, F)
    BY <1>5 DEF Sends
  <1>7. ASSUME Live(r) PROVE Moves(r, db, F, jt)
    <2>1. Onward(jt, jt) /\ Carries(r, seen[r.t], adapter, aux, db) /\ Taken(r, db) = {} /\ r.of.at <= now /\ r.of.at \in Nat /\ now \in Nat
      BY <1>1, <1>7, StaysOnward, LiveCall, TakenSame, Clocks
    <2> HIDE DEF jt
    <2> DEFINE G == Sights(r, db, jt)
    <2>2. JudgeAt(f, adapter, aux) = r.of.at /\ JudgeAt(r, adapter, aux) = r.of.at
      BY DEF JudgeAt
    <2>3. HandSeen(r, seen[r.t], adapter, aux)
      BY <2>1 DEF Carries
    <2>4. ASSUME NEW i \in All(r.of) PROVE Slot(r.of, i) \in Slots /\ seen[r.t][Slot(r.of, i)] \subseteq G[Slot(r.of, i)]
      BY <1>1, <1>7, <2>1, <2>4, KeySights DEF jt
    <2>5. ASSUME NEW i \in P PROVE SeenAt(db[Slot(r.of, i)], r.of.at, G[Slot(r.of, i)])
      <3>1. i \in All(r.of)
        BY <1>1, <2>5
      <3> DEFINE n == r.of.at
      <3>2. n \in Nat /\ r.of.at <= n /\ n <= now
        BY <2>1
      <3> HIDE DEF n
      <3>3. SeenAt(db[Slot(r.of, i)], n, G[Slot(r.of, i)])
        BY <1>1, <1>7, <2>1, <3>1, <3>2, JudgedSeen DEF jt
      <3> QED BY <3>3 DEF n
    <2>6. ASSUME NEW i \in BeenRead(r) PROVE SeenAt(r.with[2][Slot(r.of, i)], r.of.at, G[Slot(r.of, i)])
      <3>1. i \in All(r.of)
        BY <2>6 DEF BeenRead
      <3>2. Slot(r.of, i) \in InHand(r, adapter)
        BY <1>3 DEF SlotsAt
      <3>3. SeenAt(r.with[2][Slot(r.of, i)], r.of.at, seen[r.t][Slot(r.of, i)])
        BY <1>3, <2>2, <2>3, <3>2 DEF HandSeen
      <3> HIDE DEF G
      <3> QED BY <2>4, <3>1, <3>3, SeenGrows
    <2> HIDE DEF G
    <2>7. \A s \in InHand(f, adapter) : SeenAt(rows[s], r.of.at, G[s])
      <3> TAKE s \in InHand(f, adapter)
      <3>1. CASE s \in SlotsAt(r.of, P)
        BY <1>4, <2>5, <3>1 DEF SlotsAt
      <3>2. CASE s \notin SlotsAt(r.of, P)
        BY <1>2, <1>4, <2>6, <3>2 DEF SlotsAt
      <3> QED BY <3>1, <3>2
    <2>8. HandSeen(f, G, adapter, aux)
      BY <2>2, <2>7 DEF HandSeen
    <2>9. \A g \in F : g.do # "write" /\ Carries(g, Sights(r, db, jt), adapter, aux, db)
      BY <2>8 DEF Carries, G
    <2>10. f \in NextOf(r, F)
      BY DEF NextOf, Mine
    <2>11. \A i \in All(r.of) :
               /\ jt.res[i] = job[r.t].res[i] /\ i \notin Taken(r, db)
               /\ i \in Covers(r, adapter) => \E g \in NextOf(r, F) : i \in Covers(g, adapter)
      BY <2>1, <2>10 DEF jt
    <2> HIDE DEF F
    <2> QED BY <1>1, <1>6, <1>7, <2>1, <2>9, <2>11, KeyMoves DEF jt
  <1>8. Serve(r, db, aux, F, jt) /\ Leaves(r, db)
    BY LeavesSame
  <1> HIDE DEF F, jt
  <1> QED BY <1>6, <1>7, <1>8, KeepsSame, ServeKeeps

LEMMA DynamoBatchKeeps == ASSUME CallsInv, DynamoBatch PROVE Kept
  <1>1. PICK r \in Dy("batch") :
           /\ ~Repeats(r)
           /\ \E P \in (SUBSET r.at) \ {{}} :
                 LET rows == [s \in Slots |-> IF s \in SlotsAt(r.of, P) THEN db[s] ELSE r.with[2][s]]
                 IN  Serve(r, db, aux,
                           IF P = r.at THEN ReadFrom(r.t, r.of, r.with[1] + ReadChunk, rows)
                           ELSE {Command(r.t, r.of, "batch", r.at \ P, <<r.with[1], rows>>)},
                           job[r.t])
    BY Zenon DEF DynamoBatch
  <1>2. PICK P \in (SUBSET r.at) \ {{}} :
           LET rows == [s \in Slots |-> IF s \in SlotsAt(r.of, P) THEN db[s] ELSE r.with[2][s]]
           IN  Serve(r, db, aux,
                     IF P = r.at THEN ReadFrom(r.t, r.of, r.with[1] + ReadChunk, rows)
                     ELSE {Command(r.t, r.of, "batch", r.at \ P, <<r.with[1], rows>>)},
                     job[r.t])
    BY <1>1
  <1> DEFINE rows == [s \in Slots |-> IF s \in SlotsAt(r.of, P) THEN db[s] ELSE r.with[2][s]]
             p == r.with[1] + ReadChunk
  <1>3. r \in flight /\ r.do = "batch" /\ adapter = "dynamo"
    BY DyIn
  <1>4. /\ r.of.op \in {"getMany", "hasMany"} /\ r.of = Of(r.of) /\ r.c = r.of.c /\ Calling(r.of, r.t, calls)
        /\ r.at \subseteq All(r.of) /\ OfOK(r.of, adapter, calls, now)
    BY <1>3, FlightIs, NotLate, CallingOf DEF Fits
  <1>5. r.with[1] \in Nat \ {0} /\ r.at \subseteq Chunk(r.of, r.with[1], ReadChunk) /\ r.with[2] \in [Slots -> Rows]
    <2>1. ShapeOK(r, adapter, now)
      BY <1>3, FlightIs
    <2> QED BY <1>3, <2>1 DEF ShapeOK
  <1>6. ReadChunk \in Nat \ {0} /\ p \in Nat \ {0} /\ p = r.with[1] + ReadChunk
    BY <1>5, EntriesAssumption
  <1>7. /\ rows \in [Slots -> Rows]
        /\ \A s \in Slots : rows[s] = IF s \in SlotsAt(r.of, P) THEN db[s] ELSE r.with[2][s]
    <2>1. db \in [Slots -> Rows]
      BY DEF CallsInv, Types
    <2> QED BY <1>5, <2>1
  <1>8. P \in SUBSET r.at /\ rows \in [Slots -> Rows]
    BY <1>7
  <1>9. IF P = r.at THEN Serve(r, db, aux, ReadFrom(r.t, r.of, p, rows), job[r.t])
        ELSE Serve(r, db, aux, {Command(r.t, r.of, "batch", r.at \ P, <<r.with[1], rows>>)}, job[r.t])
    BY <1>2
  <1>10. BeenRead(r) = {i \in All(r.of) : i < p /\ i \notin r.at}
    BY <1>3 DEF BeenRead
  <1> HIDE DEF rows, p
  <1>11. CASE P = r.at
    <2> DEFINE F == ReadFrom(r.t, r.of, p, rows)
    <2>1. F = ReadFrom(r.t, r.of, p, rows)
      OBVIOUS
    <2> HIDE DEF F
    <2>2. PICK f : /\ F = {f} /\ f.t = r.t /\ f.of = r.of /\ f.c = r.of.c /\ f.do \in {"batch", "judge"}
                   /\ CommandOK(f, adapter, calls, now) /\ Parked(f, adapter) = {} /\ Covers(f, adapter) = All(r.of)
                   /\ Hand(f, adapter) = rows /\ \A i : i \in BeenRead(f) <=> i \in All(r.of) /\ i < p
      <3>1. /\ F # {} /\ \A f, g \in F : f = g
            /\ \A f \in F : /\ f.t = r.t /\ f.of = Of(r.of) /\ f.c = r.of.c /\ f.do \in {"batch", "judge"}
                           /\ CommandOK(f, adapter, calls, now) /\ Parked(f, adapter) = {} /\ Covers(f, adapter) = All(r.of)
                           /\ Hand(f, adapter) = rows /\ \A i : i \in BeenRead(f) <=> i \in All(r.of) /\ i < p
        BY <1>3, <1>4, <1>6, <1>8, <2>1, ReadFromIs
      <3> QED BY <1>4, <3>1
    <2>3. BeenRead(f) = BeenRead(r) \cup P
      BY <1>4, <1>5, <1>6, <1>10, <1>11, <2>2 DEF Chunk
    <2>4. Serve(r, db, aux, {f}, job[r.t])
      BY <1>9, <1>11, <2>1, <2>2
    <2> QED BY <1>3, <1>4, <1>7, <1>8, <2>2, <2>3, <2>4, BatchGoesOn
  <1>12. CASE P # r.at
    <2> DEFINE I == r.at \ P
               w == <<r.with[1], rows>>
               f == Command(r.t, r.of, "batch", I, w)
    <2>1. f.t = r.t /\ f.of = r.of /\ f.c = r.c /\ f.do = "batch" /\ f.at = I /\ f.with = w /\ w[1] = r.with[1] /\ w[2] = rows
      BY <1>4, CommandIs
    <2>2. Serve(r, db, aux, {f}, job[r.t])
      BY <1>9, <1>12
    <2>3. I \in SUBSET All(r.of) /\ I \subseteq Chunk(r.of, r.with[1], ReadChunk)
      BY <1>4, <1>5
    <2>4. \A i : i \in I <=> i \in r.at /\ i \notin P
      OBVIOUS
    <2>5. Fits("batch", r.of.op)
      BY <1>4 DEF Fits
    <2> HIDE DEF w, I
    <2>6. ShapeOK(f, adapter, now)
      <3> HIDE DEF f
      <3> QED BY <1>5, <1>7, <2>1, <2>3 DEF ShapeOK, Chunked
    <2>7. CommandOK(f, adapter, calls, now) /\ Parked(f, adapter) = {}
      BY <1>4, <2>3, <2>5, <2>6, PlainMade
    <2> HIDE DEF f
    <2>8. Hand(f, adapter) = rows
      BY <2>1 DEF Hand
    <2>9. BeenRead(f) = BeenRead(r) \cup P
      <3>1. BeenRead(f) = {i \in All(r.of) : i < p /\ i \notin I}
        BY <2>1 DEF BeenRead, p
      <3>2. \A i \in P : i \in All(r.of) /\ i < p
        BY <1>4, <1>5, <1>6, <1>8 DEF Chunk
      <3> QED BY <1>10, <2>4, <3>1, <3>2
    <2>10. Covers(f, adapter) = All(r.of)
      BY <2>1, CoversOf DEF Settling, Chunked
    <2> QED BY <1>3, <1>7, <1>8, <2>1, <2>2, <2>7, <2>8, <2>9, <2>10, BatchGoesOn
  <1> QED BY <1>11, <1>12

\* They are judged by a later clock than they were read by.
LEMMA DynamoJudgedKeeps == ASSUME CallsInv, DynamoJudged PROVE Kept
  <1>1. PICK r \in Sent("dynamo", "judge") :
           LET old == {i \in r.at : Expired(r.with[Slot(r.of, i)], now)}
           IN  Serve(r, db, aux, {Command(r.t, r.of, "sweep", {i}, {}) : i \in old},
                     Answered(job[r.t], r.at, LAMBDA i : Answer(r.of.op, r.with[Slot(r.of, i)], i \in old)))
    BY Zenon DEF DynamoJudged
  <1> DEFINE old == {i \in r.at : Expired(r.with[Slot(r.of, i)], now)}
             F == {Command(r.t, r.of, "sweep", {i}, {}) : i \in old}
             jt == job[r.t]
             R == [i \in DOMAIN jt.res |-> IF i \in r.at THEN Answer(r.of.op, r.with[Slot(r.of, i)], i \in old) ELSE jt.res[i]]
             j == [jt EXCEPT !.res = R]
  <1>2. r \in flight /\ r.do = "judge" /\ adapter = "dynamo"
    BY ServedIn
  <1>3. /\ r.of.op \in {"getMany", "hasMany"} /\ r.of.op \in ReadOps \cup HasOps /\ r.of.op \in KeyOps \ WriteOps
        /\ r.of = Of(r.of) /\ r.c = r.of.c /\ OfOK(r.of, adapter, calls, now) /\ Fits("sweep", r.of.op)
    <2>1. Fits(r.do, r.of.op)
      BY <1>2, FlightIs
    <2>2. r.of.op \in {"getMany", "hasMany"}
      BY <1>2, <2>1 DEF Fits
    <2>3. r.of.op \in ReadOps \cup HasOps
      BY <2>2, OpsApart
    <2> QED BY <1>2, <2>2, <2>3, FlightIs, NotLate, OpsApart DEF Fits
  <1>4. r.at = All(r.of) /\ r.with \in [Slots -> Rows]
    <2>1. ShapeOK(r, adapter, now)
      BY <1>2, FlightIs
    <2> QED BY <1>2, <2>1 DEF ShapeOK
  <1>5. \A i \in All(r.of) : Slot(r.of, i) \in Slots /\ r.with[Slot(r.of, i)] \in Rows
    BY <1>3, <1>4, SlotIn
  <1>6. Hand(r, adapter) = r.with /\ \A i \in All(r.of) : Slot(r.of, i) \in InHand(r, adapter)
    BY <1>2 DEF Hand, InHand, BeenRead, SlotsAt
  <1>7. ASSUME NEW i \in old
        PROVE  db[Slot(r.of, i)] = None \/ Expired(db[Slot(r.of, i)], now) \/ Slot(r.of, i) \in dirty[r.of.c]
    <2> DEFINE s == Slot(r.of, i)
    <2>1. i \in All(r.of) /\ Expired(r.with[s], now)
      BY <1>4
    <2>2. SweptOK(r, adapter, db, dirty, now)
      BY <1>2, FlightIs
    <2>3. r.with[s] # None
      BY <2>1 DEF Expired
    <2>4. db[s] \in {None, r.with[s]} \/ s \in dirty[r.of.c]
      BY <1>6, <2>1, <2>2, <2>3 DEF SweptOK
    <2> QED BY <2>1, <2>4
  <1>8. Serve(r, db, aux, F, j)
    <2>1. j = Answered(jt, r.at, LAMBDA i : Answer(r.of.op, r.with[Slot(r.of, i)], i \in old))
      BY DEF Answered
    <2> QED BY <1>1, <2>1
  <1>9. old \subseteq All(r.of) /\ \A i \in All(r.of) : i \in old <=> Expired(r.with[Slot(r.of, i)], now)
    BY <1>4
  <1>10. \A f \in F : \E i \in old : f = Command(r.t, r.of, "sweep", {i}, {})
    OBVIOUS
  <1> HIDE DEF old, F
  <1>11. ASSUME NEW f \in F
         PROVE  /\ f.t = r.t /\ f.of = r.of /\ f.c \in {0, r.c} /\ FlightOK(f) /\ f.do = "sweep"
                /\ \A H, x, d : Carries(f, H, adapter, x, d)
    <2>1. PICK i \in old : f = Command(r.t, r.of, "sweep", {i}, {})
      BY <1>10
    <2>2. \E I \in SUBSET All(r.of) : \E with : I = {i} /\ f = Command(r.t, r.of, "sweep", I, with)
      BY <1>9, <2>1
    <2>3. PICK I \in SUBSET All(r.of) : \E with : I = {i} /\ f = Command(r.t, r.of, "sweep", I, with)
      BY <2>2
    <2>4. PICK with : I = {i} /\ f = Command(r.t, r.of, "sweep", I, with)
      BY <2>3
    <2>5. f.t = r.t /\ f.c = r.of.c /\ f.of = r.of /\ f.do = "sweep" /\ f.at = I
      BY <1>3, <2>4, CommandIs
    <2>6. Targets(f, adapter) = {Slot(r.of, i)}
      BY <1>2, <2>4, <2>5 DEF Targets, SlotsAt
    <2>7. \A s \in Targets(f, adapter) \cap Slots : db[s] = None \/ Expired(db[s], now) \/ s \in dirty[r.of.c]
      BY <1>7, <2>6
    <2>8. FlightOK(f)
      BY <1>2, <1>3, <2>4, <2>7, SweepSends
    <2>9. \A H, x, d : Carries(f, H, adapter, x, d)
      BY <1>2, <1>3, <2>4, <2>7, SweepSends
    <2> QED BY <1>3, <2>5, <2>8, <2>9
  <1>12. Sends(r, F)
    BY <1>11 DEF Sends
  <1>13. r \notin F
    BY <1>2, <1>11
  <1>14. ASSUME Live(r) PROVE Moves(r, db, F, j)
    <2>1. /\ Onward(jt, jt) /\ DOMAIN jt.res = All(jt) /\ All(jt) = All(r.of)
          /\ Carries(r, seen[r.t], adapter, aux, db) /\ r.of.at <= now /\ r.of.at \in Nat /\ now \in Nat
      BY <1>2, <1>14, StaysOnward, LiveCall, Clocks DEF CallOK
    <2>2. DOMAIN R = All(jt) /\ \A i \in All(r.of) : R[i] = Answer(r.of.op, r.with[Slot(r.of, i)], i \in old)
      BY <1>4, <2>1
    <2> HIDE DEF R
    <2>3. Onward(jt, j) /\ j.res = R
      BY <2>1, <2>2, AnsweredOnward
    <2> HIDE DEF j
    <2> DEFINE G == Sights(r, db, j)
    <2>4. ASSUME NEW i \in All(r.of) PROVE Settled(After(r, db, j), i, G, adapter, now)
      <3> DEFINE s == Slot(r.of, i)
                 row == r.with[s]
                 e == i \in old
      <3>1. row \in Rows /\ e \in BOOLEAN /\ s \in Slots
        BY <1>5
      <3>2. seen[r.t][s] \subseteq G[s]
        BY <1>2, <1>3, <1>14, <2>3, <2>4, KeySights
      <3>3. SeenAt(row, r.of.at, seen[r.t][s])
        <4>1. JudgeAt(r, adapter, aux) = r.of.at
          BY <1>2 DEF JudgeAt
        <4>2. HandSeen(r, seen[r.t], adapter, aux)
          BY <2>1 DEF Carries
        <4> QED BY <1>6, <2>4, <4>1, <4>2 DEF HandSeen
      <3>4. e <=> Expired(row, now)
        BY <1>9, <2>4
      <3>5. j.res[i] = Answer(r.of.op, row, e)
        BY <2>2, <2>3, <2>4
      <3> HIDE DEF e, row, s
      <3>6. row # None /\ ~e => row.val \in G[s]
        <4> SUFFICES ASSUME row # None, ~e PROVE row.val \in G[s]
          OBVIOUS
        <4>1. row.exp = None \/ row.exp \in Int
          BY <3>1 DEF Rows, Row
        <4>2. Visible(row, r.of.at)
          BY <2>1, <3>4, <4>1 DEF Visible, Expired
        <4> QED BY <3>2, <3>3, <4>2 DEF SeenAt
      <3>7. row = None \/ e => None \in G[s] \/ Moved(r.of, adapter, now)
        <4>1. CASE ~Visible(row, r.of.at)
          BY <3>2, <3>3, <4>1 DEF SeenAt
        <4>2. CASE Visible(row, r.of.at)
          <5> SUFFICES ASSUME e PROVE Moved(r.of, adapter, now)
            BY <4>2 DEF Visible
          <5>1. r.of.at # now
            BY <3>4, <4>2 DEF Visible
          <5> QED BY <1>2, <1>3, <2>1, <5>1 DEF Moved
        <4> QED BY <4>1, <4>2
      <3> QED BY <1>2, <1>3, <1>14, <2>3, <2>4, <3>1, <3>5, <3>6, <3>7, ReadSettled DEF s
    <2>5. \A f \in F : f.do # "write" /\ Carries(f, G, adapter, aux, db)
      BY <1>11
    <2> QED BY <1>2, <1>3, <1>12, <1>14, <2>3, <2>4, <2>5, KeyMoves
  <1> HIDE DEF j
  <1> QED BY <1>2, <1>8, <1>12, <1>13, <1>14, LeavesSame, KeepsSame, ServeKeeps

\* What follows a page is the command of the next one, or nothing.
LEMMA PageFollows ==
    ASSUME CallsInv, NEW r \in flight, r.c = r.of.c, NEW do \in Pages, Fits(do, r.of.op), NEW p \in Nat \ {0},
           NEW F, F = NextPage(r.t, r.of, do, p)
    PROVE  /\ \A f \in F : /\ f.t = r.t /\ f.of = r.of /\ f.c = r.c /\ f.do = do /\ f.do # "write"
                           /\ \A H, x, d : Carries(f, H, adapter, x, d)
           /\ Sends(r, F) /\ (\A f, g \in F : f = g)
           /\ \A s \in From(r.of.ns, p) : \E f \in F : s \in Covers(f, adapter)
           /\ F = {Command(r.t, r.of, do, {}, p)} \/ (F = {} /\ From(r.of.ns, p) = {})
  <1> DEFINE f == Command(r.t, r.of, do, {}, p)
  <1>1. /\ f.t = r.t /\ f.of = r.of /\ f.c = r.c /\ f.do = do /\ CommandOK(f, adapter, calls, now)
        /\ Parked(f, adapter) = {} /\ InHand(f, adapter) = {} /\ Covers(f, adapter) = From(r.of.ns, p)
    <2>1. Calling(r.of, r.t, calls) /\ r.of = Of(r.of)
      BY CallingOf
    <2> QED BY <2>1, PageMade
  <1>2. F = IF p > Len(Names) THEN {} ELSE {f}
    BY DEF NextPage
  <1>3. p > Len(Names) => From(r.of.ns, p) = {}
    BY NamesAre DEF From
  <1> HIDE DEF f
  <1>4. f.do \notin {"sweep", "drop", "pull", "write"}
    BY <1>1, PagesFit
  <1>5. FlightOK(f)
    <2>1. Targets(f, adapter) = {}
      BY <1>4 DEF Targets
    <2> QED BY <1>1, <2>1 DEF FlightOK, SweptOK
  <1>6. \A H, x, d : Carries(f, H, adapter, x, d)
    BY <1>1, <1>4 DEF Carries, HandSeen
  <1>7. Sends(r, F)
    BY <1>1, <1>2, <1>5 DEF Sends
  <1>8. F = {f} \/ (F = {} /\ From(r.of.ns, p) = {})
    BY <1>2, <1>3
  <1>9. \A g \in F : g = f
    BY <1>2
  <1>10. \A s \in From(r.of.ns, p) : \E g \in F : s \in Covers(g, adapter)
    BY <1>1, <1>8
  <1>11. \A g \in F : /\ g.t = r.t /\ g.of = r.of /\ g.c = r.c /\ g.do = do /\ g.do # "write"
                      /\ \A H, x, d : Carries(g, H, adapter, x, d)
    BY <1>1, <1>4, <1>6, <1>9
  <1> QED BY <1>7, <1>8, <1>9, <1>10, <1>11 DEF f

LEMMA PageGoes ==
    ASSUME CallsInv, NEW r \in flight, r.c = r.of.c, NEW do \in Pages, Fits(do, r.of.op), NEW p \in Nat \ {0}
    PROVE  /\ \A f \in NextPage(r.t, r.of, do, p) :
                  /\ f.t = r.t /\ f.c = r.c /\ f.do = do /\ f.do # "write"
                  /\ \A H, x, d : Carries(f, H, adapter, x, d)
           /\ Sends(r, NextPage(r.t, r.of, do, p))
           /\ (\A f, g \in NextPage(r.t, r.of, do, p) : f = g)
           /\ \A s \in From(r.of.ns, p) : \E f \in NextPage(r.t, r.of, do, p) : s \in Covers(f, adapter)
  <1> DEFINE F == NextPage(r.t, r.of, do, p)
  <1>1. F = NextPage(r.t, r.of, do, p)
    OBVIOUS
  <1> HIDE DEF F
  <1>2. /\ \A f \in F : /\ f.t = r.t /\ f.of = r.of /\ f.c = r.c /\ f.do = do /\ f.do # "write"
                        /\ \A H, x, d : Carries(f, H, adapter, x, d)
        /\ Sends(r, F) /\ (\A f, g \in F : f = g) /\ \A s \in From(r.of.ns, p) : \E f \in F : s \in Covers(f, adapter)
    BY <1>1, PageFollows
  <1> QED BY <1>2 DEF F

\* The keys of a page that are there.
LEMMA PageAtIs ==
    ASSUME NEW ns \in Namespaces, NEW p \in Nat \ {0}
    PROVE  /\ PageAt(ns, p) \subseteq In(ns)
           /\ \A s \in In(ns) : s \in PageAt(ns, p) <=> s \in PageOf(ns, p) /\ db[s] # None
  <1>1. PageSize \in Nat \ {0} /\ \A q \in DOMAIN Names : q \in Nat /\ Names[q] \in Keys
    BY EntriesAssumption, NamesAre
  <1>2. ASSUME NEW s \in PageAt(ns, p) PROVE s \in In(ns) /\ s \in PageOf(ns, p) /\ db[s] # None
    <2>1. PICK q \in DOMAIN Names : q >= p /\ q < p + PageSize /\ s = <<ns, Names[q]>>
      BY DEF PageAt
    <2>2. s \in Slots /\ db[s] # None
      BY DEF PageAt
    <2>3. s \in In(ns) /\ s[2] = Names[q]
      BY <2>1, <2>2 DEF In
    <2>4. q \in p..(p + PageSize - 1)
      BY <1>1, <2>1
    <2> QED BY <2>1, <2>2, <2>3, <2>4 DEF PageOf
  <1>3. ASSUME NEW s \in In(ns), s \in PageOf(ns, p), db[s] # None PROVE s \in PageAt(ns, p)
    <2>1. PICK q \in p..(p + PageSize - 1) : q \in DOMAIN Names /\ Names[q] = s[2]
      BY <1>3 DEF PageOf
    <2>2. s = <<ns, Names[q]>> /\ s \in Slots
      BY <2>1 DEF In, Slots
    <2>3. q >= p /\ q < p + PageSize
      BY <1>1, <2>1
    <2> QED BY <1>3, <2>1, <2>2, <2>3 DEF PageAt
  <1> QED BY <1>2, <1>3

\* clear goes on: what it is to empty is empty, or left to what follows.
LEMMA ClearGoesOn ==
    ASSUME CallsInv, NEW r \in flight, r.of.op = "clear", NEW d, Leaves(r, d), NEW F, d = db \/ r \notin F, Sends(r, F),
           \A f \in F : f.do # "write" /\ \A H, x, e : Carries(f, H, adapter, x, e),
           Live(r) => /\ Together(NextOf(r, F), adapter)
                      /\ \A s \in Covers(r, adapter) : d[s] = None \/ \E f \in NextOf(r, F) : s \in Covers(f, adapter),
           Serve(r, d, aux, F, job[r.t])
    PROVE  Kept
  <1> DEFINE jt == job[r.t]
             G == Sights(r, d, jt)
             k == After(r, d, jt)
  <1>1. ASSUME Live(r) PROVE Moves(r, d, F, jt)
    <2>1. Onward(job[r.t], job[r.t]) /\ Taken(r, d) = {}
      BY <1>1, StaysOnward, TakenSame DEF WriteOps
    <2>2. Items(jt) = In(r.of.ns) /\ k.op = "clear"
      <3>1. Items(job[r.t]) = In(r.of.ns)
        BY <1>1, <2>1, WalkItems
      <3>2. Of(k) = r.of /\ Of(r.of) = r.of
        BY <1>1, <2>1, AfterOK, FlightIs
      <3> HIDE DEF k
      <3> QED BY <3>1, <3>2, SameCall
    <2>3. ASSUME NEW s \in In(r.of.ns), d[s] = None PROVE Settled(k, s, G, adapter, now)
      <3>1. None \in Sights(r, d, job[r.t])[s]
        BY <1>1, <2>1, <2>3, WalkSights
      <3> QED BY <1>1, <2>1, <2>3, <3>1, WalkSettled
    <2>4. Settles(r, d, F, jt)
      <3> SUFFICES ASSUME NEW s \in In(r.of.ns)
                   PROVE  \/ Settled(k, s, G, adapter, now)
                          \/ /\ jt.res[s] = job[r.t].res[s] /\ s \notin Taken(r, d)
                             /\ s \in Covers(r, adapter) => \E f \in NextOf(r, F) : s \in Covers(f, adapter)
        BY <2>2 DEF Settles
      <3> HIDE DEF k, G
      <3> QED BY <1>1, <2>1, <2>3
    <2>5. OutOK(k, NextOf(r, F), adapter, G)
      <3> HIDE DEF k
      <3> QED BY <2>2 DEF OutOK
    <2>6. PutOK(k, NextOf(r, F))
      BY <1>1, NoWrites
    <2>7. \A f \in F : Carries(f, G, adapter, aux, d)
      OBVIOUS
    <2> QED BY <1>1, <2>1, <2>4, <2>5, <2>6, <2>7 DEF Moves
  <1> QED BY <1>1, KeepsSame, ServeKeeps

\* The commands of a clear in flight: one that scans, or those of one page.
LEMMA ClearMine ==
    ASSUME CallsInv, NEW r \in flight, Live(r), r.of.op = "clear"
    PROVE  \A q \in Mine(flight, r.t, r.c) :
               /\ q.of = r.of
               /\ q = r \/ (adapter = "dynamo" /\ q.do = "clear" /\ r.do = "clear" /\ q.with[2] = r.with[2])
  <1>1. /\ r \in Mine(flight, r.t, r.c) /\ Together(Mine(flight, r.t, r.c), adapter)
        /\ \A q \in Mine(flight, r.t, r.c) : q.of = r.of
    BY LiveCall
  <1>2. r.of.op \notin KeyOps
    BY OpsApart DEF WalkOps
  <1> QED BY <1>1, <1>2 DEF Together

LEMMA DynamoScannedToClearKeeps == ASSUME CallsInv, DynamoScannedToClear PROVE Kept
  <1> DEFINE scan == "scan to clear"
  <1>1. PICK r \in Dy(scan) :
           LET S == PageAt(r.of.ns, r.with)
           IN  Serve(r, db, aux,
                     IF S = {} THEN NextPage(r.t, r.of, scan, r.with + PageSize)
                     ELSE {Command(r.t, r.of, "clear", {}, <<s, r.with>>) : s \in S},
                     job[r.t])
    BY Zenon DEF DynamoScannedToClear
  <1>2. scan \in Pages /\ scan # "clear" /\ (\A op : Fits(scan, op) => op = "clear") /\ Fits(scan, "clear")
    BY Zenon DEF Pages, Fits
  <1> HIDE DEF scan
  <1> DEFINE S == PageAt(r.of.ns, r.with)
             p == r.with + PageSize
             N == NextPage(r.t, r.of, scan, p)
             C == {Command(r.t, r.of, "clear", {}, <<s, r.with>>) : s \in S}
             F == IF S = {} THEN N ELSE C
  <1>3. r \in flight /\ r.do = scan /\ adapter = "dynamo"
    BY DyIn
  <1>4. /\ r.of.op = "clear" /\ r.c = r.of.c /\ r.of = Of(r.of) /\ r.of.ns \in Namespaces /\ Calling(r.of, r.t, calls)
        /\ r.with \in Nat \ {0} /\ Covers(r, adapter) = From(r.of.ns, r.with) /\ Fits(scan, r.of.op)
    <2>1. Fits(r.do, r.of.op) /\ ShapeOK(r, adapter, now) /\ OfOK(r.of, adapter, calls, now)
      BY <1>3, FlightIs
    <2>2. r.of.op = "clear" /\ r.with \in Nat \ {0} /\ Covers(r, adapter) = From(r.of.ns, r.with)
      BY <1>2, <1>3, <2>1, PagesFit
    <2>3. r.c = r.of.c
      <3>1. adapter # "memcache"
        BY <1>3
      <3> QED BY <1>3, <3>1, NotLate
    <2> QED BY <1>2, <1>3, <2>1, <2>2, <2>3, CallingOf DEF OfOK
  <1>5. Serve(r, db, aux, F, job[r.t])
    BY <1>1
  <1>6. /\ p \in Nat \ {0} /\ p = r.with + PageSize
        /\ From(r.of.ns, p) \subseteq From(r.of.ns, r.with) /\ From(r.of.ns, r.with) \subseteq In(r.of.ns)
        /\ \A s \in From(r.of.ns, r.with) : s \in PageOf(r.of.ns, r.with) \/ s \in From(r.of.ns, p)
    BY <1>4, PageAhead
  <1>7. S \subseteq In(r.of.ns) /\ \A s \in In(r.of.ns) : s \in S <=> s \in PageOf(r.of.ns, r.with) /\ db[s] # None
    BY <1>4, PageAtIs
  <1>8. N = NextPage(r.t, r.of, scan, p)
    OBVIOUS
  <1>9. Live(r) => \A q \in Mine(flight, r.t, r.c) : q = r
    BY <1>2, <1>3, <1>4, ClearMine
  <1>10. \A f \in C : \E s \in S : f = Command(r.t, r.of, "clear", {}, <<s, r.with>>)
    OBVIOUS
  <1>11. \A s \in S : Command(r.t, r.of, "clear", {}, <<s, r.with>>) \in C
    OBVIOUS
  <1>12. F = IF S = {} THEN N ELSE C
    OBVIOUS
  <1> HIDE DEF S, p, N, C, F
  <1>13. CASE S = {}
    <2>1. /\ \A f \in N : f.t = r.t /\ f.c = r.c /\ f.do # "write" /\ \A H, x, d : Carries(f, H, adapter, x, d)
          /\ Sends(r, N) /\ (\A f, g \in N : f = g) /\ \A s \in From(r.of.ns, p) : \E f \in N : s \in Covers(f, adapter)
      BY <1>2, <1>3, <1>4, <1>6, <1>8, PageFollows
    <2>2. Live(r) => NextOf(r, N) = N
      BY <1>9, <2>1 DEF NextOf, Mine
    <2>3. Live(r) => Together(NextOf(r, N), adapter)
      BY <2>1, <2>2 DEF Together
    <2>4. \A s \in Covers(r, adapter) : db[s] = None \/ \E f \in N : s \in Covers(f, adapter)
      BY <1>4, <1>6, <1>7, <1>13, <2>1
    <2>5. Serve(r, db, aux, N, job[r.t])
      BY <1>5, <1>12, <1>13
    <2> QED BY <1>3, <1>4, <2>1, <2>2, <2>3, <2>4, <2>5, LeavesSame, ClearGoesOn
  <1>14. CASE S # {}
    <2>1. ASSUME NEW s \in S, NEW f, f = Command(r.t, r.of, "clear", {}, <<s, r.with>>)
          PROVE  /\ f.t = r.t /\ f.of = r.of /\ f.c = r.c /\ f.do = "clear" /\ f.with[2] = r.with /\ FlightOK(f)
                 /\ (\A H, x, d : Carries(f, H, adapter, x, d)) /\ Covers(f, adapter) = {s} \cup From(r.of.ns, p)
      <3> DEFINE w == <<s, r.with>>
                 I == {}
                 c == Command(r.t, r.of, "clear", I, w)
      <3>1. c.t = r.t /\ c.of = r.of /\ c.c = r.c /\ c.do = "clear" /\ c.at = I /\ c.with = w /\ w[1] = s /\ w[2] = r.with /\ f = c
        BY <1>4, <2>1, CommandIs
      <3>2. I \in SUBSET All(r.of)
        OBVIOUS
      <3> HIDE DEF w, I
      <3>3. ShapeOK(c, adapter, now)
        <4> HIDE DEF c
        <4> QED BY <1>4, <1>7, <3>1 DEF ShapeOK, Chunked
      <3>4. Fits("clear", r.of.op)
        BY <1>4 DEF Fits
      <3>5. CommandOK(c, adapter, calls, now) /\ Parked(c, adapter) = {}
        BY <1>4, <3>2, <3>3, <3>4, PlainMade
      <3> HIDE DEF c
      <3>6. InHand(c, adapter) = {} /\ Targets(c, adapter) = {}
        BY <3>1 DEF InHand, BeenRead, SlotsAt, Targets
      <3>7. FlightOK(c) /\ \A H, x, d : Carries(c, H, adapter, x, d)
        BY <3>1, <3>5, <3>6 DEF FlightOK, SweptOK, Carries, HandSeen
      <3>8. Covers(c, adapter) = {s} \cup From(r.of.ns, p)
        <4>1. Covers(c, adapter) = Settling(c, adapter) /\ ~Chunked(c, adapter)
          BY <3>1, CoversOf DEF Chunked
        <4> QED BY <1>3, <3>1, <4>1 DEF Settling, p
      <3> QED BY <3>1, <3>7, <3>8
    <2>2. ASSUME NEW f \in C
          PROVE  \E s \in S : /\ f.t = r.t /\ f.of = r.of /\ f.c = r.c /\ f.do = "clear" /\ f.with[2] = r.with /\ FlightOK(f)
                              /\ (\A H, x, d : Carries(f, H, adapter, x, d)) /\ Covers(f, adapter) = {s} \cup From(r.of.ns, p)
      <3>1. PICK s \in S : f = Command(r.t, r.of, "clear", {}, <<s, r.with>>)
        BY <1>10
      <3> QED BY <2>1, <3>1
    <2>3. ASSUME NEW s \in S PROVE \E f \in C : Covers(f, adapter) = {s} \cup From(r.of.ns, p)
      BY <1>11, <2>1
    <2>4. Sends(r, C)
      BY <2>2 DEF Sends
    <2>5. Live(r) => NextOf(r, C) = C
      BY <1>9, <2>2 DEF NextOf, Mine
    <2>6. Together(C, adapter)
      BY <1>3, <2>2 DEF Together
    <2>7. \A f \in C : f.do # "write" /\ \A H, x, d : Carries(f, H, adapter, x, d)
      BY <2>2
    <2>8. \A s \in Covers(r, adapter) : db[s] = None \/ \E f \in C : s \in Covers(f, adapter)
      <3> TAKE s \in Covers(r, adapter)
      <3>1. s \in In(r.of.ns) /\ (s \in PageOf(r.of.ns, r.with) \/ s \in From(r.of.ns, p))
        BY <1>4, <1>6
      <3>2. CASE s \in S
        BY <2>3, <3>2
      <3>3. CASE s \in From(r.of.ns, p)
        BY <1>14, <2>3, <3>3
      <3> QED BY <1>7, <3>1, <3>2, <3>3
    <2>9. Serve(r, db, aux, C, job[r.t])
      BY <1>5, <1>12, <1>14
    <2> QED BY <1>3, <1>4, <2>4, <2>5, <2>6, <2>7, <2>8, <2>9, LeavesSame, ClearGoesOn
  <1> QED BY <1>13, <1>14

\* What follows the deletions of a page: the others of it, or the next page.
LEMMA AfterClearIs ==
    ASSUME CallsInv, adapter = "dynamo", NEW r \in flight, r.do = "clear", NEW F, F = AfterClear(r)
    PROVE  /\ Sends(r, F) /\ r \notin F /\ r.with[1] \in In(r.of.ns) /\ r.of.op = "clear" /\ r.c = r.of.c
           /\ \A f \in F : f.do # "write" /\ \A H, x, d : Carries(f, H, adapter, x, d)
           /\ Live(r) => /\ Together(NextOf(r, F), adapter)
                         /\ \A s \in Covers(r, adapter) :
                               s = r.with[1] \/ \E f \in NextOf(r, F) : s \in Covers(f, adapter)
  <1> DEFINE scan == "scan to clear"
             p == r.with[2] + PageSize
             N == NextPage(r.t, r.of, scan, p)
  <1>1. F = IF LastOfPage(r) THEN N ELSE {}
    BY Zenon DEF AfterClear
  <1>2. scan \in Pages /\ Fits(scan, "clear") /\ "clear" \notin Pages
    BY Zenon DEF Pages, Fits
  <1> HIDE DEF scan
  <1>3. /\ r.of.op = "clear" /\ r.c = r.of.c /\ r.with[1] \in In(r.of.ns) /\ r.with[2] \in Nat \ {0}
    <2>1. Fits(r.do, r.of.op) /\ ShapeOK(r, adapter, now)
      BY FlightIs
    <2>2. r.with[1] \in In(r.of.ns) /\ r.with[2] \in Nat \ {0}
      BY <2>1 DEF ShapeOK
    <2>3. r.of.op = "clear"
      BY <2>1 DEF Fits
    <2> QED BY <2>2, <2>3, NotLate
  <1>4. p \in Nat \ {0} /\ p = r.with[2] + PageSize
    BY <1>3, EntriesAssumption
  <1>5. N = NextPage(r.t, r.of, scan, p)
    OBVIOUS
  <1> HIDE DEF p, N
  <1>6. /\ \A f \in N : f.t = r.t /\ f.c = r.c /\ f.do = scan /\ f.do # "write" /\ \A H, x, d : Carries(f, H, adapter, x, d)
        /\ Sends(r, N) /\ (\A f, g \in N : f = g) /\ \A s \in From(r.of.ns, p) : \E f \in N : s \in Covers(f, adapter)
    <2>1. Fits(scan, r.of.op)
      BY <1>2, <1>3
    <2>2. r.c = r.of.c
      BY <1>3
    <2>3. scan \in Pages /\ p \in Nat \ {0}
      BY <1>2, <1>4
    <2>4. /\ \A f \in NextPage(r.t, r.of, scan, p) :
                 /\ f.t = r.t /\ f.c = r.c /\ f.do = scan /\ f.do # "write"
                 /\ \A H, x, d : Carries(f, H, adapter, x, d)
          /\ Sends(r, NextPage(r.t, r.of, scan, p))
          /\ (\A f, g \in NextPage(r.t, r.of, scan, p) : f = g)
          /\ \A s \in From(r.of.ns, p) : \E f \in NextPage(r.t, r.of, scan, p) : s \in Covers(f, adapter)
      <3> HIDE <1>1
      <3> QED BY ONLY CallsInv, r \in flight, <2>1, <2>2, <2>3, PageGoes
    <2> QED BY <1>5, <2>4
  <1>7. r \notin F /\ Sends(r, F) /\ \A f \in F : f.do # "write" /\ \A H, x, d : Carries(f, H, adapter, x, d)
    BY <1>1, <1>2, <1>6, NoneSent
  <1>8. ASSUME NEW q, q.do = "clear", q.of = r.of, q.with[2] = r.with[2] PROVE Covers(q, adapter) = {q.with[1]} \cup From(r.of.ns, p)
    <2>1. Covers(q, adapter) = Settling(q, adapter) /\ ~Chunked(q, adapter)
      BY <1>8, CoversOf DEF Chunked
    <2> QED BY <1>8, <2>1 DEF Settling, p
  <1>9. ASSUME Live(r)
        PROVE  /\ Together(NextOf(r, F), adapter)
               /\ \A s \in Covers(r, adapter) : s = r.with[1] \/ \E f \in NextOf(r, F) : s \in Covers(f, adapter)
    <2>1. \A q \in Mine(flight, r.t, r.c) : q.of = r.of /\ (q = r \/ (q.do = "clear" /\ q.with[2] = r.with[2]))
      BY <1>3, <1>9, ClearMine
    <2>2. Covers(r, adapter) = {r.with[1]} \cup From(r.of.ns, p)
      BY <1>8
    <2>3. CASE LastOfPage(r)
      <3>1. \A q \in Mine(flight, r.t, r.c) : q = r
        BY <2>3 DEF LastOfPage
      <3>2. NextOf(r, F) = F
        BY <1>1, <1>6, <3>1, <2>3 DEF NextOf, Mine
      <3> QED BY <1>1, <1>6, <2>2, <2>3, <3>2 DEF Together
    <2>4. CASE ~LastOfPage(r)
      <3>1. PICK q \in Mine(flight, r.t, r.c) : q # r
        BY <2>4 DEF LastOfPage
      <3>2. NextOf(r, F) = Mine(flight, r.t, r.c) \ {r}
        BY <1>1, <2>4 DEF NextOf, Mine
      <3>3. Covers(q, adapter) = {q.with[1]} \cup From(r.of.ns, p) /\ q \in NextOf(r, F)
        BY <1>8, <2>1, <3>1, <3>2
      <3>4. Together(NextOf(r, F), adapter)
        BY <2>1, <3>2 DEF Together
      <3> QED BY <2>2, <3>3, <3>4
    <2> QED BY <2>3, <2>4
  <1> QED BY <1>3, <1>7, <1>9

LEMMA DynamoClearedKeeps == ASSUME CallsInv, DynamoCleared PROVE Kept
  <1>1. PICK r \in Dy("clear") : Serve(r, Drop(db, {r.with[1]}), aux, AfterClear(r), job[r.t])
    BY Zenon DEF DynamoCleared
  <1> DEFINE S == {r.with[1]}
             d == Drop(db, S)
             F == AfterClear(r)
  <1>2. r \in flight /\ r.do = "clear" /\ adapter = "dynamo"
    BY DyIn
  <1>3. F = AfterClear(r) /\ Serve(r, d, aux, F, job[r.t])
    BY <1>1
  <1> HIDE DEF F
  <1>4. /\ Sends(r, F) /\ r \notin F /\ r.with[1] \in In(r.of.ns) /\ r.of.op = "clear"
        /\ \A f \in F : f.do # "write" /\ \A H, x, e : Carries(f, H, adapter, x, e)
        /\ Live(r) => /\ Together(NextOf(r, F), adapter)
                      /\ \A s \in Covers(r, adapter) :
                            s = r.with[1] \/ \E f \in NextOf(r, F) : s \in Covers(f, adapter)
    BY <1>2, <1>3, AfterClearIs
  <1>5. d[r.with[1]] = None
    <2>1. r.with[1] \in Slots
      BY <1>4 DEF In
    <2> QED BY <2>1, DropRows DEF CallsInv, Types
  <1>6. S \cap Slots \subseteq In(r.of.ns)
    BY <1>4
  <1> HIDE DEF S
  <1>7. Leaves(r, d)
    BY <1>2, <1>6, ClearLeaves
  <1> HIDE DEF d
  <1> QED BY <1>2, <1>3, <1>4, <1>5, <1>7, ClearGoesOn

\* The rows of a page are judged by the clock at which it was there.
LEMMA DynamoScannedKeeps == ASSUME CallsInv, DynamoScanned PROVE Kept
  <1>1. PICK r \in Dy("scan") :
           Serve(r, db, aux,
                 {Command(r.t, r.of, "pull", {}, <<r.with, [s \in PageAt(r.of.ns, r.with) |-> db[s]], now>>)}, job[r.t])
    BY Zenon DEF DynamoScanned
  <1> DEFINE S  == PageAt(r.of.ns, r.with)
             rows == [s \in S |-> db[s]]
             p == r.with + PageSize
             w == <<r.with, rows, now>>
             f == Command(r.t, r.of, "pull", {}, w)
             F == {f}
  <1>2. r \in flight /\ r.do = "scan" /\ adapter = "dynamo"
    BY DyIn
  <1>3. /\ r.of.op = "iterator" /\ r.c = r.of.c /\ r.of = Of(r.of) /\ r.of.ns \in Namespaces
        /\ r.with \in Nat \ {0} /\ Covers(r, adapter) = From(r.of.ns, r.with)
    <2>1. r.do \in Pages
      BY <1>2 DEF Pages
    <2>2. r.of.op = "iterator" /\ r.c = r.of.c /\ r.of = Of(r.of) /\ r.of.ns \in Namespaces
      BY <1>2, FlightIs, NotLate DEF Fits, OfOK
    <2>3. ShapeOK(r, adapter, now)
      BY <1>2, FlightIs
    <2> QED BY <2>1, <2>2, <2>3, PagesFit
  <1>4. S \subseteq In(r.of.ns) /\ \A s \in In(r.of.ns) : s \in S <=> s \in PageOf(r.of.ns, r.with) /\ db[s] # None
    BY <1>3, PageAtIs
  <1>5. f.t = r.t /\ f.of = r.of /\ f.c = r.c /\ f.do = "pull" /\ IsCommand(f) /\ f.at = {} /\ f.with = w
    BY <1>3, CommandIs
  <1>6. Serve(r, db, aux, F, job[r.t])
    BY <1>1
  <1> HIDE DEF S
  <1>7. DOMAIN rows = S /\ \A s \in S : rows[s] = db[s]
    OBVIOUS
  <1> HIDE DEF rows
  <1>8. w[1] = r.with /\ w[2] = rows /\ w[3] = now
    OBVIOUS
  <1> HIDE DEF f, w
  <1>9. /\ p \in Nat \ {0} /\ p = r.with + PageSize
        /\ \A s \in PageOf(r.of.ns, r.with) : s \in From(r.of.ns, r.with) /\ s \notin From(r.of.ns, p)
        /\ From(r.of.ns, p) \subseteq From(r.of.ns, r.with) /\ From(r.of.ns, r.with) \subseteq In(r.of.ns)
        /\ \A s \in From(r.of.ns, r.with) : s \in PageOf(r.of.ns, r.with) \/ s \in From(r.of.ns, p)
    BY <1>3, PageAhead
  <1>10. Hand(f, adapter) = rows /\ Ahead(f, adapter) = From(r.of.ns, p) /\ JudgeAt(f, adapter, aux) = now
    BY <1>2, <1>5, <1>8 DEF Hand, Ahead, JudgeAt
  <1> HIDE DEF p
  <1>11. Covers(f, adapter) = S \cup From(r.of.ns, p)
    <2>1. Covers(f, adapter) = Settling(f, adapter) /\ ~Chunked(f, adapter)
      BY <1>5, CoversOf DEF Chunked
    <2> QED BY <1>5, <1>7, <1>10, <2>1 DEF Settling
  <1>12. db \in [Slots -> Rows] /\ \A s \in In(r.of.ns) : s \in Slots
    BY DEF CallsInv, Types, In
  <1>13. now \in Nat /\ r.of.at \in Nat /\ r.of.at <= now
    BY <1>2, Clocks
  <1>14. PullOK(f, adapter, now)
    <2>1. \A s \in S : s \in In(r.of.ns) /\ s \notin From(r.of.ns, p) /\ rows[s] \in Rows \ {None}
      BY <1>4, <1>7, <1>9, <1>12
    <2> QED BY <1>2, <1>3, <1>5, <1>7, <1>8, <1>10, <1>13, <2>1 DEF PullOK
  <1>15. JudgeAt(f, adapter, aux) \in Nat /\ r.of.at <= JudgeAt(f, adapter, aux) /\ JudgeAt(f, adapter, aux) <= now
    BY <1>10, <1>13
  <1>16. \A s \in DOMAIN Hand(f, adapter) : Hand(f, adapter)[s] = db[s]
    BY <1>7, <1>10
  <1>17. Covers(f, adapter) \subseteq Covers(r, adapter)
    BY <1>3, <1>4, <1>9, <1>11
  <1>18. \A s \in In(r.of.ns) : s \in Covers(r, adapter) => s \in Covers(f, adapter) \/ db[s] = None \/ ~Whole
    BY <1>3, <1>4, <1>9, <1>11
  <1>19. F = {f} /\ adapter # "mongo"
    BY <1>2
  <1> HIDE DEF F
  <1> QED BY <1>2, <1>3, <1>5, <1>6, <1>14, <1>15, <1>16, <1>17, <1>18, <1>19, ScanKeeps

LEMMA DynamoPulledKeeps == ASSUME CallsInv, DynamoPulled PROVE Kept
  <1>1. PICK r \in Sent("dynamo", "pull") :
           LET rows == r.with[2]
               s    == First(rows)
               rest == Command(r.t, r.of, "pull", {}, <<r.with[1], Without(rows, s), r.with[3]>>)
           IN  IF DOMAIN rows = {} THEN Serve(r, db, aux, NextPage(r.t, r.of, "scan", r.with[1] + PageSize), job[r.t])
               ELSE IF Expired(rows[s], r.with[3])
               THEN Serve(r, db, aux, {Command(r.t, r.of, "drop", {}, <<s, rest>>)}, job[r.t])
               ELSE Serve(r, db, aux, {rest}, Yield(job[r.t], s[2], rows[s].val))
    BY Zenon DEF DynamoPulled
  <1> DEFINE rows == r.with[2]
             s    == First(rows)
             left == Without(rows, s)
             rest == Command(r.t, r.of, "pull", {}, <<r.with[1], left, r.with[3]>>)
             f    == Command(r.t, r.of, "drop", {}, <<s, rest>>)
             n    == r.with[3]
             p    == r.with[1] + PageSize
  <1>2. r \in flight /\ r.do = "pull" /\ adapter = "dynamo"
    BY ServedIn
  <1>3. /\ Hand(r, adapter) = rows /\ r.of.op = "iterator" /\ r.c = r.of.c /\ r.of = Of(r.of)
        /\ r.with[1] \in Nat \ {0} /\ n \in 0..now
    BY <1>2, FlightIs, NotLate DEF Hand, ShapeOK, PullOK, Fits
  <1>4. CASE DOMAIN rows = {}
    <2> DEFINE F == NextPage(r.t, r.of, "scan", p)
    <2>1. Serve(r, db, aux, F, job[r.t])
      BY <1>1, <1>4
    <2>2. p \in Nat \ {0}
      BY <1>3, EntriesAssumption
    <2>3. Covers(r, adapter) = From(r.of.ns, p)
      <3>1. Covers(r, adapter) = Settling(r, adapter) /\ ~Chunked(r, adapter)
        BY <1>2, CoversOf DEF Chunked
      <3> QED BY <1>2, <1>3, <1>4, <3>1 DEF Settling, Ahead
    <2>4. "scan" \in Pages /\ Fits("scan", "iterator") /\ Fits("scan", r.of.op)
      BY <1>3, Zenon DEF Pages, Fits
    <2>5. F = NextPage(r.t, r.of, "scan", p)
      OBVIOUS
    <2> HIDE DEF F, p
    <2>6. F = {Command(r.t, r.of, "scan", {}, p)} \/ (F = {} /\ From(r.of.ns, p) = {})
      BY <1>2, <1>3, <2>2, <2>4, <2>5, PageFollows
    <2> QED BY <1>2, <1>3, <2>1, <2>2, <2>3, <2>4, <2>6, NextKeeps
  <1>5. CASE DOMAIN rows # {}
    <2>1. s = First(Hand(r, adapter)) /\ s \in DOMAIN Hand(r, adapter) /\ DOMAIN Hand(r, adapter) # {}
      BY <1>2, <1>3, <1>5, PullIs
    <2>2. JudgesAt(r, n)
      <3>1. now \in Nat /\ n \in Nat /\ n <= now
        BY <1>2, <1>3, Clocks
      <3>2. JudgeAt(r, adapter, aux) = n
        BY <1>2 DEF JudgeAt
      <3> QED BY <3>1, <3>2 DEF JudgesAt
    <2>3. /\ rest.t = r.t /\ rest.of = r.of /\ rest.c = r.c /\ rest.do = "pull" /\ IsCommand(rest) /\ rest.at = {}
          /\ rest.with = <<r.with[1], left, r.with[3]>>
      BY <1>3, CommandIs
    <2>4. f.do = "drop" /\ f.with = <<s, rest>>
      BY CommandIs
    <2>5. left = Without(Hand(r, adapter), s)
      BY <1>3
    <2>6. rows = Hand(r, adapter)
      BY <1>3
    <2>7. IF Expired(rows[s], n) THEN Serve(r, db, aux, {f}, job[r.t])
          ELSE Serve(r, db, aux, {rest}, Yield(job[r.t], s[2], rows[s].val))
      BY <1>1, <1>5
    <2>8. f = Command(r.t, r.of, "drop", {}, <<s, rest>>)
      OBVIOUS
    <2> HIDE DEF f, rest, left, s, n
    <2>9. IsRest(rest, r, adapter, s)
      <3>1. Hand(rest, adapter) = left /\ rest.with[1] = r.with[1] /\ rest.with[3] = r.with[3]
        BY <1>2, <2>3 DEF Hand
      <3> QED BY <1>2, <2>3, <2>5, <3>1 DEF IsRest
    <2> DEFINE F == {rest}
    <2>10. Rests(r, F, adapter, s)
      <3>1. Covers(rest, adapter) = Covers(r, adapter) \ {s}
        BY <1>2, <2>1, <2>9, RestIs
      <3> QED BY <2>9, <3>1 DEF Rests
    <2>11. Parked(f, adapter) = F
      BY <1>2, <2>4 DEF Parked
    <2> HIDE DEF F
    <2>12. CASE Expired(rows[s], n)
      <3>1. Serve(r, db, aux, {f}, job[r.t]) /\ Expired(Hand(r, adapter)[s], n) /\ Rests(r, Parked(f, adapter), adapter, s)
        BY <2>6, <2>7, <2>10, <2>11, <2>12
      <3> HIDE DEF rows
      <3> QED BY <1>2, <2>1, <2>2, <2>8, <3>1, FoundKeeps
    <2>13. CASE ~Expired(rows[s], n)
      <3>1. Serve(r, db, aux, F, Yield(job[r.t], s[2], Hand(r, adapter)[s].val)) /\ ~Expired(Hand(r, adapter)[s], n)
        BY <2>6, <2>7, <2>13 DEF F
      <3> HIDE DEF rows
      <3> QED BY <1>2, <2>1, <2>2, <2>10, <3>1, YieldedKeeps
    <2> QED BY <2>12, <2>13
  <1> QED BY <1>4, <1>5

LEMMA DynamoDroppedKeeps == ASSUME CallsInv, DynamoDropped PROVE Kept
  <1>1. PICK r \in Dy("drop") : Serve(r, Drop(db, {r.with[1]}), aux, {r.with[2]}, job[r.t])
    BY Zenon DEF DynamoDropped
  <1> DEFINE S == {r.with[1]}
             d == Drop(db, S)
  <1>2. r \in flight /\ r.do = "drop" /\ adapter = "dynamo"
    BY DyIn
  <1>3. S \cap Slots \subseteq {r.with[1]}
    OBVIOUS
  <1>4. Parked(r, adapter) = {r.with[2]}
    BY <1>2 DEF Parked
  <1>5. Serve(r, d, aux, Parked(r, adapter), job[r.t]) /\ (d = db \/ d = Drop(db, S))
    BY <1>1, <1>4
  <1> HIDE DEF S, d
  <1> QED BY <1>2, <1>3, <1>5, DroppedKeeps

\* What the service may have done of a command that fails.
LEMMA DynamoWouldIs ==
    ASSUME CallsInv, adapter = "dynamo", NEW r \in flight,
           r.do \in {"read", "put", "sweep", "delete", "write", "batch", "clear", "drop"} \cup Pages
    PROVE  /\ Leaves(r, DynamoWould(r))
           /\ r.do = "sweep" => DynamoWould(r) = Drop(db, SlotsAt(r.of, r.at))
           /\ r.do \in {"clear", "drop"} => DynamoWould(r) = Drop(db, {r.with[1]})
           /\ r.do \in {"read", "batch"} \cup Pages => DynamoWould(r) = db
  <1>1. Leaves(r, db)
    BY LeavesSame
  <1>2. CASE r.do \in {"sweep", "delete"}
    <2>1. DynamoWould(r) = Drop(db, SlotsAt(r.of, r.at))
      BY <1>2, Zenon DEF DynamoWould
    <2>2. r.do = "sweep" => Targets(r, adapter) = SlotsAt(r.of, r.at)
      BY DEF Targets
    <2>3. r.do = "sweep" => Leaves(r, Drop(db, SlotsAt(r.of, r.at)))
      BY <2>2, SweepLeaves
    <2>4. r.do = "delete" => Leaves(r, Drop(db, SlotsAt(r.of, r.at)))
      BY DeleteLeaves
    <2>5. r.do \notin Pages
      BY <1>2, Zenon DEF Pages
    <2> QED BY <1>2, <2>1, <2>3, <2>4, <2>5
  <1>3. CASE r.do \in {"clear", "drop"}
    <2> DEFINE S == {r.with[1]}
    <2>1. DynamoWould(r) = Drop(db, S)
      BY <1>3, Zenon DEF DynamoWould
    <2>2. r.do = "drop" => S \cap Slots \subseteq Targets(r, adapter)
      BY DEF Targets
    <2>3. r.do = "clear" => S \cap Slots \subseteq In(r.of.ns)
      <3>1. ShapeOK(r, adapter, now)
        BY FlightIs
      <3> QED BY <3>1 DEF ShapeOK
    <2> HIDE DEF S
    <2>4. Leaves(r, Drop(db, S))
      BY <1>3, <2>2, <2>3, SweepLeaves, ClearLeaves
    <2>5. r.do \notin Pages
      BY <1>3, Zenon DEF Pages
    <2> QED BY <1>3, <2>1, <2>4, <2>5 DEF S
  <1>4. CASE r.do \in {"put", "write"}
    <2>1. DynamoWould(r) = db \/ DynamoWould(r) = DynamoItems(r, r.at)
      BY <1>4, Zenon DEF DynamoWould
    <2>2. r.of.op \in WriteOps
      BY <1>4, FlightIs DEF Fits
    <2>3. Leaves(r, DynamoItems(r, r.at))
      <3> DEFINE I == r.at
                 d == DynamoItems(r, I)
      <3>1. I \in SUBSET r.at /\ d = DynamoItems(r, I)
        OBVIOUS
      <3> HIDE DEF I, d
      <3>2. Leaves(r, d)
        BY <2>2, <3>1, DynamoItemsLeave
      <3> QED BY <3>2 DEF I, d
    <2>4. r.do \notin Pages
      BY <1>4, Zenon DEF Pages
    <2> QED BY <1>1, <1>4, <2>1, <2>3, <2>4
  <1>5. CASE r.do \in {"read", "batch"} \cup Pages
    <2>1. DynamoWould(r) = db
      BY <1>5, Zenon DEF DynamoWould, Pages
    <2>2. r.do \notin {"sweep", "clear", "drop"}
      BY <1>5, Zenon DEF Pages
    <2> QED BY <1>1, <2>1, <2>2
  <1> QED BY <1>2, <1>3, <1>4, <1>5

\* A batch fails: all of it is answered as if nothing were there.
LEMMA BatchFails ==
    ASSUME CallsInv, NEW r \in flight, r.do \in {"write", "batch"}, NEW d, Leaves(r, d),
           Serve(r, d, aux, {}, Failed(Answered(job[r.t], All(job[r.t]), LAMBDA i : Answer(job[r.t].op, None, TRUE))))
    PROVE  Kept
  <1> DEFINE jt == job[r.t]
             R == [i \in DOMAIN jt.res |-> IF i \in All(jt) THEN Answer(jt.op, None, TRUE) ELSE jt.res[i]]
             h == [jt EXCEPT !.res = R]
             j == Failed(h)
  <1>1. Serve(r, d, aux, {}, j)
    BY DEF Answered
  <1>2. ASSUME Live(r) PROVE Moves(r, d, {}, j)
    <2>1. Onward(jt, jt) /\ DOMAIN jt.res = All(jt) /\ All(jt) = All(r.of) /\ jt.op = r.of.op
      BY <1>2, StaysOnward, LiveCall DEF CallOK
    <2>2. DOMAIN R = All(jt) /\ \A i \in All(jt) : R[i] = Answer(r.of.op, None, TRUE)
      BY <2>1
    <2> HIDE DEF R
    <2>3. Onward(jt, h) /\ h.res = R /\ h.out = jt.out
      BY <2>1, <2>2, AnsweredOnward
    <2> HIDE DEF h
    <2>4. Onward(jt, j) /\ j.res = R /\ j.out = jt.out /\ j.failed
      BY <2>3, FailedOnward
    <2> HIDE DEF j
    <2>5. ASSUME NEW i \in All(r.of), r.of.op \in WriteOps PROVE ~j.res[i]
      <3>1. r.of.op \notin ReadOps
        BY <2>5, OpsApart
      <3> QED BY <2>1, <2>2, <2>4, <3>1 DEF Answer
    <2> HIDE DEF jt
    <2> QED BY <1>2, <2>4, <2>5, FailMoves DEF jt
  <1> HIDE DEF j
  <1> QED BY <1>1, <1>2, KeepsSame, NoneSent, ServeKeeps

LEMMA DynamoFailedKeeps == ASSUME CallsInv, DynamoFailed PROVE Kept
  <1> DEFINE scan == "scan to clear"
             Dos == {"read", "put", "sweep", "delete", "write", "batch", scan, "clear", "drop"}
             Twice == {r \in Dy("write") \cup Dy("batch") : Repeats(r)}
             What(r) == IF r.do = "clear" THEN AfterClear(r) ELSE IF r.do = "drop" THEN {r.with[2]} ELSE {}
  <1>1. PICK r \in Twice \cup UNION {DynamoFailing(do) : do \in Dos} :
          \E d \in IF aux.table = "active" THEN Outcomes(r, DynamoWould(r)) ELSE {db} :
              Serve(r, d, aux, What(r), DynamoGoesOn(job[r.t], r))
    BY Zenon DEF DynamoFailed
  <1>2. scan \in Pages /\ (\A op : Fits(scan, op) => op = "clear") /\ scan \notin {"clear", "drop", "sweep"}
    BY Zenon DEF Pages, Fits
  <1>3. \A x : x.do = scan => DynamoGoesOn(job[x.t], x) = Failed(job[x.t])
    BY Zenon DEF DynamoGoesOn
  <1> HIDE DEF scan
  <1>4. r \in flight /\ r.do \in Dos /\ adapter = "dynamo"
    <2>1. CASE r \in Twice
      BY <2>1, DyIn
    <2>2. CASE r \in UNION {DynamoFailing(do) : do \in Dos}
      <3>1. PICK do \in Dos : r \in DynamoFailing(do)
        BY <2>2
      <3>2. r \in Sent("dynamo", do)
        BY <3>1, ServedIn DEF DynamoFailing
      <3> QED BY <3>1, <3>2, ServedIn
    <2> QED BY <1>1, <2>1, <2>2
  <1> HIDE DEF Twice
  <1>5. PICK d \in IF aux.table = "active" THEN Outcomes(r, DynamoWould(r)) ELSE {db} :
          Serve(r, d, aux, What(r), DynamoGoesOn(job[r.t], r))
    BY <1>1
  <1>6. d = db \/ d = DynamoWould(r)
    BY <1>5, OutcomesAre
  <1>7. Leaves(r, d)
    <2>1. Leaves(r, DynamoWould(r))
      BY <1>2, <1>4, DynamoWouldIs
    <2> QED BY <1>4, <1>6, <2>1, LeavesSame
  <1>8. CASE r.do \in {"read", "put", "delete"}
    <2>1. DynamoGoesOn(job[r.t], r) = Unsure(job[r.t], r.at)
      BY <1>8, Zenon DEF DynamoGoesOn
    <2>2. ~Chunked(r, adapter)
      BY <1>4, <1>8 DEF Chunked
    <2>3. Serve(r, d, aux, {}, Unsure(job[r.t], r.at))
      BY <1>5, <1>8, <2>1
    <2> DEFINE F == {}
    <2>4. (d = db \/ r \notin F) /\ Sends(r, F) /\ \A f \in F : f.do # "write" /\ \A H, x, e : Carries(f, H, adapter, x, e)
      BY NoneSent
    <2>5. Serve(r, d, aux, F, Unsure(job[r.t], r.at))
      BY <2>3
    <2> HIDE DEF F
    <2> QED BY <1>4, <1>7, <1>8, <2>2, <2>4, <2>5, UnsureKeeps
  <1>9. CASE r.do \in {"write", "batch"}
    <2>1. DynamoGoesOn(job[r.t], r) = Failed(Answered(job[r.t], All(job[r.t]), LAMBDA i : Answer(job[r.t].op, None, TRUE)))
      BY <1>9, Zenon DEF DynamoGoesOn, Answered
    <2>2. Serve(r, d, aux, {}, DynamoGoesOn(job[r.t], r))
      BY <1>5, <1>9
    <2>3. Serve(r, d, aux, {}, Failed(Answered(job[r.t], All(job[r.t]), LAMBDA i : Answer(job[r.t].op, None, TRUE))))
      BY <2>1, <2>2, Zenon
    <2> QED BY <1>4, <1>7, <1>9, <2>3, BatchFails
  <1>10. CASE r.do = scan
    <2>1. Serve(r, d, aux, {}, Failed(job[r.t]))
      BY <1>2, <1>3, <1>5, <1>10
    <2>2. r.of.op \notin WriteOps
      <3>1. Fits(scan, r.of.op)
        BY <1>4, <1>10, FlightIs
      <3> QED BY <1>2, <3>1 DEF WriteOps
    <2> QED BY <1>4, <1>7, <2>1, <2>2, FailedKeeps
  <1>11. CASE r.do = "clear"
    <2> DEFINE F == AfterClear(r)
               j == Failed(job[r.t])
    <2>1. F = AfterClear(r) /\ Serve(r, d, aux, F, j)
      <3>1. DynamoGoesOn(job[r.t], r) = Failed(job[r.t])
        BY <1>11, Zenon DEF DynamoGoesOn
      <3> QED BY <1>5, <1>11, <3>1
    <2> HIDE DEF F
    <2>2. /\ Sends(r, F) /\ r \notin F /\ r.of.op = "clear"
          /\ \A f \in F : f.do # "write" /\ \A H, x, e : Carries(f, H, adapter, x, e)
          /\ Live(r) => Together(NextOf(r, F), adapter)
      BY <1>4, <1>11, <2>1, AfterClearIs
    <2>3. ASSUME Live(r) PROVE Moves(r, d, F, j)
      <3>1. Onward(job[r.t], j) /\ j.out = job[r.t].out /\ j.failed
        BY <1>4, <2>3, StaysOnward, FailedOnward
      <3> HIDE DEF j
      <3>2. r.of.op \notin WriteOps
        BY <2>2 DEF WriteOps
      <3>3. r.of.op # "iterator" /\ Together(NextOf(r, F), adapter) /\ \A f \in F : f.do # "write"
        BY <2>2, <2>3
      <3>4. \A f \in F : Carries(f, Sights(r, d, j), adapter, aux, d)
        BY <2>2
      <3> QED BY <1>4, <2>3, <3>1, <3>2, <3>3, <3>4, FailMoves
    <2> HIDE DEF j
    <2> QED BY <1>4, <1>7, <2>1, <2>2, <2>3, KeepsSame, ServeKeeps
  <1>12. CASE r.do = "sweep"
    <2>1. DynamoGoesOn(job[r.t], r) = job[r.t]
      BY <1>12, Zenon DEF DynamoGoesOn
    <2>2. DynamoWould(r) = Drop(db, SlotsAt(r.of, r.at))
      BY <1>4, <1>12, DynamoWouldIs
    <2>3. Serve(r, d, aux, {}, job[r.t])
      BY <1>5, <1>12, <2>1
    <2> QED BY <1>4, <1>6, <1>12, <2>2, <2>3, KeySweptKeeps
  <1>13. CASE r.do = "drop"
    <2>1. DynamoGoesOn(job[r.t], r) = job[r.t]
      BY <1>13, Zenon DEF DynamoGoesOn
    <2> DEFINE S == {r.with[1]}
    <2>2. DynamoWould(r) = Drop(db, S)
      BY <1>4, <1>13, DynamoWouldIs
    <2>3. Parked(r, adapter) = {r.with[2]}
      BY <1>4, <1>13 DEF Parked
    <2>4. Serve(r, d, aux, Parked(r, adapter), job[r.t])
      BY <1>5, <1>13, <2>1, <2>3
    <2>5. S \cap Slots \subseteq {r.with[1]}
      OBVIOUS
    <2> HIDE DEF S
    <2> QED BY <1>4, <1>6, <1>13, <2>2, <2>4, <2>5, DroppedKeeps
  <1> QED BY <1>4, <1>8, <1>9, <1>10, <1>11, <1>12, <1>13

LEMMA DynamoRejectedKeeps == ASSUME CallsInv, DynamoRejected PROVE Kept
  <1>1. PICK r \in DynamoFailing("scan") : Reject(r, db)
    BY DEF DynamoRejected
  <1>2. r \in flight
    BY ServedIn DEF DynamoFailing
  <1> QED BY <1>1, <1>2, LeavesSame, RejectKeeps

\* clear and iterator begin with the first page, if there is one.
LEMMA PagesEnter ==
    ASSUME CallsInv, NEW t \in Tasks, NEW j, New(j, t), j.op \in {"clear", "iterator"}, NEW do \in Pages, Fits(do, j.op),
           Enter(t, j, NextPage(t, j, do, 1))
    PROVE  Kept
  <1>1. CASE 1 > Len(Names)
    <2>1. 1 \notin DOMAIN Names
      BY <1>1, NamesAre
    <2>2. Enter(t, j, {})
      BY <1>1 DEF NextPage
    <2> QED BY <2>1, <2>2, NoPageKeeps
  <1>2. CASE ~(1 > Len(Names))
    <2>1. Enter(t, j, {Command(t, j, do, {}, 1)})
      BY <1>2 DEF NextPage
    <2> QED BY <2>1, FromFirst, PageEnters
  <1> QED BY <1>1, <1>2

LEMMA DynamoCallKeeps ==
    ASSUME CallsInv, adapter = "dynamo", NEW t \in Tasks, NEW j, New(j, t), DynamoCall(t, j)
    PROVE  Kept
  <1> DEFINE scan == "scan to clear"
  <1>1. /\ scan \in Pages /\ Fits(scan, "clear") /\ "scan" \in Pages /\ Fits("scan", "iterator")
    BY Zenon DEF Pages, Fits
  <1>2. DynamoClear(t, j) => j.op = "clear" /\ Enter(t, j, NextPage(t, j, scan, 1))
    BY Zenon DEF DynamoClear
  <1> HIDE DEF scan
  <1>3. ASSUME NEW do \in {"read", "put", "delete"}, Fits(do, j.op), do = "put" => j.op = "set", Enter(t, j, Each(t, j, do))
        PROVE  Kept
    <2>1. Light(do, adapter, j.op) \/ do = "read"
      BY <1>3 DEF Light
    <2> QED BY <1>3, <2>1, EachKeeps
  <1>4. CASE j.op \in {"get", "has"} /\ Enter(t, j, Each(t, j, "read"))
    <2>1. Fits("read", j.op)
      BY <1>4 DEF Fits, ReadOps, HasOps
    <2> QED BY <1>3, <1>4, <2>1
  <1>5. CASE j.op \in {"getMany", "hasMany"} /\ Enter(t, j, IF All(j) = {} THEN {} ELSE ReadFrom(t, j, 1, NoRows))
    BY <1>5, DynamoReadManyKeeps
  <1>6. CASE j.op = "set" /\ Enter(t, j, Each(t, j, "put"))
    <2>1. Fits("put", j.op)
      BY <1>6 DEF Fits, WriteOps
    <2> QED BY <1>3, <1>6, <2>1
  <1>7. CASE DynamoSetMany(t, j)
    BY <1>7, DynamoSetManyKeeps
  <1>8. CASE j.op \in DeleteOps /\ Enter(t, j, Each(t, j, "delete"))
    <2>1. Fits("delete", j.op)
      BY <1>8 DEF Fits
    <2> QED BY <1>3, <1>8, <2>1
  <1>9. CASE DynamoClear(t, j)
    <2>1. j.op = "clear" /\ Enter(t, j, NextPage(t, j, scan, 1))
      BY <1>2, <1>9
    <2> QED BY <1>1, <2>1, PagesEnter
  <1>10. CASE DynamoIterator(t, j)
    <2>1. j.op = "iterator" /\ Enter(t, j, NextPage(t, j, "scan", 1))
      BY <1>10 DEF DynamoIterator
    <2> QED BY <1>1, <2>1, PagesEnter
  <1>11. CASE DynamoDisconnect(t, j)
    <2>1. j.op = "disconnect" /\ EnterWith(t, j, {}, aux)
      BY <1>11 DEF DynamoDisconnect, Enter
    <2>2. Items(j) = {}
      BY <2>1, NewIs DEF KeyOps, ReadOps, HasOps, WriteOps, DeleteOps
    <2> QED BY <2>1, <2>2, KeepsSame, NoneKeeps
  <1>12. \/ j.op \in {"get", "has"} /\ Enter(t, j, Each(t, j, "read"))
         \/ j.op \in {"getMany", "hasMany"} /\ Enter(t, j, IF All(j) = {} THEN {} ELSE ReadFrom(t, j, 1, NoRows))
         \/ j.op = "set" /\ Enter(t, j, Each(t, j, "put"))
         \/ DynamoSetMany(t, j)
         \/ j.op \in DeleteOps /\ Enter(t, j, Each(t, j, "delete"))
         \/ DynamoClear(t, j) \/ DynamoIterator(t, j) \/ DynamoDisconnect(t, j)
    BY DEF DynamoCall, DynamoGet, DynamoGetMany, DynamoHas, DynamoHasMany, DynamoSet, DynamoDelete, DynamoDeleteMany, DeleteOps
  <1> QED BY <1>4, <1>5, <1>6, <1>7, <1>8, <1>9, <1>10, <1>11, <1>12

LEMMA DynamoOps == ASSUME NEW t, NEW j, DynamoCall(t, j) PROVE j.op \in KeyOps \cup WalkOps
  <1>1. DynamoClear(t, j) => j.op = "clear"
    BY Zenon DEF DynamoClear
  <1>2. ~DynamoClear(t, j) => j.op \in {"get", "has", "getMany", "hasMany", "set", "setMany", "delete", "deleteMany",
                                        "iterator", "disconnect"}
    BY DEF DynamoCall, DynamoGet, DynamoGetMany, DynamoHas, DynamoHasMany, DynamoSet, DynamoSetMany, DynamoDelete,
           DynamoDeleteMany, DynamoIterator, DynamoDisconnect
  <1> QED BY <1>1, <1>2 DEF KeyOps, ReadOps, HasOps, WriteOps, DeleteOps, WalkOps

LEMMA DynamoEnters ==
    ASSUME CallsInv, adapter = "dynamo", NEW t \in Tasks, NewCall(t, DynamoCall)
    PROVE  Kept
  <1>1. PICK op \in Ops[t], ns \in Namespaces, ks \in Batches :
           /\ (op \in SingleOps <=> Len(ks) = 1) /\ (op \notin KeyOps => ks = <<>>)
           /\ \E live \in IF op \in WriteOps THEN Lives[adapter] ELSE {None} : DynamoCall(t, NewJob(op, ns, ks, live))
    BY Zenon DEF NewCall
  <1>2. PICK live \in IF op \in WriteOps THEN Lives[adapter] ELSE {None} : DynamoCall(t, NewJob(op, ns, ks, live))
    BY <1>1
  <1> DEFINE j == NewJob(op, ns, ks, live)
  <1>3. New(j, t)
    BY <1>1, <1>2, DynamoOps, NewMade
  <1> HIDE DEF j
  <1> QED BY <1>2, <1>3, DynamoCallKeeps DEF j

LEMMA DynamoKeeps == ASSUME CallsInv, DynamoNext PROVE Kept
  <1>1. ASSUME adapter = "dynamo", NEW t \in Tasks, NewCall(t, DynamoCall) PROVE Kept
    BY <1>1, DynamoEnters
  <1> QED BY <1>1, DynamoTableKeeps, DynamoPutKeeps, DynamoWrittenKeeps, DynamoReadKeeps, DynamoSweptKeeps, DynamoBatchKeeps,
             DynamoJudgedKeeps, DynamoDeletedKeeps, DynamoScannedToClearKeeps, DynamoClearedKeeps, DynamoScannedKeeps,
             DynamoPulledKeeps, DynamoDroppedKeeps, DynamoFailedKeeps, DynamoRejectedKeeps
          DEF DynamoNext
---------------------------------------------------------------------------
(* Every behaviour *)

\* The server drops an entry that has expired.
LEMMA ReapsKeep == ASSUME CallsInv, ServerReaps PROVE Kept
  <1>1. PICK s \in Slots : Expired(db[s], now) /\ Happen(Drop(db, {s}), aux)
    BY DEF ServerReaps, Reaped
  <1> DEFINE S == {s}
             d == Drop(db, S)
  <1>2. \A u \in S \cap Slots : Expired(db[u], now)
    BY <1>1
  <1>3. Happen(d, aux) /\ (d = db \/ d = Drop(db, S))
    BY <1>1
  <1>4. AuxOK(aux, adapter, now)
    BY DEF CallsInv, Types
  <1> HIDE DEF d, S
  <1> QED BY <1>2, <1>3, <1>4, HappenKeeps

LEMMA NextKeepsAll == ASSUME CallsInv, Next PROVE Kept
  BY MemcacheKeeps, EtcdKeeps, DynamoKeeps, MongoKeeps, RocksdbKeeps, ReapsKeep, TickKeeps DEF Next

\* What was there before is a row, that expires sooner or later.
LEMMA EntriesRows == ASSUME Entries \/ db = [s \in Slots |-> None] PROVE db \in [Slots -> Rows] /\ Past(db, 0)
  <1>1. PICK e \in {0, 1} : db \in [Slots -> {None, [val |-> Original, exp |-> e]}]
    <2>1. CASE Entries
      BY <2>1 DEF Entries
    <2>2. CASE db = [s \in Slots |-> None]
      BY <2>2
    <2> QED BY <2>1, <2>2
  <1>2. [val |-> Original, exp |-> e] \in Rows /\ None \in Rows
    <2>1. Original \in Values
      BY CallsAssumption DEF Original, Values
    <2> QED BY <2>1, RowsOf DEF Rows
  <1>3. db \in [Slots -> Rows]
    BY <1>1, <1>2
  <1>4. ASSUME NEW s \in Slots, db[s] # None PROVE db[s].val[1] <= 0
    <2>1. db[s] = [val |-> Original, exp |-> e]
      BY <1>1, <1>4
    <2> QED BY <2>1 DEF Original
  <1> QED BY <1>3, <1>4 DEF Past

LEMMA LeasesBegin ==
    ASSUME now = 0, NEW x, NEW shared \in {None} \cup {Lease(l, TRUE) : l \in {SharedTtl} \ {None}},
           x.shared = shared, x.leases = [b \in {Bucket(l) : l \in Lives["etcd"] \ {None}} |-> None]
    PROVE  LeasesOK(x, now)
  <1>1. IsLease(shared)
    <2>1. CASE shared = None
      BY <2>1 DEF IsLease
    <2>2. CASE shared # None
      <3>1. SharedTtl # None /\ shared = Lease(SharedTtl, TRUE)
        BY <2>2
      <3>2. SharedTtl \in Nat
        BY <3>1, EtcdAssumption
      <3> QED BY <3>1, <3>2 DEF Lease, IsLease
    <2> QED BY <2>1, <2>2
  <1>2. \A b \in DOMAIN x.leases : x.leases[b] = None
    OBVIOUS
  <1>3. x.leases = [b \in {Bucket(l) : l \in Lives["etcd"] \ {None}} |-> x.leases[b]]
    OBVIOUS
  <1> QED BY <1>1, <1>2, <1>3 DEF LeasesOK

LEMMA AuxBegins == ASSUME Init PROVE AuxOK(aux, adapter, now) /\ (Entries \/ db = [s \in Slots |-> None])
  <1>1. now = 0 /\ 0 \in 0..now
    BY DEF Init, CallsInit
  <1>2. CASE MemcacheInit
    BY <1>1, <1>2 DEF MemcacheInit, AuxOK
  <1>3. CASE EtcdInit
    <2>1. PICK shared \in {None} \cup {Lease(l, TRUE) : l \in {SharedTtl} \ {None}} :
            aux = [boot |-> "ready", since |-> 0, open |-> TRUE, shared |-> shared,
                   leases |-> [b \in {Bucket(l) : l \in Lives["etcd"] \ {None}} |-> None],
                   on |-> [s \in Slots |-> None]]
      BY <1>3 DEF EtcdInit
    <2>2. /\ aux.shared = shared /\ aux.leases = [b \in {Bucket(l) : l \in Lives["etcd"] \ {None}} |-> None]
          /\ {"boot", "since", "open", "leases", "shared", "on"} \subseteq DOMAIN aux /\ aux.since = 0
          /\ aux = [f \in DOMAIN aux |-> aux[f]]
      BY <2>1
    <2>3. LeasesOK(aux, now)
      BY <1>1, <2>2, LeasesBegin
    <2> QED BY <1>1, <1>3, <2>2, <2>3 DEF EtcdInit, AuxOK
  <1>4. CASE DynamoInit
    <2>1. PICK table \in {"none", "active"} :
            /\ aux = [boot |-> "pending", open |-> TRUE, step |-> "describe", since |-> 0, table |-> table]
            /\ IF table = "none" THEN db = [s \in Slots |-> None] ELSE Entries
      BY <1>4 DEF DynamoInit
    <2> QED BY <1>1, <1>4, <2>1 DEF DynamoInit, AuxOK, TableOK
  <1>5. CASE MongoInit
    <2>1. /\ {"boot", "since", "open"} \subseteq DOMAIN aux /\ aux.since = 0 /\ aux = [f \in DOMAIN aux |-> aux[f]]
          /\ adapter = "mongo" /\ Entries
      BY <1>5 DEF MongoInit
    <2> QED BY <1>1, <2>1 DEF AuxOK
  <1>6. CASE RocksdbInit
    BY <1>1, <1>6 DEF RocksdbInit, AuxOK
  <1> QED BY <1>2, <1>3, <1>4, <1>5, <1>6 DEF Init

LEMMA InitKeeps == ASSUME Init PROVE IInv
  <1>1. /\ adapter \in Adapters /\ now = 0 /\ calls = 0 /\ job = [t \in Tasks |-> Idle] /\ flight = {} /\ reply = Idle
    BY DEF Init, CallsInit
  <1>2. Types
    <2>1. db \in [Slots -> Rows] /\ Past(db, calls)
      BY <1>1, AuxBegins, EntriesRows
    <2>2. now \in 0..MaxTime[adapter] /\ calls \in 0..MaxCalls
      BY <1>1, CallsAssumption
    <2>3. job = [t \in Tasks |-> job[t]]
      BY <1>1
    <2> QED BY <1>1, <2>1, <2>2, <2>3, AuxBegins DEF Types
  <1>3. \A t \in Tasks : TaskOK(t)
    BY <1>1 DEF TaskOK
  <1>4. Promises
    BY <1>1 DEF Promises, ReadsCurrentElse, ReadsCurrent, EffectsReportedElse, WritesReported, TruesWritten, DeletesReported,
                WalksCompleteElse, ClearComplete, IterationOnce, IterationComplete, Ended
  <1> QED BY <1>1, <1>2, <1>3, <1>4 DEF IInv, CallsInv

LEMMA StutterKeeps == ASSUME IInv, UNCHANGED vars PROVE IInv'
  <1>1. adapter' = adapter /\ now' = now /\ db' = db /\ aux' = aux /\ calls' = calls /\ job' = job
        /\ flight' = flight /\ reply' = reply /\ seen' = seen /\ dirty' = dirty
    BY DEF vars
  <1>2. Types'
    BY <1>1 DEF IInv, CallsInv, Types
  <1>3. (\A r \in flight : FlightOK(r))'
    BY <1>1 DEF IInv, CallsInv, FlightOK
  <1>4. ASSUME NEW t \in Tasks PROVE TaskOK(t)'
    BY <1>1 DEF IInv, CallsInv, TaskOK
  <1>5. Promises'
    BY <1>1 DEF IInv, Promises, ReadsCurrentElse, ReadsCurrent, EffectsReportedElse, WritesReported, TruesWritten, DeletesReported,
                WalksCompleteElse, ClearComplete, IterationOnce, IterationComplete, Ended, Sure, Held, JudgedLate, BlindSetMany
  <1> QED BY <1>2, <1>3, <1>4, <1>5 DEF IInv, CallsInv

\* The invariant holds in every behaviour of the adapters of memcache, etcd, dynamo,
\* mongo and rocksdb.
THEOREM Invariance == Spec => []IInv
  <1>1. Init => IInv
    BY InitKeeps
  <1>2. IInv /\ [Next]_vars => IInv'
    BY NextKeepsAll, StutterKeeps DEF Kept, IInv
  <1> QED BY <1>1, <1>2, PTL DEF Spec

\* Every answer of get, getMany, has and hasMany is what its key held at some moment of
\* the call; of what is judged late, at the time of the answer, no answer is a value the
\* key did not hold in the call (dynamo's getMany and hasMany).
THEOREM ReadsStayCurrent == Spec => []ReadsCurrentElse
  <1>1. IInv => ReadsCurrentElse
    BY DEF IInv, Promises
  <1> QED BY <1>1, Invariance, PTL

\* set, setMany, delete and deleteMany answer true for what became so, and for no other,
\* although commands fail, come late or are left half done; but for setMany of etcd.
THEOREM EffectsStayReported == ASSUME Reports PROVE Spec => []EffectsReportedElse
  <1>1. IInv => EffectsReportedElse
    BY DEF IInv, Promises
  <1> QED BY <1>1, Invariance, PTL

\* clear empties all that it is to empty, and an iteration yields every key that is there
\* all the time, once and with a value it held, page by page and while others write and
\* delete; what is judged late may be passed (etcd's and rocksdb's iterators).
THEOREM WalksStayComplete == ASSUME Whole PROVE Spec => []WalksCompleteElse
  <1>1. IInv => WalksCompleteElse
    BY DEF IInv, Promises
  <1> QED BY <1>1, Invariance, PTL

\* No operation of dynamo reaches the service before the table is there, whoever made it,
\* unless a request of ensureTable failed.
THEOREM TableStaysReady == Spec => []TableReady
  <1>1. IInv => TableReady
    BY DEF IInv, CallsInv, Types, AuxOK, TableOK, TableReady
  <1> QED BY <1>1, Invariance, PTL

\* The state of the five adapters is one that StorageCalls describes: a call that is
\* waited for has something in flight, and each command its call.
THEOREM TypeCorrect == Spec => []TypeOK
  <1>1. IInv => TypeOK
    <2> SUFFICES ASSUME IInv PROVE TypeOK
      OBVIOUS
    <2>1. Types /\ (\A r \in flight : FlightOK(r)) /\ \A t \in Tasks : TaskOK(t)
      BY DEF IInv, CallsInv
    <2>2. ASSUME NEW r \in flight PROVE r.t \in Tasks /\ r.c \in {0, r.of.c} /\ r.of.c \in 1..calls
      BY <2>1 DEF FlightOK, CommandOK, PlainOK, OfOK
    <2>3. ASSUME NEW t \in Tasks, job[t] # Idle
          PROVE  job[t].op \in Ops[t] /\ job[t].c \in 1..calls /\ Mine(flight, t, job[t].c) # {}
      <3>1. OfOK(Of(job[t]), adapter, calls, now) /\ job[t].op \in Ops[t] /\ Mine(flight, t, job[t].c) # {}
        BY <2>1, <2>3 DEF TaskOK
      <3>2. Of(job[t]).c = job[t].c
        BY DEF Of
      <3> QED BY <3>1, <3>2 DEF OfOK
    <2> QED BY <2>1, <2>2, <2>3 DEF TypeOK, Types
  <1> QED BY <1>1, Invariance, PTL

\* A sweep deletes no entry that has not expired, unless it was written anew while the
\* call that sweeps was under way, whatever was read before and however late it is sent.
THEOREM SweepsStaySafe == ASSUME Alone PROVE Spec => SweepSafe
  <1>1. IInv /\ Next => SweepSafeStep
    BY NextKeepsAll DEF Kept, Stepped, IInv
  <1>2. IInv /\ [Next]_vars => [SweepSafeStep]_vars
    BY <1>1
  <1> QED BY <1>2, Invariance, PTL DEF Spec, SweepSafe

\* An entry is written to expire no later than its TTL from when the call was made or the
\* adapter was connected, and no earlier but for what leases and whole seconds take off.
THEOREM TtlStaysKept == ASSUME Positive PROVE Spec => TtlKept
  <1>1. IInv /\ [Next]_vars => [TtlWithin(Slack)]_vars
    BY NextKeepsAll DEF Kept, Stepped, IInv
  <1> QED BY <1>1, Invariance, PTL DEF Spec, TtlKept
=============================================================================
