----------------------------- MODULE RedisProofs -----------------------------
(***************************************************************************)
(* Proofs about the adapters of redis, keydb and valkey, for every number  *)
(* of callers, keys, batches, masters and namespaces.                      *)
(*                                                                         *)
(* A call may have several commands in flight, and outlived ones of calls  *)
(* that timed out or rejected may be served beside them.  What holds the   *)
(* invariant together is which entries a command in flight has yet to      *)
(* answer (Covers): every entry of a call is answered for good, or one of  *)
(* the call's own commands covers it (TaskOK).                             *)
(*                                                                         *)
(* A second invariant, above the first, follows the walks of clear and of  *)
(* the iterators: each key of the namespace was seen gone, was yielded, or *)
(* is still due to a command of the walk that is in flight (Due, Walked).  *)
(***************************************************************************)
EXTENDS RedisAdapters, FiniteSetTheorems, WellFoundedInduction, TLAPS

---------------------------------------------------------------------------
(* Calls and commands *)

WalkOps == {"clear", "iterator", "disconnect"}
\* The batches whose commands get the client one by one in a cluster.
Routed == {"hasMany", "getMany", "deleteMany"}

\* A call is a record with these fields.
Fields == {"op", "c", "ns", "keys", "live", "at", "i", "last", "out", "put", "failed", "unsure", "over", "res"}
IsJob(j) == j = [f \in Fields |-> j[f]]

\* What a command knows of its call, and what of it stays until it ends.
Of(j) == [c |-> j.c, op |-> j.op, ns |-> j.ns, keys |-> j.keys, live |-> j.live, at |-> j.at]
Positions == UNION {DOMAIN b : b \in Batches}

\* o is what a command knows of a call of adapter a, when n were made and it is time m.
OfOK(o, a, n, m) ==
    /\ o = Of(o) /\ o.op \in KeyOps \cup WalkOps /\ o.c \in 1..n
    /\ o.ns \in Namespaces /\ o.keys \in Seq(Keys) /\ DOMAIN o.keys \subseteq Positions
    /\ o.live \in Lives[a] \cup {None} /\ o.at \in 0..m
    /\ (o.op \in SingleOps => Len(o.keys) = 1) /\ (o.op \notin KeyOps => o.keys = <<>>)

CallOK(j) == IsJob(j) /\ j.put \subseteq All(j) /\ j.failed = FALSE /\ j.unsure = {} /\ DOMAIN j.res = All(j)

Fits(do, op) ==
    /\ do = "read" => op \in ReadOps \cup HasOps
    /\ do = "set" => op \in WriteOps
    /\ do = "delete" => op \in DeleteOps
    /\ do = "unrouted" => op \in Routed
    /\ do = "connect" => op \in KeyOps \cup {"clear", "iterator"}
    /\ do \notin {"read", "set", "delete", "unrouted", "connect"} => op \in WalkOps

\* The entries of each master; the entries I are of one.
Split(o) == {{i \in All(o) : MasterOf[o.keys[i]] = m} : m \in {MasterOf[o.keys[i]] : i \in All(o)}}
Alike(o, I) == \A i, m \in I : MasterOf[o.keys[i]] = MasterOf[o.keys[m]]

CommandOK(r, a, n, m) ==
    /\ r.t \in Tasks /\ r.c = r.of.c /\ OfOK(r.of, a, n, m) /\ r.at \subseteq All(r.of) /\ Fits(r.do, r.of.op)
    /\ (a \in Clusters /\ a # "valkey") => Alike(r.of, r.at)
    /\ (r.do = "connect" /\ r.at # {}) => r.of.op \in Routed /\ a \in Clusters /\ r.at \in Split(r.of)
    /\ (r.do = "delete" /\ a = "valkey") =>
          r.with \in Nat \ {0} /\ r.at = {i \in All(r.of) : i >= r.with /\ i < r.with + ChunkSize}

\* The entries a command of adapter a, and those that follow it, have yet to answer.
Covers(r, a) ==
    IF r.do \in {"read", "set", "unrouted"} THEN r.at
    ELSE IF r.do = "connect" THEN (IF r.at = {} THEN All(r.of) ELSE r.at)
    ELSE IF r.do = "delete" THEN (IF a = "valkey" THEN {i \in All(r.of) : i >= r.with} ELSE r.at)
    ELSE {}

---------------------------------------------------------------------------
(* The invariant *)

\* Callers give StorelyValkey no TTL that its transactions do not take: with useSets it
\* answers true of a set with one, although nothing was written.
Timely == "valkey" \in Adapters => \A live \in Lives["valkey"] : Accepted(live)

\* Entry i of a call that saw H is answered for good.
AnswerOK(j, i, H) ==
    /\ j.op \in ReadOps => j.res[i] \in H[Slot(j, i)]
    /\ j.op \in HasOps => /\ j.res[i] \in BOOLEAN
                          /\ j.res[i] => \E x \in H[Slot(j, i)] : x \notin {None, Stale}
                          /\ ~j.res[i] => None \in H[Slot(j, i)]
    /\ j.op \in WriteOps => j.res[i] \in BOOLEAN /\ (Timely => (j.res[i] <=> i \in j.put))
    /\ j.op \in DeleteOps => /\ j.res[i] \in BOOLEAN /\ None \in H[Slot(j, i)]
                             /\ j.res[i] => \E x \in H[Slot(j, i)] : x # None
\* It is not answered yet.
Open(j, i) == j.op \in WriteOps => j.res[i] = FALSE /\ i \notin j.put

\* The rows d, as they are at time m, are noted in H.
Noted(j, H, d, m) == \A s \in Concerns(j) : Looks(d[s], j.at, m) \subseteq H[s]

Waits(j, F, a, H) ==
    \A i \in All(j) : AnswerOK(j, i, H) \/ (Open(j, i) /\ \E r \in F : i \in Covers(r, a))

TaskOK(t) ==
    job[t] # Idle =>
        /\ CallOK(job[t]) /\ OfOK(Of(job[t]), adapter, calls, now) /\ job[t].op \in Ops[t]
        /\ Mine(flight, t, job[t].c) # {} /\ \A r \in Mine(flight, t, job[t].c) : r.of = Of(job[t])
        /\ Noted(job[t], seen[t], db, now)
        /\ Waits(job[t], Mine(flight, t, job[t].c), adapter, seen[t])

Types ==
    /\ adapter \in Adapters /\ now \in 0..MaxTime[adapter] /\ calls \in 0..MaxCalls
    /\ db \in [Slots -> Rows] /\ aux.cluster = (adapter \in Clusters)
    /\ job = [t \in Tasks |-> job[t]]

Promises == ReadsCurrent /\ (Timely => EffectsReported)

CallsInv == Types /\ (\A r \in flight : CommandOK(r, adapter, calls, now)) /\ \A t \in Tasks : TaskOK(t)
IInv == CallsInv /\ Promises

---------------------------------------------------------------------------
(* Rows and what they look like *)

LEMMA SlotIn == ASSUME NEW j, NEW a, NEW n, NEW m, OfOK(Of(j), a, n, m), NEW i \in All(j) PROVE Slot(j, i) \in Slots
  <1>1. j.ns \in Namespaces /\ j.keys \in Seq(Keys) /\ i \in DOMAIN j.keys
    BY DEF OfOK, Of, All
  <1> QED BY <1>1 DEF Slot, Slots

\* A row the server gives is noted at that moment, and so is that it has none to give.
LEMMA RowLooks ==
    ASSUME NEW row \in Rows, NEW at \in Nat, NEW n \in Nat, at <= n
    PROVE  /\ Visible(row, n) => row.val \in Looks(row, at, n) /\ row.val \notin {None, Stale}
           /\ ~Visible(row, n) => None \in Looks(row, at, n)
  <1>1. row # None => row.val \in Values /\ row.exp \in Int \cup {None}
    BY DEF Rows, Row
  <1>2. row # None => row.val \notin {None, Stale}
    BY <1>1, CallsAssumption
  <1>3. Visible(row, n) => row # None /\ Visible(row, at)
    BY <1>1, CallsAssumption DEF Visible, Expired
  <1> QED BY <1>1, <1>2, <1>3 DEF Looks

LEMMA RowsOf ==
    ASSUME NEW v \in Values, NEW e \in Int \cup {None} PROVE [val |-> v, exp |-> e] \in Rows \ {None}
  BY CallsAssumption DEF Rows, Row

LEMMA DropRows ==
    ASSUME NEW S, db \in [Slots -> Rows]
    PROVE  /\ Drop(db, S) \in [Slots -> Rows]
           /\ \A s \in Slots : Drop(db, S)[s] = IF s \in S THEN None ELSE db[s]
  BY DEF Drop, Rows

---------------------------------------------------------------------------
(* What a step leaves as it was *)

\* What every step does: it moves the clock and the count of calls on, and the
\* adapter stays the one it is.
Goes ==
    /\ adapter' = adapter /\ aux'.cluster = aux.cluster /\ now' \in 0..MaxTime[adapter] /\ now <= now'
    /\ calls' \in 0..MaxCalls /\ calls <= calls' /\ db' \in [Slots -> Rows] /\ Witness

LEMMA OfStays ==
    ASSUME Types, Goes, NEW o, OfOK(o, adapter, calls, now) PROVE OfOK(o, adapter', calls', now')
  <1>1. o.c \in 1..calls' /\ o.at \in 0..now'
    <2>1. o.c \in 1..calls /\ o.at \in 0..now /\ calls \in Nat /\ now \in Nat
      BY CallsAssumption DEF OfOK, Types
    <2>2. calls' \in Nat /\ now' \in Nat /\ calls <= calls' /\ now <= now'
      BY CallsAssumption DEF Goes, Types
    <2> QED BY <2>1, <2>2
  <1> QED BY <1>1 DEF OfOK, Goes

LEMMA CommandStays ==
    ASSUME Types, Goes, NEW r, CommandOK(r, adapter, calls, now)
    PROVE  CommandOK(r, adapter', calls', now')
  <1>1. OfOK(r.of, adapter', calls', now')
    BY OfStays DEF CommandOK
  <1> QED BY <1>1 DEF CommandOK, Goes

LEMMA TypesStay == ASSUME Types, Goes, job' = [t \in Tasks |-> job'[t]] PROVE Types'
  BY DEF Types, Goes

LEMMA WitnessSeen ==
    ASSUME Witness, NEW t \in Tasks, job'[t] # Idle
    PROVE  seen'[t] = More(IF job[t] = Idle THEN Nothing ELSE seen[t], Concerns(job'[t]), db', job'[t].at, now')
  BY DEF Witness

LEMMA MoreOf ==
    ASSUME NEW f, NEW S, NEW d, NEW at, NEW n, NEW s \in Slots
    PROVE  More(f, S, d, at, n)[s] = IF s \in S THEN f[s] \cup Looks(d[s], at, n) ELSE f[s]
  BY DEF More

LEMMA ConcernsSlots == ASSUME NEW j, NEW a, NEW n, NEW m, OfOK(Of(j), a, n, m) PROVE Concerns(j) \subseteq Slots
  <1>1. j.op \in KeyOps \cup WalkOps /\ Of(j).op = j.op
    BY DEF OfOK, Of
  <1>2. j.op \in KeyOps \ WriteOps => Concerns(j) = {Slot(j, i) : i \in All(j)}
    BY DEF Concerns, Slot, All, WriteOps
  <1>3. j.op \in WriteOps \/ j.op \notin KeyOps => Concerns(j) \in {{}, Slots}
    BY DEF Concerns, WriteOps, KeyOps
  <1> QED BY <1>2, <1>3, SlotIn

\* The keys of reads and deletions are concerned.
LEMMA KeysConcern ==
    ASSUME NEW j, NEW a, NEW n, NEW m, OfOK(Of(j), a, n, m), j.op \in KeyOps \ WriteOps, NEW i \in All(j)
    PROVE  Slot(j, i) \in Concerns(j) /\ Slot(j, i) \in Slots
  <1>1. Slot(j, i) \in Concerns(j)
    BY DEF Concerns, Slot, All
  <1> QED BY <1>1, SlotIn

LEMMA OpsApart ==
    /\ ReadOps \cup HasOps \cup DeleteOps \subseteq KeyOps \ WriteOps
    /\ WriteOps \subseteq KeyOps /\ KeyOps \cap WalkOps = {} /\ Routed \subseteq KeyOps
    /\ ReadOps \cap (HasOps \cup DeleteOps) = {} /\ HasOps \cap DeleteOps = {}
  BY DEF ReadOps, HasOps, DeleteOps, KeyOps, WriteOps, WalkOps, Routed

\* An answer that is right stays right: j and k have it in common, and G holds more.
LEMMA AnswerGrows ==
    ASSUME NEW j, NEW k, NEW i, NEW H, NEW G, NEW a, NEW n, NEW m, OfOK(Of(j), a, n, m), Of(k) = Of(j), i \in All(j),
           k.res[i] = j.res[i], i \in k.put <=> i \in j.put,
           \A s \in Slots : H[s] \subseteq G[s]
    PROVE  /\ AnswerOK(j, i, H) => AnswerOK(k, i, G)
           /\ Open(j, i) => Open(k, i)
  <1>1. k.op = j.op /\ Slot(k, i) = Slot(j, i) /\ H[Slot(j, i)] \subseteq G[Slot(j, i)]
    <2>1. k.op = j.op /\ k.ns = j.ns /\ k.keys = j.keys
      BY DEF Of
    <2> QED BY <2>1, SlotIn DEF Slot
  <1> QED BY <1>1 DEF AnswerOK, Open

\* A call that neither moves nor ends.
LEMMA OthersKeep ==
    ASSUME Types, Goes, NEW t \in Tasks, TaskOK(t), job'[t] = job[t],
           job[t] # Idle => Mine(flight', t, job[t].c) = Mine(flight, t, job[t].c)
    PROVE  TaskOK(t)'
  <1> SUFFICES ASSUME job[t] # Idle PROVE TaskOK(t)'
    BY DEF TaskOK
  <1> DEFINE j == job[t]
             H == seen[t]
             G == seen'[t]
             mine == Mine(flight, t, j.c)
  <1>1. /\ CallOK(j) /\ OfOK(Of(j), adapter, calls, now) /\ j.op \in Ops[t]
        /\ mine # {} /\ \A r \in mine : r.of = Of(j)
        /\ Waits(j, mine, adapter, H)
    BY DEF TaskOK
  <1>2. OfOK(Of(j), adapter', calls', now')
    BY <1>1, OfStays
  <1>3. G = More(H, Concerns(j), db', j.at, now')
    BY WitnessSeen DEF Goes
  <1> HIDE DEF j, H, G, mine
  <1>4. \A s \in Slots : G[s] = IF s \in Concerns(j) THEN H[s] \cup Looks(db'[s], j.at, now') ELSE H[s]
    BY <1>3 DEF More
  <1>5. Noted(j, G, db', now')
    BY <1>1, <1>4, ConcernsSlots DEF Noted
  <1>6. Waits(j, mine, adapter', G)
    <2>1. \A s \in Slots : H[s] \subseteq G[s]
      BY <1>4
    <2>2. \A i \in All(j) : AnswerOK(j, i, H) => AnswerOK(j, i, G)
      BY <1>1, <2>1, AnswerGrows
    <2> QED BY <1>1, <2>2 DEF Waits, Goes
  <1> QED BY <1>1, <1>2, <1>5, <1>6 DEF TaskOK, j, G, mine

---------------------------------------------------------------------------
(* What callers learn *)

LEMMA NoReply == ASSUME reply' = Idle PROVE Promises'
  BY DEF Promises, ReadsCurrent, EffectsReported, WritesReported, TruesWritten, DeletesReported, Ended

\* A call that ends with every entry answered has answered right.
LEMMA EndedRight ==
    ASSUME NEW k, NEW H, k.unsure = {}, \A i \in All(k) : AnswerOK(k, i, H), k.put \subseteq All(k),
           reply' = [job |-> k, seen |-> H]
    PROVE  Promises'
  <1>1. reply'.job = k /\ reply'.seen = H /\ Sure' = All(k) /\ All(reply'.job) = All(k)
    BY DEF Sure
  <1>2. \A i : Held(i)' = H[Slot(k, i)]
    BY <1>1 DEF Held
  <1>3. \A ops : Ended(ops)' => k.op \in ops
    BY <1>1 DEF Ended
  <1>4. ReadsCurrent'
    <2>1. Ended(ReadOps)' => \A i \in All(k) : k.res[i] \in H[Slot(k, i)]
      BY <1>3 DEF AnswerOK
    <2>2. Ended(HasOps)' => \A i \in All(k) :
             IF k.res[i] THEN H[Slot(k, i)] \ {None, Stale} # {} ELSE None \in H[Slot(k, i)]
      BY <1>3 DEF AnswerOK
    <2> QED BY <1>1, <1>2, <2>1, <2>2 DEF ReadsCurrent
  <1>5. Timely => WritesReported'
    <2> SUFFICES ASSUME Timely PROVE WritesReported'
      OBVIOUS
    <2>1. k.op \in WriteOps => \A i \in All(k) : (k.res[i] => i \in k.put) /\ (i \in k.put => k.res[i])
      BY DEF AnswerOK
    <2>2. TruesWritten'
      BY <1>1, <2>1 DEF TruesWritten
    <2> QED BY <1>1, <1>3, <2>1, <2>2 DEF WritesReported
  <1>6. DeletesReported'
    <2>1. Ended(DeleteOps)' => \A i \in All(k) :
             None \in H[Slot(k, i)] /\ (k.res[i] => H[Slot(k, i)] # {None})
      BY <1>3 DEF AnswerOK
    <2> QED BY <1>1, <1>2, <2>1 DEF DeletesReported
  <1> QED BY <1>4, <1>5, <1>6 DEF Promises, EffectsReported

\* Of a call that failed, only its `true`s count.
LEMMA FailedRight ==
    ASSUME NEW k, NEW H, k.failed, Timely /\ k.op \in WriteOps => \A i \in All(k) : k.res[i] => i \in k.put,
           reply' = [job |-> k, seen |-> H]
    PROVE  Promises'
  <1>1. reply'.job = k /\ \A ops : ~Ended(ops)'
    BY DEF Ended
  <1> QED BY <1>1 DEF Promises, ReadsCurrent, EffectsReported, WritesReported, TruesWritten, DeletesReported

---------------------------------------------------------------------------
(* The moves of a call *)

After(r, d, j)  == [j EXCEPT !.put = @ \cup Taken(r, d)]
Sights(r, d, j) == More(seen[r.t], Concerns(j), d, j.at, now)

\* k is a call j after it moved: its variables changed, but for put.
Onward(j, k) == CallOK(k) /\ Of(k) = Of(j) /\ k.put = j.put

\* What follows command r.
Sends(r, F) == \A f \in F : f.t = r.t /\ f.of = r.of /\ CommandOK(f, adapter, calls, now)

\* What r is to answer is answered for good, or left to a command that follows.
Settles(r, d, F, j) ==
    \A i \in All(j) :
        \/ AnswerOK(After(r, d, j), i, Sights(r, d, j))
        \/ /\ j.res[i] = job[r.t].res[i] /\ i \notin Taken(r, d)
           /\ i \in Covers(r, adapter) => \E f \in F : i \in Covers(f, adapter)

Moves(r, d, F, j) == Onward(job[r.t], j) /\ Settles(r, d, F, j)

LEMMA AfterOK ==
    ASSUME NEW r \in flight, CommandOK(r, adapter, calls, now), Live(r), TaskOK(r.t), NEW d, NEW j, Onward(job[r.t], j)
    PROVE  LET k == After(r, d, j)
           IN  /\ CallOK(k) /\ Of(k) = Of(j) /\ k # Idle /\ k.res = j.res /\ All(k) = All(j) /\ k.op = j.op
               /\ k.put = j.put \cup Taken(r, d) /\ k.at = j.at /\ k.c = r.c /\ Concerns(k) = Concerns(j)
               /\ r.of = Of(j) /\ Of(j) = Of(job[r.t]) /\ OfOK(Of(j), adapter, calls, now)
  <1> DEFINE k == After(r, d, j)
  <1>1. /\ job[r.t] # Idle /\ r \in Mine(flight, r.t, job[r.t].c) /\ r.c = job[r.t].c
        /\ r.of = Of(job[r.t]) /\ OfOK(Of(j), adapter, calls, now) /\ Of(j) = Of(job[r.t])
        /\ CallOK(j) /\ r.at \subseteq All(r.of)
    BY DEF Live, TaskOK, Mine, Onward, CommandOK
  <1>2. /\ IsJob(k) /\ k.put = j.put \cup Taken(r, d)
        /\ k.op = j.op /\ k.c = j.c /\ k.ns = j.ns /\ k.keys = j.keys /\ k.live = j.live /\ k.at = j.at
        /\ k.res = j.res /\ k.failed = j.failed /\ k.unsure = j.unsure
    BY <1>1 DEF CallOK, IsJob, Fields, After
  <1> HIDE DEF k
  <1>3. All(k) = All(j) /\ Of(k) = Of(j) /\ Concerns(k) = Concerns(j) /\ k.c = r.c
    <2>1. All(k) = All(j) /\ Of(k) = Of(j) /\ Concerns(k) = Concerns(j)
      BY <1>2 DEF All, Of, Concerns
    <2> QED BY <1>1, <1>2, <2>1 DEF Of
  <1>4. All(r.of) = All(j) /\ Taken(r, d) \subseteq r.at
    <2>1. r.of = Of(j)
      BY <1>1
    <2>2. r.of.keys = j.keys
      BY <2>1 DEF Of
    <2>3. Taken(r, d) \subseteq r.at
      BY DEF Taken
    <2> QED BY <2>2, <2>3 DEF All
  <1>5. k.op \in KeyOps \cup WalkOps
    BY <1>1, <1>2 DEF OfOK, Of
  <1>6. k # Idle
    BY <1>5 DEF Idle, KeyOps, ReadOps, HasOps, WriteOps, DeleteOps, WalkOps
  <1>7. CallOK(k)
    BY <1>1, <1>2, <1>3, <1>4 DEF CallOK
  <1> QED BY <1>1, <1>2, <1>3, <1>6, <1>7 DEF k

\* The call goes on.
LEMMA MovedOK ==
    ASSUME CallsInv, Goes, NEW r \in flight, Live(r), NEW F, NEW j,
           Sends(r, F), Moves(r, db', F, j), now' = now, flight' = (flight \ {r}) \cup F,
           job'[r.t] = After(r, db', j), Mine(flight', r.t, r.c) # {}
    PROVE  TaskOK(r.t)'
  <1> DEFINE t == r.t
             k == After(r, db', j)
             H == seen[t]
             G == Sights(r, db', j)
             mine == Mine(flight, t, r.c)
             next == Mine(flight', t, r.c)
  <1>1. /\ CommandOK(r, adapter, calls, now) /\ t \in Tasks /\ TaskOK(t) /\ Types
        /\ job[t] # Idle /\ job[t].c = r.c /\ Onward(job[t], j)
    BY DEF CallsInv, CommandOK, Live, Moves
  <1>2. /\ CallOK(k) /\ Of(k) = Of(j) /\ k # Idle /\ k.res = j.res /\ All(k) = All(j) /\ k.op = j.op
        /\ k.put = j.put \cup Taken(r, db') /\ k.at = j.at /\ k.c = r.c /\ Concerns(k) = Concerns(j)
        /\ r.of = Of(j) /\ Of(j) = Of(job[t]) /\ OfOK(Of(j), adapter, calls, now)
    BY <1>1, AfterOK
  <1>3. /\ job[t].op \in Ops[t] /\ \A q \in mine : q.of = Of(job[t])
        /\ Waits(job[t], mine, adapter, H) /\ CallOK(job[t]) /\ OfOK(Of(job[t]), adapter, calls, now)
    BY <1>1 DEF TaskOK
  <1>4. job'[t] = k /\ seen'[t] = G
    <2>1. seen'[t] = More(H, Concerns(k), db', k.at, now)
      BY <1>1, <1>2, WitnessSeen DEF Goes
    <2> QED BY <1>2, <2>1 DEF Sights
  <1>5. OfOK(Of(k), adapter', calls', now')
    BY <1>1, <1>2, OfStays
  <1>6. \A s \in Slots : G[s] = IF s \in Concerns(j) THEN H[s] \cup Looks(db'[s], j.at, now) ELSE H[s]
    BY DEF Sights, More
  <1>7. next \subseteq (mine \ {r}) \cup F /\ mine \ {r} \subseteq next /\ F \subseteq next
    <2>1. \A f \in F : f.t = t /\ f.c = r.c
      BY <1>1 DEF Sends, CommandOK
    <2> QED BY <2>1 DEF Mine
  <1>8. \A q \in next : q.of = Of(k)
    BY <1>2, <1>3, <1>7 DEF Sends
  <1> DEFINE jt == job[t]
  <1> HIDE DEF k, H, G, mine, next, jt
  <1>9. Noted(k, G, db', now')
    BY <1>2, <1>6, ConcernsSlots DEF Noted
  <1>10. ASSUME NEW i \in All(k)
         PROVE  AnswerOK(k, i, G) \/ (Open(k, i) /\ \E q \in next : i \in Covers(q, adapter'))
    <2>1. CASE AnswerOK(k, i, G)
      BY <2>1
    <2>2. CASE /\ j.res[i] = jt.res[i] /\ i \notin Taken(r, db')
               /\ i \in Covers(r, adapter) => \E f \in F : i \in Covers(f, adapter)
      <3>1. k.res[i] = jt.res[i] /\ (i \in k.put <=> i \in jt.put)
        BY <1>1, <1>2, <2>2 DEF Onward, jt
      <3>2. All(jt) = All(k) /\ Of(k) = Of(jt)
        <4>1. Of(k) = Of(jt)
          BY <1>2 DEF jt
        <4> QED BY <4>1 DEF Of, All
      <3>3. \A s \in Slots : H[s] \subseteq G[s]
        BY <1>6
      <3>4. OfOK(Of(jt), adapter, calls, now) /\ i \in All(jt)
        BY <1>3, <3>2 DEF jt
      <3>5. (AnswerOK(jt, i, H) => AnswerOK(k, i, G)) /\ (Open(jt, i) => Open(k, i))
        BY <3>1, <3>2, <3>3, <3>4, AnswerGrows
      <3>6. AnswerOK(jt, i, H) \/ (Open(jt, i) /\ \E q \in mine : i \in Covers(q, adapter))
        BY <1>3, <3>4 DEF Waits, jt
      <3>7. (\E q \in mine : i \in Covers(q, adapter)) => \E q \in next : i \in Covers(q, adapter')
        BY <1>7, <2>2 DEF Goes
      <3> QED BY <3>5, <3>6, <3>7
    <2>3. \/ AnswerOK(k, i, G)
          \/ /\ j.res[i] = jt.res[i] /\ i \notin Taken(r, db')
             /\ i \in Covers(r, adapter) => \E f \in F : i \in Covers(f, adapter)
      BY <1>2 DEF Moves, Settles, k, G, jt
    <2> QED BY <2>1, <2>2, <2>3
  <1>11. Waits(k, next, adapter', G)
    BY <1>10 DEF Waits
  <1>12. k.op \in Ops[t]
    BY <1>2, <1>3 DEF Of
  <1> QED BY <1>2, <1>4, <1>5, <1>8, <1>9, <1>11, <1>12 DEF TaskOK, next

LEMMA Assembled ==
    ASSUME CallsInv, Goes, job' = [t \in Tasks |-> job'[t]],
           \A r \in flight' : r \in flight \/ CommandOK(r, adapter', calls', now'),
           \A t \in Tasks : TaskOK(t)'
    PROVE  CallsInv'
  <1>1. Types'
    BY TypesStay DEF CallsInv
  <1>2. \A r \in flight' : CommandOK(r, adapter', calls', now')
    BY CommandStays DEF CallsInv
  <1> QED BY <1>1, <1>2 DEF CallsInv

\* What becomes of the tasks whose call command r is not of.
LEMMA OthersServed ==
    ASSUME CallsInv, Goes, NEW r \in flight, NEW F, Sends(r, F), flight' = (flight \ {r}) \cup F,
           NEW t \in Tasks, ~Live(r) \/ t # r.t, job'[t] = job[t]
    PROVE  TaskOK(t)'
  <1>1. \A f \in F : f.t = r.t /\ f.c = r.c
    BY DEF Sends, CommandOK, CallsInv
  <1>2. job[t] # Idle => Mine(flight', t, job[t].c) = Mine(flight, t, job[t].c)
    BY <1>1 DEF Mine, Live
  <1> QED BY <1>2, OthersKeep DEF CallsInv

LEMMA IdleOK == ASSUME NEW t, job'[t] = Idle PROVE TaskOK(t)'
  BY DEF TaskOK

LEMMA GoesOn ==
    ASSUME CallsInv, adapter' = adapter, aux'.cluster = aux.cluster, now' = now, calls' = calls,
           db' \in [Slots -> Rows], Witness
    PROVE  Goes
  <1>1. now \in 0..MaxTime[adapter] /\ calls \in 0..MaxCalls
    BY DEF CallsInv, Types
  <1>2. now <= now /\ calls <= calls
    BY <1>1, CallsAssumption DEF CallsInv, Types
  <1> QED BY <1>1, <1>2 DEF Goes

\* Command r is served, and the call goes on or is over.
LEMMA ServeKeeps ==
    ASSUME CallsInv, NEW r \in flight, NEW d \in [Slots -> Rows], NEW a, a.cluster = aux.cluster,
           NEW F, Sends(r, F), NEW j, Live(r) => Moves(r, d, F, j), Serve(r, d, a, F, j)
    PROVE  IInv'
  <1> DEFINE k == After(r, d, j)
  <1>1. /\ db' = d /\ adapter' = adapter /\ aux'.cluster = aux.cluster /\ now' = now /\ calls' = calls /\ Witness
        /\ flight' = (flight \ {r}) \cup F
    BY DEF Serve, Step
  <1>2. Goes
    BY <1>1, GoesOn
  <1>3. r.t \in Tasks /\ job = [t \in Tasks |-> job[t]] /\ CommandOK(r, adapter, calls, now) /\ TaskOK(r.t)
    BY DEF CallsInv, CommandOK, Types
  <1>4. \A q \in flight' : q \in flight \/ CommandOK(q, adapter', calls', now')
    BY <1>1, <1>2, CommandStays DEF Sends, CallsInv
  <1>5. CASE ~Live(r)
    <2>1. reply' = Idle /\ job' = job
      BY <1>5 DEF Serve, Step
    <2>2. \A t \in Tasks : TaskOK(t)'
      BY <1>1, <1>2, <1>5, <2>1, OthersServed
    <2>3. CallsInv'
      BY <1>2, <1>3, <1>4, <2>1, <2>2, Assembled
    <2> QED BY <2>1, <2>3, NoReply DEF IInv
  <1>6. CASE Live(r) /\ Mine(flight', r.t, r.c) # {}
    <2>1. reply' = Idle /\ job' = [job EXCEPT ![r.t] = k]
      BY <1>1, <1>6 DEF Serve, Step, After
    <2> HIDE DEF k
    <2>2. job' = [t \in Tasks |-> job'[t]] /\ job'[r.t] = k /\ \A t \in Tasks : t # r.t => job'[t] = job[t]
      BY <1>3, <2>1
    <2>3. TaskOK(r.t)'
      BY <1>1, <1>2, <1>6, <2>2, MovedOK DEF k
    <2>4. \A t \in Tasks : t # r.t => TaskOK(t)'
      BY <1>1, <1>2, <2>2, OthersServed
    <2>5. CallsInv'
      BY <1>2, <1>4, <2>2, <2>3, <2>4, Assembled
    <2> QED BY <2>1, <2>5, NoReply DEF IInv
  <1>7. CASE Live(r) /\ Mine(flight', r.t, r.c) = {}
    <2>1. reply' = [job |-> k, seen |-> Sights(r, d, j)] /\ job' = [job EXCEPT ![r.t] = Idle]
      BY <1>1, <1>7 DEF Serve, Step, After, Sights
    <2>2. job' = [t \in Tasks |-> job'[t]] /\ job'[r.t] = Idle /\ \A t \in Tasks : t # r.t => job'[t] = job[t]
      BY <1>3, <2>1
    <2>3. \A t \in Tasks : t # r.t => TaskOK(t)'
      BY <1>1, <1>2, <2>2, OthersServed
    <2>4. CallsInv'
      BY <1>2, <1>4, <2>2, <2>3, IdleOK, Assembled
    <2>5. /\ CallOK(k) /\ k.res = j.res /\ All(k) = All(j) /\ Of(k) = Of(j) /\ k.put = j.put \cup Taken(r, d)
          /\ Of(j) = Of(job[r.t]) /\ OfOK(Of(j), adapter, calls, now)
      BY <1>3, <1>7, AfterOK DEF Moves
    <2>6. \A i \in All(k) : AnswerOK(k, i, Sights(r, d, j))
      <3> DEFINE jt == job[r.t]
                 H == seen[r.t]
                 G == Sights(r, d, j)
      <3>1. Mine(flight, r.t, r.c) = {r} /\ F = {}
        <4>1. \A f \in F : f.t = r.t /\ f.c = r.c
          BY <1>3 DEF Sends, CommandOK
        <4> QED BY <1>1, <1>7, <4>1 DEF Mine
      <3>2. Waits(jt, {r}, adapter, H) /\ jt.put = j.put /\ Of(k) = Of(jt)
        <4>1. jt # Idle /\ jt.c = r.c
          BY <1>7 DEF Live
        <4> QED BY <1>3, <1>7, <2>5, <3>1, <4>1 DEF TaskOK, Moves, Onward
      <3>3. All(jt) = All(k) /\ OfOK(Of(jt), adapter, calls, now)
        <4>1. Of(k).keys = Of(jt).keys
          BY <3>2
        <4> QED BY <2>5, <4>1 DEF Of, All
      <3>4. \A s \in Slots : H[s] \subseteq G[s]
        BY DEF Sights, More
      <3> HIDE DEF k, jt, H, G
      <3>5. ASSUME NEW i \in All(k) PROVE AnswerOK(k, i, G)
        <4>1. AnswerOK(k, i, G) \/ (j.res[i] = jt.res[i] /\ i \notin Taken(r, d) /\ i \notin Covers(r, adapter))
          BY <1>7, <2>5, <3>1 DEF Moves, Settles, k, jt, G
        <4>2. ASSUME j.res[i] = jt.res[i], i \notin Taken(r, d), i \notin Covers(r, adapter) PROVE AnswerOK(k, i, G)
          <5>1. AnswerOK(jt, i, H)
            BY <3>2, <3>3, <4>2 DEF Waits
          <5>2. k.res[i] = jt.res[i] /\ (i \in k.put <=> i \in jt.put)
            BY <2>5, <3>2, <4>2
          <5> QED BY <3>2, <3>3, <3>4, <5>1, <5>2, AnswerGrows
        <4> QED BY <4>1, <4>2
      <3> QED BY <3>5 DEF G
    <2>7. Promises'
      BY <2>1, <2>5, <2>6, EndedRight DEF CallOK
    <2> QED BY <2>4, <2>7 DEF IInv
  <1> QED BY <1>5, <1>6, <1>7

\* The call ends with command r, although others of it may be in flight.
LEMMA EndsKeep ==
    ASSUME CallsInv, NEW r \in flight, db' \in [Slots -> Rows], aux'.cluster = aux.cluster,
           adapter' = adapter, now' = now, calls' = calls, Witness, flight' = flight \ {r},
           job' = IF Live(r) THEN [job EXCEPT ![r.t] = Idle] ELSE job
    PROVE  CallsInv'
  <1>1. Goes /\ Sends(r, {}) /\ flight' = (flight \ {r}) \cup {}
    BY GoesOn DEF Sends
  <1>2. r.t \in Tasks /\ job = [t \in Tasks |-> job[t]]
    BY DEF CallsInv, CommandOK, Types
  <1>3. /\ job' = [t \in Tasks |-> job'[t]]
        /\ Live(r) => job'[r.t] = Idle
        /\ \A t \in Tasks : (~Live(r) \/ t # r.t) => job'[t] = job[t]
    BY <1>2
  <1>4. ASSUME NEW t \in Tasks PROVE TaskOK(t)'
    <2>1. CASE Live(r) /\ t = r.t
      BY <1>3, <2>1, IdleOK
    <2>2. CASE ~Live(r) \/ t # r.t
      <3>1. job'[t] = job[t]
        BY <1>3, <2>2
      <3> QED BY <1>1, <2>2, <3>1, OthersServed
    <2> QED BY <2>1, <2>2
  <1>5. \A q \in flight' : q \in flight
    OBVIOUS
  <1>6. /\ \A q \in flight' : q \in flight \/ CommandOK(q, adapter', calls', now')
        /\ \A t \in Tasks : TaskOK(t)'
    BY <1>4, <1>5
  <1> QED BY <1>1, <1>3, <1>6, Assembled

LEMMA RejectKeeps ==
    ASSUME CallsInv, NEW r \in flight, NEW d \in [Slots -> Rows], NEW a, a.cluster = aux.cluster, RejectWith(r, d, a)
    PROVE  IInv'
  BY EndsKeep, NoReply DEF RejectWith, IInv

\* It ends with an error that is caught: it acknowledges nothing that was not written.
Fails(r, d, j) ==
    j.failed /\ (Timely /\ j.op \in WriteOps => \A i \in All(j) : j.res[i] => i \in j.put)

LEMMA FinishKeeps ==
    ASSUME CallsInv, NEW r \in flight, NEW d \in [Slots -> Rows], NEW a, a.cluster = aux.cluster,
           NEW j, Live(r) => Fails(r, d, j) /\ j = [f \in Fields |-> j[f]], Finish(r, d, a, j)
    PROVE  IInv'
  <1>1. /\ db' = d /\ adapter' = adapter /\ aux'.cluster = aux.cluster /\ now' = now /\ calls' = calls /\ Witness
        /\ flight' = flight \ {r}
    BY DEF Finish, Step
  <1>2. job' = IF Live(r) THEN [job EXCEPT ![r.t] = Idle] ELSE job
    BY DEF Finish, Step
  <1>3. CallsInv'
    BY <1>1, <1>2, EndsKeep
  <1>4. CASE ~Live(r)
    BY <1>3, <1>4, NoReply DEF Finish, Step, IInv
  <1>5. CASE Live(r)
    <2> DEFINE k == After(r, d, j)
    <2>1. reply' = [job |-> k, seen |-> Sights(r, d, j)]
      BY <1>5 DEF Finish, Step, After, Sights
    <2>2. k.failed = j.failed /\ k.op = j.op /\ k.res = j.res /\ k.keys = j.keys /\ k.put = j.put \cup Taken(r, d)
      BY <1>5 DEF After, Fields
    <2> HIDE DEF k
    <2>3. k.failed /\ (Timely /\ k.op \in WriteOps => \A i \in All(k) : k.res[i] => i \in k.put)
      BY <1>5, <2>2 DEF Fails, All
    <2>4. Promises'
      BY <2>1, <2>3, FailedRight
    <2> QED BY <1>3, <2>4 DEF IInv
  <1> QED BY <1>4, <1>5

LEMMA GiveUpKeeps == ASSUME CallsInv, NEW t \in Tasks, GiveUp(t) PROVE IInv'
  <1>1. /\ db' = db /\ adapter' = adapter /\ aux' = aux /\ now' = now /\ calls' = calls /\ Witness
        /\ flight' = flight /\ reply' = Idle /\ job' = [job EXCEPT ![t] = Idle]
    BY DEF GiveUp
  <1>2. Goes
    BY <1>1, GoesOn DEF CallsInv, Types
  <1>3. /\ job' = [u \in Tasks |-> job'[u]] /\ job'[t] = Idle /\ \A u \in Tasks : u # t => job'[u] = job[u]
    BY <1>1 DEF CallsInv, Types
  <1>4. ASSUME NEW u \in Tasks PROVE TaskOK(u)'
    <2>1. CASE u = t
      BY <1>3, <2>1, IdleOK
    <2>2. CASE u # t
      BY <1>1, <1>2, <1>3, <2>2, OthersKeep DEF CallsInv
    <2> QED BY <2>1, <2>2
  <1>5. CallsInv'
    BY <1>1, <1>2, <1>3, <1>4, Assembled
  <1> QED BY <1>1, <1>5, NoReply DEF IInv

LEMMA TickKeeps == ASSUME CallsInv, Tick PROVE IInv'
  <1>1. /\ db' = db /\ adapter' = adapter /\ aux' = aux /\ now' = now + 1 /\ now < MaxTime[adapter] /\ calls' = calls
        /\ Witness /\ flight' = flight /\ reply' = Idle /\ job' = job
    BY DEF Tick
  <1>2. Goes
    <2>1. now \in 0..MaxTime[adapter] /\ calls \in 0..MaxCalls /\ MaxTime[adapter] \in Nat /\ MaxCalls \in Nat
      BY CallsAssumption DEF CallsInv, Types
    <2>2. now' \in 0..MaxTime[adapter] /\ now <= now' /\ calls <= calls'
      BY <1>1, <2>1
    <2> QED BY <1>1, <2>1, <2>2 DEF Goes, CallsInv, Types
  <1>3. ASSUME NEW u \in Tasks PROVE TaskOK(u)'
    BY <1>1, <1>2, OthersKeep DEF CallsInv
  <1>4. job' = [t \in Tasks |-> job'[t]]
    BY <1>1 DEF CallsInv, Types
  <1>5. CallsInv'
    BY <1>1, <1>2, <1>3, <1>4, Assembled DEF CallsInv
  <1> QED BY <1>1, <1>5, NoReply DEF IInv

---------------------------------------------------------------------------
(* New calls *)

\* A call as it is made, of n calls.
Fresh(j, t, n) ==
    /\ CallOK(j) /\ OfOK(Of(j), adapter, n, now) /\ j.op \in Ops[t] /\ j.c = n /\ j.at = now
    /\ \A i \in All(j) : Open(j, i)

\* What a new call sends.
Opens(j, t, n, F) ==
    /\ \A f \in F : f.t = t /\ f.of = Of(j) /\ CommandOK(f, adapter, n, now)
    /\ \A i \in All(j) : \E f \in F : i \in Covers(f, adapter)

LEMMA NewJobFresh ==
    ASSUME CallsInv, NEW t \in Tasks, NEW op \in Ops[t], op \in KeyOps \cup WalkOps, NEW ns \in Namespaces,
           NEW ks \in Batches, op \in SingleOps => Len(ks) = 1, op \notin KeyOps => ks = <<>>,
           NEW live \in Lives[adapter] \cup {None}
    PROVE  Fresh(NewJob(op, ns, ks, live), t, calls + 1)
  <1> DEFINE j == NewJob(op, ns, ks, live)
  <1>1. ks \in Seq(Keys) /\ calls \in Nat /\ now \in Nat /\ DOMAIN ks \subseteq Positions
    BY CallsAssumption DEF CallsInv, Types, Positions
  <1>2. /\ IsJob(j) /\ j.op = op /\ j.c = calls + 1 /\ j.ns = ns /\ j.live = live /\ j.at = now
        /\ j.keys = [i \in DOMAIN ks |-> Stored[<<ns, ks[i]>>]] /\ j.put = {} /\ j.failed = FALSE /\ j.unsure = {}
        /\ j.res = [i \in DOMAIN ks |-> IF op \in ReadOps THEN None ELSE FALSE]
    BY DEF NewJob, IsJob, Fields
  <1> HIDE DEF j
  <1>3. j.keys \in Seq(Keys) /\ DOMAIN j.keys = DOMAIN ks /\ Len(j.keys) = Len(ks) /\ (ks = <<>> => j.keys = <<>>)
    <2>1. \A i \in DOMAIN ks : Stored[<<ns, ks[i]>>] \in Keys
      BY <1>1, CallsAssumption DEF Slots
    <2>2. DOMAIN ks = 1..Len(ks) /\ Len(ks) \in Nat
      BY <1>1
    <2>3. j.keys \in [1..Len(ks) -> Keys]
      BY <1>2, <2>1, <2>2
    <2> HIDE DEF Keys
    <2>4. j.keys \in Seq(Keys) /\ Len(j.keys) = Len(ks) /\ DOMAIN j.keys = DOMAIN ks
      BY <2>2, <2>3
    <2> QED BY <2>4
  <1>4. Of(j) = [c |-> calls + 1, op |-> op, ns |-> ns, keys |-> j.keys, live |-> live, at |-> now]
    BY <1>2 DEF Of
  <1>5. OfOK(Of(j), adapter, calls + 1, now)
    <2>1. Of(j) = Of(Of(j))
      BY DEF Of
    <2>2. calls + 1 \in 1..(calls + 1) /\ now \in 0..now
      BY <1>1
    <2>3. op \in SingleOps => Len(j.keys) = 1
      BY <1>3
    <2> QED BY <1>1, <1>3, <1>4, <2>1, <2>2, <2>3 DEF OfOK
  <1>6. \A i \in All(j) : Open(j, i)
    <2>1. WriteOps \cap ReadOps = {}
      BY DEF WriteOps, ReadOps
    <2> QED BY <1>2, <1>3, <2>1 DEF Open, All
  <1>7. CallOK(j)
    BY <1>2, <1>3 DEF CallOK, All
  <1> QED BY <1>2, <1>5, <1>6, <1>7 DEF Fresh, j

LEMMA EnterKeeps ==
    ASSUME CallsInv, NEW t \in Tasks, NEW j, Fresh(j, t, calls + 1), NEW F, Opens(j, t, calls + 1, F),
           NEW a, a.cluster = aux.cluster, EnterWith(t, j, F, a)
    PROVE  IInv'
  <1>1. /\ db' = db /\ adapter' = adapter /\ aux'.cluster = aux.cluster /\ now' = now /\ calls' = calls + 1 /\ Witness
        /\ flight' = flight \cup F /\ job[t] = Idle /\ calls < MaxCalls
    BY DEF EnterWith
  <1>2. calls \in Nat /\ MaxCalls \in Nat /\ calls + 1 \in 0..MaxCalls /\ calls <= calls + 1 /\ calls + 1 \notin 1..calls
    <2>1. calls \in 0..MaxCalls /\ MaxCalls \in Nat
      BY CallsAssumption DEF CallsInv, Types
    <2> QED BY <1>1, <2>1
  <1>3. Goes
    <2>1. now \in 0..MaxTime[adapter] /\ now <= now /\ db \in [Slots -> Rows]
      BY CallsAssumption DEF CallsInv, Types
    <2> QED BY <1>1, <1>2, <2>1 DEF Goes
  <1>4. \A q \in flight' : q \in flight \/ CommandOK(q, adapter', calls', now')
    BY <1>1 DEF Opens
  <1>5. \A f \in F : f.t = t /\ f.c = calls + 1 /\ f.of = Of(j)
    <2>1. Of(j).c = calls + 1
      BY DEF Fresh, Of
    <2> QED BY <2>1 DEF Opens, CommandOK
  <1>6. \A q \in flight : q.c \in 1..calls
    BY DEF CallsInv, CommandOK, OfOK
  <1>7. \A u \in Tasks : u # t /\ job'[u] = job[u] => TaskOK(u)'
    <2>1. ASSUME NEW u \in Tasks, u # t, job'[u] = job[u] PROVE TaskOK(u)'
      <3>1. Mine(flight', u, job[u].c) = Mine(flight, u, job[u].c)
        BY <1>1, <1>5, <2>1 DEF Mine
      <3> QED BY <1>3, <2>1, <3>1, OthersKeep DEF CallsInv
    <2> QED BY <2>1
  <1>8. CASE F = {}
    <2> DEFINE H == More(Nothing, Concerns(j), db, now, now)
    <2>1. job' = job /\ reply' = [job |-> j, seen |-> H]
      BY <1>8 DEF EnterWith
    <2>2. All(j) = {} /\ j.put = {} /\ j.unsure = {}
      BY <1>8 DEF Opens, Fresh, CallOK
    <2> HIDE DEF H
    <2>3. Promises'
      BY <2>1, <2>2, EndedRight
    <2>4. job' = [u \in Tasks |-> job'[u]]
      BY <2>1 DEF CallsInv, Types
    <2>5. TaskOK(t)'
      BY <1>1, <2>1, IdleOK
    <2>6. \A u \in Tasks : TaskOK(u)'
      BY <1>7, <2>1, <2>5
    <2>7. CallsInv'
      BY <1>3, <1>4, <2>4, <2>6, Assembled
    <2> QED BY <2>3, <2>7 DEF IInv
  <1>9. CASE F # {}
    <2>1. reply' = Idle /\ job' = [job EXCEPT ![t] = j]
      BY <1>9 DEF EnterWith
    <2>2. job' = [u \in Tasks |-> job'[u]] /\ job'[t] = j /\ \A u \in Tasks : u # t => job'[u] = job[u]
      BY <2>1 DEF CallsInv, Types
    <2>3. j # Idle
      <3>1. j.op \in KeyOps \cup WalkOps
        BY DEF Fresh, OfOK, Of
      <3> QED BY <3>1 DEF Idle, KeyOps, ReadOps, HasOps, WriteOps, DeleteOps, WalkOps
    <2> DEFINE G == More(Nothing, Concerns(j), db', j.at, now')
               mine == Mine(flight', t, j.c)
    <2>4. seen'[t] = G
      BY <1>1, <2>2, <2>3, WitnessSeen
    <2>5. mine = F
      <3>1. j.c = calls + 1
        BY DEF Fresh
      <3> QED BY <1>1, <1>2, <1>5, <1>6, <3>1 DEF Mine
    <2>6. Noted(j, G, db', now')
      <3>1. Concerns(j) \subseteq Slots
        BY ConcernsSlots DEF Fresh
      <3> QED BY <3>1 DEF Noted, More
    <2>7. Waits(j, mine, adapter', G)
      <3>1. \A i \in All(j) : Open(j, i) /\ \E q \in mine : i \in Covers(q, adapter')
        BY <1>1, <2>5 DEF Fresh, Opens
      <3> QED BY <3>1 DEF Waits
    <2>8. CallOK(j) /\ OfOK(Of(j), adapter', calls', now') /\ j.op \in Ops[t]
      BY <1>1 DEF Fresh
    <2>9. mine # {} /\ \A q \in mine : q.of = Of(j)
      BY <1>5, <1>9, <2>5
    <2> HIDE DEF G
    <2>10. TaskOK(t)'
      BY <2>2, <2>4, <2>6, <2>7, <2>8, <2>9 DEF TaskOK
    <2>11. \A u \in Tasks : TaskOK(u)'
      BY <1>7, <2>2, <2>10
    <2>12. CallsInv'
      BY <1>3, <1>4, <2>2, <2>11, Assembled
    <2> QED BY <2>1, <2>12, NoReply DEF IInv
  <1> QED BY <1>8, <1>9

---------------------------------------------------------------------------
(* Answers *)

LEMMA LiveCall ==
    ASSUME CallsInv, NEW r \in flight, Live(r)
    PROVE  /\ CallOK(job[r.t]) /\ r.of = Of(job[r.t]) /\ OfOK(r.of, adapter, calls, now)
           /\ job[r.t].op = r.of.op /\ job[r.t].at = r.of.at /\ All(job[r.t]) = All(r.of)
           /\ \A i : Slot(job[r.t], i) = Slot(r.of, i)
           /\ Noted(job[r.t], seen[r.t], db, now)
           /\ Waits(job[r.t], Mine(flight, r.t, r.c), adapter, seen[r.t])
           /\ r.at \subseteq All(r.of)
  <1> DEFINE j == job[r.t]
  <1>1. CommandOK(r, adapter, calls, now) /\ TaskOK(r.t) /\ j # Idle /\ j.c = r.c
    BY DEF CallsInv, CommandOK, Live
  <1>2. r \in Mine(flight, r.t, j.c)
    BY <1>1 DEF Mine
  <1>3. /\ CallOK(j) /\ r.of = Of(j) /\ Noted(j, seen[r.t], db, now)
        /\ Waits(j, Mine(flight, r.t, r.c), adapter, seen[r.t])
    BY <1>1, <1>2 DEF TaskOK
  <1> HIDE DEF j
  <1>4. j.op = r.of.op /\ j.at = r.of.at /\ j.keys = r.of.keys /\ j.ns = r.of.ns
    BY <1>3 DEF Of
  <1> QED BY <1>1, <1>3, <1>4 DEF All, Slot, CommandOK, j

\* x is a right answer for entry i of the call of r, when r leaves the rows d.
Right(r, d, i, x) ==
    LET L == Looks(d[Slot(r.of, i)], r.of.at, now)
    IN  /\ r.of.op \in ReadOps => x \in L
        /\ r.of.op \in HasOps => /\ x \in BOOLEAN
                                 /\ x => \E v \in L : v \notin {None, Stale}
                                 /\ ~x => None \in L
        /\ r.of.op \in WriteOps => x \in BOOLEAN /\ (Timely => x /\ i \in Taken(r, d))
        /\ r.of.op \in DeleteOps => /\ x \in BOOLEAN /\ None \in L
                                    /\ x => \E v \in Looks(db[Slot(r.of, i)], r.of.at, now) : v # None

\* The entries of r are answered, and the others are left to others.
LEMMA AnsweredMoves ==
    ASSUME CallsInv, NEW r \in flight, Live(r), NEW d, NEW F, NEW R, DOMAIN R = All(r.of),
           \A i \in r.at : Right(r, d, i, R[i]),
           \A i \in All(r.of) \ r.at :
               R[i] = job[r.t].res[i] /\ (i \in Covers(r, adapter) => \E f \in F : i \in Covers(f, adapter))
    PROVE  Moves(r, d, F, [job[r.t] EXCEPT !.res = R])
  <1> DEFINE jt == job[r.t]
             j == [jt EXCEPT !.res = R]
             k == After(r, d, j)
             G == Sights(r, d, j)
             H == seen[r.t]
  <1>1. /\ CallOK(jt) /\ r.of = Of(jt) /\ OfOK(r.of, adapter, calls, now)
        /\ jt.op = r.of.op /\ jt.at = r.of.at /\ All(jt) = All(r.of) /\ \A i : Slot(jt, i) = Slot(r.of, i)
        /\ Noted(jt, H, db, now) /\ r.at \subseteq All(r.of)
    BY LiveCall
  <1>2. /\ IsJob(j) /\ j.res = R /\ j.put = jt.put /\ j.failed = FALSE /\ j.unsure = {} /\ j.at = jt.at
        /\ j.op = jt.op /\ j.c = jt.c /\ j.ns = jt.ns /\ j.keys = jt.keys /\ j.live = jt.live
    BY <1>1 DEF CallOK, IsJob, Fields
  <1>3. /\ IsJob(k) /\ k.res = R /\ k.put = jt.put \cup Taken(r, d) /\ k.op = jt.op
        /\ k.ns = jt.ns /\ k.keys = jt.keys
    BY <1>2 DEF IsJob, Fields, After
  <1>4. \A s \in Slots : G[s] = IF s \in Concerns(j) THEN H[s] \cup Looks(d[s], j.at, now) ELSE H[s]
    BY DEF Sights, More
  <1> HIDE DEF j, k, G, H, jt
  <1>5. All(j) = All(jt) /\ All(k) = All(jt) /\ Of(j) = Of(jt) /\ \A i : Slot(k, i) = Slot(jt, i)
    BY <1>2, <1>3 DEF All, Of, Slot
  <1>6. Onward(jt, j)
    BY <1>1, <1>2, <1>5 DEF Onward, CallOK
  <1>7. Concerns(j) = Concerns(jt)
    BY <1>2 DEF Concerns
  <1>8. ASSUME NEW i \in All(j), i \in r.at PROVE AnswerOK(k, i, G)
    <2>1. Right(r, d, i, R[i]) /\ k.op = r.of.op /\ k.res[i] = R[i] /\ Slot(k, i) = Slot(r.of, i)
      BY <1>1, <1>3, <1>5, <1>8
    <2> DEFINE L == Looks(d[Slot(r.of, i)], r.of.at, now)
               O == Looks(db[Slot(r.of, i)], r.of.at, now)
               S == Slot(r.of, i)
    <2>2. r.of.op \in KeyOps \ WriteOps => L \subseteq G[S] /\ O \subseteq G[S]
      <3> SUFFICES ASSUME r.of.op \in KeyOps \ WriteOps PROVE L \subseteq G[S] /\ O \subseteq G[S]
        OBVIOUS
      <3>1. S \in Concerns(jt) /\ S \in Slots
        BY <1>1, <1>5, <1>8, KeysConcern
      <3>2. G[S] = H[S] \cup L
        BY <1>1, <1>2, <1>4, <1>7, <3>1
      <3>3. O \subseteq H[S]
        BY <1>1, <3>1 DEF Noted
      <3> QED BY <3>2, <3>3
    <2> HIDE DEF L, O, S
    <2>3. /\ r.of.op \in ReadOps => R[i] \in L
          /\ r.of.op \in HasOps => /\ R[i] \in BOOLEAN
                                   /\ R[i] => \E v \in L : v \notin {None, Stale}
                                   /\ ~R[i] => None \in L
          /\ r.of.op \in WriteOps => R[i] \in BOOLEAN /\ (Timely => R[i] /\ i \in Taken(r, d))
          /\ r.of.op \in DeleteOps => R[i] \in BOOLEAN /\ None \in L /\ (R[i] => \E v \in O : v # None)
      BY <2>1 DEF Right, L, O, S
    <2>4. k.op \in ReadOps => k.res[i] \in G[Slot(k, i)]
      BY <2>1, <2>2, <2>3, OpsApart DEF S
    <2>5. k.op \in HasOps => /\ k.res[i] \in BOOLEAN
                             /\ k.res[i] => \E x \in G[Slot(k, i)] : x \notin {None, Stale}
                             /\ ~k.res[i] => None \in G[Slot(k, i)]
      BY <2>1, <2>2, <2>3, OpsApart DEF S
    <2>6. k.op \in WriteOps => k.res[i] \in BOOLEAN /\ (Timely => (k.res[i] <=> i \in k.put))
      BY <1>3, <2>1, <2>3
    <2>7. k.op \in DeleteOps => /\ k.res[i] \in BOOLEAN /\ None \in G[Slot(k, i)]
                                /\ k.res[i] => \E x \in G[Slot(k, i)] : x # None
      BY <2>1, <2>2, <2>3, OpsApart DEF S
    <2> QED BY <2>4, <2>5, <2>6, <2>7 DEF AnswerOK
  <1>9. ASSUME NEW i \in All(j), i \notin r.at
        PROVE  /\ j.res[i] = jt.res[i] /\ i \notin Taken(r, d)
               /\ i \in Covers(r, adapter) => \E f \in F : i \in Covers(f, adapter)
    BY <1>1, <1>2, <1>5, <1>9 DEF Taken, jt
  <1>10. Settles(r, d, F, j)
    BY <1>8, <1>9 DEF Settles, k, G, jt
  <1> QED BY <1>6, <1>10 DEF Moves, j, jt

\* A call goes through its namespace, or closes the client: it has no entries.
LEMMA WalkMoves ==
    ASSUME CallsInv, NEW r \in flight, Live(r), r.of.op \notin KeyOps, NEW d, NEW F, NEW j, Onward(job[r.t], j)
    PROVE  Moves(r, d, F, j)
  <1>1. All(job[r.t]) = {} /\ Of(j) = Of(job[r.t])
    BY LiveCall DEF OfOK, All, Onward
  <1>2. All(j) = {}
    <2>1. Of(j).keys = Of(job[r.t]).keys
      BY <1>1
    <2> QED BY <1>1, <2>1 DEF Of, All
  <1> QED BY <1>2 DEF Moves, Settles

LEMMA StaysOnward == ASSUME CallsInv, NEW r \in flight, Live(r) PROVE Onward(job[r.t], job[r.t])
  BY LiveCall DEF Onward

LEMMA YieldedOnward ==
    ASSUME CallsInv, NEW r \in flight, Live(r), NEW ks PROVE Onward(job[r.t], Yielded(job[r.t], ks))
  <1> DEFINE jt == job[r.t]
             j == Yielded(jt, ks)
  <1>1. CallOK(jt)
    BY LiveCall
  <1> HIDE DEF jt
  <1>2. \A o : Onward(jt, [jt EXCEPT !.out = o])
    <2> TAKE o
    <2> DEFINE l == [jt EXCEPT !.out = o]
    <2>1. /\ IsJob(l) /\ l.res = jt.res /\ l.put = jt.put /\ l.failed = FALSE /\ l.unsure = {} /\ l.at = jt.at
          /\ l.op = jt.op /\ l.c = jt.c /\ l.ns = jt.ns /\ l.keys = jt.keys /\ l.live = jt.live
      BY <1>1 DEF CallOK, IsJob, Fields
    <2> HIDE DEF l
    <2>2. Onward(jt, l)
      BY <1>1, <2>1 DEF Onward, CallOK, Of, All
    <2> QED BY <2>2 DEF l
  <1> DEFINE new == [i \in DOMAIN ks |->
                       [key |-> ks[i], val |-> IF There(<<jt.ns, ks[i]>>) THEN db[<<jt.ns, ks[i]>>].val ELSE None]]
  <1>3. j = [jt EXCEPT !.out = jt.out \o new]
    BY DEF Yielded, j
  <1> QED BY <1>2, <1>3 DEF jt, j

LEMMA OverOnward ==
    ASSUME CallsInv, NEW r \in flight, Live(r), NEW S PROVE Onward(job[r.t], [job[r.t] EXCEPT !.over = S])
  <1> DEFINE jt == job[r.t]
             l == [jt EXCEPT !.over = S]
  <1>1. CallOK(jt)
    BY LiveCall
  <1>2. /\ IsJob(l) /\ l.res = jt.res /\ l.put = jt.put /\ l.failed = FALSE /\ l.unsure = {} /\ l.at = jt.at
        /\ l.op = jt.op /\ l.c = jt.c /\ l.ns = jt.ns /\ l.keys = jt.keys /\ l.live = jt.live
    BY <1>1 DEF CallOK, IsJob, Fields
  <1> HIDE DEF l, jt
  <1>3. Onward(jt, l)
    BY <1>1, <1>2 DEF Onward, CallOK, Of, All
  <1> QED BY <1>3 DEF l, jt

\* A call that fails after some of its commands were answered.
LEMMA FailedFails ==
    ASSUME CallsInv, NEW r \in flight, Live(r), NEW d
    PROVE  Fails(r, d, Failed(job[r.t])) /\ Failed(job[r.t]) = [f \in Fields |-> Failed(job[r.t])[f]]
  <1> DEFINE jt == job[r.t]
             j == Failed(jt)
  <1>1. CallOK(jt) /\ Waits(jt, Mine(flight, r.t, r.c), adapter, seen[r.t])
    BY LiveCall
  <1>2. j = [f \in Fields |-> j[f]] /\ j.failed = TRUE /\ j.res = jt.res /\ j.put = jt.put /\ j.op = jt.op /\ j.keys = jt.keys
    BY <1>1 DEF CallOK, IsJob, Fields, Failed
  <1> HIDE DEF j, jt
  <1>3. ASSUME Timely, j.op \in WriteOps, NEW i \in All(j), j.res[i] PROVE i \in j.put
    BY <1>1, <1>2, <1>3 DEF Waits, AnswerOK, Open, All
  <1> QED BY <1>2, <1>3 DEF Fails, j, jt

---------------------------------------------------------------------------
(* Commands *)

LEMMA CommandIs ==
    ASSUME NEW t, NEW j, NEW do, NEW I, NEW with
    PROVE  LET f == Command(t, j, do, I, with)
           IN  f.t = t /\ f.c = j.c /\ f.do = do /\ f.at = I /\ f.with = with /\ f.of = Of(j)
  BY DEF Command, Of

\* F are commands of the call j of task t, of n calls.
Made(j, t, n, F) == \A f \in F : f.t = t /\ f.of = Of(j) /\ CommandOK(f, adapter, n, now)
\* They, and those that follow them, answer the entries I.
CoverAll(F, I) == \A i \in I : \E f \in F : i \in Covers(f, adapter)

Calling(j, t, n) == t \in Tasks /\ OfOK(Of(j), adapter, n, now) /\ aux.cluster = (adapter \in Clusters)

LEMMA OfAll == ASSUME NEW j PROVE All(Of(j)) = All(j) /\ Of(j).op = j.op /\ Of(j).keys = j.keys /\ Of(j).c = j.c
  BY DEF Of, All

LEMMA CommandMade ==
    ASSUME NEW j, NEW t, NEW n, Calling(j, t, n), NEW do, NEW I \in SUBSET All(j), NEW with, Fits(do, j.op),
           (adapter \in Clusters /\ adapter # "valkey") => Alike(j, I),
           (do = "connect" /\ I # {}) => j.op \in Routed /\ adapter \in Clusters /\ I \in Split(j),
           (do = "delete" /\ adapter = "valkey") =>
               with \in Nat \ {0} /\ I = {i \in All(j) : i >= with /\ i < with + ChunkSize}
    PROVE  Made(j, t, n, {Command(t, j, do, I, with)})
  <1> DEFINE f == Command(t, j, do, I, with)
  <1>1. f.t = t /\ f.c = j.c /\ f.do = do /\ f.at = I /\ f.with = with /\ f.of = Of(j)
    BY CommandIs
  <1> HIDE DEF f
  <1>2. All(f.of) = All(j) /\ f.of.op = j.op /\ f.of.keys = j.keys /\ f.of.c = j.c
    BY <1>1, OfAll
  <1>3. (Alike(j, I) => Alike(f.of, f.at)) /\ Split(f.of) = Split(j)
    BY <1>1, <1>2 DEF Alike, Split
  <1>4. CommandOK(f, adapter, n, now)
    BY <1>1, <1>2, <1>3 DEF CommandOK, Calling
  <1> QED BY <1>1, <1>4 DEF Made, f

LEMMA OneAlike ==
    ASSUME NEW j, NEW t, NEW n, Calling(j, t, n), j.op \in SingleOps PROVE Alike(j, All(j))
  <1>1. j.keys \in Seq(Keys) /\ Len(j.keys) = 1
    BY OfAll DEF Calling, OfOK
  <1>2. All(j) = {1}
    BY <1>1 DEF All
  <1> QED BY <1>2 DEF Alike

LEMMA GroupsOf ==
    ASSUME NEW j, NEW t, NEW n, Calling(j, t, n)
    PROVE  /\ \A I \in Groups(j) : I \subseteq All(j) /\ (adapter \in Clusters => Alike(j, I))
           /\ \A i \in All(j) : \E I \in Groups(j) : i \in I
           /\ adapter \in Clusters => Groups(j) = Split(j)
  <1>1. CASE adapter \in Clusters
    <2>1. Groups(j) = Split(j)
      BY <1>1 DEF Groups, Split, Calling
    <2>2. \A I \in Split(j) : I \subseteq All(j) /\ Alike(j, I)
      BY DEF Split, Alike
    <2>3. ASSUME NEW i \in All(j) PROVE \E I \in Split(j) : i \in I
      <3> DEFINE I == {m \in All(j) : MasterOf[j.keys[m]] = MasterOf[j.keys[i]]}
      <3>1. I \in Split(j) /\ i \in I
        BY DEF Split
      <3> QED BY <3>1
    <2> QED BY <2>1, <2>2, <2>3
  <1>2. CASE adapter \notin Clusters
    <2>1. Groups(j) = {All(j)}
      BY <1>2 DEF Groups, Calling
    <2> QED BY <1>2, <2>1
  <1> QED BY <1>1, <1>2

\* The commands of the entries of each master.
LEMMA GroupedMade ==
    ASSUME NEW j, NEW t, NEW n, Calling(j, t, n), NEW do \in {"read", "set", "delete", "unrouted"}, Fits(do, j.op),
           do = "delete" => adapter # "valkey"
    PROVE  /\ Made(j, t, n, Grouped(t, j, do)) /\ CoverAll(Grouped(t, j, do), All(j))
           /\ \A f \in Grouped(t, j, do) : Covers(f, adapter) = f.at
  <1>1. ASSUME NEW I \in Groups(j) PROVE Made(j, t, n, {Command(t, j, do, I, {})})
    <2>1. I \in SUBSET All(j) /\ (adapter \in Clusters => Alike(j, I))
      BY GroupsOf
    <2>2. do # "connect"
      OBVIOUS
    <2> QED BY <2>1, <2>2, CommandMade
  <1>2. Made(j, t, n, Grouped(t, j, do))
    BY <1>1 DEF Made, Grouped
  <1>3. \A I : LET f == Command(t, j, do, I, {}) IN Covers(f, adapter) = I /\ f.at = I
    <2> TAKE I
    <2> DEFINE f == Command(t, j, do, I, {})
    <2>1. f.do = do /\ f.at = I
      BY CommandIs
    <2> HIDE DEF f
    <2>2. Covers(f, adapter) = I
      BY <2>1 DEF Covers
    <2> QED BY <2>1, <2>2 DEF f
  <1>4. CoverAll(Grouped(t, j, do), All(j))
    <2>1. ASSUME NEW i \in All(j) PROVE \E f \in Grouped(t, j, do) : i \in Covers(f, adapter)
      <3>1. PICK I \in Groups(j) : i \in I
        BY GroupsOf
      <3> QED BY <1>3, <3>1 DEF Grouped
    <2> QED BY <2>1 DEF CoverAll
  <1> QED BY <1>2, <1>3, <1>4 DEF Grouped

\* The command of a single key.
LEMMA SingleMade ==
    ASSUME NEW j, NEW t, NEW n, Calling(j, t, n), NEW do \in {"read", "set", "delete"}, Fits(do, j.op),
           do = "delete" => adapter # "valkey", j.op \in SingleOps
    PROVE  LET F == {Command(t, j, do, All(j), {})} IN Made(j, t, n, F) /\ CoverAll(F, All(j))
  <1> DEFINE f == Command(t, j, do, All(j), {})
  <1>1. Made(j, t, n, {f})
    <2>1. Alike(j, All(j)) /\ All(j) \in SUBSET All(j) /\ do # "connect"
      BY OneAlike
    <2> QED BY <2>1, CommandMade
  <1>2. f.do = do /\ f.at = All(j)
    BY CommandIs
  <1> HIDE DEF f
  <1>3. CoverAll({f}, All(j))
    BY <1>2 DEF CoverAll, Covers
  <1>4. Made(j, t, n, {f}) /\ CoverAll({f}, All(j))
    BY <1>1, <1>3
  <1> QED BY <1>4 DEF f

\* The commands that go through a namespace.
LEMMA WalkMade ==
    ASSUME NEW j, NEW t, NEW n, Calling(j, t, n), j.op \in WalkOps, NEW with,
           NEW do \in {"scan", "mget", "scan to clear", "clear", "members", "forget", "close"}
    PROVE  Made(j, t, n, {Command(t, j, do, {}, with)})
  <1>1. Fits(do, j.op) /\ Alike(j, {}) /\ {} \in SUBSET All(j) /\ do # "connect" /\ do # "delete"
    BY DEF Fits, Alike
  <1> QED BY <1>1, CommandMade

LEMMA NoEntries == ASSUME NEW j, NEW t, NEW n, Calling(j, t, n), j.op \in WalkOps PROVE All(j) = {}
  <1>1. j.keys = <<>>
    BY OfAll, OpsApart DEF Calling, OfOK
  <1> QED BY <1>1 DEF All

LEMMA MadeUnion ==
    ASSUME NEW j, NEW t, NEW n, NEW F, NEW G, Made(j, t, n, F), Made(j, t, n, G) PROVE Made(j, t, n, F \cup G)
  BY DEF Made

LEMMA MadeOpens ==
    ASSUME NEW j, NEW t, NEW n, NEW F, Made(j, t, n, F), CoverAll(F, All(j)) PROVE Opens(j, t, n, F)
  BY DEF Made, CoverAll, Opens

---------------------------------------------------------------------------
(* The calls of redis and keydb *)

LEMMA OpsFit ==
    /\ \A op \in ReadOps \cup HasOps : Fits("read", op)
    /\ \A op \in WriteOps : Fits("set", op)
    /\ \A op \in DeleteOps : Fits("delete", op)
    /\ \A op \in Routed : Fits("unrouted", op)
    /\ \A op \in KeyOps \cup {"clear", "iterator"} : Fits("connect", op)
  BY DEF Fits, Routed, ReadOps, HasOps, DeleteOps, KeyOps, WriteOps

LEMMA OpSets ==
    /\ "get" \in ReadOps /\ "getMany" \in ReadOps /\ "has" \in HasOps /\ "hasMany" \in HasOps
    /\ "set" \in WriteOps /\ "setMany" \in WriteOps /\ "delete" \in DeleteOps /\ "deleteMany" \in DeleteOps
    /\ "get" \in SingleOps /\ "has" \in SingleOps /\ "set" \in SingleOps /\ "delete" \in SingleOps
    /\ "clear" \in WalkOps /\ "iterator" \in WalkOps /\ "disconnect" \in WalkOps
    /\ "getMany" \in Routed /\ "hasMany" \in Routed /\ "deleteMany" \in Routed
    /\ KeyOps = {"get", "getMany", "has", "hasMany", "set", "setMany", "delete", "deleteMany"}
    /\ Routed = {"getMany", "hasMany", "deleteMany"}
  BY DEF Routed, ReadOps, HasOps, DeleteOps, KeyOps, WriteOps, SingleOps, WalkOps

LEMMA RedisSendsMade ==
    ASSUME NEW j, NEW t, NEW n, Calling(j, t, n), adapter \in Redis, j.op \in KeyOps \cup {"clear", "iterator"}
    PROVE  /\ Made(j, t, n, RedisSends(t, j)) /\ CoverAll(RedisSends(t, j), All(j))
           /\ j.op \in Routed => \A f \in RedisSends(t, j) : Covers(f, adapter) = f.at
           /\ j.op \in Routed /\ All(j) # {} => \A I \in Groups(j) : \E f \in RedisSends(t, j) : f.at = I
  <1>0. adapter # "valkey"
    BY DEF Redis
  <1> DEFINE goal(F) ==
        /\ Made(j, t, n, F) /\ CoverAll(F, All(j))
        /\ j.op \in Routed => \A f \in F : Covers(f, adapter) = f.at
        /\ j.op \in Routed /\ All(j) # {} => \A I \in Groups(j) : \E f \in F : f.at = I
  <1>1. ASSUME NEW do \in {"read", "set", "delete"}, Fits(do, j.op) PROVE goal(Grouped(t, j, do))
    <2>1. \A I \in Groups(j) : \E f \in Grouped(t, j, do) : f.at = I
      BY CommandIs DEF Grouped
    <2>2. do \in {"read", "set", "delete", "unrouted"}
      BY <1>1
    <2> QED BY <1>0, <1>1, <2>1, <2>2, GroupedMade
  <1>2. ASSUME NEW do \in {"read", "set", "delete"}, Fits(do, j.op), j.op \in SingleOps, j.op \notin Routed
        PROVE  goal({Command(t, j, do, All(j), {})})
    BY <1>0, <1>2, SingleMade
  <1>3. CASE j.op \in {"get", "has"}
    <2>1. RedisSends(t, j) = {Command(t, j, "read", All(j), {})}
      BY <1>3, Zenon DEF RedisSends, RedisGet, RedisHas
    <2> QED BY <1>2, <1>3, <2>1, OpsFit, OpSets
  <1>4. CASE j.op = "set"
    <2>1. RedisSends(t, j) = {Command(t, j, "set", All(j), {})}
      BY <1>4, Zenon DEF RedisSends, RedisSet
    <2> QED BY <1>2, <1>4, <2>1, OpsFit, OpSets
  <1>5. CASE j.op = "delete"
    <2>1. RedisSends(t, j) = {Command(t, j, "delete", All(j), {})}
      BY <1>5, Zenon DEF RedisSends, RedisDelete
    <2> QED BY <1>2, <1>5, <2>1, OpsFit, OpSets
  <1>6. CASE j.op = "setMany"
    <2>1. RedisSends(t, j) = Grouped(t, j, "set")
      BY <1>6, Zenon DEF RedisSends, RedisSetMany
    <2> QED BY <1>1, <1>6, <2>1, OpsFit, OpSets
  <1>7. CASE j.op = "deleteMany"
    <2>1. RedisSends(t, j) = Grouped(t, j, "delete")
      BY <1>7, Zenon DEF RedisSends, RedisDeleteMany
    <2> QED BY <1>1, <1>7, <2>1, OpsFit, OpSets
  <1>8. CASE j.op = "hasMany"
    <2>1. RedisSends(t, j) = Grouped(t, j, "read")
      BY <1>8, Zenon DEF RedisSends, RedisHasMany
    <2> QED BY <1>1, <1>8, <2>1, OpsFit, OpSets
  <1>9. CASE j.op = "getMany"
    <2>1. RedisSends(t, j) = IF All(j) = {} THEN {} ELSE Grouped(t, j, "read")
      BY <1>9, Zenon DEF RedisSends, RedisGetMany
    <2>2. All(j) = {} => goal({})
      BY DEF Made, CoverAll
    <2>3. goal(Grouped(t, j, "read"))
      BY <1>1, <1>9, OpsFit, OpSets
    <2> QED BY <2>1, <2>2, <2>3
  <1>10. CASE j.op = "iterator"
    <2>1. RedisSends(t, j) = {Command(t, j, "scan", {}, 1)}
      BY <1>10, Zenon DEF RedisSends, RedisIterator
    <2>2. j.op \in WalkOps /\ j.op \notin Routed
      BY <1>10, OpSets
    <2>3. Made(j, t, n, {Command(t, j, "scan", {}, 1)})
      BY <2>2, WalkMade
    <2>4. Made(j, t, n, RedisSends(t, j)) /\ All(j) = {}
      BY <2>1, <2>2, <2>3, NoEntries
    <2> QED BY <2>2, <2>4 DEF CoverAll
  <1>11. CASE j.op = "clear"
    <2>1. RedisSends(t, j) =
             {Command(t, j, "scan to clear", {}, <<m, 1>>) : m \in IF aux.cluster THEN Masters ELSE {None}}
      BY <1>11, Zenon DEF RedisSends, RedisClear
    <2>2. \A m : Made(j, t, n, {Command(t, j, "scan to clear", {}, <<m, 1>>)})
      BY <1>11, OpSets, WalkMade
    <2>3. Made(j, t, n, RedisSends(t, j)) /\ All(j) = {} /\ j.op \notin Routed
      BY <1>11, <2>1, <2>2, OpSets, NoEntries DEF Made
    <2> QED BY <2>3 DEF CoverAll
  <1> QED BY <1>3, <1>4, <1>5, <1>6, <1>7, <1>8, <1>9, <1>10, <1>11, OpSets

LEMMA RedisCallKeeps ==
    ASSUME CallsInv, adapter \in Redis, NEW t \in Tasks, NEW j, Fresh(j, t, calls + 1), RedisCall(t, j) PROVE IInv'
  <1> DEFINE n == calls + 1
             sends == RedisSends(t, j)
             unrouted == Unrouted(t, j)
             a == [aux EXCEPT !.connecting = TRUE]
  <1>0. adapter # "valkey" /\ j.op \in KeyOps \cup {"clear", "iterator"}
    BY DEF Redis, RedisCall
  <1>1. Calling(j, t, n)
    BY DEF Calling, Fresh, CallsInv, Types
  <1>2. Made(j, t, n, sends) /\ CoverAll(sends, All(j))
    BY <1>0, <1>1, RedisSendsMade
  <1>3. unrouted # {} =>
          /\ aux.cluster /\ adapter \in Clusters /\ j.op \in Routed /\ unrouted = Grouped(t, j, "unrouted")
          /\ Made(j, t, n, unrouted) /\ CoverAll(unrouted, All(j)) /\ \A f \in unrouted : Covers(f, adapter) = f.at
    <2> SUFFICES ASSUME unrouted # {}
                 PROVE  /\ aux.cluster /\ adapter \in Clusters /\ j.op \in Routed
                        /\ unrouted = Grouped(t, j, "unrouted")
                        /\ Made(j, t, n, unrouted) /\ CoverAll(unrouted, All(j))
                        /\ \A f \in unrouted : Covers(f, adapter) = f.at
      OBVIOUS
    <2>1. aux.cluster /\ adapter \in Clusters /\ j.op \in Routed /\ unrouted = Grouped(t, j, "unrouted")
      BY <1>1 DEF Unrouted, Grouped, Routed, Calling
    <2>2. Fits("unrouted", j.op)
      BY <2>1, OpsFit
    <2> QED BY <1>1, <2>1, <2>2, GroupedMade
  <1>4. a.cluster = aux.cluster
    OBVIOUS
  <1> HIDE DEF n, sends, unrouted, a
  <1>5. \/ Enter(t, j, sends)
        \/ unrouted # {} /\ Enter(t, j, unrouted)
        \/ unrouted = {} /\ EnterWith(t, j, {Command(t, j, "connect", {}, {})}, a)
        \/ unrouted # {} /\ \E I \in Groups(j) :
              EnterWith(t, j, {Command(t, j, "connect", I, {})} \cup {r \in unrouted : r.at # I}, a)
    BY DEF RedisCall, sends, unrouted, a
  <1>6. CASE Enter(t, j, sends)
    BY <1>2, <1>6, MadeOpens, EnterKeeps DEF Enter, n
  <1>7. CASE unrouted # {} /\ Enter(t, j, unrouted)
    BY <1>3, <1>7, MadeOpens, EnterKeeps DEF Enter, n
  <1>8. CASE EnterWith(t, j, {Command(t, j, "connect", {}, {})}, a)
    <2> DEFINE f == Command(t, j, "connect", {}, {})
    <2>1. Made(j, t, n, {f})
      <3>1. Fits("connect", j.op) /\ Alike(j, {}) /\ {} \in SUBSET All(j)
        BY <1>0, OpsFit DEF Alike
      <3> QED BY <1>1, <3>1, CommandMade
    <2>2. f.do = "connect" /\ f.at = {} /\ f.of = Of(j)
      BY CommandIs
    <2> HIDE DEF f
    <2>3. Covers(f, adapter) = All(j)
      BY <2>2, OfAll DEF Covers
    <2>4. Opens(j, t, n, {f})
      BY <2>1, <2>3, MadeOpens DEF CoverAll
    <2> QED BY <1>4, <1>8, <2>4, EnterKeeps DEF f, n
  <1>9. ASSUME unrouted # {}, NEW I \in Groups(j),
               EnterWith(t, j, {Command(t, j, "connect", I, {})} \cup {r \in unrouted : r.at # I}, a)
        PROVE  IInv'
    <2> DEFINE f == Command(t, j, "connect", I, {})
               F == {f} \cup {r \in unrouted : r.at # I}
    <2>1. I \in SUBSET All(j) /\ Alike(j, I) /\ I \in Split(j)
      BY <1>1, <1>3, <1>9, GroupsOf
    <2>2. Made(j, t, n, {f})
      BY <1>0, <1>1, <1>3, <1>9, <2>1, OpsFit, CommandMade
    <2>3. f.do = "connect" /\ f.at = I /\ f.of = Of(j)
      BY CommandIs
    <2> HIDE DEF f
    <2>4. I \subseteq Covers(f, adapter)
      BY <2>1, <2>3, OfAll DEF Covers
    <2>5. Made(j, t, n, F)
      BY <1>3, <1>9, <2>2 DEF Made
    <2>6. CoverAll(F, All(j))
      <3>1. ASSUME NEW i \in All(j) PROVE \E q \in F : i \in Covers(q, adapter)
        <4>1. PICK q \in unrouted : i \in Covers(q, adapter) /\ Covers(q, adapter) = q.at
          BY <1>3, <1>9 DEF CoverAll
        <4> QED BY <2>4, <4>1
      <3> QED BY <3>1 DEF CoverAll
    <2>7. Opens(j, t, n, F)
      BY <2>5, <2>6, MadeOpens
    <2>8. EnterWith(t, j, F, a)
      BY <1>9 DEF f
    <2> HIDE DEF F
    <2> QED BY <1>4, <2>7, <2>8, EnterKeeps DEF n
  <1> QED BY <1>5, <1>6, <1>7, <1>8, <1>9

---------------------------------------------------------------------------
(* What redis and keydb answer *)

LEMMA ServedIn ==
    ASSUME NEW names, NEW do
    PROVE  /\ Sent(names, do) = {r \in flight : adapter \in names /\ r.do = do}
           /\ Served(names, do) \subseteq Sent(names, do) /\ Failing(names, do) \subseteq Sent(names, do)
  BY DEF Sent, Served, Failing

\* What a command in flight is.
LEMMA InFlight ==
    ASSUME CallsInv, NEW r \in flight
    PROVE  /\ CommandOK(r, adapter, calls, now) /\ r.of = Of(r.of) /\ r.of.c = r.c /\ r.t \in Tasks
           /\ Calling(r.of, r.t, calls) /\ r.at \subseteq All(r.of) /\ Fits(r.do, r.of.op)
           /\ r.of.op \in KeyOps \cup WalkOps
           /\ \A i \in All(r.of) : Slot(r.of, i) \in Slots
           /\ db \in [Slots -> Rows] /\ now \in Nat /\ r.of.at \in Nat /\ r.of.at <= now
  <1>1. CommandOK(r, adapter, calls, now) /\ Types
    BY DEF CallsInv
  <1>2. OfOK(r.of, adapter, calls, now) /\ r.of = Of(r.of)
    BY <1>1 DEF CommandOK, OfOK
  <1>3. Calling(r.of, r.t, calls)
    BY <1>1, <1>2 DEF CommandOK, Calling, Types
  <1>4. now \in Nat /\ r.of.at \in Nat /\ r.of.at <= now
    <2>1. now \in 0..MaxTime[adapter] /\ r.of.at \in 0..now /\ MaxTime[adapter] \in Nat
      BY <1>1, <1>2, CallsAssumption DEF Types, OfOK
    <2> QED BY <2>1
  <1>5. \A i \in All(r.of) : Slot(r.of, i) \in Slots
    BY <1>2, SlotIn
  <1> QED BY <1>1, <1>2, <1>3, <1>4, <1>5 DEF CommandOK, Types, OfOK

\* The commands that a command sends are its call's.
LEMMA MadeSends ==
    ASSUME CallsInv, NEW r \in flight, NEW F, Made(r.of, r.t, calls, F) PROVE Sends(r, F)
  BY InFlight DEF Made, Sends

LEMMA NoneSent == ASSUME NEW r PROVE Sends(r, {})
  BY DEF Sends

\* A row as a command reads it at this moment.
LEMMA SeesNow ==
    ASSUME CallsInv, NEW r \in flight, NEW i \in All(r.of)
    PROVE  LET s == Slot(r.of, i)
               L == Looks(db[s], r.of.at, now)
           IN  /\ There(s) => db[s].val \in L /\ db[s].val \notin {None, Stale}
               /\ ~There(s) => None \in L
  <1>1. db[Slot(r.of, i)] \in Rows
    BY InFlight
  <1> QED BY <1>1, InFlight, RowLooks DEF There

\* The keys of r are read.
LEMMA FoundMoves ==
    ASSUME CallsInv, NEW r \in flight, Live(r), r.do = "read" PROVE Moves(r, db, {}, Found(job[r.t], r.at))
  <1> DEFINE jt == job[r.t]
             R == [i \in DOMAIN jt.res |->
                     IF i \in r.at THEN Answer(jt.op, db[Slot(jt, i)], ~There(Slot(jt, i))) ELSE jt.res[i]]
  <1>1. /\ CallOK(jt) /\ jt.op = r.of.op /\ All(jt) = All(r.of) /\ (\A i : Slot(jt, i) = Slot(r.of, i))
        /\ r.at \subseteq All(r.of)
    BY LiveCall
  <1>2. r.of.op \in ReadOps \cup HasOps /\ r.of.op \notin WriteOps \cup DeleteOps
    <2>1. r.of.op \in ReadOps \cup HasOps
      BY InFlight DEF Fits
    <2> QED BY <2>1 DEF ReadOps, HasOps, WriteOps, DeleteOps
  <1>3. DOMAIN R = All(r.of)
    BY <1>1 DEF CallOK
  <1>4. ASSUME NEW i \in r.at PROVE Right(r, db, i, R[i])
    <2> DEFINE s == Slot(r.of, i)
               L == Looks(db[s], r.of.at, now)
    <2>1. i \in All(r.of) /\ R[i] = Answer(r.of.op, db[s], ~There(s))
      BY <1>1, <1>3, <1>4
    <2>2. (There(s) => db[s].val \in L /\ db[s].val \notin {None, Stale}) /\ (~There(s) => None \in L)
      BY <2>1, SeesNow
    <2>3. There(s) => db[s] # None
      BY DEF There, Visible
    <2> HIDE DEF R, L, s
    <2>4. There(s) => R[i] = IF r.of.op \in ReadOps THEN db[s].val ELSE TRUE
      BY <2>1, <2>3 DEF Answer
    <2>5. ~There(s) => R[i] = IF r.of.op \in ReadOps THEN None ELSE FALSE
      BY <2>1 DEF Answer
    <2>6. r.of.op \in ReadOps => R[i] \in L
      BY <2>2, <2>4, <2>5
    <2>7. r.of.op \in HasOps => R[i] \in BOOLEAN /\ (R[i] => \E v \in L : v \notin {None, Stale}) /\ (~R[i] => None \in L)
      <3>1. r.of.op \in HasOps => r.of.op \notin ReadOps
        BY OpsApart
      <3> QED BY <2>2, <2>4, <2>5, <3>1
    <2> QED BY <1>2, <2>6, <2>7 DEF Right, L, s
  <1>5. ASSUME NEW i \in All(r.of) \ r.at
        PROVE  R[i] = jt.res[i] /\ (i \in Covers(r, adapter) => \E f \in {} : i \in Covers(f, adapter))
    BY <1>3, <1>5 DEF Covers
  <1>6. Found(jt, r.at) = [jt EXCEPT !.res = R]
    BY DEF Found, Answered
  <1> HIDE DEF R
  <1> QED BY <1>3, <1>4, <1>5, <1>6, AnsweredMoves

LEMMA RedisReadKeeps == ASSUME CallsInv, RedisRead PROVE IInv'
  <1>1. PICK r \in Served(Redis, "read") : Serve(r, db, aux, {}, Found(job[r.t], r.at))
    BY DEF RedisRead
  <1>2. r \in flight /\ r.do = "read"
    BY <1>1, ServedIn
  <1> QED BY <1>1, <1>2, FoundMoves, InFlight, NoneSent, ServeKeeps

\* The keys of r are deleted; R[i] tells which entries were there.
LEMMA DeletedMoves ==
    ASSUME CallsInv, NEW r \in flight, Live(r), r.do = "delete", NEW F, NEW R, DOMAIN R = All(r.of),
           \A i \in r.at : R[i] \in BOOLEAN /\ (R[i] => There(Slot(r.of, i))),
           \A i \in All(r.of) \ r.at :
               R[i] = job[r.t].res[i] /\ (i \in Covers(r, adapter) => \E f \in F : i \in Covers(f, adapter))
    PROVE  Moves(r, Drop(db, SlotsAt(r.of, r.at)), F, [job[r.t] EXCEPT !.res = R])
  <1> DEFINE d == Drop(db, SlotsAt(r.of, r.at))
  <1>1. r.of.op \in DeleteOps /\ r.of.op \notin ReadOps \cup HasOps \cup WriteOps
    <2>1. r.of.op \in DeleteOps
      BY InFlight DEF Fits
    <2> QED BY <2>1 DEF ReadOps, HasOps, WriteOps, DeleteOps
  <1>2. ASSUME NEW i \in r.at PROVE Right(r, d, i, R[i])
    <2> DEFINE s == Slot(r.of, i)
               L == Looks(d[s], r.of.at, now)
               O == Looks(db[s], r.of.at, now)
    <2>1. i \in All(r.of) /\ s \in Slots /\ s \in SlotsAt(r.of, r.at)
      BY InFlight DEF SlotsAt
    <2>2. d[s] = None
      BY <2>1 DEF Drop
    <2>3. None \in L
      BY <2>2 DEF Looks, Visible
    <2>4. R[i] => \E v \in O : v # None
      BY <2>1, SeesNow
    <2> HIDE DEF d, L, O, s
    <2> QED BY <1>1, <2>3, <2>4 DEF Right, L, O, s
  <1> HIDE DEF d
  <1>3. Moves(r, d, F, [job[r.t] EXCEPT !.res = R])
    BY <1>2, AnsweredMoves
  <1> QED BY <1>3 DEF d

LEMMA DroppedRows == ASSUME CallsInv, NEW S PROVE Drop(db, S) \in [Slots -> Rows]
  BY DropRows DEF CallsInv, Types

LEMMA RedisDeletedKeeps == ASSUME CallsInv, RedisDeleted PROVE IInv'
  <1>1. PICK r \in Served(Redis, "delete") :
           Serve(r, Drop(db, SlotsAt(r.of, r.at)), aux, {}, Unlinked(job[r.t], r.at))
    BY DEF RedisDeleted
  <1>2. r \in flight /\ r.do = "delete" /\ adapter # "valkey"
    BY <1>1, ServedIn DEF Redis
  <1>3. ASSUME Live(r) PROVE Moves(r, Drop(db, SlotsAt(r.of, r.at)), {}, Unlinked(job[r.t], r.at))
    <2> DEFINE jt == job[r.t]
               R == [i \in DOMAIN jt.res |->
                       IF i \in r.at THEN There(Slot(jt, i)) /\ \A m \in r.at : jt.keys[m] = jt.keys[i] => m = i
                       ELSE jt.res[i]]
    <2>1. CallOK(jt) /\ All(jt) = All(r.of) /\ (\A i : Slot(jt, i) = Slot(r.of, i)) /\ r.at \subseteq All(r.of)
      BY <1>2, <1>3, LiveCall
    <2>2. DOMAIN R = All(r.of)
      BY <2>1 DEF CallOK
    <2>3. \A i \in r.at : R[i] \in BOOLEAN /\ (R[i] => There(Slot(r.of, i)))
      BY <2>1, <2>2
    <2>4. \A i \in All(r.of) \ r.at : R[i] = jt.res[i] /\ i \notin Covers(r, adapter)
      BY <1>2, <2>2 DEF Covers
    <2>5. Unlinked(jt, r.at) = [jt EXCEPT !.res = R]
      BY DEF Unlinked, Answered
    <2> HIDE DEF R
    <2> QED BY <1>2, <1>3, <2>2, <2>3, <2>4, <2>5, DeletedMoves
  <1> QED BY <1>1, <1>2, <1>3, DroppedRows, NoneSent, ServeKeeps

\* A bounded non-empty set of positions has a last one.
LEMMA LastPosition ==
    ASSUME NEW n \in Nat, NEW J, J \subseteq 1..n, J # {}
    PROVE  \E j \in J : \A m \in J : m <= j
  <1> DEFINE K == {k \in Nat : \A m \in J : m <= k}
             R == {p \in Nat \X Nat : p[1] < p[2]}
  <1>1. n \in K /\ K \subseteq Nat
    OBVIOUS
  <1>2. IsWellFoundedOn(R, Nat)
    BY NatLessThanWellFounded DEF OpToRel
  <1>3. \A x, y \in Nat : <<y, x>> \in R <=> y < x
    OBVIOUS
  <1>4. PICK k \in K : \A l \in K : <<l, k>> \notin R
    <2> HIDE DEF K, R
    <2> QED BY <1>1, <1>2, WFMin
  <1>5. k \in Nat /\ (\A m \in J : m <= k) /\ \A l \in K : ~(l < k)
    BY <1>3, <1>4
  <1>6. ASSUME k \notin J PROVE FALSE
    <2>1. \A m \in J : m \in Nat /\ m >= 1 /\ m <= k /\ m # k
      BY <1>5, <1>6
    <2>2. PICK m \in J : m >= 1 /\ m <= k
      BY <2>1
    <2>3. k - 1 \in Nat
      BY <1>5, <2>1, <2>2
    <2>4. k - 1 \in Nat /\ \A l \in J : l <= k - 1
      <3>1. \A l \in Nat : (l <= k /\ l # k) => l <= k - 1
        BY <1>5
      <3> QED BY <2>1, <2>3, <3>1
    <2>5. k - 1 \in K
      BY <2>4
    <2> HIDE DEF K
    <2> QED BY <1>5, <2>3, <2>5
  <1> QED BY <1>5, <1>6


\* A write leaves for each key it names the last entry that names it.
LEMMA WrittenRows ==
    ASSUME CallsInv, NEW r \in flight, r.do = "set", NEW px \in Int \cup {None}
    PROVE  Written(r, px) \in [Slots -> Rows] /\ Taken(r, Written(r, px)) = r.at
  <1> DEFINE j == r.of
             e == IF px = None THEN None ELSE now + px
             d == Written(r, px)
             W(s) == {i \in r.at : Slot(j, i) = s}
             last(s) == CHOOSE i \in W(s) : \A m \in W(s) : m <= i
  <1>1. /\ r.of.c = r.c /\ r.at \subseteq All(r.of) /\ db \in [Slots -> Rows] /\ now \in Nat
        /\ \A i \in All(r.of) : Slot(r.of, i) \in Slots
    BY InFlight
  <1>2. e \in Int \cup {None}
    BY <1>1
  <1>3. All(j) = 1..Len(j.keys) /\ Len(j.keys) \in Nat /\ All(j) \subseteq Positions /\ r.c \in 0..MaxCalls
    <2>1. j.keys \in Seq(Keys) /\ DOMAIN j.keys \subseteq Positions /\ j.c \in 1..calls /\ calls \in 0..MaxCalls
      BY DEF CallsInv, CommandOK, OfOK, Types
    <2>2. j.c \in 0..MaxCalls
      BY <2>1, CallsAssumption
    <2> QED BY <1>1, <2>1, <2>2 DEF All
  <1>4. ASSUME NEW s \in Slots, W(s) # {} PROVE last(s) \in r.at /\ Slot(j, last(s)) = s
    <2>1. W(s) \subseteq 1..Len(j.keys)
      BY <1>1, <1>3
    <2> HIDE DEF W
    <2>2. \E i \in W(s) : \A m \in W(s) : m <= i
      BY <1>3, <1>4, <2>1, LastPosition
    <2>3. last(s) \in W(s)
      BY <2>2
    <2> QED BY <2>3 DEF W
  <1>5. d = [s \in Slots |-> IF W(s) = {} THEN db[s] ELSE [val |-> <<r.c, last(s)>>, exp |-> e]]
    BY <1>1 DEF Written, Write
  <1> HIDE DEF e, last, d
  <1>6. ASSUME NEW s \in Slots, W(s) # {} PROVE [val |-> <<r.c, last(s)>>, exp |-> e] \in Rows \ {None}
    <2>1. last(s) \in Positions
      BY <1>1, <1>3, <1>4, <1>6
    <2>2. <<r.c, last(s)>> \in Values
      BY <1>3, <2>1 DEF Values, Positions
    <2> QED BY <1>2, <2>2, RowsOf
  <1>7. d \in [Slots -> Rows]
    <2>1. \A s \in Slots : (IF W(s) = {} THEN db[s] ELSE [val |-> <<r.c, last(s)>>, exp |-> e]) \in Rows
      BY <1>1, <1>6
    <2> HIDE DEF W
    <2> QED BY <1>5, <2>1
  <1>8. r.of.op \in WriteOps
    BY InFlight DEF Fits
  <1>9. ASSUME NEW i \in r.at
        PROVE  LET s == Slot(r.of, i)
               IN  d[s] # None /\ \E k \in r.at : Slot(r.of, k) = s /\ d[s].val = <<r.c, k>>
    <2> DEFINE s == Slot(r.of, i)
    <2>1. s \in Slots /\ W(s) # {}
      BY <1>1, <1>9
    <2> HIDE DEF s
    <2>2. d[s] = [val |-> <<r.c, last(s)>>, exp |-> e] /\ d[s] # None
      BY <1>5, <1>6, <2>1
    <2>3. last(s) \in r.at /\ Slot(j, last(s)) = s
      BY <1>4, <2>1
    <2> QED BY <2>2, <2>3 DEF s
  <1>10. Taken(r, d) = r.at
    BY <1>8, <1>9 DEF Taken
  <1> QED BY <1>7, <1>10 DEF d

\* The entries of r are answered the same, x.
LEMMA WriteMoves ==
    ASSUME CallsInv, NEW r \in flight, Live(r), r.do = "set", NEW d, NEW x \in BOOLEAN,
           Timely => x /\ Taken(r, d) = r.at
    PROVE  Moves(r, d, {}, [job[r.t] EXCEPT !.res = [i \in DOMAIN job[r.t].res |->
                                                      IF i \in r.at THEN x ELSE job[r.t].res[i]]])
  <1> DEFINE jt == job[r.t]
             R == [i \in DOMAIN jt.res |-> IF i \in r.at THEN x ELSE jt.res[i]]
  <1>1. CallOK(jt) /\ All(jt) = All(r.of) /\ r.at \subseteq All(r.of)
    BY LiveCall
  <1>2. DOMAIN R = All(r.of)
    BY <1>1 DEF CallOK
  <1>3. r.of.op \in WriteOps /\ r.of.op \notin ReadOps \cup HasOps \cup DeleteOps
    <2>1. r.of.op \in WriteOps
      BY InFlight DEF Fits
    <2> QED BY <2>1 DEF ReadOps, HasOps, WriteOps, DeleteOps
  <1>4. ASSUME NEW i \in r.at PROVE Right(r, d, i, R[i])
    <2>1. R[i] = x
      BY <1>1, <1>2, <1>4
    <2> QED BY <1>3, <2>1 DEF Right
  <1>5. \A i \in All(r.of) \ r.at : R[i] = jt.res[i] /\ i \notin Covers(r, adapter)
    BY <1>2 DEF Covers
  <1> HIDE DEF R
  <1>6. Moves(r, d, {}, [jt EXCEPT !.res = R])
    BY <1>2, <1>4, <1>5, AnsweredMoves
  <1> QED BY <1>6 DEF R

LEMMA OutcomeRows ==
    ASSUME CallsInv, NEW r, NEW d \in [Slots -> Rows] PROVE Outcomes(r, d) \subseteq [Slots -> Rows]
  BY DEF Outcomes, CallsInv, Types

LEMMA LivePx ==
    ASSUME CallsInv, NEW r \in flight
    PROVE  r.of.live \in Int \cup {None} /\ Px(r.of.live) \in Int \cup {None}
  <1>1. r.of.live \in Int \cup {None}
    BY CallsAssumption DEF CallsInv, Types, CommandOK, OfOK
  <1> QED BY <1>1 DEF Px, RedisPx, KeydbPx

LEMMA RedisWrittenKeeps == ASSUME CallsInv, RedisWritten PROVE IInv'
  <1>1. PICK r \in Served(Redis, "set") :
           Serve(r, Written(r, Px(r.of.live)), aux, {}, Answered(job[r.t], r.at, LAMBDA i : TRUE))
    BY DEF RedisWritten
  <1>2. r \in flight /\ r.do = "set"
    BY <1>1, ServedIn
  <1> DEFINE d == Written(r, Px(r.of.live))
             j == Answered(job[r.t], r.at, LAMBDA i : TRUE)
  <1>3. d \in [Slots -> Rows] /\ Taken(r, d) = r.at
    BY <1>2, LivePx, WrittenRows
  <1> HIDE DEF d
  <1>4. ASSUME Live(r) PROVE Moves(r, d, {}, j)
    <2>1. Moves(r, d, {}, [job[r.t] EXCEPT !.res = [i \in DOMAIN job[r.t].res |->
                                                      IF i \in r.at THEN TRUE ELSE job[r.t].res[i]]])
      BY <1>2, <1>3, <1>4, WriteMoves
    <2> QED BY <2>1 DEF Answered
  <1>5. Serve(r, d, aux, {}, j)
    BY <1>1 DEF d
  <1> HIDE DEF j
  <1> QED BY <1>2, <1>3, <1>4, <1>5, NoneSent, ServeKeeps

\* Every entry of a write that failed is answered false.
LEMMA AnswersFail ==
    ASSUME CallsInv, NEW r \in flight, Live(r), NEW d
    PROVE  Fails(r, d, Answers(job[r.t], FALSE)) /\ Answers(job[r.t], FALSE) = [f \in Fields |-> Answers(job[r.t], FALSE)[f]]
  <1> DEFINE jt == job[r.t]
             R == [i \in DOMAIN jt.res |-> IF i \in All(jt) THEN FALSE ELSE jt.res[i]]
             j == [[jt EXCEPT !.res = R] EXCEPT !.failed = ~FALSE]
  <1>1. CallOK(jt)
    BY LiveCall
  <1>2. DOMAIN R = All(jt) /\ \A i \in All(jt) : R[i] = FALSE
    BY <1>1 DEF CallOK
  <1>3. Answers(jt, FALSE) = j
    BY DEF Answers, Answered
  <1> HIDE DEF R
  <1>4. j = [f \in Fields |-> j[f]] /\ j.failed = TRUE /\ j.res = R /\ j.put = jt.put /\ j.op = jt.op /\ j.keys = jt.keys
    BY <1>1 DEF CallOK, IsJob, Fields
  <1> HIDE DEF j, jt
  <1>5. Fails(r, d, j)
    BY <1>2, <1>4 DEF Fails, All
  <1> QED BY <1>3, <1>4, <1>5 DEF jt

LEMMA FailsKeep ==
    ASSUME CallsInv, NEW r \in flight, NEW d \in [Slots -> Rows], NEW a, a.cluster = aux.cluster,
           Finish(r, d, a, Failed(job[r.t])) \/ Finish(r, d, a, Answers(job[r.t], FALSE))
    PROVE  IInv'
  BY FailedFails, AnswersFail, FinishKeeps

LEMMA RowsStay == CallsInv => db \in [Slots -> Rows]
  BY DEF CallsInv, Types

LEMMA RedisNotWrittenKeeps == ASSUME CallsInv, RedisNotWritten PROVE IInv'
  <1>1. CASE \E r \in Served(Redis, "set") : Reject(r, db) \/ Finish(r, db, aux, Answers(job[r.t], FALSE))
    BY <1>1, ServedIn, RowsStay, FailsKeep, RejectKeeps DEF Reject
  <1>2. ASSUME NEW r \in Failing(Redis, "set"),
               NEW d \in Outcomes(r, IF Accepted(Px(r.of.live)) THEN Written(r, Px(r.of.live)) ELSE db),
               Reject(r, d) \/ Finish(r, d, aux, Answers(job[r.t], FALSE))
        PROVE  IInv'
    <2>1. r \in flight /\ r.do = "set"
      BY ServedIn
    <2>2. (IF Accepted(Px(r.of.live)) THEN Written(r, Px(r.of.live)) ELSE db) \in [Slots -> Rows]
      BY <2>1, LivePx, WrittenRows, RowsStay
    <2>3. d \in [Slots -> Rows]
      BY <2>2, OutcomeRows
    <2> QED BY <1>2, <2>1, <2>3, FailsKeep, RejectKeeps DEF Reject
  <1>3. \/ \E r \in Served(Redis, "set") : Reject(r, db) \/ Finish(r, db, aux, Answers(job[r.t], FALSE))
        \/ \E r \in Failing(Redis, "set") :
              \E d \in Outcomes(r, IF Accepted(Px(r.of.live)) THEN Written(r, Px(r.of.live)) ELSE db) :
                 Reject(r, d) \/ Finish(r, d, aux, Answers(job[r.t], FALSE))
    BY Zenon DEF RedisNotWritten
  <1>4. (\E r \in Failing(Redis, "set") :
              \E d \in Outcomes(r, IF Accepted(Px(r.of.live)) THEN Written(r, Px(r.of.live)) ELSE db) :
                 Reject(r, d) \/ Finish(r, d, aux, Answers(job[r.t], FALSE))) => IInv'
    BY <1>2, Zenon
  <1> QED BY <1>1, <1>3, <1>4

LEMMA RedisFailedKeeps == ASSUME CallsInv, RedisFailed PROVE IInv'
  <1>1. ASSUME NEW r \in Failing(Redis, "read") \cup Sent(Redis, "unrouted"),
               Reject(r, db) \/ Finish(r, db, aux, Failed(job[r.t]))
        PROVE  IInv'
    <2>1. r \in flight
      BY ServedIn
    <2> QED BY <1>1, <2>1, RowsStay, FailsKeep, RejectKeeps DEF Reject
  <1>2. ASSUME NEW r \in Failing(Redis, "delete"), NEW d \in Outcomes(r, Drop(db, SlotsAt(r.of, r.at))),
               Reject(r, d) \/ Finish(r, d, aux, Failed(job[r.t]))
        PROVE  IInv'
    <2>1. r \in flight
      BY ServedIn
    <2>2. d \in [Slots -> Rows]
      BY DroppedRows, OutcomeRows
    <2> QED BY <1>2, <2>1, <2>2, FailsKeep, RejectKeeps DEF Reject
  <1> QED BY <1>1, <1>2 DEF RedisFailed

\* The client is connected, and what waited for it is sent.
LEMMA RedisConnectedKeeps == ASSUME CallsInv, RedisConnected PROVE IInv'
  <1> DEFINE a == [aux EXCEPT !.connecting = FALSE, !.open = TRUE]
             F(r) == {c \in RedisSends(r.t, r.of) : r.at # {} => c.at = r.at}
  <1>1. PICK r \in Sent(Redis, "connect") : Serve(r, db, a, F(r), job[r.t])
    BY DEF RedisConnected
  <1>2. r \in flight /\ r.do = "connect" /\ adapter \in Redis
    BY <1>1, ServedIn
  <1> DEFINE j == r.of
             sends == RedisSends(r.t, j)
  <1>3. /\ CommandOK(r, adapter, calls, now) /\ j = Of(j) /\ Calling(j, r.t, calls)
        /\ j.op \in KeyOps \cup {"clear", "iterator"}
    BY <1>2, InFlight DEF Fits
  <1>4. /\ Made(j, r.t, calls, sends) /\ CoverAll(sends, All(j))
        /\ j.op \in Routed => \A f \in sends : Covers(f, adapter) = f.at
        /\ j.op \in Routed /\ All(j) # {} => \A I \in Groups(j) : \E f \in sends : f.at = I
    BY <1>2, <1>3, RedisSendsMade
  <1> HIDE DEF sends
  <1>5. F(r) \subseteq sends
    BY DEF sends
  <1>6. Sends(r, F(r))
    <2>1. Made(j, r.t, calls, F(r))
      BY <1>4, <1>5 DEF Made
    <2> HIDE DEF F
    <2> QED BY <1>2, <2>1, MadeSends
  <1>7. \A i \in Covers(r, adapter) : \E f \in F(r) : i \in Covers(f, adapter)
    <2>1. CASE r.at = {}
      <3>1. F(r) = sends
        BY <2>1 DEF sends
      <3>2. Covers(r, adapter) = All(j)
        BY <1>2, <2>1 DEF Covers
      <3> QED BY <1>4, <3>1, <3>2 DEF CoverAll
    <2>2. CASE r.at # {}
      <3>1. j.op \in Routed /\ adapter \in Clusters /\ r.at \in Split(j) /\ All(j) # {}
        BY <1>2, <1>3, <2>2 DEF CommandOK
      <3>2. r.at \in Groups(j)
        BY <1>3, <3>1, GroupsOf
      <3>3. PICK f \in sends : f.at = r.at
        BY <1>4, <3>1, <3>2
      <3>4. f \in F(r) /\ Covers(f, adapter) = r.at
        BY <1>4, <3>1, <3>3 DEF sends
      <3>5. Covers(r, adapter) = r.at
        BY <1>2, <2>2 DEF Covers
      <3> QED BY <3>4, <3>5
    <2> QED BY <2>1, <2>2
  <1>8. Taken(r, db) = {}
    <2>1. r.at = {} \/ j.op \notin WriteOps
      <3>1. Routed \cap WriteOps = {}
        BY DEF Routed, WriteOps
      <3> QED BY <1>2, <1>3, <3>1 DEF CommandOK
    <2> QED BY <2>1 DEF Taken
  <1> HIDE DEF F
  <1>9. ASSUME Live(r) PROVE Moves(r, db, F(r), job[r.t])
    BY <1>2, <1>7, <1>8, <1>9, StaysOnward DEF Moves, Settles
  <1>10. a.cluster = aux.cluster
    OBVIOUS
  <1> HIDE DEF a
  <1> QED BY <1>1, <1>2, <1>6, <1>9, <1>10, RowsStay, ServeKeeps

LEMMA RedisNotConnectedKeeps == ASSUME CallsInv, RedisNotConnected PROVE IInv'
  <1> DEFINE a == [aux EXCEPT !.connecting = FALSE, !.open = FALSE]
  <1>1. PICK r \in Sent(Redis, "connect") : RejectWith(r, db, a) \/ Finish(r, db, a, Failed(job[r.t]))
    BY DEF RedisNotConnected
  <1>2. r \in flight /\ a.cluster = aux.cluster
    BY <1>1, ServedIn
  <1> HIDE DEF a
  <1> QED BY <1>1, <1>2, RowsStay, FailsKeep, RejectKeeps

---------------------------------------------------------------------------
(* Going through a namespace, and closing the client *)

Walking == {"scan", "mget", "scan to clear", "clear", "members", "forget", "close"}

LEMMA WalkSends ==
    ASSUME CallsInv, NEW r \in flight, r.do \in Walking
    PROVE  /\ Made(r.of, r.t, calls, {}) /\ r.of.op \in WalkOps
           /\ \A do \in Walking : \A with : Made(r.of, r.t, calls, {Command(r.t, r.of, do, {}, with)})
  <1>1. r.of.op \in WalkOps
    BY InFlight DEF Walking, Fits
  <1>2. ASSUME NEW do \in Walking, NEW with PROVE Made(r.of, r.t, calls, {Command(r.t, r.of, do, {}, with)})
    <2>1. Calling(r.of, r.t, calls)
      BY InFlight
    <2> QED BY <1>1, <2>1, WalkMade DEF Walking
  <1>3. Made(r.of, r.t, calls, {})
    BY DEF Made
  <1> QED BY <1>1, <1>2, <1>3

LEMMA WalkKeeps ==
    ASSUME CallsInv, NEW r \in flight, r.do \in Walking, NEW d \in [Slots -> Rows], NEW a, a.cluster = aux.cluster,
           NEW F, Made(r.of, r.t, calls, F), NEW j, Live(r) => Onward(job[r.t], j), Serve(r, d, a, F, j)
    PROVE  IInv'
  <1>1. r.of.op \notin KeyOps
    BY WalkSends, OpsApart
  <1>2. Live(r) => Moves(r, d, F, j)
    BY <1>1, WalkMoves
  <1>3. Sends(r, F)
    BY MadeSends
  <1> QED BY <1>2, <1>3, ServeKeeps

LEMMA NextPageMade ==
    ASSUME CallsInv, NEW r \in flight, r.do \in Walking, NEW p PROVE Made(r.of, r.t, calls, NextPage(r, p))
  <1>1. "scan" \in Walking
    BY DEF Walking
  <1> QED BY <1>1, WalkSends DEF NextPage

LEMMA AfterPageMade ==
    ASSUME CallsInv, NEW r \in flight, r.do \in Walking, NEW ks PROVE Made(r.of, r.t, calls, AfterPage(r, ks))
  <1>1. "mget" \in Walking
    BY DEF Walking
  <1> QED BY <1>1, WalkSends, NextPageMade DEF AfterPage

LEMMA ScannedKeeps ==
    ASSUME CallsInv, NEW r \in flight, r.do = "scan", NEW ks, Serve(r, db, aux, AfterPage(r, ks), job[r.t])
    PROVE  IInv'
  <1>1. r.do \in Walking
    BY DEF Walking
  <1> QED BY <1>1, AfterPageMade, RowsStay, StaysOnward, WalkKeeps

LEMMA YieldsKeep ==
    ASSUME CallsInv, NEW r \in flight, r.do = "mget",
           Serve(r, db, aux, NextPage(r, r.with[2]), Yielded(job[r.t], r.with[1]))
    PROVE  IInv'
  <1>1. r.do \in Walking
    BY DEF Walking
  <1>2. Live(r) => Onward(job[r.t], Yielded(job[r.t], r.with[1]))
    BY YieldedOnward
  <1> QED BY <1>1, <1>2, NextPageMade, RowsStay, WalkKeeps

LEMMA ClearedKeeps ==
    ASSUME CallsInv, NEW r \in flight, r.do \in Walking, NEW S, Serve(r, Drop(db, S), aux, {}, job[r.t]) PROVE IInv'
  BY WalkSends, DroppedRows, StaysOnward, WalkKeeps

LEMMA RedisScannedToClearKeeps == ASSUME CallsInv, RedisScannedToClear PROVE IInv'
  <1>1. PICK r \in Served(Redis, "scan to clear") : \E ks : Serve(r, db, aux, RedisClears(r, ks), job[r.t])
    BY Zenon DEF RedisScannedToClear
  <1>2. PICK ks : Serve(r, db, aux, RedisClears(r, ks), job[r.t])
    BY <1>1
  <1>3. r \in flight /\ r.do \in Walking /\ "clear" \in Walking /\ "scan to clear" \in Walking
    <2>1. r \in flight /\ r.do = "scan to clear"
      BY <1>1, ServedIn
    <2> QED BY <2>1 DEF Walking
  <1> DEFINE F1 == IF ks = <<>> THEN {} ELSE {Command(r.t, r.of, "clear", {}, Page(r.of.ns, ks))}
             F2 == IF r.with[2] < Len(Names)
                   THEN {Command(r.t, r.of, "scan to clear", {}, <<r.with[1], r.with[2] + 1>>)} ELSE {}
  <1>4. RedisClears(r, ks) = F1 \cup F2
    BY Zenon DEF RedisClears
  <1>5. Made(r.of, r.t, calls, F1)
    BY <1>3, WalkSends
  <1>6. Made(r.of, r.t, calls, F2)
    BY <1>3, WalkSends
  <1> HIDE DEF F1, F2
  <1>7. Made(r.of, r.t, calls, RedisClears(r, ks))
    <2>1. Made(r.of, r.t, calls, F1 \cup F2)
      BY <1>5, <1>6, MadeUnion
    <2> QED BY <1>4, <2>1
  <1> QED BY <1>2, <1>3, <1>7, RowsStay, StaysOnward, WalkKeeps

LEMMA RedisWalksKeep ==
    ASSUME CallsInv,
           \/ RedisScanned \/ RedisYields \/ RedisIterationFailed \/ RedisScannedToClear \/ RedisCleared
           \/ RedisNotCleared \/ RedisClosed
    PROVE  IInv'
  <1>1. CASE RedisScanned
    <2>0. PICK r \in Served(Redis, "scan") : \E ks :
             Serve(r, db, aux, AfterPage(r, ks), job[r.t])
      BY <1>1, Zenon DEF RedisScanned
    <2>1. PICK ks :
             Serve(r, db, aux, AfterPage(r, ks), job[r.t])
      BY <2>0
    <2>2. r \in flight /\ r.do = "scan"
      BY <2>0, ServedIn
    <2> QED BY <2>1, <2>2, ScannedKeeps
  <1>2. CASE RedisYields
    <2>1. PICK r \in Served(Redis, "mget") :
             Serve(r, db, aux, NextPage(r, r.with[2]), Yielded(job[r.t], r.with[1]))
      BY <1>2, Zenon DEF RedisYields
    <2>2. r \in flight /\ r.do = "mget"
      BY <2>1, ServedIn
    <2> QED BY <2>1, <2>2, YieldsKeep
  <1>3. CASE RedisIterationFailed
    BY <1>3, ServedIn, RowsStay, RejectKeeps DEF RedisIterationFailed, Reject
  <1>4. CASE RedisScannedToClear
    BY <1>4, RedisScannedToClearKeeps
  <1>5. CASE RedisCleared
    <2>1. PICK r \in Served(Redis, "clear") : Serve(r, Drop(db, r.with), aux, {}, job[r.t])
      BY <1>5, Zenon DEF RedisCleared
    <2>2. r \in flight /\ r.do = "clear"
      BY <2>1, ServedIn
    <2>3. r.do \in Walking
      BY <2>2 DEF Walking
    <2> QED BY <2>1, <2>2, <2>3, ClearedKeeps
  <1>6. CASE RedisNotCleared
    <2>1. CASE \E r \in Failing(Redis, "scan to clear") : Finish(r, db, aux, Failed(job[r.t]))
      BY <2>1, ServedIn, RowsStay, FailsKeep
    <2>2. ASSUME NEW r \in Failing(Redis, "clear"), NEW d \in Outcomes(r, Drop(db, r.with)),
                 Finish(r, d, aux, Failed(job[r.t]))
          PROVE  IInv'
      <3>1. r \in flight
        BY ServedIn
      <3>2. d \in [Slots -> Rows]
        BY DroppedRows, OutcomeRows
      <3> QED BY <2>2, <3>1, <3>2, FailsKeep
    <2> QED BY <1>6, <2>1, <2>2 DEF RedisNotCleared
  <1>7. CASE RedisClosed
    <2>1. PICK r \in Sent(Redis, "close") : Serve(r, db, aux, {}, job[r.t])
      BY <1>7 DEF RedisClosed
    <2>2. r \in flight /\ r.do = "close"
      BY <2>1, ServedIn
    <2>3. r.do \in Walking
      BY <2>2 DEF Walking
    <2> QED BY <2>1, <2>2, <2>3, WalkSends, RowsStay, StaysOnward, WalkKeeps
  <1> QED BY <1>1, <1>2, <1>3, <1>4, <1>5, <1>6, <1>7

LEMMA TimedOutKeeps == ASSUME CallsInv, NEW names, TimedOut(names) PROVE IInv'
  BY GiveUpKeeps DEF TimedOut

LEMMA RedisDisconnectKeeps ==
    ASSUME CallsInv, NEW t \in Tasks, NEW j, Fresh(j, t, calls + 1), RedisDisconnect(t, j) PROVE IInv'
  <1> DEFINE F == IF aux.open \/ aux.connecting THEN {Command(t, j, "close", {}, {})} ELSE {}
             a == [aux EXCEPT !.open = FALSE, !.connecting = FALSE]
  <1>1. j.op \in WalkOps /\ Calling(j, t, calls + 1)
    BY OpSets DEF RedisDisconnect, Calling, Fresh, CallsInv, Types
  <1>2. All(j) = {}
    BY <1>1, NoEntries
  <1>3. Made(j, t, calls + 1, {Command(t, j, "close", {}, {})}) /\ Made(j, t, calls + 1, {})
    <2>1. Made(j, t, calls + 1, {})
      BY DEF Made
    <2> QED BY <1>1, <2>1, WalkMade
  <1>4. Opens(j, t, calls + 1, F)
    <2>1. Made(j, t, calls + 1, F)
      BY <1>3
    <2>2. CoverAll(F, All(j))
      BY <1>2 DEF CoverAll
    <2> HIDE DEF F
    <2> QED BY <2>1, <2>2, MadeOpens
  <1>5. a.cluster = aux.cluster /\ EnterWith(t, j, F, a)
    BY DEF RedisDisconnect
  <1> HIDE DEF F, a
  <1> QED BY <1>4, <1>5, EnterKeeps

LEMMA RedisServesKeep == ASSUME CallsInv, RedisServes PROVE IInv'
  BY RedisConnectedKeeps, RedisNotConnectedKeeps, RedisWrittenKeeps, RedisNotWrittenKeeps, RedisReadKeeps,
     RedisDeletedKeeps, RedisFailedKeeps, RedisWalksKeep, TimedOutKeeps DEF RedisServes, RedisTimedOut

\* A call that starts, of what a caller may be given to call.
LEMMA CallFresh ==
    ASSUME CallsInv, NEW t \in Tasks, NEW op \in Ops[t], op \in KeyOps \cup WalkOps, NEW ns \in Namespaces,
           NEW ks \in Batches, op \in SingleOps <=> Len(ks) = 1, op \notin KeyOps => ks = <<>>,
           NEW live \in IF op \in WriteOps THEN Lives[adapter] ELSE {None}
    PROVE  Fresh(NewJob(op, ns, ks, live), t, calls + 1)
  BY NewJobFresh

LEMMA NewJobOp == ASSUME NEW op, NEW ns, NEW ks, NEW live PROVE NewJob(op, ns, ks, live).op = op
  BY DEF NewJob

LEMMA RedisNextKeeps == ASSUME CallsInv, RedisNext PROVE IInv'
  <1>1. ASSUME adapter = "redis", NEW t \in Tasks, NewCall(t, RedisCall) PROVE IInv'
    <2>1. PICK op \in Ops[t], ns \in Namespaces, ks \in Batches :
             /\ (op \in SingleOps <=> Len(ks) = 1) /\ (op \notin KeyOps => ks = <<>>)
             /\ \E live \in IF op \in WriteOps THEN Lives[adapter] ELSE {None} : RedisCall(t, NewJob(op, ns, ks, live))
      BY <1>1 DEF NewCall
    <2>2. PICK live \in IF op \in WriteOps THEN Lives[adapter] ELSE {None} : RedisCall(t, NewJob(op, ns, ks, live))
      BY <2>1
    <2>3. op \in KeyOps \cup WalkOps
      BY <2>2, NewJobOp, OpSets DEF RedisCall
    <2>4. Fresh(NewJob(op, ns, ks, live), t, calls + 1)
      BY <2>1, <2>3, CallFresh
    <2> QED BY <1>1, <2>2, <2>4, RedisCallKeeps DEF Redis
  <1>2. ASSUME NEW t \in Tasks, NewCall(t, RedisDisconnect) PROVE IInv'
    <2>1. PICK op \in Ops[t], ns \in Namespaces, ks \in Batches :
             /\ (op \in SingleOps <=> Len(ks) = 1) /\ (op \notin KeyOps => ks = <<>>)
             /\ \E live \in IF op \in WriteOps THEN Lives[adapter] ELSE {None} :
                   RedisDisconnect(t, NewJob(op, ns, ks, live))
      BY <1>2 DEF NewCall
    <2>2. PICK live \in IF op \in WriteOps THEN Lives[adapter] ELSE {None} : RedisDisconnect(t, NewJob(op, ns, ks, live))
      BY <2>1
    <2>3. op \in KeyOps \cup WalkOps
      BY <2>2, NewJobOp, OpSets DEF RedisDisconnect
    <2>4. Fresh(NewJob(op, ns, ks, live), t, calls + 1)
      BY <2>1, <2>3, CallFresh
    <2> QED BY <2>2, <2>4, RedisDisconnectKeeps
  <1> QED BY <1>1, <1>2, RedisServesKeep DEF RedisNext

LEMMA KeydbNextKeeps == ASSUME CallsInv, KeydbNext PROVE IInv'
  <1>1. ASSUME adapter = "keydb", NEW t \in Tasks, NewCall(t, KeydbCall) PROVE IInv'
    <2>1. PICK op \in Ops[t], ns \in Namespaces, ks \in Batches :
             /\ (op \in SingleOps <=> Len(ks) = 1) /\ (op \notin KeyOps => ks = <<>>)
             /\ \E live \in IF op \in WriteOps THEN Lives[adapter] ELSE {None} : KeydbCall(t, NewJob(op, ns, ks, live))
      BY <1>1 DEF NewCall
    <2>2. PICK live \in IF op \in WriteOps THEN Lives[adapter] ELSE {None} : KeydbCall(t, NewJob(op, ns, ks, live))
      BY <2>1
    <2> DEFINE j == NewJob(op, ns, ks, live)
    <2>3. j.op = op
      BY NewJobOp
    <2> HIDE DEF j
    <2>4. RedisCall(t, j) \/ RedisDisconnect(t, j)
      BY <2>2 DEF KeydbCall, KeydbSet, KeydbSetMany, KeydbHas, KeydbHasMany, KeydbGet, KeydbGetMany, KeydbDelete,
                  KeydbDeleteMany, KeydbIterator, KeydbClear, KeydbDisconnect, j
    <2>5. op \in KeyOps \cup WalkOps
      BY <2>3, <2>4, OpSets DEF RedisCall, RedisDisconnect
    <2>6. Fresh(j, t, calls + 1)
      BY <2>1, <2>5, CallFresh DEF j
    <2> QED BY <1>1, <2>4, <2>6, RedisCallKeeps, RedisDisconnectKeeps DEF Redis
  <1> QED BY <1>1 DEF KeydbNext

---------------------------------------------------------------------------
(* The calls of valkey *)

\* deleteMany goes on with the chunk that begins at p; of the entries from p on, each
\* is in it or comes after it.
LEMMA ChunkMade ==
    ASSUME NEW j, NEW t, NEW n, Calling(j, t, n), adapter = "valkey", j.op \in DeleteOps, NEW p \in Nat \ {0}
    PROVE  /\ Made(j, t, n, ChunkFrom(t, j, p))
           /\ CoverAll(ChunkFrom(t, j, p), {i \in All(j) : i >= p})
  <1> DEFINE I == {i \in All(j) : i >= p /\ i < p + ChunkSize}
             f == Command(t, j, "delete", I, p)
  <1>1. ChunkFrom(t, j, p) = IF I = {} THEN {} ELSE {f}
    BY DEF ChunkFrom
  <1>2. Made(j, t, n, {f}) /\ Made(j, t, n, {})
    <2>1. Fits("delete", j.op)
      BY OpsFit
    <2>2. Made(j, t, n, {f})
      BY <2>1, CommandMade
    <2> QED BY <2>2 DEF Made
  <1>3. f.do = "delete" /\ f.with = p /\ All(f.of) = All(j)
    <2>1. f.do = "delete" /\ f.with = p /\ f.of = Of(j)
      BY CommandIs
    <2> HIDE DEF f
    <2> QED BY <2>1, OfAll
  <1> HIDE DEF f
  <1>4. Covers(f, adapter) = {i \in All(j) : i >= p}
    BY <1>3 DEF Covers
  <1>5. All(j) = 1..Len(j.keys) /\ Len(j.keys) \in Nat
    BY OfAll DEF Calling, OfOK, All
  <1>6. ASSUME NEW i \in All(j), i >= p PROVE I # {}
    <2>1. p \in All(j) /\ p >= p /\ p < p + ChunkSize
      BY <1>5, <1>6, ValkeyAssumption
    <2> QED BY <2>1
  <1> HIDE DEF I
  <1> QED BY <1>1, <1>2, <1>4, <1>6 DEF CoverAll

LEMMA ValkeyCallKeeps ==
    ASSUME CallsInv, adapter = "valkey", NEW t \in Tasks, NEW j, Fresh(j, t, calls + 1), ValkeyCall(t, j) PROVE IInv'
  <1> DEFINE n == calls + 1
  <1>1. Calling(j, t, n)
    BY DEF Calling, Fresh, CallsInv, Types
  <1>2. ASSUME NEW F, Made(j, t, n, F), CoverAll(F, All(j)), Enter(t, j, F) PROVE IInv'
    BY <1>2, MadeOpens, EnterKeeps DEF Enter
  <1>3. ASSUME NEW do \in {"read", "set"}, Fits(do, j.op), j.op \in SingleOps,
               Enter(t, j, {Command(t, j, do, All(j), {})})
        PROVE  IInv'
    <2> DEFINE F == {Command(t, j, do, All(j), {})}
    <2>1. Made(j, t, n, F) /\ CoverAll(F, All(j))
      <3>1. do \in {"read", "set", "delete"} /\ do # "delete"
        OBVIOUS
      <3> QED BY <1>1, <1>3, <3>1, SingleMade
    <2> HIDE DEF F
    <2>2. Enter(t, j, F)
      BY <1>3 DEF F
    <2> QED BY <1>2, <2>1, <2>2
  <1>4. ASSUME NEW do \in {"read", "set"}, Fits(do, j.op), Enter(t, j, Grouped(t, j, do)) PROVE IInv'
    <2>1. do \in {"read", "set", "delete", "unrouted"} /\ do # "delete"
      OBVIOUS
    <2>2. Made(j, t, n, Grouped(t, j, do)) /\ CoverAll(Grouped(t, j, do), All(j))
      BY <1>1, <1>4, <2>1, GroupedMade
    <2> QED BY <1>2, <1>4, <2>2
  <1>5. ASSUME All(j) = {}, Enter(t, j, {}) PROVE IInv'
    <2>1. Made(j, t, n, {}) /\ CoverAll({}, All(j))
      BY <1>5 DEF Made, CoverAll
    <2> QED BY <1>2, <1>5, <2>1
  <1>6. ASSUME NEW do \in {"scan", "members", "scan to clear"}, NEW with, j.op \in WalkOps,
               Enter(t, j, {Command(t, j, do, {}, with)})
        PROVE  IInv'
    <2>1. Made(j, t, n, {Command(t, j, do, {}, with)})
      BY <1>1, <1>6, WalkMade
    <2>2. CoverAll({Command(t, j, do, {}, with)}, All(j))
      <3>1. All(j) = {}
        BY <1>1, <1>6, NoEntries
      <3> QED BY <3>1 DEF CoverAll
    <2> QED BY <1>2, <1>6, <2>1, <2>2
  <1> HIDE DEF n
  <1>7. CASE ValkeyGet(t, j) \/ ValkeyHas(t, j)
    BY <1>3, <1>7, OpsFit, OpSets DEF ValkeyGet, ValkeyHas
  <1>8. CASE ValkeyGetMany(t, j)
    BY <1>4, <1>8, OpsFit, OpSets DEF ValkeyGetMany
  <1>9. CASE ValkeyHasMany(t, j)
    BY <1>4, <1>5, <1>9, OpsFit, OpSets DEF ValkeyHasMany
  <1>10. CASE ValkeySet(t, j)
    BY <1>3, <1>10, OpsFit, OpSets DEF ValkeySet
  <1>11. CASE ValkeySetMany(t, j)
    BY <1>4, <1>5, <1>11, OpsFit, OpSets DEF ValkeySetMany
  <1>12. CASE ValkeyDelete(t, j)
    <2> DEFINE f == Command(t, j, "delete", All(j), 1)
    <2>1. j.op = "delete" /\ j.op \in DeleteOps /\ j.op \in SingleOps
      BY <1>12, OpSets DEF ValkeyDelete
    <2>2. All(j) = {1}
      <3>1. j.keys \in Seq(Keys) /\ Len(j.keys) = 1
        BY <1>1, <2>1, OfAll DEF Calling, OfOK
      <3> QED BY <3>1 DEF All
    <2>3. All(j) = {i \in All(j) : i >= 1 /\ i < 1 + ChunkSize}
      BY <2>2, ValkeyAssumption
    <2>4. Made(j, t, n, {f})
      <3>1. Alike(j, All(j)) /\ Fits("delete", j.op) /\ All(j) \in SUBSET All(j) /\ 1 \in Nat \ {0}
        BY <1>1, <2>1, OneAlike, OpsFit
      <3> QED BY <1>1, <2>3, <3>1, CommandMade
    <2>5. f.do = "delete" /\ f.with = 1 /\ f.of = Of(j)
      BY CommandIs
    <2> HIDE DEF f
    <2>6. All(f.of) = All(j)
      BY <2>5, OfAll
    <2>7. CoverAll({f}, All(j))
      <3>1. Covers(f, adapter) = {i \in All(j) : i >= 1}
        BY <2>5, <2>6 DEF Covers
      <3> QED BY <2>2, <3>1 DEF CoverAll
    <2>8. Enter(t, j, {f})
      BY <1>12 DEF ValkeyDelete, f
    <2> QED BY <1>2, <2>4, <2>7, <2>8
  <1>13. CASE ValkeyDeleteMany(t, j)
    <2>1. j.op \in DeleteOps /\ Enter(t, j, ChunkFrom(t, j, 1))
      BY <1>13, OpSets DEF ValkeyDeleteMany
    <2>2. All(j) = {i \in All(j) : i >= 1}
      <3>1. All(j) = 1..Len(j.keys)
        BY <1>1, OfAll DEF Calling, OfOK, All
      <3> QED BY <3>1
    <2>3. Made(j, t, n, ChunkFrom(t, j, 1)) /\ CoverAll(ChunkFrom(t, j, 1), {i \in All(j) : i >= 1})
      <3>1. 1 \in Nat \ {0}
        OBVIOUS
      <3> QED BY <1>1, <2>1, <3>1, ChunkMade
    <2> QED BY <1>2, <2>1, <2>2, <2>3
  <1>14. CASE ValkeyClear(t, j) \/ ValkeyIterator(t, j)
    BY <1>6, <1>14, OpSets DEF ValkeyClear, ValkeyIterator
  <1>15. CASE ValkeyDisconnect(t, j)
    <2> DEFINE a == [aux EXCEPT !.open = FALSE]
    <2>1. j.op \in WalkOps /\ EnterWith(t, j, {}, a) /\ a.cluster = aux.cluster
      BY <1>15, OpSets DEF ValkeyDisconnect
    <2> HIDE DEF a
    <2>2. All(j) = {}
      BY <1>1, <2>1, NoEntries
    <2>3. Opens(j, t, n, {})
      BY <2>2 DEF Opens
    <2> QED BY <2>1, <2>3, EnterKeeps DEF n
  <1> QED BY <1>7, <1>8, <1>9, <1>10, <1>11, <1>12, <1>13, <1>14, <1>15 DEF ValkeyCall

---------------------------------------------------------------------------
(* What valkey answers *)

LEMMA VkIn == ASSUME NEW do, NEW r \in Vk(do) PROVE r \in flight /\ r.do = do /\ adapter = "valkey"
  BY ServedIn DEF Vk, Valkey

LEMMA IndexOnly == ASSUME NEW S PROVE Added(S).cluster = aux.cluster /\ Without(S).cluster = aux.cluster
  BY DEF Added, Without

LEMMA ValkeyReadKeeps == ASSUME CallsInv, ValkeyRead PROVE IInv'
  <1>1. PICK r \in Vk("read") : Serve(r, db, aux, {}, Found(job[r.t], r.at))
    BY DEF ValkeyRead
  <1>2. r \in flight /\ r.do = "read"
    BY <1>1, VkIn
  <1> QED BY <1>1, <1>2, FoundMoves, RowsStay, NoneSent, ServeKeeps

LEMMA ValkeyWrittenKeeps == ASSUME CallsInv, ValkeyWritten PROVE IInv'
  <1>1. PICK r \in Vk("set") :
           IF Accepted(r.of.live)
           THEN Serve(r, Written(r, r.of.live), Added(SlotsAt(r.of, r.at)), {},
                      Answered(job[r.t], r.at, LAMBDA i : TRUE))
           ELSE Serve(r, db, Added(SlotsAt(r.of, r.at)), {},
                      Answered(job[r.t], r.at, LAMBDA i : r.of.op = "set" /\ aux.sets))
    BY DEF ValkeyWritten
  <1>2. r \in flight /\ r.do = "set" /\ adapter = "valkey"
    BY <1>1, VkIn
  <1> DEFINE a == Added(SlotsAt(r.of, r.at))
             R(x) == [i \in DOMAIN job[r.t].res |-> IF i \in r.at THEN x ELSE job[r.t].res[i]]
  <1>3. a.cluster = aux.cluster
    BY IndexOnly
  <1> HIDE DEF a
  <1>4. CASE Accepted(r.of.live)
    <2> DEFINE d == Written(r, r.of.live)
               j == [job[r.t] EXCEPT !.res = R(TRUE)]
    <2>1. d \in [Slots -> Rows] /\ Taken(r, d) = r.at
      BY <1>2, LivePx, WrittenRows
    <2> HIDE DEF d
    <2>2. Live(r) => Moves(r, d, {}, j)
      BY <1>2, <2>1, WriteMoves
    <2>3. Serve(r, d, a, {}, j)
      BY <1>1, <1>4 DEF Answered, a, d
    <2> HIDE DEF j
    <2> QED BY <1>2, <1>3, <2>1, <2>2, <2>3, NoneSent, ServeKeeps
  <1>5. CASE ~Accepted(r.of.live)
    <2> DEFINE x == r.of.op = "set" /\ aux.sets
               j == [job[r.t] EXCEPT !.res = R(x)]
    <2>1. ~Timely
      <3>1. r.of.live \in Lives["valkey"] \cup {None} /\ "valkey" \in Adapters
        BY <1>2 DEF CallsInv, CommandOK, OfOK, Types
      <3>2. Accepted(None)
        BY DEF Accepted
      <3> QED BY <1>5, <3>1, <3>2 DEF Timely
    <2>2. x \in BOOLEAN
      OBVIOUS
    <2> HIDE DEF x
    <2>3. Live(r) => Moves(r, db, {}, j)
      BY <1>2, <2>1, <2>2, WriteMoves
    <2>4. Serve(r, db, a, {}, j)
      BY <1>1, <1>5 DEF Answered, a, x
    <2> HIDE DEF j
    <2> QED BY <1>2, <1>3, <2>3, <2>4, RowsStay, NoneSent, ServeKeeps
  <1> QED BY <1>4, <1>5

LEMMA ValkeyNotWrittenKeeps == ASSUME CallsInv, ValkeyNotWritten PROVE IInv'
  <1>1. PICK r \in Failing(Valkey, "set") :
           \/ Finish(r, db, aux, Failed(job[r.t]))
           \/ Finish(r, Written(r, r.of.live), Added(SlotsAt(r.of, r.at)), Failed(job[r.t]))
    BY DEF ValkeyNotWritten
  <1>2. r \in flight /\ r.do = "set"
    BY <1>1, ServedIn
  <1>3. Written(r, r.of.live) \in [Slots -> Rows]
    BY <1>2, LivePx, WrittenRows
  <1> QED BY <1>1, <1>2, <1>3, RowsStay, IndexOnly, FailsKeep

LEMMA ValkeyDeletedKeeps == ASSUME CallsInv, ValkeyDeleted PROVE IInv'
  <1>1. PICK r \in Vk("delete") :
           Serve(r, Drop(db, SlotsAt(r.of, r.at)), Without(SlotsAt(r.of, r.at)),
                 ChunkFrom(r.t, r.of, r.with + ChunkSize), Removed(job[r.t], r.at))
    BY DEF ValkeyDeleted
  <1>2. r \in flight /\ r.do = "delete" /\ adapter = "valkey"
    BY <1>1, VkIn
  <1> DEFINE F == ChunkFrom(r.t, r.of, r.with + ChunkSize)
             a == Without(SlotsAt(r.of, r.at))
             d == Drop(db, SlotsAt(r.of, r.at))
  <1>3. /\ r.with \in Nat \ {0} /\ r.at = {i \in All(r.of) : i >= r.with /\ i < r.with + ChunkSize}
        /\ r.with + ChunkSize \in Nat \ {0}
    <2>1. r.with \in Nat \ {0} /\ r.at = {i \in All(r.of) : i >= r.with /\ i < r.with + ChunkSize}
      BY <1>2 DEF CallsInv, CommandOK
    <2> QED BY <2>1, ValkeyAssumption
  <1>4. /\ Made(r.of, r.t, calls, F)
        /\ CoverAll(F, {i \in All(r.of) : i >= r.with + ChunkSize})
    <2>1. r.of.op \in DeleteOps /\ Calling(r.of, r.t, calls)
      BY <1>2, InFlight DEF Fits
    <2> QED BY <1>2, <1>3, <2>1, ChunkMade
  <1> HIDE DEF F
  <1>5. ASSUME Live(r) PROVE Moves(r, d, F, Removed(job[r.t], r.at))
    <2> DEFINE jt == job[r.t]
               R == [i \in DOMAIN jt.res |->
                       IF i \in r.at THEN There(Slot(jt, i)) /\ \A m \in r.at : jt.keys[m] = jt.keys[i] => i <= m
                       ELSE jt.res[i]]
    <2>1. CallOK(jt) /\ All(jt) = All(r.of) /\ (\A i : Slot(jt, i) = Slot(r.of, i)) /\ r.at \subseteq All(r.of)
      BY <1>2, <1>5, LiveCall
    <2>2. DOMAIN R = All(r.of)
      BY <2>1 DEF CallOK
    <2>3. \A i \in r.at : R[i] \in BOOLEAN /\ (R[i] => There(Slot(r.of, i)))
      BY <2>1, <2>2
    <2>4. ASSUME NEW i \in All(r.of) \ r.at
          PROVE  R[i] = jt.res[i] /\ (i \in Covers(r, adapter) => \E f \in F : i \in Covers(f, adapter))
      <3>1. R[i] = jt.res[i]
        BY <2>2
      <3>2. i \in Covers(r, adapter) => i >= r.with
        BY <1>2 DEF Covers
      <3>3. i \in Nat
        BY <1>2, InFlight DEF Calling, OfOK, All
      <3>4. i \in Covers(r, adapter) => i >= r.with + ChunkSize
        <4>1. ~(i >= r.with /\ i < r.with + ChunkSize)
          BY <1>3
        <4>2. r.with + ChunkSize \in Nat
          BY <1>3
        <4> QED BY <3>2, <3>3, <4>1, <4>2
      <3> QED BY <1>4, <3>1, <3>4 DEF CoverAll
    <2>5. Removed(jt, r.at) = [jt EXCEPT !.res = R]
      BY DEF Removed, Answered
    <2> HIDE DEF R
    <2> QED BY <1>2, <1>5, <2>2, <2>3, <2>4, <2>5, DeletedMoves
  <1>6. Sends(r, F)
    BY <1>2, <1>4, MadeSends
  <1>7. d \in [Slots -> Rows] /\ a.cluster = aux.cluster
    BY DroppedRows, IndexOnly
  <1> HIDE DEF d, a
  <1>8. Serve(r, d, a, F, Removed(job[r.t], r.at))
    BY <1>1 DEF d, a, F
  <1> QED BY <1>2, <1>5, <1>6, <1>7, <1>8, ServeKeeps

LEMMA ValkeyMembersKeeps == ASSUME CallsInv, ValkeyMembers PROVE IInv'
  <1>1. PICK r \in Vk("members") :
           LET S == aux.index \cap In(r.of.ns)
           IN  Serve(r, db, aux,
                     IF S = {} THEN {} ELSE {Command(r.t, r.of, "clear", {}, S), Command(r.t, r.of, "forget", {}, S)},
                     [job[r.t] EXCEPT !.over = S])
    BY Zenon DEF ValkeyMembers
  <1> DEFINE S == aux.index \cap In(r.of.ns)
             clear == {Command(r.t, r.of, "clear", {}, S)}
             forget == {Command(r.t, r.of, "forget", {}, S)}
             F == IF S = {} THEN {} ELSE clear \cup forget
             j == [job[r.t] EXCEPT !.over = S]
  <1>2. r \in flight /\ r.do = "members"
    BY <1>1, VkIn
  <1>3. r.do \in Walking /\ "clear" \in Walking /\ "forget" \in Walking
    BY <1>2 DEF Walking
  <1>4. Made(r.of, r.t, calls, {}) /\ Made(r.of, r.t, calls, clear) /\ Made(r.of, r.t, calls, forget)
    BY <1>2, <1>3, WalkSends
  <1>5. Live(r) => Onward(job[r.t], j)
    BY <1>2, OverOnward
  <1>6. {Command(r.t, r.of, "clear", {}, S), Command(r.t, r.of, "forget", {}, S)} = clear \cup forget
    OBVIOUS
  <1>7. Serve(r, db, aux, F, j)
    BY <1>1, <1>6
  <1> HIDE DEF S, clear, forget, j
  <1>8. Made(r.of, r.t, calls, F)
    BY <1>4, MadeUnion
  <1> HIDE DEF F
  <1> QED BY <1>2, <1>3, <1>5, <1>7, <1>8, RowsStay, WalkKeeps

LEMMA ValkeyScannedToClearKeeps == ASSUME CallsInv, ValkeyScannedToClear PROVE IInv'
  <1>0. PICK r \in Vk("scan to clear") : \E S :
           Serve(r, db, aux,
                 IF r.with[2] < Len(Names) THEN {Command(r.t, r.of, "scan to clear", {}, <<S, r.with[2] + 1>>)}
                 ELSE IF S = {} THEN {} ELSE {Command(r.t, r.of, "clear", {}, S)},
                 job[r.t])
    BY Zenon DEF ValkeyScannedToClear
  <1>1. PICK S :
           Serve(r, db, aux,
                 IF r.with[2] < Len(Names) THEN {Command(r.t, r.of, "scan to clear", {}, <<S, r.with[2] + 1>>)}
                 ELSE IF S = {} THEN {} ELSE {Command(r.t, r.of, "clear", {}, S)},
                 job[r.t])
    BY <1>0
  <1> DEFINE F == IF r.with[2] < Len(Names) THEN {Command(r.t, r.of, "scan to clear", {}, <<S, r.with[2] + 1>>)}
                  ELSE IF S = {} THEN {} ELSE {Command(r.t, r.of, "clear", {}, S)}
  <1>2. r \in flight /\ r.do = "scan to clear"
    BY <1>0, VkIn
  <1>3. r.do \in Walking /\ "clear" \in Walking /\ "scan to clear" \in Walking
    BY <1>2 DEF Walking
  <1>4. Made(r.of, r.t, calls, F)
    BY <1>2, <1>3, WalkSends
  <1> HIDE DEF F
  <1>5. Serve(r, db, aux, F, job[r.t])
    BY <1>1 DEF F
  <1> QED BY <1>2, <1>3, <1>4, <1>5, RowsStay, StaysOnward, WalkKeeps

LEMMA ValkeyRejectedKeeps == ASSUME CallsInv, ValkeyRejected PROVE IInv'
  <1>1. ASSUME NEW do, NEW r \in Failing(Valkey, do), Reject(r, db) PROVE IInv'
    BY <1>1, ServedIn, RowsStay, RejectKeeps DEF Reject
  <1>2. ASSUME NEW do, NEW r \in Vk(do), Reject(r, db) PROVE IInv'
    BY <1>2, VkIn, RowsStay, RejectKeeps DEF Reject
  <1>3. ASSUME NEW r \in Failing(Valkey, "delete"),
               NEW d \in IF OneMaster(SlotsAt(r.of, r.at)) THEN Outcomes(r, Drop(db, SlotsAt(r.of, r.at))) ELSE {db},
               RejectWith(r, d, IF d = db THEN aux ELSE Without(SlotsAt(r.of, r.at)))
        PROVE  IInv'
    <2>1. r \in flight
      BY ServedIn
    <2>2. Outcomes(r, Drop(db, SlotsAt(r.of, r.at))) \subseteq [Slots -> Rows]
      BY DroppedRows, OutcomeRows
    <2>3. d \in [Slots -> Rows]
      BY <2>2, RowsStay
    <2> DEFINE a == IF d = db THEN aux ELSE Without(SlotsAt(r.of, r.at))
    <2>4. a.cluster = aux.cluster
      BY IndexOnly
    <2> HIDE DEF a
    <2>5. RejectWith(r, d, a)
      BY <1>3 DEF a
    <2> QED BY <2>1, <2>3, <2>4, <2>5, RejectKeeps
  <1>4. ASSUME NEW r \in Failing(Valkey, "clear"),
               NEW d \in IF OneMaster(r.with) THEN Outcomes(r, Drop(db, r.with)) ELSE {db}, Reject(r, d)
        PROVE  IInv'
    <2>1. r \in flight
      BY ServedIn
    <2>2. Outcomes(r, Drop(db, r.with)) \subseteq [Slots -> Rows]
      BY DroppedRows, OutcomeRows
    <2>3. d \in [Slots -> Rows]
      BY <2>2, RowsStay
    <2> QED BY <1>4, <2>1, <2>3, RejectKeeps DEF Reject
  <1>5. CASE \E do \in {"read", "members", "scan", "scan to clear", "mget", "forget"} :
               \E r \in Failing(Valkey, do) : Reject(r, db)
    BY <1>1, <1>5
  <1>6. CASE \E r \in {r \in Vk("read") : r.at = {}} \cup {r \in Vk("delete") : ~OneMaster(SlotsAt(r.of, r.at))}
                    \cup {r \in Vk("clear") : ~OneMaster(r.with)} : Reject(r, db)
    <2>1. PICK r \in Vk("read") \cup Vk("delete") \cup Vk("clear") : Reject(r, db)
      BY <1>6
    <2> QED BY <1>2, <2>1
  <1>7. CASE \E r \in Failing(Valkey, "delete") :
               \E d \in IF OneMaster(SlotsAt(r.of, r.at)) THEN Outcomes(r, Drop(db, SlotsAt(r.of, r.at))) ELSE {db} :
                  RejectWith(r, d, IF d = db THEN aux ELSE Without(SlotsAt(r.of, r.at)))
    BY <1>3, <1>7, Zenon
  <1>8. CASE \E r \in Failing(Valkey, "clear") :
               \E d \in IF OneMaster(r.with) THEN Outcomes(r, Drop(db, r.with)) ELSE {db} : Reject(r, d)
    BY <1>4, <1>8, Zenon
  <1> QED BY <1>5, <1>6, <1>7, <1>8, Zenon DEF ValkeyRejected

LEMMA ValkeyNextKeeps == ASSUME CallsInv, ValkeyNext PROVE IInv'
  <1>1. ASSUME adapter = "valkey", NEW t \in Tasks, NewCall(t, ValkeyCall) PROVE IInv'
    <2>1. PICK op \in Ops[t], ns \in Namespaces, ks \in Batches :
             /\ (op \in SingleOps <=> Len(ks) = 1) /\ (op \notin KeyOps => ks = <<>>)
             /\ \E live \in IF op \in WriteOps THEN Lives[adapter] ELSE {None} : ValkeyCall(t, NewJob(op, ns, ks, live))
      BY <1>1 DEF NewCall
    <2>2. PICK live \in IF op \in WriteOps THEN Lives[adapter] ELSE {None} : ValkeyCall(t, NewJob(op, ns, ks, live))
      BY <2>1
    <2> DEFINE j == NewJob(op, ns, ks, live)
    <2>3. j.op = op
      BY NewJobOp
    <2> HIDE DEF j
    <2>4. j.op \in KeyOps \cup WalkOps
      <3>1. j.op \in {"get", "has", "getMany", "hasMany", "set", "setMany", "delete", "deleteMany", "clear",
                      "iterator", "disconnect"}
        BY <2>2 DEF ValkeyCall, ValkeyGet, ValkeyHas, ValkeyGetMany, ValkeyHasMany, ValkeySet, ValkeySetMany,
                    ValkeyDelete, ValkeyDeleteMany, ValkeyClear, ValkeyIterator, ValkeyDisconnect, j
      <3> QED BY <3>1, OpSets
    <2>5. Fresh(j, t, calls + 1)
      BY <2>1, <2>3, <2>4, CallFresh DEF j
    <2>6. ValkeyCall(t, j)
      BY <2>2 DEF j
    <2> QED BY <1>1, <2>5, <2>6, ValkeyCallKeeps
  <1>2. CASE ValkeyForgotten
    <2>1. PICK r \in Vk("forget") : Serve(r, db, [aux EXCEPT !.index = @ \ r.with], {}, job[r.t])
      BY <1>2 DEF ValkeyForgotten
    <2> DEFINE a == [aux EXCEPT !.index = @ \ r.with]
    <2>2. r \in flight /\ r.do = "forget" /\ a.cluster = aux.cluster
      BY <2>1, VkIn
    <2> HIDE DEF a
    <2>3. r.do \in Walking /\ Serve(r, db, a, {}, job[r.t])
      BY <2>1, <2>2 DEF Walking, a
    <2> QED BY <2>2, <2>3, WalkSends, RowsStay, StaysOnward, WalkKeeps
  <1>3. CASE ValkeyCleared
    <2>1. PICK r \in Vk("clear") : Serve(r, Drop(db, r.with), aux, {}, job[r.t])
      BY <1>3 DEF ValkeyCleared
    <2>2. r \in flight /\ r.do = "clear"
      BY <2>1, VkIn
    <2>3. r.do \in Walking
      BY <2>2 DEF Walking
    <2> QED BY <2>1, <2>2, <2>3, ClearedKeeps
  <1>4. CASE ValkeyScanned
    <2>0. PICK r \in Vk("scan") : \E ks :
             Serve(r, db, aux, AfterPage(r, ks), job[r.t])
      BY <1>4, Zenon DEF ValkeyScanned
    <2>1. PICK ks :
             Serve(r, db, aux, AfterPage(r, ks), job[r.t])
      BY <2>0
    <2>2. r \in flight /\ r.do = "scan"
      BY <2>0, VkIn
    <2> QED BY <2>1, <2>2, ScannedKeeps
  <1>5. CASE ValkeyYields
    <2>1. PICK r \in Vk("mget") :
             Serve(r, db, aux, NextPage(r, r.with[2]), Yielded(job[r.t], r.with[1]))
      BY <1>5, Zenon DEF ValkeyYields
    <2>2. r \in flight /\ r.do = "mget"
      BY <2>1, VkIn
    <2> QED BY <2>1, <2>2, YieldsKeep
  <1>6. CASE ValkeyTimedOut
    BY <1>6, TimedOutKeeps DEF ValkeyTimedOut
  <1> QED BY <1>1, <1>2, <1>3, <1>4, <1>5, <1>6, ValkeyReadKeeps, ValkeyWrittenKeeps, ValkeyNotWrittenKeeps,
             ValkeyDeletedKeeps, ValkeyMembersKeeps, ValkeyScannedToClearKeeps, ValkeyRejectedKeeps DEF ValkeyNext

---------------------------------------------------------------------------
(* Every behaviour *)

LEMMA InitKeeps == ASSUME Init PROVE IInv
  <1>1. /\ adapter \in Adapters /\ now = 0 /\ calls = 0 /\ job = [t \in Tasks |-> Idle] /\ flight = {} /\ reply = Idle
        /\ aux.cluster = (adapter \in Clusters) /\ db \in [Slots -> {None, [val |-> Original, exp |-> 1]}]
    BY DEF Init, CallsInit, RedisInit
  <1>2. [val |-> Original, exp |-> 1] \in Rows /\ None \in Rows
    <2>1. Original \in Values
      BY CallsAssumption DEF Original, Values
    <2> QED BY <2>1, RowsOf DEF Rows
  <1>3. Types
    <2>1. db \in [Slots -> Rows]
      BY <1>1, <1>2
    <2>2. MaxTime[adapter] \in Nat /\ MaxCalls \in Nat
      BY <1>1, CallsAssumption
    <2> QED BY <1>1, <2>1, <2>2 DEF Types
  <1>4. \A t \in Tasks : TaskOK(t)
    BY <1>1 DEF TaskOK
  <1>5. Promises
    BY <1>1 DEF Promises, ReadsCurrent, EffectsReported, WritesReported, TruesWritten, DeletesReported, Ended
  <1> QED BY <1>1, <1>3, <1>4, <1>5 DEF IInv, CallsInv

LEMMA StutterKeeps == ASSUME IInv, UNCHANGED vars PROVE IInv'
  <1>1. adapter' = adapter /\ now' = now /\ db' = db /\ aux' = aux /\ calls' = calls /\ job' = job
        /\ flight' = flight /\ reply' = reply /\ seen' = seen
    BY DEF vars
  <1>2. Types'
    BY <1>1 DEF IInv, CallsInv, Types
  <1>3. (\A r \in flight : CommandOK(r, adapter, calls, now))'
    BY <1>1 DEF IInv, CallsInv
  <1>4. ASSUME NEW t \in Tasks PROVE TaskOK(t)'
    BY <1>1 DEF IInv, CallsInv, TaskOK
  <1>5. Promises'
    BY <1>1 DEF IInv, Promises, ReadsCurrent, EffectsReported, WritesReported, TruesWritten, DeletesReported, Ended,
                Sure, Held
  <1> QED BY <1>2, <1>3, <1>4, <1>5 DEF IInv, CallsInv

\* The invariant holds in every behaviour of the adapters of redis, keydb and valkey.
THEOREM Invariance == Spec => []IInv
  <1>1. Init => IInv
    BY InitKeeps
  <1>2. IInv /\ [Next]_vars => IInv'
    <2>1. ASSUME IInv, Next PROVE IInv'
      BY <2>1, RedisNextKeeps, KeydbNextKeeps, ValkeyNextKeeps, TickKeeps DEF Next, IInv
    <2> QED BY <2>1, StutterKeeps
  <1> QED BY <1>1, <1>2, PTL DEF Spec

\* Every answer of get, getMany, has and hasMany is what its key held at some moment of
\* the call, at the position of the key, although a cluster's masters answer a batch
\* one by one (index.ts of redis, keydb and valkey).
THEOREM ReadsStayCurrent == Spec => []ReadsCurrent
  <1>1. IInv => ReadsCurrent
    BY DEF IInv, Promises
  <1> QED BY <1>1, Invariance, PTL

\* set, setMany, delete and deleteMany answer true for what became so, and for no
\* other; unless a TTL is given to valkey that its transactions do not take.
THEOREM EffectsStayReported == ASSUME Timely PROVE Spec => []EffectsReported
  <1>1. IInv => EffectsReported
    BY DEF IInv, Promises
  <1> QED BY <1>1, Invariance, PTL

\* In a cluster no command names keys of two masters; but for valkey's deleteMany,
\* whose chunks are not grouped by them.
THEOREM OneSlotKept == ASSUME "valkey" \notin Clusters PROVE Spec => []OneSlot
  <1>1. IInv => OneSlot
    <2> SUFFICES ASSUME IInv, aux.cluster, NEW r \in flight
                 PROVE  \A i, m \in r.at : MasterOf[r.of.keys[i]] = MasterOf[r.of.keys[m]]
      BY DEF OneSlot
    <2>1. adapter \in Clusters /\ CommandOK(r, adapter, calls, now)
      BY DEF IInv, CallsInv, Types
    <2> QED BY <2>1 DEF CommandOK, Alike
  <1> QED BY <1>1, Invariance, PTL

\* The state of every adapter of the Redis family is one that StorageCalls describes:
\* a call that is waited for has something in flight, and each command its call.
THEOREM TypeCorrect == Spec => []TypeOK
  <1>1. IInv => TypeOK
    <2> SUFFICES ASSUME IInv PROVE TypeOK
      OBVIOUS
    <2>1. Types /\ (\A r \in flight : CommandOK(r, adapter, calls, now)) /\ \A t \in Tasks : TaskOK(t)
      BY DEF IInv, CallsInv
    <2>2. ASSUME NEW r \in flight PROVE r.t \in Tasks /\ r.c \in {0, r.of.c} /\ r.of.c \in 1..calls
      BY <2>1 DEF CommandOK, OfOK
    <2>3. ASSUME NEW t \in Tasks, job[t] # Idle
          PROVE  job[t].op \in Ops[t] /\ job[t].c \in 1..calls /\ Mine(flight, t, job[t].c) # {}
      <3>1. OfOK(Of(job[t]), adapter, calls, now) /\ job[t].op \in Ops[t] /\ Mine(flight, t, job[t].c) # {}
        BY <2>1, <2>3 DEF TaskOK
      <3>2. Of(job[t]).c = job[t].c
        BY DEF Of
      <3> QED BY <3>1, <3>2 DEF OfOK
    <2> QED BY <2>1, <2>2, <2>3 DEF TypeOK, Types
  <1> QED BY <1>1, Invariance, PTL

---------------------------------------------------------------------------
(* Walks *)

\* The calls that go through a namespace.
Walks == {"clear", "iterator"}

\* The keys of Names from position p on.
From(p) == {Names[q] : q \in {q \in DOMAIN Names : q >= p}}

\* Command r of a walk, or one that follows it, has yet to come to key s of the namespace.
Due(r, a, s) ==
    /\ s \in In(r.of.ns)
    /\ \/ r.do \in {"connect", "members"}
       \/ r.do = "scan" /\ s[2] \in From(r.with)
       \/ r.do = "mget" /\ (s \in Page(r.of.ns, r.with[1]) \/ s[2] \in From(r.with[2] + 1))
       \/ r.do = "scan to clear" /\ a = "valkey" /\ (s \in r.with[1] \/ s[2] \in From(r.with[2]))
       \/ /\ r.do = "scan to clear" /\ a # "valkey" /\ s[2] \in From(r.with[2])
          /\ r.with[1] \in Masters => MasterOf[s[2]] = r.with[1]
       \/ r.do = "clear" /\ s \in r.with

\* How a command of a walk is made.
PaceOK(r) ==
    /\ r.do \in {"scan", "mget"} => r.of.op = "iterator"
    /\ r.do \in {"scan to clear", "members", "clear"} => r.of.op = "clear"
    /\ r.do = "scan" => r.with \in Nat \ {0}
    /\ r.do = "mget" => r.with[1] \in Seq(Keys) /\ r.with[2] \in Nat \ {0}
    /\ r.do = "scan to clear" => r.with[2] \in Nat \ {0}

Entry      == [key : Keys, val : Values \cup {None}]
Yields(j)  == {j.out[i] : i \in DOMAIN j.out}

\* A walk that saw H and has F in flight has passed nothing that was there all the time.
Walked(j, F, a, H) ==
    /\ j.op = "clear" =>
          \A s \in j.over : s \in In(j.ns) /\ (None \in H[s] \/ \E r \in F : Due(r, a, s))
    /\ j.op = "iterator" =>
          /\ j.out \in Seq(Entry) /\ \A e \in Yields(j) : e.val \in H[<<j.ns, e.key>>]
          /\ \A s \in In(j.ns) :
                \/ None \in H[s] \/ \E e \in Yields(j) : e.key = s[2]
                \/ \E r \in F : Due(r, a, s)

WalkOK(t) == job[t] # Idle => Walked(job[t], Mine(flight, t, job[t].c), adapter, seen[t])

WInv == (\A r \in flight : PaceOK(r)) /\ (\A t \in Tasks : WalkOK(t)) /\ WalksComplete

---------------------------------------------------------------------------
(* Names, pages and walks *)

LEMMA NamesAre ==
    /\ DOMAIN Names = 1..Len(Names) /\ Len(Names) \in Nat /\ From(1) = Keys
    /\ \A p \in Nat \ {0} : From(p) \subseteq From(p + 1) \cup {Names[q] : q \in DOMAIN Names \cap {p}}
    /\ \A p \in Nat : p >= Len(Names) => From(p + 1) = {}
  <1>1. DOMAIN Names = 1..Len(Names) /\ Len(Names) \in Nat
    BY CallsAssumption
  <1>2. From(1) = Keys
    BY <1>1 DEF From, Keys
  <1>3. ASSUME NEW p \in Nat \ {0}, NEW q \in DOMAIN Names, q >= p PROVE q >= p + 1 \/ q \in DOMAIN Names \cap {p}
    BY <1>1, <1>3
  <1>4. \A p \in Nat : p >= Len(Names) => From(p + 1) = {}
    BY <1>1 DEF From
  <1> QED BY <1>1, <1>2, <1>3, <1>4 DEF From

LEMMA LastPage == ASSUME NEW p \in Nat \ {0} PROVE p < Len(Names) \/ From(p + 1) = {}
  <1>1. Len(Names) \in Nat /\ (p >= Len(Names) => From(p + 1) = {})
    BY NamesAre
  <1> QED BY <1>1

LEMMA PageOf ==
    ASSUME NEW ns \in Namespaces, NEW m, NEW p \in Nat \ {0}, NEW ks \in Scan(ns, m, p)
    PROVE  /\ ks \in Seq(Keys)
           /\ \A s \in In(ns) : \/ s \in Page(ns, ks) \/ ~There(s) \/ s[2] \in From(p + 1)
                                \/ s[2] \notin From(p) \/ ~(m \in Masters => MasterOf[s[2]] = m)
  <1> DEFINE ok(q) == q \in DOMAIN Names /\ There(<<ns, Names[q]>>) /\ (m \in Masters => MasterOf[Names[q]] = m)
             at(q) == IF ok(q) THEN <<Names[q]>> ELSE <<>>
  <1>1. ks \in {at(p)} \cup {at(p) \o at(q) : q \in 1..(p - 1)}
    BY DEF Scan
  <1>2. \A q : at(q) \in Seq(Keys)
    <2>1. \A q \in DOMAIN Names : Names[q] \in Keys
      BY DEF Keys
    <2> QED BY <2>1
  <1> HIDE DEF ok
  <1>3. ks \in Seq(Keys) /\ (ok(p) => 1 \in DOMAIN ks /\ ks[1] = Names[p])
    <2> DEFINE is(k) == k \in Seq(Keys) /\ (ok(p) => 1 \in DOMAIN k /\ k[1] = Names[p])
    <2>1. is(at(p))
      BY <1>2
    <2>2. ASSUME NEW q PROVE is(at(p) \o at(q))
      <3>1. at(p) \in Seq(Keys) /\ at(q) \in Seq(Keys) /\ (ok(p) => at(p) = <<Names[p]>>)
        BY <1>2
      <3> HIDE DEF at
      <3> QED BY <3>1
    <2> HIDE DEF at, is
    <2>3. is(ks)
      BY <1>1, <2>1, <2>2
    <2> QED BY <2>3 DEF is
  <1>4. ASSUME NEW s \in In(ns), s[2] \in From(p), s[2] \notin From(p + 1), There(s),
               m \in Masters => MasterOf[s[2]] = m
        PROVE  s \in Page(ns, ks)
    <2>1. s = <<ns, s[2]>>
      BY DEF In, Slots
    <2>2. p \in DOMAIN Names /\ s[2] = Names[p]
      BY <1>4, NamesAre
    <2>3. ok(p)
      BY <1>4, <2>1, <2>2 DEF ok
    <2> QED BY <1>3, <2>1, <2>2, <2>3 DEF Page
  <1> QED BY <1>3, <1>4

\* A walk that saw more, or has more in flight, has passed no more.
LEMMA WalkedGrows ==
    ASSUME NEW j, j.ns \in Namespaces, NEW F, NEW E, NEW a, NEW H, NEW G, F \subseteq E,
           \A s \in Slots : H[s] \subseteq G[s], Walked(j, F, a, H)
    PROVE  Walked(j, E, a, G)
  <1>1. \A s \in In(j.ns) : s \in Slots
    BY DEF In
  <1>2. j.op = "iterator" => \A e \in Yields(j) : <<j.ns, e.key>> \in Slots
    <2> SUFFICES ASSUME j.op = "iterator", NEW e \in Yields(j) PROVE <<j.ns, e.key>> \in Slots
      OBVIOUS
    <2>1. j.out \in Seq(Entry)
      BY DEF Walked
    <2>2. e \in Entry
      BY <2>1 DEF Yields
    <2> QED BY <2>2 DEF Entry, Slots
  <1>3. j.op = "clear" => \A s \in j.over : s \in In(j.ns) /\ (None \in G[s] \/ \E r \in E : Due(r, a, s))
    BY <1>1 DEF Walked
  <1>4. j.op = "iterator" =>
          /\ j.out \in Seq(Entry) /\ \A e \in Yields(j) : e.val \in G[<<j.ns, e.key>>]
          /\ \A s \in In(j.ns) :
                \/ None \in G[s] \/ \E e \in Yields(j) : e.key = s[2]
                \/ \E r \in E : Due(r, a, s)
    <2> SUFFICES ASSUME j.op = "iterator"
                 PROVE  /\ j.out \in Seq(Entry) /\ \A e \in Yields(j) : e.val \in G[<<j.ns, e.key>>]
                        /\ \A s \in In(j.ns) :
                              \/ None \in G[s] \/ \E e \in Yields(j) : e.key = s[2]
                              \/ \E r \in E : Due(r, a, s)
      OBVIOUS
    <2>1. /\ j.out \in Seq(Entry) /\ \A e \in Yields(j) : e.val \in H[<<j.ns, e.key>>]
          /\ \A s \in In(j.ns) :
                \/ None \in H[s] \/ \E e \in Yields(j) : e.key = s[2]
                \/ \E r \in F : Due(r, a, s)
      BY DEF Walked
    <2> QED BY <1>1, <1>2, <2>1
  <1> QED BY <1>3, <1>4 DEF Walked

\* A walk that ends has been everywhere.
LEMMA WalkedDone ==
    ASSUME NEW k, NEW a, NEW H, Walked(k, {}, a, H), reply' = [job |-> k, seen |-> H] PROVE WalksComplete'
  <1>1. reply'.job = k /\ reply'.seen = H /\ \A ops : Ended(ops)' => k.op \in ops
    BY DEF Ended
  <1>2. ClearComplete'
    BY <1>1 DEF ClearComplete, Walked
  <1>3. IterationComplete'
    <2> SUFFICES ASSUME k.op = "iterator"
                 PROVE  /\ \A i \in DOMAIN k.out : k.out[i].val \in H[<<k.ns, k.out[i].key>>]
                        /\ \A s \in In(k.ns) : None \notin H[s] => \E i \in DOMAIN k.out : k.out[i].key = s[2]
      BY <1>1 DEF IterationComplete
    <2> QED BY DEF Walked, Yields
  <1> QED BY <1>2, <1>3 DEF WalksComplete

LEMMA NoWalkEnds == ASSUME reply' = Idle \/ reply'.job.failed \/ reply'.job.op \notin Walks PROVE WalksComplete'
  BY DEF WalksComplete, ClearComplete, IterationComplete, Ended, Walks

LEMMA NoWalk == ASSUME NEW j, j.op \notin Walks, NEW F, NEW a, NEW H PROVE Walked(j, F, a, H)
  BY DEF Walked, Walks

---------------------------------------------------------------------------
(* What a step does to the walks *)

\* A walk that neither moves nor ends.
LEMMA OthersWalk ==
    ASSUME CallsInv, Witness, adapter' = adapter, NEW t \in Tasks, WalkOK(t), job'[t] = job[t],
           job[t] # Idle => Mine(flight, t, job[t].c) \subseteq Mine(flight', t, job[t].c)
    PROVE  WalkOK(t)'
  <1> SUFFICES ASSUME job[t] # Idle PROVE WalkOK(t)'
    BY DEF WalkOK
  <1> DEFINE j == job[t]
             H == seen[t]
             G == seen'[t]
             mine == Mine(flight, t, j.c)
             next == Mine(flight', t, j.c)
  <1>1. j.ns \in Namespaces
    <2>1. OfOK(Of(j), adapter, calls, now) /\ Of(j).ns = j.ns
      BY DEF CallsInv, TaskOK, Of
    <2> QED BY <2>1 DEF OfOK
  <1>2. G = More(H, Concerns(j), db', j.at, now')
    BY WitnessSeen
  <1>3. Walked(j, mine, adapter, H) /\ mine \subseteq next
    BY DEF WalkOK
  <1> HIDE DEF j, H, G, mine, next
  <1>4. \A s \in Slots : H[s] \subseteq G[s]
    BY <1>2 DEF More
  <1>5. Walked(j, next, adapter, G)
    BY <1>1, <1>3, <1>4, WalkedGrows
  <1> QED BY <1>5 DEF WalkOK, j, G, next

LEMMA WalksAssembled ==
    ASSUME \A r \in flight : PaceOK(r), \A r \in flight' : r \in flight \/ PaceOK(r),
           \A t \in Tasks : WalkOK(t)', WalksComplete'
    PROVE  WInv'
  BY DEF WInv

\* How command r of a walk leaves the rows d, the call j and the commands F that follow.
Strides(r, d, F, j) ==
    LET jt   == job[r.t]
        gone == {s \in In(r.of.ns) : None \in Looks(d[s], r.of.at, now)}
    IN  /\ r.of.op = "clear" =>
              \A s \in j.over :
                 /\ s \in In(r.of.ns)
                 /\ s \in gone \/ (s \in jt.over /\ ~Due(r, adapter, s)) \/ \E f \in F : Due(f, adapter, s)
        /\ r.of.op = "iterator" =>
              /\ jt.out \in Seq(Entry) => j.out \in Seq(Entry) /\ Yields(jt) \subseteq Yields(j)
              /\ \A e \in Yields(j) \ Yields(jt) : e.val \in Looks(d[<<r.of.ns, e.key>>], r.of.at, now)
              /\ \A s \in In(r.of.ns) :
                    \/ s \in gone \/ ~Due(r, adapter, s) \/ \E e \in Yields(j) : e.key = s[2]
                    \/ \E f \in F : Due(f, adapter, s)

Same(j, l) == IsJob(l) /\ Of(l) = Of(j)

LEMMA AfterIs ==
    ASSUME NEW r, NEW d, NEW j, IsJob(j)
    PROVE  LET k == After(r, d, j)
           IN  k.op = j.op /\ k.ns = j.ns /\ k.over = j.over /\ k.out = j.out /\ k.c = j.c
  BY DEF IsJob, Fields, After

\* The walk of command r has passed nothing when it goes on, or ends.
LEMMA Strode ==
    ASSUME CallsInv, NEW r \in flight, Live(r), WalkOK(r.t), r.of.op \in Walks, NEW d, NEW F,
           NEW j, Same(job[r.t], j), Strides(r, d, F, j)
    PROVE  Walked(After(r, d, j), (Mine(flight, r.t, r.c) \ {r}) \cup F, adapter, Sights(r, d, j))
  <1> DEFINE k == After(r, d, j)
             G == Sights(r, d, j)
             H == seen[r.t]
             jt == job[r.t]
             mine == Mine(flight, r.t, r.c)
             next == (mine \ {r}) \cup F
             gone == {s \in In(r.of.ns) : None \in Looks(d[s], r.of.at, now)}
  <1>1. r.of = Of(jt) /\ Of(j) = Of(jt) /\ jt # Idle /\ jt.c = r.c /\ OfOK(r.of, adapter, calls, now)
    BY LiveCall DEF Live, Same
  <1>2. k.op = j.op /\ k.ns = j.ns /\ k.over = j.over /\ k.out = j.out
    BY AfterIs DEF Same
  <1>3. /\ j.op = r.of.op /\ j.ns = r.of.ns /\ j.at = r.of.at /\ jt.op = r.of.op /\ jt.ns = r.of.ns
        /\ r.of.ns \in Namespaces
    BY <1>1 DEF Of, OfOK
  <1>4. Concerns(j) = Slots
    BY <1>3 DEF Concerns, Walks, KeyOps, ReadOps, HasOps, WriteOps, DeleteOps
  <1>5. \A s \in Slots : G[s] = H[s] \cup Looks(d[s], r.of.at, now)
    BY <1>3, <1>4 DEF Sights, More
  <1>6. Walked(jt, mine, adapter, H)
    BY <1>1 DEF WalkOK
  <1>7. /\ r.of.op = "clear" =>
              \A s \in j.over :
                 /\ s \in In(r.of.ns)
                 /\ s \in gone \/ (s \in jt.over /\ ~Due(r, adapter, s)) \/ \E f \in F : Due(f, adapter, s)
        /\ r.of.op = "iterator" =>
              /\ jt.out \in Seq(Entry) => j.out \in Seq(Entry) /\ Yields(jt) \subseteq Yields(j)
              /\ \A e \in Yields(j) \ Yields(jt) : e.val \in Looks(d[<<r.of.ns, e.key>>], r.of.at, now)
              /\ \A s \in In(r.of.ns) :
                    \/ s \in gone \/ ~Due(r, adapter, s) \/ \E e \in Yields(j) : e.key = s[2]
                    \/ \E f \in F : Due(f, adapter, s)
    BY DEF Strides
  <1>8. (\A s \in In(r.of.ns) : s \in Slots) /\ Yields(k) = Yields(j)
    BY <1>2 DEF In, Yields
  <1>9. \A s \in gone : s \in Slots /\ None \in G[s]
    BY <1>5, <1>8
  <1>10. \A s : ~Due(r, adapter, s) /\ (\E q \in mine : Due(q, adapter, s)) => \E q \in next : Due(q, adapter, s)
    OBVIOUS
  <1> HIDE DEF k, G, H, jt, mine, gone
  <1>11. CASE r.of.op = "clear"
    <2>1. ASSUME NEW s \in j.over PROVE s \in In(k.ns) /\ (None \in G[s] \/ \E q \in next : Due(q, adapter, s))
      <3>1. s \in In(r.of.ns) /\ s \in Slots
        BY <1>7, <1>8, <1>11
      <3>2. s \in jt.over => None \in H[s] \/ \E q \in mine : Due(q, adapter, s)
        BY <1>3, <1>6, <1>11 DEF Walked
      <3>3. None \in H[s] => None \in G[s]
        BY <1>5, <3>1
      <3>4. s \in gone \/ (s \in jt.over /\ ~Due(r, adapter, s)) \/ \E f \in F : Due(f, adapter, s)
        BY <1>7, <1>11
      <3>5. (\E f \in F : Due(f, adapter, s)) => \E q \in next : Due(q, adapter, s)
        OBVIOUS
      <3>6. (s \in gone => None \in G[s]) /\ k.ns = r.of.ns
        BY <1>2, <1>3, <1>9
      <3>7. ~Due(r, adapter, s) /\ (\E q \in mine : Due(q, adapter, s)) => \E q \in next : Due(q, adapter, s)
        BY <1>10
      <3> HIDE DEF next
      <3> QED BY <3>1, <3>2, <3>3, <3>4, <3>5, <3>6, <3>7
    <2>2. Walked(k, next, adapter, G)
      BY <1>2, <1>3, <1>11, <2>1 DEF Walked
    <2> QED BY <2>2 DEF k, G, mine
  <1>12. CASE r.of.op = "iterator"
    <2>1. /\ jt.out \in Seq(Entry) /\ \A e \in Yields(jt) : e.val \in H[<<r.of.ns, e.key>>]
          /\ \A s \in In(r.of.ns) :
                None \in H[s] \/ (\E e \in Yields(jt) : e.key = s[2]) \/ \E q \in mine : Due(q, adapter, s)
      BY <1>3, <1>6, <1>12 DEF Walked
    <2>2. j.out \in Seq(Entry) /\ Yields(jt) \subseteq Yields(j)
      BY <1>7, <1>12, <2>1
    <2>3. ASSUME NEW e \in Yields(j) PROVE e.val \in G[<<r.of.ns, e.key>>]
      <3>1. e \in Entry
        BY <2>2 DEF Yields
      <3>2. <<r.of.ns, e.key>> \in Slots
        BY <1>3, <3>1 DEF Entry, Slots
      <3> QED BY <1>5, <1>7, <1>12, <2>1, <3>2
    <2>4. ASSUME NEW s \in In(r.of.ns)
          PROVE  None \in G[s] \/ (\E e \in Yields(j) : e.key = s[2]) \/ \E q \in next : Due(q, adapter, s)
      <3>1. None \in H[s] => None \in G[s]
        BY <1>5, <1>8
      <3>2. s \in gone \/ ~Due(r, adapter, s) \/ (\E e \in Yields(j) : e.key = s[2]) \/ \E f \in F : Due(f, adapter, s)
        BY <1>7, <1>12
      <3>3. (\E f \in F : Due(f, adapter, s)) => \E q \in next : Due(q, adapter, s)
        OBVIOUS
      <3>4. s \in gone => None \in G[s]
        BY <1>9
      <3>5. ~Due(r, adapter, s) /\ (\E q \in mine : Due(q, adapter, s)) => \E q \in next : Due(q, adapter, s)
        BY <1>10
      <3>6. None \in H[s] \/ (\E e \in Yields(j) : e.key = s[2]) \/ \E q \in mine : Due(q, adapter, s)
        BY <2>1, <2>2
      <3> HIDE DEF next
      <3> QED BY <3>1, <3>2, <3>3, <3>4, <3>5, <3>6
    <2>5. Walked(k, next, adapter, G)
      BY <1>2, <1>3, <1>8, <1>12, <2>2, <2>3, <2>4 DEF Walked
    <2> QED BY <2>5 DEF k, G, mine
  <1> QED BY <1>11, <1>12 DEF Walks, k, G, mine

\* Command r is served, and the walk goes on or is over.
LEMMA WalkServed ==
    ASSUME CallsInv, WInv, NEW r \in flight, NEW d, NEW a, NEW F, \A f \in F : f.t = r.t /\ f.c = r.c /\ PaceOK(f),
           NEW j, Live(r) => Same(job[r.t], j) /\ Strides(r, d, F, j), Serve(r, d, a, F, j)
    PROVE  WInv'
  <1> DEFINE k == After(r, d, j)
             G == Sights(r, d, j)
             t == r.t
             next == Mine(flight', t, r.c)
  <1>1. /\ db' = d /\ adapter' = adapter /\ now' = now /\ Witness /\ flight' = (flight \ {r}) \cup F
        /\ t \in Tasks /\ job = [u \in Tasks |-> job[u]] /\ \A u \in Tasks : WalkOK(u)
    BY DEF Serve, Step, CallsInv, CommandOK, Types, WInv
  <1>2. \A q \in flight : PaceOK(q)
    BY DEF WInv
  <1>3. \A q \in flight' : q \in flight \/ PaceOK(q)
    BY <1>1
  <1>4. ASSUME NEW u \in Tasks, ~Live(r) \/ u # t, job'[u] = job[u] PROVE WalkOK(u)'
    <2>1. job[u] # Idle => Mine(flight, u, job[u].c) \subseteq Mine(flight', u, job[u].c)
      BY <1>1, <1>4 DEF Mine, Live
    <2> QED BY <1>1, <1>4, <2>1, OthersWalk
  <1>5. CASE ~Live(r)
    <2>1. reply' = Idle /\ job' = job
      BY <1>5 DEF Serve, Step
    <2>2. \A u \in Tasks : WalkOK(u)'
      BY <1>4, <1>5, <2>1
    <2> QED BY <1>2, <1>3, <2>1, <2>2, NoWalkEnds, WalksAssembled
  <1>6. ASSUME Live(r) PROVE Walked(k, next, adapter, G) /\ k.c = r.c
    <2>1. k.op = j.op /\ k.c = j.c /\ Of(j) = Of(job[t]) /\ r.of = Of(job[t]) /\ r.c = r.of.c
      BY <1>6, AfterIs, LiveCall, InFlight DEF Same
    <2>2. k.op = r.of.op /\ k.c = r.c
      BY <2>1 DEF Of
    <2>3. CASE r.of.op \notin Walks
      BY <2>2, <2>3, NoWalk
    <2>4. CASE r.of.op \in Walks
      <3>1. Walked(k, (Mine(flight, t, r.c) \ {r}) \cup F, adapter, G)
        BY <1>1, <1>6, <2>4, Strode
      <3>2. (Mine(flight, t, r.c) \ {r}) \cup F = next
        BY <1>1 DEF Mine
      <3> QED BY <2>2, <3>1, <3>2
    <2> QED BY <2>3, <2>4, <2>2
  <1>7. CASE Live(r) /\ next # {}
    <2>1. reply' = Idle /\ job' = [job EXCEPT ![t] = k]
      BY <1>1, <1>7 DEF Serve, Step, After
    <2>2. job'[t] = k /\ \A u \in Tasks : u # t => job'[u] = job[u]
      BY <1>1, <2>1
    <2>3. WalkOK(t)'
      <3> SUFFICES ASSUME job'[t] # Idle PROVE WalkOK(t)'
        BY DEF WalkOK
      <3>1. seen'[t] = G
        <4>1. seen'[t] = More(seen[t], Concerns(k), d, k.at, now)
          BY <1>1, <1>7, <2>2, WitnessSeen DEF Live
        <4>2. Concerns(k) = Concerns(j) /\ k.at = j.at
          <5>1. /\ k.op = j.op /\ k.at = j.at /\ k.ns = j.ns /\ k.keys = j.keys
            BY <1>7 DEF Same, IsJob, Fields, After
          <5> QED BY <5>1 DEF Concerns
        <4> QED BY <4>1, <4>2 DEF Sights
      <3> QED BY <1>1, <1>6, <1>7, <2>2, <3>1 DEF WalkOK
    <2>4. \A u \in Tasks : WalkOK(u)'
      BY <1>4, <2>2, <2>3
    <2> QED BY <1>2, <1>3, <2>1, <2>4, NoWalkEnds, WalksAssembled
  <1>8. CASE Live(r) /\ next = {}
    <2>1. reply' = [job |-> k, seen |-> G] /\ job' = [job EXCEPT ![t] = Idle]
      BY <1>1, <1>8 DEF Serve, Step, After, Sights
    <2>2. job'[t] = Idle /\ \A u \in Tasks : u # t => job'[u] = job[u]
      BY <1>1, <2>1
    <2>3. \A u \in Tasks : WalkOK(u)'
      BY <1>4, <2>2 DEF WalkOK
    <2>4. WalksComplete'
      BY <1>6, <1>8, <2>1, WalkedDone
    <2> QED BY <1>2, <1>3, <2>3, <2>4, WalksAssembled
  <1> QED BY <1>5, <1>7, <1>8

\* The call of r rejects, or ends with an error that is caught.
LEMMA WalkEnds ==
    ASSUME CallsInv, WInv, NEW r \in flight, NEW d, NEW a,
           \/ RejectWith(r, d, a) \/ Finish(r, d, a, Failed(job[r.t])) \/ Finish(r, d, a, Answers(job[r.t], FALSE))
    PROVE  WInv'
  <1>1. /\ adapter' = adapter /\ Witness /\ flight' = flight \ {r} /\ r.t \in Tasks
        /\ job' = (IF Live(r) THEN [job EXCEPT ![r.t] = Idle] ELSE job) /\ job = [u \in Tasks |-> job[u]]
    BY DEF RejectWith, Finish, Step, CallsInv, CommandOK, Types
  <1>2. reply' = Idle \/ reply'.job.failed
    <2>1. CASE RejectWith(r, d, a) \/ ~Live(r)
      BY <2>1 DEF RejectWith, Finish, Step
    <2>2. ASSUME Live(r), NEW j, IsJob(j), j.failed, Finish(r, d, a, j) PROVE reply'.job.failed
      <3>1. reply'.job = After(r, d, j)
        BY <2>2 DEF Finish, Step, After
      <3>2. After(r, d, j).failed = j.failed
        BY <2>2 DEF IsJob, Fields, After
      <3> QED BY <2>2, <3>1, <3>2
    <2>3. ASSUME Live(r)
          PROVE  /\ IsJob(Failed(job[r.t])) /\ Failed(job[r.t]).failed
                 /\ IsJob(Answers(job[r.t], FALSE)) /\ Answers(job[r.t], FALSE).failed
      BY <2>3, FailedFails, AnswersFail DEF IsJob, Fails
    <2> QED BY <2>1, <2>2, <2>3
  <1>3. ASSUME NEW u \in Tasks PROVE WalkOK(u)'
    <2>1. CASE Live(r) /\ u = r.t
      BY <1>1, <2>1 DEF WalkOK
    <2>2. CASE ~Live(r) \/ u # r.t
      <3>1. job'[u] = job[u]
        BY <1>1, <2>2
      <3>2. job[u] # Idle => Mine(flight, u, job[u].c) \subseteq Mine(flight', u, job[u].c)
        BY <1>1, <2>2 DEF Mine, Live
      <3> QED BY <1>1, <3>1, <3>2, OthersWalk DEF WInv
    <2> QED BY <2>1, <2>2
  <1>4. (\A q \in flight : PaceOK(q)) /\ \A q \in flight' : q \in flight
    BY <1>1 DEF WInv
  <1> QED BY <1>2, <1>3, <1>4, NoWalkEnds, WalksAssembled

\* A step that serves no command: time passes, or a call gives up waiting.
LEMMA WalkWaits ==
    ASSUME CallsInv, WInv, adapter' = adapter, Witness, flight' = flight, reply' = Idle,
           \A u \in Tasks : job'[u] \in {job[u], Idle}
    PROVE  WInv'
  <1>1. ASSUME NEW u \in Tasks PROVE WalkOK(u)'
    <2>1. CASE job'[u] = Idle
      BY <2>1 DEF WalkOK
    <2>2. CASE job'[u] = job[u]
      BY <2>2, OthersWalk DEF WInv
    <2> QED BY <2>1, <2>2
  <1>2. (\A q \in flight : PaceOK(q)) /\ \A q \in flight' : q \in flight
    BY DEF WInv
  <1> QED BY <1>1, <1>2, NoWalkEnds, WalksAssembled

LEMMA GiveUpWalks == ASSUME CallsInv, WInv, NEW t \in Tasks, GiveUp(t) PROVE WInv'
  <1>1. \A u \in Tasks : job'[u] \in {job[u], Idle}
    BY DEF GiveUp, CallsInv, Types
  <1> QED BY <1>1, WalkWaits DEF GiveUp

LEMMA TickWalks == ASSUME CallsInv, WInv, Tick PROVE WInv'
  BY WalkWaits DEF Tick

---------------------------------------------------------------------------
(* Commands that keep the pace *)

\* The commands that go nowhere.
Still == {"read", "set", "delete", "unrouted", "connect", "forget", "close"}

LEMMA StillPace == ASSUME NEW r, r.do \in Still PROVE PaceOK(r)
  BY Zenon DEF PaceOK, Still

LEMMA MadePace == ASSUME NEW j, NEW t, NEW n, j.op \in KeyOps, NEW F, Made(j, t, n, F) PROVE \A f \in F : PaceOK(f)
  <1> SUFFICES ASSUME NEW f \in F PROVE PaceOK(f)
    OBVIOUS
  <1>1. f.of.op = j.op /\ Fits(f.do, f.of.op)
    BY DEF Made, CommandOK, Of
  <1>2. f.do \in {"read", "set", "delete", "unrouted", "connect"}
    BY <1>1, OpsApart DEF Fits
  <1>3. f.do \in Still
    BY <1>2 DEF Still
  <1> QED BY <1>3, StillPace

\* Where a command of a walk is to come to.
LEMMA DueIs ==
    ASSUME NEW r, NEW a, NEW s
    PROVE  /\ Due(r, a, s) => s \in In(r.of.ns)
           /\ r.do \in {"connect", "members"} /\ s \in In(r.of.ns) => Due(r, a, s)
           /\ r.do = "scan" => (Due(r, a, s) <=> s \in In(r.of.ns) /\ s[2] \in From(r.with))
           /\ r.do = "mget" => (Due(r, a, s) <=> /\ s \in In(r.of.ns)
                                                 /\ s \in Page(r.of.ns, r.with[1]) \/ s[2] \in From(r.with[2] + 1))
           /\ r.do = "clear" => (Due(r, a, s) <=> s \in In(r.of.ns) /\ s \in r.with)
           /\ r.do \in {"forget", "close"} => ~Due(r, a, s)
  BY Zenon DEF Due

\* A scan to clear.
ToClear(r) == r.do = "scan to clear"

LEMMA DueToClear ==
    ASSUME NEW r, NEW a, NEW s, ToClear(r)
    PROVE  /\ a = "valkey" => (Due(r, a, s) <=> s \in In(r.of.ns) /\ (s \in r.with[1] \/ s[2] \in From(r.with[2])))
           /\ a # "valkey" => (Due(r, a, s) <=> /\ s \in In(r.of.ns) /\ s[2] \in From(r.with[2])
                                                /\ r.with[1] \in Masters => MasterOf[s[2]] = r.with[1])
  BY Zenon DEF Due, ToClear

LEMMA PaceIs ==
    ASSUME NEW r, PaceOK(r)
    PROVE  /\ r.do = "scan" => r.of.op = "iterator" /\ r.with \in Nat \ {0}
           /\ r.do = "mget" => r.of.op = "iterator" /\ r.with[1] \in Seq(Keys) /\ r.with[2] \in Nat \ {0}
           /\ r.do = "members" => r.of.op = "clear"
           /\ r.do = "clear" => r.of.op = "clear"
  BY Zenon DEF PaceOK

LEMMA PaceToClear ==
    ASSUME NEW r, PaceOK(r), ToClear(r) PROVE r.of.op = "clear" /\ r.with[2] \in Nat \ {0}
  BY Zenon DEF PaceOK, ToClear

LEMMA ScanPace ==
    ASSUME NEW r, r.of.op = "iterator",
           \/ r.do = "scan" /\ r.with \in Nat \ {0}
           \/ r.do = "mget" /\ r.with[1] \in Seq(Keys) /\ r.with[2] \in Nat \ {0}
    PROVE  PaceOK(r)
  BY Zenon DEF PaceOK

LEMMA ClearPace ==
    ASSUME NEW r, r.of.op = "clear",
           r.do \in {"clear", "members"} \/ (ToClear(r) /\ r.with[2] \in Nat \ {0})
    PROVE  PaceOK(r)
  BY Zenon DEF PaceOK, ToClear

\* A command that follows r.
LEMMA Follower ==
    ASSUME CallsInv, NEW r \in flight, NEW do, NEW with
    PROVE  LET f == Command(r.t, r.of, do, {}, with)
           IN  f.t = r.t /\ f.c = r.c /\ f.do = do /\ f.with = with /\ f.of = r.of
  BY CommandIs, InFlight

ScanOn(r, m, p) == Command(r.t, r.of, "scan to clear", {}, <<m, p + 1>>)

LEMMA ScansOn ==
    ASSUME CallsInv, NEW r \in flight, NEW m, NEW p, p \in Nat
    PROVE  LET f == ScanOn(r, m, p)
           IN  /\ f.t = r.t /\ f.c = r.c /\ f.of = r.of /\ ToClear(f) /\ f.with[1] = m /\ f.with[2] = p + 1
               /\ f.of.op = "clear" => PaceOK(f)
  <1> DEFINE f == ScanOn(r, m, p)
             follows(do, g) == g.t = r.t /\ g.c = r.c /\ g.with = <<m, p + 1>> /\ g.of = r.of
  <1>1. \A do : follows(do, Command(r.t, r.of, do, {}, <<m, p + 1>>))
    BY Follower
  <1>2. f.t = r.t /\ f.c = r.c /\ f.with = <<m, p + 1>> /\ f.of = r.of
    BY <1>1, Zenon DEF ScanOn
  <1>3. ToClear(f)
    BY Zenon DEF ToClear, Command, ScanOn
  <1> HIDE DEF f
  <1>4. f.with[1] = m /\ f.with[2] = p + 1 /\ p + 1 \in Nat \ {0}
    BY <1>2
  <1>5. f.of.op = "clear" => PaceOK(f)
    BY <1>3, <1>4, ClearPace
  <1>6. /\ f.t = r.t /\ f.c = r.c /\ f.of = r.of /\ ToClear(f) /\ f.with[1] = m /\ f.with[2] = p + 1
        /\ f.of.op = "clear" => PaceOK(f)
    BY <1>2, <1>3, <1>4, <1>5
  <1> QED BY <1>6 DEF f

LEMMA SlotSees ==
    ASSUME CallsInv, NEW r \in flight, NEW s \in In(r.of.ns)
    PROVE  /\ There(s) => db[s].val \in Looks(db[s], r.of.at, now) /\ db[s].val \in Values
           /\ ~There(s) => None \in Looks(db[s], r.of.at, now)
           /\ s \in Slots
  <1>1. s \in Slots /\ db[s] \in Rows
    BY InFlight DEF In
  <1>2. There(s) => db[s].val \in Values
    BY <1>1 DEF There, Visible, Rows, Row
  <1> QED BY <1>1, <1>2, InFlight, RowLooks DEF There

LEMMA NextPageDue ==
    ASSUME CallsInv, NEW r \in flight, r.of.op = "iterator", NEW p \in Nat \ {0}
    PROVE  /\ \A f \in NextPage(r, p) : f.t = r.t /\ f.c = r.c /\ PaceOK(f)
           /\ \A s \in In(r.of.ns) : s[2] \in From(p + 1) => \E f \in NextPage(r, p) : Due(f, adapter, s)
  <1> DEFINE f == Command(r.t, r.of, "scan", {}, p + 1)
  <1>1. f.t = r.t /\ f.c = r.c /\ f.do = "scan" /\ f.with = p + 1 /\ f.of = r.of
    BY Follower
  <1>2. NextPage(r, p) = IF p < Len(Names) THEN {f} ELSE {}
    BY DEF NextPage
  <1> HIDE DEF f
  <1>3. p + 1 \in Nat \ {0} /\ (p < Len(Names) \/ From(p + 1) = {})
    BY LastPage
  <1>4. PaceOK(f)
    BY <1>1, <1>3, ScanPace
  <1>5. \A s \in In(r.of.ns) : s[2] \in From(p + 1) => Due(f, adapter, s)
    BY <1>1, DueIs
  <1> QED BY <1>1, <1>2, <1>3, <1>4, <1>5

---------------------------------------------------------------------------
(* What each command does to a walk *)

\* Command r changes nothing of its call, and what it is due is gone or left to those
\* that follow.
LEMMA WalkStays ==
    ASSUME CallsInv, WInv, NEW r \in flight, NEW d, NEW a, NEW F, \A f \in F : f.t = r.t /\ f.c = r.c /\ PaceOK(f),
           r.of.op \in Walks => \A s \in In(r.of.ns) : Due(r, adapter, s) =>
               None \in Looks(d[s], r.of.at, now) \/ \E f \in F : Due(f, adapter, s),
           Serve(r, d, a, F, job[r.t])
    PROVE  WInv'
  <1>1. ASSUME Live(r) PROVE Same(job[r.t], job[r.t]) /\ Strides(r, d, F, job[r.t])
    <2> DEFINE jt == job[r.t]
    <2>1. CallOK(jt) /\ jt.op = r.of.op /\ r.of = Of(jt)
      BY <1>1, LiveCall
    <2>2. r.of.op = "clear" => \A s \in jt.over : s \in In(r.of.ns)
      <3>1. WalkOK(r.t) /\ jt # Idle
        BY <1>1, InFlight DEF WInv, Live
      <3>2. jt.ns = r.of.ns
        BY <2>1 DEF Of
      <3> QED BY <2>1, <3>1, <3>2 DEF WalkOK, Walked
    <2> HIDE DEF jt
    <2>3. Strides(r, d, F, jt)
      <3>1. r.of.op = "clear" =>
              \A s \in jt.over :
                 /\ s \in In(r.of.ns)
                 /\ \/ s \in {u \in In(r.of.ns) : None \in Looks(d[u], r.of.at, now)}
                    \/ s \in jt.over /\ ~Due(r, adapter, s)
                    \/ \E f \in F : Due(f, adapter, s)
        BY <2>2 DEF Walks
      <3>2. r.of.op = "iterator" =>
              \A s \in In(r.of.ns) :
                 \/ s \in {u \in In(r.of.ns) : None \in Looks(d[u], r.of.at, now)}
                 \/ ~Due(r, adapter, s) \/ \E f \in F : Due(f, adapter, s)
        BY DEF Walks
      <3> QED BY <3>1, <3>2 DEF Strides, jt
    <2> QED BY <2>1, <2>3 DEF Same, CallOK, jt
  <1> QED BY <1>1, WalkServed

\* The keys of r are answered.
LEMMA KeyServed ==
    ASSUME CallsInv, WInv, NEW r \in flight, r.do \in {"read", "set", "delete"}, NEW d, NEW a,
           NEW F, \A f \in F : f.t = r.t /\ f.c = r.c /\ f.do = "delete",
           NEW R, Serve(r, d, a, F, [job[r.t] EXCEPT !.res = R])
    PROVE  WInv'
  <1>1. r.of.op \notin Walks
    <2>1. r.of.op \in KeyOps
      BY InFlight, OpsApart DEF Fits
    <2> QED BY <2>1 DEF Walks, KeyOps, ReadOps, HasOps, WriteOps, DeleteOps
  <1>2. \A f \in F : PaceOK(f)
    BY StillPace DEF Still
  <1> DEFINE jt == job[r.t]
             j == [jt EXCEPT !.res = R]
  <1>3. ASSUME Live(r) PROVE Same(jt, j)
    <2>1. CallOK(jt)
      BY <1>3, LiveCall
    <2> HIDE DEF jt
    <2>2. /\ IsJob(j) /\ j.op = jt.op /\ j.c = jt.c /\ j.ns = jt.ns /\ j.keys = jt.keys /\ j.live = jt.live
          /\ j.at = jt.at
      BY <2>1 DEF CallOK, IsJob, Fields
    <2> HIDE DEF j
    <2> QED BY <2>2 DEF Same, Of
  <1>4. Strides(r, d, F, j)
    BY <1>1 DEF Strides, Walks
  <1>5. Serve(r, d, a, F, j)
    OBVIOUS
  <1> HIDE DEF j
  <1> QED BY <1>2, <1>3, <1>4, <1>5, WalkServed

LEMMA WalkScanned ==
    ASSUME CallsInv, WInv, NEW r \in flight, r.do = "scan", NEW ks \in Scan(r.of.ns, None, r.with),
           Serve(r, db, aux, AfterPage(r, ks), job[r.t])
    PROVE  WInv'
  <1> DEFINE p == r.with
             f == Command(r.t, r.of, "mget", {}, <<ks, p>>)
  <1>1. r.of.op = "iterator" /\ p \in Nat \ {0} /\ r.of.ns \in Namespaces
    <2>1. PaceOK(r) /\ OfOK(r.of, adapter, calls, now)
      BY InFlight DEF WInv, CommandOK
    <2> QED BY <2>1, PaceIs DEF OfOK
  <1>2. f.t = r.t /\ f.c = r.c /\ f.do = "mget" /\ f.with = <<ks, p>> /\ f.of = r.of
    BY Follower
  <1>3. AfterPage(r, ks) = IF ks = <<>> THEN NextPage(r, p) ELSE {f}
    BY DEF AfterPage
  <1> HIDE DEF f
  <1>4. /\ ks \in Seq(Keys)
        /\ \A s \in In(r.of.ns) :
              s \in Page(r.of.ns, ks) \/ ~There(s) \/ s[2] \in From(p + 1) \/ s[2] \notin From(p)
    BY <1>1, PageOf, RedisAssumption
  <1> HIDE DEF p
  <1>5. PaceOK(f) /\ \A s \in In(r.of.ns) : s \in Page(r.of.ns, ks) \/ s[2] \in From(p + 1) => Due(f, adapter, s)
    <2>1. f.with[1] = ks /\ f.with[2] = p
      BY <1>2
    <2> QED BY <1>1, <1>2, <1>4, <2>1, ScanPace, DueIs
  <1>6. /\ \A q \in NextPage(r, p) : q.t = r.t /\ q.c = r.c /\ PaceOK(q)
        /\ \A s \in In(r.of.ns) : s[2] \in From(p + 1) => \E q \in NextPage(r, p) : Due(q, adapter, s)
    BY <1>1, NextPageDue
  <1>7. \A q \in AfterPage(r, ks) : q.t = r.t /\ q.c = r.c /\ PaceOK(q)
    BY <1>2, <1>3, <1>5, <1>6
  <1>8. ASSUME NEW s \in In(r.of.ns), Due(r, adapter, s)
        PROVE  None \in Looks(db[s], r.of.at, now) \/ \E q \in AfterPage(r, ks) : Due(q, adapter, s)
    <2>1. s[2] \in From(p)
      BY <1>8, DueIs DEF p
    <2>2. ks = <<>> => s \notin Page(r.of.ns, ks)
      BY DEF Page
    <2> QED BY <1>3, <1>4, <1>5, <1>6, <2>1, <2>2, SlotSees
  <1> QED BY <1>7, <1>8, WalkStays

LEMMA Concatenated ==
    ASSUME NEW x \in Seq(Entry), NEW y \in Seq(Entry)
    PROVE  /\ x \o y \in Seq(Entry)
           /\ {(x \o y)[i] : i \in DOMAIN (x \o y)} = {x[i] : i \in DOMAIN x} \cup {y[i] : i \in DOMAIN y}
  <1> DEFINE z == x \o y
  <1>1. /\ z \in Seq(Entry) /\ Len(x) \in Nat /\ Len(y) \in Nat /\ Len(z) = Len(x) + Len(y)
        /\ DOMAIN x = 1..Len(x) /\ DOMAIN y = 1..Len(y) /\ DOMAIN z = 1..Len(z)
        /\ \A i \in 1..Len(z) : z[i] = IF i <= Len(x) THEN x[i] ELSE y[i - Len(x)]
    OBVIOUS
  <1> HIDE DEF z
  <1>2. \A i \in DOMAIN z : \/ i \in DOMAIN x /\ z[i] = x[i]
                            \/ i - Len(x) \in DOMAIN y /\ z[i] = y[i - Len(x)]
    BY <1>1
  <1>3. \A i \in DOMAIN x : i \in DOMAIN z /\ z[i] = x[i]
    BY <1>1
  <1>4. \A i \in DOMAIN y : i + Len(x) \in DOMAIN z /\ z[i + Len(x)] = y[i]
    BY <1>1
  <1>5. {z[i] : i \in DOMAIN z} = {x[i] : i \in DOMAIN x} \cup {y[i] : i \in DOMAIN y}
    BY <1>2, <1>3, <1>4
  <1> QED BY <1>1, <1>5 DEF z

\* The values of a page are yielded.
LEMMA WalkYields ==
    ASSUME CallsInv, WInv, NEW r \in flight, r.do = "mget",
           Serve(r, db, aux, NextPage(r, r.with[2]), Yielded(job[r.t], r.with[1]))
    PROVE  WInv'
  <1> DEFINE ks == r.with[1]
             p == r.with[2]
             jt == job[r.t]
             j == Yielded(jt, ks)
             F == NextPage(r, p)
  <1>1. r.of.op = "iterator" /\ p \in Nat \ {0} /\ ks \in Seq(Keys) /\ r.of.ns \in Namespaces
    <2>1. PaceOK(r) /\ OfOK(r.of, adapter, calls, now)
      BY InFlight DEF WInv, CommandOK
    <2> QED BY <2>1, PaceIs DEF OfOK
  <1>2. /\ \A q \in F : q.t = r.t /\ q.c = r.c /\ PaceOK(q)
        /\ \A s \in In(r.of.ns) : s[2] \in From(p + 1) => \E q \in F : Due(q, adapter, s)
    BY <1>1, NextPageDue
  <1>3. ASSUME Live(r) PROVE Same(jt, j) /\ Strides(r, db, F, j)
    <2>1. Onward(jt, j) /\ jt # Idle /\ WalkOK(r.t)
      BY <1>3, YieldedOnward, InFlight DEF WInv, Live
    <2>2. jt.op = r.of.op /\ r.of = Of(jt) /\ CallOK(jt)
      BY <1>3, LiveCall
    <2>3. jt.ns = r.of.ns /\ jt.out \in Seq(Entry)
      BY <1>1, <2>1, <2>2 DEF WalkOK, Walked, Of
    <2> DEFINE new == [i \in DOMAIN ks |->
                         [key |-> ks[i], val |-> IF There(<<r.of.ns, ks[i]>>) THEN db[<<r.of.ns, ks[i]>>].val ELSE None]]
    <2>4. j.out = jt.out \o new
      <3>1. j = [jt EXCEPT !.out = jt.out \o new]
        BY <2>3 DEF Yielded
      <3> HIDE DEF new, jt, j
      <3> QED BY <2>2, <3>1 DEF CallOK, IsJob, Fields
    <2>5. ASSUME NEW i \in DOMAIN ks
          PROVE  /\ <<r.of.ns, ks[i]>> \in In(r.of.ns) /\ new[i] \in Entry /\ new[i].key = ks[i]
                 /\ new[i].val \in Looks(db[<<r.of.ns, ks[i]>>], r.of.at, now)
      <3> DEFINE s == <<r.of.ns, ks[i]>>
                 v == IF There(s) THEN db[s].val ELSE None
      <3>1. ks[i] \in Keys
        BY <1>1
      <3>2. s \in In(r.of.ns)
        BY <1>1, <3>1 DEF In, Slots
      <3>3. v \in Values \cup {None} /\ v \in Looks(db[s], r.of.at, now)
        BY <3>2, SlotSees
      <3>4. new[i] = [key |-> ks[i], val |-> v]
        OBVIOUS
      <3> HIDE DEF new, v
      <3> QED BY <3>1, <3>2, <3>3, <3>4 DEF Entry
    <2>6. DOMAIN new = DOMAIN ks /\ new \in Seq(Entry)
      <3>1. DOMAIN ks = 1..Len(ks) /\ Len(ks) \in Nat
        BY <1>1
      <3>2. new \in [1..Len(ks) -> Entry]
        BY <2>5, <3>1
      <3> HIDE DEF new
      <3> QED BY <3>1, <3>2
    <2> HIDE DEF new, jt, j, ks, p, F
    <2>7. j.out \in Seq(Entry) /\ Yields(j) = Yields(jt) \cup {new[i] : i \in DOMAIN new}
      <3> DEFINE z == jt.out \o new
      <3>1. /\ z \in Seq(Entry)
            /\ {z[i] : i \in DOMAIN z} = {jt.out[i] : i \in DOMAIN jt.out} \cup {new[i] : i \in DOMAIN new}
        BY <2>3, <2>6, Concatenated
      <3>2. j.out = z
        BY <2>4
      <3> HIDE DEF z
      <3> QED BY <3>1, <3>2 DEF Yields
    <2>8. \A e \in Yields(j) \ Yields(jt) : e.val \in Looks(db[<<r.of.ns, e.key>>], r.of.at, now)
      BY <2>5, <2>6, <2>7
    <2>9. ASSUME NEW s \in In(r.of.ns), Due(r, adapter, s)
          PROVE  (\E e \in Yields(j) : e.key = s[2]) \/ \E q \in F : Due(q, adapter, s)
      <3>1. s \in Page(r.of.ns, ks) \/ s[2] \in From(p + 1)
        BY <2>9, DueIs DEF ks, p
      <3>2. ASSUME NEW i \in DOMAIN ks, s = <<r.of.ns, ks[i]>> PROVE \E e \in Yields(j) : e.key = s[2]
        BY <2>5, <2>6, <2>7, <3>2
      <3> QED BY <1>2, <3>1, <3>2 DEF Page
    <2>10. Strides(r, db, F, j)
      BY <1>1, <2>7, <2>8, <2>9 DEF Strides, jt
    <2> QED BY <2>1, <2>10 DEF Same, Onward, CallOK
  <1>4. Serve(r, db, aux, F, j)
    OBVIOUS
  <1> HIDE DEF F, j
  <1> QED BY <1>2, <1>3, <1>4, WalkServed DEF jt

---------------------------------------------------------------------------
(* Commands that fail, and commands of keys *)

LEMMA RejectEndsWalk ==
    ASSUME CallsInv, WInv, NEW r \in flight, NEW d, Reject(r, d) \/ Finish(r, d, aux, Failed(job[r.t])) PROVE WInv'
  BY WalkEnds DEF Reject

LEMMA RedisFailsWalks ==
    ASSUME CallsInv, WInv, RedisNotConnected \/ RedisNotWritten \/ RedisFailed \/ RedisIterationFailed \/ RedisNotCleared
    PROVE  WInv'
  <1>1. CASE RedisNotConnected
    <2> DEFINE a == [aux EXCEPT !.connecting = FALSE, !.open = FALSE]
    <2>1. PICK r \in Sent(Redis, "connect") : RejectWith(r, db, a) \/ Finish(r, db, a, Failed(job[r.t]))
      BY <1>1 DEF RedisNotConnected
    <2>2. r \in flight
      BY <2>1, ServedIn
    <2> HIDE DEF a
    <2> QED BY <2>1, <2>2, WalkEnds
  <1>2. CASE RedisNotWritten
    <2>1. PICK r \in Served(Redis, "set") \cup Failing(Redis, "set") :
             \E d : Reject(r, d) \/ Finish(r, d, aux, Answers(job[r.t], FALSE))
      BY <1>2, Zenon DEF RedisNotWritten
    <2>2. PICK d : Reject(r, d) \/ Finish(r, d, aux, Answers(job[r.t], FALSE))
      BY <2>1
    <2>3. r \in flight
      BY <2>1, ServedIn
    <2> QED BY <2>2, <2>3, WalkEnds DEF Reject
  <1>3. CASE RedisFailed
    <2>1. PICK r \in Failing(Redis, "read") \cup Sent(Redis, "unrouted") \cup Failing(Redis, "delete") :
             \E d : Reject(r, d) \/ Finish(r, d, aux, Failed(job[r.t]))
      BY <1>3, Zenon DEF RedisFailed
    <2>2. r \in flight
      BY <2>1, ServedIn
    <2> QED BY <2>1, <2>2, RejectEndsWalk
  <1>4. CASE RedisIterationFailed
    BY <1>4, ServedIn, RejectEndsWalk DEF RedisIterationFailed
  <1>5. CASE RedisNotCleared
    <2>1. ASSUME NEW do, NEW r \in Failing(Redis, do), NEW d, Finish(r, d, aux, Failed(job[r.t])) PROVE WInv'
      BY <2>1, ServedIn, RejectEndsWalk
    <2>2. (\E r \in Failing(Redis, "scan to clear") : Finish(r, db, aux, Failed(job[r.t]))) => WInv'
      BY <2>1
    <2>3. (\E r \in Failing(Redis, "clear") : \E d \in Outcomes(r, Drop(db, r.with)) :
              Finish(r, d, aux, Failed(job[r.t]))) => WInv'
      BY <2>1
    <2> QED BY <1>5, <2>2, <2>3, Zenon DEF RedisNotCleared
  <1> QED BY <1>1, <1>2, <1>3, <1>4, <1>5

LEMMA ValkeyFailsWalks == ASSUME CallsInv, WInv, ValkeyNotWritten \/ ValkeyRejected PROVE WInv'
  <1>1. CASE ValkeyNotWritten
    <2>1. PICK r \in Failing(Valkey, "set") :
             \/ Finish(r, db, aux, Failed(job[r.t]))
             \/ Finish(r, Written(r, r.of.live), Added(SlotsAt(r.of, r.at)), Failed(job[r.t]))
      BY <1>1 DEF ValkeyNotWritten
    <2>2. r \in flight
      BY <2>1, ServedIn
    <2> QED BY <2>1, <2>2, WalkEnds
  <1>2. CASE ValkeyRejected
    <2>1. ASSUME NEW do, NEW r \in Failing(Valkey, do) \cup Vk(do), NEW d, NEW a, RejectWith(r, d, a) PROVE WInv'
      BY <2>1, ServedIn, VkIn, WalkEnds
    <2>2. CASE \E do \in {"read", "members", "scan", "scan to clear", "mget", "forget"} :
                  \E r \in Failing(Valkey, do) : Reject(r, db)
      BY <2>1, <2>2 DEF Reject
    <2>3. CASE \E r \in {r \in Vk("read") : r.at = {}} \cup {r \in Vk("delete") : ~OneMaster(SlotsAt(r.of, r.at))}
                       \cup {r \in Vk("clear") : ~OneMaster(r.with)} : Reject(r, db)
      <3>1. PICK r \in Vk("read") \cup Vk("delete") \cup Vk("clear") : Reject(r, db)
        BY <2>3
      <3> QED BY <2>1, <3>1 DEF Reject
    <2>4. CASE \E r \in Failing(Valkey, "delete") : \E d, a : RejectWith(r, d, a)
      BY <2>1, <2>4
    <2>5. CASE \E r \in Failing(Valkey, "clear") : \E d : Reject(r, d)
      BY <2>1, <2>5 DEF Reject
    <2> QED BY <1>2, <2>2, <2>3, <2>4, <2>5, Zenon DEF ValkeyRejected
  <1> QED BY <1>1, <1>2

LEMMA RedisKeysServed == ASSUME CallsInv, WInv, RedisWritten \/ RedisRead \/ RedisDeleted PROVE WInv'
  <1>1. ASSUME NEW do \in {"read", "set", "delete"}, NEW r \in Served(Redis, do), NEW d, NEW R,
               Serve(r, d, aux, {}, [job[r.t] EXCEPT !.res = R])
        PROVE  WInv'
    <2>1. r \in flight /\ r.do = do
      BY ServedIn
    <2> QED BY <1>1, <2>1, KeyServed
  <1>2. CASE RedisWritten
    <2>1. PICK r \in Served(Redis, "set") :
             Serve(r, Written(r, Px(r.of.live)), aux, {}, Answered(job[r.t], r.at, LAMBDA i : TRUE))
      BY <1>2 DEF RedisWritten
    <2> DEFINE R == [i \in DOMAIN job[r.t].res |-> IF i \in r.at THEN TRUE ELSE job[r.t].res[i]]
    <2>2. Serve(r, Written(r, Px(r.of.live)), aux, {}, [job[r.t] EXCEPT !.res = R])
      BY <2>1 DEF Answered
    <2> HIDE DEF R
    <2> QED BY <1>1, <2>2
  <1>3. CASE RedisRead
    <2>1. PICK r \in Served(Redis, "read") : Serve(r, db, aux, {}, Found(job[r.t], r.at))
      BY <1>3 DEF RedisRead
    <2> DEFINE R == [i \in DOMAIN job[r.t].res |->
                       IF i \in r.at THEN Answer(job[r.t].op, db[Slot(job[r.t], i)], ~There(Slot(job[r.t], i)))
                       ELSE job[r.t].res[i]]
    <2>2. Serve(r, db, aux, {}, [job[r.t] EXCEPT !.res = R])
      BY <2>1 DEF Found, Answered
    <2> HIDE DEF R
    <2> QED BY <1>1, <2>2
  <1>4. CASE RedisDeleted
    <2>1. PICK r \in Served(Redis, "delete") :
             Serve(r, Drop(db, SlotsAt(r.of, r.at)), aux, {}, Unlinked(job[r.t], r.at))
      BY <1>4 DEF RedisDeleted
    <2> DEFINE j == job[r.t]
               R == [i \in DOMAIN j.res |->
                       IF i \in r.at THEN There(Slot(j, i)) /\ \A m \in r.at : j.keys[m] = j.keys[i] => m = i
                       ELSE j.res[i]]
    <2>2. Serve(r, Drop(db, SlotsAt(r.of, r.at)), aux, {}, [job[r.t] EXCEPT !.res = R])
      BY <2>1 DEF Unlinked, Answered
    <2> HIDE DEF R
    <2> QED BY <1>1, <2>2
  <1> QED BY <1>2, <1>3, <1>4

LEMMA ValkeyKeysServed == ASSUME CallsInv, WInv, ValkeyRead \/ ValkeyWritten \/ ValkeyDeleted PROVE WInv'
  <1>1. ASSUME NEW do \in {"read", "set", "delete"}, NEW r \in Vk(do), NEW d, NEW a, NEW R,
               Serve(r, d, a, {}, [job[r.t] EXCEPT !.res = R])
        PROVE  WInv'
    <2>1. r \in flight /\ r.do = do
      BY VkIn
    <2> QED BY <1>1, <2>1, KeyServed
  <1>2. CASE ValkeyRead
    <2>1. PICK r \in Vk("read") : Serve(r, db, aux, {}, Found(job[r.t], r.at))
      BY <1>2 DEF ValkeyRead
    <2> DEFINE R == [i \in DOMAIN job[r.t].res |->
                       IF i \in r.at THEN Answer(job[r.t].op, db[Slot(job[r.t], i)], ~There(Slot(job[r.t], i)))
                       ELSE job[r.t].res[i]]
    <2>2. Serve(r, db, aux, {}, [job[r.t] EXCEPT !.res = R])
      BY <2>1 DEF Found, Answered
    <2> HIDE DEF R
    <2> QED BY <1>1, <2>2
  <1>3. CASE ValkeyWritten
    <2>1. PICK r \in Vk("set") :
             IF Accepted(r.of.live)
             THEN Serve(r, Written(r, r.of.live), Added(SlotsAt(r.of, r.at)), {},
                        Answered(job[r.t], r.at, LAMBDA i : TRUE))
             ELSE Serve(r, db, Added(SlotsAt(r.of, r.at)), {},
                        Answered(job[r.t], r.at, LAMBDA i : r.of.op = "set" /\ aux.sets))
      BY <1>3 DEF ValkeyWritten
    <2> DEFINE a == Added(SlotsAt(r.of, r.at))
               x == r.of.op = "set" /\ aux.sets
               R(y) == [i \in DOMAIN job[r.t].res |-> IF i \in r.at THEN y ELSE job[r.t].res[i]]
    <2>2. \/ Serve(r, Written(r, r.of.live), a, {}, [job[r.t] EXCEPT !.res = R(TRUE)])
          \/ Serve(r, db, a, {}, [job[r.t] EXCEPT !.res = R(x)])
      BY <2>1 DEF Answered
    <2> HIDE DEF a, x, R
    <2> QED BY <1>1, <2>2
  <1>4. CASE ValkeyDeleted
    <2>1. PICK r \in Vk("delete") :
             Serve(r, Drop(db, SlotsAt(r.of, r.at)), Without(SlotsAt(r.of, r.at)),
                   ChunkFrom(r.t, r.of, r.with + ChunkSize), Removed(job[r.t], r.at))
      BY <1>4 DEF ValkeyDeleted
    <2>2. r \in flight /\ r.do = "delete"
      BY <2>1, VkIn
    <2> DEFINE j == job[r.t]
               R == [i \in DOMAIN j.res |->
                       IF i \in r.at THEN There(Slot(j, i)) /\ \A m \in r.at : j.keys[m] = j.keys[i] => i <= m
                       ELSE j.res[i]]
               F == ChunkFrom(r.t, r.of, r.with + ChunkSize)
    <2>3. Serve(r, Drop(db, SlotsAt(r.of, r.at)), Without(SlotsAt(r.of, r.at)), F, [job[r.t] EXCEPT !.res = R])
      BY <2>1 DEF Removed, Answered
    <2>4. \A f \in F : f.t = r.t /\ f.c = r.c /\ f.do = "delete"
      <3>1. r.of.c = r.c
        BY <2>2, InFlight
      <3>2. ASSUME NEW I, NEW p
            PROVE  LET f == Command(r.t, r.of, "delete", I, p) IN f.t = r.t /\ f.c = r.c /\ f.do = "delete"
        BY <3>1, CommandIs
      <3> QED BY <3>2 DEF ChunkFrom
    <2> HIDE DEF R, F, j
    <2> QED BY <2>2, <2>3, <2>4, KeyServed
  <1> QED BY <1>2, <1>3, <1>4

---------------------------------------------------------------------------
(* Commands of a walk *)

\* Nothing follows r.
LEMMA WalkLess ==
    ASSUME CallsInv, WInv, NEW r \in flight, NEW d, NEW a, Serve(r, d, a, {}, job[r.t]),
           \A s \in In(r.of.ns) : Due(r, adapter, s) => None \in Looks(d[s], r.of.at, now)
    PROVE  WInv'
  <1> DEFINE F == {}
  <1>1. \A f \in F : f.t = r.t /\ f.c = r.c /\ PaceOK(f)
    OBVIOUS
  <1>2. Serve(r, d, a, F, job[r.t])
    OBVIOUS
  <1> HIDE DEF F
  <1> QED BY <1>1, <1>2, WalkStays

LEMMA NoneLooks == ASSUME NEW d, NEW s, d[s] = None, NEW at, NEW n PROVE None \in Looks(d[s], at, n)
  BY DEF Looks, Visible

\* The keys that r has are deleted.
LEMMA WalkCleared ==
    ASSUME CallsInv, WInv, NEW r \in flight, r.do = "clear", Serve(r, Drop(db, r.with), aux, {}, job[r.t]) PROVE WInv'
  <1>1. ASSUME NEW s \in In(r.of.ns), Due(r, adapter, s) PROVE None \in Looks(Drop(db, r.with)[s], r.of.at, now)
    <2>1. s \in r.with /\ s \in Slots
      BY <1>1, DueIs DEF In
    <2>2. Drop(db, r.with)[s] = None
      BY <2>1 DEF Drop
    <2> QED BY <2>2, NoneLooks
  <1> QED BY <1>1, WalkLess

\* What is not for the walk.
LEMMA WalkBeside ==
    ASSUME CallsInv, WInv, NEW r \in flight, r.do \in {"forget", "close"}, NEW a, Serve(r, db, a, {}, job[r.t])
    PROVE  WInv'
  <1>1. \A s : ~Due(r, adapter, s)
    BY DueIs
  <1> QED BY <1>1, WalkLess

\* Redis deletes the keys of a page, and scans on.
LEMMA PageCleared ==
    ASSUME CallsInv, WInv, NEW r \in flight, ToClear(r), adapter \in Redis,
           NEW ks \in Scan(r.of.ns, r.with[1], r.with[2]), Serve(r, db, aux, RedisClears(r, ks), job[r.t])
    PROVE  WInv'
  <1> DEFINE m == r.with[1]
             p == r.with[2]
             f1 == Command(r.t, r.of, "clear", {}, Page(r.of.ns, ks))
             f2 == ScanOn(r, m, p)
             F == RedisClears(r, ks)
  <1> HIDE DEF f2
  <1>1. adapter # "valkey"
    BY DEF Redis
  <1>2. r.of.op = "clear" /\ p \in Nat \ {0} /\ r.of.ns \in Namespaces
    <2>1. PaceOK(r) /\ OfOK(r.of, adapter, calls, now)
      BY InFlight DEF WInv, CommandOK
    <2> QED BY <2>1, PaceToClear DEF OfOK
  <1>3. f1.t = r.t /\ f1.c = r.c /\ f1.do = "clear" /\ f1.with = Page(r.of.ns, ks) /\ f1.of = r.of
    BY Follower
  <1>4. F = (IF ks = <<>> THEN {} ELSE {f1}) \cup (IF p < Len(Names) THEN {f2} ELSE {})
    BY Zenon DEF RedisClears, ScanOn, f2
  <1>5. /\ f2.t = r.t /\ f2.c = r.c /\ f2.of = r.of /\ ToClear(f2) /\ f2.with[1] = m /\ f2.with[2] = p + 1
        /\ f2.of.op = "clear" => PaceOK(f2)
    <2>1. p \in Nat
      BY <1>2
    <2> HIDE DEF m, p
    <2> QED BY <2>1, ScansOn DEF f2
  <1>6. /\ ks \in Seq(Keys)
        /\ \A s \in In(r.of.ns) : \/ s \in Page(r.of.ns, ks) \/ ~There(s) \/ s[2] \in From(p + 1)
                                   \/ s[2] \notin From(p) \/ ~(m \in Masters => MasterOf[s[2]] = m)
    BY <1>2, PageOf
  <1>7. \A s \in In(r.of.ns) : Due(r, adapter, s) => s[2] \in From(p) /\ (m \in Masters => MasterOf[s[2]] = m)
    BY <1>1, DueToClear
  <1> HIDE DEF f1, F, m, p
  <1>8. PaceOK(f1) /\ \A s \in In(r.of.ns) : s \in Page(r.of.ns, ks) => Due(f1, adapter, s)
    BY <1>2, <1>3, ClearPace, DueIs
  <1>9. PaceOK(f2)
         /\ \A s \in In(r.of.ns) : s[2] \in From(p + 1) /\ (m \in Masters => MasterOf[s[2]] = m) => Due(f2, adapter, s)
    BY <1>1, <1>2, <1>5, DueToClear
  <1>10. p < Len(Names) \/ From(p + 1) = {}
    BY <1>2, LastPage
  <1>11. \A f \in F : f.t = r.t /\ f.c = r.c /\ PaceOK(f)
    BY <1>3, <1>4, <1>5, <1>8, <1>9
  <1>12. ASSUME NEW s \in In(r.of.ns), Due(r, adapter, s)
         PROVE  None \in Looks(db[s], r.of.at, now) \/ \E f \in F : Due(f, adapter, s)
    <2>1. s[2] \in From(p) /\ (m \in Masters => MasterOf[s[2]] = m)
      BY <1>7, <1>12
    <2>2. ~There(s) => None \in Looks(db[s], r.of.at, now)
      BY SlotSees
    <2>3. ks = <<>> => s \notin Page(r.of.ns, ks)
      BY DEF Page
    <2> QED BY <1>4, <1>6, <1>8, <1>9, <1>10, <2>1, <2>2, <2>3
  <1>13. Serve(r, db, aux, F, job[r.t])
    BY DEF F
  <1> QED BY <1>11, <1>12, <1>13, WalkStays

LEMMA RedisScannedToClearWalks == ASSUME CallsInv, WInv, RedisScannedToClear PROVE WInv'
  <1>1. \A r \in Sent(Redis, "scan to clear") : r \in flight /\ adapter \in Redis /\ ToClear(r)
    BY Zenon DEF Sent, ToClear
  <1>2. \E r \in Sent(Redis, "scan to clear") : \E ks \in Scan(r.of.ns, r.with[1], r.with[2]) :
           Serve(r, db, aux, RedisClears(r, ks), job[r.t])
    BY Zenon DEF RedisScannedToClear, Served
  <1> QED BY <1>1, <1>2, PageCleared, Zenon

\* Valkey collects the keys it finds, and then deletes them.
Collected(r) == r.with[1] \cup {s \in Beginning(r.of.ns) : s[2] = Names[r.with[2]] /\ There(s)}
Collects(r, S) ==
    IF r.with[2] < Len(Names) THEN {Command(r.t, r.of, "scan to clear", {}, <<S, r.with[2] + 1>>)}
    ELSE IF S = {} THEN {} ELSE {Command(r.t, r.of, "clear", {}, S)}

LEMMA KeysCollected ==
    ASSUME CallsInv, WInv, NEW r \in flight, ToClear(r), adapter = "valkey", NEW S, S = Collected(r),
           Serve(r, db, aux, Collects(r, S), job[r.t])
    PROVE  WInv'
  <1> DEFINE p == r.with[2]
             f1 == Command(r.t, r.of, "clear", {}, S)
             f2 == ScanOn(r, S, p)
             F == Collects(r, S)
  <1>1. Serve(r, db, aux, F, job[r.t])
    OBVIOUS
  <1>2. r.of.op = "clear" /\ p \in Nat \ {0}
    <2>1. PaceOK(r)
      BY DEF WInv
    <2> QED BY <2>1, PaceToClear
  <1>3. \A s \in In(r.of.ns) : (s \in r.with[1] => s \in S) /\ (There(s) /\ s[2] = Names[p] => s \in S)
    BY DEF Beginning, Collected
  <1>4. \A s \in In(r.of.ns) : Due(r, adapter, s) => s \in r.with[1] \/ s[2] \in From(p)
    BY DueToClear
  <1> HIDE DEF F, p, f2
  <1>5. f1.t = r.t /\ f1.c = r.c /\ f1.do = "clear" /\ f1.with = S /\ f1.of = r.of
    BY Follower
  <1>6. /\ f2.t = r.t /\ f2.c = r.c /\ f2.of = r.of /\ ToClear(f2) /\ f2.with[1] = S /\ f2.with[2] = p + 1
        /\ f2.of.op = "clear" => PaceOK(f2)
    <2>1. p \in Nat
      BY <1>2
    <2> QED BY <2>1, ScansOn DEF f2
  <1>7. F = IF p < Len(Names) THEN {f2} ELSE IF S = {} THEN {} ELSE {f1}
    BY Zenon DEF F, Collects, ScanOn, p, f2
  <1> HIDE DEF f1
  <1>8. PaceOK(f1) /\ \A s \in In(r.of.ns) : s \in S => Due(f1, adapter, s)
    BY <1>2, <1>5, ClearPace, DueIs
  <1>9. PaceOK(f2) /\ \A s \in In(r.of.ns) : s \in S \/ s[2] \in From(p + 1) => Due(f2, adapter, s)
    BY <1>2, <1>6, DueToClear
  <1>10. p < Len(Names) \/ From(p + 1) = {}
    BY <1>2, LastPage
  <1>11. \A f \in F : f.t = r.t /\ f.c = r.c /\ PaceOK(f)
    BY <1>5, <1>6, <1>7, <1>8, <1>9
  <1>12. ASSUME NEW s \in In(r.of.ns), Due(r, adapter, s)
         PROVE  None \in Looks(db[s], r.of.at, now) \/ \E f \in F : Due(f, adapter, s)
    <2>1. ~There(s) => None \in Looks(db[s], r.of.at, now)
      BY SlotSees
    <2>2. s[2] \in From(p) => s[2] \in From(p + 1) \/ s[2] = Names[p]
      BY <1>2, NamesAre
    <2>3. s \in S \/ ~There(s) \/ s[2] \in From(p + 1)
      BY <1>3, <1>4, <1>12, <2>2
    <2> QED BY <1>7, <1>8, <1>9, <1>10, <2>1, <2>3
  <1> QED BY <1>1, <1>11, <1>12, WalkStays

LEMMA ValkeyScannedToClearWalks == ASSUME CallsInv, WInv, ValkeyScannedToClear PROVE WInv'
  <1>1. \A r \in Vk("scan to clear") : r \in flight /\ adapter = "valkey" /\ ToClear(r)
    BY VkIn, Zenon DEF ToClear
  <1>2. \E r \in Vk("scan to clear") : Serve(r, db, aux, Collects(r, Collected(r)), job[r.t])
    BY Zenon DEF ValkeyScannedToClear, Collects, Collected
  <1> QED BY <1>1, <1>2, KeysCollected, Zenon

\* The members of the set are what valkey's clear is to empty.
LEMMA ValkeyMembersWalks == ASSUME CallsInv, WInv, ValkeyMembers PROVE WInv'
  <1>1. PICK r \in Vk("members") :
           LET S == aux.index \cap In(r.of.ns)
           IN  Serve(r, db, aux,
                     IF S = {} THEN {} ELSE {Command(r.t, r.of, "clear", {}, S), Command(r.t, r.of, "forget", {}, S)},
                     [job[r.t] EXCEPT !.over = S])
    BY Zenon DEF ValkeyMembers
  <1> DEFINE S == aux.index \cap In(r.of.ns)
             f1 == Command(r.t, r.of, "clear", {}, S)
             f2 == Command(r.t, r.of, "forget", {}, S)
             F == IF S = {} THEN {} ELSE {f1, f2}
             jt == job[r.t]
             j == [jt EXCEPT !.over = S]
  <1>2. r \in flight /\ r.do = "members"
    BY <1>1, VkIn
  <1>3. r.of.op = "clear"
    <2>1. PaceOK(r)
      BY <1>2 DEF WInv
    <2> QED BY <1>2, <2>1, PaceIs
  <1>4. f1.t = r.t /\ f1.c = r.c /\ f1.do = "clear" /\ f1.with = S /\ f1.of = r.of
    BY <1>2, Follower
  <1>5. f2.t = r.t /\ f2.c = r.c /\ f2.do = "forget"
    BY <1>2, Follower
  <1> HIDE DEF f1, f2
  <1>6. PaceOK(f1) /\ PaceOK(f2)
    <2>1. f2.do \in Still
      BY <1>5 DEF Still
    <2> QED BY <1>3, <1>4, <2>1, ClearPace, StillPace
  <1>7. \A f \in F : f.t = r.t /\ f.c = r.c /\ PaceOK(f)
    BY <1>4, <1>5, <1>6
  <1>8. Serve(r, db, aux, F, j)
    BY <1>1 DEF f1, f2
  <1>9. ASSUME Live(r) PROVE Same(jt, j) /\ Strides(r, db, F, j)
    <2>1. CallOK(jt) /\ Onward(jt, j)
      BY <1>2, <1>9, LiveCall, OverOnward
    <2>2. j.over = S
      BY <2>1 DEF CallOK, IsJob, Fields
    <2>3. \A s \in S : s \in In(r.of.ns) /\ \E f \in F : Due(f, adapter, s)
      BY <1>4, DueIs
    <2> HIDE DEF S, F, j
    <2>4. Strides(r, db, F, j)
      BY <1>3, <2>2, <2>3 DEF Strides
    <2> QED BY <2>1, <2>4 DEF Same, Onward, CallOK
  <1> HIDE DEF S, F, j
  <1> QED BY <1>2, <1>7, <1>8, <1>9, WalkServed DEF jt

---------------------------------------------------------------------------
(* Walks that begin *)

Opening(t, j, m) == Command(t, j, "scan to clear", {}, <<m, 1>>)

\* What a new call sends, and where it has it go.
Starts(t, j, F) ==
    /\ \A f \in F : f.t = t /\ f.c = j.c /\ PaceOK(f)
    /\ j.op \in Walks => \A s \in In(j.ns) : \E f \in F : Due(f, adapter, s)

\* A call that has been nowhere.
Begun(j) == j.over = In(j.ns) /\ j.out = <<>>

LEMMA KeysFound == ASSUME NEW ns, NEW s \in In(ns) PROVE s[2] \in From(1) /\ MasterOf[s[2]] \in Masters
  BY NamesAre, RedisAssumption DEF In, Slots

LEMMA OpeningIs ==
    ASSUME NEW t, NEW j, NEW m
    PROVE  LET f == Opening(t, j, m)
           IN  f.t = t /\ f.c = j.c /\ f.at = {} /\ f.of = Of(j) /\ ToClear(f) /\ f.with[1] = m /\ f.with[2] = 1
  <1> DEFINE f == Opening(t, j, m)
             opens(do, g) == g.t = t /\ g.c = j.c /\ g.at = {} /\ g.with = <<m, 1>> /\ g.of = Of(j)
  <1>1. \A do : opens(do, Command(t, j, do, {}, <<m, 1>>))
    BY CommandIs
  <1>2. f.t = t /\ f.c = j.c /\ f.at = {} /\ f.with = <<m, 1>> /\ f.of = Of(j)
    BY <1>1, Zenon DEF Opening
  <1>3. ToClear(f)
    BY Zenon DEF ToClear, Command, Opening
  <1> HIDE DEF f
  <1>4. f.with[1] = m /\ f.with[2] = 1
    BY <1>2
  <1> QED BY <1>2, <1>3, <1>4 DEF f

\* A walk that clears opens with a scan that is to come to every key of master m, or to
\* every key of the namespace.
LEMMA OpeningDue ==
    ASSUME NEW t, NEW j, NEW m, j.op = "clear"
    PROVE  LET f == Opening(t, j, m)
           IN  /\ f.t = t /\ f.c = j.c /\ f.at = {} /\ PaceOK(f)
               /\ \A s \in In(j.ns) :
                     (adapter # "valkey" => (m \in Masters => MasterOf[s[2]] = m)) => Due(f, adapter, s)
  <1> DEFINE f == Opening(t, j, m)
  <1>1. f.t = t /\ f.c = j.c /\ f.at = {} /\ f.of = Of(j) /\ ToClear(f) /\ f.with[1] = m /\ f.with[2] = 1
    BY OpeningIs
  <1> HIDE DEF f
  <1>2. f.of.op = "clear" /\ f.of.ns = j.ns
    BY <1>1 DEF Of
  <1>3. PaceOK(f)
    BY <1>1, <1>2, ClearPace
  <1>4. ASSUME NEW s \in In(j.ns), adapter # "valkey" => (m \in Masters => MasterOf[s[2]] = m) PROVE Due(f, adapter, s)
    BY <1>1, <1>2, <1>4, KeysFound, DueToClear
  <1> QED BY <1>1, <1>3, <1>4 DEF f

LEMMA ScanDue ==
    ASSUME NEW t, NEW j, j.op = "iterator"
    PROVE  LET f == Command(t, j, "scan", {}, 1)
           IN  f.t = t /\ f.c = j.c /\ f.at = {} /\ PaceOK(f) /\ \A s \in In(j.ns) : Due(f, adapter, s)
  <1> DEFINE f == Command(t, j, "scan", {}, 1)
  <1>1. f.t = t /\ f.c = j.c /\ f.at = {} /\ f.of = Of(j) /\ f.do = "scan" /\ f.with = 1
    BY CommandIs
  <1> HIDE DEF f
  <1>2. f.of.op = "iterator" /\ f.of.ns = j.ns
    BY <1>1 DEF Of
  <1>3. PaceOK(f)
    BY <1>1, <1>2, ScanPace
  <1>4. \A s \in In(j.ns) : Due(f, adapter, s)
    BY <1>1, <1>2, KeysFound, DueIs
  <1> QED BY <1>1, <1>3, <1>4 DEF f

\* What redis and keydb send for a walk is to come to every key.
LEMMA RedisSendsDue ==
    ASSUME adapter \in Redis, NEW t, NEW j, j.op \in Walks
    PROVE  Starts(t, j, RedisSends(t, j)) /\ \A f \in RedisSends(t, j) : f.at = {}
  <1>1. CASE j.op = "iterator"
    <2>1. RedisSends(t, j) = {Command(t, j, "scan", {}, 1)}
      BY <1>1, Zenon DEF RedisSends, RedisIterator
    <2> DEFINE f == Command(t, j, "scan", {}, 1)
    <2>2. f.t = t /\ f.c = j.c /\ f.at = {} /\ PaceOK(f) /\ \A s \in In(j.ns) : Due(f, adapter, s)
      BY <1>1, ScanDue
    <2> HIDE DEF f
    <2>3. RedisSends(t, j) = {f}
      BY <2>1 DEF f
    <2> QED BY <2>2, <2>3 DEF Starts
  <1>2. CASE j.op = "clear"
    <2>1. RedisSends(t, j) = {Opening(t, j, m) : m \in IF aux.cluster THEN Masters ELSE {None}}
      BY <1>2, Zenon DEF RedisSends, RedisClear, Opening
    <2>2. \A m : LET f == Opening(t, j, m)
                 IN  /\ f.t = t /\ f.c = j.c /\ f.at = {} /\ PaceOK(f)
                     /\ \A s \in In(j.ns) : (m \in Masters => MasterOf[s[2]] = m) => Due(f, adapter, s)
      BY <1>2, OpeningDue
    <2>3. ASSUME NEW s \in In(j.ns) PROVE \E f \in RedisSends(t, j) : Due(f, adapter, s)
      <3>1. MasterOf[s[2]] \in Masters /\ None \notin Masters
        BY KeysFound, RedisAssumption
      <3>2. CASE aux.cluster
        BY <2>1, <2>2, <3>1, <3>2
      <3>3. CASE ~aux.cluster
        BY <2>1, <2>2, <3>1, <3>3
      <3> QED BY <3>2, <3>3
    <2> QED BY <2>1, <2>2, <2>3 DEF Starts
  <1> QED BY <1>1, <1>2 DEF Walks

\* The commands of a call that goes through no namespace.
LEMMA StillStarts ==
    ASSUME NEW t, NEW j, j.op \notin Walks, NEW F, \A f \in F : f.t = t /\ f.c = j.c /\ f.do \in Still
    PROVE  Starts(t, j, F)
  BY StillPace DEF Starts

LEMMA MadeStarts ==
    ASSUME NEW t, NEW j, j.op \in KeyOps, NEW n, NEW F, Made(j, t, n, F) PROVE Starts(t, j, F)
  <1>1. \A f \in F : f.t = t /\ f.c = j.c /\ PaceOK(f)
    <2>1. \A f \in F : f.t = t /\ f.c = f.of.c /\ f.of = Of(j)
      BY DEF Made, CommandOK
    <2> QED BY <2>1, MadePace DEF Of
  <1>2. j.op \notin Walks
    BY DEF Walks, KeyOps, ReadOps, HasOps, WriteOps, DeleteOps
  <1> QED BY <1>1, <1>2 DEF Starts

\* A call begins.
LEMMA WalkEntered ==
    ASSUME CallsInv, WInv, NEW t \in Tasks, NEW j, Fresh(j, t, calls + 1), Begun(j), NEW F, Starts(t, j, F),
           NEW a, EnterWith(t, j, F, a)
    PROVE  WInv'
  <1>1. /\ adapter' = adapter /\ Witness /\ flight' = flight \cup F /\ job[t] = Idle
        /\ job = [u \in Tasks |-> job[u]]
    BY DEF EnterWith, CallsInv, Types
  <1>2. \A H : Walked(j, F, adapter, H)
    <2>1. j.op \in Walks => Yields(j) = {} /\ j.out \in Seq(Entry)
      BY DEF Begun, Yields
    <2> QED BY <2>1 DEF Walked, Starts, Begun, Walks
  <1>3. (\A r \in flight : PaceOK(r)) /\ \A r \in flight' : r \in flight \/ PaceOK(r)
    BY <1>1 DEF WInv, Starts
  <1>4. ASSUME NEW u \in Tasks, job'[u] = job[u] PROVE WalkOK(u)'
    <2>1. job[u] # Idle => Mine(flight, u, job[u].c) \subseteq Mine(flight', u, job[u].c)
      BY <1>1 DEF Mine
    <2> QED BY <1>1, <1>4, <2>1, OthersWalk DEF WInv
  <1>5. CASE F = {}
    <2> DEFINE H == More(Nothing, Concerns(j), db, now, now)
    <2>1. reply' = [job |-> j, seen |-> H] /\ job' = job
      BY <1>5 DEF EnterWith
    <2> HIDE DEF H
    <2>2. WalksComplete'
      BY <1>2, <1>5, <2>1, WalkedDone
    <2> QED BY <1>3, <1>4, <2>1, <2>2, WalksAssembled
  <1>6. CASE F # {}
    <2>1. reply' = Idle /\ job' = [job EXCEPT ![t] = j]
      BY <1>6 DEF EnterWith
    <2>2. job'[t] = j /\ \A u \in Tasks : u # t => job'[u] = job[u]
      BY <1>1, <2>1
    <2>3. WalkOK(t)'
      <3> DEFINE H == seen'[t]
                 mine == Mine(flight', t, j.c)
      <3>1. j.ns \in Namespaces
        BY DEF Fresh, OfOK, Of
      <3>2. F \subseteq mine
        BY <1>1 DEF Mine, Starts
      <3> HIDE DEF H, mine
      <3>3. Walked(j, mine, adapter, H)
        BY <1>2, <3>1, <3>2, WalkedGrows
      <3> QED BY <1>1, <2>2, <3>3 DEF WalkOK, H, mine
    <2>4. \A u \in Tasks : WalkOK(u)'
      BY <1>4, <2>2, <2>3
    <2> QED BY <1>3, <2>1, <2>4, NoWalkEnds, WalksAssembled
  <1> QED BY <1>5, <1>6

---------------------------------------------------------------------------
(* The walks of redis and keydb *)

\* Once the client is connected, what waited for it is to come to every key.
LEMMA RedisConnectedWalks == ASSUME CallsInv, WInv, RedisConnected PROVE WInv'
  <1> DEFINE a == [aux EXCEPT !.connecting = FALSE, !.open = TRUE]
             F(r) == {c \in RedisSends(r.t, r.of) : r.at # {} => c.at = r.at}
  <1>1. PICK r \in Sent(Redis, "connect") : Serve(r, db, a, F(r), job[r.t])
    BY DEF RedisConnected
  <1>2. r \in flight /\ r.do = "connect" /\ adapter \in Redis
    BY <1>1, ServedIn
  <1>3. /\ CommandOK(r, adapter, calls, now) /\ r.of = Of(r.of) /\ Calling(r.of, r.t, calls) /\ r.of.c = r.c
        /\ r.of.op \in KeyOps \cup {"clear", "iterator"}
    BY <1>2, InFlight DEF Fits
  <1> HIDE DEF a
  <1>4. Starts(r.t, r.of, RedisSends(r.t, r.of))
    <2>1. CASE r.of.op \in Walks
      BY <1>2, <2>1, RedisSendsDue
    <2>2. CASE r.of.op \in KeyOps
      <3>1. Made(r.of, r.t, calls, RedisSends(r.t, r.of))
        BY <1>2, <1>3, RedisSendsMade
      <3> QED BY <2>2, <3>1, MadeStarts
    <2> QED BY <1>3, <2>1, <2>2 DEF Walks
  <1>5. \A f \in F(r) : f.t = r.t /\ f.c = r.c /\ PaceOK(f)
    BY <1>3, <1>4 DEF Starts
  <1>6. ASSUME r.of.op \in Walks, NEW s \in In(r.of.ns) PROVE \E f \in F(r) : Due(f, adapter, s)
    <2>1. r.at = {}
      <3>1. r.of.op \notin Routed
        BY <1>6 DEF Walks, Routed
      <3> QED BY <1>2, <1>3, <3>1 DEF CommandOK
    <2> QED BY <1>4, <1>6, <2>1 DEF Starts
  <1> HIDE DEF F
  <1> QED BY <1>1, <1>2, <1>5, <1>6, WalkStays

LEMMA RedisServesWalks == ASSUME CallsInv, WInv, RedisServes PROVE WInv'
  <1>1. CASE RedisScanned
    <2>1. PICK r \in Served(Redis, "scan") : \E ks \in Scan(r.of.ns, None, r.with) :
             Serve(r, db, aux, AfterPage(r, ks), job[r.t])
      BY <1>1, Zenon DEF RedisScanned
    <2>2. PICK ks \in Scan(r.of.ns, None, r.with) : Serve(r, db, aux, AfterPage(r, ks), job[r.t])
      BY <2>1
    <2>3. r \in flight /\ r.do = "scan"
      BY <2>1, ServedIn
    <2> QED BY <2>2, <2>3, WalkScanned
  <1>2. CASE RedisYields
    <2>1. PICK r \in Served(Redis, "mget") :
             Serve(r, db, aux, NextPage(r, r.with[2]), Yielded(job[r.t], r.with[1]))
      BY <1>2, Zenon DEF RedisYields
    <2>2. r \in flight /\ r.do = "mget"
      BY <2>1, ServedIn
    <2> QED BY <2>1, <2>2, WalkYields
  <1>3. CASE RedisCleared
    <2>1. PICK r \in Served(Redis, "clear") : Serve(r, Drop(db, r.with), aux, {}, job[r.t])
      BY <1>3, Zenon DEF RedisCleared
    <2>2. r \in flight /\ r.do = "clear"
      BY <2>1, ServedIn
    <2> QED BY <2>1, <2>2, WalkCleared
  <1>4. CASE RedisClosed
    <2>1. PICK r \in Sent(Redis, "close") : Serve(r, db, aux, {}, job[r.t])
      BY <1>4 DEF RedisClosed
    <2>2. r \in flight /\ r.do = "close"
      BY <2>1, ServedIn
    <2> QED BY <2>1, <2>2, WalkBeside
  <1>5. CASE RedisTimedOut
    BY <1>5, GiveUpWalks DEF RedisTimedOut, TimedOut
  <1> QED BY <1>1, <1>2, <1>3, <1>4, <1>5, RedisConnectedWalks, RedisFailsWalks, RedisKeysServed,
             RedisScannedToClearWalks DEF RedisServes

LEMMA RedisCallWalks ==
    ASSUME CallsInv, WInv, adapter \in Redis, NEW t \in Tasks, NEW j, Fresh(j, t, calls + 1), Begun(j),
           RedisCall(t, j)
    PROVE  WInv'
  <1> DEFINE n == calls + 1
             sends == RedisSends(t, j)
             unrouted == Unrouted(t, j)
             a == [aux EXCEPT !.connecting = TRUE]
             connect(I) == Command(t, j, "connect", I, {})
  <1>1. Calling(j, t, n) /\ j.op \in KeyOps \cup {"clear", "iterator"}
    BY DEF Calling, Fresh, CallsInv, Types, RedisCall
  <1>2. Starts(t, j, sends)
    <2>1. CASE j.op \in Walks
      BY <2>1, RedisSendsDue
    <2>2. CASE j.op \in KeyOps
      <3>1. Made(j, t, n, sends)
        BY <1>1, RedisSendsMade
      <3> QED BY <2>2, <3>1, MadeStarts
    <2> QED BY <1>1, <2>1, <2>2 DEF Walks
  <1>3. (unrouted # {} => j.op \notin Walks) /\ \A f \in unrouted : f.t = t /\ f.c = j.c /\ f.do \in Still
    <2>1. unrouted # {} => j.op \notin Walks
      BY DEF Unrouted, Walks
    <2>2. \A I : LET f == Command(t, j, "unrouted", I, {}) IN f.t = t /\ f.c = j.c /\ f.do \in Still
      BY CommandIs DEF Still
    <2> QED BY <2>1, <2>2 DEF Unrouted
  <1>4. \A I : connect(I).t = t /\ connect(I).c = j.c /\ connect(I).do = "connect" /\ connect(I).of = Of(j)
    BY CommandIs
  <1>5. \/ EnterWith(t, j, sends, aux)
        \/ unrouted # {} /\ EnterWith(t, j, unrouted, aux)
        \/ EnterWith(t, j, {connect({})}, a)
        \/ unrouted # {} /\ \E I \in Groups(j) : EnterWith(t, j, {connect(I)} \cup {r \in unrouted : r.at # I}, a)
    BY DEF RedisCall, Enter
  <1> HIDE DEF sends, unrouted, a, connect
  <1>6. CASE EnterWith(t, j, sends, aux)
    BY <1>2, <1>6, WalkEntered
  <1>7. CASE unrouted # {} /\ EnterWith(t, j, unrouted, aux)
    BY <1>3, <1>7, StillStarts, WalkEntered
  <1>8. CASE EnterWith(t, j, {connect({})}, a)
    <2>1. PaceOK(connect({}))
      BY <1>4, StillPace DEF Still
    <2>2. \A s \in In(j.ns) : Due(connect({}), adapter, s)
      BY <1>4, DueIs DEF Of
    <2>3. Starts(t, j, {connect({})})
      BY <1>4, <2>1, <2>2 DEF Starts
    <2> QED BY <1>8, <2>3, WalkEntered
  <1>9. ASSUME unrouted # {}, NEW I, EnterWith(t, j, {connect(I)} \cup {r \in unrouted : r.at # I}, a) PROVE WInv'
    <2> DEFINE F == {connect(I)} \cup {r \in unrouted : r.at # I}
    <2>1. \A f \in F : f.t = t /\ f.c = j.c /\ f.do \in Still
      BY <1>3, <1>4 DEF Still
    <2>2. EnterWith(t, j, F, a) /\ j.op \notin Walks
      BY <1>3, <1>9
    <2> HIDE DEF F
    <2>3. Starts(t, j, F)
      BY <2>1, <2>2, StillStarts
    <2> QED BY <2>2, <2>3, WalkEntered
  <1> QED BY <1>5, <1>6, <1>7, <1>8, <1>9

LEMMA RedisDisconnectWalks ==
    ASSUME CallsInv, WInv, NEW t \in Tasks, NEW j, Fresh(j, t, calls + 1), Begun(j), RedisDisconnect(t, j) PROVE WInv'
  <1> DEFINE F == IF aux.open \/ aux.connecting THEN {Command(t, j, "close", {}, {})} ELSE {}
             a == [aux EXCEPT !.open = FALSE, !.connecting = FALSE]
  <1>1. j.op \notin Walks /\ EnterWith(t, j, F, a)
    BY DEF RedisDisconnect, Walks
  <1>2. \A f \in F : f.t = t /\ f.c = j.c /\ f.do \in Still
    <2>1. LET f == Command(t, j, "close", {}, {}) IN f.t = t /\ f.c = j.c /\ f.do \in Still
      BY CommandIs DEF Still
    <2> QED BY <2>1
  <1> HIDE DEF F, a
  <1>3. Starts(t, j, F)
    BY <1>1, <1>2, StillStarts
  <1> QED BY <1>1, <1>3, WalkEntered

LEMMA NewJobBegun == ASSUME NEW op, NEW ns, NEW ks, NEW live PROVE Begun(NewJob(op, ns, ks, live))
  BY DEF Begun, NewJob

LEMMA RedisNextWalks == ASSUME CallsInv, WInv, RedisNext PROVE WInv'
  <1>1. ASSUME adapter = "redis", NEW t \in Tasks, NewCall(t, RedisCall) PROVE WInv'
    <2>1. PICK op \in Ops[t], ns \in Namespaces, ks \in Batches :
             /\ (op \in SingleOps <=> Len(ks) = 1) /\ (op \notin KeyOps => ks = <<>>)
             /\ \E live \in IF op \in WriteOps THEN Lives[adapter] ELSE {None} : RedisCall(t, NewJob(op, ns, ks, live))
      BY <1>1 DEF NewCall
    <2>2. PICK live \in IF op \in WriteOps THEN Lives[adapter] ELSE {None} : RedisCall(t, NewJob(op, ns, ks, live))
      BY <2>1
    <2>3. op \in KeyOps \cup WalkOps
      BY <2>2, NewJobOp, OpSets DEF RedisCall
    <2>4. Fresh(NewJob(op, ns, ks, live), t, calls + 1) /\ Begun(NewJob(op, ns, ks, live))
      BY <2>1, <2>3, CallFresh, NewJobBegun
    <2> QED BY <1>1, <2>2, <2>4, RedisCallWalks DEF Redis
  <1>2. ASSUME NEW t \in Tasks, NewCall(t, RedisDisconnect) PROVE WInv'
    <2>1. PICK op \in Ops[t], ns \in Namespaces, ks \in Batches :
             /\ (op \in SingleOps <=> Len(ks) = 1) /\ (op \notin KeyOps => ks = <<>>)
             /\ \E live \in IF op \in WriteOps THEN Lives[adapter] ELSE {None} :
                   RedisDisconnect(t, NewJob(op, ns, ks, live))
      BY <1>2 DEF NewCall
    <2>2. PICK live \in IF op \in WriteOps THEN Lives[adapter] ELSE {None} : RedisDisconnect(t, NewJob(op, ns, ks, live))
      BY <2>1
    <2>3. op \in KeyOps \cup WalkOps
      BY <2>2, NewJobOp, OpSets DEF RedisDisconnect
    <2>4. Fresh(NewJob(op, ns, ks, live), t, calls + 1) /\ Begun(NewJob(op, ns, ks, live))
      BY <2>1, <2>3, CallFresh, NewJobBegun
    <2> QED BY <2>2, <2>4, RedisDisconnectWalks
  <1> QED BY <1>1, <1>2, RedisServesWalks DEF RedisNext

LEMMA KeydbNextWalks == ASSUME CallsInv, WInv, KeydbNext PROVE WInv'
  <1>1. PICK t \in Tasks : adapter = "keydb" /\ NewCall(t, KeydbCall)
    BY DEF KeydbNext
  <1>2. PICK op \in Ops[t], ns \in Namespaces, ks \in Batches :
           /\ (op \in SingleOps <=> Len(ks) = 1) /\ (op \notin KeyOps => ks = <<>>)
           /\ \E live \in IF op \in WriteOps THEN Lives[adapter] ELSE {None} : KeydbCall(t, NewJob(op, ns, ks, live))
    BY <1>1 DEF NewCall
  <1>3. PICK live \in IF op \in WriteOps THEN Lives[adapter] ELSE {None} : KeydbCall(t, NewJob(op, ns, ks, live))
    BY <1>2
  <1> DEFINE j == NewJob(op, ns, ks, live)
  <1>4. j.op = op /\ Begun(j)
    BY NewJobOp, NewJobBegun
  <1>5. KeydbCall(t, j)
    BY <1>3
  <1> HIDE DEF j
  <1>6. RedisCall(t, j) \/ RedisDisconnect(t, j)
    BY <1>5 DEF KeydbCall, KeydbSet, KeydbSetMany, KeydbHas, KeydbHasMany, KeydbGet, KeydbGetMany, KeydbDelete,
                KeydbDeleteMany, KeydbIterator, KeydbClear, KeydbDisconnect
  <1>7. op \in KeyOps \cup WalkOps
    BY <1>4, <1>6, OpSets DEF RedisCall, RedisDisconnect
  <1>8. Fresh(j, t, calls + 1)
    BY <1>2, <1>7, CallFresh DEF j
  <1>9. adapter \in Redis
    BY <1>1 DEF Redis
  <1> QED BY <1>4, <1>6, <1>8, <1>9, RedisCallWalks, RedisDisconnectWalks

---------------------------------------------------------------------------
(* The walks of valkey *)

LEMMA ValkeyCallWalks ==
    ASSUME CallsInv, WInv, adapter = "valkey", NEW t \in Tasks, NEW j, Fresh(j, t, calls + 1), Begun(j),
           ValkeyCall(t, j)
    PROVE  WInv'
  <1>1. ASSUME NEW F, Starts(t, j, F), Enter(t, j, F) PROVE WInv'
    BY <1>1, WalkEntered DEF Enter
  <1>2. ASSUME NEW F, j.op \notin Walks, \A f \in F : f.t = t /\ f.c = j.c /\ f.do \in Still, Enter(t, j, F) PROVE WInv'
    BY <1>1, <1>2, StillStarts
  <1>3. \A do \in {"read", "set", "delete"} : \A I, with :
           LET f == Command(t, j, do, I, with) IN f.t = t /\ f.c = j.c /\ f.do \in Still
    BY CommandIs DEF Still
  <1>4. \A do \in {"read", "set"} : \A f \in Grouped(t, j, do) : f.t = t /\ f.c = j.c /\ f.do \in Still
    BY <1>3 DEF Grouped
  <1>5. \A f \in {} : f.t = t /\ f.c = j.c /\ f.do \in Still
    OBVIOUS
  <1>6. CASE ValkeyGet(t, j) \/ ValkeyHas(t, j)
    BY <1>2, <1>3, <1>6 DEF ValkeyGet, ValkeyHas, Walks
  <1>7. CASE ValkeyGetMany(t, j)
    BY <1>2, <1>4, <1>7 DEF ValkeyGetMany, Walks
  <1>8. CASE ValkeyHasMany(t, j)
    BY <1>2, <1>4, <1>5, <1>8 DEF ValkeyHasMany, Walks
  <1>9. CASE ValkeySet(t, j)
    BY <1>2, <1>3, <1>9 DEF ValkeySet, Walks
  <1>10. CASE ValkeySetMany(t, j)
    BY <1>2, <1>4, <1>5, <1>10 DEF ValkeySetMany, Walks
  <1>11. CASE ValkeyDelete(t, j)
    BY <1>2, <1>3, <1>11 DEF ValkeyDelete, Walks
  <1>12. CASE ValkeyDeleteMany(t, j)
    <2>1. \A f \in ChunkFrom(t, j, 1) : f.t = t /\ f.c = j.c /\ f.do \in Still
      BY <1>3 DEF ChunkFrom
    <2> QED BY <1>2, <1>12, <2>1 DEF ValkeyDeleteMany, Walks
  <1>13. CASE ValkeyIterator(t, j)
    <2> DEFINE f == Command(t, j, "scan", {}, 1)
    <2>1. j.op = "iterator" /\ Enter(t, j, {f})
      BY <1>13 DEF ValkeyIterator
    <2>2. f.t = t /\ f.c = j.c /\ PaceOK(f) /\ \A s \in In(j.ns) : Due(f, adapter, s)
      BY <2>1, ScanDue
    <2> HIDE DEF f
    <2> QED BY <1>1, <2>1, <2>2 DEF Starts
  <1>14. CASE ValkeyClear(t, j)
    <2> DEFINE f1 == Command(t, j, "members", {}, <<{}, 1>>)
               f2 == Opening(t, j, {})
    <2>1. j.op = "clear" /\ (Enter(t, j, {f1}) \/ Enter(t, j, {f2}))
      BY <1>14, Zenon DEF ValkeyClear, Opening
    <2>2. f1.t = t /\ f1.c = j.c /\ f1.do = "members" /\ f1.of = Of(j)
      BY CommandIs
    <2>3. f2.t = t /\ f2.c = j.c /\ PaceOK(f2) /\ \A s \in In(j.ns) : Due(f2, adapter, s)
      BY <2>1, OpeningDue
    <2> HIDE DEF f1, f2
    <2>4. f1.of.op = "clear" /\ f1.of.ns = j.ns
      BY <2>1, <2>2 DEF Of
    <2>5. PaceOK(f1) /\ \A s \in In(j.ns) : Due(f1, adapter, s)
      BY <2>2, <2>4, ClearPace, DueIs
    <2>6. Starts(t, j, {f1}) /\ Starts(t, j, {f2})
      BY <2>2, <2>3, <2>5 DEF Starts
    <2> QED BY <1>1, <2>1, <2>6
  <1>15. CASE ValkeyDisconnect(t, j)
    <2> DEFINE a == [aux EXCEPT !.open = FALSE]
    <2>1. j.op \notin Walks /\ EnterWith(t, j, {}, a)
      BY <1>15 DEF ValkeyDisconnect, Walks
    <2> HIDE DEF a
    <2>2. Starts(t, j, {})
      BY <1>5, <2>1, StillStarts
    <2> QED BY <2>1, <2>2, WalkEntered
  <1> QED BY <1>6, <1>7, <1>8, <1>9, <1>10, <1>11, <1>12, <1>13, <1>14, <1>15 DEF ValkeyCall

LEMMA ValkeyNextWalks == ASSUME CallsInv, WInv, ValkeyNext PROVE WInv'
  <1>1. ASSUME adapter = "valkey", NEW t \in Tasks, NewCall(t, ValkeyCall) PROVE WInv'
    <2>1. PICK op \in Ops[t], ns \in Namespaces, ks \in Batches :
             /\ (op \in SingleOps <=> Len(ks) = 1) /\ (op \notin KeyOps => ks = <<>>)
             /\ \E live \in IF op \in WriteOps THEN Lives[adapter] ELSE {None} : ValkeyCall(t, NewJob(op, ns, ks, live))
      BY <1>1 DEF NewCall
    <2>2. PICK live \in IF op \in WriteOps THEN Lives[adapter] ELSE {None} : ValkeyCall(t, NewJob(op, ns, ks, live))
      BY <2>1
    <2> DEFINE j == NewJob(op, ns, ks, live)
    <2>3. j.op = op /\ Begun(j)
      BY NewJobOp, NewJobBegun
    <2>4. ValkeyCall(t, j)
      BY <2>2
    <2> HIDE DEF j
    <2>5. j.op \in KeyOps \cup WalkOps
      <3>1. j.op \in {"get", "has", "getMany", "hasMany", "set", "setMany", "delete", "deleteMany", "clear",
                      "iterator", "disconnect"}
        BY <2>4 DEF ValkeyCall, ValkeyGet, ValkeyHas, ValkeyGetMany, ValkeyHasMany, ValkeySet, ValkeySetMany,
                    ValkeyDelete, ValkeyDeleteMany, ValkeyClear, ValkeyIterator, ValkeyDisconnect
      <3> QED BY <3>1, OpSets
    <2>6. Fresh(j, t, calls + 1)
      BY <2>1, <2>3, <2>5, CallFresh DEF j
    <2> QED BY <1>1, <2>3, <2>4, <2>6, ValkeyCallWalks
  <1>2. CASE ValkeyForgotten
    <2>1. PICK r \in Vk("forget") : Serve(r, db, [aux EXCEPT !.index = @ \ r.with], {}, job[r.t])
      BY <1>2 DEF ValkeyForgotten
    <2> DEFINE a == [aux EXCEPT !.index = @ \ r.with]
    <2>2. r \in flight /\ r.do = "forget" /\ Serve(r, db, a, {}, job[r.t])
      BY <2>1, VkIn
    <2> HIDE DEF a
    <2> QED BY <2>2, WalkBeside
  <1>3. CASE ValkeyCleared
    <2>1. PICK r \in Vk("clear") : Serve(r, Drop(db, r.with), aux, {}, job[r.t])
      BY <1>3 DEF ValkeyCleared
    <2>2. r \in flight /\ r.do = "clear"
      BY <2>1, VkIn
    <2> QED BY <2>1, <2>2, WalkCleared
  <1>4. CASE ValkeyScanned
    <2>1. PICK r \in Vk("scan") : \E ks \in Scan(r.of.ns, None, r.with) :
             Serve(r, db, aux, AfterPage(r, ks), job[r.t])
      BY <1>4, Zenon DEF ValkeyScanned
    <2>2. PICK ks \in Scan(r.of.ns, None, r.with) : Serve(r, db, aux, AfterPage(r, ks), job[r.t])
      BY <2>1
    <2>3. r \in flight /\ r.do = "scan"
      BY <2>1, VkIn
    <2> QED BY <2>2, <2>3, WalkScanned
  <1>5. CASE ValkeyYields
    <2>1. PICK r \in Vk("mget") :
             Serve(r, db, aux, NextPage(r, r.with[2]), Yielded(job[r.t], r.with[1]))
      BY <1>5, Zenon DEF ValkeyYields
    <2>2. r \in flight /\ r.do = "mget"
      BY <2>1, VkIn
    <2> QED BY <2>1, <2>2, WalkYields
  <1>6. CASE ValkeyTimedOut
    BY <1>6, GiveUpWalks DEF ValkeyTimedOut, TimedOut
  <1> QED BY <1>1, <1>2, <1>3, <1>4, <1>5, <1>6, ValkeyKeysServed, ValkeyFailsWalks, ValkeyMembersWalks,
             ValkeyScannedToClearWalks DEF ValkeyNext

---------------------------------------------------------------------------
(* Every walk *)

LEMMA InitWalks == ASSUME Init PROVE WInv
  <1>1. job = [t \in Tasks |-> Idle] /\ flight = {} /\ reply = Idle
    BY DEF Init, CallsInit
  <1> QED BY <1>1 DEF WInv, WalkOK, WalksComplete, ClearComplete, IterationComplete, Ended

LEMMA StutterWalks == ASSUME WInv, UNCHANGED vars PROVE WInv'
  <1>1. adapter' = adapter /\ job' = job /\ flight' = flight /\ reply' = reply /\ seen' = seen
    BY DEF vars
  <1>2. (\A r \in flight : PaceOK(r))'
    BY <1>1 DEF WInv
  <1>3. ASSUME NEW t \in Tasks PROVE WalkOK(t)'
    BY <1>1 DEF WInv, WalkOK
  <1>4. WalksComplete'
    BY <1>1 DEF WInv, WalksComplete, ClearComplete, IterationComplete, Ended
  <1> QED BY <1>2, <1>3, <1>4 DEF WInv

\* Going through a namespace passes nothing that is there all the time, although SCAN
\* returns it page by page, some of them empty, while others write: when clear ends every
\* key it is to clear was gone at some moment of the call, and the iterator yields each
\* key with a value it held meanwhile, and every key that was there all the time (clear
\* and iterator, index.ts of redis, keydb and valkey).
THEOREM WalksStayComplete == Spec => []WalksComplete
  <1>1. Init => WInv
    BY InitWalks
  <1>2. IInv /\ WInv /\ [Next]_vars => WInv'
    <2>1. ASSUME IInv, WInv, Next PROVE WInv'
      BY <2>1, RedisNextWalks, KeydbNextWalks, ValkeyNextWalks, TickWalks DEF Next, IInv
    <2> QED BY <2>1, StutterWalks
  <1>3. WInv => WalksComplete
    BY DEF WInv
  <1> QED BY <1>1, <1>2, <1>3, Invariance, PTL DEF Spec
=============================================================================
