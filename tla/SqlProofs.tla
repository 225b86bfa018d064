----------------------------- MODULE SqlProofs -----------------------------
(***************************************************************************)
(* Proofs about the SQL adapters, for every number of callers, keys,       *)
(* batches and namespaces, and every size of chunks and pages.             *)
(*                                                                         *)
(* A caller has one statement in flight at a time, and that statement says *)
(* how far its call is: which entries are answered for good (Settled), and *)
(* which it is about.  Every action is a start of a call, a move of one, a *)
(* failure, a removal of expired rows, or a tick (NextSplits); each of     *)
(* these is then shown to keep the invariant, whatever the adapter.  Of an *)
(* iteration the invariant says (Walked) that it has passed no key up to   *)
(* the last it yielded, which a page of the next keys keeps (PageWalks).   *)
(***************************************************************************)
EXTENDS SqlAdapters, FiniteSetTheorems, WellFoundedInduction, TLAPS

---------------------------------------------------------------------------
(* Calls and their statements *)

WalkOps == {"clear", "iterator", "clearExpired", "disconnect"}

\* The calls that are cut into chunks.
Chunked(op) == op = "deleteMany" \/ (adapter = "sqlite" /\ op \in {"getMany", "hasMany", "setMany"})

\* A call is a record with these fields.
Fields == {"op", "c", "ns", "keys", "live", "at", "i", "last", "out", "put", "failed", "unsure", "over", "res"}
IsJob(j) == j = [f \in Fields |-> j[f]]

\* What a statement knows of its call, and what of it stays until it ends.
Of(j) == [c |-> j.c, op |-> j.op, ns |-> j.ns, keys |-> j.keys, live |-> j.live, at |-> j.at]
Positions == UNION {DOMAIN b : b \in Batches}

CallOK(j) ==
    /\ IsJob(j) /\ j.op \in KeyOps \cup WalkOps /\ j.c \in Nat \ {0}
    /\ j.ns \in Namespaces /\ j.keys \in Seq(Keys) /\ All(j) \subseteq Positions
    /\ j.live \in Int \cup {None} /\ j.at \in Nat /\ j.i \in Nat \ {0}
    /\ j.put \subseteq All(j) /\ j.failed \in BOOLEAN /\ j.unsure = {} /\ DOMAIN j.res = All(j)
    /\ j.over = In(j.ns)

\* j is a call t has made, when there were n and it was time at.
Underway(t, j, n, at) == CallOK(j) /\ j.op \in Ops[t] /\ j.c <= n /\ j.at <= at

\* The call goes on as k.
Onward(j, k) == CallOK(k) /\ Of(k) = Of(j) /\ k.put = j.put

\* The entries the next statement of a call is about.
Due(j) == IF Chunked(j.op) THEN Chunk(j) ELSE All(j)

Fits(do, op) ==
    \/ do \in {"select", "sweep"} /\ op \in ReadOps \cup HasOps
    \/ do = "existing" /\ op = "deleteMany"
    \/ do = "delete" /\ op \in DeleteOps
    \/ do = "upsert" /\ op \in WriteOps
    \/ do = "clear" /\ op = "clear"
    \/ do \in {"page", "pull"} /\ op = "iterator"
    \/ do = "expire" /\ op = "clearExpired"
    \/ do = "end" /\ op = "disconnect"

\* r is a statement of the call j of t.
Well(r, t, j) ==
    /\ r.t = t /\ r.c = j.c /\ r.of = Of(j) /\ Fits(r.do, j.op) /\ r.at \subseteq All(j)
    /\ r.do \in {"select", "existing", "delete", "upsert"} => r.at = Due(j)
    /\ r.do = "sweep" => r.with \subseteq Slots
    /\ r.do = "expire" => r.with = j.at
    /\ r.do = "page" => r.with \in Int /\ j.at <= r.with /\ r.with <= now

Types ==
    /\ adapter \in Adapters /\ now \in 0..MaxTime[adapter] /\ calls \in 0..MaxCalls
    /\ db \in [Slots -> Rows] /\ job = [t \in Tasks |-> job[t]]

CallsInv ==
    /\ Types
    /\ \A t \in Tasks : job[t] = Idle \/ Underway(t, job[t], calls, now)
    /\ \A r \in flight : r.t \in Tasks /\ job[r.t] # Idle /\ Well(r, r.t, job[r.t])
    /\ \A r, q \in flight : r.t = q.t => r = q
    /\ \A t \in Tasks : job[t] # Idle => \E r \in flight : r.t = t

---------------------------------------------------------------------------
(* Answers so far *)

\* The entries answered for good while statement r of the call j is in flight.
Settled(r, j) ==
    {i \in All(j) : IF Chunked(j.op) THEN i < j.i ELSE r.do = "sweep"}

\* What an iteration that saw H need not yield any more.
Passed(j, H, k) == None \in H[<<j.ns, k>>] \/ \E i \in DOMAIN j.out : j.out[i].key = k

\* An iteration has yielded keys in their order, none beyond the last of the page
\* before, with values it saw, and all it must up to that key.
Walked(j, H) ==
    /\ j.out \in Seq([key : Keys, val : Values]) /\ j.last \in Keys \cup {None}
    /\ \A i, m \in DOMAIN j.out : i < m => Before(j.out[i].key, j.out[m].key)
    /\ \A i \in DOMAIN j.out : /\ j.last # None /\ (j.out[i].key = j.last \/ Before(j.out[i].key, j.last))
                              /\ j.out[i].val \in H[<<j.ns, j.out[i].key>>]
    /\ j.last # None => \A k \in Keys : ~Before(j.last, k) => Passed(j, H, k)

\* The answers of a call that saw H, of which the entries S are final.
AnswersOK(j, S, H) ==
    /\ j.op \in ReadOps => \A i \in All(j) : /\ j.res[i] = None \/ j.res[i] \in H[Slot(j, i)]
                                             /\ i \in S => j.res[i] \in H[Slot(j, i)]
    /\ j.op \in HasOps => \A i \in All(j) : /\ j.res[i] \in BOOLEAN
                                            /\ j.res[i] => \E x \in H[Slot(j, i)] : x \notin {None, Stale}
                                            /\ (i \in S /\ ~j.res[i]) => None \in H[Slot(j, i)]
    /\ j.op \in WriteOps => \A i \in All(j) : /\ j.res[i] \in BOOLEAN /\ (j.res[i] => i \in j.put)
                                              /\ (i \in j.put /\ ~j.failed) => j.res[i]
    /\ j.op \in DeleteOps => \A i \in All(j) : /\ j.res[i] \in BOOLEAN
                                               /\ j.res[i] => \E x \in H[Slot(j, i)] : x # None
                                               /\ i \in S => None \in H[Slot(j, i)]
    /\ j.op = "iterator" => Walked(j, H)

\* A call that goes through a namespace, and saw H, missed nothing.
WalkDone(j, H) ==
    ~j.failed => /\ j.op = "clear" => \A s \in In(j.ns) : None \in H[s]
                 /\ j.op = "iterator" => \A k \in Keys : Passed(j, H, k)

\* What the keys of a call hold now it has seen.
Noted(j, H) == \A s \in Concerns(j) : Looks(db[s], j.at, now) \subseteq H[s]

AnswersAt(t) ==
    job[t] # Idle =>
        /\ Noted(job[t], seen[t])
        /\ \A r \in flight : r.t = t => AnswersOK(job[t], Settled(r, job[t]), seen[t])
AnswersInv == \A t \in Tasks : AnswersAt(t)

\* What a sweep is to delete has expired, is gone, or was written during its call.
SweptInv ==
    \A r \in flight : r.do = "sweep" =>
        \A s \in r.with : s \in dirty[r.of.c] \/ db[s] = None \/ Expired(db[s], now)

SqlInv == CallsInv /\ AnswersInv

\* What a call that ended promises.
Promises == ReadsCurrent /\ EffectsReported /\ WalksExact

---------------------------------------------------------------------------
(* The moves of a call *)

\* The rows become d in the course of statement r: none is lost but those that
\* have expired and those r is to remove.
Loses(r, d) ==
    /\ d \in [Slots -> Rows]
    /\ \A s \in Slots : (db[s] # None /\ d[s] = None) =>
          \/ Expired(db[s], now)
          \/ r.do = "delete" /\ s \in SlotsAt(r.of, r.at)
          \/ r.do = "clear" /\ s \in In(r.of.ns)
          \/ r.do = "sweep" /\ s \in r.with

\* The statement that follows r, if any.
Follows(r, d, F, j) ==
    F = {} \/ \E f : /\ F = {f} /\ Well(f, r.t, j) /\ f # r
                     /\ f.do = "sweep" => \A s \in f.with : Expired(d[s], now)

After(r, d, j)  == [j EXCEPT !.put = @ \cup Taken(r, d)]
Sights(r, d, j) == More(seen[r.t], Concerns(j), d, j.at, now)
Answers(r, d, F, j) ==
    /\ F = {} => AnswersOK(After(r, d, j), All(j), Sights(r, d, j)) /\ WalkDone(After(r, d, j), Sights(r, d, j))
    /\ \A f \in F : AnswersOK(After(r, d, j), Settled(f, j), Sights(r, d, j))

Move(r, d, F, j) ==
    Onward(job[r.t], j) /\ Loses(r, d) /\ Follows(r, d, F, j) /\ Answers(r, d, F, j)

\* A call j of t starts: with a statement, or it has no keys and is over.
Start(t, j, F) ==
    /\ IsJob(j) /\ j.op \in KeyOps \cup WalkOps /\ j.op \in Ops[t] /\ j.c = calls + 1
    /\ j.ns \in Namespaces /\ j.keys \in Seq(Keys) /\ All(j) \subseteq Positions
    /\ j.live \in Int \cup {None} /\ j.at = now /\ j.i = 1 /\ j.put = {} /\ j.failed = FALSE /\ j.unsure = {}
    /\ j.res = [i \in All(j) |-> IF j.op \in ReadOps THEN None ELSE FALSE]
    /\ j.last = None /\ j.out = <<>> /\ j.over = In(j.ns)
    /\ \/ F = {} /\ All(j) = {} /\ j.op \in KeyOps
       \/ \E f : F = {f} /\ f.t = t /\ Well(f, t, j) /\ f.do # "sweep"

\* Nothing is lost but what has expired.
Passes(d) ==
    /\ d \in [Slots -> Rows]
    /\ \A s \in Slots : (db[s] # None /\ d[s] = None) => Expired(db[s], now)

---------------------------------------------------------------------------
(* Rows and what they look like *)

LEMMA SlotIn == ASSUME NEW j, CallOK(j), NEW i \in All(j) PROVE Slot(j, i) \in Slots
  BY DEF CallOK, All, Slot, Slots

\* A row in the table is visible, or expired, to every call.
LEMMA RowLooks ==
    ASSUME NEW row \in Rows, NEW at \in Nat, NEW n \in Nat, at <= n
    PROVE  /\ row # None /\ ~Expired(row, at) => row.val \in Looks(row, at, n) /\ row.val \notin {None, Stale}
           /\ row = None \/ Expired(row, at) => None \in Looks(row, at, n)
           /\ row # None => \E x \in Looks(row, at, n) : x # None
  <1>1. row # None => row.val \in Values /\ row.exp \in Int \cup {None}
    BY DEF Rows, Row
  <1>2. row # None => row.val \notin {None, Stale} /\ Stale # None
    BY <1>1, CallsAssumption
  <1>3. Expired(row, at) => row # None /\ Expired(row, n)
    BY <1>1, CallsAssumption DEF Expired
  <1> QED BY <1>1, <1>2, <1>3 DEF Looks, Visible

LEMMA RowsOf ==
    ASSUME NEW v \in Values, NEW e \in Int \cup {None} PROVE [val |-> v, exp |-> e] \in Rows \ {None}
  BY CallsAssumption DEF Rows, Row

LEMMA DropRows ==
    ASSUME NEW S, db \in [Slots -> Rows]
    PROVE  /\ Drop(db, S) \in [Slots -> Rows]
           /\ \A s \in Slots : Drop(db, S)[s] = IF s \in S THEN None ELSE db[s]
  BY DEF Drop, Rows

---------------------------------------------------------------------------
(* What a move does *)

LEMMA ServeEffect ==
    ASSUME CallsInv, NEW r \in flight, NEW d, NEW a, NEW F, NEW j, Move(r, d, F, j), Serve(r, d, a, F, j)
    PROVE  /\ db' = d /\ adapter' = adapter /\ now' = now /\ calls' = calls /\ Witness
           /\ flight' = (flight \ {r}) \cup F
           /\ F = {} => /\ reply' = [job |-> After(r, d, j), seen |-> Sights(r, d, j)]
                        /\ job' = [job EXCEPT ![r.t] = Idle]
           /\ F # {} => reply' = Idle /\ job' = [job EXCEPT ![r.t] = After(r, d, j)]
  <1>1. r.t \in Tasks /\ job[r.t] # Idle /\ r.c = job[r.t].c
    BY DEF CallsInv, Well
  <1>2. Live(r)
    BY <1>1 DEF Live
  <1>3. \A q \in flight \ {r} : q.t # r.t
    BY DEF CallsInv
  <1>4. j.c = job[r.t].c
    BY DEF Move, Onward, Of
  <1>5. Mine((flight \ {r}) \cup F, r.t, r.c) = {} <=> F = {}
    <2>1. F = {} => Mine((flight \ {r}) \cup F, r.t, r.c) = {}
      BY <1>3 DEF Mine
    <2>2. ASSUME F # {} PROVE Mine((flight \ {r}) \cup F, r.t, r.c) # {}
      <3>1. PICK f : F = {f} /\ Well(f, r.t, j)
        BY <2>2 DEF Move, Follows
      <3>2. f.t = r.t /\ f.c = r.c
        BY <3>1, <1>1, <1>4 DEF Well
      <3> QED BY <3>1, <3>2 DEF Mine
    <2> QED BY <2>1, <2>2
  <1> QED BY <1>2, <1>5 DEF Serve, Step, After, Sights

LEMMA AfterOK ==
    ASSUME CallsInv, NEW r \in flight, NEW d, NEW j, Onward(job[r.t], j)
    PROVE  /\ CallOK(After(r, d, j)) /\ Of(After(r, d, j)) = Of(j) /\ After(r, d, j) # Idle
           /\ After(r, d, j).i = j.i /\ After(r, d, j).res = j.res /\ After(r, d, j).failed = j.failed
           /\ After(r, d, j).put = j.put \cup Taken(r, d)
           /\ All(After(r, d, j)) = All(j)
           /\ After(r, d, j).out = j.out /\ After(r, d, j).last = j.last /\ After(r, d, j).over = j.over
  <1> DEFINE k == After(r, d, j)
  <1>1. CallOK(j)
    BY DEF Onward
  <1>2. /\ IsJob(k) /\ k.put = j.put \cup Taken(r, d)
        /\ k.op = j.op /\ k.c = j.c /\ k.ns = j.ns /\ k.keys = j.keys /\ k.live = j.live /\ k.at = j.at
        /\ k.i = j.i /\ k.res = j.res /\ k.failed = j.failed /\ k.unsure = j.unsure
        /\ k.over = j.over /\ k.out = j.out /\ k.last = j.last
    BY <1>1 DEF CallOK, IsJob, Fields, After
  <1> HIDE DEF k
  <1>3. All(k) = All(j) /\ Of(k) = Of(j)
    BY <1>2 DEF All, Of
  <1>4. r.at \subseteq All(j)
    <2>1. r.at \subseteq All(job[r.t]) /\ job[r.t].keys = j.keys
      BY DEF CallsInv, Well, Onward, Of
    <2> QED BY <2>1 DEF All
  <1>5. k.put \subseteq All(k)
    BY <1>1, <1>2, <1>3, <1>4 DEF Taken, CallOK
  <1>6. k # Idle
    BY <1>1, <1>2 DEF Idle, CallOK, KeyOps, ReadOps, HasOps, WriteOps, DeleteOps, WalkOps
  <1>7. CallOK(k)
    BY <1>1, <1>2, <1>3, <1>5 DEF CallOK
  <1> QED BY <1>2, <1>3, <1>6, <1>7 DEF k

LEMMA MoveCalls ==
    ASSUME CallsInv, NEW r \in flight, NEW d, NEW a, NEW F, NEW j, Move(r, d, F, j), Serve(r, d, a, F, j)
    PROVE  CallsInv'
  <1> DEFINE k == After(r, d, j)
  <1>1. /\ db' = d /\ adapter' = adapter /\ now' = now /\ calls' = calls
        /\ flight' = (flight \ {r}) \cup F
        /\ F = {} => job' = [job EXCEPT ![r.t] = Idle]
        /\ F # {} => job' = [job EXCEPT ![r.t] = k]
    BY ServeEffect
  <1>2. CallOK(k) /\ Of(k) = Of(j) /\ k # Idle /\ k.i = j.i /\ All(k) = All(j)
    BY AfterOK DEF Move
  <1> HIDE DEF k
  <1>3. r.t \in Tasks /\ job[r.t] # Idle /\ Of(j) = Of(job[r.t]) /\ job = [t \in Tasks |-> job[t]]
    BY DEF CallsInv, Move, Onward, Types
  <1>4. k.op = job[r.t].op
    BY <1>2, <1>3 DEF Of
  <1>5. \A t \in Tasks : t # r.t => job'[t] = job[t]
    BY <1>1, <1>3
  <1>6. F # {} => job'[r.t] = k
    BY <1>1, <1>3
  <1>7. F = {} => job'[r.t] = Idle
    BY <1>1, <1>3
  <1>8. \A f \in F : F = {f} /\ Well(f, r.t, j)
    BY DEF Move, Follows
  <1>9. \A f \in F : Well(f, r.t, k)
    <2>1. k.op = j.op /\ k.c = j.c /\ k.keys = j.keys /\ k.at = j.at
      BY <1>2 DEF Of
    <2> QED BY <1>2, <1>8, <2>1 DEF Well, Due, Chunk, All
  <1>10. Types'
    <2>1. job' = [t \in Tasks |-> job'[t]]
      BY <1>1, <1>3
    <2> QED BY <1>1, <2>1 DEF CallsInv, Types, Move, Loses
  <1>11. \A t \in Tasks : job'[t] = Idle \/ Underway(t, job'[t], calls, now)
    <2>1. \A t \in Tasks : job[t] = Idle \/ Underway(t, job[t], calls, now)
      BY DEF CallsInv
    <2>2. Underway(r.t, k, calls, now)
      <3>1. k.c = job[r.t].c /\ k.at = job[r.t].at
        BY <1>2, <1>3 DEF Of
      <3> QED BY <1>2, <1>3, <1>4, <2>1, <3>1 DEF Underway
    <2> QED BY <2>1, <2>2, <1>5, <1>6, <1>7
  <1>12. \A q \in flight' : q.t \in Tasks /\ job'[q.t] # Idle /\ Well(q, q.t, job'[q.t])
    <2>1. ASSUME NEW q \in flight \ {r} PROVE q.t # r.t /\ q.t \in Tasks /\ job[q.t] # Idle /\ Well(q, q.t, job[q.t])
      BY DEF CallsInv
    <2>2. ASSUME NEW q \in F PROVE q.t = r.t /\ Well(q, r.t, k)
      BY <1>8, <1>9 DEF Well
    <2> QED BY <1>1, <1>2, <1>3, <1>5, <1>6, <2>1, <2>2
  <1>13. \A q, p \in flight' : q.t = p.t => q = p
    <2>1. \A q \in flight \ {r} : q.t # r.t
      BY DEF CallsInv
    <2>2. \A q \in F : q.t = r.t
      BY <1>8 DEF Well
    <2>3. \A q, p \in F : q = p
      BY <1>8
    <2> QED BY <1>1, <2>1, <2>2, <2>3 DEF CallsInv
  <1>14. \A t \in Tasks : job'[t] # Idle => \E q \in flight' : q.t = t
    <2>1. ASSUME NEW t \in Tasks, t # r.t, job'[t] # Idle PROVE \E q \in flight' : q.t = t
      BY <1>1, <1>5, <2>1 DEF CallsInv
    <2>2. ASSUME job'[r.t] # Idle PROVE \E q \in flight' : q.t = r.t
      BY <1>1, <1>7, <1>8, <2>2 DEF Well
    <2> QED BY <2>1, <2>2
  <1> QED BY <1>1, <1>10, <1>11, <1>12, <1>13, <1>14
         DEF CallsInv, Well, Due, Chunked

---------------------------------------------------------------------------
(* What is seen *)

LEMMA ConcernsSlots == ASSUME NEW j, CallOK(j) PROVE Concerns(j) \subseteq Slots
  <1>1. j.op \in KeyOps \ WriteOps => Concerns(j) = {Slot(j, i) : i \in All(j)}
    BY DEF Concerns, Slot, All, WriteOps
  <1>2. j.op \in WriteOps \/ j.op \in WalkOps => Concerns(j) \in {{}, Slots}
    BY DEF Concerns, WriteOps, KeyOps, ReadOps, HasOps, DeleteOps, WalkOps
  <1> QED BY <1>1, <1>2, SlotIn DEF CallOK

\* The keys of reads and deletions are concerned.
LEMMA KeysConcern ==
    ASSUME NEW j, CallOK(j), j.op \in KeyOps \ WriteOps, NEW i \in All(j) PROVE Slot(j, i) \in Concerns(j)
  BY DEF Concerns, Slot, All

LEMMA WitnessSeen ==
    ASSUME Witness, NEW t \in Tasks, job'[t] # Idle, NEW s \in Slots
    PROVE  seen'[t][s] = (IF job[t] = Idle THEN {} ELSE seen[t][s])
                            \cup (IF s \in Concerns(job'[t]) THEN Looks(db'[s], job'[t].at, now') ELSE {})
  BY DEF Witness, More, Nothing

LEMMA WalkedGrows ==
    ASSUME NEW j, NEW H, NEW G, Walked(j, H), j.ns \in Namespaces, \A s \in Slots : H[s] \subseteq G[s]
    PROVE  Walked(j, G)
  <1>1. \A k \in Keys : H[<<j.ns, k>>] \subseteq G[<<j.ns, k>>]
    BY DEF Slots
  <1>2. \A i \in DOMAIN j.out : j.out[i].key \in Keys
    <2>1. \A R : j.out \in Seq(R) => \A i \in DOMAIN j.out : j.out[i] \in R
      OBVIOUS
    <2>2. \A i \in DOMAIN j.out : j.out[i] \in [key : Keys, val : Values]
      BY <2>1 DEF Walked
    <2> QED BY <2>2
  <1> QED BY <1>1, <1>2 DEF Walked, Passed

LEMMA AnswersGrow ==
    ASSUME NEW j, CallOK(j), NEW S, NEW H, NEW G, AnswersOK(j, S, H), \A s \in Concerns(j) : H[s] \subseteq G[s]
    PROVE  AnswersOK(j, S, G)
  <1>1. j.op \in KeyOps \ WriteOps => \A i \in All(j) : H[Slot(j, i)] \subseteq G[Slot(j, i)]
    BY KeysConcern
  <1>2. j.op = "iterator" => \A s \in Slots : H[s] \subseteq G[s]
    BY DEF Concerns, WriteOps, KeyOps, ReadOps, HasOps, DeleteOps
  <1>3. ASSUME j.op = "iterator" PROVE Walked(j, G)
    BY <1>2, <1>3, WalkedGrows DEF AnswersOK, CallOK
  <1>4. /\ j.op \in ReadOps \cup HasOps \cup DeleteOps => j.op \in KeyOps \ WriteOps
    BY DEF WriteOps, KeyOps, ReadOps, HasOps, DeleteOps
  <1> QED BY <1>1, <1>3, <1>4 DEF AnswersOK

\* A call that neither moves nor ends has seen more, and answers as before.
LEMMA OthersKeep ==
    ASSUME SqlInv, Witness, adapter' = adapter, NEW t \in Tasks, job'[t] = job[t],
           \A q \in flight' : q.t = t => q \in flight
    PROVE  AnswersAt(t)'
  <1> SUFFICES ASSUME job[t] # Idle PROVE AnswersAt(t)'
    BY DEF AnswersAt
  <1> DEFINE j == job[t]
  <1>1. CallOK(j) /\ AnswersAt(t)
    BY DEF SqlInv, CallsInv, AnswersInv, Underway
  <1>2. \A s \in Concerns(j) : s \in Slots
    BY <1>1, ConcernsSlots
  <1>3. \A s \in Slots : seen'[t][s] = seen[t][s] \cup (IF s \in Concerns(j) THEN Looks(db'[s], j.at, now') ELSE {})
    BY WitnessSeen
  <1>4. \A s \in Concerns(j) : Looks(db'[s], j.at, now') \subseteq seen'[t][s]
    BY <1>2, <1>3
  <1>5. ASSUME NEW q \in flight', q.t = t PROVE AnswersOK(j, Settled(q, j), seen'[t])
    <2>1. AnswersOK(j, Settled(q, j), seen[t])
      BY <1>1, <1>5 DEF AnswersAt
    <2>2. \A s \in Concerns(j) : seen[t][s] \subseteq seen'[t][s]
      BY <1>2, <1>3
    <2> HIDE DEF j
    <2> QED BY <1>1, <2>1, <2>2, AnswersGrow
  <1> QED BY <1>4, <1>5 DEF AnswersAt, Settled, Chunked, Noted

LEMMA BeforeOther == ASSUME NEW k, NEW l, Before(k, l) PROVE k # l
  <1>1. PICK i, m \in DOMAIN Names : i < m /\ Names[i] = k /\ Names[m] = l
    BY DEF Before
  <1>2. i \in Int /\ m \in Int /\ i # m
    BY <1>1, CallsAssumption
  <1> QED BY <1>1, <1>2, CallsAssumption

\* What the caller learns when a call ends is right.
LEMMA EndedRight ==
    ASSUME NEW k, NEW H, CallOK(k), AnswersOK(k, All(k), H), WalkDone(k, H),
           reply' = [job |-> k, seen |-> H]
    PROVE  Promises'
  <1>1. reply'.job = k /\ reply'.seen = H /\ Sure' = All(k) /\ All(reply'.job) = All(k)
    BY DEF Sure, CallOK
  <1>2. \A i : Held(i)' = H[Slot(k, i)]
    BY <1>1 DEF Held
  <1>3. \A ops : Ended(ops)' => k.op \in ops /\ ~k.failed
    BY <1>1 DEF Ended
  <1>4. ReadsCurrent'
    <2>1. Ended(ReadOps)' => \A i \in All(k) : k.res[i] \in H[Slot(k, i)]
      BY <1>3 DEF AnswersOK
    <2>2. ASSUME Ended(HasOps)', NEW i \in All(k)
          PROVE  IF k.res[i] THEN H[Slot(k, i)] \ {None, Stale} # {} ELSE None \in H[Slot(k, i)]
      <3>1. k.op \in HasOps
        BY <1>3, <2>2
      <3> QED BY <3>1 DEF AnswersOK
    <2> QED BY <1>1, <1>2, <2>1, <2>2 DEF ReadsCurrent
  <1>5. WritesReported'
    <2>1. k.op \in WriteOps => \A i \in All(k) : (k.res[i] => i \in k.put) /\ ((i \in k.put /\ ~k.failed) => k.res[i])
      BY DEF AnswersOK
    <2> QED BY <1>1, <1>3, <2>1 DEF WritesReported, TruesWritten
  <1>6. DeletesReported'
    <2>1. ASSUME Ended(DeleteOps)', NEW i \in All(k)
          PROVE  None \in H[Slot(k, i)] /\ (k.res[i] => H[Slot(k, i)] # {None})
      <3>1. k.op \in DeleteOps
        BY <1>3, <2>1
      <3> QED BY <3>1 DEF AnswersOK
    <2> QED BY <1>1, <1>2, <2>1 DEF DeletesReported
  <1>7. ClearComplete'
    <2>1. Ended({"clear"})' => k.over = In(k.ns) /\ \A s \in In(k.ns) : None \in H[s]
      BY <1>3 DEF WalkDone, CallOK
    <2> QED BY <1>1, <2>1 DEF ClearComplete
  <1>8. ASSUME Ended({"iterator"})' PROVE Walked(k, H) /\ \A l \in Keys : Passed(k, H, l)
    BY <1>3, <1>8 DEF WalkDone, AnswersOK
  <1>9. IterationComplete'
    <2>1. ASSUME Ended({"iterator"})', NEW i \in DOMAIN k.out PROVE k.out[i].val \in H[<<k.ns, k.out[i].key>>]
      BY <1>8, <2>1 DEF Walked
    <2>2. ASSUME Ended({"iterator"})', NEW s \in In(k.ns), None \notin H[s]
          PROVE  \E i \in DOMAIN k.out : k.out[i].key = s[2]
      <3>1. s[2] \in Keys /\ s = <<k.ns, s[2]>>
        BY DEF In, Slots
      <3> QED BY <1>8, <2>2, <3>1 DEF Passed
    <2> QED BY <1>1, <2>1, <2>2 DEF IterationComplete
  <1>10. IterationOnce'
    <2>1. ASSUME Ended({"iterator"})', NEW i \in DOMAIN k.out, NEW m \in DOMAIN k.out, k.out[i].key = k.out[m].key
          PROVE  i = m
      <3>1. /\ k.out \in Seq([key : Keys, val : Values])
            /\ \A x, y \in DOMAIN k.out : x < y => Before(k.out[x].key, k.out[y].key)
        BY <1>8, <2>1 DEF Walked
      <3>2. i \in Int /\ m \in Int
        BY <3>1
      <3>3. i < m \/ m < i \/ i = m
        BY <3>2
      <3> QED BY <2>1, <3>1, <3>3, BeforeOther
    <2> QED BY <1>1, <2>1 DEF IterationOnce
  <1> QED BY <1>4, <1>5, <1>6, <1>7, <1>9, <1>10 DEF EffectsReported, WalksExact, WalksComplete, Promises

LEMMA NoReply == ASSUME reply' = Idle PROVE Promises'
  BY DEF Promises, ReadsCurrent, EffectsReported, WritesReported, TruesWritten, DeletesReported, Ended,
         WalksExact, WalksComplete, ClearComplete, IterationComplete, IterationOnce

LEMMA MoveAnswers ==
    ASSUME SqlInv, NEW r \in flight, NEW d, NEW a, NEW F, NEW j, Move(r, d, F, j), Serve(r, d, a, F, j)
    PROVE  AnswersInv' /\ Promises'
  <1> DEFINE k == After(r, d, j)
             H == Sights(r, d, j)
  <1>1. /\ db' = d /\ adapter' = adapter /\ now' = now /\ calls' = calls /\ Witness
        /\ flight' = (flight \ {r}) \cup F
        /\ F = {} => reply' = [job |-> k, seen |-> H] /\ job' = [job EXCEPT ![r.t] = Idle]
        /\ F # {} => reply' = Idle /\ job' = [job EXCEPT ![r.t] = k]
    BY ServeEffect DEF SqlInv
  <1>2. CallOK(k) /\ Of(k) = Of(j) /\ k # Idle /\ k.i = j.i /\ All(k) = All(j)
    BY AfterOK DEF Move, SqlInv
  <1>3. r.t \in Tasks /\ job[r.t] # Idle /\ job = [t \in Tasks |-> job[t]]
    BY DEF SqlInv, CallsInv, Types
  <1>4. k.op = j.op /\ k.ns = j.ns /\ k.keys = j.keys /\ k.at = j.at
    BY <1>2 DEF Of
  <1>5. Concerns(k) = Concerns(j)
    BY <1>4 DEF Concerns
  <1>6. \A f \in F : F = {f} /\ f.t = r.t
    BY DEF Move, Follows, Well
  <1>7. /\ F = {} => AnswersOK(k, All(k), H)
        /\ \A f \in F : AnswersOK(k, Settled(f, j), H)
        /\ F = {} => WalkDone(k, H)
    BY <1>2 DEF Move, Answers
  <1>8. \A f \in F : Settled(f, j) = Settled(f, k)
    BY <1>2, <1>4 DEF Settled
  <1> HIDE DEF k, H
  <1>9. Promises'
    <2>1. CASE F = {}
      BY <1>1, <1>2, <1>7, <2>1, EndedRight
    <2>2. CASE F # {}
      BY <1>1, <2>2, NoReply
    <2> QED BY <2>1, <2>2
  <1>10. \A t \in Tasks : t # r.t => AnswersAt(t)'
    <2> SUFFICES ASSUME NEW t \in Tasks, t # r.t PROVE AnswersAt(t)'
      OBVIOUS
    <2>1. job'[t] = job[t]
      BY <1>1, <1>3
    <2>2. \A q \in flight' : q.t = t => q \in flight
      BY <1>1, <1>6
    <2> QED BY <1>1, <2>1, <2>2, OthersKeep
  <1>11. AnswersAt(r.t)'
    <2> SUFFICES ASSUME F # {} PROVE AnswersAt(r.t)'
      BY <1>1, <1>3 DEF AnswersAt
    <2>1. job'[r.t] = k
      BY <1>1, <1>3
    <2>2. \A s \in Slots : seen'[r.t][s] = H[s]
      <3>1. \A s \in Slots : H[s] = seen[r.t][s] \cup (IF s \in Concerns(j) THEN Looks(d[s], j.at, now) ELSE {})
        BY DEF H, Sights, More
      <3>2. \A s \in Slots : seen'[r.t][s] = seen[r.t][s] \cup (IF s \in Concerns(k) THEN Looks(db'[s], k.at, now') ELSE {})
        BY <1>1, <1>2, <1>3, <2>1, WitnessSeen
      <3> QED BY <1>1, <1>4, <1>5, <3>1, <3>2
    <2>3. \A s \in Concerns(k) : Looks(db'[s], k.at, now') \subseteq seen'[r.t][s]
      <3>1. Concerns(k) \subseteq Slots
        BY <1>2, ConcernsSlots
      <3>2. \A s \in Slots : seen'[r.t][s] = seen[r.t][s] \cup (IF s \in Concerns(k) THEN Looks(db'[s], k.at, now') ELSE {})
        BY <1>1, <1>2, <1>3, <2>1, WitnessSeen
      <3> QED BY <3>1, <3>2
    <2>4. ASSUME NEW q \in flight', q.t = r.t PROVE AnswersOK(k, Settled(q, k), seen'[r.t])
      <3>1. q \in F
        BY <1>1, <2>4 DEF SqlInv, CallsInv
      <3>2. AnswersOK(k, Settled(q, k), H)
        BY <1>7, <1>8, <3>1
      <3>3. \A s \in Concerns(k) : H[s] \subseteq seen'[r.t][s]
        BY <1>2, <2>2, ConcernsSlots
      <3> QED BY <1>2, <3>2, <3>3, AnswersGrow
    <2> QED BY <1>1, <2>1, <2>3, <2>4 DEF AnswersAt, Settled, Chunked, Noted
  <1> QED BY <1>9, <1>10, <1>11 DEF AnswersInv

---------------------------------------------------------------------------
(* Failures, starts, and what happens without a call *)

LEMMA RejectKeeps ==
    ASSUME SqlInv, NEW r \in flight, NEW d, NEW a, Loses(r, d), RejectWith(r, d, a)
    PROVE  /\ SqlInv' /\ Promises'
           /\ db' = d /\ now' = now /\ flight' = flight \ {r} /\ Witness
  <1>1. r.t \in Tasks /\ job[r.t] # Idle /\ r.c = job[r.t].c /\ job = [t \in Tasks |-> job[t]]
    BY DEF SqlInv, CallsInv, Well, Types
  <1>2. /\ db' = d /\ adapter' = adapter /\ now' = now /\ calls' = calls /\ Witness
        /\ flight' = flight \ {r} /\ reply' = Idle /\ job' = [job EXCEPT ![r.t] = Idle]
    BY <1>1 DEF RejectWith, Live
  <1>3. \A t \in Tasks : job'[t] = IF t = r.t THEN Idle ELSE job[t]
    BY <1>1, <1>2
  <1>4. Types'
    <2>1. job' = [t \in Tasks |-> job'[t]]
      BY <1>1, <1>2
    <2> QED BY <1>2, <2>1 DEF SqlInv, CallsInv, Types, Loses
  <1>5. \A q \in flight' : q \in flight /\ q.t # r.t
    BY <1>2 DEF SqlInv, CallsInv
  <1>6. /\ \A t \in Tasks : job'[t] = Idle \/ Underway(t, job'[t], calls, now)
        /\ \A q \in flight' : q.t \in Tasks /\ job'[q.t] # Idle /\ Well(q, q.t, job'[q.t])
    BY <1>3, <1>5 DEF SqlInv, CallsInv
  <1>7. \A q, p \in flight' : q.t = p.t => q = p
    BY <1>5 DEF SqlInv, CallsInv
  <1>8. \A t \in Tasks : job'[t] # Idle => \E q \in flight' : q.t = t
    BY <1>2, <1>3 DEF SqlInv, CallsInv
  <1>9. CallsInv'
    BY <1>2, <1>4, <1>6, <1>7, <1>8 DEF CallsInv, Well, Due, Chunked
  <1>10. \A t \in Tasks : AnswersAt(t)'
    <2> SUFFICES ASSUME NEW t \in Tasks PROVE AnswersAt(t)'
      OBVIOUS
    <2>1. CASE t = r.t
      BY <1>3, <2>1 DEF AnswersAt
    <2>2. CASE t # r.t
      <3>1. job'[t] = job[t] /\ \A q \in flight' : q.t = t => q \in flight
        BY <1>3, <1>5, <2>2
      <3> QED BY <1>2, <3>1, OthersKeep
    <2> QED BY <2>1, <2>2
  <1> QED BY <1>2, <1>9, <1>10, NoReply DEF SqlInv, AnswersInv

\* Time passes, or rows go, and no call is concerned.
Calm ==
    /\ adapter' = adapter /\ calls' = calls /\ job' = job /\ flight' = flight /\ reply' = Idle /\ Witness
    /\ now' \in 0..MaxTime[adapter] /\ now <= now' /\ db' \in [Slots -> Rows]

LEMMA CalmKeeps == ASSUME SqlInv, Calm PROVE SqlInv' /\ Promises'
  <1>1. /\ adapter' = adapter /\ calls' = calls /\ job' = job /\ flight' = flight /\ reply' = Idle /\ Witness
        /\ now' \in 0..MaxTime[adapter] /\ now <= now' /\ db' \in [Slots -> Rows]
    BY DEF Calm
  <1>2. now \in Int /\ now' \in Int
    BY <1>1 DEF SqlInv, CallsInv, Types
  <1>3. Types'
    BY <1>1 DEF SqlInv, CallsInv, Types
  <1>4. \A t \in Tasks : job[t] = Idle \/ Underway(t, job[t], calls, now')
    BY <1>1, <1>2 DEF SqlInv, CallsInv, Underway, CallOK
  <1>5. ASSUME NEW r \in flight PROVE r.t \in Tasks /\ job[r.t] # Idle /\ Well(r, r.t, job[r.t])'
    <2>1. r.t \in Tasks /\ job[r.t] # Idle /\ Well(r, r.t, job[r.t])
      BY DEF SqlInv, CallsInv
    <2>2. (r.do = "page" /\ r.with \in Int /\ r.with <= now) => r.with <= now'
      BY <1>1, <1>2
    <2> QED BY <1>1, <2>1, <2>2 DEF Well, Due, Chunked
  <1>6. CallsInv'
    BY <1>1, <1>3, <1>4, <1>5 DEF SqlInv, CallsInv
  <1>7. \A t \in Tasks : AnswersAt(t)'
    BY <1>1, OthersKeep
  <1> QED BY <1>1, <1>6, <1>7, NoReply DEF SqlInv, AnswersInv

LEMMA KeysDone ==
    ASSUME NEW j, j.op \in KeyOps PROVE j.op # "iterator" /\ \A H : WalkDone(j, H)
  BY DEF WalkDone, KeyOps, ReadOps, HasOps, WriteOps, DeleteOps

\* An iteration has yielded nothing before its first page.
LEMMA WalkedNone == ASSUME NEW j, j.last = None, j.out = <<>>, NEW H PROVE Walked(j, H)
  <1>1. DOMAIN j.out = {} /\ j.out \in Seq([key : Keys, val : Values])
    OBVIOUS
  <1> QED BY <1>1 DEF Walked

LEMMA StartKeeps ==
    ASSUME SqlInv, NEW t \in Tasks, NEW j, NEW F, NEW a, Start(t, j, F), EnterWith(t, j, F, a)
    PROVE  /\ SqlInv' /\ Promises'
           /\ db' = db /\ now' = now /\ flight' = flight \cup F /\ Witness
  <1>1. /\ job[t] = Idle /\ calls < MaxCalls /\ calls' = calls + 1 /\ flight' = flight \cup F
        /\ adapter' = adapter /\ now' = now /\ db' = db /\ Witness
        /\ F = {} => /\ reply' = [job |-> j, seen |-> More(Nothing, Concerns(j), db, now, now)]
                     /\ job' = job
        /\ F # {} => reply' = Idle /\ job' = [job EXCEPT ![t] = j]
    BY DEF EnterWith
  <1>2. Types /\ calls \in Nat /\ now \in Nat /\ MaxCalls \in Nat
    BY CallsAssumption DEF SqlInv, CallsInv, Types
  <1>3. CallOK(j) /\ Underway(t, j, calls', now) /\ j # Idle /\ j.at = now
    <2>1. j.c = calls' /\ j.at = now /\ j.c \in Nat \ {0} /\ j.i \in Nat \ {0} /\ j.at \in Nat /\ j.failed \in BOOLEAN
      <3>1. j.c = calls + 1 /\ j.at = now /\ j.i = 1 /\ j.failed = FALSE
        BY DEF Start
      <3>2. j.failed \in BOOLEAN
        BY <3>1
      <3>3. j.c = calls' /\ j.c \in Nat \ {0} /\ j.i \in Nat \ {0} /\ j.at \in Nat
        BY <1>1, <1>2, <3>1
      <3> QED BY <3>1, <3>2, <3>3
    <2>2. DOMAIN j.res = All(j) /\ j.put \subseteq All(j)
      BY DEF Start
    <2>3. CallOK(j)
      BY <2>1, <2>2 DEF Start, CallOK
    <2>4. Underway(t, j, calls', now)
      BY <1>1, <1>2, <2>1, <2>3 DEF Start, Underway
    <2> QED BY <2>1, <2>3, <2>4 DEF CallOK, Idle, KeyOps, ReadOps, HasOps, WriteOps, DeleteOps, WalkOps
  <1>4. \A f \in F : F = {f} /\ f.t = t /\ Well(f, t, j) /\ f.do # "sweep"
    BY DEF Start
  <1>5. Types'
    BY <1>1, <1>2 DEF Types
  <1>6. /\ F # {} => job'[t] = j
        /\ \A u \in Tasks : u # t => job'[u] = job[u]
        /\ F = {} => job'[t] = Idle
    BY <1>1, <1>2 DEF Types
  <1>7. \A u \in Tasks : job'[u] = Idle \/ Underway(u, job'[u], calls', now)
    <2>1. \A u \in Tasks : job[u] = Idle \/ Underway(u, job[u], calls', now)
      BY <1>1, <1>2 DEF SqlInv, CallsInv, Underway, CallOK
    <2> QED BY <1>3, <1>6, <2>1
  <1>8. \A q \in flight : q.t # t
    BY <1>1 DEF SqlInv, CallsInv
  <1>9. ASSUME NEW q \in flight' PROVE q.t \in Tasks /\ job'[q.t] # Idle /\ Well(q, q.t, job'[q.t])
    <2>1. CASE q \in F
      BY <1>3, <1>4, <1>6, <2>1
    <2>2. CASE q \in flight
      BY <1>6, <1>8, <2>2 DEF SqlInv, CallsInv
    <2> QED BY <1>1, <2>1, <2>2
  <1>10. \A q, p \in flight' : q.t = p.t => q = p
    BY <1>1, <1>4, <1>8 DEF SqlInv, CallsInv
  <1>11. \A u \in Tasks : job'[u] # Idle => \E q \in flight' : q.t = u
    <2>1. F # {} => \E q \in F : q.t = t
      BY <1>4
    <2> QED BY <1>1, <1>6, <2>1 DEF SqlInv, CallsInv
  <1>12. CallsInv'
    BY <1>1, <1>5, <1>7, <1>9, <1>10, <1>11 DEF CallsInv, Well, Due, Chunked
  <1>13. j.unsure = {} /\ j.put = {} /\ j.i = 1 /\ \A i \in All(j) : j.res[i] = IF j.op \in ReadOps THEN None ELSE FALSE
    BY DEF Start
  <1>15. Promises'
    <2>1. CASE F # {}
      BY <1>1, <2>1, NoReply
    <2>2. CASE F = {}
      <3> DEFINE H == More(Nothing, Concerns(j), db, now, now)
      <3>1. All(j) = {}
        BY <2>2 DEF Start
      <3> HIDE DEF H
      <3>2. j.op \in KeyOps
        BY <2>2 DEF Start
      <3>3. AnswersOK(j, All(j), H)
        BY <3>1, <3>2, KeysDone DEF AnswersOK
      <3>4. WalkDone(j, H)
        BY <3>2, KeysDone
      <3> QED BY <1>1, <1>3, <2>2, <3>3, <3>4, EndedRight DEF H
    <2> QED BY <2>1, <2>2
  <1>16. ASSUME NEW u \in Tasks PROVE AnswersAt(u)'
    <2>1. CASE u # t \/ F = {}
      <3>1. job'[u] = job[u] /\ \A q \in flight' : q.t = u => q \in flight
        BY <1>1, <1>4, <1>6, <2>1
      <3> QED BY <1>1, <3>1, OthersKeep
    <2>2. CASE u = t /\ F # {}
      <3>1. job'[t] = j
        BY <1>6, <2>2
      <3>2. Concerns(j) \subseteq Slots
        BY <1>3, ConcernsSlots
      <3>3. \A s \in Slots : seen'[t][s] = IF s \in Concerns(j) THEN Looks(db'[s], j.at, now') ELSE {}
        BY <1>1, <1>3, <3>1, WitnessSeen
      <3>4. ASSUME NEW q \in flight', q.t = t PROVE AnswersOK(j, Settled(q, j), seen'[t])
        <4>1. q \in F
          BY <1>1, <1>8, <3>4
        <4>2. Settled(q, j) = {}
          <5>1. q.do # "sweep" /\ \A i \in All(j) : i \in Nat \ {0}
            BY <1>3, <1>4, <4>1 DEF All, CallOK
          <5> QED BY <1>13, <5>1 DEF Settled
        <4>3. ReadOps \cap (HasOps \cup WriteOps \cup DeleteOps) = {}
          BY DEF ReadOps, HasOps, WriteOps, DeleteOps
        <4>4. Walked(j, seen'[t])
          BY WalkedNone DEF Start
        <4> QED BY <1>13, <4>2, <4>3, <4>4 DEF AnswersOK
      <3> QED BY <1>1, <2>2, <3>1, <3>2, <3>3, <3>4 DEF AnswersAt, Settled, Chunked, Noted
    <2> QED BY <2>1, <2>2
  <1> QED BY <1>1, <1>12, <1>15, <1>16 DEF SqlInv, AnswersInv

---------------------------------------------------------------------------
(* Sweeps *)

LEMMA SweptKept ==
    ASSUME SqlInv, SqlInv', SweptInv, Witness, now <= now',
           \A r \in flight' : r \in flight \/ (r.do = "sweep" => \A s \in r.with : Expired(db'[s], now'))
    PROVE  SweptInv'
  <1> SUFFICES ASSUME NEW r \in flight', r.do = "sweep", NEW s \in r.with
               PROVE  s \in dirty'[r.of.c] \/ db'[s] = None \/ Expired(db'[s], now')
    BY DEF SweptInv
  <1>1. now \in Int /\ now' \in Int /\ db \in [Slots -> Rows] /\ calls' \in 0..MaxCalls /\ MaxCalls \in Nat
    BY CallsAssumption DEF SqlInv, CallsInv, Types
  <1>2. /\ r.of = Of(job'[r.t]) /\ Fits("sweep", job'[r.t].op) /\ s \in Slots
        /\ Underway(r.t, job'[r.t], calls', now')
    BY DEF SqlInv, CallsInv, Well
  <1>3. r.of.c \in 1..MaxCalls /\ Sweeps(r.of)
    <2>1. r.of.c = job'[r.t].c /\ r.of.op = job'[r.t].op
      BY <1>2 DEF Of
    <2>2. r.of.c \in 1..MaxCalls
      BY <1>1, <1>2, <2>1 DEF Underway, CallOK
    <2>3. r.of.op \in ReadOps \cup HasOps
      BY <1>2, <2>1 DEF Fits
    <2> QED BY <2>2, <2>3 DEF Sweeps, ReadOps, HasOps, WriteOps, DeleteOps
  <1>4. dirty'[r.of.c] = dirty[r.of.c] \cup {u \in Slots : db'[u] \notin {None, db[u]}}
    BY <1>3 DEF Witness
  <1>5. CASE r \in flight
    <2>1. s \in dirty[r.of.c] \/ db[s] = None \/ Expired(db[s], now)
      BY <1>5 DEF SweptInv
    <2>2. CASE db'[s] = db[s]
      <3>1. db[s] # None => db[s].exp \in Int \cup {None}
        BY <1>1, <1>2 DEF Rows, Row
      <3> QED BY <1>1, <1>4, <2>1, <2>2, <3>1, CallsAssumption DEF Expired
    <2>3. CASE db'[s] # db[s]
      BY <1>2, <1>4, <2>3
    <2> QED BY <2>2, <2>3
  <1>6. CASE r \notin flight
    BY <1>6
  <1> QED BY <1>5, <1>6

\* What a statement makes of the rows is its call's doing, or a sweep's of what
\* has expired or been written since.
LEMMA LosesSafely ==
    ASSUME CallsInv, SweptInv, NEW r \in flight \ flight', NEW d, Loses(r, d), db' = d, now' = now
    PROVE  SweepSafeStep
  <1> SUFFICES ASSUME NEW s \in Slots, Lost(s)
               PROVE  \/ r.do = "delete" /\ s \in SlotsAt(r.of, r.at)
                      \/ r.do = "clear" /\ s \in In(r.of.ns)
                      \/ r.do = "sweep" /\ s \in dirty[r.of.c]
    BY DEF SweepSafeStep
  <1>1. db[s] # None /\ ~Expired(db[s], now) /\ d[s] = None
    BY DEF Lost, Visible
  <1> QED BY <1>1 DEF Loses, SweptInv

LEMMA PassesSafely == ASSUME NEW d, Passes(d), db' = d, now' = now PROVE SweepSafeStep
  BY DEF SweepSafeStep, Passes, Lost, Visible

LEMMA SameSafely == ASSUME db' = db PROVE SweepSafeStep
  BY DEF SweepSafeStep, Lost, Visible

---------------------------------------------------------------------------
(* Every step *)

\* The steps of all three adapters.
Steps ==
    \/ \E t \in Tasks : \E j, F, a : Start(t, j, F) /\ EnterWith(t, j, F, a)
    \/ \E r \in flight : \E d, a, F, j : Move(r, d, F, j) /\ Serve(r, d, a, F, j)
    \/ \E r \in flight : \E d, a : Loses(r, d) /\ RejectWith(r, d, a)
    \/ \E d, a : Passes(d) /\ Happen(d, a)
    \/ Tick

IInv == SqlInv /\ SweptInv /\ Promises

LEMMA StepsKeep == ASSUME IInv, Steps PROVE IInv' /\ SweepSafeStep
  <1>0. SqlInv /\ SweptInv /\ now \in Nat /\ now \in 0..MaxTime[adapter] /\ MaxTime[adapter] \in Nat /\ db \in [Slots -> Rows]
    BY CallsAssumption DEF IInv, SqlInv, CallsInv, Types
  <1>1. ASSUME NEW t \in Tasks, NEW j, NEW F, NEW a, Start(t, j, F), EnterWith(t, j, F, a)
        PROVE  IInv' /\ SweepSafeStep
    <2>1. /\ SqlInv' /\ Promises'
          /\ db' = db /\ now' = now /\ flight' = flight \cup F /\ Witness
      BY <1>0, <1>1, StartKeeps
    <2>2. \A r \in F : r.do # "sweep"
      BY <1>1 DEF Start
    <2>3. SweptInv'
      BY <1>0, <2>1, <2>2, SweptKept
    <2> QED BY <2>1, <2>3, SameSafely DEF IInv
  <1>2. ASSUME NEW r \in flight, NEW d, NEW a, NEW F, NEW j, Move(r, d, F, j), Serve(r, d, a, F, j)
        PROVE  IInv' /\ SweepSafeStep
    <2>1. SqlInv' /\ Promises'
      BY <1>0, <1>2, MoveCalls, MoveAnswers DEF SqlInv
    <2>2. db' = d /\ now' = now /\ flight' = (flight \ {r}) \cup F /\ Witness
      BY <1>0, <1>2, ServeEffect DEF SqlInv
    <2>3. \A f \in F : f # r /\ (f.do = "sweep" => \A s \in f.with : Expired(d[s], now))
      BY <1>2 DEF Move, Follows
    <2>4. SweptInv'
      BY <1>0, <2>1, <2>2, <2>3, SweptKept
    <2>5. SweepSafeStep
      BY <1>0, <1>2, <2>2, <2>3, LosesSafely DEF Move, SqlInv
    <2> QED BY <2>1, <2>4, <2>5 DEF IInv
  <1>3. ASSUME NEW r \in flight, NEW d, NEW a, Loses(r, d), RejectWith(r, d, a)
        PROVE  IInv' /\ SweepSafeStep
    <2>1. /\ SqlInv' /\ Promises'
          /\ db' = d /\ now' = now /\ flight' = flight \ {r} /\ Witness
      BY <1>0, <1>3, RejectKeeps
    <2>2. SweptInv'
      BY <1>0, <2>1, SweptKept
    <2>3. SweepSafeStep
      BY <1>0, <1>3, <2>1, LosesSafely DEF SqlInv
    <2> QED BY <2>1, <2>2, <2>3 DEF IInv
  <1>4. ASSUME NEW d, NEW a, Passes(d), Happen(d, a) PROVE IInv' /\ SweepSafeStep
    <2>1. Calm /\ db' = d /\ now' = now
      BY <1>0, <1>4 DEF Happen, Calm, Passes
    <2>2. SqlInv' /\ Promises' /\ Witness /\ flight' = flight
      BY <1>0, <2>1, CalmKeeps DEF Calm
    <2>3. SweptInv'
      BY <1>0, <2>1, <2>2, SweptKept
    <2> QED BY <1>4, <2>1, <2>2, <2>3, PassesSafely DEF IInv
  <1>5. ASSUME Tick PROVE IInv' /\ SweepSafeStep
    <2>1. Calm /\ db' = db /\ now <= now'
      BY <1>0, <1>5 DEF Tick, Calm
    <2>2. SqlInv' /\ Promises' /\ Witness /\ flight' = flight
      BY <1>0, <2>1, CalmKeeps DEF Calm
    <2>3. SweptInv'
      BY <1>0, <2>1, <2>2, SweptKept
    <2> QED BY <2>1, <2>2, <2>3, SameSafely DEF IInv
  <1> QED BY <1>1, <1>2, <1>3, <1>4, <1>5 DEF Steps

LEMMA StutterKeeps == ASSUME IInv, UNCHANGED vars PROVE IInv' /\ SweepSafeStep
  <1>1. /\ adapter' = adapter /\ now' = now /\ db' = db /\ aux' = aux /\ calls' = calls /\ job' = job
        /\ flight' = flight /\ reply' = reply /\ seen' = seen /\ dirty' = dirty
    BY DEF vars
  <1>2. SqlInv'
    <2>1. CallsInv'
      BY <1>1 DEF IInv, SqlInv, CallsInv, Types, Well, Due, Chunked
    <2>2. AnswersInv'
      BY <1>1 DEF IInv, SqlInv, AnswersInv, AnswersAt, Noted, Settled, Chunked
    <2> QED BY <2>1, <2>2 DEF SqlInv
  <1>3. SweptInv'
    BY <1>1 DEF IInv, SweptInv
  <1>4. Promises'
    BY <1>1 DEF IInv, Promises, ReadsCurrent, EffectsReported, WritesReported, TruesWritten, DeletesReported, Ended, Held,
                  Sure, WalksExact, WalksComplete, ClearComplete, IterationComplete, IterationOnce
  <1> QED BY <1>1, <1>2, <1>3, <1>4, SameSafely DEF IInv

---------------------------------------------------------------------------
(* What the statements make of the rows *)

LEMMA Current ==
    ASSUME SqlInv, NEW r \in flight
    PROVE  /\ r.t \in Tasks /\ job[r.t] # Idle /\ CallOK(job[r.t]) /\ Well(r, r.t, job[r.t])
           /\ r.c = job[r.t].c /\ r.c \in 1..MaxCalls /\ job[r.t].at <= now /\ now \in Nat
           /\ r.of.op = job[r.t].op /\ r.of.c = job[r.t].c /\ r.of.ns = job[r.t].ns
           /\ r.of.keys = job[r.t].keys /\ r.of.live = job[r.t].live /\ r.of.at = job[r.t].at
           /\ db \in [Slots -> Rows]
           /\ AnswersAt(r.t) /\ AnswersOK(job[r.t], Settled(r, job[r.t]), seen[r.t])
  <1>1. r.t \in Tasks /\ job[r.t] # Idle /\ Well(r, r.t, job[r.t]) /\ Underway(r.t, job[r.t], calls, now)
    BY DEF SqlInv, CallsInv
  <1>2. calls \in 0..MaxCalls /\ MaxCalls \in Nat /\ now \in Nat /\ db \in [Slots -> Rows]
    BY CallsAssumption DEF SqlInv, CallsInv, Types
  <1>3. AnswersAt(r.t)
    BY <1>1 DEF SqlInv, AnswersInv
  <1>4. r.c = job[r.t].c /\ r.of = Of(job[r.t])
    BY <1>1 DEF Well
  <1>5. r.c \in 1..MaxCalls
    BY <1>1, <1>2, <1>4 DEF Underway, CallOK
  <1> QED BY <1>1, <1>2, <1>3, <1>4, <1>5 DEF Underway, Of, AnswersAt

LEMMA LosesNothing == ASSUME SqlInv, NEW r \in flight PROVE Loses(r, db)
  BY Current DEF Loses

LEMMA LosesRemoved ==
    ASSUME SqlInv, NEW r \in flight, r.do \in {"sweep", "delete", "clear", "expire"}
    PROVE  Loses(r, Drop(db, Removed(r)))
  <1>1. db \in [Slots -> Rows] /\ now \in Nat
    BY Current
  <1>2. /\ Drop(db, Removed(r)) \in [Slots -> Rows]
        /\ \A s \in Slots : Drop(db, Removed(r))[s] = IF s \in Removed(r) THEN None ELSE db[s]
    BY <1>1, DropRows
  <1>3. ASSUME NEW s \in Slots, s \in Removed(r)
        PROVE  \/ Expired(db[s], now)
               \/ r.do = "delete" /\ s \in SlotsAt(r.of, r.at)
               \/ r.do = "clear" /\ s \in In(r.of.ns)
               \/ r.do = "sweep" /\ s \in r.with
    <2>1. CASE r.do = "expire"
      <3>1. r.with = job[r.t].at /\ job[r.t].at <= now /\ job[r.t].at \in Nat
        BY <2>1, Current DEF Well, CallOK
      <3>2. s \in ExpiredRows(r.with)
        BY <1>3, <2>1 DEF Removed
      <3>3. db[s] # None => db[s].exp \in Int \cup {None}
        BY <1>1 DEF Rows, Row
      <3>4. Expired(db[s], now)
        BY <1>1, <3>1, <3>2, <3>3, CallsAssumption DEF ExpiredRows, Expired
      <3> QED BY <3>4
    <2>2. CASE r.do # "expire"
      BY <1>3, <2>2 DEF Removed
    <2> QED BY <2>1, <2>2
  <1> QED BY <1>2, <1>3 DEF Loses

\* A bounded non-empty set of positions has a last one.
LEMMA LastPosition ==
    ASSUME NEW n \in Nat, NEW J, J \subseteq 1..n, J # {}
    PROVE  \E j \in J : \A m \in J : m <= j
  <1> DEFINE K == {k \in Nat : \A m \in J : m <= k}
             R == {p \in Nat \X Nat : p[1] < p[2]}
  <1>1. n \in K /\ K \subseteq Nat
    OBVIOUS
  <1>2. IsWellFoundedOn(R, Nat)
    BY NatLessThanWellFounded DEF OpToRel
  <1>3. \A x, y \in Nat : <<y, x>> \in R <=> y < x
    OBVIOUS
  <1>4. PICK k \in K : \A l \in K : <<l, k>> \notin R
    <2> HIDE DEF K, R
    <2> QED BY <1>1, <1>2, WFMin
  <1>5. k \in Nat /\ (\A m \in J : m <= k) /\ \A l \in K : ~(l < k)
    BY <1>3, <1>4
  <1>6. ASSUME k \notin J PROVE FALSE
    <2>1. \A m \in J : m \in Nat /\ m >= 1 /\ m <= k /\ m # k
      BY <1>5, <1>6
    <2>2. PICK m \in J : m >= 1 /\ m <= k
      BY <2>1
    <2>3. k - 1 \in Nat
      BY <1>5, <2>1, <2>2
    <2>4. k - 1 \in Nat /\ \A l \in J : l <= k - 1
      <3>1. \A l \in Nat : (l <= k /\ l # k) => l <= k - 1
        BY <1>5
      <3> QED BY <2>1, <2>3, <3>1
    <2>5. k - 1 \in K
      BY <2>4
    <2> HIDE DEF K
    <2> QED BY <1>5, <2>3, <2>5
  <1> QED BY <1>5, <1>6

\* An upsert leaves for each key it names the last entry that names it.
LEMMA UpsertedRows ==
    ASSUME SqlInv, NEW r \in flight, r.do = "upsert"
    PROVE  /\ Upserted(r) \in [Slots -> Rows]
           /\ \A s \in Slots : db[s] # None => Upserted(r)[s] # None
           /\ Taken(r, Upserted(r)) = r.at
  <1> DEFINE j == r.of
             e == IF j.live = None THEN None ELSE j.at + j.live
             W(s) == {i \in r.at : Slot(j, i) = s}
             last(s) == CHOOSE i \in W(s) : \A m \in W(s) : m <= i
  <1>1. /\ CallOK(job[r.t]) /\ Well(r, r.t, job[r.t]) /\ r.c \in 1..MaxCalls /\ db \in [Slots -> Rows]
        /\ r.of.op = job[r.t].op /\ r.of.c = r.c /\ r.of.keys = job[r.t].keys /\ r.of.ns = job[r.t].ns
        /\ r.of.live = job[r.t].live /\ r.of.at = job[r.t].at
    BY Current
  <1>2. e \in Int \cup {None}
    BY <1>1 DEF CallOK
  <1>3. r.at \subseteq All(job[r.t]) /\ All(job[r.t]) = 1..Len(job[r.t].keys) /\ Len(job[r.t].keys) \in Nat
    BY <1>1 DEF Well, CallOK, All
  <1>4. ASSUME NEW s \in Slots, W(s) # {} PROVE last(s) \in r.at /\ Slot(j, last(s)) = s
    <2>1. W(s) \subseteq 1..Len(job[r.t].keys)
      BY <1>3
    <2> HIDE DEF W
    <2>2. \E i \in W(s) : \A m \in W(s) : m <= i
      BY <1>3, <1>4, <2>1, LastPosition
    <2>3. last(s) \in W(s)
      BY <2>2
    <2> QED BY <2>3 DEF W
  <1>5. \A s \in Slots : Upserted(r)[s] = IF W(s) = {} THEN db[s] ELSE [val |-> <<r.c, last(s)>>, exp |-> e]
    BY <1>1 DEF Upserted, Write
  <1> HIDE DEF e, last
  <1>6. \A s \in Slots : W(s) # {} => Upserted(r)[s] \in Rows \ {None}
    <2>1. \A i \in r.at : <<r.c, i>> \in Values
      <3>1. \A i \in r.at : i \in Positions
        BY <1>1, <1>3 DEF CallOK
      <3> QED BY <1>1, <3>1, CallsAssumption DEF Values, Positions
    <2>2. ASSUME NEW s \in Slots, W(s) # {} PROVE Upserted(r)[s] \in Rows \ {None}
      <3>1. <<r.c, last(s)>> \in Values /\ Upserted(r)[s] = [val |-> <<r.c, last(s)>>, exp |-> e]
        BY <1>4, <1>5, <2>1, <2>2
      <3> QED BY <1>2, <3>1, RowsOf
    <2> QED BY <2>2
  <1>7. Upserted(r) \in [Slots -> Rows]
    <2>1. Upserted(r) = [s \in Slots |-> Upserted(r)[s]]
      BY DEF Upserted, Write
    <2>2. \A s \in Slots : Upserted(r)[s] \in Rows
      BY <1>1, <1>5, <1>6
    <2> QED BY <2>1, <2>2
  <1>8. \A s \in Slots : db[s] # None => Upserted(r)[s] # None
    BY <1>5, <1>6
  <1>9. Taken(r, Upserted(r)) = r.at
    <2>1. r.of.op \in WriteOps
      <3>1. Fits("upsert", job[r.t].op)
        BY <1>1 DEF Well
      <3> QED BY <1>1, <3>1 DEF Fits
    <2>2. ASSUME NEW i \in r.at
          PROVE  LET s == Slot(r.of, i)
                 IN  Upserted(r)[s] # None /\ \E k \in r.at : Slot(r.of, k) = s /\ Upserted(r)[s].val = <<r.c, k>>
      <3> DEFINE s == Slot(r.of, i)
      <3>1. s \in Slots
        <4>1. Slot(job[r.t], i) \in Slots
          BY <1>1, <1>3, SlotIn
        <4> QED BY <1>1, <4>1 DEF Slot
      <3>2. W(s) # {}
        OBVIOUS
      <3> HIDE DEF s
      <3>3. Upserted(r)[s] # None /\ Upserted(r)[s] = [val |-> <<r.c, last(s)>>, exp |-> e]
        BY <1>5, <1>6, <3>1, <3>2
      <3>4. last(s) \in r.at /\ Slot(j, last(s)) = s
        BY <1>4, <3>1, <3>2
      <3> QED BY <3>3, <3>4 DEF s
    <2> QED BY <2>1, <2>2 DEF Taken
  <1> QED BY <1>7, <1>8, <1>9

LEMMA LosesUpserted ==
    ASSUME SqlInv, NEW r \in flight, r.do = "upsert" PROVE Loses(r, Upserted(r))
  BY UpsertedRows DEF Loses

LEMMA PassesExpired == ASSUME SqlInv, NEW n \in Int, n <= now + 1 PROVE Passes(Drop(db, ExpiredRows(n)))
  <1>1. db \in [Slots -> Rows] /\ now \in Nat
    BY CallsAssumption DEF SqlInv, CallsInv, Types
  <1>2. \A s \in Slots : Drop(db, ExpiredRows(n))[s] = IF s \in ExpiredRows(n) THEN None ELSE db[s]
    BY <1>1, DropRows
  <1>3. ASSUME NEW s \in Slots, s \in ExpiredRows(n) PROVE Expired(db[s], now)
    <2>1. db[s] # None => db[s].exp \in Int \cup {None}
      BY <1>1 DEF Rows, Row
    <2> QED BY <1>1, <1>3, <2>1, CallsAssumption DEF ExpiredRows, Expired
  <1> QED BY <1>1, <1>2, <1>3, DropRows DEF Passes

---------------------------------------------------------------------------
(* The next statement *)

LEMMA CommandOf ==
    ASSUME NEW t, NEW j, NEW do, NEW I, NEW with
    PROVE  /\ Command(t, j, do, I, with).t = t /\ Command(t, j, do, I, with).c = j.c
           /\ Command(t, j, do, I, with).do = do /\ Command(t, j, do, I, with).at = I
           /\ Command(t, j, do, I, with).with = with /\ Command(t, j, do, I, with).of = Of(j)
  BY DEF Command, Of

LEMMA CommandWell ==
    ASSUME NEW t, NEW j, NEW do, NEW I, NEW with, Fits(do, j.op), I \subseteq All(j),
           do \in {"select", "existing", "delete", "upsert"} => I = Due(j),
           do = "sweep" => with \subseteq Slots, do = "expire" => with = j.at,
           do = "page" => with \in Int /\ j.at <= with /\ with <= now
    PROVE  Well(Command(t, j, do, I, with), t, j)
  BY CommandOf DEF Well

\* A statement is sent for what a statement of the call knows as for the call.
LEMMA CommandSame ==
    ASSUME NEW t, NEW j, NEW k, Of(j) = Of(k), NEW do, NEW I, NEW with
    PROVE  Command(t, j, do, I, with) = Command(t, k, do, I, with)
  BY DEF Command, Of

LEMMA DueIn == ASSUME NEW j PROVE Due(j) \subseteq All(j)
  BY DEF Due, Chunk

\* A call goes on with its next chunk, or it has no more.
LEMMA NextChunkFollows ==
    ASSUME SqlInv, NEW r \in flight, NEW d, NEW j, Onward(job[r.t], j), NEW do, Chunked(j.op), Fits(do, j.op),
           do \in {"select", "existing", "delete", "upsert"}, r.do # do \/ r.at \cap Chunk(j) = {}
    PROVE  /\ Follows(r, d, NextChunk(r.t, j, do), j)
           /\ \A f \in NextChunk(r.t, j, do) : f.do = do
           /\ NextChunk(r.t, j, do) = {} => \A i \in All(j) : i < j.i
  <1> DEFINE f == Command(r.t, j, do, Chunk(j), {})
  <1>1. f.t = r.t /\ f.do = do /\ f.at = Chunk(j)
    BY CommandOf
  <1>2. Well(f, r.t, j)
    <2>1. Due(j) = Chunk(j) /\ Chunk(j) \subseteq All(j) /\ do \notin {"sweep", "expire", "page"}
      BY DEF Due, Chunk
    <2> QED BY <2>1, CommandWell
  <1> HIDE DEF f
  <1>3. NextChunk(r.t, j, do) = IF Chunk(j) = {} THEN {} ELSE {f}
    BY DEF NextChunk, f
  <1>4. Chunk(j) # {} => f # r
    BY <1>1
  <1>5. ASSUME Chunk(j) = {}, NEW i \in All(j) PROVE i < j.i
    <2>1. j.i \in Nat \ {0} /\ j.keys \in Seq(Keys) /\ BatchSize \in Nat \ {0}
      BY SqlAssumption DEF Onward, CallOK
    <2>2. SUFFICES ASSUME i >= j.i PROVE FALSE
      BY <2>1 DEF All
    <2> DEFINE n == Len(j.keys)
    <2>3. All(j) = 1..n /\ n \in Nat
      BY <2>1 DEF All
    <2> HIDE DEF n
    <2>4. j.i \in All(j)
      BY <2>1, <2>2, <2>3
    <2>5. j.i \in Chunk(j)
      BY <2>1, <2>4 DEF Chunk
    <2> QED BY <1>5, <2>5
  <1> QED BY <1>1, <1>2, <1>3, <1>4, <1>5 DEF Follows

\* What comes after the next chunk.
LEMMA BeyondOnward ==
    ASSUME NEW k, NEW j, Onward(k, j)
    PROVE  /\ Onward(k, Beyond(j)) /\ Beyond(j).i = j.i + BatchSize /\ Beyond(j).res = j.res
           /\ Beyond(j).put = j.put /\ Beyond(j).failed = j.failed /\ Of(Beyond(j)) = Of(j)
           /\ Beyond(j).op = j.op /\ All(Beyond(j)) = All(j) /\ Chunk(j) \cap Chunk(Beyond(j)) = {}
           /\ \A i \in All(j) : i < j.i + BatchSize => i < j.i \/ i \in Chunk(j)
  <1> DEFINE b == Beyond(j)
  <1>1. CallOK(j) /\ BatchSize \in Nat \ {0} /\ j.i \in Nat \ {0}
    BY SqlAssumption DEF Onward, CallOK
  <1>2. /\ IsJob(b) /\ b.i = j.i + BatchSize /\ b.op = j.op /\ b.c = j.c /\ b.ns = j.ns /\ b.keys = j.keys
        /\ b.live = j.live /\ b.at = j.at /\ b.put = j.put /\ b.failed = j.failed /\ b.unsure = j.unsure /\ b.res = j.res
        /\ b.over = j.over
    BY <1>1 DEF CallOK, IsJob, Fields, Beyond
  <1> HIDE DEF b
  <1>3. All(b) = All(j) /\ Of(b) = Of(j)
    BY <1>2 DEF All, Of
  <1>4. CallOK(b)
    BY <1>1, <1>2, <1>3 DEF CallOK
  <1>5. \A i \in All(j) : i \in Nat
    BY <1>1 DEF CallOK, All
  <1>6. Chunk(j) \cap Chunk(b) = {}
    BY <1>1, <1>2, <1>3, <1>5 DEF Chunk
  <1>7. \A i \in All(j) : i < j.i + BatchSize => i < j.i \/ i \in Chunk(j)
    BY <1>1, <1>5 DEF Chunk
  <1>8. Onward(k, b)
    BY <1>2, <1>3, <1>4 DEF Onward
  <1> QED BY <1>2, <1>3, <1>6, <1>7, <1>8 DEF b

\* A call goes on with other answers.
LEMMA ResOnward ==
    ASSUME NEW k, NEW j, Onward(k, j), NEW g, DOMAIN g = All(j)
    PROVE  LET b == [j EXCEPT !.res = g]
           IN  /\ Onward(k, b) /\ b.i = j.i /\ b.failed = j.failed /\ Of(b) = Of(j)
               /\ b.put = j.put /\ b.op = j.op /\ All(b) = All(j) /\ b.res = g
  <1> DEFINE b == [j EXCEPT !.res = g]
  <1>1. CallOK(j)
    BY DEF Onward
  <1>2. /\ IsJob(b) /\ b.i = j.i /\ b.op = j.op /\ b.c = j.c /\ b.ns = j.ns /\ b.keys = j.keys
        /\ b.live = j.live /\ b.at = j.at /\ b.put = j.put /\ b.failed = j.failed /\ b.unsure = j.unsure
        /\ b.res = g /\ b.over = j.over
    BY <1>1 DEF CallOK, IsJob, Fields
  <1> HIDE DEF b
  <1>3. All(b) = All(j) /\ Of(b) = Of(j)
    BY <1>2 DEF All, Of
  <1>4. CallOK(b)
    BY <1>1, <1>2, <1>3 DEF CallOK
  <1>5. Onward(k, b)
    BY <1>2, <1>3, <1>4 DEF Onward
  <1> QED BY <1>2, <1>3, <1>5 DEF b

\* b is j but for its answers.
Like(b, j) ==
    /\ b.i = j.i /\ b.failed = j.failed /\ Of(b) = Of(j) /\ b.put = j.put /\ b.op = j.op /\ All(b) = All(j)

\* b answers true for the entries I, and as j for the others.
Grants(b, j, I) == \A i \in All(j) : (i \in I => b.res[i] = TRUE) /\ (i \notin I => b.res[i] = j.res[i])

LEMMA TruesOnward ==
    ASSUME NEW k, NEW j, Onward(k, j), NEW I
    PROVE  Onward(k, SqliteResults(j, I)) /\ Like(SqliteResults(j, I), j) /\ Grants(SqliteResults(j, I), j, I)
  <1> DEFINE g == [i \in DOMAIN j.res |-> IF i \in I THEN TRUE ELSE j.res[i]]
  <1>1. DOMAIN j.res = All(j)
    BY DEF Onward, CallOK
  <1>2. SqliteResults(j, I) = [j EXCEPT !.res = g]
    BY DEF SqliteResults, Answered
  <1>3. DOMAIN g = All(j) /\ \A i \in All(j) : g[i] = IF i \in I THEN TRUE ELSE j.res[i]
    BY <1>1
  <1> HIDE DEF g
  <1>4. LET b == [j EXCEPT !.res = g] IN Onward(k, b) /\ Like(b, j) /\ b.res = g
    BY <1>3, ResOnward DEF Like
  <1>5. Onward(k, SqliteResults(j, I)) /\ Like(SqliteResults(j, I), j) /\ SqliteResults(j, I).res = g
    BY <1>2, <1>4
  <1> QED BY <1>3, <1>5 DEF Grants

LEMMA JudgedOnward ==
    ASSUME NEW k, NEW j, Onward(k, j), NEW I
    PROVE  LET b == Judged(j, I)
           IN  /\ Onward(k, b) /\ Like(b, j)
               /\ \A i \in All(j) : b.res[i] = IF i \in I THEN Answer(j.op, db[Slot(j, i)], Slot(j, i) \in Old(j, I))
                                               ELSE j.res[i]
  <1> DEFINE g == [i \in DOMAIN j.res |-> IF i \in I THEN Answer(j.op, db[Slot(j, i)], Slot(j, i) \in Old(j, I))
                                          ELSE j.res[i]]
  <1>1. DOMAIN j.res = All(j)
    BY DEF Onward, CallOK
  <1>2. Judged(j, I) = [j EXCEPT !.res = g]
    BY DEF Judged, Answered
  <1>3. /\ DOMAIN g = All(j)
        /\ \A i \in All(j) : g[i] = IF i \in I THEN Answer(j.op, db[Slot(j, i)], Slot(j, i) \in Old(j, I))
                                    ELSE j.res[i]
    BY <1>1
  <1> HIDE DEF g
  <1>4. LET b == [j EXCEPT !.res = g] IN Onward(k, b) /\ Like(b, j) /\ b.res = g
    BY <1>3, ResOnward DEF Like
  <1>5. Onward(k, Judged(j, I)) /\ Like(Judged(j, I), j) /\ Judged(j, I).res = g
    BY <1>2, <1>4
  <1> QED BY <1>3, <1>5

\* What SQLite found of a key answers every entry with it.
Known(j, I) == {i \in All(j) : Slot(j, i) \in SlotsAt(j, I) /\ db[Slot(j, i)] # None /\ Slot(j, i) \notin Old(j, I)}

Recalls(b, j, I) ==
    \A i \in All(j) : b.res[i] = IF i \in Known(j, I) THEN Answer(j.op, db[Slot(j, i)], FALSE) ELSE j.res[i]

LEMMA SqliteJudgedOnward ==
    ASSUME NEW k, NEW j, Onward(k, j), NEW I
    PROVE  Onward(k, SqliteJudged(j, I)) /\ Like(SqliteJudged(j, I), j) /\ Recalls(SqliteJudged(j, I), j, I)
  <1> DEFINE g == [i \in DOMAIN j.res |-> IF i \in Known(j, I) THEN Answer(j.op, db[Slot(j, i)], FALSE)
                                          ELSE j.res[i]]
  <1>1. DOMAIN j.res = All(j)
    BY DEF Onward, CallOK
  <1>2. SqliteJudged(j, I) = [j EXCEPT !.res = g]
    BY DEF SqliteJudged, Answered, Known
  <1>3. /\ DOMAIN g = All(j)
        /\ \A i \in All(j) : g[i] = IF i \in Known(j, I) THEN Answer(j.op, db[Slot(j, i)], FALSE) ELSE j.res[i]
    BY <1>1
  <1> HIDE DEF g
  <1>4. LET b == [j EXCEPT !.res = g] IN Onward(k, b) /\ Like(b, j) /\ b.res = g
    BY <1>3, ResOnward DEF Like
  <1>5. Onward(k, SqliteJudged(j, I)) /\ Like(SqliteJudged(j, I), j) /\ SqliteJudged(j, I).res = g
    BY <1>2, <1>4
  <1> QED BY <1>3, <1>5 DEF Recalls

LEMMA ExistedOnward ==
    ASSUME NEW k, NEW j, Onward(k, j), NEW I
    PROVE  LET b == Existed(j, I)
           IN  /\ Onward(k, b) /\ Like(b, j)
               /\ \A i \in All(j) : b.res[i] = (j.res[i] \/ Slot(j, i) \in Existing(j, I))
  <1> DEFINE g == [i \in DOMAIN j.res |-> j.res[i] \/ Slot(j, i) \in Existing(j, I)]
  <1>1. DOMAIN j.res = All(j)
    BY DEF Onward, CallOK
  <1>2. Existed(j, I) = [j EXCEPT !.res = g]
    <2>1. Existed(j, I) = [j EXCEPT !.res = [i \in DOMAIN j.res |-> IF i \in All(j)
                                                THEN j.res[i] \/ Slot(j, i) \in Existing(j, I) ELSE j.res[i]]]
      BY DEF Existed, Answered
    <2>2. [i \in DOMAIN j.res |-> IF i \in All(j) THEN j.res[i] \/ Slot(j, i) \in Existing(j, I) ELSE j.res[i]] = g
      BY <1>1
    <2> HIDE DEF g
    <2> QED BY <2>1, <2>2
  <1>3. DOMAIN g = All(j) /\ \A i \in All(j) : g[i] = (j.res[i] \/ Slot(j, i) \in Existing(j, I))
    BY <1>1
  <1> HIDE DEF g
  <1>4. LET b == [j EXCEPT !.res = g] IN Onward(k, b) /\ Like(b, j) /\ b.res = g
    BY <1>3, ResOnward DEF Like
  <1>5. Onward(k, Existed(j, I)) /\ Like(Existed(j, I), j) /\ Existed(j, I).res = g
    BY <1>2, <1>4
  <1> QED BY <1>3, <1>5

LEMMA FailedOnward ==
    ASSUME NEW k, NEW j, Onward(k, j)
    PROVE  LET b == Failed(j)
           IN  /\ Onward(k, b) /\ b.failed = TRUE /\ b.i = j.i /\ Of(b) = Of(j) /\ b.op = j.op
               /\ b.put = j.put /\ b.res = j.res /\ All(b) = All(j) /\ b.out = j.out /\ b.last = j.last
  <1> DEFINE b == Failed(j)
  <1>1. CallOK(j)
    BY DEF Onward
  <1>2. /\ IsJob(b) /\ b.i = j.i /\ b.op = j.op /\ b.c = j.c /\ b.ns = j.ns /\ b.keys = j.keys
        /\ b.live = j.live /\ b.at = j.at /\ b.put = j.put /\ b.failed = TRUE /\ b.unsure = j.unsure
        /\ b.res = j.res /\ b.over = j.over /\ b.out = j.out /\ b.last = j.last
    BY <1>1 DEF CallOK, IsJob, Fields, Failed
  <1> HIDE DEF b
  <1>3. All(b) = All(j) /\ Of(b) = Of(j)
    BY <1>2 DEF All, Of
  <1>4. CallOK(b)
    BY <1>1, <1>2, <1>3 DEF CallOK
  <1>5. Onward(k, b)
    BY <1>2, <1>3, <1>4 DEF Onward
  <1> QED BY <1>2, <1>3, <1>5 DEF b

LEMMA SameOnward == ASSUME SqlInv, NEW r \in flight PROVE Onward(job[r.t], job[r.t])
  BY Current DEF Onward

---------------------------------------------------------------------------
(* What a move makes of the answers *)

LEMMA OpsApart ==
    /\ ReadOps \cap (HasOps \cup WriteOps \cup DeleteOps) = {} /\ HasOps \cap (WriteOps \cup DeleteOps) = {}
    /\ WriteOps \cap DeleteOps = {} /\ WalkOps \cap KeyOps = {}
    /\ KeyOps = ReadOps \cup HasOps \cup WriteOps \cup DeleteOps /\ "iterator" \notin KeyOps
  BY DEF KeyOps, ReadOps, HasOps, WriteOps, DeleteOps, WalkOps

LEMMA SightsOf ==
    ASSUME SqlInv, NEW r \in flight, NEW d, NEW j, Onward(job[r.t], j), j.op \in KeyOps \ WriteOps, NEW i \in All(j)
    PROVE  /\ i \in All(job[r.t]) /\ Slot(j, i) \in Slots /\ Slot(job[r.t], i) = Slot(j, i)
           /\ Sights(r, d, j)[Slot(j, i)] = seen[r.t][Slot(j, i)] \cup Looks(d[Slot(j, i)], j.at, now)
           /\ Looks(db[Slot(j, i)], j.at, now) \subseteq seen[r.t][Slot(j, i)]
  <1>1. CallOK(j) /\ Of(j) = Of(job[r.t])
    BY DEF Onward
  <1>2. Slot(j, i) \in Concerns(j) /\ Slot(j, i) \in Slots
    BY <1>1, KeysConcern, SlotIn
  <1>3. /\ job[r.t].op = j.op /\ job[r.t].ns = j.ns /\ job[r.t].keys = j.keys /\ job[r.t].at = j.at
    BY <1>1 DEF Of
  <1>4. Concerns(job[r.t]) = Concerns(j) /\ i \in All(job[r.t]) /\ Slot(job[r.t], i) = Slot(j, i)
    BY <1>3 DEF Concerns, All, Slot
  <1>5. Noted(job[r.t], seen[r.t])
    BY Current DEF AnswersAt
  <1> QED BY <1>2, <1>3, <1>4, <1>5 DEF Noted, Sights, More

\* What the statement r of a walk leaves to its call.
Walks(r, d, F, j) ==
    /\ j.op = "iterator" => Walked(j, Sights(r, d, j))
    /\ F = {} => WalkDone(j, Sights(r, d, j))

LEMMA WalkAnswers ==
    ASSUME SqlInv, NEW r \in flight, NEW d, NEW F, NEW j, Onward(job[r.t], j), j.op \in WalkOps, Walks(r, d, F, j)
    PROVE  Answers(r, d, F, j)
  <1> DEFINE k == After(r, d, j)
  <1>1. Of(k) = Of(j) /\ k.out = j.out /\ k.last = j.last /\ k.failed = j.failed
    BY AfterOK DEF SqlInv
  <1> HIDE DEF k
  <1>2. k.op = j.op /\ k.ns = j.ns
    BY <1>1 DEF Of
  <1>3. \A H : (Walked(j, H) => Walked(k, H)) /\ (WalkDone(j, H) => WalkDone(k, H))
    BY <1>1, <1>2 DEF Walked, WalkDone, Passed
  <1>4. \A S : AnswersOK(k, S, Sights(r, d, j))
    BY <1>2, <1>3, OpsApart DEF AnswersOK, Walks
  <1> QED BY <1>3, <1>4 DEF Answers, Walks, k

\* A walk is concerned with every key.
LEMMA WalkSights ==
    ASSUME SqlInv, NEW r \in flight, NEW d, NEW j, Onward(job[r.t], j), j.op \in WalkOps, NEW s \in Slots
    PROVE  /\ Sights(r, d, j)[s] = seen[r.t][s] \cup Looks(d[s], j.at, now)
           /\ Looks(db[s], j.at, now) \subseteq seen[r.t][s]
  <1>1. job[r.t].op = j.op /\ job[r.t].at = j.at
    BY DEF Onward, Of
  <1>2. Concerns(j) = Slots /\ Concerns(job[r.t]) = Slots
    BY <1>1, OpsApart DEF Concerns
  <1>3. Noted(job[r.t], seen[r.t])
    BY Current DEF AnswersAt
  <1> QED BY <1>1, <1>2, <1>3 DEF Noted, Sights, More

\* What was yielded before stays as it is.
LEMMA WalkedStays ==
    ASSUME SqlInv, NEW r \in flight, NEW d, NEW j, Onward(job[r.t], j), j.op \in WalkOps,
           j.out = job[r.t].out, j.last = job[r.t].last
    PROVE  j.op = "iterator" => Walked(j, Sights(r, d, j))
  <1> SUFFICES ASSUME j.op = "iterator" PROVE Walked(j, Sights(r, d, j))
    OBVIOUS
  <1>1. job[r.t].op = j.op /\ job[r.t].ns = j.ns /\ j.ns \in Namespaces
    BY DEF Onward, Of, CallOK
  <1>2. Walked(job[r.t], seen[r.t])
    BY <1>1, Current DEF AnswersOK
  <1>3. Walked(j, seen[r.t])
    BY <1>1, <1>2 DEF Walked, Passed
  <1>4. \A s \in Slots : seen[r.t][s] \subseteq Sights(r, d, j)[s]
    BY WalkSights
  <1> QED BY <1>1, <1>3, <1>4, WalkedGrows

\* A call on keys walks through nothing.
LEMMA KeysWalk ==
    ASSUME SqlInv, NEW r \in flight, NEW d, NEW j, Onward(job[r.t], j), j.op \in KeyOps
    PROVE  WalkDone(After(r, d, j), Sights(r, d, j))
  <1>1. Of(After(r, d, j)) = Of(j)
    BY AfterOK DEF SqlInv
  <1>2. After(r, d, j).op = j.op
    BY <1>1 DEF Of
  <1> QED BY <1>2, KeysDone

\* How the row of entry i looked to the statement.
Found(j, i) == db[Slot(j, i)] # None /\ ~Expired(db[Slot(j, i)], j.at)
Kept(r, j, i) == j.res[i] = job[r.t].res[i]
Judges(j, i) ==
    \/ Found(j, i) /\ j.res[i] = Answer(j.op, db[Slot(j, i)], FALSE)
    \/ ~Found(j, i) /\ j.res[i] = IF j.op \in ReadOps THEN None ELSE FALSE

LEMMA ReadAnswers ==
    ASSUME SqlInv, NEW r \in flight, NEW d \in [Slots -> Rows], NEW j, Onward(job[r.t], j), j.op \in ReadOps \cup HasOps,
           NEW S, \A i \in All(j) : Judges(j, i) \/ Kept(r, j, i),
           \A i \in All(j) \cap S : Judges(j, i) \/ (Kept(r, j, i) /\ (~Found(j, i) \/ i \in Settled(r, job[r.t])))
    PROVE  AnswersOK(After(r, d, j), S, Sights(r, d, j))
  <1> DEFINE k == After(r, d, j)
             H == Sights(r, d, j)
             b == job[r.t]
  <1>1. /\ All(k) = All(j) /\ k.res = j.res /\ Of(k) = Of(j) /\ CallOK(j) /\ Of(j) = Of(b)
        /\ db \in [Slots -> Rows] /\ b.at <= now /\ now \in Nat
    BY AfterOK, Current DEF Onward, SqlInv
  <1>2. k.op = j.op /\ b.op = j.op /\ b.at = j.at /\ j.at \in Nat /\ \A i : Slot(k, i) = Slot(j, i)
    BY <1>1 DEF Of, CallOK, Slot
  <1>3. AnswersOK(b, Settled(r, b), seen[r.t])
    BY Current
  <1> HIDE DEF k, H, b
  <1>4. ASSUME NEW i \in All(j)
        PROVE  /\ i \in All(b) /\ Slot(b, i) = Slot(j, i) /\ Slot(j, i) \in Slots
               /\ seen[r.t][Slot(j, i)] \subseteq H[Slot(j, i)]
               /\ Looks(db[Slot(j, i)], j.at, now) \subseteq H[Slot(j, i)]
    <2>1. j.op \in KeyOps \ WriteOps
      BY OpsApart
    <2> QED BY <2>1, SightsOf DEF b, H
  <1>5. ASSUME NEW i \in All(j), Found(j, i)
        PROVE  db[Slot(j, i)].val \in H[Slot(j, i)] /\ db[Slot(j, i)].val \notin {None, Stale}
    BY <1>1, <1>2, <1>4, <1>5, RowLooks DEF Found
  <1>6. ASSUME NEW i \in All(j), ~Found(j, i) PROVE None \in H[Slot(j, i)]
    BY <1>1, <1>2, <1>4, <1>6, RowLooks DEF Found
  <1>7. CASE j.op \in ReadOps
    <2>1. ASSUME NEW i \in All(j)
          PROVE  /\ j.res[i] = None \/ j.res[i] \in H[Slot(j, i)]
                 /\ i \in S => j.res[i] \in H[Slot(j, i)]
      <3>1. CASE Judges(j, i)
        BY <1>5, <1>6, <1>7, <3>1 DEF Judges, Answer, Found
      <3>2. CASE Kept(r, j, i)
        <4>1. /\ j.res[i] = b.res[i] /\ (b.res[i] = None \/ b.res[i] \in H[Slot(j, i)])
              /\ i \in Settled(r, b) => b.res[i] \in H[Slot(j, i)]
          BY <1>2, <1>3, <1>4, <1>7, <3>2 DEF AnswersOK, Kept, b
        <4>2. i \in S => Judges(j, i) \/ ~Found(j, i) \/ i \in Settled(r, b)
          BY DEF b
        <4> QED BY <1>6, <3>1, <4>1, <4>2
      <3> QED BY <3>1, <3>2
    <2> QED BY <1>1, <1>2, <1>7, <2>1, OpsApart DEF AnswersOK, k, H
  <1>8. CASE j.op \in HasOps
    <2>1. ASSUME NEW i \in All(j)
          PROVE  /\ j.res[i] \in BOOLEAN
                 /\ j.res[i] => \E x \in H[Slot(j, i)] : x \notin {None, Stale}
                 /\ (i \in S /\ ~j.res[i]) => None \in H[Slot(j, i)]
      <3>1. CASE Judges(j, i)
        BY <1>5, <1>6, <1>8, <3>1, OpsApart DEF Judges, Answer, Found
      <3>2. CASE Kept(r, j, i)
        <4>1. /\ j.res[i] = b.res[i] /\ b.res[i] \in BOOLEAN
              /\ b.res[i] => \E x \in seen[r.t][Slot(j, i)] : x \notin {None, Stale}
              /\ (i \in Settled(r, b) /\ ~b.res[i]) => None \in seen[r.t][Slot(j, i)]
          BY <1>2, <1>3, <1>4, <1>8, <3>2 DEF AnswersOK, Kept, b
        <4>2. i \in S => Judges(j, i) \/ ~Found(j, i) \/ i \in Settled(r, b)
          BY DEF b
        <4> QED BY <1>4, <1>6, <3>1, <4>1, <4>2
      <3> QED BY <3>1, <3>2
    <2> QED BY <1>1, <1>2, <1>8, <2>1, OpsApart DEF AnswersOK, k, H
  <1> QED BY <1>7, <1>8

LEMMA DeleteAnswers ==
    ASSUME SqlInv, NEW r \in flight, NEW d \in [Slots -> Rows], NEW j, Onward(job[r.t], j), j.op \in DeleteOps,
           NEW S, \A i \in All(j) : /\ j.res[i] \in BOOLEAN
                                    /\ j.res[i] => job[r.t].res[i] \/ db[Slot(j, i)] # None,
           \A i \in All(j) \cap S : i \in Settled(r, job[r.t]) \/ d[Slot(j, i)] = None
    PROVE  AnswersOK(After(r, d, j), S, Sights(r, d, j))
  <1> DEFINE k == After(r, d, j)
             H == Sights(r, d, j)
             b == job[r.t]
  <1>1. /\ All(k) = All(j) /\ k.res = j.res /\ Of(k) = Of(j) /\ CallOK(j) /\ Of(j) = Of(b)
        /\ db \in [Slots -> Rows] /\ b.at <= now /\ now \in Nat
    BY AfterOK, Current DEF Onward, SqlInv
  <1>2. k.op = j.op /\ b.op = j.op /\ b.at = j.at /\ j.at \in Nat /\ \A i : Slot(k, i) = Slot(j, i)
    BY <1>1 DEF Of, CallOK, Slot
  <1>3. AnswersOK(b, Settled(r, b), seen[r.t])
    BY Current
  <1> HIDE DEF k, H, b
  <1>4. ASSUME NEW i \in All(j)
        PROVE  /\ i \in All(b) /\ Slot(b, i) = Slot(j, i) /\ Slot(j, i) \in Slots
               /\ seen[r.t][Slot(j, i)] \subseteq H[Slot(j, i)]
               /\ Looks(db[Slot(j, i)], j.at, now) \subseteq H[Slot(j, i)]
               /\ Looks(d[Slot(j, i)], j.at, now) \subseteq H[Slot(j, i)]
    <2>1. j.op \in KeyOps \ WriteOps
      BY OpsApart
    <2> QED BY <2>1, SightsOf DEF b, H
  <1>5. ASSUME NEW i \in All(j)
        PROVE  /\ j.res[i] => \E x \in H[Slot(j, i)] : x # None
               /\ i \in S => None \in H[Slot(j, i)]
    <2>1. /\ b.res[i] => \E x \in seen[r.t][Slot(j, i)] : x # None
          /\ i \in Settled(r, b) => None \in seen[r.t][Slot(j, i)]
      BY <1>2, <1>3, <1>4 DEF AnswersOK
    <2>2. db[Slot(j, i)] # None => \E x \in H[Slot(j, i)] : x # None
      <3>1. db[Slot(j, i)] # None => \E x \in Looks(db[Slot(j, i)], j.at, now) : x # None
        BY <1>1, <1>2, <1>4, RowLooks
      <3> QED BY <1>4, <3>1
    <2>3. d[Slot(j, i)] = None => None \in H[Slot(j, i)]
      <3>1. d[Slot(j, i)] = None => None \in Looks(d[Slot(j, i)], j.at, now)
        BY <1>1, <1>2, <1>4, RowLooks
      <3> QED BY <1>4, <3>1
    <2> QED BY <1>4, <2>1, <2>2, <2>3 DEF b
  <1> QED BY <1>1, <1>2, <1>5, OpsApart DEF AnswersOK, k, H

LEMMA WriteAnswers ==
    ASSUME SqlInv, NEW r \in flight, NEW d, NEW j, Onward(job[r.t], j), j.op \in WriteOps, NEW S,
           \A i \in All(j) : /\ j.res[i] \in BOOLEAN
                             /\ j.res[i] => job[r.t].res[i] \/ i \in Taken(r, d)
                             /\ ~j.failed => ~job[r.t].failed /\ ((job[r.t].res[i] \/ i \in Taken(r, d)) => j.res[i])
    PROVE  AnswersOK(After(r, d, j), S, Sights(r, d, j))
  <1> DEFINE k == After(r, d, j)
             b == job[r.t]
  <1>1. /\ All(k) = All(j) /\ k.res = j.res /\ k.put = j.put \cup Taken(r, d) /\ k.failed = j.failed
        /\ Of(k) = Of(j) /\ Of(j) = Of(b) /\ j.put = b.put
    BY AfterOK DEF Onward, SqlInv
  <1>2. k.op = j.op /\ b.op = j.op /\ All(j) = All(b)
    BY <1>1 DEF Of, All
  <1>3. AnswersOK(b, Settled(r, b), seen[r.t])
    BY Current
  <1> HIDE DEF k, b
  <1>4. \A i \in All(j) : (b.res[i] => i \in b.put) /\ ((i \in b.put /\ ~b.failed) => b.res[i])
    BY <1>2, <1>3 DEF AnswersOK
  <1>5. \A i \in All(k) : /\ k.res[i] \in BOOLEAN /\ (k.res[i] => i \in k.put)
                          /\ (i \in k.put /\ ~k.failed) => k.res[i]
    BY <1>1, <1>4 DEF b
  <1> QED BY <1>2, <1>5, OpsApart DEF AnswersOK, k

---------------------------------------------------------------------------
(* Pages *)

\* A non-empty set of positions has a first one.
LEMMA FirstPosition ==
    ASSUME NEW J, J \subseteq Nat, J # {}
    PROVE  \E j \in J : \A m \in J : j <= m
  <1> DEFINE R == {p \in Nat \X Nat : p[1] < p[2]}
  <1>1. IsWellFoundedOn(R, Nat)
    BY NatLessThanWellFounded DEF OpToRel
  <1>2. \A x, y \in Nat : <<y, x>> \in R <=> y < x
    OBVIOUS
  <1>3. PICK j \in J : \A m \in J : <<m, j>> \notin R
    <2> HIDE DEF R
    <2> QED BY <1>1, WFMin
  <1>4. ASSUME NEW m \in J PROVE j <= m
    <2>1. m \in Nat /\ j \in Nat /\ ~(m < j)
      BY <1>2, <1>3
    <2> QED BY <2>1
  <1> QED BY <1>3, <1>4

\* f lists the positions S in order.
Lists(f, S) ==
    /\ f \in [1..Cardinality(S) -> S]
    /\ \A l, m \in 1..Cardinality(S) : l < m => f[l] < f[m]

LEMMA PositionsFinite ==
    ASSUME NEW n \in Nat, NEW S, S \subseteq 1..n
    PROVE  IsFiniteSet(S) /\ Cardinality(S) \in Nat
  <1>1. IsFiniteSet(1..n)
    BY FS_Interval
  <1> QED BY <1>1, FS_Subset, FS_CardinalityType

\* One more position, behind all others.
LEMMA ListsMore ==
    ASSUME NEW n \in Nat, NEW S, S \subseteq 1..n, NEW f, Lists(f, S)
    PROVE  \E g : Lists(g, S \cup {n + 1})
  <1> DEFINE c == Cardinality(S)
             g == [m \in 1..(c + 1) |-> IF m <= c THEN f[m] ELSE n + 1]
  <1>1. IsFiniteSet(S) /\ c \in Nat /\ n + 1 \notin S
    <2>1. IsFiniteSet(S) /\ c \in Nat
      BY PositionsFinite
    <2>2. n + 1 \notin 1..n
      OBVIOUS
    <2> QED BY <2>1, <2>2
  <1>2. Cardinality(S \cup {n + 1}) = c + 1
    BY <1>1, FS_AddElement
  <1> HIDE DEF c
  <1>3. /\ \A m \in 1..c : f[m] \in S
        /\ \A l, m \in 1..c : l < m => f[l] < f[m]
    BY DEF Lists, c
  <1>4. /\ \A m \in 1..c : g[m] = f[m] /\ m \in 1..(c + 1)
        /\ g[c + 1] = n + 1 /\ \A m \in 1..(c + 1) : m \in 1..c \/ m = c + 1
    BY <1>1
  <1>5. g \in [1..(c + 1) -> S \cup {n + 1}]
    BY <1>3, <1>4
  <1> HIDE DEF g
  <1>6. ASSUME NEW l \in 1..(c + 1), NEW m \in 1..(c + 1), l < m PROVE g[l] < g[m]
    <2>1. l \in 1..c
      BY <1>1, <1>6
    <2>2. CASE m \in 1..c
      BY <1>3, <1>4, <1>6, <2>1, <2>2
    <2>3. CASE m = c + 1
      <3>1. f[l] \in 1..n
        BY <1>3, <2>1
      <3> QED BY <1>4, <2>1, <2>3, <3>1
    <2> QED BY <1>4, <2>2, <2>3
  <1> QED BY <1>2, <1>5, <1>6 DEF Lists

LEMMA ListExists == ASSUME NEW n \in Nat, NEW S, S \subseteq 1..n PROVE \E f : Lists(f, S)
  <1> DEFINE Bad == {k \in Nat : \E T : T \subseteq 1..k /\ ~\E f : Lists(f, T)}
  <1> SUFFICES ASSUME Bad # {} PROVE FALSE
    OBVIOUS
  <1>1. PICK k \in Bad : \A m \in Bad : k <= m
    <2> HIDE DEF Bad
    <2>1. Bad \subseteq Nat
      BY DEF Bad
    <2> QED BY <2>1, FirstPosition
  <1>2. PICK T : T \subseteq 1..k /\ ~\E f : Lists(f, T)
    OBVIOUS
  <1>3. CASE k = 0
    <2>1. T = {}
      BY <1>2, <1>3
    <2>2. Lists([m \in 1..0 |-> 0], {})
      <3>1. Cardinality({}) = 0 /\ 1..0 = {}
        BY FS_EmptySet
      <3> QED BY <3>1 DEF Lists
    <2> QED BY <1>2, <2>1, <2>2
  <1>4. CASE k # 0
    <2>1. k - 1 \in Nat /\ k - 1 \notin Bad /\ (k - 1) + 1 = k /\ k \in Nat
      <3>1. k \in Nat
        BY <1>1
      <3> HIDE DEF Bad
      <3>2. k - 1 \in Nat /\ ~(k <= k - 1) /\ (k - 1) + 1 = k
        BY <1>4, <3>1
      <3> QED BY <1>1, <3>1, <3>2
    <2> DEFINE U == T \ {k}
    <2>2. U \subseteq 1..(k - 1)
      <3> SUFFICES ASSUME NEW m \in T, m # k PROVE m \in 1..(k - 1)
        OBVIOUS
      <3>1. m \in 1..k
        BY <1>2
      <3> QED BY <2>1, <3>1
    <2>3. PICK f : Lists(f, U)
      BY <2>1, <2>2
    <2>4. CASE k \in T
      <3>1. T = U \cup {(k - 1) + 1}
        BY <2>1, <2>4
      <3> HIDE DEF U
      <3>2. \E g : Lists(g, U \cup {(k - 1) + 1})
        BY <2>1, <2>2, <2>3, ListsMore
      <3> QED BY <1>2, <3>1, <3>2
    <2>5. CASE k \notin T
      <3>1. T = U
        BY <2>5
      <3> QED BY <1>2, <2>3, <3>1
    <2> QED BY <2>4, <2>5
  <1> QED BY <1>3, <1>4

\* InOrder lists a set of positions in order, and leaves none out.
LEMMA InOrderLists ==
    ASSUME NEW n \in Nat, NEW S, S \subseteq 1..n
    PROVE  /\ Cardinality(S) \in Nat /\ InOrder(S) \in [1..Cardinality(S) -> S]
           /\ \A l, m \in 1..Cardinality(S) : l < m => InOrder(S)[l] < InOrder(S)[m]
           /\ \A x \in S : \E m \in 1..Cardinality(S) : InOrder(S)[m] = x
  <1> DEFINE f == InOrder(S)
             c == Cardinality(S)
  <1>1. IsFiniteSet(S) /\ c \in Nat
    BY PositionsFinite
  <1>2. PICK g : Lists(g, S)
    BY ListExists
  <1>3. \E h \in [1..c -> S] : \A l, m \in DOMAIN h : l < m => h[l] < h[m]
    BY <1>2 DEF Lists
  <1>4. f \in [1..c -> S] /\ \A l, m \in DOMAIN f : l < m => f[l] < f[m]
    BY <1>3 DEF InOrder
  <1> HIDE DEF f, c
  <1>5. \A l, m \in 1..c : l < m => f[l] < f[m]
    BY <1>4
  <1>6. \A l, m \in 1..c : f[l] = f[m] => l = m
    <2> SUFFICES ASSUME NEW l \in 1..c, NEW m \in 1..c, f[l] = f[m], l # m PROVE FALSE
      OBVIOUS
    <2>1. f[l] \in S /\ f[m] \in S
      BY <1>4
    <2>2. f[l] \in 1..n /\ f[m] \in 1..n
      BY <2>1
    <2>3. l < m \/ m < l
      <3>1. l \in Int /\ m \in Int
        BY <1>1
      <3> QED BY <3>1
    <2> QED BY <1>5, <2>2, <2>3
  <1>7. f \in Injection(1..c, S)
    BY <1>4, <1>6 DEF Injection, IsInjective
  <1>8. Cardinality(1..c) = Cardinality(S)
    <2>1. Cardinality(1..c) = c
      BY <1>1, FS_Interval
    <2> QED BY <2>1 DEF c
  <1>9. f \in Surjection(1..c, S)
    BY <1>1, <1>7, <1>8, FS_Injection
  <1>10. \A x \in S : \E m \in 1..c : f[m] = x
    BY <1>9 DEF Surjection
  <1> QED BY <1>1, <1>4, <1>5, <1>10 DEF f, c

\* A page takes the first due, and all of them if it is not full.
LEMMA OnPageFirst ==
    ASSUME NEW n \in Nat, NEW D, D \subseteq 1..n
    PROVE  /\ OnPage(D) \subseteq D
           /\ \A x \in OnPage(D) : \A y \in D : y <= x => y \in OnPage(D)
           /\ Cardinality(OnPage(D)) < PageSize => OnPage(D) = D
  <1> DEFINE P == OnPage(D)
             Less(x) == {m \in D : m < x}
  <1>1. \A x : Less(x) \subseteq 1..n
    OBVIOUS
  <1>2. \A x : IsFiniteSet(Less(x)) /\ Cardinality(Less(x)) \in Nat
    BY <1>1, PositionsFinite
  <1>3. \A x \in D : x \in P <=> Cardinality(Less(x)) < PageSize
    BY DEF OnPage
  <1>4. P \subseteq D
    BY DEF OnPage
  <1>5. IsFiniteSet(P) /\ Cardinality(P) \in Nat /\ PageSize \in Nat
    <2>1. P \subseteq 1..n
      BY <1>4
    <2> QED BY <2>1, PositionsFinite, SqlAssumption
  <1> HIDE DEF P
  <1>6. ASSUME NEW x \in P, NEW y \in D, y <= x PROVE y \in P
    <2>1. Less(y) \subseteq Less(x)
      <3>1. x \in 1..n /\ y \in 1..n
        BY <1>4, <1>6
      <3> SUFFICES ASSUME NEW m \in D, m < y PROVE m < x
        OBVIOUS
      <3>2. m \in 1..n
        OBVIOUS
      <3> QED BY <1>6, <3>1, <3>2
    <2> HIDE DEF Less
    <2>2. Cardinality(Less(y)) <= Cardinality(Less(x))
      BY <1>2, <2>1, FS_Subset
    <2>3. Cardinality(Less(x)) < PageSize /\ Cardinality(Less(x)) \in Nat /\ Cardinality(Less(y)) \in Nat
      BY <1>2, <1>3, <1>4
    <2> QED BY <1>3, <1>5, <2>2, <2>3
  <1>7. ASSUME Cardinality(P) < PageSize, D \ P # {} PROVE FALSE
    <2>1. D \ P \subseteq Nat
      <3>1. 1..n \subseteq Nat
        OBVIOUS
      <3> QED BY <3>1
    <2>2. PICK x \in D \ P : \A m \in D \ P : x <= m
      BY <1>7, <2>1, FirstPosition
    <2>3. Less(x) \subseteq P
      <3> SUFFICES ASSUME NEW m \in D, m < x, m \notin P PROVE FALSE
        OBVIOUS
      <3>1. m \in 1..n /\ x \in 1..n /\ x <= m
        BY <2>2
      <3> QED BY <3>1
    <2> HIDE DEF Less
    <2>4. Cardinality(Less(x)) <= Cardinality(P) /\ Cardinality(Less(x)) \in Nat
      BY <1>2, <1>5, <2>3, FS_Subset
    <2> QED BY <1>3, <1>5, <1>7, <2>2, <2>4
  <1>8. Cardinality(P) < PageSize => P = D
    BY <1>4, <1>7
  <1> QED BY <1>4, <1>6, <1>8 DEF P

---------------------------------------------------------------------------
(* Iterations *)

\* The server's order of the keys.
LEMMA BeforeOrder ==
    ASSUME NEW i \in DOMAIN Names, NEW m \in DOMAIN Names PROVE Before(Names[i], Names[m]) <=> i < m
  BY CallsAssumption DEF Before

LEMMA BeforeTotal ==
    ASSUME NEW k \in Keys, NEW l \in Keys
    PROVE  /\ k = l \/ Before(k, l) \/ Before(l, k)
           /\ \A p \in Keys : Before(k, l) /\ Before(l, p) => Before(k, p)
  <1>1. PICK i \in DOMAIN Names : Names[i] = k
    BY DEF Keys
  <1>2. PICK m \in DOMAIN Names : Names[m] = l
    BY DEF Keys
  <1>3. \A x \in DOMAIN Names : x \in Int
    BY CallsAssumption
  <1>4. i = m \/ i < m \/ m < i
    BY <1>3
  <1>5. k = l \/ Before(k, l) \/ Before(l, k)
    BY <1>1, <1>2, <1>4, BeforeOrder
  <1>6. ASSUME NEW p \in Keys, Before(k, l), Before(l, p) PROVE Before(k, p)
    <2>1. PICK n \in DOMAIN Names : Names[n] = p
      BY DEF Keys
    <2>2. i < m /\ m < n
      BY <1>1, <1>2, <1>6, <2>1, BeforeOrder
    <2>3. i < n
      BY <1>3, <2>2
    <2> QED BY <1>1, <2>1, <2>3, BeforeOrder
  <1> QED BY <1>5, <1>6

\* A key that is due on a page of the call j by the time n.
DueKey(j, n, k) == Visible(db[<<j.ns, k>>], n) /\ (j.last = None \/ Before(j.last, k))

\* The keys ks are those a page is to have.
PageOK(j, n, ks) ==
    /\ ks \in Seq(Keys)
    /\ \A l, m \in DOMAIN ks : l < m => Before(ks[l], ks[m])
    /\ \A m \in DOMAIN ks : DueKey(j, n, ks[m])
    /\ \A k \in Keys : DueKey(j, n, k) =>
          \/ \E m \in DOMAIN ks : ks[m] = k
          \/ ks # <<>> /\ PageSize <= Len(ks) /\ Before(ks[Len(ks)], k)

LEMMA PageKeysOK == ASSUME NEW j, NEW n PROVE PageOK(j, n, PageKeys(j, n))
  <1> DEFINE D    == DuePage(j, n)
             P    == OnPage(D)
             c    == Cardinality(P)
             page == InOrder(P)
             N    == Len(Names)
             ks   == PageKeys(j, n)
  <1>1. N \in Nat /\ DOMAIN Names = 1..N
    BY CallsAssumption
  <1>2. D \subseteq 1..N /\ \A i \in DOMAIN Names : i \in D <=> DueKey(j, n, Names[i])
    BY <1>1 DEF DuePage, DueKey
  <1> HIDE DEF D, N
  <1>3. /\ P \subseteq D
        /\ \A x \in P : \A y \in D : y <= x => y \in P
        /\ c < PageSize => P = D
    BY <1>1, <1>2, OnPageFirst
  <1> HIDE DEF P
  <1>4. /\ c \in Nat /\ page \in [1..c -> P]
        /\ \A l, m \in 1..c : l < m => page[l] < page[m]
        /\ \A x \in P : \E m \in 1..c : page[m] = x
    <2>1. P \subseteq 1..N
      BY <1>2, <1>3
    <2> QED BY <1>1, <2>1, InOrderLists
  <1>5. ks = [m \in 1..c |-> Names[page[m]]]
    <2>1. ks = [m \in DOMAIN page |-> Names[page[m]]]
      BY DEF PageKeys, P, D
    <2> HIDE DEF ks, page
    <2> QED BY <1>4, <2>1
  <1> HIDE DEF c, page, ks
  <1>6. \A m \in 1..c : page[m] \in P /\ page[m] \in DOMAIN Names /\ page[m] \in 1..N /\ ks[m] = Names[page[m]]
    BY <1>1, <1>2, <1>3, <1>4, <1>5
  <1>7. ks \in Seq(Keys) /\ Len(ks) = c /\ DOMAIN ks = 1..c
    <2>1. \A m \in 1..c : ks[m] \in Keys
      BY <1>6 DEF Keys
    <2> QED BY <1>4, <1>5, <2>1
  <1>8. \A l, m \in 1..c : l < m => Before(ks[l], ks[m])
    BY <1>4, <1>6, BeforeOrder
  <1>9. \A m \in 1..c : DueKey(j, n, ks[m])
    BY <1>2, <1>3, <1>6
  <1>10. ASSUME NEW k \in Keys, DueKey(j, n, k), ~\E m \in 1..c : ks[m] = k
         PROVE  c # 0 /\ PageSize <= c /\ Before(ks[c], k)
    <2>1. PICK i \in DOMAIN Names : Names[i] = k
      BY DEF Keys
    <2>2. i \in D /\ i \in 1..N
      BY <1>1, <1>2, <1>10, <2>1
    <2>3. i \notin P
      BY <1>4, <1>6, <1>10, <2>1
    <2>4. PageSize <= c /\ c \in 1..c /\ c # 0
      <3>1. ~(c < PageSize)
        BY <1>3, <2>2, <2>3
      <3> QED BY <1>4, <3>1, SqlAssumption
    <2>5. page[c] < i
      <3>1. ~(i <= page[c])
        BY <1>3, <1>6, <2>2, <2>3, <2>4
      <3>2. page[c] \in 1..N
        BY <1>6, <2>4
      <3> QED BY <2>2, <3>1, <3>2
    <2>6. Before(Names[page[c]], Names[i])
      BY <1>6, <2>4, <2>5, BeforeOrder
    <2> QED BY <1>6, <2>1, <2>4, <2>6
  <1>11. c # 0 => ks # <<>>
    BY <1>7
  <1> QED BY <1>7, <1>8, <1>9, <1>10, <1>11 DEF PageOK, ks

\* What a row looks like tells what a page says of it.
LEMMA PageLooks ==
    ASSUME NEW row \in Rows, NEW at \in Nat, NEW n \in Int, NEW m \in Nat, at <= n, n <= m
    PROVE  /\ Visible(row, n) => row.val \in Looks(row, at, m) /\ row.val \in Values
           /\ ~Visible(row, n) => None \in Looks(row, at, m)
  <1>1. row # None => row.val \in Values /\ row.exp \in Int \cup {None}
    BY DEF Rows, Row
  <1>2. Visible(row, n) => Visible(row, at)
    BY <1>1, CallsAssumption DEF Visible, Expired
  <1>3. ~Visible(row, n) => ~Visible(row, m)
    BY <1>1, CallsAssumption DEF Visible, Expired
  <1> QED BY <1>1, <1>2, <1>3 DEF Looks, Visible

\* Appending to what was yielded.
LEMMA Appends ==
    ASSUME NEW R, NEW o \in Seq(R), NEW y \in Seq(R)
    PROVE  /\ o \o y \in Seq(R)
           /\ \A i \in DOMAIN o : i \in DOMAIN (o \o y) /\ (o \o y)[i] = o[i]
           /\ \A m \in DOMAIN y : \E i \in DOMAIN (o \o y) : (o \o y)[i] = y[m]
           /\ \A i \in DOMAIN (o \o y) :
                 \/ i \in DOMAIN o
                 \/ \E m \in DOMAIN y : i = Len(o) + m /\ (o \o y)[i] = y[m]
  <1> DEFINE p == Len(o)
             q == Len(y)
             z == o \o y
  <1>1. p \in Nat /\ q \in Nat /\ DOMAIN o = 1..p /\ DOMAIN y = 1..q
    OBVIOUS
  <1>2. z \in Seq(R) /\ DOMAIN z = 1..(p + q)
    OBVIOUS
  <1>3. /\ \A i \in 1..p : z[i] = o[i]
        /\ \A m \in 1..q : z[p + m] = y[m]
    OBVIOUS
  <1> HIDE DEF p, q, z
  <1>4. \A i \in 1..p : i \in 1..(p + q)
    BY <1>1
  <1>5. \A m \in 1..q : p + m \in 1..(p + q)
    BY <1>1
  <1>6. ASSUME NEW i \in 1..(p + q), i \notin 1..p PROVE i - p \in 1..q /\ i = p + (i - p)
    BY <1>1, <1>6
  <1>7. ASSUME NEW i \in 1..(p + q), i \notin 1..p PROVE \E m \in 1..q : i = p + m /\ z[i] = y[m]
    BY <1>3, <1>6, <1>7
  <1> QED BY <1>1, <1>2, <1>3, <1>4, <1>5, <1>7 DEF p, z

\* The call after a page of the keys ks.
Yields(b, ks) ==
    IF ks = <<>> THEN b
    ELSE [b EXCEPT !.last = ks[Len(ks)],
                   !.out = @ \o [i \in DOMAIN ks |-> [key |-> ks[i], val |-> db[<<b.ns, ks[i]>>].val]]]

LEMMA PageWalks ==
    ASSUME db \in [Slots -> Rows], NEW b, CallOK(b), NEW n \in Int, b.at <= n, n <= now, now \in Nat,
           NEW ks, PageOK(b, n, ks), NEW H, NEW G, Walked(b, H), \A s \in Slots : H[s] \subseteq G[s],
           \A s \in Slots : Looks(db[s], b.at, now) \subseteq G[s]
    PROVE  /\ Walked(Yields(b, ks), G)
           /\ Len(ks) < PageSize => \A k \in Keys : Passed(Yields(b, ks), G, k)
  <1> DEFINE c == Len(ks)
             y == [i \in DOMAIN ks |-> [key |-> ks[i], val |-> db[<<b.ns, ks[i]>>].val]]
             j == Yields(b, ks)
             R == [key : Keys, val : Values]
  <1>1. b.ns \in Namespaces /\ b.at \in Nat
    BY DEF CallOK
  <1>2. \A k \in Keys : <<b.ns, k>> \in Slots
    BY <1>1 DEF Slots
  <1>3. /\ ks \in Seq(Keys) /\ DOMAIN ks = 1..c /\ c \in Nat
        /\ \A l, m \in DOMAIN ks : l < m => Before(ks[l], ks[m])
        /\ \A m \in DOMAIN ks : ks[m] \in Keys /\ DueKey(b, n, ks[m])
        /\ \A k \in Keys : DueKey(b, n, k) =>
              \/ \E m \in DOMAIN ks : ks[m] = k
              \/ ks # <<>> /\ PageSize <= c /\ Before(ks[c], k)
    BY DEF PageOK
  <1>4. ASSUME NEW k \in Keys
        PROVE  /\ Visible(db[<<b.ns, k>>], n) => db[<<b.ns, k>>].val \in G[<<b.ns, k>>] /\ db[<<b.ns, k>>].val \in Values
               /\ ~Visible(db[<<b.ns, k>>], n) => None \in G[<<b.ns, k>>]
    BY <1>1, <1>2, PageLooks
  <1>5. Walked(b, G)
    BY <1>1, WalkedGrows
  <1>6. PageSize \in Nat /\ PageSize > 0
    BY SqlAssumption
  <1>7. CASE ks = <<>>
    <2>1. j = b /\ DOMAIN ks = {}
      BY <1>7 DEF Yields
    <2>2. ASSUME NEW k \in Keys PROVE Passed(b, G, k)
      <3>1. ~DueKey(b, n, k)
        BY <1>3, <1>7, <2>1
      <3> QED BY <1>4, <1>5, <3>1 DEF DueKey, Passed, Walked
    <2> QED BY <1>5, <2>1, <2>2
  <1>8. CASE ks # <<>>
    <2>1. /\ j.ns = b.ns /\ j.last = ks[c] /\ j.out = b.out \o y
      BY <1>8 DEF Yields, CallOK, IsJob, Fields
    <2>2. c \in DOMAIN ks /\ \A m \in DOMAIN ks : m = c \/ m < c
      <3>1. c # 0
        BY <1>3, <1>8
      <3> HIDE DEF c
      <3> QED BY <1>3, <3>1
    <2>3. DOMAIN y = DOMAIN ks /\ \A m \in DOMAIN ks : y[m].key = ks[m] /\ y[m].val = db[<<b.ns, ks[m]>>].val
      OBVIOUS
    <2>4. y \in Seq(R)
      <3>1. \A m \in DOMAIN ks : [key |-> ks[m], val |-> db[<<b.ns, ks[m]>>].val] \in R
        BY <1>3, <1>4 DEF DueKey
      <3> HIDE DEF c, R
      <3> QED BY <1>3, <3>1
    <2> HIDE DEF y, j, c
    <2>5. /\ b.out \in Seq(R) /\ b.last \in Keys \cup {None}
          /\ \A i, m \in DOMAIN b.out : i < m => Before(b.out[i].key, b.out[m].key)
          /\ \A i \in DOMAIN b.out : /\ b.last # None /\ (b.out[i].key = b.last \/ Before(b.out[i].key, b.last))
                                    /\ b.out[i].val \in G[<<b.ns, b.out[i].key>>]
          /\ b.last # None => \A k \in Keys : ~Before(b.last, k) => Passed(b, G, k)
      BY <1>5 DEF Walked
    <2>6. /\ j.out \in Seq(R)
          /\ \A i \in DOMAIN b.out : i \in DOMAIN j.out /\ j.out[i] = b.out[i]
          /\ \A m \in DOMAIN y : \E i \in DOMAIN j.out : j.out[i] = y[m]
          /\ \A i \in DOMAIN j.out : i \in DOMAIN b.out \/ \E m \in DOMAIN y : i = Len(b.out) + m /\ j.out[i] = y[m]
      <3> DEFINE z == b.out \o y
      <3> HIDE DEF R
      <3>1. b.out \in Seq(R)
        BY <2>5
      <3>2. /\ z \in Seq(R)
            /\ \A i \in DOMAIN b.out : i \in DOMAIN z /\ z[i] = b.out[i]
            /\ \A m \in DOMAIN y : \E i \in DOMAIN z : z[i] = y[m]
            /\ \A i \in DOMAIN z : i \in DOMAIN b.out \/ \E m \in DOMAIN y : i = Len(b.out) + m /\ z[i] = y[m]
        BY <2>4, <3>1, Appends
      <3>3. j.out = z
        BY <2>1
      <3> HIDE DEF z
      <3> QED BY <3>2, <3>3
    <2>7. \A i \in DOMAIN b.out : b.out[i].key \in Keys
      <3>1. \A i \in DOMAIN b.out : b.out[i] \in R
        <4> HIDE DEF R
        <4> QED BY <2>5
      <3> QED BY <3>1
    <2>8. \A i \in DOMAIN b.out : \A m \in DOMAIN ks : Before(b.out[i].key, ks[m])
      <3> SUFFICES ASSUME NEW i \in DOMAIN b.out, NEW m \in DOMAIN ks PROVE Before(b.out[i].key, ks[m])
        OBVIOUS
      <3>1. Before(b.last, ks[m]) /\ b.last \in Keys
        BY <1>3, <2>5 DEF DueKey
      <3> QED BY <1>3, <2>5, <2>7, <3>1, BeforeTotal
    <2>9. ASSUME NEW i \in DOMAIN j.out, NEW m \in DOMAIN j.out, i < m PROVE Before(j.out[i].key, j.out[m].key)
      <3> DEFINE p == Len(b.out)
      <3>1. p \in Nat /\ DOMAIN b.out = 1..p
        <4> HIDE DEF R
        <4> QED BY <2>5
      <3> HIDE DEF p
      <3>2. CASE i \in DOMAIN b.out /\ m \in DOMAIN b.out
        BY <2>5, <2>6, <2>9, <3>2
      <3>3. CASE i \in DOMAIN b.out /\ m \notin DOMAIN b.out
        <4>1. PICK x \in DOMAIN y : j.out[m] = y[x]
          BY <2>6, <3>3
        <4>2. j.out[m].key = ks[x] /\ x \in DOMAIN ks /\ j.out[i] = b.out[i]
          BY <2>3, <2>6, <3>3, <4>1
        <4> QED BY <2>8, <3>3, <4>2
      <3>4. CASE i \notin DOMAIN b.out
        <4>1. PICK x \in DOMAIN y : i = p + x /\ j.out[i] = y[x]
          BY <2>6, <3>4 DEF p
        <4>2. x \in 1..c
          BY <1>3, <2>3, <4>1 DEF c
        <4>3. m \notin 1..p
          BY <1>3, <2>9, <3>1, <4>1, <4>2
        <4>4. PICK z \in DOMAIN y : m = p + z /\ j.out[m] = y[z]
          BY <2>6, <3>1, <4>3 DEF p
        <4>5. z \in 1..c /\ c \in Nat
          BY <1>3, <2>3, <4>4 DEF c
        <4>6. x < z
          BY <2>9, <3>1, <4>1, <4>2, <4>4, <4>5
        <4> QED BY <1>3, <2>3, <4>1, <4>4, <4>6
      <3> QED BY <3>2, <3>3, <3>4
    <2>10. j.last \in Keys /\ j.last # None
      BY <1>3, <2>1, <2>2, CallsAssumption
    <2>11. ASSUME NEW i \in DOMAIN j.out
           PROVE  /\ j.out[i].key = j.last \/ Before(j.out[i].key, j.last)
                  /\ j.out[i].val \in G[<<b.ns, j.out[i].key>>]
      <3>1. CASE i \in DOMAIN b.out
        BY <2>1, <2>2, <2>5, <2>6, <2>8, <3>1
      <3>2. CASE i \notin DOMAIN b.out
        <4>1. PICK m \in DOMAIN ks : j.out[i] = y[m]
          BY <2>3, <2>6, <3>2
        <4>2. ks[m] = ks[c] \/ Before(ks[m], ks[c])
          BY <1>3, <2>2
        <4>3. db[<<b.ns, ks[m]>>].val \in G[<<b.ns, ks[m]>>]
          BY <1>3, <1>4 DEF DueKey
        <4> QED BY <2>1, <2>3, <4>1, <4>2, <4>3
      <3> QED BY <3>1, <3>2
    <2>12. ASSUME NEW k \in Keys, ~DueKey(b, n, k) \/ \E m \in DOMAIN ks : ks[m] = k PROVE Passed(j, G, k)
      <3>1. CASE \E m \in DOMAIN ks : ks[m] = k
        <4>1. PICK m \in DOMAIN ks : ks[m] = k
          BY <3>1
        <4>2. PICK i \in DOMAIN j.out : j.out[i] = y[m]
          BY <2>3, <2>6, <4>1
        <4> QED BY <2>3, <4>1, <4>2 DEF Passed
      <3>2. CASE ~Visible(db[<<b.ns, k>>], n)
        BY <1>4, <2>1, <3>2 DEF Passed
      <3>3. CASE b.last # None /\ ~Before(b.last, k)
        <4>1. Passed(b, G, k)
          BY <2>5, <3>3
        <4> QED BY <2>1, <2>6, <4>1 DEF Passed
      <3> QED BY <2>12, <3>1, <3>2, <3>3 DEF DueKey
    <2>13. ASSUME NEW k \in Keys, ~Before(j.last, k) PROVE Passed(j, G, k)
      BY <1>3, <2>1, <2>12, <2>13 DEF c
    <2>14. c < PageSize => \A k \in Keys : Passed(j, G, k)
      <3>1. c < PageSize => ~(PageSize <= c)
        BY <1>3, <1>6 DEF c
      <3> QED BY <1>3, <2>12, <3>1 DEF c
    <2>15. Walked(j, G)
      BY <2>1, <2>6, <2>9, <2>10, <2>11, <2>13 DEF Walked
    <2> QED BY <2>14, <2>15 DEF c, j
  <1> QED BY <1>7, <1>8
---------------------------------------------------------------------------
(* The moves, whichever adapter makes them *)

\* A call without keys.
LEMMA WalkMove ==
    ASSUME SqlInv, NEW r \in flight, r.do \in {"clear", "page", "pull", "expire", "end"}, NEW d, Loses(r, d),
           NEW j, Onward(job[r.t], j), NEW F, F = {} \/ \E f : F = {f} /\ Well(f, r.t, j) /\ f # r /\ f.do # "sweep",
           Walks(r, d, F, j)
    PROVE  Move(r, d, F, j)
  <1>1. Fits(r.do, job[r.t].op) /\ job[r.t].op = j.op
    BY Current DEF Well, Onward, Of
  <1>2. j.op \in WalkOps
    BY <1>1 DEF Fits, WalkOps
  <1> QED BY <1>2, WalkAnswers DEF Move, Follows

\* The entries that are answered once a select, and the sweep it makes, are over.
Read(j) == {i \in All(j) : Chunked(j.op) => i < j.i}

\* What has expired is to be swept, before the call goes on with rest.
LEMMA SelectMove ==
    ASSUME SqlInv, NEW r \in flight, r.do = "select", NEW j, Onward(job[r.t], j), NEW rest,
           Follows(r, db, rest, j), \A f \in rest : f.do = "select" /\ Chunked(j.op),
           (rest = {} /\ Chunked(j.op)) => \A i \in All(j) : i < j.i,
           \A i \in All(j) : Judges(j, i) \/ Kept(r, j, i),
           \A i \in r.at : Judges(j, i) \/ (Kept(r, j, i) /\ ~Found(j, i)),
           \A i \in Read(j) : i \in r.at \/ (Kept(r, j, i) /\ i \in Settled(r, job[r.t])) \/ Judges(j, i)
    PROVE  LET old == Old(r.of, r.at)
           IN  Move(r, db, IF old = {} THEN rest ELSE {Command(r.t, r.of, "sweep", r.at, old)}, j)
  <1> DEFINE old == Old(r.of, r.at)
             f == Command(r.t, j, "sweep", r.at, old)
             F == IF old = {} THEN rest ELSE {f}
  <1>1. /\ Well(r, r.t, job[r.t]) /\ Of(j) = Of(job[r.t]) /\ CallOK(j) /\ job[r.t].at <= now /\ now \in Nat
        /\ db \in [Slots -> Rows]
    BY Current DEF Onward
  <1>2. /\ r.of = Of(j) /\ Fits("select", j.op) /\ r.at \subseteq All(j) /\ j.at \in Nat /\ j.at <= now
        /\ r.of.ns = j.ns /\ r.of.keys = j.keys /\ r.of.at = j.at
    BY <1>1 DEF Well, Of, All, CallOK
  <1>3. Command(r.t, r.of, "sweep", r.at, old) = f
    BY <1>2 DEF Command, Of
  <1>4. \A s \in old : s \in Slots /\ Expired(db[s], now)
    <2>1. \A s \in old : s \in Slots
      <3>1. \A i \in r.at : Slot(r.of, i) = Slot(j, i) /\ Slot(j, i) \in Slots
        BY <1>1, <1>2, SlotIn DEF Slot
      <3> QED BY <3>1 DEF Old, SlotsAt
    <2>2. ASSUME NEW s \in old PROVE Expired(db[s], now)
      <3>1. db[s] # None => db[s].exp \in Int \cup {None}
        BY <1>1, <2>1, <2>2 DEF Rows, Row
      <3>2. Expired(db[s], j.at)
        BY <1>2, <2>2 DEF Old
      <3> QED BY <1>1, <1>2, <3>1, <3>2, CallsAssumption DEF Expired
    <2> QED BY <2>1, <2>2
  <1>5. f.t = r.t /\ f.do = "sweep" /\ f.with = old /\ f # r
    BY CommandOf
  <1> HIDE DEF old
  <1>6. Well(f, r.t, j)
    <2>1. Fits("sweep", j.op)
      BY <1>2 DEF Fits
    <2>2. old \subseteq Slots
      BY <1>4
    <2> QED BY <1>2, <2>1, <2>2, CommandWell
  <1> HIDE DEF f
  <1>7. Follows(r, db, F, j)
    BY <1>4, <1>5, <1>6 DEF Follows
  <1>8. /\ F = {} => All(j) = Read(j)
        /\ \A q \in F : Settled(q, j) = Read(j)
    BY <1>5 DEF Read, Settled
  <1>9. AnswersOK(After(r, db, j), Read(j), Sights(r, db, j))
    <2>1. j.op \in ReadOps \cup HasOps
      BY <1>2 DEF Fits
    <2>2. \A i \in All(j) \cap Read(j) :
              Judges(j, i) \/ (Kept(r, j, i) /\ (~Found(j, i) \/ i \in Settled(r, job[r.t])))
      OBVIOUS
    <2> QED BY <1>1, <2>1, <2>2, ReadAnswers
  <1>10. Answers(r, db, F, j)
    <2>1. WalkDone(After(r, db, j), Sights(r, db, j))
      BY <1>2, KeysWalk, OpsApart DEF Fits
    <2> QED BY <1>8, <1>9, <2>1 DEF Answers
  <1>11. Move(r, db, F, j)
    BY <1>7, <1>10, LosesNothing DEF Move
  <1> QED BY <1>3, <1>11 DEF old, f

LEMMA SweepMove ==
    ASSUME SqlInv, NEW r \in flight, r.do = "sweep", NEW F,
           Follows(r, Drop(db, r.with), F, job[r.t]), \A f \in F : f.do = "select" /\ Chunked(job[r.t].op),
           (F = {} /\ Chunked(job[r.t].op)) => \A i \in All(job[r.t]) : i < job[r.t].i
    PROVE  Move(r, Drop(db, r.with), F, job[r.t])
  <1> DEFINE j == job[r.t]
             d == Drop(db, r.with)
  <1>1. Onward(j, j) /\ Fits("sweep", j.op)
    BY Current, SameOnward DEF Well
  <1>2. Loses(r, d)
    BY LosesRemoved DEF Removed
  <1>3. j.op \in ReadOps \cup HasOps /\ d \in [Slots -> Rows]
    BY <1>1, <1>2 DEF Fits, Loses
  <1> HIDE DEF d
  <1>4. AnswersOK(After(r, d, j), Read(j), Sights(r, d, j))
    <2>1. \A i \in All(j) : Kept(r, j, i)
      BY DEF Kept
    <2>2. \A i \in Read(j) : i \in Settled(r, j)
      BY DEF Read, Settled
    <2> QED BY <1>1, <1>3, <2>1, <2>2, ReadAnswers
  <1>5. /\ F = {} => All(j) = Read(j)
        /\ \A q \in F : Settled(q, j) = Read(j)
    BY DEF Read, Settled
  <1>6. Answers(r, d, F, j)
    <2>1. WalkDone(After(r, d, j), Sights(r, d, j))
      BY <1>1, <1>3, KeysWalk, OpsApart
    <2> QED BY <1>4, <1>5, <2>1 DEF Answers
  <1> QED BY <1>1, <1>2, <1>6 DEF Move, d

LEMMA UpsertMove ==
    ASSUME SqlInv, NEW r \in flight, r.do = "upsert", NEW d \in {db, Upserted(r)}, NEW j, Onward(job[r.t], j),
           NEW F, Follows(r, d, F, j),
           \A i \in All(j) : j.res[i] = job[r.t].res[i] \/ (i \in r.at /\ d = Upserted(r) /\ j.res[i] = TRUE),
           j.failed \/ (j.failed = job[r.t].failed /\ \A i \in r.at : j.res[i] = TRUE)
    PROVE  Move(r, d, F, j)
  <1> DEFINE b == job[r.t]
  <1>1. /\ Fits("upsert", b.op) /\ b.op = j.op /\ All(j) = All(b) /\ r.at \subseteq All(b)
        /\ AnswersOK(b, Settled(r, b), seen[r.t]) /\ b.failed \in BOOLEAN /\ j.failed \in BOOLEAN
    BY Current DEF Well, Onward, Of, All, CallOK
  <1>2. j.op \in WriteOps
    BY <1>1 DEF Fits
  <1>3. \A i \in All(b) : b.res[i] \in BOOLEAN
    BY <1>1, <1>2 DEF AnswersOK
  <1>4. Taken(r, d) \subseteq r.at /\ (d = Upserted(r) => Taken(r, d) = r.at)
    <2>1. Taken(r, d) \subseteq r.at
      BY DEF Taken
    <2> QED BY <2>1, UpsertedRows
  <1> HIDE DEF b
  <1>5. ASSUME NEW i \in All(j)
        PROVE  /\ j.res[i] \in BOOLEAN
               /\ j.res[i] => b.res[i] \/ i \in Taken(r, d)
               /\ ~j.failed => ~b.failed /\ ((b.res[i] \/ i \in Taken(r, d)) => j.res[i])
    BY <1>1, <1>3, <1>4 DEF b
  <1>6. Loses(r, d)
    BY LosesNothing, LosesUpserted
  <1>7. \A S : AnswersOK(After(r, d, j), S, Sights(r, d, j))
    BY <1>2, <1>5, WriteAnswers DEF b
  <1>8. WalkDone(After(r, d, j), Sights(r, d, j))
    BY <1>2, KeysWalk, OpsApart
  <1> QED BY <1>6, <1>7, <1>8 DEF Move, Answers

LEMMA ExistingMove ==
    ASSUME SqlInv, NEW r \in flight, r.do = "existing"
    PROVE  Move(r, db, {Command(r.t, r.of, "delete", r.at, {})}, Existed(job[r.t], r.at))
  <1> DEFINE b == job[r.t]
             j == Existed(b, r.at)
             f == Command(r.t, j, "delete", r.at, {})
  <1>1. Well(r, r.t, b) /\ Onward(b, b) /\ db \in [Slots -> Rows] /\ CallOK(b)
    BY Current, SameOnward
  <1>2. /\ Onward(b, j) /\ Like(j, b)
        /\ \A i \in All(b) : j.res[i] = (b.res[i] \/ Slot(b, i) \in Existing(b, r.at))
    BY <1>1, ExistedOnward
  <1>3. AnswersOK(b, Settled(r, b), seen[r.t])
    BY Current
  <1> HIDE DEF b, j
  <1>4. /\ j.op = "deleteMany" /\ b.op = "deleteMany" /\ r.at = Due(j) /\ r.at \subseteq All(j) /\ All(j) = All(b)
        /\ Of(j) = Of(b) /\ r.of = Of(j) /\ j.i = b.i
    BY <1>1, <1>2 DEF Well, Like, Fits, Due, Chunk
  <1>5. Command(r.t, r.of, "delete", r.at, {}) = f
    BY <1>4 DEF Command, Of
  <1>6. Well(f, r.t, j) /\ f.do = "delete" /\ f # r
    <2>1. Fits("delete", j.op)
      BY <1>4 DEF Fits, DeleteOps
    <2> QED BY <1>4, <2>1, CommandWell, CommandOf
  <1> HIDE DEF f
  <1>7. Follows(r, db, {f}, j)
    BY <1>6 DEF Follows
  <1>8. \A i \in All(b) : Slot(j, i) = Slot(b, i)
    BY <1>4 DEF Of, Slot
  <1>9. ASSUME NEW i \in All(j)
        PROVE  j.res[i] \in BOOLEAN /\ (j.res[i] => b.res[i] \/ db[Slot(j, i)] # None)
    <2>1. b.res[i] \in BOOLEAN
      BY <1>3, <1>4 DEF AnswersOK, DeleteOps
    <2> QED BY <1>2, <1>4, <1>8, <2>1 DEF Existing
  <1>10. Settled(f, j) \subseteq Settled(r, b)
    BY <1>4, <1>6 DEF Settled, Chunked
  <1>11. AnswersOK(After(r, db, j), Settled(f, j), Sights(r, db, j))
    <2>1. j.op \in DeleteOps
      BY <1>4 DEF DeleteOps
    <2> QED BY <1>1, <1>2, <1>9, <1>10, <2>1, DeleteAnswers DEF b
  <1>12. Answers(r, db, {f}, j)
    BY <1>11 DEF Answers
  <1> QED BY <1>2, <1>5, <1>7, <1>12, LosesNothing DEF Move, b, j

LEMMA DeleteMove ==
    ASSUME SqlInv, NEW r \in flight, r.do = "delete", NEW j, Onward(job[r.t], j), NEW F,
           Follows(r, Drop(db, SlotsAt(r.of, r.at)), F, j),
           \A f \in F : f.do \in {"existing", "delete"} /\ Chunked(j.op),
           \A i \in All(j) : /\ j.res[i] \in BOOLEAN
                             /\ j.res[i] => job[r.t].res[i] \/ db[Slot(j, i)] # None,
           \A i \in All(j) : i \in r.at \/ i \in Settled(r, job[r.t]) \/ (F # {} /\ ~(i < j.i))
    PROVE  Move(r, Drop(db, SlotsAt(r.of, r.at)), F, j)
  <1> DEFINE b == job[r.t]
             d == Drop(db, SlotsAt(r.of, r.at))
  <1>1. Well(r, r.t, b) /\ db \in [Slots -> Rows] /\ CallOK(j)
    BY Current DEF Onward
  <1>2. Loses(r, d)
    BY LosesRemoved DEF Removed
  <1>3. \A s \in Slots : d[s] = IF s \in SlotsAt(r.of, r.at) THEN None ELSE db[s]
    BY <1>1, DropRows
  <1>4. d \in [Slots -> Rows]
    BY <1>2 DEF Loses
  <1>5. j.op \in DeleteOps
    BY <1>1 DEF Well, Fits, Onward, Of
  <1> HIDE DEF d
  <1>6. ASSUME NEW i \in All(j), i \in r.at PROVE d[Slot(j, i)] = None
    <2>1. Slot(r.of, i) = Slot(j, i) /\ Slot(j, i) \in Slots
      BY <1>1, SlotIn DEF Well, Onward, Of, Slot
    <2> QED BY <1>3, <1>6, <2>1 DEF SlotsAt
  <1>7. F = {} => AnswersOK(After(r, d, j), All(j), Sights(r, d, j))
    <2>1. F = {} => \A i \in All(j) \cap All(j) : i \in Settled(r, b) \/ d[Slot(j, i)] = None
      BY <1>6
    <2> QED BY <1>4, <1>5, <2>1, DeleteAnswers
  <1>8. ASSUME NEW f \in F PROVE AnswersOK(After(r, d, j), Settled(f, j), Sights(r, d, j))
    <2>1. \A i \in All(j) \cap Settled(f, j) : i \in Settled(r, b) \/ d[Slot(j, i)] = None
      BY <1>6, <1>8 DEF Settled
    <2> QED BY <1>4, <1>5, <2>1, DeleteAnswers
  <1>9. WalkDone(After(r, d, j), Sights(r, d, j))
    BY <1>5, KeysWalk, OpsApart
  <1> QED BY <1>2, <1>7, <1>8, <1>9 DEF Move, Answers, d

---------------------------------------------------------------------------
(* How calls start *)

\* j is a call t may make now.
Fresh(t, j) ==
    /\ IsJob(j) /\ j.op \in Ops[t] /\ j.c = calls + 1
    /\ j.ns \in Namespaces /\ j.keys \in Seq(Keys) /\ All(j) \subseteq Positions
    /\ j.live \in Int \cup {None} /\ j.at = now /\ j.i = 1 /\ j.put = {} /\ j.failed = FALSE /\ j.unsure = {}
    /\ j.res = [i \in All(j) |-> IF j.op \in ReadOps THEN None ELSE FALSE]
    /\ j.last = None /\ j.out = <<>> /\ j.over = In(j.ns) /\ now \in Nat

Starts(t, j) == \E F, a : Start(t, j, F) /\ EnterWith(t, j, F, a)

LEMMA FreshCall ==
    ASSUME SqlInv, NEW t \in Tasks, NEW op \in Ops[t], NEW ns \in Namespaces, NEW ks \in Batches,
           NEW live \in IF op \in WriteOps THEN Lives[adapter] ELSE {None}
    PROVE  Fresh(t, NewJob(op, ns, ks, live))
  <1> DEFINE j == NewJob(op, ns, ks, live)
  <1>1. /\ IsJob(j) /\ j.op = op /\ j.c = calls + 1 /\ j.ns = ns /\ j.live = live /\ j.at = now /\ j.i = 1
        /\ j.put = {} /\ j.failed = FALSE /\ j.unsure = {} /\ j.last = None /\ j.out = <<>> /\ j.over = In(ns)
        /\ j.keys = [i \in DOMAIN ks |-> Stored[<<ns, ks[i]>>]]
        /\ j.res = [i \in DOMAIN ks |-> IF op \in ReadOps THEN None ELSE FALSE]
    BY DEF NewJob, IsJob, Fields
  <1>2. ks \in Seq(Keys) /\ Stored \in [Slots -> Keys] /\ Lives \in [Adapters -> SUBSET (Int \cup {None})]
    BY CallsAssumption
  <1>3. j.keys \in Seq(Keys) /\ DOMAIN j.keys = DOMAIN ks
    <2>1. \A i \in DOMAIN ks : <<ns, ks[i]>> \in Slots
      BY <1>2 DEF Slots
    <2>2. \A i \in DOMAIN ks : Stored[<<ns, ks[i]>>] \in Keys
      BY <1>2, <2>1
    <2> DEFINE n == Len(ks)
    <2>3. DOMAIN ks = 1..n /\ n \in Nat
      BY <1>2
    <2> HIDE DEF n
    <2> QED BY <1>1, <2>2, <2>3
  <1>4. live \in Int \cup {None}
    BY <1>2 DEF SqlInv, CallsInv, Types
  <1> HIDE DEF j
  <1>5. All(j) = DOMAIN ks /\ All(j) \subseteq Positions
    BY <1>3 DEF All, Positions
  <1>6. j.res = [i \in All(j) |-> IF j.op \in ReadOps THEN None ELSE FALSE]
    BY <1>1, <1>5
  <1>7. now \in Nat
    BY CallsAssumption DEF SqlInv, CallsInv, Types
  <1> QED BY <1>1, <1>3, <1>4, <1>5, <1>6, <1>7 DEF Fresh, j

LEMMA FitsOps == ASSUME NEW do, NEW op, Fits(do, op) PROVE op \in KeyOps \cup WalkOps
  BY DEF Fits, KeyOps, ReadOps, HasOps, WriteOps, DeleteOps, WalkOps

LEMMA StartsSending ==
    ASSUME NEW t, NEW j, Fresh(t, j), NEW do, NEW I, NEW with, Fits(do, j.op), I \subseteq All(j),
           do \in {"select", "existing", "delete", "upsert"} => I = Due(j), do # "sweep",
           do \in {"expire", "page"} => with = now,
           NEW a, EnterWith(t, j, {Command(t, j, do, I, with)}, a)
    PROVE  Starts(t, j)
  <1> DEFINE f == Command(t, j, do, I, with)
  <1>1. Well(f, t, j) /\ f.t = t /\ f.do # "sweep"
    <2>1. j.at = now /\ now \in Int /\ now <= now
      BY DEF Fresh
    <2> QED BY <2>1, CommandWell, CommandOf
  <1>2. j.op \in KeyOps \cup WalkOps
    BY FitsOps
  <1> HIDE DEF f
  <1>3. Start(t, j, {f})
    BY <1>1, <1>2 DEF Start, Fresh
  <1> QED BY <1>3 DEF Starts, f

LEMMA StartsWithout ==
    ASSUME NEW t, NEW j, Fresh(t, j), j.op \in KeyOps, All(j) = {}, NEW a, EnterWith(t, j, {}, a)
    PROVE  Starts(t, j)
  <1>1. Start(t, j, {})
    BY DEF Start, Fresh
  <1> QED BY <1>1 DEF Starts

LEMMA StartsChunks ==
    ASSUME NEW t, NEW j, Fresh(t, j), NEW do \in {"select", "existing", "delete", "upsert"}, Fits(do, j.op),
           Chunked(j.op), Enter(t, j, NextChunk(t, j, do))
    PROVE  Starts(t, j)
  <1>1. CASE Chunk(j) = {}
    <2>1. All(j) = {}
      <3>1. j.i = 1 /\ \A i \in All(j) : i \in Nat /\ i >= 1 /\ 1 \in All(j)
        <4> DEFINE n == Len(j.keys)
        <4>1. All(j) = 1..n /\ n \in Nat /\ j.i = 1
          BY DEF Fresh, All
        <4> HIDE DEF n
        <4> QED BY <4>1
      <3>2. 1 \notin Chunk(j)
        BY <1>1
      <3> QED BY <3>1, <3>2, SqlAssumption DEF Chunk
    <2>2. EnterWith(t, j, {}, aux) /\ j.op \in KeyOps
      BY <1>1 DEF Enter, NextChunk, Fits, KeyOps, ReadOps, HasOps, WriteOps, DeleteOps
    <2> QED BY <2>1, <2>2, StartsWithout
  <1>2. CASE Chunk(j) # {}
    <2>1. Due(j) = Chunk(j) /\ Chunk(j) \subseteq All(j)
      BY DEF Due, Chunk
    <2>2. EnterWith(t, j, {Command(t, j, do, Chunk(j), {})}, aux)
      BY <1>2 DEF Enter, NextChunk
    <2> QED BY <2>1, <2>2, StartsSending
  <1> QED BY <1>1, <1>2

\* A call on keys that is not cut.
LEMMA StartsWhole ==
    ASSUME NEW t, NEW j, Fresh(t, j), NEW do \in {"select", "delete", "upsert"}, Fits(do, j.op),
           ~Chunked(j.op), Enter(t, j, {Command(t, j, do, All(j), {})})
    PROVE  Starts(t, j)
  <1>1. Due(j) = All(j)
    BY DEF Due
  <1> QED BY <1>1, StartsSending DEF Enter

\* A call without keys.
LEMMA StartsWalk ==
    ASSUME NEW t, NEW j, Fresh(t, j), NEW do \in {"clear", "page", "end"}, Fits(do, j.op), NEW with,
           do = "page" => with = now, NEW a,
           EnterWith(t, j, {Command(t, j, do, {}, with)}, a)
    PROVE  Starts(t, j)
  BY StartsSending

LEMMA StartsExpiring ==
    ASSUME NEW t, NEW j, Fresh(t, j), j.op = "clearExpired", Enter(t, j, {Command(t, j, "expire", {}, now)})
    PROVE  Starts(t, j)
  BY StartsSending DEF Enter, Fits, Fresh

LEMMA MysqlStarts ==
    ASSUME NEW t, NEW j, Fresh(t, j), adapter = "mysql", MysqlCall(t, j) PROVE Starts(t, j)
  <1>1. CASE MysqlGet(t, j) \/ MysqlGetMany(t, j) \/ MysqlHas(t, j)
    <2>1. Fits("select", j.op) /\ ~Chunked(j.op) /\ Enter(t, j, {Command(t, j, "select", All(j), {})})
      BY <1>1 DEF MysqlGet, MysqlGetMany, MysqlHas, Fits, ReadOps, HasOps, Chunked
    <2> QED BY <2>1, StartsWhole
  <1>2. CASE MysqlHasMany(t, j) /\ All(j) # {}
    <2>1. Fits("select", j.op) /\ ~Chunked(j.op) /\ Enter(t, j, {Command(t, j, "select", All(j), {})})
      BY <1>2 DEF MysqlHasMany, Fits, ReadOps, HasOps, Chunked
    <2> QED BY <2>1, StartsWhole
  <1>3. CASE (MysqlHasMany(t, j) \/ MysqlSetMany(t, j)) /\ All(j) = {}
    <2>1. j.op \in KeyOps /\ EnterWith(t, j, {}, aux)
      BY <1>3 DEF MysqlHasMany, MysqlSetMany, Enter, KeyOps, HasOps, WriteOps
    <2> QED BY <1>3, <2>1, StartsWithout
  <1>4. CASE MysqlSet(t, j) \/ (MysqlSetMany(t, j) /\ All(j) # {})
    <2>1. Fits("upsert", j.op) /\ ~Chunked(j.op) /\ Enter(t, j, {Command(t, j, "upsert", All(j), {})})
      BY <1>4 DEF MysqlSet, MysqlSetMany, Fits, WriteOps, Chunked
    <2> QED BY <2>1, StartsWhole
  <1>5. CASE MysqlDelete(t, j)
    <2>1. Fits("delete", j.op) /\ ~Chunked(j.op) /\ Enter(t, j, {Command(t, j, "delete", All(j), {})})
      BY <1>5 DEF MysqlDelete, Fits, DeleteOps, Chunked
    <2> QED BY <2>1, StartsWhole
  <1>6. CASE MysqlDeleteMany(t, j)
    <2>1. Fits("existing", j.op) /\ Chunked(j.op) /\ Enter(t, j, NextChunk(t, j, "existing"))
      BY <1>6 DEF MysqlDeleteMany, Fits, Chunked
    <2> QED BY <2>1, StartsChunks
  <1>7. CASE MysqlClear(t, j)
    BY <1>7, StartsWalk DEF MysqlClear, Fits, Enter
  <1>8. CASE MysqlIterator(t, j)
    BY <1>8, StartsWalk DEF MysqlIterator, Fits, Enter
  <1>9. CASE MysqlClearExpired(t, j)
    BY <1>9, StartsExpiring DEF MysqlClearExpired
  <1>10. CASE MysqlDisconnect(t, j)
    BY <1>10, StartsWalk DEF MysqlDisconnect, Fits
  <1> QED BY <1>1, <1>2, <1>3, <1>4, <1>5, <1>6, <1>7, <1>8, <1>9, <1>10 DEF MysqlCall

LEMMA PostgresStarts ==
    ASSUME NEW t, NEW j, Fresh(t, j), adapter = "postgres", PostgresCall(t, j) PROVE Starts(t, j)
  <1>1. CASE PostgresGet(t, j) \/ PostgresGetMany(t, j) \/ PostgresHas(t, j) \/ PostgresHasMany(t, j)
    <2>1. Fits("select", j.op) /\ ~Chunked(j.op) /\ Enter(t, j, {Command(t, j, "select", All(j), {})})
      BY <1>1 DEF PostgresGet, PostgresGetMany, PostgresHas, PostgresHasMany, Fits, ReadOps, HasOps, Chunked
    <2> QED BY <2>1, StartsWhole
  <1>2. CASE PostgresSet(t, j) \/ PostgresSetMany(t, j)
    <2>1. Fits("upsert", j.op) /\ ~Chunked(j.op) /\ Enter(t, j, {Command(t, j, "upsert", All(j), {})})
      BY <1>2 DEF PostgresSet, PostgresSetMany, Fits, WriteOps, Chunked
    <2> QED BY <2>1, StartsWhole
  <1>3. CASE PostgresDelete(t, j)
    <2>1. Fits("delete", j.op) /\ ~Chunked(j.op) /\ Enter(t, j, {Command(t, j, "delete", All(j), {})})
      BY <1>3 DEF PostgresDelete, Fits, DeleteOps, Chunked
    <2> QED BY <2>1, StartsWhole
  <1>4. CASE PostgresDeleteMany(t, j)
    <2>1. Fits("delete", j.op) /\ Chunked(j.op) /\ Enter(t, j, NextChunk(t, j, "delete"))
      BY <1>4 DEF PostgresDeleteMany, Fits, DeleteOps, Chunked
    <2> QED BY <2>1, StartsChunks
  <1>5. CASE PostgresClear(t, j)
    BY <1>5, StartsWalk DEF PostgresClear, Fits, Enter
  <1>6. CASE PostgresIterator(t, j)
    BY <1>6, StartsWalk DEF PostgresIterator, Fits, Enter
  <1>7. CASE PostgresClearExpired(t, j)
    BY <1>7, StartsExpiring DEF PostgresClearExpired
  <1>8. CASE PostgresDisconnect(t, j)
    BY <1>8, StartsWalk DEF PostgresDisconnect, Fits
  <1> QED BY <1>1, <1>2, <1>3, <1>4, <1>5, <1>6, <1>7, <1>8 DEF PostgresCall

LEMMA SqliteStarts ==
    ASSUME NEW t, NEW j, Fresh(t, j), adapter = "sqlite", SqliteCall(t, j) PROVE Starts(t, j)
  <1>1. CASE SqliteGet(t, j) \/ SqliteHas(t, j)
    <2>1. Fits("select", j.op) /\ ~Chunked(j.op) /\ Enter(t, j, {Command(t, j, "select", All(j), {})})
      BY <1>1 DEF SqliteGet, SqliteHas, Fits, ReadOps, HasOps, Chunked
    <2> QED BY <2>1, StartsWhole
  <1>2. CASE SqliteGetMany(t, j) \/ SqliteHasMany(t, j)
    <2>1. Fits("select", j.op) /\ Chunked(j.op) /\ Enter(t, j, NextChunk(t, j, "select"))
      BY <1>2 DEF SqliteGetMany, SqliteHasMany, Fits, ReadOps, HasOps, Chunked
    <2> QED BY <2>1, StartsChunks
  <1>3. CASE SqliteSet(t, j)
    <2>1. Fits("upsert", j.op) /\ ~Chunked(j.op) /\ Enter(t, j, {Command(t, j, "upsert", All(j), {})})
      BY <1>3 DEF SqliteSet, Fits, WriteOps, Chunked
    <2> QED BY <2>1, StartsWhole
  <1>4. CASE SqliteSetMany(t, j)
    <2>1. Fits("upsert", j.op) /\ Chunked(j.op) /\ Enter(t, j, NextChunk(t, j, "upsert"))
      BY <1>4 DEF SqliteSetMany, Fits, WriteOps, Chunked
    <2> QED BY <2>1, StartsChunks
  <1>5. CASE SqliteDelete(t, j)
    <2>1. Fits("delete", j.op) /\ ~Chunked(j.op) /\ Enter(t, j, {Command(t, j, "delete", All(j), {})})
      BY <1>5 DEF SqliteDelete, Fits, DeleteOps, Chunked
    <2> QED BY <2>1, StartsWhole
  <1>6. CASE SqliteDeleteMany(t, j)
    <2>1. Fits("existing", j.op) /\ Chunked(j.op) /\ Enter(t, j, NextChunk(t, j, "existing"))
      BY <1>6 DEF SqliteDeleteMany, Fits, Chunked
    <2> QED BY <2>1, StartsChunks
  <1>7. CASE SqliteClear(t, j)
    BY <1>7, StartsWalk DEF SqliteClear, Fits, Enter
  <1>8. CASE SqliteIterator(t, j)
    BY <1>8, StartsWalk DEF SqliteIterator, Fits, Enter
  <1>9. CASE SqliteClearExpired(t, j)
    BY <1>9, StartsExpiring DEF SqliteClearExpired
  <1>10. CASE SqliteDisconnect(t, j)
    BY <1>10, StartsWalk DEF SqliteDisconnect, Fits, Enter
  <1> QED BY <1>1, <1>2, <1>3, <1>4, <1>5, <1>6, <1>7, <1>8, <1>9, <1>10 DEF SqliteCall

LEMMA CallsStart ==
    ASSUME SqlInv, NEW t \in Tasks,
           \/ adapter = "mysql" /\ NewCall(t, MysqlCall)
           \/ adapter = "postgres" /\ NewCall(t, PostgresCall)
           \/ adapter = "sqlite" /\ NewCall(t, SqliteCall)
    PROVE  Steps
  <1>1. PICK op \in Ops[t], ns \in Namespaces, ks \in Batches :
            \E live \in IF op \in WriteOps THEN Lives[adapter] ELSE {None} :
                \/ adapter = "mysql" /\ MysqlCall(t, NewJob(op, ns, ks, live))
                \/ adapter = "postgres" /\ PostgresCall(t, NewJob(op, ns, ks, live))
                \/ adapter = "sqlite" /\ SqliteCall(t, NewJob(op, ns, ks, live))
    BY DEF NewCall
  <1>2. PICK live \in IF op \in WriteOps THEN Lives[adapter] ELSE {None} :
                \/ adapter = "mysql" /\ MysqlCall(t, NewJob(op, ns, ks, live))
                \/ adapter = "postgres" /\ PostgresCall(t, NewJob(op, ns, ks, live))
                \/ adapter = "sqlite" /\ SqliteCall(t, NewJob(op, ns, ks, live))
    BY <1>1
  <1> DEFINE j == NewJob(op, ns, ks, live)
  <1>3. Fresh(t, j)
    BY FreshCall
  <1> HIDE DEF j
  <1>4. Starts(t, j)
    BY <1>2, <1>3, MysqlStarts, PostgresStarts, SqliteStarts DEF j
  <1> QED BY <1>4 DEF Starts, Steps

---------------------------------------------------------------------------
(* What each answer of the server does, adapter by adapter *)

LEMMA Sends ==
    ASSUME NEW name, NEW do, NEW r
    PROVE  /\ r \in Served(name, do) => r \in Sent(name, do)
           /\ r \in Failing(name, do) => r \in Sent(name, do)
           /\ r \in Sent(name, do) => r \in flight /\ adapter = name /\ r.do = do
  BY DEF Served, Failing, Sent

LEMMA MoveSteps ==
    ASSUME NEW r \in flight, NEW d, NEW a, NEW F, NEW j, Move(r, d, F, j), Serve(r, d, a, F, j) PROVE Steps
  BY DEF Steps

LEMMA RejectSteps == ASSUME NEW r \in flight, NEW d, Loses(r, d), Reject(r, d) PROVE Steps
  BY DEF Steps, Reject

\* The entries of a select or an upsert of a call that is cut, and of one that is not.
LEMMA EntriesOf ==
    ASSUME SqlInv, NEW r \in flight, r.do \in {"select", "existing", "delete", "upsert"}
    PROVE  r.at = IF Chunked(job[r.t].op) THEN Chunk(job[r.t]) ELSE All(job[r.t])
  BY Current DEF Well, Due

LEMMA SelectsPlain ==
    ASSUME SqlInv, NEW r \in flight, r.do = "select", ~Chunked(r.of.op), SelectRows(r, Judged(job[r.t], r.at), {})
    PROVE  Steps
  <1> DEFINE b == job[r.t]
             j == Judged(b, r.at)
  <1>1. Onward(b, b) /\ r.of.op = b.op
    BY Current, SameOnward
  <1>2. /\ Onward(b, j) /\ Like(j, b)
        /\ \A i \in All(b) : j.res[i] = IF i \in r.at THEN Answer(b.op, db[Slot(b, i)], Slot(b, i) \in Old(b, r.at))
                                        ELSE b.res[i]
    BY <1>1, JudgedOnward
  <1>3. r.at = All(b)
    BY <1>1, EntriesOf
  <1> HIDE DEF b, j
  <1>4. j.op = b.op /\ Of(j) = Of(b) /\ All(j) = All(b) /\ j.at = b.at /\ \A i \in All(b) : Slot(j, i) = Slot(b, i)
    BY <1>2 DEF Like, Of, Slot
  <1>5. ASSUME NEW i \in All(j) PROVE Judges(j, i)
    <2>1. j.res[i] = Answer(j.op, db[Slot(j, i)], Slot(j, i) \in Old(b, r.at))
      BY <1>2, <1>3, <1>4
    <2>2. Slot(j, i) \in Old(b, r.at) <=> Expired(db[Slot(j, i)], j.at)
      BY <1>3, <1>4 DEF Old, SlotsAt
    <2> QED BY <2>1, <2>2 DEF Judges, Found, Answer, Expired
  <1>6. Follows(r, db, {}, j)
    BY DEF Follows
  <1>7. Move(r, db, IF Old(r.of, r.at) = {} THEN {} ELSE {Command(r.t, r.of, "sweep", r.at, Old(r.of, r.at))}, j)
    BY <1>1, <1>2, <1>3, <1>4, <1>5, <1>6, SelectMove DEF b, Read
  <1> QED BY <1>7, MoveSteps DEF SelectRows, j, b

LEMMA SweepsPlain ==
    ASSUME SqlInv, NEW r \in flight, r.do = "sweep", ~Chunked(r.of.op), Serve(r, Drop(db, r.with), aux, {}, job[r.t])
    PROVE  Steps
  <1>1. r.of.op = job[r.t].op
    BY Current
  <1>2. Follows(r, Drop(db, r.with), {}, job[r.t])
    BY DEF Follows
  <1>3. Move(r, Drop(db, r.with), {}, job[r.t])
    BY <1>1, <1>2, SweepMove
  <1> QED BY <1>3, MoveSteps

LEMMA UpsertsPlain ==
    ASSUME SqlInv, NEW r \in flight, r.do = "upsert", Serve(r, Upserted(r), aux, {}, SqliteResults(job[r.t], r.at))
    PROVE  Steps
  <1> DEFINE b == job[r.t]
             j == SqliteResults(b, r.at)
  <1>1. Onward(b, b) /\ r.at \subseteq All(b)
    BY Current, SameOnward DEF Well
  <1> HIDE DEF b
  <1>2. Onward(b, j) /\ Like(j, b) /\ Grants(j, b, r.at)
    BY <1>1, TruesOnward
  <1>3. Follows(r, Upserted(r), {}, j)
    BY DEF Follows
  <1> HIDE DEF j
  <1>4. Move(r, Upserted(r), {}, j)
    BY <1>1, <1>2, <1>3, UpsertMove DEF Like, Grants, b
  <1> QED BY <1>4, MoveSteps DEF j, b

LEMMA OutcomesOf == ASSUME NEW r, NEW e, NEW d \in Outcomes(r, e) PROVE d \in {db, e}
  BY DEF Outcomes

LEMMA UpsertFailsPlain ==
    ASSUME SqlInv, NEW r \in flight, r.do = "upsert", NEW d \in {db, Upserted(r)},
           Serve(r, d, aux, {}, Failed(job[r.t]))
    PROVE  Steps
  <1> DEFINE b == job[r.t]
             j == Failed(b)
  <1>1. Onward(b, b)
    BY SameOnward
  <1>2. Onward(b, j) /\ j.failed = TRUE /\ j.res = b.res
    BY <1>1, FailedOnward
  <1>3. Follows(r, d, {}, j)
    BY DEF Follows
  <1> HIDE DEF b, j
  <1>4. Move(r, d, {}, j)
    BY <1>1, <1>2, <1>3, UpsertMove DEF b
  <1> QED BY <1>4, MoveSteps DEF j, b

\* What clears, walks, removes what has expired, or ends the adapter.
LEMMA WalkSteps ==
    ASSUME SqlInv, NEW r \in flight, r.do \in {"clear", "page", "pull", "expire", "end"}, NEW d, Loses(r, d), NEW a,
           WalkDone(job[r.t], Sights(r, d, job[r.t])), Serve(r, d, a, {}, job[r.t])
    PROVE  Steps
  <1>1. Onward(job[r.t], job[r.t])
    BY SameOnward
  <1>2. job[r.t].op \in WalkOps
    BY Current DEF Well, Fits, WalkOps
  <1>3. Walks(r, d, {}, job[r.t])
    BY <1>1, <1>2, WalkedStays DEF Walks
  <1>4. Move(r, d, {}, job[r.t])
    BY <1>1, <1>3, WalkMove
  <1> QED BY <1>4, MoveSteps

LEMMA ClearSteps ==
    ASSUME SqlInv, NEW r \in flight, r.do = "clear", Serve(r, Drop(db, In(r.of.ns)), aux, {}, job[r.t]) PROVE Steps
  <1> DEFINE b == job[r.t]
             d == Drop(db, In(r.of.ns))
  <1>1. Loses(r, d)
    BY LosesRemoved DEF Removed
  <1>2. Onward(b, b) /\ r.of.ns = b.ns /\ b.op = "clear" /\ db \in [Slots -> Rows]
    BY Current, SameOnward DEF Well, Fits
  <1>3. ASSUME NEW s \in In(b.ns) PROVE None \in Sights(r, d, b)[s]
    <2>1. s \in Slots /\ d[s] = None
      BY <1>2, DropRows DEF In
    <2>2. None \in Looks(d[s], b.at, now)
      BY <2>1 DEF Looks, Visible
    <2> HIDE DEF b, d
    <2> QED BY <1>2, <2>1, <2>2, WalkSights DEF WalkOps, b
  <1>4. WalkDone(b, Sights(r, d, b))
    BY <1>2, <1>3 DEF WalkDone
  <1> QED BY <1>1, <1>4, WalkSteps

LEMMA ExpireSteps ==
    ASSUME SqlInv, NEW r \in flight, r.do = "expire", Serve(r, Drop(db, ExpiredRows(r.with)), aux, {}, job[r.t])
    PROVE  Steps
  <1>1. Loses(r, Drop(db, ExpiredRows(r.with)))
    BY LosesRemoved DEF Removed
  <1>2. WalkDone(job[r.t], Sights(r, Drop(db, ExpiredRows(r.with)), job[r.t]))
    BY Current DEF Well, Fits, WalkDone
  <1> QED BY <1>1, <1>2, WalkSteps

LEMMA EndSteps ==
    ASSUME SqlInv, NEW r \in flight, r.do = "end", NEW a, Serve(r, db, a, {}, job[r.t]) PROVE Steps
  <1>1. WalkDone(job[r.t], Sights(r, db, job[r.t]))
    BY Current DEF Well, Fits, WalkDone
  <1> QED BY <1>1, LosesNothing, WalkSteps

LEMMA PageFails ==
    ASSUME SqlInv, NEW r \in flight, r.do = "page", Serve(r, db, aux, {}, Failed(job[r.t])) PROVE Steps
  <1> DEFINE b == job[r.t]
             j == Failed(b)
  <1>1. Onward(b, j) /\ j.failed = TRUE /\ j.out = b.out /\ j.last = b.last /\ j.op = b.op /\ Fits("page", b.op)
    <2>1. Onward(b, b) /\ Fits("page", b.op)
      BY SameOnward, Current DEF Well
    <2> HIDE DEF b
    <2> QED BY <2>1, FailedOnward
  <1> HIDE DEF j
  <1>2. j.op \in WalkOps
    BY <1>1 DEF Fits, WalkOps
  <1>3. Walks(r, db, {}, j)
    BY <1>1, <1>2, WalkedStays DEF Walks, WalkDone
  <1>4. Move(r, db, {}, j)
    BY <1>1, <1>3, WalkMove, LosesNothing
  <1> QED BY <1>4, MoveSteps DEF j

LEMMA PullSteps == ASSUME SqlInv, NEW r \in flight, r.do = "pull", Pull(r) PROVE Steps
  <1> DEFINE b == job[r.t]
             f == Command(r.t, b, "page", {}, now)
  <1>1. Onward(b, b) /\ Fits("pull", b.op) /\ b.at <= now /\ now \in Nat
    BY Current, SameOnward DEF Well
  <1>2. Walks(r, db, {f}, b)
    <2>1. b.op \in WalkOps
      BY <1>1 DEF Fits, WalkOps
    <2> QED BY <1>1, <2>1, WalkedStays DEF Walks
  <1> HIDE DEF b
  <1>3. Fits("page", b.op)
    BY <1>1 DEF Fits
  <1>4. Well(f, r.t, b) /\ f.do = "page"
    <2>1. now \in Int /\ now <= now
      BY <1>1
    <2> QED BY <1>1, <1>3, <2>1, CommandWell, CommandOf
  <1> HIDE DEF f
  <1>5. Move(r, db, {f}, b)
    BY <1>1, <1>4, <1>2, WalkMove, LosesNothing DEF b
  <1> QED BY <1>5, MoveSteps DEF Pull, f, b

\* Rows of a page are yielded; the call goes on with its `last` and `out`.
LEMMA YieldedOnward ==
    ASSUME NEW b, Onward(b, b), NEW x, NEW y PROVE Onward(b, [b EXCEPT !.last = x, !.out = @ \o y])
  <1> DEFINE k == [b EXCEPT !.last = x, !.out = @ \o y]
  <1>1. CallOK(b)
    BY DEF Onward
  <1>2. /\ IsJob(k) /\ k.op = b.op /\ k.c = b.c /\ k.ns = b.ns /\ k.keys = b.keys /\ k.live = b.live /\ k.at = b.at
        /\ k.i = b.i /\ k.put = b.put /\ k.failed = b.failed /\ k.unsure = b.unsure /\ k.res = b.res
        /\ k.over = b.over
    BY <1>1 DEF CallOK, IsJob, Fields
  <1> HIDE DEF k
  <1>3. All(k) = All(b) /\ Of(k) = Of(b)
    BY <1>2 DEF All, Of
  <1>4. CallOK(k)
    BY <1>1, <1>2, <1>3 DEF CallOK
  <1> QED BY <1>2, <1>3, <1>4 DEF Onward, k

LEMMA PageSteps == ASSUME SqlInv, NEW r \in flight, r.do = "page", Page(r) PROVE Steps
  <1> DEFINE b  == job[r.t]
             ks == PageKeys(b, r.with)
             f  == Command(r.t, b, "pull", {}, 0)
             F  == IF Len(ks) < PageSize THEN {} ELSE {f}
             j  == Yields(b, ks)
             n  == r.with
  <1>1. /\ Onward(b, b) /\ CallOK(b) /\ Fits("page", b.op) /\ db \in [Slots -> Rows] /\ now \in Nat
        /\ n \in Int /\ b.at <= n /\ n <= now /\ AnswersOK(b, Settled(r, b), seen[r.t])
    BY Current, SameOnward DEF Well
  <1>2. Serve(r, db, aux, F, j)
    BY DEF Page, Yields
  <1>3. b.op = "iterator" /\ b.op \in WalkOps
    BY <1>1 DEF Fits, WalkOps
  <1>4. PageOK(b, n, ks)
    BY PageKeysOK
  <1>5. \A s \in Slots : /\ Sights(r, db, b)[s] = seen[r.t][s] \cup Looks(db[s], b.at, now)
                          /\ Looks(db[s], b.at, now) \subseteq seen[r.t][s]
    BY <1>1, <1>3, WalkSights
  <1> HIDE DEF ks, b, n
  <1>6. Onward(b, j)
    BY <1>1, YieldedOnward DEF Yields
  <1>7. /\ Walked(j, Sights(r, db, b))
        /\ F = {} => \A k \in Keys : Passed(j, Sights(r, db, b), k)
    <2>1. Walked(b, seen[r.t])
      BY <1>1, <1>3 DEF AnswersOK
    <2>2. /\ Walked(j, Sights(r, db, b))
          /\ Len(ks) < PageSize => \A k \in Keys : Passed(j, Sights(r, db, b), k)
      <3>1. \A s \in Slots : /\ seen[r.t][s] \subseteq Sights(r, db, b)[s]
                              /\ Looks(db[s], b.at, now) \subseteq Sights(r, db, b)[s]
        BY <1>5
      <3> QED BY <1>1, <1>4, <2>1, <3>1, PageWalks
    <2> QED BY <2>2
  <1>8. Fits("pull", b.op)
    BY <1>1 DEF Fits
  <1> HIDE DEF j
  <1>9. Walks(r, db, F, j)
    <2>1. Sights(r, db, j) = Sights(r, db, b) /\ j.op = "iterator"
      <3>1. Of(j) = Of(b)
        BY <1>6 DEF Onward
      <3>2. j.op = b.op /\ j.ns = b.ns /\ j.keys = b.keys /\ j.at = b.at
        BY <3>1 DEF Of
      <3> QED BY <1>3, <3>2 DEF Sights, Concerns
    <2> HIDE DEF F
    <2>2. Walked(j, Sights(r, db, j))
      BY <1>7, <2>1
    <2>3. F = {} => WalkDone(j, Sights(r, db, j))
      BY <1>7, <2>1 DEF WalkDone
    <2> QED BY <2>2, <2>3 DEF Walks
  <1>10. f = Command(r.t, j, "pull", {}, 0) /\ j.op = b.op
    <2>1. Of(j) = Of(b)
      BY <1>6 DEF Onward
    <2>2. j.op = b.op
      BY <2>1 DEF Of
    <2> QED BY <2>1, <2>2, CommandSame
  <1>11. Well(f, r.t, j) /\ f.do = "pull"
    BY <1>8, <1>10, CommandWell, CommandOf
  <1> HIDE DEF f
  <1>12. F = {} \/ \E g : F = {g} /\ Well(g, r.t, j) /\ g # r /\ g.do # "sweep"
    BY <1>11
  <1> HIDE DEF F
  <1>13. Move(r, db, F, j)
    BY <1>6, <1>9, <1>12, WalkMove, LosesNothing DEF b
  <1> QED BY <1>2, <1>13, MoveSteps

LEMMA RejectsSteps == ASSUME SqlInv, NEW name, Rejects(name, Removed) PROVE Steps
  <1>1. CASE \E r \in UNION {Failing(name, do) : do \in {"select", "existing", "page"}} : Reject(r, db)
    <2>1. PICK r \in UNION {Failing(name, do) : do \in {"select", "existing", "page"}} : Reject(r, db)
      BY <1>1
    <2>2. r \in flight
      BY Sends
    <2> QED BY <2>1, <2>2, LosesNothing, RejectSteps
  <1>2. CASE \E r \in UNION {Failing(name, do) : do \in {"sweep", "delete", "clear", "expire"}} :
                \E d \in Outcomes(r, Drop(db, Removed(r))) : Reject(r, d)
    <2>1. PICK r \in UNION {Failing(name, do) : do \in {"sweep", "delete", "clear", "expire"}} :
                  \E d \in Outcomes(r, Drop(db, Removed(r))) : Reject(r, d)
      BY <1>2
    <2>2. PICK d \in Outcomes(r, Drop(db, Removed(r))) : Reject(r, d)
      BY <2>1
    <2>3. r \in flight /\ r.do \in {"sweep", "delete", "clear", "expire"}
      BY Sends
    <2>4. Loses(r, d)
      BY <2>3, OutcomesOf, LosesNothing, LosesRemoved
    <2> QED BY <2>2, <2>3, <2>4, RejectSteps
  <1> QED BY <1>1, <1>2 DEF Rejects

LEMMA BootSteps == ASSUME SqlInv, NEW outcomes, Boot(outcomes) PROVE Steps
  <1>1. PICK b \in outcomes : Happen(db, [aux EXCEPT !.boot = b])
    BY DEF Boot
  <1>2. Passes(db)
    BY DEF Passes, SqlInv, CallsInv, Types
  <1> QED BY <1>1, <1>2 DEF Steps

LEMMA TimedSteps == ASSUME SqlInv, NEW n \in Int, n <= now + 1, Timed(Drop(db, ExpiredRows(n))) PROVE Steps
  BY PassesExpired DEF Steps, Timed

\* The next chunk of a call that answers as k.
LEMMA ChunkFollows ==
    ASSUME SqlInv, NEW r \in flight, NEW d, NEW k, Onward(job[r.t], k), k.i = job[r.t].i, Chunked(job[r.t].op),
           r.do \in {"select", "existing", "delete", "upsert"}, NEW do, Fits(do, k.op),
           do \in {"select", "existing", "delete", "upsert"}
    PROVE  LET F == NextChunk(r.t, Beyond(k), do)
           IN  /\ Follows(r, d, F, Beyond(k)) /\ Onward(job[r.t], Beyond(k))
               /\ \A f \in F : f.do = do
               /\ Chunked(k.op) /\ Chunked(Beyond(k).op)
               /\ F = {} => \A i \in All(k) : i < Beyond(k).i
               /\ \A i \in All(k) : i < Beyond(k).i => i \in r.at \/ i \in Settled(r, job[r.t])
  <1> DEFINE b == job[r.t]
             j == Beyond(k)
             F == NextChunk(r.t, j, do)
  <1>1. /\ Onward(b, j) /\ j.i = k.i + BatchSize /\ j.op = k.op /\ All(j) = All(k) /\ Chunk(k) \cap Chunk(j) = {}
        /\ \A i \in All(k) : i < k.i + BatchSize => i < k.i \/ i \in Chunk(k)
    BY BeyondOnward
  <1>2. b.op = k.op /\ b.keys = k.keys /\ b.i = k.i
    BY DEF Onward, Of
  <1> HIDE DEF j
  <1>3. All(b) = All(k) /\ Chunk(b) = Chunk(k)
    BY <1>2 DEF All, Chunk
  <1>4. r.at = Chunk(k)
    BY <1>3, EntriesOf
  <1>5. Chunked(j.op) /\ Fits(do, j.op)
    BY <1>1, <1>2
  <1>6. Follows(r, d, F, j) /\ (\A f \in F : f.do = do) /\ (F = {} => \A i \in All(j) : i < j.i)
    <2>1. r.at \cap Chunk(j) = {} /\ Onward(b, j)
      BY <1>1, <1>4
    <2> QED BY <1>5, <2>1, NextChunkFollows
  <1> HIDE DEF F
  <1>7. \A i \in All(k) : i < j.i => i \in r.at \/ i \in Settled(r, b)
    BY <1>1, <1>2, <1>3, <1>4 DEF Settled
  <1> QED BY <1>1, <1>2, <1>5, <1>6, <1>7 DEF F, j

\* j answers true for entries that were there.
Counts(r, j) == \A i \in All(j) : j.res[i] \in BOOLEAN /\ (j.res[i] => job[r.t].res[i] \/ db[Slot(j, i)] # None)

LEMMA ExistedCounts ==
    ASSUME SqlInv, NEW r \in flight, r.do = "delete"
    PROVE  /\ Onward(job[r.t], Existed(job[r.t], r.at)) /\ Existed(job[r.t], r.at).i = job[r.t].i
           /\ Counts(r, Existed(job[r.t], r.at)) /\ Counts(r, job[r.t])
  <1> DEFINE b == job[r.t]
             j == Existed(b, r.at)
  <1>1. Onward(b, b) /\ Well(r, r.t, b) /\ AnswersOK(b, Settled(r, b), seen[r.t])
    BY Current, SameOnward
  <1> HIDE DEF b
  <1>2. /\ Onward(b, j) /\ Like(j, b)
        /\ \A i \in All(b) : j.res[i] = (b.res[i] \/ Slot(b, i) \in Existing(b, r.at))
    BY <1>1, ExistedOnward
  <1> HIDE DEF j
  <1>3. All(j) = All(b) /\ j.i = b.i /\ \A i \in All(b) : Slot(j, i) = Slot(b, i)
    BY <1>2 DEF Like, Of, Slot
  <1>4. \A i \in All(b) : b.res[i] \in BOOLEAN
    BY <1>1 DEF AnswersOK, Well, Fits
  <1>5. \A i \in All(b) : Slot(b, i) \in Existing(b, r.at) => db[Slot(b, i)] # None
    BY DEF Existing
  <1> QED BY <1>2, <1>3, <1>4, <1>5 DEF Counts, b, j

LEMMA DeletesOne ==
    ASSUME SqlInv, NEW r \in flight, r.do = "delete", r.of.op = "delete", NEW j, Onward(job[r.t], j), Counts(r, j),
           Serve(r, Drop(db, SlotsAt(r.of, r.at)), aux, {}, j)
    PROVE  Steps
  <1>1. ~Chunked(job[r.t].op) /\ All(j) = All(job[r.t])
    BY Current DEF Chunked, Onward, Of, All
  <1>2. r.at = All(j)
    BY <1>1, EntriesOf
  <1>3. Follows(r, Drop(db, SlotsAt(r.of, r.at)), {}, j)
    BY DEF Follows
  <1>4. Move(r, Drop(db, SlotsAt(r.of, r.at)), {}, j)
    BY <1>2, <1>3, DeleteMove DEF Counts
  <1> QED BY <1>4, MoveSteps

LEMMA DeletesChunk ==
    ASSUME SqlInv, NEW r \in flight, r.do = "delete", r.of.op = "deleteMany", NEW k, Onward(job[r.t], k), Counts(r, k),
           k.i = job[r.t].i, NEW do \in {"existing", "delete"},
           Serve(r, Drop(db, SlotsAt(r.of, r.at)), aux, NextChunk(r.t, Beyond(k), do), Beyond(k))
    PROVE  Steps
  <1> DEFINE d == Drop(db, SlotsAt(r.of, r.at))
             j == Beyond(k)
             F == NextChunk(r.t, j, do)
  <1>1. k.op = "deleteMany" /\ job[r.t].op = "deleteMany"
    BY Current DEF Onward, Of
  <1>2. Fits(do, k.op) /\ Chunked(job[r.t].op)
    BY <1>1 DEF Fits, DeleteOps, Chunked
  <1>3. /\ Follows(r, d, F, j) /\ Onward(job[r.t], j) /\ (\A f \in F : f.do = do) /\ Chunked(j.op)
        /\ F = {} => \A i \in All(k) : i < j.i
        /\ \A i \in All(k) : i < j.i => i \in r.at \/ i \in Settled(r, job[r.t])
    BY <1>2, ChunkFollows
  <1>4. All(j) = All(k) /\ j.res = k.res /\ \A i \in All(j) : Slot(j, i) = Slot(k, i)
    BY BeyondOnward DEF Of, Slot
  <1> HIDE DEF F, j
  <1>5. \A i \in All(j) : j.res[i] \in BOOLEAN /\ (j.res[i] => job[r.t].res[i] \/ db[Slot(j, i)] # None)
    BY <1>4 DEF Counts
  <1>6. Move(r, d, F, j)
    BY <1>3, <1>4, <1>5, DeleteMove
  <1> QED BY <1>6, MoveSteps DEF j, F

\* MySQL and SQLite ask which keys of a chunk exist, and delete them.
DeletesFound(r) ==
    LET one == r.of.op = "delete"
        j   == IF one THEN Existed(job[r.t], r.at) ELSE Beyond(job[r.t])
    IN  Serve(r, Drop(db, SlotsAt(r.of, r.at)), aux, IF one THEN {} ELSE NextChunk(r.t, j, "existing"), j)

LEMMA DeletesFoundSteps == ASSUME SqlInv, NEW r \in flight, r.do = "delete", DeletesFound(r) PROVE Steps
  <1>1. r.of.op \in DeleteOps
    BY Current DEF Well, Fits
  <1>2. CASE r.of.op = "delete"
    BY <1>2, ExistedCounts, DeletesOne DEF DeletesFound
  <1>3. CASE r.of.op = "deleteMany"
    BY <1>3, ExistedCounts, SameOnward, DeletesChunk DEF DeletesFound
  <1> QED BY <1>1, <1>2, <1>3 DEF DeleteOps

LEMMA ExistingSteps ==
    ASSUME SqlInv, NEW r \in flight, r.do = "existing",
           Serve(r, db, aux, {Command(r.t, r.of, "delete", r.at, {})}, Existed(job[r.t], r.at))
    PROVE  Steps
  BY ExistingMove, MoveSteps

---------------------------------------------------------------------------
(* MySQL *)

LEMMA MysqlSteps == ASSUME SqlInv, MysqlNext PROVE Steps
  <1>1. CASE adapter = "mysql" /\ \E t \in Tasks : NewCall(t, MysqlCall)
    BY <1>1, CallsStart
  <1>2. CASE MysqlSelected
    <2>1. PICK r \in My("select") : IF r.at = {} THEN Reject(r, db) ELSE SelectRows(r, Judged(job[r.t], r.at), {})
      BY <1>2 DEF MysqlSelected
    <2>2. r \in flight /\ r.do = "select" /\ adapter = "mysql"
      BY Sends DEF My
    <2>3. ~Chunked(r.of.op)
      BY <2>2, Current DEF Well, Fits, Chunked, ReadOps, HasOps
    <2> QED BY <2>1, <2>2, <2>3, LosesNothing, RejectSteps, SelectsPlain
  <1>3. CASE MysqlSwept
    <2>1. PICK r \in My("sweep") : Serve(r, Drop(db, r.with), aux, {}, job[r.t])
      BY <1>3 DEF MysqlSwept
    <2>2. r \in flight /\ r.do = "sweep" /\ adapter = "mysql"
      BY Sends DEF My
    <2>3. ~Chunked(r.of.op)
      BY <2>2, Current DEF Well, Fits, Chunked, ReadOps, HasOps
    <2> QED BY <2>1, <2>2, <2>3, SweepsPlain
  <1>4. CASE MysqlUpserted
    <2>1. PICK r \in My("upsert") : Serve(r, Upserted(r), aux, {}, SqliteResults(job[r.t], r.at))
      BY <1>4 DEF MysqlUpserted, SqliteResults
    <2> QED BY <2>1, Sends, UpsertsPlain DEF My
  <1>5. CASE MysqlSetFailed
    <2>1. PICK r \in Failing("mysql", "upsert") : \E d \in Outcomes(r, Upserted(r)) : Serve(r, d, aux, {}, Failed(job[r.t]))
      BY <1>5 DEF MysqlSetFailed
    <2>2. PICK d \in Outcomes(r, Upserted(r)) : Serve(r, d, aux, {}, Failed(job[r.t]))
      BY <2>1
    <2> QED BY <2>2, Sends, OutcomesOf, UpsertFailsPlain
  <1>6. CASE MysqlExisting
    BY <1>6, Sends, ExistingSteps DEF MysqlExisting, My
  <1>7. CASE MysqlDeleted
    <2>1. PICK r \in My("delete") : DeletesFound(r)
      BY <1>7 DEF MysqlDeleted, DeletesFound
    <2> QED BY <2>1, Sends, DeletesFoundSteps DEF My
  <1>8. CASE MysqlCleared
    BY <1>8, Sends, ClearSteps DEF MysqlCleared, My
  <1>9. CASE MysqlPage \/ MysqlPull
    BY <1>9, Sends, PageSteps, PullSteps DEF MysqlPage, MysqlPull, My
  <1>10. CASE MysqlExpired
    BY <1>10, Sends, ExpireSteps DEF MysqlExpired, My
  <1>11. CASE MysqlEnded
    BY <1>11, Sends, EndSteps DEF MysqlEnded
  <1>12. CASE MysqlRejected
    BY <1>12, RejectsSteps DEF MysqlRejected
  <1>13. CASE MysqlEvent
    <2>1. now + 1 \in Int
      BY DEF SqlInv, CallsInv, Types
    <2> QED BY <1>13, <2>1, TimedSteps DEF MysqlEvent
  <1>14. CASE MysqlBoot
    BY <1>14, BootSteps DEF MysqlBoot
  <1> QED BY <1>1, <1>2, <1>3, <1>4, <1>5, <1>6, <1>7, <1>8, <1>9, <1>10, <1>11, <1>12, <1>13, <1>14 DEF MysqlNext

---------------------------------------------------------------------------
(* PostgreSQL *)

LEMMA PostgresSteps == ASSUME SqlInv, PostgresNext PROVE Steps
  <1>1. CASE adapter = "postgres" /\ \E t \in Tasks : NewCall(t, PostgresCall)
    BY <1>1, CallsStart
  <1>2. CASE PostgresSelected
    <2>1. PICK r \in Pg("select") : SelectRows(r, Judged(job[r.t], r.at), {})
      BY <1>2 DEF PostgresSelected
    <2>2. r \in flight /\ r.do = "select" /\ adapter = "postgres"
      BY Sends DEF Pg
    <2>3. ~Chunked(r.of.op)
      BY <2>2, Current DEF Well, Fits, Chunked, ReadOps, HasOps
    <2> QED BY <2>1, <2>2, <2>3, SelectsPlain
  <1>3. CASE PostgresSwept
    <2>1. PICK r \in Pg("sweep") : Serve(r, Drop(db, r.with), aux, {}, job[r.t])
      BY <1>3 DEF PostgresSwept
    <2>2. r \in flight /\ r.do = "sweep" /\ adapter = "postgres"
      BY Sends DEF Pg
    <2>3. ~Chunked(r.of.op)
      BY <2>2, Current DEF Well, Fits, Chunked, ReadOps, HasOps
    <2> QED BY <2>1, <2>2, <2>3, SweepsPlain
  <1>4. CASE PostgresUpserted
    <2>1. PICK r \in Pg("upsert") : Serve(r, Upserted(r), aux, {}, SqliteResults(job[r.t], r.at))
      BY <1>4 DEF PostgresUpserted, SqliteResults
    <2> QED BY <2>1, Sends, UpsertsPlain DEF Pg
  <1>5. CASE \E r \in Pg("upsert") : ~Distinct(r) /\ Serve(r, db, aux, {}, Failed(job[r.t]))
    BY <1>5, Sends, UpsertFailsPlain DEF Pg
  <1>6. CASE \E r \in Failing("postgres", "upsert") :
                Distinct(r) /\ \E d \in Outcomes(r, Upserted(r)) : Serve(r, d, aux, {}, Failed(job[r.t]))
    <2>1. PICK r \in Failing("postgres", "upsert") :
                  \E d \in Outcomes(r, Upserted(r)) : Serve(r, d, aux, {}, Failed(job[r.t]))
      BY <1>6
    <2>2. PICK d \in Outcomes(r, Upserted(r)) : Serve(r, d, aux, {}, Failed(job[r.t]))
      BY <2>1
    <2> QED BY <2>2, Sends, OutcomesOf, UpsertFailsPlain
  <1>7. CASE PostgresDeleted
    <2> DEFINE k(r) == Existed(job[r.t], r.at)
               j(r) == Beyond(k(r))
    <2>1. PICK r \in Pg("delete") :
              Serve(r, Drop(db, SlotsAt(r.of, r.at)), aux,
                    IF j(r).op = "delete" THEN {} ELSE NextChunk(r.t, j(r), "delete"), j(r))
      BY <1>7 DEF PostgresDeleted
    <2>2. r \in flight /\ r.do = "delete"
      BY Sends DEF Pg
    <2>3. Onward(job[r.t], k(r)) /\ k(r).i = job[r.t].i /\ Counts(r, k(r))
      BY <2>2, ExistedCounts
    <2> HIDE DEF k
    <2>4. /\ Onward(job[r.t], j(r)) /\ j(r).op = k(r).op /\ j(r).res = k(r).res /\ All(j(r)) = All(k(r))
          /\ Of(j(r)) = Of(k(r))
      BY <2>3, BeyondOnward
    <2>5. j(r).op = r.of.op /\ r.of.op \in DeleteOps
      <3>1. k(r).op = job[r.t].op
        BY <2>3 DEF Onward, Of
      <3>2. r.of.op = job[r.t].op /\ job[r.t].op \in DeleteOps
        BY <2>2, Current DEF Well, Fits
      <3> QED BY <2>4, <3>1, <3>2
    <2>6. Counts(r, j(r))
      BY <2>3, <2>4 DEF Counts, Of, Slot
    <2>7. CASE r.of.op = "delete"
      <3> HIDE DEF j
      <3> QED BY <2>1, <2>2, <2>4, <2>5, <2>6, <2>7, DeletesOne
    <2>8. CASE r.of.op = "deleteMany"
      <3>1. Serve(r, Drop(db, SlotsAt(r.of, r.at)), aux, NextChunk(r.t, Beyond(k(r)), "delete"), Beyond(k(r)))
        BY <2>1, <2>5, <2>8
      <3> QED BY <2>2, <2>3, <2>8, <3>1, DeletesChunk
    <2> QED BY <2>5, <2>7, <2>8 DEF DeleteOps
  <1>8. CASE PostgresCleared
    BY <1>8, Sends, ClearSteps DEF PostgresCleared, Pg
  <1>9. CASE PostgresPage \/ PostgresPull
    BY <1>9, Sends, PageSteps, PullSteps DEF PostgresPage, PostgresPull, Pg
  <1>10. CASE PostgresPageFailed
    BY <1>10, Sends, PageFails DEF PostgresPageFailed
  <1>11. CASE PostgresExpired
    BY <1>11, Sends, ExpireSteps DEF PostgresExpired, Pg
  <1>12. CASE PostgresTimer
    <2>1. PICK n \in 0..now : Timed(Drop(db, ExpiredRows(n)))
      BY <1>12 DEF PostgresTimer
    <2>2. n \in Int /\ n <= now + 1
      BY DEF SqlInv, CallsInv, Types
    <2> QED BY <2>1, <2>2, TimedSteps
  <1>13. CASE PostgresEnded
    BY <1>13, Sends, EndSteps DEF PostgresEnded
  <1>14. CASE PostgresRejected
    BY <1>14, RejectsSteps DEF PostgresRejected
  <1>15. CASE PostgresBoot
    BY <1>15, BootSteps DEF PostgresBoot
  <1> QED BY <1>1, <1>2, <1>3, <1>4, <1>5, <1>6, <1>7, <1>8, <1>9, <1>10, <1>11, <1>12, <1>13, <1>14, <1>15
          DEF PostgresNext, PostgresSetFailed

---------------------------------------------------------------------------
(* SQLite *)

\* What SQLite makes of the rows of a statement, for the call as k.
LEMMA LiteJudges ==
    ASSUME SqlInv, NEW r \in flight, r.do = "select", NEW k, Onward(job[r.t], k), k.res = job[r.t].res
    PROVE  LET j == SqliteJudged(k, r.at)
           IN  /\ Onward(job[r.t], j) /\ Like(j, k)
               /\ \A i \in All(j) : Judges(j, i) \/ Kept(r, j, i)
               /\ \A i \in r.at : Judges(j, i) \/ (Kept(r, j, i) /\ ~Found(j, i))
  <1> DEFINE b == job[r.t]
             j == SqliteJudged(k, r.at)
  <1>1. r.at \subseteq All(b)
    BY Current DEF Well
  <1> HIDE DEF b
  <1>2. Onward(b, j) /\ Like(j, k) /\ Recalls(j, k, r.at)
    BY SqliteJudgedOnward DEF b
  <1> HIDE DEF j
  <1>3. j.op = k.op /\ All(j) = All(k) /\ j.at = k.at /\ All(k) = All(b) /\ \A i \in All(j) : Slot(j, i) = Slot(k, i)
    <2>1. Of(j) = Of(k) /\ Of(k) = Of(b)
      BY <1>2 DEF Like, Onward, b
    <2> QED BY <2>1 DEF Of, All, Slot
  <1>4. \A i \in Known(k, r.at) : Found(j, i)
    BY <1>3 DEF Known, Found, Old
  <1>5. \A i \in r.at : i \notin Known(k, r.at) => ~Found(j, i)
    BY <1>1, <1>3 DEF Known, Found, Old, SlotsAt
  <1>6. \A i \in All(j) : IF i \in Known(k, r.at) THEN Judges(j, i) ELSE Kept(r, j, i)
    BY <1>2, <1>3, <1>4 DEF Judges, Kept, Recalls, b
  <1> QED BY <1>1, <1>2, <1>3, <1>5, <1>6 DEF j, b

LEMMA LiteSelects ==
    ASSUME SqlInv, NEW r \in flight, r.do = "select", adapter = "sqlite",
           LET j == IF r.of.op \in SingleOps THEN job[r.t] ELSE Beyond(job[r.t])
           IN  SelectRows(r, SqliteJudged(j, r.at), IF j.op \in SingleOps THEN {} ELSE NextChunk(r.t, j, "select"))
    PROVE  Steps
  <1> DEFINE b == job[r.t]
  <1>1. Onward(b, b) /\ r.of.op = b.op /\ b.op \in ReadOps \cup HasOps /\ Fits("select", b.op)
    BY Current, SameOnward DEF Well, Fits
  <1>2. CASE b.op \in SingleOps
    <2> DEFINE j == SqliteJudged(b, r.at)
    <2>1. ~Chunked(b.op) /\ r.at = All(b)
      <3>1. ~Chunked(b.op)
        BY <1>2 DEF Chunked, SingleOps
      <3> QED BY <3>1, EntriesOf
    <2>2. /\ Onward(b, j) /\ Like(j, b) /\ \A i \in All(j) : Judges(j, i) \/ Kept(r, j, i)
          /\ \A i \in r.at : Judges(j, i) \/ (Kept(r, j, i) /\ ~Found(j, i))
      BY <1>1, LiteJudges
    <2>3. SelectRows(r, j, {})
      BY <1>1, <1>2
    <2> HIDE DEF b, j
    <2>4. Follows(r, db, {}, j) /\ j.op = b.op /\ All(j) = All(b)
      BY <2>2 DEF Follows, Like
    <2>5. \A i \in Read(j) : i \in r.at
      BY <2>1, <2>4 DEF Read
    <2>6. ~Chunked(j.op)
      BY <2>1, <2>4
    <2>7. Move(r, db, IF Old(r.of, r.at) = {} THEN {} ELSE {Command(r.t, r.of, "sweep", r.at, Old(r.of, r.at))}, j)
      BY <2>2, <2>4, <2>5, <2>6, SelectMove DEF b
    <2> QED BY <2>3, <2>7, MoveSteps DEF SelectRows
  <1>3. CASE b.op \notin SingleOps
    <2> DEFINE k == Beyond(b)
               j == SqliteJudged(k, r.at)
               F == NextChunk(r.t, k, "select")
    <2>1. Chunked(b.op)
      BY <1>1, <1>3 DEF Chunked, SingleOps, ReadOps, HasOps
    <2>2. /\ Onward(b, k) /\ k.res = b.res /\ k.op = b.op /\ All(k) = All(b) /\ Of(k) = Of(b)
      BY <1>1, BeyondOnward
    <2>3. /\ Follows(r, db, F, k) /\ \A f \in F : f.do = "select"
          /\ F = {} => \A i \in All(b) : i < k.i
          /\ \A i \in All(b) : i < k.i => i \in r.at \/ i \in Settled(r, b)
      BY <1>1, <2>1, ChunkFollows
    <2>4. SelectRows(r, j, F)
      BY <1>1, <1>3, <2>2
    <2> HIDE DEF k, F
    <2>5. /\ Onward(b, j) /\ Like(j, k) /\ \A i \in All(j) : Judges(j, i) \/ Kept(r, j, i)
          /\ \A i \in r.at : Judges(j, i) \/ (Kept(r, j, i) /\ ~Found(j, i))
      BY <2>2, LiteJudges
    <2> HIDE DEF b, j
    <2>6. j.op = b.op /\ All(j) = All(b) /\ j.i = k.i /\ j.c = k.c /\ Of(j) = Of(k) /\ j.keys = k.keys
      BY <2>2, <2>5 DEF Like, Of
    <2>7. Follows(r, db, F, j)
      <3>1. \A f : Well(f, r.t, k) => Well(f, r.t, j)
        BY <2>2, <2>6 DEF Well, Due, Chunk, Of
      <3> QED BY <2>3, <3>1 DEF Follows
    <2>8. \A i \in Read(j) : i \in r.at \/ (Kept(r, j, i) /\ i \in Settled(r, b)) \/ Judges(j, i)
      BY <2>1, <2>3, <2>5, <2>6 DEF Read
    <2>9. Move(r, db, IF Old(r.of, r.at) = {} THEN F ELSE {Command(r.t, r.of, "sweep", r.at, Old(r.of, r.at))}, j)
      BY <2>1, <2>3, <2>5, <2>6, <2>7, <2>8, SelectMove DEF b
    <2> QED BY <2>4, <2>9, MoveSteps DEF SelectRows
  <1> QED BY <1>2, <1>3

LEMMA LiteSweeps ==
    ASSUME SqlInv, NEW r \in flight, r.do = "sweep", adapter = "sqlite",
           Serve(r, Drop(db, r.with), aux,
                 IF r.of.op \in SingleOps THEN {} ELSE NextChunk(r.t, job[r.t], "select"), job[r.t])
    PROVE  Steps
  <1> DEFINE b == job[r.t]
             F == NextChunk(r.t, b, "select")
  <1>1. Onward(b, b) /\ r.of.op = b.op /\ b.op \in ReadOps \cup HasOps
    BY Current, SameOnward DEF Well, Fits
  <1>2. CASE b.op \in SingleOps
    <2>1. ~Chunked(r.of.op)
      BY <1>1, <1>2 DEF Chunked, SingleOps
    <2> QED BY <1>1, <1>2, <2>1, SweepsPlain
  <1>3. CASE b.op \notin SingleOps
    <2>1. Chunked(b.op) /\ Fits("select", b.op)
      BY <1>1, <1>3 DEF Chunked, SingleOps, ReadOps, HasOps, Fits
    <2>2. /\ Follows(r, Drop(db, r.with), F, b) /\ \A f \in F : f.do = "select"
          /\ F = {} => \A i \in All(b) : i < b.i
      BY <1>1, <2>1, NextChunkFollows
    <2>3. Serve(r, Drop(db, r.with), aux, F, b)
      BY <1>1, <1>3
    <2> HIDE DEF F
    <2>4. Move(r, Drop(db, r.with), F, b)
      BY <2>1, <2>2, SweepMove
    <2> QED BY <2>3, <2>4, MoveSteps
  <1> QED BY <1>2, <1>3

\* An upsert of SQLite, or its failure, answers as k.
LEMMA LiteUpserts ==
    ASSUME SqlInv, NEW r \in flight, r.do = "upsert", adapter = "sqlite", NEW d \in {db, Upserted(r)}, NEW k,
           \/ d = Upserted(r) /\ k = SqliteResults(job[r.t], r.at)
           \/ k = Failed(job[r.t]),
           Serve(r, d, aux, NextUpsert(r, Beyond(k)), Beyond(k))
    PROVE  Steps
  <1> DEFINE b == job[r.t]
             j == Beyond(k)
             F == NextUpsert(r, j)
  <1>1. Onward(b, b) /\ r.of.op = b.op /\ b.op \in WriteOps /\ r.at \subseteq All(b)
    BY Current, SameOnward DEF Well, Fits
  <1> HIDE DEF b
  <1>2. /\ Onward(b, k) /\ k.i = b.i /\ All(k) = All(b) /\ k.op = b.op
        /\ \/ d = Upserted(r) /\ Grants(k, b, r.at) /\ k.failed = b.failed
           \/ k.failed = TRUE /\ k.res = b.res
    <2>1. CASE d = Upserted(r) /\ k = SqliteResults(b, r.at)
      <3>1. Onward(b, k) /\ Like(k, b) /\ Grants(k, b, r.at)
        BY <1>1, <2>1, TruesOnward
      <3> QED BY <2>1, <3>1 DEF Like
    <2>2. CASE k = Failed(b)
      BY <1>1, <2>2, FailedOnward
    <2> QED BY <2>1, <2>2 DEF b
  <1>3. Onward(b, j) /\ j.res = k.res /\ j.failed = k.failed /\ All(j) = All(k)
    BY <1>2, BeyondOnward
  <1>4. Follows(r, d, F, j)
    <2>1. CASE b.op = "set"
      <3>1. F = {}
        BY <1>1, <2>1 DEF NextUpsert
      <3> QED BY <3>1 DEF Follows
    <2>2. CASE b.op = "setMany"
      <3>1. F = NextChunk(r.t, j, "upsert")
        BY <1>1, <2>2 DEF NextUpsert
      <3>2. Chunked(b.op) /\ Fits("upsert", k.op)
        BY <1>2, <2>2 DEF Chunked, Fits, WriteOps
      <3> HIDE DEF F
      <3> QED BY <1>2, <3>1, <3>2, ChunkFollows DEF b
    <2> QED BY <1>1, <2>1, <2>2 DEF WriteOps
  <1>5. Serve(r, d, aux, F, j)
    OBVIOUS
  <1> HIDE DEF j, F
  <1>6. \A i \in All(j) : j.res[i] = b.res[i] \/ (i \in r.at /\ d = Upserted(r) /\ j.res[i] = TRUE)
    BY <1>2, <1>3 DEF Grants
  <1>7. j.failed \/ (j.failed = b.failed /\ \A i \in r.at : j.res[i] = TRUE)
    BY <1>1, <1>2, <1>3 DEF Grants
  <1>8. Move(r, d, F, j)
    BY <1>3, <1>4, <1>6, <1>7, UpsertMove DEF b
  <1> QED BY <1>5, <1>8, MoveSteps

LEMMA SqliteSteps == ASSUME SqlInv, SqliteNext PROVE Steps
  <1>1. CASE adapter = "sqlite" /\ \E t \in Tasks : NewCall(t, SqliteCall)
    BY <1>1, CallsStart
  <1>2. CASE SqliteSelected
    BY <1>2, Sends, LiteSelects DEF SqliteSelected, Lite
  <1>3. CASE SqliteSwept
    BY <1>3, Sends, LiteSweeps DEF SqliteSwept, Lite
  <1>4. CASE SqliteUpserted
    BY <1>4, Sends, LiteUpserts DEF SqliteUpserted, Lite
  <1>5. CASE SqliteSetFailed
    <2>1. PICK r \in Failing("sqlite", "upsert") : \E d \in Outcomes(r, Upserted(r)) :
                  Serve(r, d, aux, NextUpsert(r, Beyond(Failed(job[r.t]))), Beyond(Failed(job[r.t])))
      BY <1>5 DEF SqliteSetFailed
    <2>2. PICK d \in Outcomes(r, Upserted(r)) :
                  Serve(r, d, aux, NextUpsert(r, Beyond(Failed(job[r.t]))), Beyond(Failed(job[r.t])))
      BY <2>1
    <2> QED BY <2>2, Sends, OutcomesOf, LiteUpserts
  <1>6. CASE SqliteExisting
    BY <1>6, Sends, ExistingSteps DEF SqliteExisting, Lite
  <1>7. CASE SqliteDeleted
    <2>1. PICK r \in Lite("delete") : DeletesFound(r)
      BY <1>7 DEF SqliteDeleted, DeletesFound
    <2> QED BY <2>1, Sends, DeletesFoundSteps DEF Lite
  <1>8. CASE SqliteCleared
    BY <1>8, Sends, ClearSteps DEF SqliteCleared, Lite
  <1>9. CASE SqlitePage \/ SqlitePull
    BY <1>9, Sends, PageSteps, PullSteps DEF SqlitePage, SqlitePull, Lite
  <1>10. CASE SqlitePageFailed
    BY <1>10, Sends, PageFails DEF SqlitePageFailed
  <1>11. CASE SqliteExpired
    BY <1>11, Sends, ExpireSteps DEF SqliteExpired, Lite
  <1>12. CASE SqliteTimer
    <2>1. PICK n \in 0..now : Timed(Drop(db, ExpiredRows(n)))
      BY <1>12 DEF SqliteTimer
    <2>2. n \in Int /\ n <= now + 1
      BY DEF SqlInv, CallsInv, Types
    <2> QED BY <2>1, <2>2, TimedSteps
  <1>13. CASE SqliteEnded
    BY <1>13, Sends, EndSteps DEF SqliteEnded, Lite
  <1>14. CASE SqliteUnended
    BY <1>14, Sends, LosesNothing, RejectSteps DEF SqliteUnended
  <1>15. CASE SqliteRejected
    BY <1>15, RejectsSteps DEF SqliteRejected
  <1>16. CASE SqliteBoot
    BY <1>16, BootSteps DEF SqliteBoot
  <1> QED BY <1>1, <1>2, <1>3, <1>4, <1>5, <1>6, <1>7, <1>8, <1>9, <1>10, <1>11, <1>12, <1>13, <1>14, <1>15, <1>16
          DEF SqliteNext

---------------------------------------------------------------------------
(* The invariant, and what it says *)

LEMMA NextSplits == ASSUME SqlInv, [Next]_vars PROVE Steps \/ UNCHANGED vars
  <1>1. ASSUME Tick PROVE Steps
    BY <1>1 DEF Steps
  <1> QED BY <1>1, MysqlSteps, PostgresSteps, SqliteSteps DEF Next

LEMMA Starting == ASSUME Init PROVE IInv
  <1>1. /\ adapter \in Adapters /\ now = 0 /\ calls = 0 /\ job = [t \in Tasks |-> Idle] /\ flight = {} /\ reply = Idle
        /\ db \in [Slots -> {None, [val |-> Original, exp |-> None], [val |-> Original, exp |-> 0]}]
    BY DEF Init, CallsInit, SqlInit
  <1>2. now \in 0..MaxTime[adapter] /\ calls \in 0..MaxCalls
    BY <1>1, CallsAssumption
  <1>3. db \in [Slots -> Rows]
    <2>1. Original \in Values
      BY CallsAssumption DEF Original, Values
    <2>2. /\ [val |-> Original, exp |-> None] \in Rows /\ [val |-> Original, exp |-> 0] \in Rows /\ None \in Rows
      BY <2>1, RowsOf DEF Rows
    <2> QED BY <1>1, <2>2
  <1>4. \A t \in Tasks : job[t] = Idle
    BY <1>1
  <1>5. Types
    BY <1>1, <1>2, <1>3 DEF Types
  <1>6. CallsInv
    BY <1>1, <1>4, <1>5 DEF CallsInv
  <1>7. AnswersInv /\ SweptInv
    BY <1>1, <1>4 DEF AnswersInv, AnswersAt, SweptInv
  <1>8. Promises
    BY <1>1 DEF Promises, ReadsCurrent, EffectsReported, WritesReported, TruesWritten, DeletesReported, Ended,
               WalksExact, WalksComplete, ClearComplete, IterationComplete, IterationOnce
  <1> QED BY <1>6, <1>7, <1>8 DEF IInv, SqlInv

LEMMA NextKeeps == ASSUME IInv, [Next]_vars PROVE IInv' /\ SweepSafeStep
  <1>1. Steps \/ UNCHANGED vars
    BY NextSplits DEF IInv
  <1> QED BY <1>1, StepsKeep, StutterKeeps

LEMMA Always == Spec => []IInv
  BY Starting, NextKeeps, PTL DEF Spec

LEMMA TypesFollow == ASSUME IInv PROVE TypeOK
  <1>1. CallsInv
    BY DEF IInv, SqlInv
  <1>2. ASSUME NEW t \in Tasks, job[t] # Idle
        PROVE  job[t].op \in Ops[t] /\ job[t].c \in 1..calls /\ Mine(flight, t, job[t].c) # {}
    <2>1. Underway(t, job[t], calls, now)
      BY <1>1, <1>2 DEF CallsInv
    <2>2. calls \in Nat /\ job[t].c \in Nat \ {0} /\ job[t].c <= calls /\ job[t].op \in Ops[t]
      BY <1>1, <2>1, CallsAssumption DEF CallsInv, Types, Underway, CallOK
    <2>3. PICK r \in flight : r.t = t
      BY <1>1, <1>2 DEF CallsInv
    <2>4. r.c = job[t].c
      BY <1>1, <2>3 DEF CallsInv, Well
    <2> QED BY <2>2, <2>3, <2>4 DEF Mine
  <1>3. ASSUME NEW r \in flight PROVE r.t \in Tasks /\ r.c = r.of.c /\ r.of.c \in 1..calls
    <2>1. r.t \in Tasks /\ job[r.t] # Idle /\ r.c = job[r.t].c /\ r.of = Of(job[r.t])
      BY <1>1 DEF CallsInv, Well
    <2> QED BY <1>2, <2>1 DEF Of
  <1> QED BY <1>1, <1>2, <1>3 DEF CallsInv, Types, TypeOK

\* Rows, calls and statements are what they should be in every state, and a call that
\* its caller still waits for has a statement in flight: no `await this.query(...)` of
\* mysql, postgres or sqlite (src/storage/*/src/index.ts) is left without one.
THEOREM TypeCorrect == Spec => []TypeOK
  BY Always, TypesFollow, PTL

\* Every answer of get, getMany, has and hasMany is what its key held during the call:
\* the select judges by the Date.now() of the call's start and then deletes what expired,
\* in SQLite chunk by chunk, while other calls write the same rows.
THEOREM ReadsStayCurrent == Spec => []ReadsCurrent
  <1>1. IInv => ReadsCurrent
    BY DEF IInv, Promises
  <1> QED BY <1>1, Always, PTL

\* set and setMany answer true for exactly the entries the server took, as long as no
\* statement failed, and delete and deleteMany for keys that were there and are gone:
\* the `true`s that chunks, affectedRows and RETURNING add up to say what happened.
THEOREM EffectsStayReported == Spec => []EffectsReported
  <1>1. IInv => EffectsReported
    BY DEF IInv, Promises
  <1> QED BY <1>1, Always, PTL

\* clear passes no key of its namespace, and the iterator yields no key twice, every key
\* with a value it held meanwhile, and every key that was there all the time, however
\* rows come, go and expire between its pages: each page is asked for after the last
\* key of the page before (`key > ? ORDER BY key LIMIT ?`), not by an offset.
THEOREM WalksStayExact == Spec => []WalksExact
  <1>1. IInv => WalksExact
    BY DEF IInv, Promises
  <1> QED BY <1>1, Always, PTL

\* The sweeps of reads, clearExpired, the timers and MySQL's event remove no row that
\* has not expired, but for those written while the call of the sweep was under way:
\* a sweep is a statement of its own, which deletes by key what the select found expired.
THEOREM SweepsStaySafe == Spec => SweepSafe
  <1>1. Init /\ [][Next]_vars => [][IInv /\ SweepSafeStep]_vars
    <2>1. IInv /\ [Next]_vars => [SweepSafeStep]_vars
      BY NextKeeps
    <2>2. Init => IInv
      BY Starting
    <2>3. IInv /\ [Next]_vars => IInv'
      BY NextKeeps
    <2>4. IInv /\ [Next]_vars => [IInv /\ SweepSafeStep]_vars
      BY <2>1
    <2> QED BY <2>2, <2>3, <2>4, PTL
  <1> QED BY <1>1, PTL DEF Spec, SweepSafe
=============================================================================
