---------------------------- MODULE StorageCalls ----------------------------
(***************************************************************************)
(* What the adapters of src/storage have in common: callers call an        *)
(* adapter, which sends commands to a server and goes on with each answer. *)
(* A command is served at one moment between request and answer.  What the *)
(* adapter does with an answer reads nothing another step changes (where   *)
(* it does, it is a command of its own), so serving a command and going on *)
(* with the answer are one step.                                           *)
(*                                                                         *)
(* A call may have several commands in flight, and may end before they do: *)
(* Promise.all rejects with the first, a timeout gives up waiting.  What   *)
(* is left in flight is still served.                                      *)
(***************************************************************************)
EXTENDS Integers, SequencesExt

CONSTANTS
    Adapters,    \* the adapters a run is about
    Namespaces,  \* namespaces of their keys
    Names,       \* the keys callers use, in the server's order
    Stored,      \* what key the adapter makes of each under a namespace
    None, Stale, \* no value; a row that has expired
    Lives,       \* the TTLs callers give each adapter, None for none
    Tasks,       \* concurrent callers
    Ops,         \* the operations each of them uses
    Batches,     \* the batches of keys they are called with; a single key is a batch of one
    Faults,      \* the server may reject a command
    MaxTime, MaxCalls    \* bounds of the model: of each adapter's clock, and of the calls

Keys  == {Names[i] : i \in DOMAIN Names}
Slots == Namespaces \X Keys
In(ns) == {s \in Slots : s[1] = ns}
Before(k, l) == \E i, m \in DOMAIN Names : i < m /\ Names[i] = k /\ Names[m] = l

\* A value tells the call and the entry that wrote it, or that it was there before.
Original == <<0, 0>>
Values   == (0..MaxCalls) \X ({0} \cup UNION {DOMAIN b : b \in Batches})
Row      == [val : Values, exp : Int \cup {None}]
Rows     == Row \cup {None}

SingleOps == {"get", "has", "set", "delete"}
ReadOps   == {"get", "getMany"}
HasOps    == {"has", "hasMany"}
WriteOps  == {"set", "setMany"}
DeleteOps == {"delete", "deleteMany"}
KeyOps    == ReadOps \cup HasOps \cup WriteOps \cup DeleteOps

ASSUME CallsAssumption ==
    /\ Names \in Seq(STRING) /\ (\A i, m \in DOMAIN Names : Names[i] = Names[m] => i = m)
    /\ Stored \in [Slots -> Keys]
    /\ None \notin Int \cup Keys \cup Values \cup Row /\ Stale \notin Values \cup {None}
    /\ Lives \in [Adapters -> SUBSET (Int \cup {None})]
    /\ Batches \subseteq Seq(Keys) /\ Faults \in BOOLEAN
    /\ MaxTime \in [Adapters -> Nat] /\ MaxCalls \in Nat

VARIABLES
    adapter,    \* the adapter this behaviour is about
    now,        \* Date.now(), and the server's clock
    db,         \* the row of each key in each namespace, or None
    aux,        \* what else the adapter or its server keeps; aux.open: not disconnected
    calls,      \* how many calls were made
    job,        \* each caller's call, or Idle
    flight,     \* the commands in flight
    reply,      \* the call that ended in the last step, or Idle
    seen,       \* history: what each key held so far in a caller's call
    dirty       \* history: the keys written so far in each call

vars == <<adapter, now, db, aux, calls, job, flight, reply, seen, dirty>>

Idle == [op |-> "none"]

---------------------------------------------------------------------------
(* Rows, and what has been seen of them *)

Expired(row, n) == row # None /\ row.exp # None /\ row.exp <= n
Visible(row, n) == row # None /\ ~Expired(row, n)

\* What a row looks like to a call that started at `at`, judging it by the clock
\* at some moment of the call.
Looks(row, at, n) ==
    (IF Visible(row, at) THEN {row.val} ELSE {})
        \cup (IF Visible(row, n) THEN {} ELSE {None})
        \cup (IF Expired(row, n) THEN {Stale} ELSE {})

Nothing == [s \in Slots |-> {}]
More(f, S, d, at, n) == [s \in Slots |-> IF s \in S THEN f[s] \cup Looks(d[s], at, n) ELSE f[s]]

\* The keys whose history says whether a call answered right: none for a write,
\* which is told by what it put.  The calls that delete what they find expired.
Concerns(j) ==
    CASE j.op \in WriteOps -> {}
      [] j.op \in KeyOps \ WriteOps -> {<<j.ns, j.keys[i]>> : i \in DOMAIN j.keys}
      [] OTHER -> Slots
Sweeps(j) == j.op \notin WriteOps \cup DeleteOps \cup {"clear"}

\* The history of a call starts with it, and ends with it or with its last command.
Witness ==
    /\ seen' = [t \in Tasks |->
                   IF job'[t] = Idle THEN Nothing
                   ELSE More(IF job[t] = Idle THEN Nothing ELSE seen[t], Concerns(job'[t]), db', job'[t].at, now')]
    /\ LET going == {r.of : r \in flight'} \cup {job'[t] : t \in {u \in Tasks : job'[u] # Idle}}
       IN  dirty' = [c \in 1..MaxCalls |->
                        IF \E j \in going : j.c = c /\ Sweeps(j)
                        THEN dirty[c] \cup {s \in Slots : db'[s] \notin {None, db[s]}} ELSE {}]

Put(rows, s, v, e) == [rows EXCEPT ![s] = [val |-> v, exp |-> e]]
Drop(rows, S) == [s \in Slots |-> IF s \in S THEN None ELSE rows[s]]

CallsInit ==
    /\ adapter \in Adapters /\ now = 0 /\ calls = 0
    /\ job = [t \in Tasks |-> Idle] /\ flight = {} /\ reply = Idle
    /\ seen = [t \in Tasks |-> Nothing] /\ dirty = [c \in 1..MaxCalls |-> {}]

---------------------------------------------------------------------------
(* Calls *)

\* live: the TTL of the entries of a write; over: what a clear is to empty.
NewJob(op, ns, ks, live) ==
    [op |-> op, c |-> calls + 1, ns |-> ns, keys |-> [i \in DOMAIN ks |-> Stored[<<ns, ks[i]>>]],
     live |-> live, at |-> now, i |-> 1, last |-> None, out |-> <<>>, put |-> {}, failed |-> FALSE, unsure |-> {},
     over |-> In(ns), res |-> [i \in DOMAIN ks |-> IF op \in ReadOps THEN None ELSE FALSE]]

\* What a caller may be given to call.
NewCall(t, start(_, _)) ==
    \E op \in Ops[t], ns \in Namespaces, ks \in Batches :
        /\ (op \in SingleOps <=> Len(ks) = 1) /\ (op \notin KeyOps => ks = <<>>)
        /\ \E live \in IF op \in WriteOps THEN Lives[adapter] ELSE {None} : start(t, NewJob(op, ns, ks, live))

Slot(j, i)  == <<j.ns, j.keys[i]>>
SlotsAt(j, I) == {Slot(j, i) : i \in I}
All(j)      == DOMAIN j.keys

\* A command of a call: what it does, at which entries of the batch, and with
\* what it found before.  It is served as the call was made, even after its end.
\* sent: the adapter had not been disconnected by then.
Command(t, j, do, I, with) ==
    [t |-> t, c |-> j.c, do |-> do, at |-> I, with |-> with, sent |-> aux.open,
     of |-> [c |-> j.c, op |-> j.op, ns |-> j.ns, keys |-> j.keys, live |-> j.live, at |-> j.at]]
Mine(F, t, c) == {r \in F : r.t = t /\ r.c = c}

\* The call is still waited for.
Live(r) == job[r.t] # Idle /\ job[r.t].c = r.c

\* A call is made: the adapter keeps a, and sends F or ends at once.
EnterWith(t, j, F, a) ==
    /\ job[t] = Idle /\ calls < MaxCalls
    /\ calls' = calls + 1
    /\ flight' = flight \cup F
    /\ aux' = a
    /\ IF F = {} THEN reply' = [job |-> j, seen |-> More(Nothing, Concerns(j), db, now, now)] /\ UNCHANGED job
       ELSE reply' = Idle /\ job' = [job EXCEPT ![t] = j]
    /\ UNCHANGED <<adapter, now, db>>
    /\ Witness
Enter(t, j, F) == EnterWith(t, j, F, aux)

\* The entries of a write the server has taken when command r left the rows d.
Taken(r, d) ==
    IF r.of.op \notin WriteOps THEN {}
    ELSE {i \in r.at : LET s == Slot(r.of, i)
                       IN  d[s] # None /\ \E k \in r.at : Slot(r.of, k) = s /\ d[s].val = <<r.c, k>>}

\* Command r is served: the rows become d and the rest a; the call, whose
\* variables become j, sends F, and ends if it is over.
Step(r, d, a, F, j, over) ==
    /\ db' = d /\ aux' = a
    /\ flight' = (flight \ {r}) \cup F
    /\ IF ~Live(r) THEN reply' = Idle /\ UNCHANGED job
       ELSE LET k == [j EXCEPT !.put = @ \cup Taken(r, d)]
            IN  IF over THEN /\ reply' = [job |-> k, seen |-> More(seen[r.t], Concerns(j), d, j.at, now)]
                             /\ job' = [job EXCEPT ![r.t] = Idle]
                ELSE reply' = Idle /\ job' = [job EXCEPT ![r.t] = k]
    /\ UNCHANGED <<adapter, now, calls>>
    /\ Witness

\* A call is over when nothing of it is in flight; or earlier, with an answer
\* that does not wait for the rest.
Serve(r, d, a, F, j) == Step(r, d, a, F, j, Mine((flight \ {r}) \cup F, r.t, r.c) = {})
Finish(r, d, a, j)   == Step(r, d, a, {}, j, TRUE)

\* The call rejects, or gives up waiting: its caller goes on, and what it has in
\* flight besides r is still served.
RejectWith(r, d, a) ==
    /\ db' = d /\ aux' = a
    /\ flight' = flight \ {r}
    /\ job' = IF Live(r) THEN [job EXCEPT ![r.t] = Idle] ELSE job
    /\ reply' = Idle
    /\ UNCHANGED <<adapter, now, calls>>
    /\ Witness
Reject(r, d) == RejectWith(r, d, aux)

GiveUp(t) ==
    /\ job[t] # Idle
    /\ job' = [job EXCEPT ![t] = Idle]
    /\ reply' = Idle
    /\ UNCHANGED <<adapter, now, db, aux, calls, flight>>
    /\ Witness

\* A step nobody called for: the rows become d and the rest a.
Happen(d, a) ==
    /\ db' = d /\ aux' = a
    /\ reply' = Idle
    /\ UNCHANGED <<adapter, now, calls, job, flight>>
    /\ Witness

Tick ==
    /\ now < MaxTime[adapter]
    /\ now' = now + 1
    /\ reply' = Idle
    /\ UNCHANGED <<adapter, db, aux, calls, job, flight>>
    /\ Witness

---------------------------------------------------------------------------
(* Batches and their answers *)

\* The entries of a batch, written in order: the later of two with one key stays.
Write(d, j, I, exp) ==
    [s \in Slots |->
        LET W == {i \in I : Slot(j, i) = s}
        IN  IF W = {} THEN d[s]
            ELSE [val |-> <<j.c, CHOOSE i \in W : \A m \in W : m <= i>>, exp |-> exp]]

\* A row read for entry i of a read or has, as answer.
Answer(op, row, expired) ==
    IF op \in ReadOps THEN (IF row = None \/ expired THEN None ELSE row.val)
    ELSE row # None /\ ~expired

\* The answers of the call after the entries I were answered by f.
Answered(j, I, f(_)) == [j EXCEPT !.res = [i \in DOMAIN j.res |-> IF i \in I THEN f(i) ELSE j.res[i]]]
Failed(j) == [j EXCEPT !.failed = TRUE]
\* The commands of the entries I failed, and the call goes on without them.
Unsure(j, I) == [j EXCEPT !.unsure = @ \cup I]

\* What is in flight for entries whose call no longer waits for it.
Late(F) == {[r EXCEPT !.c = 0] : r \in F}

---------------------------------------------------------------------------
(* What every adapter promises *)

TypeOK ==
    /\ adapter \in Adapters /\ now \in 0..MaxTime[adapter] /\ calls \in 0..MaxCalls
    /\ db \in [Slots -> Rows]
    /\ \A t \in Tasks : job[t] # Idle => job[t].op \in Ops[t] /\ job[t].c \in 1..calls
    /\ \A r \in flight : r.t \in Tasks /\ r.c \in {0, r.of.c} /\ r.of.c \in 1..calls
    /\ \A t \in Tasks : job[t] # Idle => Mine(flight, t, job[t].c) # {}

Ended(ops) == reply # Idle /\ reply.job.op \in ops /\ ~reply.job.failed
Held(i)    == reply.seen[Slot(reply.job, i)]
Sure       == All(reply.job) \ reply.job.unsure

\* Every answer of get, getMany, has and hasMany is what its key held at some
\* moment of the call, at the position of the key; but for keys whose command failed.
ReadsCurrent ==
    /\ Ended(ReadOps) => \A i \in Sure : reply.job.res[i] \in Held(i)
    /\ Ended(HasOps) => \A i \in Sure :
                           IF reply.job.res[i] THEN Held(i) \ {None, Stale} # {} ELSE None \in Held(i)

\* set and setMany answer true for no entry the server did not take; and for
\* every entry it took, unless a command of the call failed.
TruesWritten ==
    reply # Idle /\ reply.job.op \in WriteOps =>
        \A i \in All(reply.job) : reply.job.res[i] => i \in reply.job.put
WritesReported ==
    /\ TruesWritten
    /\ Ended(WriteOps) => \A i \in reply.job.put \cap Sure : reply.job.res[i]

\* When delete and deleteMany end, each key was gone at some moment of the call,
\* and where the answer is true it was there at another.
DeletesReported ==
    Ended(DeleteOps) => \A i \in Sure :
        None \in Held(i) /\ (reply.job.res[i] => Held(i) # {None})

\* What a call answers of its writes and deletions is what became of them, although
\* commands fail, come late or are cut into chunks.
EffectsReported == WritesReported /\ DeletesReported

\* When clear ends every key it is to clear was gone at some moment of the call.
ClearComplete == Ended({"clear"}) => \A s \in reply.job.over : None \in reply.seen[s]

\* The iterator yields no key twice.
IterationOnce ==
    Ended({"iterator"}) =>
        \A i, m \in DOMAIN reply.job.out : reply.job.out[i].key = reply.job.out[m].key => i = m

\* The iterator yields each key with a value it held meanwhile, and every key that
\* was there all the time.
IterationComplete ==
    Ended({"iterator"}) =>
        LET out == reply.job.out
        IN  /\ \A i \in DOMAIN out : out[i].val \in reply.seen[<<reply.job.ns, out[i].key>>]
            /\ \A s \in In(reply.job.ns) :
                  None \notin reply.seen[s] => \E i \in DOMAIN out : out[i].key = s[2]

\* Going through a namespace, to clear or to iterate, passes nothing that is there
\* all the time.
WalksComplete == ClearComplete /\ IterationComplete

\* A row that has not expired goes only when a call deletes its key or clears
\* its namespace, by the sweep of a call during which it was written, or with the
\* lease that disconnect revokes.
Lost(s) == Visible(db[s], now') /\ db'[s] = None
SweepSafeStep ==
    \A s \in Slots : Lost(s) =>
        \E r \in flight \ flight' :
            \/ r.do = "delete" /\ s \in SlotsAt(r.of, r.at)
            \/ r.do = "clear" /\ s \in In(r.of.ns)
            \/ r.do = "revoke"
            \/ r.do \in {"sweep", "drop"} /\ s \in dirty[r.of.c]
SweepSafe == [][SweepSafeStep]_vars
=============================================================================
