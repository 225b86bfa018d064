---------------------------- MODULE BridgeAdapter ----------------------------
(***************************************************************************)
(* StorelyBridgeAdapter (core/storely/src/adapters/bridge.ts): adapters    *)
(* over promise-based stores.  Each method asks the wrapped store, awaits  *)
(* the answer and goes on; a batch is one native call if the store had the *)
(* method when the adapter was built, and key by key otherwise.            *)
(*                                                                         *)
(* A call of the store is a request, which the store serves at one moment  *)
(* between call and answer; an action of the adapter is the code from one  *)
(* answer to the next request.  this._namespace and this._store are read   *)
(* whenever a request is made, so a setter takes effect within a call.     *)
(***************************************************************************)
EXTENDS KeyPrefix, Integers, FiniteSets

CONSTANTS
    Namespaces,  \* namespaces the adapters may be given
    Keys,        \* keys the callers use
    Values, None,
    Lives,       \* how long written data lives: None, or until now + l
    Adapters,    \* the bridge adapters
    Stores,      \* the wrapped stores
    Initially,   \* what a store may hold when the adapters are built
    Methods,     \* the optional methods each store has
    Tasks,       \* concurrent callers
    Ops,         \* the operations each caller uses
    Faults,      \* a store may reject
    Refusals,    \* a store may answer false to a write
    Setters,     \* the namespace and store setters are used
    MaxBatch, MaxTime, MaxCalls    \* bounds of the model

Optional == {"getMany", "setMany", "has", "hasMany", "deleteMany", "iterator"}
ReadOps   == {"get", "getMany"}
HasOps    == {"has", "hasMany"}
WriteOps  == {"set", "setMany"}
DeleteOps == {"delete", "deleteMany"}
SingleOps == {"get", "has", "set", "delete"}
KeyOps    == ReadOps \cup HasOps \cup WriteOps \cup DeleteOps
WalkOps   == {"clear", "iterator"}

FullKeys == {GetKeyPrefix(k, ns) : k \in Keys, ns \in Namespaces}

\* Stored data; exp is its `expires`, absent also if the data is an encoded string.
Data == [val : Values, exp : Nat \cup {None}]
Rows == Data \cup {None}

ASSUME BridgeAssumption ==
    /\ Namespaces \subseteq Seq(STRING) /\ Keys \subseteq Seq(STRING) /\ Separator \in STRING
    /\ Adapters # {} /\ None \notin Int /\ None \notin Data
    /\ Lives \subseteq Nat \cup {None} /\ Initially \subseteq [FullKeys -> Rows]
    /\ Methods \in [Stores -> SUBSET Optional] /\ Ops \in [Tasks -> SUBSET (KeyOps \cup WalkOps)]
    /\ {Faults, Refusals, Setters} \subseteq BOOLEAN
    /\ {MaxBatch, MaxTime, MaxCalls} \subseteq Nat

VARIABLES
    now,        \* Date.now()
    data,       \* what each store holds under each full key, or None
    namespace,  \* _namespace of each adapter
    store,      \* _store of each adapter
    native,     \* _capabilities: the optional methods each adapter detected
    calls,      \* how many calls were made
    pc,         \* "idle", "asked", "served", "resolved" or "rejected"
    req,        \* each caller's last request: store, method, keys and data
    ans,        \* the store's answer to it
    job,        \* the call's local variables
    walk,       \* the iterator of a store the call has open: what it has
                \* still to yield and what it has yielded
    raced,      \* history: keys written, or whose store was replaced, since
                \* the caller last read them
    told        \* history: what the stores told the call, in order

vars  == <<now, data, namespace, store, native, calls, pc, req, ans, job, walk, raced, told>>
fixed == <<now, namespace, store, native, calls>>

---------------------------------------------------------------------------
(* Requests *)

Expired(row) == row # None /\ row.exp # None /\ now > row.exp

Full(a, k) == GetKeyPrefix(k, namespace[a])

Set(f, t, x) == [f EXCEPT ![t] = x]

Ask(t, s, m, ks, vs) ==
    /\ pc' = Set(pc, t, "asked")
    /\ req' = Set(req, t, [s |-> s, m |-> m, keys |-> ks, vals |-> vs])

Finish(t, outcome) == pc' = Set(pc, t, outcome) /\ UNCHANGED req

\* The batch methods with a native counterpart, and the method that is asked
\* for one key otherwise.
Native(a, op) == op \in native[a] \ SingleOps
OneByOne(a, op) ==
    IF op \in ReadOps \/ (op \in HasOps /\ "has" \notin native[a]) THEN "get"
    ELSE IF op \in HasOps THEN "has" ELSE IF op \in WriteOps THEN "set" ELSE "delete"

\* Ask for the keys first..last of a call, prefixed with the namespace of this moment.
AskKeys(t, j, m, first, last) ==
    LET at(i) == first + i - 1
        n     == last - first + 1
    IN  Ask(t, store[j.a], m, [i \in 1..n |-> Full(j.a, j.keys[at(i)])],
            IF j.op \in WriteOps THEN [i \in 1..n |-> j.vals[at(i)]] ELSE <<>>)

\* The next request of a call that has the answers res.
Proceed(t, j, res) ==
    IF Native(j.a, j.op) \/ Len(res) = Len(j.keys) THEN Finish(t, "resolved")
    ELSE AskKeys(t, j, OneByOne(j.a, j.op), Len(res) + 1, Len(res) + 1)

---------------------------------------------------------------------------
(* Entering a call *)

Lists(S, op) == UNION {[1..n -> S] : n \in IF op \in SingleOps THEN {1} ELSE 0..MaxBatch}

NewJob(op, a, ks, vs) ==
    [op |-> op, a |-> a, keys |-> ks, vals |-> vs, ns |-> namespace[a],
     stage |-> "run", res |-> <<>>, rows |-> <<>>, full |-> <<>>]

Enter(t, j) ==
    /\ pc[t] \in {"idle", "resolved", "rejected"} /\ calls < MaxCalls
    /\ calls' = calls + 1
    /\ job' = Set(job, t, j)
    /\ raced' = Set(raced, t, {})
    /\ told' = Set(told, t, <<>>)
    /\ UNCHANGED <<now, data, namespace, store, native, ans>>

\* The data of n entries a caller writes.
NewData(n) ==
    {[i \in 1..n |-> [val |-> vs[i], exp |-> IF ls[i] = None THEN None ELSE now + ls[i]]] :
        vs \in [1..n -> Values], ls \in [1..n -> Lives]}

\* get, getMany, has, hasMany, set, setMany, delete, deleteMany
CallKeys(t, a) ==
    \E op \in Ops[t] \cap KeyOps : \E ks \in Lists(Keys, op) :
        \E vs \in IF op \in WriteOps THEN NewData(Len(ks)) ELSE {<<>>} :
            LET j == NewJob(op, a, ks, vs)
            IN  /\ Enter(t, j)
                /\ IF Native(a, op) THEN AskKeys(t, j, op, 1, Len(ks)) ELSE Proceed(t, j, <<>>)
                /\ UNCHANGED walk

\* clear and iterator walk over the store; without a namespace, or without an
\* iterator to walk with, clear empties the store.
CallWalk(t, a) ==
    \E op \in Ops[t] \cap WalkOps :
        LET j == NewJob(op, a, <<>>, <<>>)
        IN  /\ Enter(t, j)
            /\ \/ /\ op = "clear" /\ (j.ns = <<>> \/ "iterator" \notin native[a])
                  /\ Ask(t, store[a], "clear", <<>>, <<>>) /\ UNCHANGED walk
               \/ /\ op = "iterator" /\ "iterator" \notin native[a]
                  /\ Finish(t, "resolved") /\ UNCHANGED walk
               \/ /\ "iterator" \in native[a] /\ (op = "iterator" \/ j.ns # <<>>)
                  /\ Ask(t, store[a], "iterator", <<>>, <<>>)
                  /\ walk' = Set(walk, t, [s |-> store[a], done |-> {},
                                           due |-> {k \in FullKeys : data[store[a]][k] # None}])

---------------------------------------------------------------------------
(* The wrapped store: it serves a request at some moment, and answers [is, v] *)

Serving(t, ms) == pc[t] = "asked" /\ req[t].m \in ms
                  /\ (req[t].m \in Methods[req[t].s] \/ req[t].m \notin Optional)
At(t, i)    == data[req[t].s][req[t].keys[i]]
AllRows(t)  == [i \in DOMAIN req[t].keys |-> At(t, i)]
AllThere(t) == [i \in DOMAIN req[t].keys |-> At(t, i) # None]

\* The store that serves the request is still the adapter's.
Current(t) == req[t].s = store[job[t].a]

Reply(t, is, v) ==
    /\ pc' = Set(pc, t, "served")
    /\ ans' = Set(ans, t, [is |-> is, v |-> v])
    /\ UNCHANGED <<fixed, req, job>>

Tell(t, xs) == told' = [told EXCEPT ![t] = @ \o xs]
Seen(t) == [i \in DOMAIN req[t].keys |->
               [key |-> req[t].keys[i], row |-> At(t, i), over |-> Expired(At(t, i))]]

\* this._store.method?.(...) of a method the store does not have: undefined
ServeMissing(t) ==
    /\ pc[t] = "asked" /\ req[t].m \in Optional \ Methods[req[t].s]
    /\ Reply(t, "undefined", None)
    /\ Tell(t, <<None>>)
    /\ UNCHANGED <<data, walk, raced>>

\* A store rejects before or (ServeWrite, ServeDelete) after it did its work.
RejectsAfter(t) == Faults /\ Reply(t, "rejected", None)

ServeReject(t) ==
    /\ pc[t] = "asked" /\ Faults
    /\ Reply(t, "rejected", None)
    /\ UNCHANGED <<data, walk, raced, told>>

ServeRead(t) ==
    /\ Serving(t, {"get", "getMany"})
    /\ Reply(t, "rows", AllRows(t))
    /\ Tell(t, Seen(t))
    /\ raced' = Set(raced, t, IF Current(t) THEN {} ELSE FullKeys)
    /\ UNCHANGED <<data, walk>>

ServeHas(t) ==
    /\ Serving(t, {"has", "hasMany"})
    /\ Reply(t, "booleans", AllThere(t))
    /\ Tell(t, Seen(t))
    /\ UNCHANGED <<data, walk, raced>>

\* A write is answered one boolean per entry; what is refused is not stored.
Written(t, W) ==
    LET ks == req[t].keys
    IN  [k \in FullKeys |->
            LET J == {i \in W : ks[i] = k}
            IN  IF J = {} THEN data[req[t].s][k]
                ELSE req[t].vals[CHOOSE i \in J : \A m \in J : m <= i]]

ServeWrite(t) ==
    /\ Serving(t, {"set", "setMany"})
    /\ \E oks \in [DOMAIN req[t].keys -> BOOLEAN] :
          LET W == {i \in DOMAIN oks : oks[i]}
          IN  /\ Refusals \/ W = DOMAIN oks
              /\ data' = Set(data, req[t].s, Written(t, W))
              /\ raced' = [u \in Tasks |-> raced[u] \cup {req[t].keys[i] : i \in W}]
              /\ Tell(t, oks)
              /\ Reply(t, "booleans", oks) \/ RejectsAfter(t)
    /\ UNCHANGED walk

Remove(s, K) ==
    /\ data' = [data EXCEPT ![s] = [k \in FullKeys |-> IF k \in K THEN None ELSE @[k]]]
    /\ walk' = [u \in Tasks |-> IF walk[u].s = s THEN [walk[u] EXCEPT !.due = @ \ K] ELSE walk[u]]

\* A deleteMany answers one boolean per key, or one for all.
ServeDelete(t) ==
    /\ Serving(t, {"delete", "deleteMany"})
    /\ Remove(req[t].s, {req[t].keys[i] : i \in DOMAIN req[t].keys})
    /\ \/ Reply(t, "booleans", AllThere(t))
       \/ req[t].m = "deleteMany" /\ Reply(t, "boolean", TRUE)
       \/ RejectsAfter(t)
    /\ UNCHANGED <<raced, told>>

ServeClear(t) ==
    /\ Serving(t, {"clear"})
    /\ Remove(req[t].s, FullKeys)
    /\ Reply(t, "done", None)
    /\ UNCHANGED <<raced, told>>

\* The store's iterator yields no key twice and every key that was there at the
\* start and stayed; it may yield keys that came later.
ServeNext(t) ==
    /\ Serving(t, {"iterator"})
    /\ \/ /\ walk[t].due = {}
          /\ Reply(t, "done", None)
          /\ UNCHANGED <<walk, raced>>
       \/ \E k \in FullKeys \ walk[t].done :
             /\ data[req[t].s][k] # None
             /\ Reply(t, "entry", [key |-> k, row |-> data[req[t].s][k]])
             /\ walk' = [walk EXCEPT ![t].due = @ \ {k}, ![t].done = @ \cup {k}]
             /\ raced' = [raced EXCEPT ![t] = IF Current(t) THEN @ \ {k} ELSE @]
    /\ UNCHANGED <<data, told>>

---------------------------------------------------------------------------
(* Going on with an answer *)

Resume(t, is) ==
    /\ pc[t] = "served" /\ ans[t].is \in is
    /\ UNCHANGED <<fixed, data, ans, walk, raced, told>>

\* Only the key-by-key deleteMany catches a rejection, and answers false for the key.
Catches(t) == job[t].op = "deleteMany" /\ ~Native(job[t].a, "deleteMany")

Rejected(t) ==
    /\ Resume(t, {"rejected"}) /\ ~Catches(t)
    /\ Finish(t, "rejected")
    /\ UNCHANGED job

Answered(t, res) ==
    /\ job' = [job EXCEPT ![t].res = res]
    /\ Proceed(t, job[t], res)

\* Mutant of DeleteCaught: the rejection is logged and the key tried again.
DeleteRetried(t) ==
    /\ Resume(t, {"rejected"}) /\ Catches(t)
    /\ Answered(t, job[t].res)

DeleteCaught(t) ==
    /\ Resume(t, {"rejected"}) /\ Catches(t)
    /\ Answered(t, Append(job[t].res, FALSE))

\* Mutant of Shape: has answers undefined, not false, where there is no row.
ShapeRaw(op, rows) ==
    IF op \in HasOps THEN [i \in DOMAIN rows |-> IF rows[i] = None THEN None ELSE TRUE] ELSE rows

\* What the call answers for the rows: has looks whether there is one.
Shape(op, rows) == IF op \in HasOps THEN [i \in DOMAIN rows |-> rows[i] # None] ELSE rows

\* Mutant of Left: nothing is pushed for an expired row.
LeftOut(rows, e) == SubSeq(rows, e + 1, Len(rows))

\* What is left of the rows once row e was found expired: undefined is pushed for it.
Left(rows, e) == <<None>> \o SubSeq(rows, e + 1, Len(rows))

\* Mutant of SweepKey: the key is prefixed again, for the position reached.
SweepKeyAgain(t, k) == Full(job[t].a, job[t].keys[Len(job[t].res) + 1])

\* The key an expired row is deleted under: the one it was read under.
SweepKey(t, k) == k

\* Hand on rows up to the first expired one, whose key is deleted before the
\* loop goes on with the rows and keys that are left.
Judge(t, rows, full) ==
    LET j   == job[t]
        bad == {i \in DOMAIN rows : Expired(rows[i])}
        e   == CHOOSE i \in bad : \A m \in bad : i <= m
    IN  \/ /\ bad = {}
           /\ job' = [job EXCEPT ![t].res = @ \o Shape(j.op, rows), ![t].stage = "run"]
           /\ Proceed(t, j, j.res \o Shape(j.op, rows))
        \/ /\ bad # {}
           /\ job' = [job EXCEPT ![t].res = @ \o Shape(j.op, SubSeq(rows, 1, e - 1)),
                                 ![t].rows = Left(rows, e),
                                 ![t].full = SubSeq(full, e, Len(full)),
                                 ![t].stage = "sweep"]
           /\ Ask(t, store[j.a], "delete", <<SweepKey(t, full[e])>>, <<>>)

GotRows(t)  == Resume(t, {"rows"}) /\ Judge(t, ans[t].v, req[t].keys)
Swept(t)    == /\ job[t].stage = "sweep" /\ job[t].op # "iterator"
               /\ Resume(t, {"booleans"}) /\ Judge(t, job[t].rows, job[t].full)

\* Mutant of Booleans: setMany is all true whatever the store answered.
BooleansTrue(t) == IF job[t].op = "setMany" THEN [i \in DOMAIN job[t].keys |-> TRUE] ELSE ans[t].v

\* The answers of has, hasMany, set, setMany, delete and deleteMany.  The
\* key-by-key setMany does not look at what set answered; a single answer to
\* a deleteMany stands for every key.
Booleans(t) ==
    IF job[t].op = "setMany" /\ ~Native(job[t].a, "setMany") THEN <<TRUE>>
    ELSE IF ans[t].is = "boolean" THEN [i \in DOMAIN job[t].keys |-> ans[t].v]
    ELSE ans[t].v

GotBooleans(t) ==
    /\ Resume(t, {"booleans", "boolean"})
    /\ job[t].stage = "run" /\ job[t].op \notin WalkOps
    /\ Answered(t, job[t].res \o Booleans(t))

\* `undefined` from a method that was detected and is no longer there.
Default(t) == IF req[t].m = "setMany" THEN [i \in DOMAIN job[t].keys |-> TRUE]
              ELSE IF req[t].m = "has" THEN <<FALSE>> ELSE <<>>

GotUndefined(t) ==
    /\ Resume(t, {"undefined"}) /\ job[t].op \notin WalkOps
    /\ Answered(t, job[t].res \o Default(t))

---------------------------------------------------------------------------
(* clear and iterator *)

WalkOn(t) == Ask(t, walk[t].s, "iterator", <<>>, <<>>)

IteratorEntry(t) ==
    LET e == ans[t].v
    IN  /\ job[t].op = "iterator" /\ Resume(t, {"entry"})
        /\ \/ ~InNamespace(e.key, job[t].ns) /\ WalkOn(t) /\ UNCHANGED job
           \/ /\ InNamespace(e.key, job[t].ns) /\ Expired(e.row)
              /\ job' = [job EXCEPT ![t].stage = "sweep"]
              /\ Ask(t, store[job[t].a], "delete", <<e.key>>, <<>>)
           \/ /\ InNamespace(e.key, job[t].ns) /\ ~Expired(e.row)
              /\ job' = [job EXCEPT ![t].res = Append(@, [key |-> StripPrefix(e.key, job[t].ns),
                                                         row |-> e.row])]
              /\ WalkOn(t)

IteratorSwept(t) ==
    /\ job[t].op = "iterator" /\ job[t].stage = "sweep" /\ Resume(t, {"booleans"})
    /\ job' = [job EXCEPT ![t].stage = "run"]
    /\ WalkOn(t)

IteratorEnd(t) ==
    /\ job[t].op = "iterator" /\ Resume(t, {"done", "undefined"})
    /\ Finish(t, "resolved") /\ UNCHANGED job

\* Mutants of ClearEntry: the keys of other namespaces are collected too;
\* the expired ones are not.
ClearEntryAny(t) ==
    /\ job[t].op = "clear" /\ Resume(t, {"entry"})
    /\ job' = [job EXCEPT ![t].full = Append(@, ans[t].v.key)]
    /\ WalkOn(t)
ClearEntryLive(t) ==
    /\ job[t].op = "clear" /\ Resume(t, {"entry"})
    /\ job' = IF InNamespace(ans[t].v.key, job[t].ns) /\ ~Expired(ans[t].v.row)
              THEN [job EXCEPT ![t].full = Append(@, ans[t].v.key)] ELSE job
    /\ WalkOn(t)

\* clear collects the keys of the namespace first, expired or not.
ClearEntry(t) ==
    /\ job[t].op = "clear" /\ Resume(t, {"entry"})
    /\ job' = IF InNamespace(ans[t].v.key, job[t].ns)
              THEN [job EXCEPT ![t].full = Append(@, ans[t].v.key)] ELSE job
    /\ WalkOn(t)

\* Then it deletes them one by one.
DeleteFirst(t, ks) ==
    IF ks = <<>> THEN Finish(t, "resolved")
    ELSE Ask(t, store[job[t].a], "delete", <<Head(ks)>>, <<>>)

ClearCollected(t) ==
    /\ job[t].op = "clear" /\ Resume(t, {"done", "undefined"})
    /\ DeleteFirst(t, job[t].full) /\ UNCHANGED job

ClearDeleted(t) ==
    /\ job[t].op = "clear" /\ Resume(t, {"booleans"})
    /\ job' = [job EXCEPT ![t].full = Tail(@)]
    /\ DeleteFirst(t, Tail(job[t].full))

---------------------------------------------------------------------------
(* Setters and time *)

\* A setter counts as a call.
Configure == Setters /\ calls < MaxCalls /\ calls' = calls + 1

\* Storely sets the namespace of its store when either of them is set.
SetNamespace(a, ns) ==
    /\ Configure /\ namespace' = Set(namespace, a, ns)
    /\ UNCHANGED <<now, data, store, native, pc, req, ans, job, walk, raced, told>>

\* The store is replaced; the capabilities stay those of the first one.
SetStore(a, s) ==
    /\ Configure /\ store' = Set(store, a, s)
    /\ raced' = [t \in Tasks |-> IF job[t].a = a THEN FullKeys ELSE raced[t]]
    /\ UNCHANGED <<now, data, namespace, native, pc, req, ans, job, walk, told>>

Tick == now < MaxTime /\ now' = now + 1
        /\ UNCHANGED <<data, namespace, store, native, calls, pc, req, ans, job, walk, raced, told>>

---------------------------------------------------------------------------
Serve(t) == \/ ServeMissing(t) \/ ServeReject(t) \/ ServeRead(t) \/ ServeHas(t)
            \/ ServeWrite(t) \/ ServeDelete(t) \/ ServeClear(t) \/ ServeNext(t)

GoOn(t) == \/ Rejected(t) \/ DeleteCaught(t) \/ GotRows(t) \/ Swept(t)
           \/ GotBooleans(t) \/ GotUndefined(t)
           \/ IteratorEntry(t) \/ IteratorSwept(t) \/ IteratorEnd(t)
           \/ ClearEntry(t) \/ ClearCollected(t) \/ ClearDeleted(t)

Some(S) == CHOOSE x \in S : TRUE

Init ==
    /\ now = 0 /\ calls = 0
    /\ data \in [Stores -> Initially]
    /\ namespace \in [Adapters -> Namespaces] /\ store \in [Adapters -> Stores]
    /\ native = [a \in Adapters |-> Methods[store[a]]]
    /\ pc = [t \in Tasks |-> "idle"]
    /\ req = [t \in Tasks |-> [s |-> Some(Stores), m |-> "clear", keys |-> <<>>, vals |-> <<>>]]
    /\ ans = [t \in Tasks |-> [is |-> "done", v |-> None]]
    /\ job = [t \in Tasks |-> NewJob("clear", Some(Adapters), <<>>, <<>>)]
    /\ walk = [t \in Tasks |-> [s |-> Some(Stores), due |-> {}, done |-> {}]]
    /\ raced = [t \in Tasks |-> {}] /\ told = [t \in Tasks |-> <<>>]

Next ==
    \/ \E t \in Tasks : \/ \E a \in Adapters : CallKeys(t, a) \/ CallWalk(t, a)
                        \/ Serve(t) \/ GoOn(t)
    \/ \E a \in Adapters : \/ \E ns \in Namespaces : SetNamespace(a, ns)
                           \/ \E s \in Stores : SetStore(a, s)
    \/ Tick

Spec == Init /\ [][Next]_vars

\* Every await of a call is resumed: the store answers, and the code goes on.
FairSpec == Spec /\ \A t \in Tasks : WF_vars(Serve(t) \/ GoOn(t))

---------------------------------------------------------------------------
(* Properties *)

Request == [s : Stores, m : SingleOps \cup Optional \cup {"clear"},
            keys : Seq(Seq(STRING)), vals : Seq(Data)]
Job     == [op : KeyOps \cup WalkOps, a : Adapters, keys : Seq(Keys), vals : Seq(Data),
            ns : Namespaces, stage : {"run", "sweep"}, rows : Seq(Rows), full : Seq(Seq(STRING))]
Locals(j) == [op |-> j.op, a |-> j.a, keys |-> j.keys, vals |-> j.vals,
              ns |-> j.ns, stage |-> j.stage, rows |-> j.rows, full |-> j.full]
Results(op) == IF op \in ReadOps THEN Seq(Rows) ELSE IF op \in KeyOps THEN Seq(BOOLEAN)
               ELSE Seq([key : Seq(STRING), row : Data])

\* Every variable stays in its type; in particular what a call has answered so
\* far is data for get, getMany, booleans for the other operations on keys,
\* and entries for iterator, and a batch never answers more than it was asked.
TypeOK ==
    /\ now \in Nat /\ calls \in Nat
    /\ data \in [Stores -> [FullKeys -> Rows]]
    /\ namespace \in [Adapters -> Namespaces] /\ store \in [Adapters -> Stores]
    /\ native \in [Adapters -> SUBSET Optional]
    /\ pc \in [Tasks -> {"idle", "asked", "served", "resolved", "rejected"}]
    /\ req \in [Tasks -> Request]
    /\ \A t \in Tasks : /\ Locals(job[t]) \in Job
                        /\ job[t].res \in Results(job[t].op)
                        /\ job[t].op \in KeyOps => Len(job[t].res) <= Len(job[t].keys)
    /\ walk \in [Tasks -> [s : Stores, due : SUBSET FullKeys, done : SUBSET FullKeys]]
    /\ raced \in [Tasks -> SUBSET FullKeys]

\* What a call is about to delete because it read it expired (get, getMany,
\* has, iterator) is gone or expired, unless it was written, or the store
\* replaced, since that read.
SweepSafe ==
    \A t \in Tasks : (pc[t] = "asked" /\ job[t].stage = "sweep") =>
        \A i \in DOMAIN req[t].keys :
            \/ req[t].keys[i] \in raced[t]
            \/ At(t, i) = None
            \/ Expired(At(t, i))

\* Every method the call asked for was there.
Served(t) == \A i \in DOMAIN told[t] : told[t][i] # None

Resolved(t, ops) == pc[t] = "resolved" /\ job[t].op \in ops

\* A batch answers one result per key, in the order of the keys (getMany,
\* hasMany, setMany, deleteMany): result i of a read is what a store held for
\* key i, or undefined if that was expired, and has never sees what is not there.
\* (A store that replaced another may lack a method that was detected.)
AnswersAligned ==
    \A t \in Tasks : (Resolved(t, KeyOps) /\ Served(t)) =>
        LET j == job[t]
        IN  /\ Len(j.res) = Len(j.keys)
            /\ j.op \in ReadOps \cup HasOps => \A i \in DOMAIN j.keys :
                  \E ns \in Namespaces : told[t][i].key = GetKeyPrefix(j.keys[i], ns)
            /\ j.op \in ReadOps => \A i \in DOMAIN j.keys :
                  \/ j.res[i] = told[t][i].row
                  \/ j.res[i] = None /\ Expired(told[t][i].row)
            /\ j.op \in HasOps => \A i \in DOMAIN j.keys : j.res[i] => told[t][i].row # None

\* A write that a store refused is not reported as done, neither by set nor by
\* a native setMany, whatever else was going on.
RefusalsReported ==
    \A t \in Tasks : (Resolved(t, WriteOps) /\ Served(t) /\ (job[t].op = "set" \/ Native(job[t].a, "setMany"))) =>
        \A i \in DOMAIN job[t].res : job[t].res[i] => told[t][i]

\* The same of every setMany: the key-by-key one does not look.
AllRefusalsReported ==
    \A t \in Tasks : (Resolved(t, WriteOps) /\ Served(t)) =>
        \A i \in DOMAIN job[t].res : job[t].res[i] => told[t][i]

\* Every call that resolves was aligned, also over a store that replaced another.
AnswersComplete == \A t \in Tasks : Resolved(t, KeyOps) => Len(job[t].res) = Len(job[t].keys)

\* has and hasMany are true only for data that was not expired when the store looked.
HasUnexpired ==
    \A t \in Tasks : Resolved(t, HasOps) => \A i \in DOMAIN job[t].res : job[t].res[i] => ~told[t][i].over

Clearing(t) == job[t].op = "clear" /\ job[t].ns # <<>> /\ "iterator" \in native[job[t].a]

\* A clear that walks over the store ends with nothing left in its namespace
\* but what was written while it ran, and a store that was replaced meanwhile.
ClearComplete ==
    \A t \in Tasks : (Clearing(t) /\ pc[t] = "resolved" /\ Served(t)) =>
        \A k \in FullKeys : InNamespace(k, job[t].ns) =>
            (k \in raced[t] \/ data[walk[t].s][k] = None)

\* Such a clear removes nothing outside its namespace.
ClearIsolated ==
    [][\A t \in Tasks : (Clearing(t) /\ pc[t] = "asked" /\ pc'[t] = "served") =>
          \A s \in Stores : \A k \in FullKeys :
              (data[s][k] # None /\ data'[s][k] = None) => InNamespace(k, job[t].ns)]_vars

\* Every call resolves or rejects, also when keys come and go under a clear or
\* an iterator and the store rejects again and again.
CallsComplete == \A t \in Tasks : pc[t] \in {"asked", "served"} ~> pc[t] \in {"resolved", "rejected"}
=============================================================================
