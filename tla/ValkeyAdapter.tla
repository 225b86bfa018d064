--------------------------- MODULE ValkeyAdapter ---------------------------
(***************************************************************************)
(* StorelyValkey (storage/valkey/src/index.ts): the client connects by     *)
(* itself, most errors reject, and with useSets the keys of a namespace    *)
(* are kept in a set, which clear goes by (not in a cluster here, where    *)
(* that set has a master of its own).                                      *)
(***************************************************************************)
EXTENDS RedisServer

CONSTANTS
    ChunkSize,    \* keys of one transaction of deleteMany
    Extending     \* <<m, n>>: the name of namespace n begins with that of m

ASSUME ValkeyAssumption == ChunkSize \in Nat \ {0} /\ Extending \subseteq Namespaces \X Namespaces

Valkey == {"valkey"}
Vk(do) == Served(Valkey, do)

\* The keys the index knows of after a write and after a delete of S.
Added(S)   == IF aux.sets THEN [aux EXCEPT !.index = @ \cup S] ELSE aux
Without(S) == IF aux.sets THEN [aux EXCEPT !.index = @ \ S] ELSE aux

ValkeyGet(t, j)     == j.op = "get" /\ Enter(t, j, {Command(t, j, "read", All(j), {})})
ValkeyHas(t, j)     == j.op = "has" /\ Enter(t, j, {Command(t, j, "read", All(j), {})})
ValkeyGetMany(t, j) == j.op = "getMany" /\ Enter(t, j, Grouped(t, j, "read"))
ValkeyHasMany(t, j) == j.op = "hasMany" /\ Enter(t, j, IF All(j) = {} THEN {} ELSE Grouped(t, j, "read"))
ValkeyRead == \E r \in Vk("read") : r.at # {} /\ Serve(r, db, aux, {}, Found(job[r.t], r.at))

\* SET, in a transaction with SADD if useSets; what a transaction does not take
\* for a TTL it leaves out, and an error is answered false.
ValkeySet(t, j) == j.op = "set" /\ Enter(t, j, {Command(t, j, "set", All(j), {})})
ValkeySetMany(t, j) ==
    j.op = "setMany" /\ Enter(t, j, IF All(j) = {} THEN {} ELSE Grouped(t, j, "set"))
ValkeyWritten ==
    \E r \in Vk("set") :
        IF Accepted(r.of.live)
        THEN Serve(r, Written(r, r.of.live), Added(SlotsAt(r.of, r.at)), {},
                   Answered(job[r.t], r.at, LAMBDA i : TRUE))
        ELSE Serve(r, db, Added(SlotsAt(r.of, r.at)), {},
                   Answered(job[r.t], r.at, LAMBDA i : r.of.op = "set" /\ aux.sets))
\* setMany goes on to answer what its other transactions had said by then.
ValkeyNotWritten ==
    \E r \in Failing(Valkey, "set") :
        \/ Finish(r, db, aux, Failed(job[r.t]))
        \/ (aux.open \/ r.sent) /\ Accepted(r.of.live)
             /\ Finish(r, Written(r, r.of.live), Added(SlotsAt(r.of, r.at)), Failed(job[r.t]))

\* UNLINK, in a transaction with SREM if useSets.
ValkeyDelete(t, j) == j.op = "delete" /\ Enter(t, j, {Command(t, j, "delete", All(j), 1)})
\* deleteMany: chunk by chunk, in a cluster too, where the keys of a chunk are not
\* grouped by their slot.
ChunkFrom(t, j, p) ==
    LET I == {i \in All(j) : i >= p /\ i < p + ChunkSize}
    IN  IF I = {} THEN {} ELSE {Command(t, j, "delete", I, p)}
ValkeyDeleteMany(t, j) == j.op = "deleteMany" /\ Enter(t, j, ChunkFrom(t, j, 1))

\* Of two keys that are the same, the first UNLINK removes the entry.
Removed(j, I) ==
    Answered(j, I, LAMBDA i : There(Slot(j, i)) /\ \A m \in I : j.keys[m] = j.keys[i] => i <= m)
OneMaster(S) == aux.cluster => \A s, u \in S : MasterOf[s[2]] = MasterOf[u[2]]
ValkeyDeleted ==
    \E r \in Vk("delete") :
        /\ OneMaster(SlotsAt(r.of, r.at))
        /\ Serve(r, Drop(db, SlotsAt(r.of, r.at)), Without(SlotsAt(r.of, r.at)),
                 ChunkFrom(r.t, r.of, r.with + ChunkSize), Removed(job[r.t], r.at))

\* clear, with useSets: the keys of the set are read, then at the same time deleted
\* and taken out of the set.
ValkeyClear(t, j) ==
    j.op = "clear" /\ Enter(t, j, {Command(t, j, IF aux.sets THEN "members" ELSE "scan to clear", {}, <<{}, 1>>)})
ValkeyMembers ==
    \E r \in Vk("members") :
        LET S == aux.index \cap In(r.of.ns)
        IN  Serve(r, db, aux,
                  IF S = {} THEN {} ELSE {Command(r.t, r.of, "clear", {}, S), Command(r.t, r.of, "forget", {}, S)},
                  [job[r.t] EXCEPT !.over = S])
ValkeyForgotten == \E r \in Vk("forget") : Serve(r, db, [aux EXCEPT !.index = @ \ r.with], {}, job[r.t])

\* clear, without: the keys that begin with the namespace are collected and then
\* deleted; so do the keys of a namespace that begins with it.
Beginning(ns) == UNION {In(n) : n \in {ns} \cup {m \in Namespaces : <<ns, m>> \in Extending}}
ValkeyScannedToClear ==
    \E r \in Vk("scan to clear") :
        LET p == r.with[2]
            S == r.with[1] \cup {s \in Beginning(r.of.ns) : s[2] = Names[p] /\ There(s)}
        IN  Serve(r, db, aux,
                  IF p < Len(Names) THEN {Command(r.t, r.of, "scan to clear", {}, <<S, p + 1>>)}
                  ELSE IF S = {} THEN {} ELSE {Command(r.t, r.of, "clear", {}, S)},
                  job[r.t])
ValkeyCleared == \E r \in Vk("clear") : OneMaster(r.with) /\ Serve(r, Drop(db, r.with), aux, {}, job[r.t])

\* iterator, page by page like that of redis, without a connection to wait for.
ValkeyIterator(t, j) == j.op = "iterator" /\ Enter(t, j, {Command(t, j, "scan", {}, 1)})
ValkeyScanned ==
    \E r \in Vk("scan") : \E ks \in Scan(r.of.ns, None, r.with) :
        Serve(r, db, aux, AfterPage(r, ks), job[r.t])
ValkeyYields ==
    \E r \in Vk("mget") :
        Serve(r, db, aux, NextPage(r, r.with[2]), Yielded(job[r.t], r.with[1]))

\* Nothing else catches an error; and MGET of no key is one, and a transaction
\* for two masters.
ValkeyRejected ==
    \/ \E do \in {"read", "members", "scan", "scan to clear", "mget", "forget"} :
          \E r \in Failing(Valkey, do) : Reject(r, db)
    \/ \E r \in {r \in Vk("read") : r.at = {}} \cup {r \in Vk("delete") : ~OneMaster(SlotsAt(r.of, r.at))}
                  \cup {r \in Vk("clear") : ~OneMaster(r.with)} : Reject(r, db)
    \/ \E r \in Failing(Valkey, "delete") :
          \E d \in IF OneMaster(SlotsAt(r.of, r.at)) THEN Outcomes(r, Drop(db, SlotsAt(r.of, r.at))) ELSE {db} :
             RejectWith(r, d, IF d = db THEN aux ELSE Without(SlotsAt(r.of, r.at)))
    \/ \E r \in Failing(Valkey, "clear") :
          \E d \in IF OneMaster(r.with) THEN Outcomes(r, Drop(db, r.with)) ELSE {db} : Reject(r, d)

ValkeyDisconnect(t, j) ==
    j.op = "disconnect" /\ EnterWith(t, j, {}, [aux EXCEPT !.open = FALSE])

ValkeyTimedOut == TimedOut(Valkey)

ValkeyCall(t, j) ==
    \/ ValkeyGet(t, j) \/ ValkeyHas(t, j) \/ ValkeyGetMany(t, j) \/ ValkeyHasMany(t, j) \/ ValkeySet(t, j)
    \/ ValkeySetMany(t, j) \/ ValkeyDelete(t, j) \/ ValkeyDeleteMany(t, j) \/ ValkeyClear(t, j)
    \/ ValkeyIterator(t, j) \/ ValkeyDisconnect(t, j)

ValkeyNext ==
    \/ adapter = "valkey" /\ \E t \in Tasks : NewCall(t, ValkeyCall)
    \/ ValkeyRead \/ ValkeyWritten \/ ValkeyNotWritten \/ ValkeyDeleted \/ ValkeyMembers \/ ValkeyForgotten
    \/ ValkeyScannedToClear \/ ValkeyCleared \/ ValkeyScanned \/ ValkeyYields \/ ValkeyRejected \/ ValkeyTimedOut

\* useSets: the set of a namespace holds every key there is.  ("a set is maintained
\* for each namespace to track keys"; clear takes a key out that is written between
\* its two commands.)
IndexComplete == aux.sets => \A s \in Slots : There(s) => s \in aux.index
=============================================================================
