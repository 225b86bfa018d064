---------------------------- MODULE RedisServer ----------------------------
(***************************************************************************)
(* What the adapters of redis, keydb and valkey have in common: a server   *)
(* that drops entries when they expire, alone or as the masters of a       *)
(* cluster; commands and transactions sent to it over one client; SCAN.    *)
(*                                                                         *)
(* aux.open: the client is connected.  aux.connecting: it is being         *)
(* connected, and commands wait.  aux.cluster: a transaction takes the     *)
(* keys of one master only.  aux.sets, aux.index: valkey's useSets and the *)
(* set of the keys it knows of.                                            *)
(***************************************************************************)
EXTENDS StorageCalls

CONSTANTS
    Masters, MasterOf,    \* the masters of a cluster, and the one of each key
    Clusters              \* the adapters whose client is a cluster's

ASSUME RedisAssumption ==
    MasterOf \in [Keys -> Masters] /\ None \notin Masters /\ Clusters \subseteq Adapters

RedisInit ==
    /\ db \in [Slots -> {None, [val |-> Original, exp |-> 1]}]
    /\ \E sets \in {FALSE} \cup {v \in {TRUE} : adapter = "valkey" /\ adapter \notin Clusters} :
          aux = [open |-> (adapter = "valkey"), connecting |-> FALSE, cluster |-> (adapter \in Clusters),
                 sets |-> sets, index |-> {s \in Slots : sets /\ db[s] # None}]

\* The commands that are served next, or fail.  What was sent before the client
\* was closed may still be served.
Sent(names, do)    == {r \in flight : adapter \in names /\ r.do = do}
Served(names, do)  == {r \in Sent(names, do) : aux.open \/ r.sent}
Failing(names, do) == {r \in Sent(names, do) : Faults \/ ~(aux.open \/ aux.connecting)}
Outcomes(r, d)     == IF aux.open \/ r.sent THEN {db, d} ELSE {db}

\* Mutant of Groups: in a cluster too, all keys in one command.
GroupsOne(j) == {All(j)}
\* calculateSlot: one command for the entries of each master, or one for all.
Groups(j) ==
    IF aux.cluster
    THEN {{i \in All(j) : MasterOf[j.keys[i]] = m} : m \in {MasterOf[j.keys[i]] : i \in All(j)}}
    ELSE {All(j)}
Grouped(t, j, do) == {Command(t, j, do, I, {}) : I \in Groups(j)}

There(s) == Visible(db[s], now)
\* Mutant of Found: the answers of a master fill the results from the first on.
FoundFromFirst(j, I) ==
    Answered(j, 1..Cardinality(I), LAMBDA i :
        LET m == CHOOSE m \in I : Cardinality({n \in I : n <= m}) = i
        IN  Answer(j.op, db[Slot(j, m)], ~There(Slot(j, m))))
Found(j, I) == Answered(j, I, LAMBDA i : Answer(j.op, db[Slot(j, i)], ~There(Slot(j, i))))

\* SET with PX, the time from the moment it is served; a time that is not positive
\* is refused.
Accepted(px)    == px # None => px > 0
Written(r, px)  == Write(db, r.of, r.at, IF px = None THEN None ELSE now + px)

\* SCAN of one master, or of all there is, one key at a time: a key that is there all
\* the time is found, any may be found again, and a page may be empty.
Scan(ns, m, p) ==
    LET at(q) == IF q \in DOMAIN Names /\ There(<<ns, Names[q]>>) /\ (m \in Masters => MasterOf[Names[q]] = m)
                 THEN <<Names[q]>> ELSE <<>>
    IN  {at(p)} \cup {at(p) \o at(q) : q \in 1..(p - 1)}
Page(ns, ks) == {<<ns, ks[i]>> : i \in DOMAIN ks}

\* The iterator goes on to the page after p, if there is one; after a page that is
\* not empty it first reads the values of its keys.
NextPage(r, p)   == IF p < Len(Names) THEN {Command(r.t, r.of, "scan", {}, p + 1)} ELSE {}
\* Mutant of AfterPage: an empty page is taken for the last.
AfterPageStops(r, ks) == IF ks = <<>> THEN {} ELSE {Command(r.t, r.of, "mget", {}, <<ks, r.with>>)}
AfterPage(r, ks) ==
    IF ks = <<>> THEN NextPage(r, r.with) ELSE {Command(r.t, r.of, "mget", {}, <<ks, r.with>>)}

\* The values of the keys of a page, in its order.
Yielded(j, ks) ==
    LET entry(k) == [key |-> k, val |-> IF There(<<j.ns, k>>) THEN db[<<j.ns, k>>].val ELSE None]
    IN  [j EXCEPT !.out = @ \o [i \in DOMAIN ks |-> entry(ks[i])]]

\* A timeout of commandTimeout on a batch operation: the call rejects, and what it
\* sent, or will send, goes on.
TimedOut(names) ==
    adapter \in names /\ \E t \in Tasks : job[t] # Idle /\ job[t].op \in KeyOps \ SingleOps /\ GiveUp(t)

\* No command of a cluster names keys of two masters.
OneSlot ==
    aux.cluster => \A r \in flight : \A i, m \in r.at : MasterOf[r.of.keys[i]] = MasterOf[r.of.keys[m]]
=============================================================================
