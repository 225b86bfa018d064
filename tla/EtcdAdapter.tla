---------------------------- MODULE EtcdAdapter ----------------------------
(***************************************************************************)
(* StorelyEtcd (storage/etcd/src/index.ts): one command for each key, and  *)
(* leases for TTLs.  An entry goes when its lease does, or when the time   *)
(* it carries itself has passed.                                           *)
(*                                                                         *)
(* aux.leases: the lease kept for each bucket, or None, with the moment it *)
(* was made and whether the server granted it; aux.shared: the one made    *)
(* with the instance; aux.on: the lease each entry is attached to.         *)
(***************************************************************************)
EXTENDS EntryServer

CONSTANTS
    LeaseUnit,    \* a second: leases are made for whole ones
    SharedTtl     \* the ttl of the instance, or None

ASSUME EtcdAssumption ==
    /\ LeaseUnit \in Nat \ {0} /\ (SharedTtl # None => SharedTtl \in Nat \ {0})
    /\ None \notin [made : Nat, for : Nat, granted : BOOLEAN]

Et(do) == Served("etcd", do)

\* A bucket: the TTL in whole seconds, one at the least.
Bucket(live) == LeaseUnit * Max({1, (live + LeaseUnit - 1) \div LeaseUnit})
Lease(b, ok) == [made |-> now, for |-> b, granted |-> ok]
Gone(lease)  == ~lease.granted \/ now >= lease.made + lease.for

\* The constructor makes the shared lease, the setter of ttl does not.
EtcdInit ==
    /\ adapter = "etcd" /\ Entries
    /\ \E shared \in {None} \cup {Lease(l, TRUE) : l \in {SharedTtl} \ {None}} :
          aux = [boot |-> "ready", since |-> 0, open |-> TRUE, shared |-> shared,
                 leases |-> [b \in {Bucket(l) : l \in Lives["etcd"] \ {None}} |-> None],
                 on |-> [s \in Slots |-> None]]

EtcdGet(t, j)     == j.op = "get" /\ Enter(t, j, Each(t, j, "read"))
EtcdGetMany(t, j) == j.op = "getMany" /\ Enter(t, j, Each(t, j, "read"))
EtcdHas(t, j)     == j.op = "has" /\ Enter(t, j, Each(t, j, "read"))
EtcdHasMany(t, j) == j.op = "hasMany" /\ Enter(t, j, Each(t, j, "read"))

\* An entry found expired is deleted before the call answers.
EtcdRead ==
    \E r \in Et("read") :
        Serve(r, db, aux, IF Old(r.of, r.at, now) = {} THEN {} ELSE {Command(r.t, r.of, "sweep", r.at, {})},
              Judged(job[r.t], r.at, now))
EtcdSwept == \E r \in Et("sweep") : Serve(r, Drop(db, SlotsAt(r.of, r.at)), aux, {}, job[r.t])

\* getOrCreateLeaseForTtl: the lease of the bucket until half its time has passed,
\* then a new one, which the server may fail to grant.
Reusable(lease) == lease # None /\ 2 * (now - lease.made) < lease.for
LeaseFor(live) ==
    LET b == Bucket(live)
    IN  IF Reusable(aux.leases[b]) THEN {aux.leases[b]}
        ELSE {Lease(b, ok) : ok \in {TRUE} \cup {f \in {FALSE} : Faults}}

\* set: on a lease for its TTL; else on the shared one, if the instance has a ttl:
\* after disconnect, or the setter, there is none: set does nothing, and answers true.
EtcdPuts(t, j) ==
    IF j.live = None /\ SharedTtl # None /\ aux.shared = None
    THEN Enter(t, True(j, All(j)), {})
    ELSE IF j.live = None \/ All(j) = {}
    THEN Enter(t, j, {Command(t, j, "put", {i}, aux.shared) : i \in All(j)})
    ELSE \E lease \in LeaseFor(j.live) :
            EnterWith(t, j, {Command(t, j, "put", {i}, lease) : i \in All(j)},
                      [aux EXCEPT !.leases[Bucket(j.live)] = lease])
EtcdSet(t, j)     == j.op = "set" /\ EtcdPuts(t, j)
EtcdSetMany(t, j) == j.op = "setMany" /\ EtcdPuts(t, j)

\* What the put leaves: the entry goes at the end of the lease or of its own time.
Leased(r) ==
    LET lease == r.with
        own   == IF r.of.live = None THEN {} ELSE {r.of.at + r.of.live + 1}
        ends  == own \cup IF lease = None THEN {} ELSE {lease.made + lease.for}
    IN  Write(db, r.of, r.at, IF ends = {} THEN None ELSE Min(ends))
Attached(r) == [aux EXCEPT !.on = [s \in Slots |-> IF s \in SlotsAt(r.of, r.at) THEN r.with ELSE @[s]]]
EtcdPut ==
    \E r \in Et("put") :
        /\ r.with # None => ~Gone(r.with)
        /\ Serve(r, Leased(r), Attached(r), {}, True(job[r.t], r.at))

EtcdDelete(t, j)     == j.op = "delete" /\ Enter(t, j, Each(t, j, "delete"))
EtcdDeleteMany(t, j) == j.op = "deleteMany" /\ Enter(t, j, Each(t, j, "delete"))
EtcdDeleted ==
    \E r \in Et("delete") :
        Serve(r, Drop(db, SlotsAt(r.of, r.at)), aux, {}, Existed(job[r.t], r.at))

EtcdClear(t, j) == j.op = "clear" /\ Enter(t, j, {Command(t, j, "clear", {}, {})})
EtcdCleared     == \E r \in Et("clear") : Serve(r, Drop(db, In(r.of.ns)), aux, {}, job[r.t])

\* iterator: all entries in one answer, each judged when it is pulled.
EtcdIterator(t, j) == j.op = "iterator" /\ Enter(t, j, {Command(t, j, "all", {}, {})})
EtcdAll ==
    \E r \in Et("all") :
        LET rows == [s \in {s \in In(r.of.ns) : db[s] # None} |-> db[s]]
        IN  Serve(r, db, aux, IF DOMAIN rows = {} THEN {} ELSE {Command(r.t, r.of, "pull", {}, rows)}, job[r.t])
EtcdPulled ==
    \E r \in Sent("etcd", "pull") :
        LET s    == First(r.with)
            rest == Without(r.with, s)
            next == IF DOMAIN rest = {} THEN {} ELSE {Command(r.t, r.of, "pull", {}, rest)}
        IN  IF Expired(r.with[s], now)
            THEN Serve(r, db, aux, {Command(r.t, r.of, "drop", {}, <<s, next>>)}, job[r.t])
            ELSE Serve(r, db, aux, next, Yield(job[r.t], s[2], r.with[s].val))
EtcdDropped ==
    \E r \in Et("drop") : Serve(r, Drop(db, {r.with[1]}), aux, r.with[2], job[r.t])

\* disconnect revokes the leases it knows of, with the entries on them, as far as
\* they can be revoked, and closes.
EtcdDisconnect(t, j) == j.op = "disconnect" /\ Enter(t, j, {Command(t, j, "revoke", {}, {})})
EtcdRevoked ==
    \E r \in Sent("etcd", "revoke") :
        \E L \in SUBSET (({aux.shared} \cup {aux.leases[b] : b \in DOMAIN aux.leases}) \ {None}) :
            Serve(r, IF aux.open THEN Drop(db, {s \in Slots : aux.on[s] \in L}) ELSE db,
                  [aux EXCEPT !.open = FALSE, !.shared = None, !.leases = [b \in DOMAIN @ |-> None]], {}, job[r.t])

\* What fails is answered as if there were no entry, and false by set; but setMany
\* goes by whether set rejects, which it does not.
EtcdWould(r) ==
    CASE r.do \in {"sweep", "delete"} -> Drop(db, SlotsAt(r.of, r.at))
      [] r.do = "clear" -> Drop(db, In(r.of.ns))
      [] r.do = "drop" -> Drop(db, {r.with[1]})
      [] OTHER -> db
EtcdGoesOn(j, r) ==
    CASE r.do \in {"read", "delete"} -> Unsure(j, r.at)
      [] r.do = "put" -> Unsure(IF j.op = "setMany" THEN True(j, r.at) ELSE j, r.at)
      [] r.do \in {"clear", "all"} -> Failed(j)
      [] OTHER -> j
EtcdFailed ==
    \/ \E r \in UNION {Failing("etcd", do) : do \in {"read", "sweep", "delete", "clear", "all", "drop"}} :
          \E d \in Outcomes(r, EtcdWould(r)) :
             Serve(r, d, aux, IF r.do = "drop" THEN r.with[2] ELSE {}, EtcdGoesOn(job[r.t], r))
    \/ \E r \in Failing("etcd", "put") \cup {r \in Et("put") : r.with # None => Gone(r.with)} :
          Serve(r, db, aux, {}, EtcdGoesOn(job[r.t], r))

EtcdCall(t, j) ==
    \/ EtcdGet(t, j) \/ EtcdGetMany(t, j) \/ EtcdHas(t, j) \/ EtcdHasMany(t, j) \/ EtcdSet(t, j)
    \/ EtcdSetMany(t, j) \/ EtcdDelete(t, j) \/ EtcdDeleteMany(t, j) \/ EtcdClear(t, j)
    \/ EtcdIterator(t, j) \/ EtcdDisconnect(t, j)

EtcdNext ==
    \/ adapter = "etcd" /\ \E t \in Tasks : NewCall(t, EtcdCall)
    \/ EtcdRead \/ EtcdSwept \/ EtcdPut \/ EtcdDeleted \/ EtcdCleared \/ EtcdAll \/ EtcdPulled
    \/ EtcdDropped \/ EtcdRevoked \/ EtcdFailed
=============================================================================
