--------------------------- MODULE EntryAdapters ---------------------------
(***************************************************************************)
(* The adapters of memcache, etcd, dynamo, mongo and rocksdb: a behaviour  *)
(* is one adapter's.                                                       *)
(***************************************************************************)
EXTENDS MemcacheAdapter, EtcdAdapter, DynamoAdapter, MongoAdapter, RocksdbAdapter

\* Memcached's exptime, etcd's leases, the TTL of a table and a TTL index.
ServerReaps == Reaped({"memcache", "etcd", "dynamo", "mongo"})

Init ==
    /\ CallsInit
    /\ MemcacheInit \/ EtcdInit \/ DynamoInit \/ MongoInit \/ RocksdbInit
Next ==
    \/ MemcacheNext \/ EtcdNext \/ DynamoNext \/ MongoNext \/ RocksdbNext
    \/ ServerReaps \/ Tick
Spec == Init /\ [][Next]_vars

---------------------------------------------------------------------------
\* As EffectsReported says, but for setMany of StorelyEtcd.
BlindSetMany == adapter = "etcd" /\ reply # Idle /\ reply.job.op = "setMany"
EffectsReportedElse == (BlindSetMany \/ WritesReported) /\ DeletesReported
\* setMany of StorelyEtcd answers true for no entry that was not written.
SetManyReported == BlindSetMany => TruesWritten

\* Calls that go on after a tick with rows they have read before it and not judged
\* yet: getMany and hasMany of StorelyDynamo judge all rows of a batch when they have
\* the last, the iterators of StorelyEtcd and StorelyRocksDB each when it is pulled.
\* What such a call finds expired may have been written anew before it expired.
JudgedLate ==
    /\ reply # Idle /\ reply.job.at < now
    /\ \/ adapter = "dynamo" /\ reply.job.op \in {"getMany", "hasMany"}
       \/ adapter \in {"etcd", "rocksdb"} /\ reply.job.op = "iterator"

\* As ReadsCurrent says; what is judged late may be answered as if it were not there,
\* but no answer is a value its key did not hold in the call.
ReadsCurrentElse ==
    /\ JudgedLate \/ ReadsCurrent
    /\ Ended(ReadOps) => \A i \in Sure : reply.job.res[i] \in Held(i) \cup {None}
    /\ Ended(HasOps) => \A i \in Sure : reply.job.res[i] => Held(i) \ {None, Stale} # {}

\* As WalksComplete says; what is judged late may be passed, but nothing is yielded
\* twice or with a value its key did not hold in the call.
WalksCompleteElse ==
    /\ ClearComplete /\ IterationOnce
    /\ Ended({"iterator"}) => \A i \in DOMAIN reply.job.out :
          reply.job.out[i].val \in reply.seen[<<reply.job.ns, reply.job.out[i].key>>]
    /\ JudgedLate \/ IterationComplete

\* An entry written with a TTL is there no longer than that, from when the call that
\* wrote it was made or the adapter was connected; and no shorter, but for half of it
\* with a lease of etcd, and for what is less than a second with dynamo.
Slack(live) ==
    CASE adapter = "etcd" -> Bucket(live) \div 2
      [] adapter = "dynamo" -> SecondTicks - 1
      [] OTHER -> 0
TtlWithin(slack(_)) ==
    \A r \in flight \ flight' : \A s \in SlotsAt(r.of, r.at) :
        r.of.live # None /\ db'[s] # db[s] /\ db'[s] # None =>
            /\ db'[s].exp >= r.of.at + r.of.live - slack(r.of.live)
            /\ db'[s].exp <= Made(r) + r.of.live + 1
TtlKept == [][TtlWithin(Slack)]_vars

\* "Reuse only if the lease still has at least the full requested TTL remaining":
\* so the comment of getOrCreateLeaseForTtl, and not what it does.
NoSlack(live) == 0
TtlCovered == [][TtlWithin(NoSlack)]_vars
=============================================================================
