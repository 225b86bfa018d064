# Storely: a TLA+ verification development

Storely (`src/core/storely`) is a key-value facade for Node.js: one class that
owns no data and forwards to a *storage adapter*, adding namespaces, TTLs, serialization, compression, encryption, hooks, events and
statistics on the way.  This directory holds TLA+ models of it, TLC
configurations that check them on small instances, and proofs checked by TLAPS
that hold for every instance.  Every definition is translated from the source;
`PROJECT.json` maps each one to the lines it stands for.  Paths below are
relative to `src/`.

## 1. The system

### 1.1 Components

| Component | State it keeps | Operations | What makes it correct |
|---|---|---|---|
| **Storely facade** `core/storely/src/storely.ts`, `utils.ts` | options (`_ttl`, `_namespace`, `_checkExpired`, `_throwOnErrors`, `_fastPath`, adapters for serialization, compression, encryption), no data | `get`, `getMany`, `getRaw`, `getManyRaw`, `set`, `setMany`, `setRaw`, `setManyRaw`, `delete`, `deleteMany`, `has`, `hasMany`, `clear`, `disconnect`, `iterator`, property setters | an entry lives exactly as long as its envelope says; a sweep of expired keys removes nothing else; answers and telemetry are about the caller's positions; a failure of the adapter is never silent |
| **Memory adapter** `adapters/memory.ts` | a `Map` (possibly shared), a namespace | the storage contract, live iteration | namespaces do not reach into each other; lazy expiry is invisible; an iterator misses nothing that stays |
| **Bridge adapter** `adapters/bridge.ts` | a wrapped key-value object, a namespace, which native batch methods it has | the storage contract by native batches or key by key | native and fallback paths agree; answers stay aligned; expiry deletes only what is expired |
| **Storage adapter contract** `types/adapters.ts` | - | the interface all adapters implement | one store per namespace |
| **Statistics** `stats.ts` | counters, bounded LRU maps of keys, subscriptions | `subscribe`, `unsubscribe`, `enabled`, `maxEntries`, `reset` | every event is counted once while, and only while, enabled; maps stay bounded |
| **Sanitizer** `sanitize.ts` | pattern list, two LRU caches | `cleanKey(s)`, `cleanNamespace`, `updateOptions` | a cached answer is the answer the current patterns give |
| **Capabilities, JSON serializer** `capabilities.ts`, `json-serializer.ts` | - | pure functions | detection picks the right adapter; values round-trip |
| **BigMap** `core/bigmap` | an array of `Map`s, a hash function | the `Map` interface | it behaves as one `Map` |
| **SQL adapters** `storage/mysql`, `postgres`, `sqlite` | a table with an `expires` column, a connection promise, a timer or event that deletes expired rows | the storage contract by statements, batches in chunks, paged iteration | a statement that follows another deletes only what is expired; a chunk that fails is reported at its positions; paging neither repeats nor misses a row that stays |
| **Redis-like adapters** `storage/redis`, `keydb`, `valkey` | a client that connects lazily or at once, alone or of a cluster; Valkey's set of known keys | the contract by commands, transactions and `SCAN` | a transaction stays on one master; its answers get back to the caller's positions; an empty or repeated page loses nothing |
| **Entry adapters** `storage/memcache`, `etcd`, `dynamo`, `mongo`, `rocksdb` | entries that carry their expiry; leases by TTL (etcd), a table that is made (DynamoDB), snapshots (RocksDB) | the contract by commands for each key or for chunks | an entry lives for its TTL up to a known slack; a timed-out command is not reported as done; deletion of the expired spares what was renewed |
| **Compression, encryption, serialization** packages | none | `encode`, `decode` | round-trip; thin wrappers of libraries |
| **OpenTelemetry** `observability/otel` | open spans by hook payload | hooks and event listeners | every span started is ended once |
| **Test suite, website, scripts** | - | - | documentation of what adapters promise; not modelled |

### 1.2 How they interact

A caller awaits a facade method.  The facade awaits a `BEFORE_*` hook, the
serializer/compressor/encryptor chain (`encode`), one adapter call, the inverse
chain (`decode`), for expired rows a second public call (`deleteMany`), an
`AFTER_*` hook, and then emits telemetry events that `StorelyStats` and the
OpenTelemetry package listen to.  JavaScript runs one task at a time: whatever
lies between two awaits is atomic, and any other task may run at an await.
All concurrency of the models is this interleaving, and all actions are cut at
awaits.  The facade writes its namespace into the adapter object
(`setStore`); an adapter object shared by two facades is shared state.

### 1.3 What is hard

* *Stale reads.* Everything read before an await is used after it: expired rows
  are deleted by key after decode, native `getMany` answers are swept row by row,
  `clear` deletes keys collected by an iterator, SQL adapters select and then
  delete.
* *Two clocks for one entry.* The envelope's `expires` is stamped by the facade,
  the adapter's TTL counts from when the adapter is called.
* *Partial failure.* A batch loses entries before the store call (serialization)
  and within it (adapter refuses or rejects after a part); answers must be mapped
  back to the caller's positions.
* *Errors as events.* `emit("error")` either goes on or throws
  (`throwOnErrors`), so each catch block has two continuations.
* *Prefixes.* Namespaces are prefixes of keys in one key space.
* *Boundaries.* Expiry exactly now, zero TTLs, TTLs in whole seconds.
* *Commands that outlive their call.* `Promise.all` rejects with the first
  command that fails and a timeout gives up waiting; what is in flight is still
  served, between the commands of later calls.
* *Starting up and closing.* Connections and tables are promises every operation
  awaits; a disconnect may overtake what is on its way.

The full list, each at its line and with the properties that cover it, is
`hazards` in `PROJECT.json`.

## 2. Modules

| Module | Models | Proved about in |
|---|---|---|
| `Storely` | the facade over an abstract adapter, concurrent callers | `StorelyProofs` |
| `NamespacedStore` | abstract specification: one store per namespace | |
| `KeyPrefix` | `getKeyPrefix`, prefix tests (shared by memory and bridge adapter) | |
| `MemoryAdapter` | the memory adapter over one shared `Map`; implements `NamespacedStore` | `MemoryAdapterProofs` |
| `BridgeAdapter` | the bridge adapter over wrapped stores, concurrent callers | `BridgeAdapterProofs` |
| `StorelyStats` | statistics objects and the instances they listen to | `CoreProofs` |
| `StorelyConfig` | constructor and setters of instances over adapter objects | `CoreProofs` |
| `StorelySanitize` | the sanitizer's caches against its options | `CoreProofs` |
| `StorageCalls` | callers, calls and commands in flight: what all storage adapters have in common | `SqlProofs`, `RedisProofs`, `EntryProofs` |
| `SqlTable` | the table and the statements of the SQL adapters | `SqlProofs` |
| `MysqlAdapter`, `PostgresAdapter`, `SqliteAdapter`, composed in `SqlAdapters` | the SQL adapters | `SqlProofs` |
| `RedisServer` | server, cluster, transactions and `SCAN` | `RedisProofs` |
| `RedisAdapter` (KeyDB's too), `ValkeyAdapter`, composed in `RedisAdapters` | the Redis-like adapters | `RedisProofs` |
| `EntryServer` | entries that carry their expiry | `EntryProofs` |
| `MemcacheAdapter`, `EtcdAdapter`, `DynamoAdapter`, `MongoAdapter`, `RocksdbAdapter`, composed in `EntryAdapters` | the entry adapters | `EntryProofs` |
| `MapObject` | abstract specification: one `Map` with walks | |
| `BigMap` | a `Map` kept in several; implements `MapObject` | `BigMapProofs` |
| `MC...` | small instances of each for TLC | |

### 2.1 `Storely`

One record of state per caller (`pc`, `call`, `enc`, `rows`, `doomed`, `oks`,
`todo`, `tele`), the adapter's `store`, the clock `now`.  A call is entered by
`Begin` (argument cleaning, early return on the empty key) and goes through the
awaits of the method:

| Action | Code |
|---|---|
| `Begin`, `FastGet/Set/Delete/Has` | method entry; the fast path of `get`, `set`, `delete`, `has` |
| `ReadStore`, `ReadRejected` | the adapter read of `get`, `getMany`, `getRaw`, `getManyRaw`, and of `has`, `hasMany` under `checkExpired` |
| `Decode` | `decodeWithExpire` up to the deletion of expired keys; corrupt rows become `undefined` with an error event |
| `Sweep`, `SweepRejected` | `deleteExpiredKeys`, i.e. the nested `deleteMany`; the iterator's `delete` |
| `EncodeAll`, `StoreSet`, `StoreSetRejected` | `set`, `setMany`, `setRaw`, `setManyRaw`: envelope, encode, store call, scatter of the store's answers |
| `StoreDelete`, `StoreHas`, `StoreClear`, `StoreDisconnect` (and rejections) | the remaining methods |
| `IterNext`, `IterEnd` | the facade's iterator over the adapter's |
| `Return` | `AFTER_*` hook and telemetry |
| `Tick`, `AdapterExpires` | time; the adapter dropping what its TTL ended |

A stored entry carries both expiries (`env`, `exp`).  Keys are a set with a
cleaning function `CleanKey`; a TTL argument is an integer or absent, zero and
negative ones included; symbols and unserializable values are members of
`Values`.  `racy[t]` is a history variable: the keys written since `t`'s last
read.  Hooks do not change their argument in the model; the property setters are
in `StorelyConfig`.

### 2.2 `MemoryAdapter` and `NamespacedStore`

`MemoryAdapter` has several adapter objects over one `Map`, whose entries carry
the number of their insertion, because a JavaScript `Map` iterates in insertion
order, keeps the place of an overwritten entry and visits entries added while
it is iterated.  `get`, `getMany`, `set`, `setMany`, `delete`, `deleteMany`,
`clear`, `has` are one action each (their bodies never await anything pending);
`hasMany` is `HasMany`, then one `HasManyNext` per key; the iterator is
`Iterate`, one `IteratorNext` per yield and `IteratorEnd`.  `Iterate` reads the
namespace; in the code that happens in the task of the first `next()`, so the
model has a superset of its interleavings.

`NamespacedStore` is the promise of the contract: `data[ns][k]`, operations on
one namespace at a time, expiry by `Pass`.  The refinement mapping shows an entry
of the `Map` to the abstract store unless it is expired; lazy deletion is a
stutter.

### 2.3 `BridgeAdapter`

Here every method awaits, so a call is a sequence of *requests* to the wrapped
store.  The adapter's task asks (`req`, `pc = "asked"`), the store serves the
request at some later moment (`Serve...`, `pc = "served"`), and the task goes on
with the answer (`GotRows`, `GotBooleans`, ...), which either asks again or ends
the call.

| Action | Code |
|---|---|
| `CallKeys` | entry of `get`, `getMany`, `has`, `hasMany`, `set`, `setMany`, `delete`, `deleteMany`: the native batch method if one was detected, else the first key |
| `CallWalk` | entry of `clear` and `iterator` |
| `GotRows`, `Swept` | the loop over rows; an expired one is deleted and awaited before the loop goes on |
| `GotBooleans`, `GotUndefined`, `DeleteCaught`, `Rejected` | answers of the other methods, `?? []` and the like after an optional call, the `try` of the key-by-key `deleteMany` |
| `IteratorEntry/Swept/End`, `ClearEntry/Collected/Deleted` | the loops of `iterator` and `clear` |
| `SetNamespace`, `SetStore` | the setters, at any moment; capabilities stay those of the first store |
| `ServeRead`, `ServeHas`, `ServeWrite`, `ServeDelete`, `ServeClear`, `ServeNext`, `ServeReject`, `ServeMissing` | the wrapped store (external): serves atomically, may refuse entries, may reject, and yields every key that stayed |

`native[a]` is `_capabilities`, detected when the adapter is built, so the stores
`a` is built over decide which form its methods take.  A store may hold data from
an earlier process at the start (`Initially`).  `raced[t]` is the set of keys written since `t` last read them, `told[t]` what
the stores answered during the call; both are history, used by properties only.

### 2.4 `StorelyStats`, `StorelyConfig`, `StorelySanitize`

All their methods are synchronous, so each is one action and the question is
what a *sequence* of calls leads to.

`StorelyStats` keeps per statistics object `enabled`, its emitter, its current
listeners and how many it has on each emitter, one LRU map and `maxEntries`;
`SetStats` is the facade's setter, which unsubscribes the old object and
subscribes the new one.  The five kinds of events are treated alike by the code
and are one in the model.

`StorelyConfig` keeps per instance its store, namespace, sanitizer, which stages
are set and `_fastPath`, and per adapter object the namespace that was written
into it.  `Shared`, `Sanitizing` and `Updating` say whether one adapter object may
be given to two instances, whether the `sanitize` setter is used where it changes
the namespace and whether a sanitizer in use is reconfigured: the passing run
turns off what the configurations of section 5 show to go wrong.

`StorelySanitize` keeps the enabled categories and the two caches as sequences
in the order of their `Map`.

### 2.5 The storage adapters

All eleven share the shape of `StorageCalls`.  A caller's call is a record `job[t]`
(operation, keys, the moment it started, what it has answered so far); what the
adapter sent for it is a set of commands in `flight`, each with a name `do`, the
positions `at` it is about and what it was sent with.  A step serves one command:
the server does its work on `db` and the adapter goes on with the answer, which
is one step because what the adapter does then reads nothing that another step
changes.  A call may have several commands in flight (`Promise.all`) and may end
before they do; then they are served as orphans.  `db[ns, k]` is a row with its
value and its expiry; a value is named after the call and the position that
wrote it, so that a property can say whose value an answer is.

| Module | Actions |
|---|---|
| `SqlTable` + one adapter | `...Call` starts an operation with its first statement; one action for the answer to each statement (`Select`, the sweep of what was found expired, upsert, delete, page, clear), chunk by chunk for SQLite; the statement may fail before or after it did its work; MySQL's event, the timers of PostgreSQL and SQLite, opening and closing |
| `RedisServer` + one adapter | `connect` on demand (Redis, KeyDB) or at once (Valkey); commands and transactions grouped by master; `SCAN` one key a page, in which a key may come again and a page be empty; Valkey's `clear` in chunks of the index set; timeouts, whose commands are still served; a client that is closed |
| `EntryServer` + one adapter | commands for each key or in chunks; deletion of what was read expired as a command of its own; the server's own removal of expired entries; memcached's timeouts and flush; etcd's lease by TTL bucket, its reuse and revocation; DynamoDB's table made while another client makes it, unprocessed items, time in whole seconds; MongoDB's documents, whose `_id` survives an upsert; RocksDB's snapshot iterator, `clearExpired` |

A behaviour is one adapter's (`adapter` is chosen by `Init`), so a run checks the
adapters of a family against the same properties.  Those are stated in
`StorageCalls` from history kept with each call: `ReadsCurrent` (what is answered
was there at a moment of the call), `EffectsReported` (what a write or a deletion
answers is what became of it, although commands fail, come late or are cut),
`WalksComplete` (`clear` and `iterator` pass nothing that is there all the time;
`WalksExact` adds that paging repeats nothing), and `SweepSafe` (no step loses an
unexpired entry nobody asked to delete).  Where an adapter is known to do less
than its family, the property is weakened by name: `EffectsReportedElse` leaves
out `setMany` of etcd (section 5), `TtlKept` allows etcd's leases and DynamoDB's
whole seconds their slack.

`ReadsCurrentElse` and `WalksCompleteElse` are about rows that are judged late.
The iterators of etcd and RocksDB take all rows of a namespace at once and judge
each when it is pulled; DynamoDB's `getMany` and `hasMany` judge all rows of a
batch when they have the last of them.  A row that runs out between is
passed, or answered as absent, although its key may have been written anew before
it ran out: then the key was there all the time, with one value or another, and the
call did not see it.  Of such a call (`JudgedLate`: the clock has moved since it
was made) the properties still say that nothing is yielded twice and that
what is answered or yielded is a value its key held in the call; of every
other call they say all that `ReadsCurrent` and `WalksComplete` say.

The services are external: what a statement or a command does is modelled from
how the adapter uses it.

### 2.6 `BigMap` and `MapObject`

`MapObject` is a `Map`: `Get`, `Has`, `Set`, `Delete`, `Clear`, `Size`, and walks
(`Start`, `Yield`, `End`), where a walk may end only when it has yielded what was
there from its beginning and never yields an entry twice.  `BigMap` is the array
of `Map`s with the hash function a constant table, so that any function is
covered; its walk is at one of the `Map`s and leaves those before it behind.  A
size that is set during a walk lets the walk go on over the old array.  The
refinement mapping takes a key's value from the `Map` it hashes to.

## 3. Runs

| Run | Question | Instance |
|---|---|---|
| `facade_expiry` | types, adapter expiry after envelope, sweeps, reads under `checkExpired`; every call ends | 2 callers, four calls, batches of 2; batch writes are in `facade_faults` and `facade_fast_path` |
| `facade_faults` | partial failure, refused entries, corrupt rows, unencodable values, rejected sweeps, all operations | 1 caller, batches of 2 |
| `facade_fast_path` | `throwOnErrors`; fast path beside slow operations; default TTL | 2 callers |
| `memory` | `MemoryAdapter` implements `NamespacedStore`; iteration of a live `Map` | namespaces `a`, `ab`, one key, two insertions |
| `bridge` | sweeps, alignment, refusals, `clear`, native and key by key, with setters in between; every call ends although the store rejects | 2 callers, 2 keys, namespaces `a`, `ab`, one store with every method and one with the required ones only, both with data that is about to expire |
| `statistics` | listeners over sequences of calls; order and content of the LRU map | 2 objects, 2 instances, 3 keys, a limit of 2 |
| `configuration` | settings that follow from others stay current | 2 instances, 2 adapters, 2 sanitizers |
| `sanitizer` | answers current, caches hold the recent | 4 strings, 2 categories, caches of 2 |
| `sql` | the SQL adapters between their statements: expiry sweeps, chunks, paging | 2 callers, 2 calls, 2 keys, chunks and pages of 1 |
| `redis` | Redis in a cluster, KeyDB and Valkey: transactions by master, `SCAN`, index set, connecting and closing | 2 callers, 2 calls, 2 keys on 2 masters, chunks of 1 |
| `entries` | memcached, etcd, DynamoDB, MongoDB, RocksDB: late commands, leases, unfinished batches, TTLs kept, rows judged late | 2 callers, 2 calls, 2 keys with or without an entry that has expired or expires at the first tick, chunks of 1 or 2, a second of 2 ticks |
| `facade_sweep_sanitized` | a statement of the repository that the code does not keep, and the reason for an assumption of a theorem (sections 4 and 5) | 1 caller |

One configuration belongs to no run: `MCBigMap` checks `BigMap` (three keys, one
to three `Map`s, two hash functions that agree nowhere, a walk), whose properties
`OneShard` and `ImplementsMap` are theorems for every instance.

Bounds: `MaxTime` (clock), `MaxBatch` (entries of a batch), `MaxCalls` (calls
made in total), `MaxInserts` (insertions into the `Map`), `MaxSteps` and `MaxChanges` (calls of
synchronous methods).  A race needs two
calls, one to read and one to write between its awaits (or a setter, which counts
as a call in `BridgeAdapter`), and so do an orphaned command and the call it
disturbs; with chunks and pages of one, a batch of two is cut and an iteration
turns a page; an expiry needs a TTL of
1 and two ticks; a misaligned answer needs a batch of two with one entry
dropped; a repeated key needs a batch of two; a namespace confused with another
needs two namespaces with a common prefix.  Each run's constants reach these
cases, and each property has a mutant of the code in `PROJECT.json` that its
run finds.  Callers, and the objects, instances and keys of `statistics`, are
interchangeable and are symmetry sets where the run checks no liveness.

Fairness: `Storely!FairSpec` assumes weak fairness of each caller's steps: a promise
that is awaited settles and its continuation is run.  It assumes nothing of new
calls, of time or of the adapter's own expiry.  `CallsComplete` needs it only to
rule out a caller that is never resumed; its run (`facade_expiry`) has an adapter
without faults, since a fault is one more way for a call to end.  `BridgeAdapter!FairSpec` assumes
weak fairness of each caller's requests and continuations together: the store
answers and the task goes on.  A store that rejects again and again is allowed.
The storage adapters have no liveness property: a command that a service never
answers is a call that never ends, and but for command timeouts the code leaves
that to the client library.

Deadlock checking is off: when the bounds are used up, the system may stop.

## 4. Proofs

TLAPS, for every value of the constants that satisfies the named assumptions of
the module.

*The facade* (`StorelyProofs`).

* `TypeCorrect`: `Spec => []TypeOK`.  `TypeOK` is not inductive: a
  row index in `doomed[t]`, the length of `rows`, `enc` and `oks` and the operation of a
  call are tied to `pc[t]`; the inductive invariant adds these facts.
* `StoreOutlives`: `StoreOutlivesEnvelope`.  The strengthening
  says the same of entries in flight: an encoded entry's TTL, added to any time
  from now on, ends no earlier than its envelope.
* `SweepSafety`: `SweepSafe`, under the assumption that cleaning is
  idempotent on keys.  The strengthening follows a row from its read to its
  deletion: until the key becomes racy, the store holds the row that was read or
  nothing.  Run `facade_sweep_sanitized` shows that the assumption is needed.
* `FailuresReported`: `NoSilentFailure`.  `ReportInv` ties the operation to the
  await a call is at, and says of a call that failed before it that it has been
  rejected, or has raised an error event and, as a write, acknowledges nothing.
* `TelemetryMatches`: `TelemetryMatchesResult`.  `CountInv` gives the number of
  hits, misses and writes that belong to the rows and answers a call holds; on
  the fast path nothing waits for telemetry, so the property has nothing to say.
* `ReadsNeverExpired`: `ReadsUnexpired`, with `checkExpired` on.  The variant of
  `facade_expiry` in section 5 shows that it does not hold with `checkExpired` off.
* `WritesStayAligned`: `WritesAligned`.  `AlignInv` says that the batch handed
  to the adapter holds, at each of the caller's positions, that position's key and value or
  nothing; the theorem follows the scatter of the store's answers from there,
  also when a batch names one key twice.

*Memory and bridge adapter* (`MemoryAdapterProofs`, `BridgeAdapterProofs`).

* `MemoryAdapterProofs!TypeCorrect`, `IteratorCompletes`: places in the `Map` are
  unique and at most `inserts`; whatever the iterator has passed was seen.
* `MemoryImplementsPromise`: `Spec => ImplementsPromise`
  when the namespaces are `Separated`; the lemmas of prefixes show that then a
  full key determines its namespace and key.  A variant of run `memory`
  (section 5) shows that the assumption is needed.
* `BridgeAdapterProofs!TypeCorrect`: `CallsInv` adds to the types the form of the
  request a call waits on and of what it has answered so far, for every method,
  native or key by key, and both sides of a request (`asked`, `served`).
* `AnswersStayAligned`, `RefusalsStayReported`: `ToldsInv` ties each answer of a
  call so far to the row or boolean the store gave at its position (`told`), also
  across a setter that puts another store with other methods in between.
* `SweepsStaySafe`, `ClearsStayComplete`: `SweepInv` follows a key from the read
  that found it expired to its deletion; `ClearInv` says that whatever is in the
  namespace when a `clear` walks is collected, still to come, or raced.
* `ClearStaysInside`: `ClearIsolated`, an action property: of what a `clear` by
  iterator deletes, each key was collected, and so has the namespace's prefix.
  `BridgeAssumption` has the constants of these theorems; beyond types it says
  there is an adapter at all.

*Statistics, sanitizer and configuration* (`CoreProofs`).

* `AtMostOneListener`: `OneListener`.  `ListenersInv` adds that an object that
  is active has an emitter, and that no emitter but that one has its listener.
* `MapsKeepRecent`: `LruKeepsRecent`.  `MapsInv` says what a map is in terms of
  the events so far: the keys of the last events, in order of their last event,
  cut to the limit.  That the cut is at the right place follows by bijections
  between the keys of a map and the events that are the last of their key.
* `CachesStayRecent`, `AnswersStayCurrent`: `CacheKeepsRecent` and
  `AnswersCurrent` of `StorelySanitize`.  Its caches and the maps of the
  statistics are both kept by deleting an entry, appending it again and dropping
  the first, so the lemmas about that (`Recent`, `PromotedRecent`, `RecentKept`)
  serve both, and the module extends all three specifications (for which those of
  the sanitizer and of the configuration have names of their own, `SanitizeSpec` and
  `ConfigSpec`).
  `Cached` adds that each cached result is that of the patterns enabled now.
* `NamespacesStaySynced`: `NamespaceSynced` unless adapter objects are shared
  (`~Shared`) or the `sanitize` setter changes a namespace (`~Sanitizing`).
  `OwnStore`, that no two instances have one adapter object, is what makes it
  inductive.  `FastPathStaysCurrent`: `FastPathCurrent` unless a sanitizer in use
  is reconfigured (`~Updating`).  Three variants of run `configuration` in
  section 5 show that each of these assumptions is needed.

*SQL adapters* (`SqlProofs`).

* `TypeCorrect`, `ReadsStayCurrent`, `EffectsStayReported`, `SweepsStaySafe`:
  `TypeOK`, `ReadsCurrent`, `EffectsReported` and `SweepSafe`, for MySQL,
  PostgreSQL and SQLite at once, for all sizes of chunks and pages.  `CallsInv`: a
  call its caller waits for has exactly one statement in flight, and that
  statement says how far the call is.  `AnswersInv`: the entries that are
  answered for good (`Settled`: those of earlier chunks, or all while a sweep is
  out) have an answer their key held during the call, or, of a write, the
  outcome it had.  `SweptInv`: what a sweep is to delete has expired, is gone, or
  was written since.
* `WalksStayExact`: `WalksExact`.  `Walked` says of an iteration that what it
  yielded comes in the server's order, none of it beyond the key the next page is
  asked after (`last`), and that it has passed no key up to there; a page keeps
  this because it has the first keys that are due, and all of them if it is not
  full (`OnPageFirst`, `PageKeysOK`, `PageWalks`), whatever other calls do between
  two pages.
* Some thirty actions of three adapters are first brought into five forms
  (`Steps`: a start, a move of a call, a failure, a removal of expired rows, a
  tick; lemma `NextSplits`), and each form is shown to keep the invariant.  The
  assumptions on constants (`CallsAssumption`, `SqlAssumption`) say that `None`
  and `Stale` are no data, that keys are listed once, and that chunks and pages
  are not empty.

*Redis-like adapters* (`RedisProofs`).

* `TypeCorrect`, `ReadsStayCurrent`, `EffectsStayReported`, `OneSlotKept`:
  `TypeOK`, `ReadsCurrent`, `EffectsReported` and `OneSlot`, for Redis, KeyDB and
  Valkey at once, alone and in a cluster, while clients connect, fail to and are
  closed, and calls time out.  Other than an SQL adapter's, a call of these has
  several commands in flight, so how far it is cannot be read off one of them.
  `Covers` says which entries a command, and those that follow it, have yet to
  answer: a `connect` those of the batch it was the first of, a chunk of
  Valkey's `deleteMany` all from its first key on.  `TaskOK`: each entry of a call is
  answered for good (`AnswerOK`), or it is open and one of the call's commands
  covers it.  When nothing is in flight, every entry is answered for good.
* A step is the start of a call (`EnterKeeps`), an answer after which the call goes on
  or ends (`ServeKeeps`, of which an action has to show `Moves`: what its command
  covered is answered or left to what it sends), an error that is answered
  (`FinishKeeps`) or thrown (`RejectKeeps`), a timeout (`GiveUpKeeps`) or a tick.
* `EffectsStayReported` supposes `Timely`: that Valkey is given no TTL its
  transactions refuse; `OneSlotKept` that Valkey's client is no cluster's.  Two
  variants of run `redis` in section 5 show that both are needed.
* `WalksStayComplete`: `WalksComplete`, from a second invariant above the first
  (`WInv`), for it is about what a walk has seen and not about what its entries were
  answered.  `Due` says which keys a command, and those that follow it, have yet to
  come to: a `scan` all from its page on, those of its master if it goes through one;
  an `mget` also the keys of the page in hand; a `clear` those it is to delete.
  `Walked`: each key of the namespace was seen gone, was yielded, or is due to a
  command in flight.  A page passes no key that is there, for an empty page is followed
  by the next (`AfterPage`), a key that `SCAN` returns again is yielded again or deleted
  again, and a clear scans on while it deletes (`RedisClears`): several commands of
  one walk may be in flight, and each key is due to one of them.  A walk one of whose
  commands fails ends as failed, and the property says nothing of it.  The lemmas
  show this for each action that serves a walk (`WalkServed`, `ScansOn`,
  `PageCleared`), and that no other step takes anything back: what was seen stays
  seen, and a command leaves the flight only when it is served.  `RedisAssumption`
  says that keys have masters and that `None`, which stands for a scan of all there
  is, is none of them.

*Entry adapters* (`EntryProofs`).

* `TypeCorrect`, `ReadsStayCurrent`, `EffectsStayReported`, `WalksStayComplete`,
  `TableStaysReady`, `SweepsStaySafe`, `TtlStaysKept`: every property of run
  `entries`, for the adapters of memcached, etcd, DynamoDB, MongoDB and RocksDB at
  once, for every number of callers, keys and namespaces and all sizes of chunks
  and pages, leases, seconds and clocks.  All follow from one invariant, `IInv`
  (theorem `Invariance`).
* A call has things to settle (`Items`): the entries of its batch, or, of a `clear`
  or an iteration, the keys of its namespace.  `TaskOK`: each is settled, or a command of
  the call in flight, or one sent after it, has yet to settle it (`Covers`).  What
  it is to be settled is said by operation: an answer the key held in the call, an
  outcome the write had, a key that is gone or was written in between, a key that was
  yielded.  When nothing is in flight all is settled, and that is the property.
* Other than with the adapters before, commands carry rows from one step of a call
  to a later one (`Hand`): a page in hand, or what a `getMany` of DynamoDB has read so
  far.  `Carries` says that each of them looks, by the clock it is judged by
  (`JudgeAt`), as its key looked at some moment of the call.  The pages of DynamoDB and
  MongoDB come with the clock of their reading; for rows that are judged late it is the
  clock at which the call was made, and once that has moved a row found expired says
  nothing of its key: this is what `JudgedLate` leaves out.
* `SweptOK`: what a command is to delete as expired is gone, expired, or was
  written since the call began, and a row in hand is still the row that is
  there, or it is gone or was written since.  With it each step of each adapter satisfies
  `SweepSafe`.  `TtlKept` needs that the lease an entry is put on is for the bucket
  of its TTL and that less than half of it was gone when the call was made (`ShapeOK`,
  `LeasesOK`).
* `TableStaysReady` follows the three states of DynamoDB's table: a client that has
  seen it there, or has made it, has waited until it is active.
* A step is the start of a call (`Enter`), an answer (`Serve`), a call given up
  (memcached's timeouts), an error, a removal by the server, or a tick; about seventy
  actions of five adapters are brought into these forms, and each form is shown to
  keep the invariant, from what the action has to show of its command.
* The hypotheses are about uses in which the code does less, and each is a row of
  section 5 or a statement of the code: `Reports` (no TTL of etcd's instance itself,
  whose `set` may send nothing and answer true; no batch of DynamoDB
  that names a key in two chunks), `Whole` (no key of RocksDB sorts after `~`, no
  `iterationLimit` ends an iteration), `Alone` (one namespace in memcached, whose `clear`
  is a flush of the server), `Positive` (no TTL of zero or less with MongoDB, which takes
  it for none).  Each is about one adapter and says nothing of the other four, and
  run `entries` satisfies all of them.

*BigMap* (`BigMapProofs`).

* `IsOneMap`: `Spec => ImplementsMap`, a refinement of `MapObject`,
  and `OneShardHolds`.  The theorems take their hypothesis, `CarefulUse`, as an
  ASSUME: hash results are integers, sizes are positive, and the hash function is
  set while the BigMap is empty and the size while nobody walks it.  The
  inductive invariant says that an entry lies in the `Map` its key hashes to, and
  that what a walk still owes is held and lies in a `Map` it has not passed.
  That `size`, a sum over `Map`s, is the number of keys follows by a bijection.

Only model-checked: the liveness properties (`CallsComplete` of the facade and of
the bridge adapter), which are out of the prover's reach.  Every other property of a
passing run is a theorem.

## 5. Where code and documentation disagree

One disagreement is a run that TLC finds violated (`findings` in
`PROJECT.json`): the sweep of expired keys cleans keys a second time and then
deletes another entry.

The others were met while modelling.  Each is found by TLC in a variant of a
run: its configuration with the constants given here, and this property instead
of the run's.

| Run | Constants | Property | What the code does |
|---|---|---|---|
| `facade_expiry` | | `SweepRemovesOnlyExpired` | a sweep deletes a value that was written between its read and its delete (`storely.ts` 1236) |
| `facade_expiry` | `CheckExpired = FALSE`, `Ops = {"getRaw", "setRaw"}`, `Expiries = {0}` | `ReadsUnexpired` | without `checkExpired`, `getRaw` returns an envelope that `setRaw` stored expired, against `storely.ts` 529 |
| `facade_faults` | | `RawBatchEventsMatchSets` | `setManyRaw` counts entries the adapter refused (`storely.ts` 879) |
| `memory` | `Namespaces <- NestedNamespaces` | `ImplementsPromise` | clearing namespace `a` clears `a:b` (`memory.ts`, by prefix) |
| `bridge` | | `AllRefusalsReported` | the key-by-key `setMany` reports refused entries as set (`bridge.ts` 297) |
| `bridge` | | `HasUnexpired` | a native `has` or `hasMany` is true for expired data, against `bridge.ts` 305 |
| `bridge` | | `AnswersComplete` | after the store was replaced by one without `getMany`, `getMany` answers an empty array (`bridge.ts` 228) |
| `statistics` | | `DisabledIsSilent` | the facade's `stats` setter subscribes an object that is not enabled (`storely.ts` 317) |
| `statistics` | `Limits = {1, 3}` | `MapsBounded` | the maps stay above a lowered `maxEntries` (`stats.ts` 243) |
| `configuration` | `Shared = TRUE` | `NamespaceSynced` | of two instances over one adapter object, the last namespace set holds for both, against `storely.ts` 49 |
| `configuration` | `Sanitizing = TRUE` | `NamespaceSynced` | the `sanitize` setter leaves the adapter's namespace as it was (`storely.ts` 286) |
| `configuration` | `Updating = TRUE` | `FastPathCurrent` | `updateOptions` of a sanitizer in use leaves `_fastPath` as it was, against `storely.ts` 88 |
| `configuration` | | `RemoteSerialized` | an instance moved from an in-memory to a remote store does not serialize (`storely.ts` 364) |
| `redis` | `Adapters = Clusters = {"valkey"}`, `ChunkSize = 2` | `OneSlot` | in a cluster Valkey's `deleteMany` puts all keys into one transaction, as if their slot were 0 (`valkey/src/index.ts` 457), against its comment at 435 |
| `redis` | `Adapters = {"valkey"}`, `Clusters = {}`, `Namespaces = {"n", "nm"}`, `Extending <- MCExtending` | `SweepSafe` | Valkey's `clear` by `SCAN` matches the namespace without a separator and clears namespaces that start alike (`valkey/src/index.ts` 569), against its README 286 |
| `redis` | | `IndexComplete` | a key set while Valkey's `clear` is between its commands is lost to the index set (`valkey/src/index.ts` 548), against its README 134 |
| `redis` | `Adapters = {"valkey"}`, `Clusters = {}`, `Lives <- MCRefused` | `EffectsReported` | with `useSets`, Valkey's `set` answers true of a TTL the transaction refuses, and nothing was written (`valkey/src/index.ts` 269) |
| `entries` | | `SetManyReported` | etcd's `setMany` answers true for entries that were not written: `set` resolves although it failed, and `allSettled` sees it fulfilled (`etcd/src/index.ts` 395) |
| `entries` | `Adapters = {"etcd"}`, `SharedTtl = 3` | `EffectsReportedElse` | an etcd instance that was given its `ttl` by the setter, or disconnected, has a TTL and no lease: `set` sends nothing and answers true (`etcd/src/index.ts` 349) |
| `entries` | | `TtlCovered` | a shared lease is reused with as little as half of the TTL left (`etcd/src/index.ts` 373), against the comment above it |
| `entries` | `Adapters = {"rocksdb"}`, `IterationLimit = 1` | `WalksCompleteElse` | `iterationLimit`, documented as the size of a batch, ends the iteration (`rocksdb/src/index.ts` 654) |
| `entries` | `Adapters = {"rocksdb"}`, `PastTilde = {"l"}` | `WalksCompleteElse` | `clear` ends at the prefix followed by `~` and leaves keys that sort after it (`rocksdb/src/index.ts` 620) |
| `entries` | `Adapters = {"dynamo"}`, `WriteChunk = 1` | `EffectsReportedElse` | of two entries with one key in different chunks, the one the service left unprocessed is reported at the position of the other, and as written at its own (`dynamo/src/index.ts` 269) |
| `entries` | `Adapters = {"etcd"}` or `{"rocksdb"}` | `WalksComplete` | the iterator judges rows it took before by the clock of the moment, and passes a key that was there all the time because the row it took has run out, though another was written (`etcd/src/index.ts` 465, `rocksdb/src/index.ts` 661); `get` and `has` of the same adapters do not |
| `entries` | `Adapters = {"dynamo"}` | `ReadsCurrent` | `getMany` and `hasMany` judge rows read in earlier requests after the last (`dynamo/src/index.ts` 380), and answer a key as absent that was there all the time |
| `MCBigMap` | `Careless = TRUE` | `OneShard` | setting the hash function strands the entries there are: they are walked and counted, but not found (`bigmap/src/index.ts` 171) |

## 6. Plan

1. `Storely` (done) and its proofs.
2. `KeyPrefix`, `NamespacedStore`, `MemoryAdapter` (done), refinement proof.
3. `BridgeAdapter` (done; its safety properties are proved).
4. `StorelyStats`, `StorelySanitize` (done, proved).
5. `StorelyConfig` (done, proved).
6. Storage adapters (done, proved).
7. `BigMap` (done, proved).

## 7. Not modelled

* *Pools shared by adapters* of PostgreSQL and MySQL (`pool.ts`): one adapter's
  disconnect ends the pool of the others.  Each adapter of the models has its own.
* *GridFS* in the MongoDB adapter: a file is written as a stream of chunks, which
  is another store with its own consistency.
* *Valkey*: `useSets` in a cluster, and the index key of earlier versions.
  *Redis, KeyDB*: calls without a namespace; reconnection, which is the client
  library's.  *SQLite*: drivers and migration of earlier tables.  *memcached*:
  eviction.  The getters and setters of options of all storage adapters.
* *Capability detection*: a stateless table of which methods an object has; what
  follows from it is a constant of `BridgeAdapter` and `StorelyConfig`.
* *JSON serializer*, compression, encryption and serialization packages: stateless
  conversions, whose round trip is about characters and bytes; that they can fail
  is in the facade model.
* *OpenTelemetry*: its state is the spans that are open.  `instrumentWithOtel`
  passes its handlers to `storely.hook(...)` (`observability/otel/src/index.ts`
  187, 189), which in the facade (`storely.ts` 1278) fires a hook, and it looks a
  span up by the payload of the `BEFORE_*` hook, while the facade gives `AFTER_*`
  hooks a payload of their own (`storely.ts` 437, 459).  As the code stands no
  span is opened, although its README (line 52) says every `get`, `set` and
  `delete` is wrapped in one; a model of the spans would hold by having none.
* The website, scripts, benchmarks and the conformance test suite.
