---------------------------- MODULE MemoryAdapter ----------------------------
(***************************************************************************)
(* StorelyMemoryAdapter (core/storely/src/adapters/memory.ts): adapters    *)
(* over one shared Map.  Every method but hasMany and iterator runs in one *)
(* task and is one action; hasMany awaits between its keys, and iterator   *)
(* is suspended at every yield while the live Map changes under it.        *)
(*                                                                         *)
(* A JavaScript Map iterates in insertion order, visits entries added      *)
(* during the iteration and keeps the place of an entry that is            *)
(* overwritten: an entry carries the number of its insertion, and an       *)
(* iterator the number it has reached.                                     *)
(***************************************************************************)
EXTENDS KeyPrefix, Integers

CONSTANTS
    Namespaces,  \* namespaces the adapters may be given
    Keys,        \* keys the callers use
    Values, None,
    Ttls,        \* TTL arguments, 0 for none
    Adapters,    \* the adapter objects over the Map
    Tasks,       \* callers of hasMany and iterator
    HasKeys,     \* the Map-like store has keys() and entries()
    MaxBatch, MaxTime, MaxInserts    \* bounds of the model

FullKeys == {GetKeyPrefix(k, ns) : k \in Keys, ns \in Namespaces}

\* What the Map holds, and what of it a caller can see.
Entry   == [val : Values, exp : Nat \cup {None}, seq : Nat \ {0}]
Visible == [val : Values, exp : Nat \cup {None}]

ASSUME AdapterAssumption ==
    /\ Namespaces \subseteq Seq(STRING) /\ Keys \subseteq Seq(STRING) /\ Separator \in STRING
    /\ Ttls \subseteq Nat /\ HasKeys \in BOOLEAN
    /\ None \notin Values /\ None \notin Int /\ None \notin Entry /\ None \notin Visible
    /\ {MaxBatch, MaxTime, MaxInserts} \subseteq Nat

VARIABLES
    now,        \* Date.now()
    map,        \* the shared Map: [val, exp, seq] for each full key, or None
    inserts,    \* how many entries were ever inserted
    namespace,  \* _namespace of each adapter
    task,       \* where each hasMany or iterator stands
    reply,      \* history: the last operation and its answer
    stable,     \* history: the full keys that were in the iterator's namespace
                \* when it started and were not deleted since
    seen        \* history: the full keys the iterator yielded

vars == <<now, map, inserts, namespace, task, reply, stable, seen>>

---------------------------------------------------------------------------
(* The Map *)

Expired(e) == e.exp # None /\ now > e.exp
Present(fk) == map[fk] # None /\ ~Expired(map[fk])
Found(fk)   == IF Present(fk) THEN map[fk].val ELSE None

\* Mutant of Outdated: the test is the other way around.
OutdatedSwapped(F) == {fk \in F : map[fk] # None /\ ~Expired(map[fk])}

\* The keys of F a read finds expired and deletes.
Outdated(F) == {fk \in F : map[fk] # None /\ Expired(map[fk])}

Drop(F) ==
    /\ map' = [fk \in FullKeys |-> IF fk \in F THEN None ELSE map[fk]]
    /\ stable' = [t \in Tasks |-> stable[t] \ F]

Full(a, k)   == GetKeyPrefix(k, namespace[a])
FullSet(a, ks) == {Full(a, ks[i]) : i \in 1..Len(ks)}

Lists(S) == UNION {[1..n -> S] : n \in 0..MaxBatch}
PutEntry == [key : Keys, val : Values, ttl : Ttls]
Answer(op, ns, keys, res) == reply' = [op |-> op, ns |-> ns, keys |-> keys, res |-> res]

---------------------------------------------------------------------------
(* The methods that run in one task *)

\* get and getMany: an expired entry is deleted and answered as undefined.
Get(a, ks) ==
    /\ Answer("get", namespace[a], ks, [i \in 1..Len(ks) |-> Found(Full(a, ks[i]))])
    /\ Drop(Outdated(FullSet(a, ks)))
    /\ UNCHANGED <<now, inserts, namespace, task, seen>>

Has(a, k) ==
    /\ Answer("has", namespace[a], <<k>>, <<Present(Full(a, k))>>)
    /\ Drop(Outdated({Full(a, k)}))
    /\ UNCHANGED <<now, inserts, namespace, seen>>

\* set and setMany write their entries in order: of two with the same key the
\* later stays, at the place the first one got.
At(a, es, fk) == {j \in 1..Len(es) : Full(a, es[j].key) = fk}
LastOf(J)  == CHOOSE j \in J : \A m \in J : m <= j
FirstOf(J) == CHOOSE j \in J : \A m \in J : j <= m

\* `ttl ? Date.now() + ttl : undefined`
Expires(ttl) == IF ttl = 0 THEN None ELSE now + ttl

\* A key that is in the Map keeps its place, another is appended.
Place(fk, J) == IF map[fk] # None THEN map[fk].seq ELSE inserts + FirstOf(J)

Stored(a, es, fk) ==
    LET J == At(a, es, fk)
    IN  [val |-> es[LastOf(J)].val, exp |-> Expires(es[LastOf(J)].ttl), seq |-> Place(fk, J)]

Set(a, es) ==
    /\ inserts + Len(es) <= MaxInserts
    /\ map' = [fk \in FullKeys |-> IF At(a, es, fk) = {} THEN map[fk] ELSE Stored(a, es, fk)]
    /\ inserts' = inserts + Len(es)
    /\ Answer("set", namespace[a], [i \in 1..Len(es) |-> es[i].key], [i \in 1..Len(es) |-> TRUE])
    /\ UNCHANGED <<now, namespace, task, stable, seen>>

\* delete and deleteMany answer what Map.delete or Map.has said, also of an
\* entry that is expired but still there; a repeated key is gone the second time.
Delete(a, ks) ==
    /\ Answer("delete", namespace[a], ks,
              [i \in 1..Len(ks) |-> /\ map[Full(a, ks[i])] # None
                                    /\ \A j \in 1..(i - 1) : ks[j] # ks[i]])
    /\ Drop(FullSet(a, ks))
    /\ UNCHANGED <<now, inserts, namespace, task, seen>>

\* clear: everything, if there is no namespace or the Map cannot list its keys.
Clear(a) ==
    /\ Answer("clear", namespace[a], <<>>, <<>>)
    /\ Drop({fk \in FullKeys : ~HasKeys \/ InNamespace(fk, namespace[a])})
    /\ UNCHANGED <<now, inserts, namespace, task, seen>>

\* The namespace setter, used by Storely when a store or a namespace is set.
SetNamespace(a, ns) ==
    /\ namespace' = [namespace EXCEPT ![a] = ns]
    /\ UNCHANGED <<now, map, inserts, task, reply, stable, seen>>

---------------------------------------------------------------------------
(* hasMany: one has per task switch *)

Idle == [st |-> "idle"]

HasMany(t, a, ks) ==
    /\ task[t] = Idle /\ ks # <<>>
    /\ task' = [task EXCEPT ![t] = [st |-> "hasMany", a |-> a, keys |-> ks]]
    /\ UNCHANGED <<now, map, inserts, namespace, reply, stable, seen>>

Rest(t) == Tail(task[t].keys)

\* Mutant of HasManyNext: the loop runs past the last key.
HasManyOverrun(t) ==
    /\ task[t].st = "hasMany"
    /\ Has(task[t].a, Head(task[t].keys))
    /\ task' = [task EXCEPT ![t].keys = Rest(t)]

HasManyNext(t) ==
    /\ task[t].st = "hasMany"
    /\ Has(task[t].a, Head(task[t].keys))
    /\ task' = [task EXCEPT ![t] =
                    IF Rest(t) = <<>> THEN Idle ELSE [task[t] EXCEPT !.keys = Rest(t)]]

---------------------------------------------------------------------------
(* iterator: the namespace is read when it starts; entries() is live *)

Iterate(t, a) ==
    /\ task[t] = Idle /\ HasKeys
    /\ task' = [task EXCEPT ![t] = [st |-> "iterator", ns |-> namespace[a], cursor |-> 0]]
    /\ stable' = [stable EXCEPT ![t] =
                     {fk \in FullKeys : map[fk] # None /\ InNamespace(fk, namespace[a])}]
    /\ seen' = [seen EXCEPT ![t] = {}]
    /\ UNCHANGED <<now, map, inserts, namespace, reply>>

\* The entries of the iterator's namespace it has not passed yet.
Ahead(t) == {fk \in FullKeys : /\ map[fk] # None /\ map[fk].seq > task[t].cursor
                               /\ InNamespace(fk, task[t].ns)}
\* The first of them that is not expired, and the expired ones before it.
IsNext(t, fk) ==
    /\ fk \in Ahead(t) /\ ~Expired(map[fk])
    /\ \A g \in Ahead(t) : map[g].seq < map[fk].seq => Expired(map[g])
Skipped(t, fk) == {g \in Ahead(t) : map[g].seq < map[fk].seq}

\* The loop up to its next yield, deleting the expired entries on its way.
IteratorNext(t) ==
    /\ task[t].st = "iterator"
    /\ \E fk \in FullKeys :
          /\ IsNext(t, fk)
          /\ task' = [task EXCEPT ![t].cursor = map[fk].seq]
          /\ Drop(Skipped(t, fk))
          /\ Answer("iterator", task[t].ns, <<StripPrefix(fk, task[t].ns)>>, <<map[fk].val>>)
          /\ seen' = [seen EXCEPT ![t] = @ \cup {fk}]
    /\ UNCHANGED <<now, inserts, namespace>>

\* Mutant of IteratorEnd: the loop ends at the first entry of another namespace.
IteratorEndForeign(t) ==
    /\ task[t].st = "iterator"
    /\ \/ Ahead(t) = {}
       \/ \E g \in FullKeys : /\ map[g] # None /\ map[g].seq > task[t].cursor
                              /\ ~InNamespace(g, task[t].ns)
                              /\ \A fk \in Ahead(t) : map[g].seq < map[fk].seq
    /\ task' = [task EXCEPT ![t] = Idle]
    /\ UNCHANGED <<now, map, stable, inserts, namespace, reply, seen>>

\* The rest of the loop, if no live entry is ahead.
IteratorEnd(t) ==
    /\ task[t].st = "iterator"
    /\ \A fk \in Ahead(t) : Expired(map[fk])
    /\ Drop(Ahead(t))
    /\ task' = [task EXCEPT ![t] = Idle]
    /\ UNCHANGED <<now, inserts, namespace, reply, seen>>

---------------------------------------------------------------------------
Tick == now < MaxTime /\ now' = now + 1
        /\ UNCHANGED <<map, inserts, namespace, task, reply, stable, seen>>

Init ==
    /\ now = 0 /\ inserts = 0
    /\ map = [fk \in FullKeys |-> None]
    /\ namespace \in [Adapters -> Namespaces]
    /\ task = [t \in Tasks |-> Idle]
    /\ reply = None
    /\ stable = [t \in Tasks |-> {}] /\ seen = [t \in Tasks |-> {}]

HasOne(a, k) == Has(a, k) /\ UNCHANGED task

Next ==
    \/ \E a \in Adapters :
          \/ \E ks \in Lists(Keys) : Get(a, ks) \/ Delete(a, ks)
          \/ \E k \in Keys : HasOne(a, k)
          \/ \E es \in Lists(PutEntry) : Set(a, es)
          \/ Clear(a)
          \/ \E ns \in Namespaces : SetNamespace(a, ns)
    \/ \E t \in Tasks :
          \/ \E a \in Adapters : \/ \E ks \in Lists(Keys) : HasMany(t, a, ks)
                                 \/ Iterate(t, a)
          \/ HasManyNext(t) \/ IteratorNext(t) \/ IteratorEnd(t)
    \/ Tick

Spec == Init /\ [][Next]_vars

---------------------------------------------------------------------------
(* Properties *)

Task  == {Idle} \cup [st : {"hasMany"}, a : Adapters, keys : Seq(Keys) \ {<<>>}]
                \cup [st : {"iterator"}, ns : Namespaces, cursor : Nat]

\* Every variable stays in its type: what hasMany and iterator still have to do
\* is well formed, and an entry of the Map has a value, an expiry and a place.
TypeOK ==
    /\ now \in Nat /\ inserts \in Nat
    /\ map \in [FullKeys -> Entry \cup {None}]
    /\ namespace \in [Adapters -> Namespaces]
    /\ task \in [Tasks -> Task]
    /\ stable \in [Tasks -> SUBSET FullKeys] /\ seen \in [Tasks -> SUBSET FullKeys]

\* What a caller of the adapters sees of namespace ns: the entries that are
\* not expired.  Deleting an expired entry on the way of a read is invisible.
Seen(ns, k) == LET e == map[GetKeyPrefix(k, ns)]
               IN  IF e # None /\ ~Expired(e) THEN [val |-> e.val, exp |-> e.exp] ELSE None

\* The adapters over one Map implement one store per namespace: no operation
\* through one namespace (get, set, delete, clear, a running iterator or
\* hasMany, a change of the adapter's namespace) changes or shows what belongs
\* to another, nothing live is lost to the lazy deletion of expired entries,
\* and an iterator yields only live entries of the namespace it started with.
DataMap == [ns \in Namespaces |-> [k \in Keys |-> Seen(ns, k)]]
Promise == INSTANCE NamespacedStore WITH clock <- now, data <- DataMap

ImplementsPromise == Promise!Spec

\* An iterator that ends has yielded every entry of its namespace that was in
\* the Map when it started and was neither deleted nor expired since, however
\* the Map changed between two yields.
IteratorComplete ==
    [][\A t \in Tasks : (task[t].st = "iterator" /\ task'[t].st = "idle") =>
          \A fk \in stable[t] : fk \in seen[t] \/ Expired(map[fk])]_vars
=============================================================================
