--------------------------------- MODULE BigMap ---------------------------------
(***************************************************************************)
(* BigMap (core/bigmap/src/index.ts): a Map kept in storeSize Maps, of     *)
(* which a hash function of the key names one.  Every method is            *)
(* synchronous; a walk (entries, keys, values, forEach) is suspended at    *)
(* each of its entries, and goes on over the Maps as they are by then.     *)
(*                                                                         *)
(* A Map's own walk is known by what it yielded: it yields every entry it  *)
(* finds, in an order the model leaves open, and sees entries that are     *)
(* added before it ends.                                                   *)
(***************************************************************************)
EXTENDS Integers, FiniteSets

CONSTANTS
    Keys, Values, None,
    Text,       \* String(key), which is what is hashed
    Sizes,      \* values of storeSize
    Hashes,     \* hash functions, the default one among them
    Raw,        \* what they return for a text and a size, rounded down
    Walks,      \* walks that may be open at a time
    Careless    \* the setters are used while there are entries or walks

VARIABLES
    storeSize,  \* _storeSize
    hash,       \* _storeHashFunction
    store,      \* _store: the value of each key in each of the Maps
    walk,       \* each walk: the Map it is at, and what it yielded of what is
                \* still there; the Maps it walks, if they are no longer _store;
                \* and, as history, what was there from its beginning
    answer

vars == <<storeSize, hash, store, walk, answer>>

Maps(n)  == 0..(n - 1)
Empty(n) == [i \in Maps(n) |-> [k \in Keys |-> None]]

Abs(n) == IF n < 0 THEN -n ELSE n

\* _resolve, and the short way of a single Map.
Shard(h, n, k) == IF n = 1 THEN 0 ELSE Abs(Raw[h][n][Text[k]]) % n
ShardOf(k)     == Shard(hash, storeSize, k)

Held(k)    == store[ShardOf(k)][k]
Anywhere   == {p \in Maps(storeSize) \X Keys : store[p[1]][p[2]] # None}
SomeHeld   == {k \in Keys : \E i \in Maps(storeSize) : store[i][k] # None}
Walking(w) == walk[w] # None

\* initStore: a new array of Maps, which open walks do not turn to.
StoreIs(n) ==
    /\ storeSize' = n /\ store' = Empty(n)
    /\ walk' = [w \in Walks |->
                   IF walk[w] = None THEN None
                   ELSE [walk[w] EXCEPT !.must = {}, !.old = IF @ = None THEN store ELSE @]]

---------------------------------------------------------------------------
(* Methods *)

Get(k) == answer' = <<"get", Held(k)>> /\ UNCHANGED <<storeSize, hash, store, walk>>
Has(k) == answer' = <<"has", Held(k) # None>> /\ UNCHANGED <<storeSize, hash, store, walk>>

\* size: the sum of the sizes of the Maps.
Size == answer' = <<"size", Cardinality(Anywhere)>> /\ UNCHANGED <<storeSize, hash, store, walk>>

Set(k, v) ==
    /\ store' = [store EXCEPT ![ShardOf(k)][k] = v]
    /\ UNCHANGED <<storeSize, hash, walk, answer>>

\* Open walks forget what is deleted: it may come again, as another entry.
Gone(K) ==
    walk' = [w \in Walks |->
                IF walk[w] = None THEN None
                ELSE IF walk[w].old # None THEN walk[w]
                ELSE [walk[w] EXCEPT !.must = @ \ K, !.done = @ \ K]]

Delete(k) ==
    /\ answer' = <<"delete", Held(k) # None>>
    /\ store' = [store EXCEPT ![ShardOf(k)][k] = None]
    /\ Gone({k})
    /\ UNCHANGED <<storeSize, hash>>

Clear ==
    /\ store' = Empty(storeSize)
    /\ Gone(Keys)
    /\ UNCHANGED <<storeSize, hash, answer>>

---------------------------------------------------------------------------
(* Walks *)

Start(w) ==
    /\ walk[w] = None
    /\ walk' = [walk EXCEPT ![w] = [at |-> 0, done |-> {}, old |-> None, must |-> SomeHeld]]
    /\ UNCHANGED <<storeSize, hash, store, answer>>

Walked(w)  == IF walk[w].old = None THEN store ELSE walk[w].old
\* What the Maps from a to b still have for walk w.
Left(w, a, b) == {k \in Keys : \E i \in DOMAIN Walked(w) : a <= i /\ i <= b /\ Walked(w)[i][k] # None
                                                           /\ k \notin walk[w].done}

\* The Maps before the next entry are left behind.
Yield(w, k) ==
    /\ Walking(w)
    /\ \E i \in DOMAIN Walked(w) :
          /\ walk[w].at <= i /\ Left(w, walk[w].at, i - 1) = {}
          /\ Walked(w)[i][k] # None /\ k \notin walk[w].done
          /\ walk' = [walk EXCEPT ![w].at = i, ![w].done = @ \cup {k}]
          /\ answer' = <<"yield", k, Walked(w)[i][k]>>
    /\ UNCHANGED <<storeSize, hash, store>>

End(w) ==
    /\ Walking(w)
    /\ \A i \in DOMAIN Walked(w) : Left(w, walk[w].at, i) = {}
    /\ walk' = [walk EXCEPT ![w] = None]
    /\ UNCHANGED <<storeSize, hash, store, answer>>

---------------------------------------------------------------------------
(* Setters *)

SetStoreSize(n) ==
    /\ Careless \/ \A w \in Walks : ~Walking(w)
    /\ StoreIs(n)
    /\ UNCHANGED <<hash, answer>>

\* The entries stay where they are.
SetStoreHashFunction(h) ==
    /\ Careless \/ SomeHeld = {}
    /\ hash' = h
    /\ UNCHANGED <<storeSize, store, walk, answer>>

Init ==
    /\ storeSize \in Sizes /\ hash \in Hashes
    /\ store = Empty(storeSize)
    /\ walk = [w \in Walks |-> None]
    /\ answer = <<>>

Next ==
    \/ \E k \in Keys : \/ Get(k) \/ Has(k) \/ Delete(k)
                       \/ \E v \in Values : Set(k, v)
    \/ Size \/ Clear
    \/ \E w \in Walks : Start(w) \/ End(w) \/ \E k \in Keys : Yield(w, k)
    \/ \E n \in Sizes : SetStoreSize(n)
    \/ \E h \in Hashes : SetStoreHashFunction(h)

Spec == Init /\ [][Next]_vars

---------------------------------------------------------------------------
(* Properties *)

\* An entry is in the Map its key is looked for in, so no key has two of them.
OneShard == \A k \in Keys, i \in Maps(storeSize) : store[i][k] # None => i = ShardOf(k)

\* "BigMap is a scalable Map implementation": whatever the hash functions, it is
\* one Map.
WalkOf(w) == IF walk[w] = None THEN None ELSE [must |-> walk[w].must, done |-> walk[w].done]
OneMap    == INSTANCE MapObject WITH map  <- [k \in Keys |-> Held(k)],
                                     walk <- [w \in Walks |-> WalkOf(w)]
ImplementsMap == OneMap!Spec
=============================================================================
