----------------------------- MODULE BigMapProofs -----------------------------
(***************************************************************************)
(* BigMap.tla implements MapObject.tla, for every set of keys, texts,      *)
(* sizes, hash functions and walks, as long as the hash function is set    *)
(* while the BigMap is empty and the size while nobody walks it.           *)
(***************************************************************************)
EXTENDS BigMap, FiniteSetTheorems, TLAPS

WalkRec  == [at : Nat, done : SUBSET Keys, old : {None}, must : SUBSET Keys]
Promised == [must : SUBSET Keys, done : SUBSET Keys]

\* What the theorem asks of the constants.
CarefulUse ==
    /\ Careless = FALSE
    /\ Sizes \subseteq Nat \ {0}
    /\ \A h \in Hashes, n \in Sizes, k \in Keys : Raw[h][n][Text[k]] \in Int
    /\ IsFiniteSet(Keys)
    /\ None \notin Values /\ None \notin WalkRec /\ None \notin Promised

TypeOK ==
    /\ storeSize \in Sizes /\ hash \in Hashes
    /\ store \in [Maps(storeSize) -> [Keys -> Values \cup {None}]]
    /\ walk \in [Walks -> WalkRec \cup {None}]

\* A walk owes nothing but what is there, and has not passed it.
Ahead ==
    \A w \in Walks : walk[w] # None =>
        \A k \in walk[w].must : /\ k \in Keys /\ Held(k) # None
                                /\ k \in walk[w].done \/ walk[w].at <= ShardOf(k)

IInv == TypeOK /\ OneShard /\ Ahead

MapOf   == [k \in Keys |-> Held(k)]
WalksOf == [w \in Walks |-> WalkOf(w)]

---------------------------------------------------------------------------
(* Lemmas *)

\* _resolve names one of the Maps, whatever the hash function returns.
LEMMA ShardIsAMap ==
    ASSUME CarefulUse, NEW h \in Hashes, NEW n \in Sizes, NEW k \in Keys
    PROVE  Shard(h, n, k) \in Maps(n) /\ Shard(h, n, k) \in Nat
  <1> DEFINE raw == Raw[h][n][Text[k]]
  <1>1. n \in Nat /\ n > 0 /\ raw \in Int
    <2>1. n \in Nat \ {0}
      BY DEF CarefulUse
    <2>2. raw \in Int
      BY DEF CarefulUse
    <2> QED BY <2>1, <2>2
  <1>2. Abs(raw) \in Nat
    BY <1>1 DEF Abs
  <1>3. ASSUME NEW a \in Nat PROVE a % n \in 0..(n - 1)
    BY <1>1, <1>3
  <1> HIDE DEF raw
  <1>4. Abs(raw) % n \in 0..(n - 1)
    BY <1>2, <1>3
  <1> QED BY <1>1, <1>4 DEF Shard, Maps, raw

\* What the BigMap has for a key is a value or nothing.
LEMMA HeldType ==
    ASSUME CarefulUse, TypeOK, NEW k \in Keys
    PROVE  /\ ShardOf(k) \in Maps(storeSize) /\ ShardOf(k) \in Nat
           /\ Held(k) \in Values \cup {None}
  BY ShardIsAMap DEF TypeOK, ShardOf, Held

\* A key that is anywhere is held.
LEMMA SomeIsHeld ==
    ASSUME CarefulUse, TypeOK, OneShard
    PROVE  SomeHeld = {k \in Keys : Held(k) # None}
  <1>1. ASSUME NEW k \in Keys, NEW i \in Maps(storeSize), store[i][k] # None
        PROVE  Held(k) # None
    BY <1>1 DEF OneShard, Held
  <1>2. ASSUME NEW k \in Keys, Held(k) # None
        PROVE  \E i \in Maps(storeSize) : store[i][k] # None
    BY <1>2, HeldType DEF Held
  <1> QED BY <1>1, <1>2 DEF SomeHeld

\* The sum of the sizes of the Maps is the number of keys.
LEMMA SizeIsCardinality ==
    ASSUME CarefulUse, TypeOK, OneShard
    PROVE  Cardinality(Anywhere) = Cardinality({k \in Keys : Held(k) # None})
  <1> DEFINE S == {k \in Keys : Held(k) # None}
             f == [k \in S |-> <<ShardOf(k), k>>]
  <1>1. IsFiniteSet(S)
    BY FS_Subset DEF CarefulUse
  <1>2. \A k \in S : f[k] \in Anywhere
    BY HeldType DEF Anywhere, Held
  <1>3. f \in [S -> Anywhere]
    BY <1>2
  <1>4. \A a, b \in S : f[a] = f[b] => a = b
    OBVIOUS
  <1>5. ASSUME NEW p \in Anywhere PROVE \E k \in S : f[k] = p
    <2>1. PICK i \in Maps(storeSize), k \in Keys : p = <<i, k>> /\ store[i][k] # None
      BY DEF Anywhere
    <2>2. i = ShardOf(k)
      BY <2>1 DEF OneShard
    <2>3. k \in S /\ f[k] = p
      BY <2>1, <2>2 DEF Held
    <2> QED BY <2>3
  <1>6. f \in Bijection(S, Anywhere)
    BY <1>3, <1>4, <1>5 DEF Bijection, Injection, Surjection, IsInjective
  <1>7. ExistsBijection(S, Anywhere)
    BY <1>6 DEF ExistsBijection
  <1> QED BY <1>1, <1>7, FS_Bijection

---------------------------------------------------------------------------
(* The invariant *)

LEMMA InitInvariant ==
    ASSUME CarefulUse, Init
    PROVE  IInv
  <1>1. TypeOK
    BY DEF Init, TypeOK, Empty
  <1>2. OneShard
    BY DEF Init, OneShard, Empty
  <1>3. Ahead
    BY DEF Init, Ahead
  <1> QED BY <1>1, <1>2, <1>3 DEF IInv

\* The calls that only answer.
Asks == UNCHANGED <<storeSize, hash, store, walk>>

LEMMA AsksInvariant ==
    ASSUME IInv, Asks
    PROVE  IInv'
  BY DEF IInv, TypeOK, OneShard, Ahead, Asks, Held, ShardOf, Maps

LEMMA SetInvariant ==
    ASSUME CarefulUse, IInv, NEW k \in Keys, NEW v \in Values, Set(k, v)
    PROVE  IInv'
  <1> USE DEF Set
  <1>1. \A x \in Keys : ShardOf(x)' = ShardOf(x)
    BY DEF ShardOf
  <1>2. ShardOf(k) \in Maps(storeSize)
    BY HeldType DEF IInv
  <1>3. TypeOK'
    BY <1>2 DEF IInv, TypeOK
  <1>4. \A i \in Maps(storeSize), x \in Keys :
           store'[i][x] = IF i = ShardOf(k) /\ x = k THEN v ELSE store[i][x]
    BY <1>2 DEF IInv, TypeOK
  <1>5. OneShard'
    BY <1>1, <1>4 DEF IInv, OneShard
  <1>6. \A x \in Keys : Held(x)' = IF x = k THEN v ELSE Held(x)
    BY <1>1, <1>4, HeldType DEF IInv, Held
  <1>7. Ahead'
    BY <1>1, <1>6 DEF IInv, Ahead, CarefulUse
  <1> QED BY <1>3, <1>5, <1>7 DEF IInv

\* What Gone leaves of the walks.
LEMMA GoneWalks ==
    ASSUME CarefulUse, TypeOK, NEW K, Gone(K)
    PROVE  /\ walk' \in [Walks -> WalkRec \cup {None}]
           /\ \A w \in Walks : (walk[w] = None) <=> (walk'[w] = None)
           /\ \A w \in Walks : walk[w] # None =>
                 /\ walk'[w].at = walk[w].at
                 /\ walk'[w].must = walk[w].must \ K
                 /\ walk'[w].done = walk[w].done \ K
  <1>1. ASSUME NEW w \in Walks, walk[w] # None
        PROVE  /\ walk'[w] \in WalkRec /\ walk'[w] # None
               /\ walk'[w].at = walk[w].at
               /\ walk'[w].must = walk[w].must \ K
               /\ walk'[w].done = walk[w].done \ K
    <2>1. walk[w] \in WalkRec
      BY <1>1 DEF TypeOK
    <2>2. walk'[w] = [walk[w] EXCEPT !.must = @ \ K, !.done = @ \ K]
      BY <1>1, <2>1 DEF Gone, WalkRec
    <2>3. walk'[w] \in WalkRec
      BY <2>1, <2>2 DEF WalkRec
    <2> QED BY <2>1, <2>2, <2>3 DEF WalkRec, CarefulUse
  <1>2. ASSUME NEW w \in Walks, walk[w] = None PROVE walk'[w] = None
    BY <1>2 DEF Gone
  <1>3. walk' = [w \in Walks |-> walk'[w]]
    BY DEF Gone
  <1>4. \A w \in Walks : walk'[w] \in WalkRec \cup {None}
    BY <1>1, <1>2
  <1>5. walk' \in [Walks -> WalkRec \cup {None}]
    BY <1>3, <1>4
  <1> QED BY <1>1, <1>2, <1>5

LEMMA DeleteInvariant ==
    ASSUME CarefulUse, IInv, NEW k \in Keys, Delete(k)
    PROVE  IInv'
  <1> USE DEF Delete
  <1>1. \A x \in Keys : ShardOf(x)' = ShardOf(x)
    BY DEF ShardOf
  <1>2. ShardOf(k) \in Maps(storeSize)
    BY HeldType DEF IInv
  <1>3. TypeOK'
    BY <1>2, GoneWalks DEF IInv, TypeOK
  <1>4. \A i \in Maps(storeSize), x \in Keys :
           store'[i][x] = IF i = ShardOf(k) /\ x = k THEN None ELSE store[i][x]
    BY <1>2 DEF IInv, TypeOK
  <1>5. OneShard'
    BY <1>1, <1>4 DEF IInv, OneShard
  <1>6. \A x \in Keys : Held(x)' = IF x = k THEN None ELSE Held(x)
    BY <1>1, <1>4, HeldType DEF IInv, Held
  <1>7. Ahead'
    BY <1>1, <1>6, GoneWalks DEF IInv, Ahead
  <1> QED BY <1>3, <1>5, <1>7 DEF IInv

LEMMA ClearInvariant ==
    ASSUME CarefulUse, IInv, Clear
    PROVE  IInv'
  <1> USE DEF Clear
  <1>1. TypeOK'
    BY GoneWalks DEF IInv, TypeOK, Empty
  <1>2. OneShard'
    BY DEF OneShard, Empty
  <1>3. \A w \in Walks : walk'[w] # None => walk'[w].must = {}
    BY GoneWalks DEF IInv, Ahead
  <1>4. Ahead'
    BY <1>3 DEF Ahead
  <1> QED BY <1>1, <1>2, <1>4 DEF IInv

LEMMA StartInvariant ==
    ASSUME CarefulUse, IInv, NEW w \in Walks, Start(w)
    PROVE  IInv'
  <1> USE DEF Start
  <1>1. UNCHANGED <<storeSize, hash, store>>
    OBVIOUS
  <1>2. TypeOK'
    BY DEF IInv, TypeOK, WalkRec, SomeHeld
  <1>3. OneShard'
    BY DEF IInv, OneShard, ShardOf
  <1>4. \A k \in Keys : Held(k)' = Held(k) /\ ShardOf(k)' = ShardOf(k)
    BY DEF Held, ShardOf
  <1>5. \A k \in SomeHeld : k \in Keys /\ Held(k) # None /\ 0 <= ShardOf(k)
    BY SomeIsHeld, HeldType DEF IInv
  <1>6. \A u \in Walks : walk'[u] = IF u = w THEN [at |-> 0, done |-> {}, old |-> None, must |-> SomeHeld]
                                     ELSE walk[u]
    BY DEF IInv, TypeOK
  <1>7. ASSUME NEW u \in Walks, walk'[u] # None, NEW k \in walk'[u].must
        PROVE  /\ k \in Keys /\ Held(k)' # None
               /\ k \in walk'[u].done \/ walk'[u].at <= ShardOf(k)'
    <2>1. CASE u = w
      BY <1>4, <1>5, <1>6, <1>7, <2>1
    <2>2. CASE u # w
      BY <1>4, <1>6, <1>7, <2>2 DEF IInv, Ahead
    <2> QED BY <2>1, <2>2
  <1>8. Ahead'
    BY <1>7 DEF Ahead
  <1> QED BY <1>2, <1>3, <1>8 DEF IInv

\* What an open walk has left: the Maps it walks are those of the BigMap.
LEMMA WalkedIsStore ==
    ASSUME CarefulUse, TypeOK, NEW w \in Walks, Walking(w)
    PROVE  /\ walk[w] \in WalkRec
           /\ Walked(w) = store /\ DOMAIN Walked(w) = Maps(storeSize)
  <1>1. walk[w] \in WalkRec
    BY DEF TypeOK, Walking
  <1>2. walk[w].old = None
    BY <1>1 DEF WalkRec
  <1> QED BY <1>1, <1>2 DEF TypeOK, Walked

\* What an open walk yields: the value of a key it did not yield yet, and what
\* it did not pass it has not left behind.
LEMMA YieldStep ==
    ASSUME CarefulUse, IInv, NEW w \in Walks, NEW k \in Keys, Yield(w, k)
    PROVE  /\ Held(k) # None /\ k \notin walk[w].done
           /\ answer' = <<"yield", k, Held(k)>>
           /\ walk'[w] \in WalkRec /\ walk[w] \in WalkRec
           /\ walk'[w].must = walk[w].must /\ walk'[w].done = walk[w].done \cup {k}
           /\ \A u \in Walks \ {w} : walk'[u] = walk[u]
           /\ walk' \in [Walks -> WalkRec \cup {None}]
           /\ \A x \in walk[w].must : x \in walk'[w].done \/ walk'[w].at <= ShardOf(x)
  <1>1. /\ walk[w] \in WalkRec
        /\ Walked(w) = store /\ DOMAIN Walked(w) = Maps(storeSize)
    BY WalkedIsStore DEF IInv, Yield
  <1>2. PICK i \in Maps(storeSize) :
          /\ walk[w].at <= i /\ Left(w, walk[w].at, i - 1) = {}
          /\ store[i][k] # None /\ k \notin walk[w].done
          /\ walk' = [walk EXCEPT ![w].at = i, ![w].done = @ \cup {k}]
          /\ answer' = <<"yield", k, store[i][k]>>
    BY <1>1 DEF Yield
  <1>3. storeSize \in Nat
    BY DEF IInv, TypeOK, CarefulUse
  <1>4. i \in Nat
    BY <1>3 DEF Maps
  <1>5. Held(k) = store[i][k]
    BY <1>2 DEF IInv, OneShard, Held
  <1>6. walk'[w] = [walk[w] EXCEPT !.at = i, !.done = walk[w].done \cup {k}]
    BY <1>2 DEF IInv, TypeOK
  <1>7. /\ walk'[w] \in WalkRec /\ walk'[w].at = i /\ walk'[w].must = walk[w].must
        /\ walk'[w].done = walk[w].done \cup {k}
    BY <1>1, <1>4, <1>6 DEF WalkRec
  <1>8. \A u \in Walks \ {w} : walk'[u] = walk[u]
    BY <1>2 DEF IInv, TypeOK
  <1>9. walk' = [u \in Walks |-> walk'[u]]
    BY <1>2 DEF IInv, TypeOK
  <1>10. \A u \in Walks : walk'[u] \in WalkRec \cup {None}
    BY <1>7, <1>8 DEF IInv, TypeOK
  <1>11. ASSUME NEW x \in walk[w].must, x \notin walk'[w].done
         PROVE  i <= ShardOf(x)
    <2>1. /\ x \in Keys /\ Held(x) # None /\ x \notin walk[w].done
          /\ walk[w].at <= ShardOf(x)
      BY <1>7, <1>11 DEF IInv, Ahead, Yield, Walking
    <2>2. ShardOf(x) \in Maps(storeSize) /\ ShardOf(x) \in Nat
      BY <2>1, HeldType DEF IInv
    <2>3. SUFFICES ASSUME ~(i <= ShardOf(x)) PROVE FALSE
      OBVIOUS
    <2>4. ShardOf(x) <= i - 1
      BY <1>4, <2>2, <2>3
    <2>5. x \in Left(w, walk[w].at, i - 1)
      BY <1>1, <2>1, <2>2, <2>4 DEF Left, Held
    <2> QED BY <1>2, <2>5
  <1> QED BY <1>1, <1>2, <1>5, <1>7, <1>8, <1>9, <1>10, <1>11

LEMMA YieldInvariant ==
    ASSUME CarefulUse, IInv, NEW w \in Walks, NEW k \in Keys, Yield(w, k)
    PROVE  IInv'
  <1>1. UNCHANGED <<storeSize, hash, store>>
    BY DEF Yield
  <1>2. TypeOK'
    BY <1>1, YieldStep DEF IInv, TypeOK
  <1>3. OneShard'
    BY <1>1 DEF IInv, OneShard, ShardOf
  <1>4. \A x \in Keys : Held(x)' = Held(x) /\ ShardOf(x)' = ShardOf(x)
    BY <1>1 DEF Held, ShardOf
  <1>5. ASSUME NEW u \in Walks, walk'[u] # None, NEW x \in walk'[u].must
        PROVE  /\ x \in Keys /\ Held(x)' # None
               /\ x \in walk'[u].done \/ walk'[u].at <= ShardOf(x)'
    <2>1. CASE u = w
      <3>1. walk[w] # None /\ x \in walk[w].must
        BY <1>5, <2>1, YieldStep DEF Yield, Walking
      <3>2. x \in Keys /\ Held(x) # None
        BY <3>1 DEF IInv, Ahead
      <3>3. x \in walk'[w].done \/ walk'[w].at <= ShardOf(x)
        BY <3>1, YieldStep
      <3> QED BY <1>4, <2>1, <3>2, <3>3
    <2>2. CASE u # w
      <3>1. walk'[u] = walk[u]
        BY <2>2, YieldStep
      <3> QED BY <1>4, <1>5, <3>1 DEF IInv, Ahead
    <2> QED BY <2>1, <2>2
  <1>6. Ahead'
    BY <1>5 DEF Ahead
  <1> QED BY <1>2, <1>3, <1>6 DEF IInv

LEMMA EndInvariant ==
    ASSUME CarefulUse, IInv, NEW w \in Walks, End(w)
    PROVE  IInv'
  BY DEF IInv, TypeOK, OneShard, Ahead, End, Held, ShardOf

LEMMA SetStoreSizeInvariant ==
    ASSUME CarefulUse, IInv, NEW n \in Sizes, SetStoreSize(n)
    PROVE  IInv' /\ walk' = walk /\ walk = [w \in Walks |-> None]
  <1>1. \A w \in Walks : walk[w] = None
    BY DEF SetStoreSize, CarefulUse, Walking
  <1>2. walk' = [w \in Walks |-> None]
    BY <1>1 DEF SetStoreSize, StoreIs
  <1>3. walk = [w \in Walks |-> None]
    BY <1>1 DEF IInv, TypeOK
  <1>4. TypeOK'
    BY <1>2 DEF IInv, TypeOK, SetStoreSize, StoreIs, Empty
  <1>5. OneShard'
    BY DEF OneShard, SetStoreSize, StoreIs, Empty
  <1>6. Ahead'
    BY <1>2 DEF Ahead
  <1> QED BY <1>2, <1>3, <1>4, <1>5, <1>6 DEF IInv

LEMMA SetStoreHashFunctionInvariant ==
    ASSUME CarefulUse, IInv, NEW h \in Hashes, SetStoreHashFunction(h)
    PROVE  /\ IInv'
           /\ \A k \in Keys : Held(k)' = Held(k)
  <1>1. UNCHANGED <<storeSize, store, walk>> /\ hash' = h /\ SomeHeld = {}
    BY DEF SetStoreHashFunction, CarefulUse
  <1>2. TypeOK'
    BY <1>1 DEF IInv, TypeOK
  <1>3. \A i \in Maps(storeSize), k \in Keys : store[i][k] = None
    BY <1>1 DEF SomeHeld
  <1>4. OneShard'
    BY <1>1, <1>3 DEF OneShard
  <1>5. \A k \in Keys : Held(k) = None
    BY <1>3, HeldType DEF IInv, Held
  <1>6. \A k \in Keys : Held(k)' = None
    <2>1. ASSUME NEW k \in Keys PROVE Shard(h, storeSize, k) \in Maps(storeSize)
      BY ShardIsAMap DEF IInv, TypeOK
    <2> QED BY <1>1, <1>3, <2>1 DEF Held, ShardOf
  <1>7. \A w \in Walks : walk[w] # None => walk[w].must = {}
    BY <1>5 DEF IInv, Ahead
  <1>8. Ahead'
    BY <1>1, <1>7 DEF Ahead
  <1> QED BY <1>2, <1>4, <1>5, <1>6, <1>8 DEF IInv

---------------------------------------------------------------------------
(* The refinement *)

\* What Gone does to the walks as a Map's user knows them.
LEMMA GoneMaps ==
    ASSUME CarefulUse, TypeOK, NEW K, Gone(K)
    PROVE  WalksOf' = [w \in Walks |-> IF WalksOf[w] = None THEN None
                         ELSE [must |-> WalksOf[w].must \ K, done |-> WalksOf[w].done \ K]]
  <1>1. ASSUME NEW w \in Walks
        PROVE  WalkOf(w)' = IF WalksOf[w] = None THEN None
                            ELSE [must |-> WalksOf[w].must \ K, done |-> WalksOf[w].done \ K]
    <2>1. CASE walk[w] = None
      <3>1. walk'[w] = None
        BY <2>1, GoneWalks
      <3> QED BY <2>1, <3>1 DEF WalksOf, WalkOf
    <2>2. CASE walk[w] # None
      <3>1. walk[w] \in WalkRec
        BY <2>2 DEF TypeOK
      <3>2. /\ walk'[w] # None
            /\ walk'[w].must = walk[w].must \ K /\ walk'[w].done = walk[w].done \ K
        BY <2>2, GoneWalks
      <3>3. WalksOf[w] = [must |-> walk[w].must, done |-> walk[w].done]
        BY <2>2 DEF WalksOf, WalkOf
      <3>4. WalksOf[w] \in Promised
        BY <3>1, <3>3 DEF WalkRec, Promised
      <3>5. WalksOf[w] # None
        BY <3>4 DEF CarefulUse
      <3>6. WalkOf(w)' = [must |-> walk[w].must \ K, done |-> walk[w].done \ K]
        BY <3>2 DEF WalkOf
      <3> QED BY <3>3, <3>5, <3>6
    <2> QED BY <2>1, <2>2
  <1> QED BY <1>1 DEF WalksOf

\* What an open walk is to a Map's user.
LEMMA WalkIsOpen ==
    ASSUME CarefulUse, TypeOK, NEW w \in Walks, Walking(w)
    PROVE  /\ WalksOf[w] # None
           /\ WalksOf[w] = [must |-> walk[w].must, done |-> walk[w].done]
  <1>1. walk[w] \in WalkRec
    BY WalkedIsStore
  <1>2. WalksOf[w] = [must |-> walk[w].must, done |-> walk[w].done]
    BY DEF Walking, WalksOf, WalkOf
  <1>3. WalksOf[w] \in Promised
    BY <1>1, <1>2 DEF WalkRec, Promised
  <1> QED BY <1>2, <1>3 DEF CarefulUse

\* Steps that leave the Maps alone leave the map, and its walks unless they turn.
LEMMA SameMap ==
    ASSUME UNCHANGED <<storeSize, hash, store>>
    PROVE  MapOf' = MapOf
  BY DEF MapOf, Held, ShardOf

LEMMA SameWalks ==
    ASSUME UNCHANGED walk
    PROVE  WalksOf' = WalksOf
  BY DEF WalksOf, WalkOf

LEMMA GetMaps ==
    ASSUME NEW k \in Keys, Get(k)
    PROVE  OneMap!Get(k)
  BY SameMap, SameWalks DEF Get, OneMap!Get, MapOf, WalksOf

LEMMA HasMaps ==
    ASSUME NEW k \in Keys, Has(k)
    PROVE  OneMap!Has(k)
  BY SameMap, SameWalks DEF Has, OneMap!Has, MapOf, WalksOf

LEMMA SizeMaps ==
    ASSUME CarefulUse, IInv, Size
    PROVE  OneMap!Size
  <1>1. OneMap!There = {k \in Keys : Held(k) # None}
    BY DEF OneMap!There
  <1>2. Cardinality(Anywhere) = Cardinality(OneMap!There)
    BY <1>1, SizeIsCardinality DEF IInv
  <1>3. MapOf' = MapOf /\ WalksOf' = WalksOf
    BY SameMap, SameWalks DEF Size
  <1>4. OneMap!Cardinality(OneMap!There) = Cardinality(OneMap!There)
    BY DEF OneMap!Cardinality, Cardinality, OneMap!IsFiniteSet, IsFiniteSet
  <1> QED BY <1>2, <1>3, <1>4 DEF Size, OneMap!Size, MapOf, WalksOf

\* Writing one key of its Map writes one key of the map.
LEMMA OneKeyMaps ==
    ASSUME CarefulUse, IInv, NEW k \in Keys, NEW v,
           UNCHANGED <<storeSize, hash>>, store' = [store EXCEPT ![ShardOf(k)][k] = v]
    PROVE  MapOf' = [MapOf EXCEPT ![k] = v]
  <1>1. \A x \in Keys : ShardOf(x)' = ShardOf(x)
    BY DEF ShardOf
  <1>2. ASSUME NEW x \in Keys PROVE Held(x)' = IF x = k THEN v ELSE Held(x)
    <2>1. ShardOf(k) \in Maps(storeSize) /\ ShardOf(x) \in Maps(storeSize)
      BY HeldType DEF IInv
    <2> QED BY <1>1, <2>1 DEF Held, IInv, TypeOK
  <1> QED BY <1>2 DEF MapOf

LEMMA SetMaps ==
    ASSUME CarefulUse, IInv, NEW k \in Keys, NEW v \in Values, Set(k, v)
    PROVE  OneMap!Set(k, v)
  <1>1. MapOf' = [MapOf EXCEPT ![k] = v]
    BY OneKeyMaps DEF Set
  <1> QED BY <1>1, SameWalks DEF Set, OneMap!Set, MapOf, WalksOf

LEMMA DeleteMaps ==
    ASSUME CarefulUse, IInv, NEW k \in Keys, Delete(k)
    PROVE  OneMap!Delete(k)
  <1>1. MapOf' = [MapOf EXCEPT ![k] = None]
    BY OneKeyMaps DEF Delete
  <1>2. OneMap!Gone({k})
    BY GoneMaps DEF IInv, Delete, OneMap!Gone, WalksOf
  <1> QED BY <1>1, <1>2 DEF Delete, OneMap!Delete, MapOf

LEMMA ClearMaps ==
    ASSUME CarefulUse, IInv, Clear
    PROVE  OneMap!Clear
  <1>1. ASSUME NEW k \in Keys PROVE Held(k)' = None
    <2>1. ShardOf(k)' = ShardOf(k) /\ ShardOf(k) \in Maps(storeSize)
      BY HeldType DEF IInv, Clear, ShardOf
    <2> QED BY <2>1 DEF Clear, Held, Empty
  <1>2. MapOf' = [k \in Keys |-> None]
    BY <1>1 DEF MapOf
  <1>3. OneMap!Gone(Keys)
    BY GoneMaps DEF IInv, Clear, OneMap!Gone, WalksOf
  <1> QED BY <1>2, <1>3 DEF Clear, OneMap!Clear, MapOf

LEMMA StartMaps ==
    ASSUME CarefulUse, IInv, NEW w \in Walks, Start(w)
    PROVE  OneMap!Start(w)
  <1> DEFINE r == [at |-> 0, done |-> {}, old |-> None, must |-> SomeHeld]
  <1>1. OneMap!There = SomeHeld
    BY SomeIsHeld DEF OneMap!There, IInv
  <1>2. walk' = [walk EXCEPT ![w] = r] /\ walk[w] = None
    BY DEF Start
  <1>3. r \in WalkRec
    BY DEF WalkRec, SomeHeld
  <1>4. r # None
    BY <1>3 DEF CarefulUse
  <1>5. walk'[w] = r
    BY <1>2 DEF IInv, TypeOK
  <1>6. WalkOf(w)' = [must |-> SomeHeld, done |-> {}]
    BY <1>4, <1>5 DEF WalkOf
  <1>7. \A u \in Walks : u # w => WalkOf(u)' = WalkOf(u)
    BY <1>2 DEF IInv, TypeOK, WalkOf
  <1>8. WalksOf' = [WalksOf EXCEPT ![w] = [must |-> SomeHeld, done |-> {}]]
    BY <1>6, <1>7 DEF WalksOf
  <1>9. WalksOf[w] = None
    BY <1>2 DEF WalksOf, WalkOf
  <1>10. MapOf' = MapOf /\ answer' = answer
    BY SameMap DEF Start
  <1> QED BY <1>1, <1>8, <1>9, <1>10 DEF OneMap!Start, MapOf, WalksOf

LEMMA YieldMaps ==
    ASSUME CarefulUse, IInv, NEW w \in Walks, NEW k \in Keys, Yield(w, k)
    PROVE  OneMap!Yield(w, k)
  <1>1. /\ WalksOf[w] # None
        /\ WalksOf[w] = [must |-> walk[w].must, done |-> walk[w].done]
    BY WalkIsOpen DEF IInv, Yield
  <1>2. walk'[w] # None
    BY YieldStep DEF CarefulUse
  <1>3. WalkOf(w)' = [must |-> WalksOf[w].must, done |-> WalksOf[w].done \cup {k}]
    <2>1. WalkOf(w)' = [must |-> walk'[w].must, done |-> walk'[w].done]
      BY <1>2 DEF WalkOf
    <2>2. walk'[w].must = walk[w].must /\ walk'[w].done = walk[w].done \cup {k}
      BY YieldStep
    <2>3. WalksOf[w].must = walk[w].must /\ WalksOf[w].done = walk[w].done
      BY <1>1
    <2> QED BY <2>1, <2>2, <2>3
  <1>4. \A u \in Walks : u # w => WalkOf(u)' = WalkOf(u)
    BY YieldStep DEF WalkOf
  <1>5. WalksOf' = [WalksOf EXCEPT ![w] = [must |-> WalksOf[w].must,
                                            done |-> WalksOf[w].done \cup {k}]]
    BY <1>3, <1>4 DEF WalksOf
  <1>6. MapOf' = MapOf
    BY SameMap DEF Yield
  <1>7. k \notin WalksOf[w].done /\ MapOf[k] # None /\ answer' = <<"yield", k, MapOf[k]>>
    BY <1>1, YieldStep DEF MapOf
  <1> QED BY <1>1, <1>5, <1>6, <1>7 DEF OneMap!Yield, MapOf, WalksOf

LEMMA EndMaps ==
    ASSUME CarefulUse, IInv, NEW w \in Walks, End(w)
    PROVE  OneMap!End(w)
  <1>1. /\ WalksOf[w] # None
        /\ WalksOf[w] = [must |-> walk[w].must, done |-> walk[w].done]
    BY WalkIsOpen DEF IInv, End
  <1>2. ASSUME NEW k \in walk[w].must PROVE k \in walk[w].done
    <2>1. SUFFICES ASSUME k \notin walk[w].done PROVE FALSE
      OBVIOUS
    <2>2. k \in Keys /\ Held(k) # None /\ walk[w].at <= ShardOf(k)
      BY <2>1 DEF IInv, Ahead, End, Walking
    <2>3. ShardOf(k) \in Maps(storeSize) /\ ShardOf(k) \in Nat
      BY <2>2, HeldType DEF IInv
    <2>4. Walked(w) = store /\ DOMAIN Walked(w) = Maps(storeSize)
      BY WalkedIsStore DEF IInv, End
    <2>5. k \in Left(w, walk[w].at, ShardOf(k))
      BY <2>1, <2>2, <2>3, <2>4 DEF Left, Held
    <2> QED BY <2>3, <2>4, <2>5 DEF End
  <1>3. WalksOf[w].must \subseteq WalksOf[w].done
    BY <1>1, <1>2
  <1>4. walk' = [walk EXCEPT ![w] = None]
    BY DEF End
  <1>5. WalkOf(w)' = None /\ \A u \in Walks : u # w => WalkOf(u)' = WalkOf(u)
    BY <1>4 DEF IInv, TypeOK, WalkOf
  <1>6. WalksOf' = [WalksOf EXCEPT ![w] = None]
    BY <1>5 DEF WalksOf
  <1>7. MapOf' = MapOf /\ answer' = answer
    BY SameMap DEF End
  <1> QED BY <1>1, <1>3, <1>6, <1>7 DEF OneMap!End, MapOf, WalksOf

\* Setting the size is a clear.
LEMMA SetStoreSizeMaps ==
    ASSUME CarefulUse, IInv, NEW n \in Sizes, SetStoreSize(n)
    PROVE  OneMap!Clear
  <1>1. walk' = walk /\ walk = [w \in Walks |-> None]
    BY SetStoreSizeInvariant
  <1>2. ASSUME NEW k \in Keys PROVE Held(k)' = None
    <2>1. ShardOf(k)' = Shard(hash, n, k) /\ Shard(hash, n, k) \in Maps(n)
      BY ShardIsAMap DEF IInv, TypeOK, SetStoreSize, StoreIs, ShardOf
    <2> QED BY <2>1 DEF SetStoreSize, StoreIs, Held, Empty
  <1>3. MapOf' = [k \in Keys |-> None]
    BY <1>2 DEF MapOf
  <1>4. WalksOf = [w \in Walks |-> None] /\ WalksOf' = [w \in Walks |-> None]
    BY <1>1 DEF WalksOf, WalkOf
  <1>5. OneMap!Gone(Keys)
    BY <1>4 DEF OneMap!Gone, WalksOf
  <1> QED BY <1>3, <1>5 DEF SetStoreSize, OneMap!Clear, MapOf

\* Setting the hash function of an empty BigMap is nothing to its user.
LEMMA SetStoreHashFunctionMaps ==
    ASSUME CarefulUse, IInv, NEW h \in Hashes, SetStoreHashFunction(h)
    PROVE  UNCHANGED OneMap!vars
  <1>1. MapOf' = MapOf
    BY SetStoreHashFunctionInvariant DEF MapOf
  <1>2. WalksOf' = WalksOf /\ answer' = answer
    BY SameWalks DEF SetStoreHashFunction
  <1> QED BY <1>1, <1>2 DEF OneMap!vars, MapOf, WalksOf

---------------------------------------------------------------------------
(* The theorems *)

\* Every step of the BigMap keeps the invariant, and is one of a Map or none.
LEMMA Step ==
    ASSUME CarefulUse, IInv, [Next]_vars
    PROVE  IInv' /\ [OneMap!Next]_(OneMap!vars)
  <1>1. ASSUME NEW k \in Keys, Get(k) PROVE IInv' /\ OneMap!Next
    BY <1>1, AsksInvariant, GetMaps DEF Get, Asks, OneMap!Next
  <1>2. ASSUME NEW k \in Keys, Has(k) PROVE IInv' /\ OneMap!Next
    BY <1>2, AsksInvariant, HasMaps DEF Has, Asks, OneMap!Next
  <1>3. ASSUME NEW k \in Keys, Delete(k) PROVE IInv' /\ OneMap!Next
    BY <1>3, DeleteInvariant, DeleteMaps DEF OneMap!Next
  <1>4. ASSUME NEW k \in Keys, NEW v \in Values, Set(k, v) PROVE IInv' /\ OneMap!Next
    BY <1>4, SetInvariant, SetMaps DEF OneMap!Next
  <1>5. ASSUME Size PROVE IInv' /\ OneMap!Next
    BY <1>5, AsksInvariant, SizeMaps DEF Size, Asks, OneMap!Next
  <1>6. ASSUME Clear PROVE IInv' /\ OneMap!Next
    BY <1>6, ClearInvariant, ClearMaps DEF OneMap!Next
  <1>7. ASSUME NEW w \in Walks, Start(w) PROVE IInv' /\ OneMap!Next
    BY <1>7, StartInvariant, StartMaps DEF OneMap!Next
  <1>8. ASSUME NEW w \in Walks, End(w) PROVE IInv' /\ OneMap!Next
    BY <1>8, EndInvariant, EndMaps DEF OneMap!Next
  <1>9. ASSUME NEW w \in Walks, NEW k \in Keys, Yield(w, k) PROVE IInv' /\ OneMap!Next
    BY <1>9, YieldInvariant, YieldMaps DEF OneMap!Next
  <1>10. ASSUME NEW n \in Sizes, SetStoreSize(n) PROVE IInv' /\ OneMap!Next
    BY <1>10, SetStoreSizeInvariant, SetStoreSizeMaps DEF OneMap!Next
  <1>11. ASSUME NEW h \in Hashes, SetStoreHashFunction(h)
         PROVE  IInv' /\ UNCHANGED OneMap!vars
    BY <1>11, SetStoreHashFunctionInvariant, SetStoreHashFunctionMaps
  <1>12. ASSUME UNCHANGED vars PROVE IInv' /\ UNCHANGED OneMap!vars
    <2>1. IInv'
      BY <1>12, AsksInvariant DEF vars, Asks
    <2>2. MapOf' = MapOf /\ WalksOf' = WalksOf /\ answer' = answer
      BY <1>12, SameMap, SameWalks DEF vars
    <2> QED BY <2>1, <2>2 DEF OneMap!vars, MapOf, WalksOf
  <1> QED BY <1>1, <1>2, <1>3, <1>4, <1>5, <1>6, <1>7, <1>8, <1>9, <1>10, <1>11, <1>12 DEF Next

LEMMA InitMaps ==
    ASSUME CarefulUse, Init
    PROVE  OneMap!Init
  <1>1. ASSUME NEW k \in Keys PROVE Held(k) = None
    <2>1. ShardOf(k) \in Maps(storeSize)
      BY ShardIsAMap DEF Init, ShardOf
    <2> QED BY <2>1 DEF Init, Held, Empty
  <1>2. MapOf = [k \in Keys |-> None]
    BY <1>1 DEF MapOf
  <1>3. WalksOf = [w \in Walks |-> None]
    BY DEF Init, WalksOf, WalkOf
  <1> QED BY <1>2, <1>3 DEF Init, OneMap!Init, MapOf, WalksOf

\* An entry is always in the Map its key is looked for in: a set, a delete and a
\* get of a key meet in one of the Maps, for every hash function.
THEOREM OneShardHolds ==
    ASSUME CarefulUse
    PROVE  Spec => []OneShard
  <1>1. Init => IInv
    BY InitInvariant
  <1>2. IInv /\ [Next]_vars => IInv'
    BY Step
  <1>3. IInv => OneShard
    BY DEF IInv
  <1> QED BY <1>1, <1>2, <1>3, PTL DEF Spec

\* A BigMap is a Map: what get, has, delete, size and the walks answer is what
\* one Map would answer, and a walk passes no entry that was there throughout.
THEOREM IsOneMap ==
    ASSUME CarefulUse
    PROVE  Spec => ImplementsMap
  <1>1. Init => IInv /\ OneMap!Init
    BY InitInvariant, InitMaps
  <1>2. IInv /\ [Next]_vars => IInv' /\ [OneMap!Next]_(OneMap!vars)
    BY Step
  <1> QED BY <1>1, <1>2, PTL DEF Spec, ImplementsMap, OneMap!Spec

=============================================================================
