------------------------- MODULE MemoryAdapterProofs -------------------------
(***************************************************************************)
(* What MemoryAdapter.tla claims, for every set of namespaces, keys,       *)
(* values, adapters and tasks.                                             *)
(***************************************************************************)
EXTENDS MemoryAdapter, SequenceTheorems, WellFoundedInduction, TLAPS

---------------------------------------------------------------------------
(* Prefixes *)

\* A key is in the namespace it was prefixed with.
LEMMA PrefixInNamespace ==
    ASSUME NEW S, Separator \in S, NEW k \in Seq(S), NEW ns \in Seq(S)
    PROVE  InNamespace(GetKeyPrefix(k, ns), ns)
  <1>1. CASE ns = <<>>
    BY <1>1 DEF InNamespace
  <1>2. CASE ns # <<>>
    <2>1. GetKeyPrefix(k, ns) = ns \o <<Separator>> \o k
      BY <1>2 DEF GetKeyPrefix
    <2>2. GetKeyPrefix(<<>>, ns) = ns \o <<Separator>> \o <<>>
      BY <1>2 DEF GetKeyPrefix
    <2>3. <<Separator>> \in Seq(S)
      OBVIOUS
    <2> DEFINE p == ns \o <<Separator>>
    <2>4. p \in Seq(S)
      BY <2>3, ConcatProperties
    <2>5. p \o <<>> = p
      BY <2>4, ConcatEmptySeq
    <2>6. Len(p \o k) = Len(p) + Len(k) /\ \A i \in 1..Len(p) : (p \o k)[i] = p[i]
      BY <2>4, ConcatProperties
    <2> HIDE DEF p
    <2>7. StartsWith(p \o k, p)
      BY <2>4, <2>6 DEF StartsWith
    <2> QED BY <1>2, <2>1, <2>2, <2>5, <2>7 DEF InNamespace, p
  <1> QED BY <1>1, <1>2

\* Stripping the prefix gives the key back.
LEMMA StripIsInverse ==
    ASSUME NEW S, Separator \in S, NEW k \in Seq(S), NEW ns \in Seq(S)
    PROVE  StripPrefix(GetKeyPrefix(k, ns), ns) = k
  <1>1. CASE ns = <<>>
    BY <1>1 DEF StripPrefix, GetKeyPrefix
  <1>2. CASE ns # <<>>
    <2>1. GetKeyPrefix(k, ns) = ns \o <<Separator>> \o k
      BY <1>2 DEF GetKeyPrefix
    <2> DEFINE p == ns \o <<Separator>>
    <2>2. p \in Seq(S) /\ Len(p) = Len(ns) + 1
      BY ConcatProperties
    <2>3. p \o k \in Seq(S) /\ Len(p \o k) = Len(p) + Len(k)
      BY <2>2, ConcatProperties
    <2>4. \A i \in 1..Len(k) : (p \o k)[Len(p) + i] = k[i]
      BY <2>2, ConcatProperties
    <2> HIDE DEF p
    <2> DEFINE r == SubSeq(p \o k, Len(ns) + 2, Len(p \o k))
    <2>5. r = k
      BY <2>2, <2>3, <2>4
    <2> QED BY <1>2, <2>1, <2>5 DEF StripPrefix, p
  <1> QED BY <1>1, <1>2

\* In separated namespaces, a full key stands for one key of one namespace.
LEMMA FullKeysApart ==
    ASSUME Separated(Namespaces, Keys),
           NEW n1 \in Namespaces, NEW n2 \in Namespaces, NEW j \in Keys, NEW k \in Keys
    PROVE  /\ GetKeyPrefix(j, n1) = GetKeyPrefix(k, n2) <=> (n1 = n2 /\ j = k)
           /\ InNamespace(GetKeyPrefix(j, n1), n2) <=> n1 = n2
           /\ StripPrefix(GetKeyPrefix(j, n1), n1) = j
           /\ GetKeyPrefix(j, n1) \in FullKeys
  <1>1. /\ Separator \in STRING /\ j \in Seq(STRING) /\ k \in Seq(STRING)
        /\ n1 \in Seq(STRING) /\ n2 \in Seq(STRING)
    BY AdapterAssumption
  <1>2. /\ InNamespace(GetKeyPrefix(j, n1), n1) /\ InNamespace(GetKeyPrefix(k, n2), n2)
    BY <1>1, PrefixInNamespace
  <1>3. /\ StripPrefix(GetKeyPrefix(j, n1), n1) = j /\ StripPrefix(GetKeyPrefix(k, n2), n2) = k
    BY <1>1, StripIsInverse
  <1>4. n1 # n2 => ~InNamespace(GetKeyPrefix(j, n1), n2)
    BY DEF Separated
  <1> QED BY <1>2, <1>3, <1>4 DEF FullKeys

---------------------------------------------------------------------------
(* Batches *)

\* A non-empty set of natural numbers has a least element, a bounded one a greatest.
LEMMA LeastElement ==
    ASSUME NEW J, J \subseteq Nat, J # {}
    PROVE  \E j \in J : \A m \in J : j <= m
  <1> DEFINE R == {p \in Nat \X Nat : p[1] < p[2]}
  <1>1. IsWellFoundedOn(R, Nat)
    BY NatLessThanWellFounded DEF OpToRel
  <1>3. \A x, y \in Nat : <<y, x>> \in R <=> y < x
    OBVIOUS
  <1> HIDE DEF R
  <1>2. PICK x \in J : \A y \in J : ~ (<<y, x>> \in R)
    BY <1>1, WFMin
  <1>4. \A y \in J : x \in Nat /\ y \in Nat /\ ~ (y < x)
    BY <1>2, <1>3
  <1>5. \A y \in J : x <= y
    BY <1>4
  <1> QED BY <1>5

LEMMA GreatestElement ==
    ASSUME NEW n \in Nat, NEW J, J \subseteq 0..n, J # {}
    PROVE  \E j \in J : \A m \in J : m <= j
  <1> DEFINE K == {n - j : j \in J}
  <1>0. \A j \in J : j \in 0..n /\ j \in Nat /\ n - j \in Nat
    <2> SUFFICES ASSUME NEW j \in J PROVE j \in 0..n /\ j \in Nat /\ n - j \in Nat
      OBVIOUS
    <2>1. j \in 0..n
      OBVIOUS
    <2> QED BY <2>1
  <1>1. K \subseteq Nat /\ K # {}
    BY <1>0
  <1>2. PICK k \in K : \A m \in K : k <= m
    <2> HIDE DEF K
    <2> QED BY <1>1, LeastElement
  <1>3. PICK j \in J : k = n - j
    OBVIOUS
  <1>4. \A m \in J : n - m \in K
    OBVIOUS
  <1>5. \A m \in J : n - j <= n - m
    BY <1>2, <1>3, <1>4
  <1>6. \A m \in J : m <= j
    BY <1>0, <1>5
  <1> QED BY <1>6

LEMMA ListIsSeq ==
    ASSUME NEW S, NEW es \in Lists(S)
    PROVE  /\ es \in Seq(S) /\ Len(es) \in Nat
           /\ \A i \in 1..Len(es) : es[i] \in S
  <1>1. PICK n \in 0..MaxBatch : es \in [1..n -> S]
    BY DEF Lists
  <1>2. n \in Nat
    BY AdapterAssumption
  <1> QED BY <1>1, <1>2

\* A non-empty set of positions of a batch has a first and a last one.
LEMMA FirstAndLast ==
    ASSUME NEW n \in Nat, NEW J, J \subseteq 1..n, J # {}
    PROVE  /\ LastOf(J) \in J /\ \A m \in J : m <= LastOf(J)
           /\ FirstOf(J) \in J /\ \A m \in J : FirstOf(J) <= m
  <1>1. J \subseteq Nat /\ J \subseteq 0..n
    OBVIOUS
  <1>2. \E j \in J : \A m \in J : m <= j
    BY <1>1, GreatestElement
  <1>3. \E j \in J : \A m \in J : j <= m
    BY <1>1, LeastElement
  <1> QED BY <1>2, <1>3 DEF LastOf, FirstOf

---------------------------------------------------------------------------
(* Types *)

LEMMA InitType == Init => TypeOK
  BY DEF Init, TypeOK, Task, Idle

\* What a batch stores is an entry of the Map.
LEMMA StoredType ==
    ASSUME TypeOK, NEW a \in Adapters, NEW es \in Lists(PutEntry), NEW fk \in FullKeys,
           At(a, es, fk) # {}
    PROVE  Stored(a, es, fk) \in Entry
  <1> DEFINE J == At(a, es, fk)
  <1>1. es \in Seq(PutEntry) /\ Len(es) \in Nat /\ \A i \in 1..Len(es) : es[i] \in PutEntry
    BY ListIsSeq
  <1>2. J \subseteq 1..Len(es) /\ J # {}
    BY DEF At
  <1>3. LastOf(J) \in 1..Len(es) /\ FirstOf(J) \in 1..Len(es)
    <2> HIDE DEF J
    <2> QED BY <1>1, <1>2, FirstAndLast
  <1>4. es[LastOf(J)].val \in Values /\ es[LastOf(J)].ttl \in Nat
    BY <1>1, <1>3, AdapterAssumption DEF PutEntry
  <1>5. Expires(es[LastOf(J)].ttl) \in Nat \cup {None}
    BY <1>4 DEF Expires, TypeOK
  <1>6. Place(fk, J) \in Nat \ {0}
    BY <1>3 DEF Place, TypeOK, Entry
  <1> HIDE DEF J
  <1>7. [val |-> es[LastOf(J)].val, exp |-> Expires(es[LastOf(J)].ttl), seq |-> Place(fk, J)] \in Entry
    BY <1>4, <1>5, <1>6 DEF Entry
  <1> QED BY <1>7 DEF Stored, J

LEMMA DropType ==
    ASSUME TypeOK, NEW F, Drop(F)
    PROVE  /\ map' \in [FullKeys -> Entry \cup {None}]
           /\ stable' \in [Tasks -> SUBSET FullKeys]
  BY DEF TypeOK, Drop

LEMMA StepType == TypeOK /\ [Next]_vars => TypeOK'
  <1> SUFFICES ASSUME TypeOK, [Next]_vars PROVE TypeOK'
    OBVIOUS
  <1>1. ASSUME NEW a \in Adapters, NEW ks \in Lists(Keys), Get(a, ks) PROVE TypeOK'
    <2>1. Drop(Outdated(FullSet(a, ks)))
      BY <1>1 DEF Get
    <2> QED BY <1>1, <2>1, DropType DEF Get, TypeOK
  <1>2. ASSUME NEW a \in Adapters, NEW ks \in Lists(Keys), Delete(a, ks) PROVE TypeOK'
    <2>1. Drop(FullSet(a, ks))
      BY <1>2 DEF Delete
    <2> QED BY <1>2, <2>1, DropType DEF Delete, TypeOK
  <1>3. ASSUME NEW a \in Adapters, NEW k \in Keys, HasOne(a, k) PROVE TypeOK'
    <2>1. Drop(Outdated({Full(a, k)}))
      BY <1>3 DEF HasOne, Has
    <2> QED BY <1>3, <2>1, DropType DEF HasOne, Has, TypeOK
  <1>4. ASSUME NEW a \in Adapters, NEW es \in Lists(PutEntry), Set(a, es) PROVE TypeOK'
    <2>1. map' \in [FullKeys -> Entry \cup {None}]
      BY <1>4, StoredType DEF Set, TypeOK
    <2>2. inserts' \in Nat
      BY <1>4, ListIsSeq DEF Set, TypeOK
    <2> QED BY <1>4, <2>1, <2>2 DEF Set, TypeOK
  <1>5. ASSUME NEW a \in Adapters, Clear(a) PROVE TypeOK'
    <2>1. Drop({fk \in FullKeys : ~HasKeys \/ InNamespace(fk, namespace[a])})
      BY <1>5 DEF Clear
    <2> QED BY <1>5, <2>1, DropType DEF Clear, TypeOK
  <1>6. ASSUME NEW a \in Adapters, NEW ns \in Namespaces, SetNamespace(a, ns) PROVE TypeOK'
    BY <1>6 DEF SetNamespace, TypeOK
  <1>7. ASSUME NEW t \in Tasks, NEW a \in Adapters, NEW ks \in Lists(Keys), HasMany(t, a, ks)
        PROVE  TypeOK'
    <2>1. ks \in Seq(Keys)
      BY ListIsSeq
    <2> QED BY <1>7, <2>1 DEF HasMany, TypeOK, Task
  <1>8. ASSUME NEW t \in Tasks, NEW a \in Adapters, Iterate(t, a) PROVE TypeOK'
    BY <1>8 DEF Iterate, TypeOK, Task
  <1>9. ASSUME NEW t \in Tasks, HasManyNext(t) PROVE TypeOK'
    <2>1. Drop(Outdated({Full(task[t].a, Head(task[t].keys))}))
      BY <1>9 DEF HasManyNext, Has
    <2> DEFINE rest == Tail(task[t].keys)
    <2>2. task[t] \in [st : {"hasMany"}, a : Adapters, keys : Seq(Keys) \ {<<>>}]
      BY <1>9 DEF HasManyNext, TypeOK, Task, Idle
    <2>3. task'[t] = IF rest = <<>> THEN Idle ELSE [task[t] EXCEPT !.keys = rest]
      BY <1>9 DEF HasManyNext, Rest, TypeOK
    <2>4. rest \in Seq(Keys)
      <3>1. task[t].keys \in Seq(Keys) /\ task[t].keys # <<>>
        BY <2>2
      <3> QED BY <3>1
    <2> HIDE DEF rest
    <2>5. task'[t] \in Task
      BY <2>2, <2>3, <2>4 DEF Task
    <2>6. task' \in [Tasks -> Task]
      BY <1>9, <2>5 DEF HasManyNext, TypeOK
    <2> QED BY <1>9, <2>1, <2>6, DropType DEF HasManyNext, Has, TypeOK
  <1>10. ASSUME NEW t \in Tasks, IteratorNext(t) PROVE TypeOK'
    <2>1. PICK fk \in FullKeys :
             /\ IsNext(t, fk) /\ Drop(Skipped(t, fk))
             /\ task' = [task EXCEPT ![t].cursor = map[fk].seq]
             /\ seen' = [seen EXCEPT ![t] = @ \cup {fk}]
      BY <1>10 DEF IteratorNext
    <2>2. task[t] \in [st : {"iterator"}, ns : Namespaces, cursor : Nat]
      BY <1>10 DEF IteratorNext, TypeOK, Task, Idle
    <2>3. map[fk].seq \in Nat
      BY <2>1 DEF IsNext, Ahead, TypeOK, Entry
    <2>4. task'[t] \in Task
      BY <2>1, <2>2, <2>3 DEF TypeOK, Task
    <2>5. task' \in [Tasks -> Task]
      BY <2>1, <2>4 DEF TypeOK
    <2>6. /\ map' \in [FullKeys -> Entry \cup {None}]
          /\ stable' \in [Tasks -> SUBSET FullKeys] /\ seen' \in [Tasks -> SUBSET FullKeys]
      BY <2>1, DropType DEF TypeOK
    <2> QED BY <1>10, <2>5, <2>6 DEF IteratorNext, TypeOK
  <1>11. ASSUME NEW t \in Tasks, IteratorEnd(t) PROVE TypeOK'
    <2>1. Drop(Ahead(t))
      BY <1>11 DEF IteratorEnd
    <2> QED BY <1>11, <2>1, DropType DEF IteratorEnd, TypeOK, Task
  <1>12. CASE Tick
    BY <1>12 DEF Tick, TypeOK
  <1>13. CASE UNCHANGED vars
    BY <1>13 DEF vars, TypeOK
  <1> QED BY <1>1, <1>2, <1>3, <1>4, <1>5, <1>6, <1>7, <1>8, <1>9, <1>10, <1>11, <1>12, <1>13 DEF Next

\* Every reachable state of the adapters is well typed.
THEOREM TypeCorrect == Spec => []TypeOK
  BY InitType, StepType, PTL DEF Spec

---------------------------------------------------------------------------
(* The adapters implement one store per namespace *)

LEMMA SeenType ==
    ASSUME TypeOK, NEW ns \in Namespaces, NEW k \in Keys
    PROVE  LET fk == GetKeyPrefix(k, ns)
           IN  /\ Seen(ns, k) \in Visible \cup {None}
               /\ Seen(ns, k) # None <=> Present(fk)
               /\ Present(fk) => Seen(ns, k) = [val |-> map[fk].val, exp |-> map[fk].exp]
               /\ Found(fk) = IF Seen(ns, k) = None THEN None ELSE Seen(ns, k).val
  <1> DEFINE fk == GetKeyPrefix(k, ns)
  <1>1. fk \in FullKeys
    BY DEF FullKeys
  <1>2. map[fk] \in Entry \cup {None}
    BY <1>1 DEF TypeOK
  <1> HIDE DEF fk
  <1>3. map[fk] # None => [val |-> map[fk].val, exp |-> map[fk].exp] \in Visible
    BY <1>2 DEF Entry, Visible
  <1>4. Seen(ns, k) = IF Present(fk) THEN [val |-> map[fk].val, exp |-> map[fk].exp] ELSE None
    BY DEF Seen, Present, fk
  <1>5. Present(fk) => map[fk] # None
    BY DEF Present
  <1> QED BY <1>3, <1>4, <1>5, AdapterAssumption DEF Found, fk

\* Dropping the keys F makes exactly the keys that stand in F disappear.
LEMMA DropSeen ==
    ASSUME NEW F, Drop(F), now' = now, NEW ns \in Namespaces, NEW k \in Keys
    PROVE  Seen(ns, k)' = IF GetKeyPrefix(k, ns) \in F THEN None ELSE Seen(ns, k)
  <1>1. GetKeyPrefix(k, ns) \in FullKeys
    BY DEF FullKeys
  <1> QED BY <1>1 DEF Drop, Seen, Expired

\* Dropping expired entries is invisible.
LEMMA DropOutdated ==
    ASSUME NEW F, Drop(Outdated(F)), now' = now
    PROVE  DataMap' = DataMap
  <1>1. ASSUME NEW ns \in Namespaces, NEW k \in Keys
        PROVE  Seen(ns, k)' = Seen(ns, k)
    <2>1. Seen(ns, k)' = IF GetKeyPrefix(k, ns) \in Outdated(F) THEN None ELSE Seen(ns, k)
      BY DropSeen
    <2>2. GetKeyPrefix(k, ns) \in Outdated(F) => Seen(ns, k) = None
      BY DEF Outdated, Seen
    <2> QED BY <2>1, <2>2
  <1> QED BY <1>1 DEF DataMap

\* Reading DataMap.
LEMMA DataAt ==
    ASSUME NEW ns \in Namespaces, NEW k \in Keys
    PROVE  DataMap[ns][k] = Seen(ns, k)
  BY DEF DataMap

LEMMA FullIn ==
    ASSUME TypeOK, NEW a \in Adapters, NEW ks \in Lists(Keys), NEW i \in 1..Len(ks)
    PROVE  /\ ks[i] \in Keys /\ namespace[a] \in Namespaces
           /\ Full(a, ks[i]) = GetKeyPrefix(ks[i], namespace[a])
           /\ Full(a, ks[i]) \in FullKeys
  <1>1. ks[i] \in Keys
    BY ListIsSeq
  <1>2. namespace[a] \in Namespaces
    BY DEF TypeOK
  <1> QED BY <1>1, <1>2 DEF Full, FullKeys

LEMMA GetImplements ==
    ASSUME TypeOK, NEW a \in Adapters, NEW ks \in Lists(Keys), Get(a, ks)
    PROVE  Promise!Get(namespace[a], ks)
  <1>1. now' = now /\ Drop(Outdated(FullSet(a, ks)))
    BY DEF Get
  <1>2. DataMap' = DataMap
    BY <1>1, DropOutdated
  <1>3. ASSUME NEW i \in 1..Len(ks)
        PROVE  Found(Full(a, ks[i])) = Promise!ValueAt(namespace[a], ks[i])
    BY FullIn, SeenType, DataAt DEF Promise!ValueAt
  <1>4. [i \in 1..Len(ks) |-> Found(Full(a, ks[i]))]
            = [i \in 1..Len(ks) |-> Promise!ValueAt(namespace[a], ks[i])]
    BY <1>3
  <1> QED BY <1>1, <1>2, <1>4 DEF Get, Answer, Promise!Get, Promise!Answer

LEMMA HasImplements ==
    ASSUME TypeOK, NEW a \in Adapters, NEW k \in Keys, Has(a, k)
    PROVE  Promise!Has(namespace[a], k)
  <1>1. now' = now /\ Drop(Outdated({Full(a, k)}))
    BY DEF Has
  <1>2. DataMap' = DataMap
    BY <1>1, DropOutdated
  <1>3. namespace[a] \in Namespaces /\ Full(a, k) = GetKeyPrefix(k, namespace[a])
    BY DEF TypeOK, Full
  <1>4. Present(Full(a, k)) = (DataMap[namespace[a]][k] # None)
    BY <1>3, SeenType, DataAt DEF Present
  <1> QED BY <1>1, <1>2, <1>4 DEF Has, Answer, Promise!Has, Promise!Answer

LEMMA DeleteImplements ==
    ASSUME Separated(Namespaces, Keys), TypeOK,
           NEW a \in Adapters, NEW ks \in Lists(Keys), Delete(a, ks)
    PROVE  Promise!Remove(namespace[a], ks)
  <1> DEFINE ns == namespace[a]
             res == [i \in 1..Len(ks) |-> /\ map[Full(a, ks[i])] # None
                                          /\ \A j \in 1..(i - 1) : ks[j] # ks[i]]
  <1>1. now' = now /\ Drop(FullSet(a, ks)) /\ Answer("delete", ns, ks, res)
    BY DEF Delete
  <1>2. ns \in Namespaces
    BY DEF TypeOK
  <1>3. res \in [1..Len(ks) -> BOOLEAN]
    OBVIOUS
  <1>4. ASSUME NEW i \in 1..Len(ks), DataMap[ns][ks[i]] # None,
               \A j \in 1..(i - 1) : ks[j] # ks[i]
        PROVE  res[i]
    <2>1. Present(Full(a, ks[i]))
      BY <1>4, FullIn, SeenType, DataAt
    <2> QED BY <1>4, <2>1 DEF Present
  <1>5. ASSUME NEW n \in Namespaces, NEW k \in Keys
        PROVE  Seen(n, k)' = IF n = ns /\ \E i \in 1..Len(ks) : ks[i] = k
                             THEN None ELSE Seen(n, k)
    <2>1. GetKeyPrefix(k, n) \in FullSet(a, ks) <=> (n = ns /\ \E i \in 1..Len(ks) : ks[i] = k)
      <3>1. \A i \in 1..Len(ks) : Full(a, ks[i]) = GetKeyPrefix(k, n) <=> (ns = n /\ ks[i] = k)
        BY <1>2, FullIn, FullKeysApart
      <3> QED BY <3>1 DEF FullSet
    <2> QED BY <1>1, <2>1, DropSeen
  <1>6. DataMap' = [DataMap EXCEPT ![ns] =
            [k \in Keys |-> IF \E i \in 1..Len(ks) : ks[i] = k THEN None ELSE DataMap[ns][k]]]
    <2> HIDE DEF ns
    <2> QED BY <1>2, <1>5 DEF DataMap
  <1>7. reply' = [op |-> "delete", ns |-> ns, keys |-> ks, res |-> res]
    BY <1>1 DEF Answer
  <1> HIDE DEF res
  <1> QED BY <1>1, <1>3, <1>4, <1>6, <1>7 DEF Promise!Remove, Promise!Answer

LEMMA ClearImplements ==
    ASSUME Separated(Namespaces, Keys), HasKeys, TypeOK, NEW a \in Adapters, Clear(a)
    PROVE  Promise!Clear(namespace[a])
  <1> DEFINE ns == namespace[a]
             F  == {fk \in FullKeys : ~HasKeys \/ InNamespace(fk, ns)}
  <1>1. now' = now /\ Drop(F) /\ Answer("clear", ns, <<>>, <<>>)
    BY DEF Clear
  <1>2. ns \in Namespaces
    BY DEF TypeOK
  <1>3. ASSUME NEW n \in Namespaces, NEW k \in Keys
        PROVE  Seen(n, k)' = IF n = ns THEN None ELSE Seen(n, k)
    <2>1. GetKeyPrefix(k, n) \in F <=> n = ns
      BY <1>2, FullKeysApart
    <2> HIDE DEF F
    <2> QED BY <1>1, <2>1, DropSeen
  <1>4. DataMap' = [DataMap EXCEPT ![ns] = [k \in Keys |-> None]]
    <2> HIDE DEF ns
    <2> QED BY <1>2, <1>3 DEF DataMap
  <1> QED BY <1>1, <1>4 DEF Answer, Promise!Clear, Promise!Answer

LEMMA SetImplements ==
    ASSUME Separated(Namespaces, Keys), TypeOK,
           NEW a \in Adapters, NEW es \in Lists(PutEntry), Set(a, es)
    PROVE  Promise!Put(namespace[a], es)
  <1> DEFINE ns == namespace[a]
  <1>1. ns \in Namespaces
    BY DEF TypeOK
  <1>2. \A j \in 1..Len(es) : es[j].key \in Keys /\ es[j].ttl \in Nat
    <2>1. \A j \in 1..Len(es) : es[j] \in PutEntry
      BY ListIsSeq
    <2>2. \A e \in PutEntry : e.key \in Keys /\ e.ttl \in Nat
      BY AdapterAssumption DEF PutEntry
    <2> QED BY <2>1, <2>2
  <1>3. ASSUME NEW n \in Namespaces, NEW k \in Keys
        PROVE  At(a, es, GetKeyPrefix(k, n)) = IF n = ns THEN Promise!Same(es, k) ELSE {}
    <2>1. \A j \in 1..Len(es) : Full(a, es[j].key) = GetKeyPrefix(k, n) <=> (ns = n /\ es[j].key = k)
      BY <1>1, <1>2, FullKeysApart DEF Full
    <2> QED BY <2>1 DEF At, Promise!Same
  <1> DEFINE Fresh(k) == [val |-> es[Promise!LastOf(Promise!Same(es, k))].val,
                          exp |-> Promise!Expires(es[Promise!LastOf(Promise!Same(es, k))].ttl)]
  <1>4. ASSUME NEW n \in Namespaces, NEW k \in Keys
        PROVE  Seen(n, k)' = IF n = ns /\ Promise!Same(es, k) # {} THEN Fresh(k) ELSE Seen(n, k)
    <2> DEFINE fk == GetKeyPrefix(k, n)
               J  == At(a, es, fk)
    <2>1. fk \in FullKeys
      BY DEF FullKeys
    <2>2. map'[fk] = IF J = {} THEN map[fk] ELSE Stored(a, es, fk)
      BY <2>1 DEF Set
    <2>3. now' = now
      BY DEF Set
    <2>4. CASE J = {}
      <3>1. map'[fk] = map[fk]
        BY <2>2, <2>4
      <3>2. ~(n = ns /\ Promise!Same(es, k) # {})
        BY <1>3, <2>4
      <3> QED BY <2>3, <3>1, <3>2 DEF Seen, Expired
    <2>5. CASE J # {}
      <3>1. n = ns /\ J = Promise!Same(es, k) /\ Promise!Same(es, k) # {}
        BY <1>3, <2>5
      <3>2. J \subseteq 1..Len(es) /\ Len(es) \in Nat
        BY ListIsSeq DEF At
      <3>3. LastOf(J) \in 1..Len(es)
        <4> HIDE DEF J
        <4> QED BY <3>2, <2>5, FirstAndLast
      <3>4. LastOf(J) = Promise!LastOf(Promise!Same(es, k))
        BY <3>1 DEF LastOf, Promise!LastOf
      <3>5. \A ttl : Expires(ttl) = Promise!Expires(ttl)
        BY DEF Expires, Promise!Expires
      <3> DEFINE e == Stored(a, es, fk)
      <3>6. e \in Entry /\ e.val = es[LastOf(J)].val /\ e.exp = Expires(es[LastOf(J)].ttl)
        BY <2>1, <2>5, StoredType DEF Stored
      <3>7. ~(e.exp # None /\ now > e.exp)
        <4>1. es[LastOf(J)].ttl \in Nat
          BY <3>3, <1>2
        <4> HIDE DEF e, J
        <4> QED BY <3>6, <4>1 DEF Expires, TypeOK
      <3>8. e # None
        BY <3>6, AdapterAssumption
      <3>9. map'[fk] = e
        BY <2>2, <2>5
      <3>10. Seen(n, k)' = [val |-> e.val, exp |-> e.exp]
        <4> HIDE DEF e
        <4> QED BY <3>7, <3>8, <3>9, <2>3 DEF Seen, Expired
      <3> QED BY <3>1, <3>4, <3>5, <3>6, <3>10
    <2> QED BY <2>4, <2>5
  <1>5. DataMap' = [DataMap EXCEPT ![ns] =
            [k \in Keys |-> IF Promise!Same(es, k) = {} THEN DataMap[ns][k] ELSE Fresh(k)]]
    <2> HIDE DEF ns, Fresh
    <2> QED BY <1>1, <1>4 DEF DataMap
  <1> QED BY <1>5 DEF Set, Answer, Promise!Put, Promise!Answer

\* The loop body of an iterator is invisible or yields a live entry.
LEMMA IteratorNextImplements ==
    ASSUME Separated(Namespaces, Keys), TypeOK, NEW t \in Tasks, IteratorNext(t)
    PROVE  \E n \in Namespaces : \E k \in Keys : Promise!Yield(n, k)
  <1>1. now' = now
    BY DEF IteratorNext
  <1>2. task[t] \in [st : {"iterator"}, ns : Namespaces, cursor : Nat]
    BY DEF IteratorNext, TypeOK, Task, Idle
  <1>3. PICK fk \in FullKeys :
           /\ IsNext(t, fk) /\ Drop(Skipped(t, fk))
           /\ Answer("iterator", task[t].ns, <<StripPrefix(fk, task[t].ns)>>, <<map[fk].val>>)
    BY DEF IteratorNext
  <1>4. Skipped(t, fk) = Outdated(Skipped(t, fk))
    BY <1>3 DEF IsNext, Skipped, Ahead, Outdated
  <1>5. DataMap' = DataMap
    BY <1>1, <1>3, <1>4, DropOutdated
  <1>6. PICK k \in Keys, n \in Namespaces : fk = GetKeyPrefix(k, n)
    BY DEF FullKeys
  <1>7. InNamespace(fk, task[t].ns) /\ Present(fk)
    BY <1>3 DEF IsNext, Ahead, Present
  <1>8. n = task[t].ns /\ StripPrefix(fk, n) = k
    BY <1>2, <1>6, <1>7, FullKeysApart
  <1>9. DataMap[n][k] # None /\ DataMap[n][k].val = map[fk].val
    BY <1>6, <1>7, SeenType, DataAt
  <1>10. Promise!Yield(n, k)
    BY <1>1, <1>3, <1>5, <1>8, <1>9 DEF Answer, Promise!Yield, Promise!Answer
  <1> QED BY <1>10

\* The end of an iterator deletes expired entries, which does not show.
LEMMA IteratorEndImplements ==
    ASSUME NEW t \in Tasks, IteratorEnd(t)
    PROVE  UNCHANGED <<now, DataMap, reply>>
  <1>1. Ahead(t) = Outdated(Ahead(t))
    BY DEF IteratorEnd, Ahead, Outdated
  <1>2. DataMap' = DataMap
    BY <1>1, DropOutdated DEF IteratorEnd
  <1> QED BY <1>2 DEF IteratorEnd

LEMMA TickImplements ==
    ASSUME TypeOK, Tick
    PROVE  Promise!Pass
  <1>1. now' = now + 1 /\ map' = map /\ reply' = reply /\ now \in Nat
    BY DEF Tick, TypeOK
  <1>2. ASSUME NEW n \in Namespaces, NEW k \in Keys
        PROVE  Seen(n, k)' = IF Seen(n, k) # None /\ Seen(n, k).exp # None /\ now' > Seen(n, k).exp
                             THEN None ELSE Seen(n, k)
    <2> DEFINE fk == GetKeyPrefix(k, n)
    <2>1. map[fk] \in Entry \cup {None}
      BY DEF FullKeys, TypeOK
    <2>2. /\ Seen(n, k) # None <=> Present(fk)
          /\ Present(fk) => Seen(n, k) = [val |-> map[fk].val, exp |-> map[fk].exp]
      BY SeenType
    <2>3. Seen(n, k)' = IF map[fk] # None /\ ~(map[fk].exp # None /\ now' > map[fk].exp)
                        THEN [val |-> map[fk].val, exp |-> map[fk].exp] ELSE None
      BY <1>1 DEF Seen, Expired
    <2>4. map[fk] # None => map[fk].exp \in Nat \cup {None}
      BY <2>1 DEF Entry
    <2>5. CASE Present(fk)
      BY <1>1, <2>2, <2>3, <2>5 DEF Present
    <2>6. CASE ~Present(fk)
      <3>1. Seen(n, k) = None
        BY <2>2, <2>6
      <3>2. map[fk] # None => (map[fk].exp # None /\ now > map[fk].exp)
        BY <2>6 DEF Present, Expired
      <3>3. Seen(n, k)' = None
        BY <1>1, <2>3, <2>4, <3>2
      <3> QED BY <3>1, <3>3
    <2> QED BY <2>5, <2>6
  <1>3. DataMap' = [ns \in Namespaces |-> [k \in Keys |->
            IF DataMap[ns][k] # None /\ DataMap[ns][k].exp # None /\ now' > DataMap[ns][k].exp
            THEN None ELSE DataMap[ns][k]]]
    BY <1>2 DEF DataMap
  <1> QED BY <1>1, <1>3 DEF Promise!Pass

LEMMA InitImplements == Init => Promise!Init
  BY DEF Init, Promise!Init, DataMap, Seen, FullKeys

LEMMA StepImplements ==
    ASSUME Separated(Namespaces, Keys), HasKeys, TypeOK, [Next]_vars
    PROVE  [Promise!Next]_(Promise!vars)
  <1> USE DEF Promise!vars
  <1>0. namespace \in [Adapters -> Namespaces]
    BY DEF TypeOK
  <1>1. ASSUME NEW a \in Adapters, NEW ks \in Lists(Keys), Get(a, ks) \/ Delete(a, ks)
        PROVE  Promise!Next
    BY <1>0, <1>1, GetImplements, DeleteImplements DEF Promise!Next, Lists, Promise!Lists
  <1>2. ASSUME NEW a \in Adapters, NEW k \in Keys, Has(a, k)
        PROVE  Promise!Next
    BY <1>0, <1>2, HasImplements DEF Promise!Next
  <1>3. ASSUME NEW a \in Adapters, NEW es \in Lists(PutEntry), Set(a, es)
        PROVE  Promise!Next
    <2>1. Promise!Put(namespace[a], es)
      BY <1>3, SetImplements
    <2>2. es \in Promise!Lists(Promise!PutEntry)
      BY DEF Lists, Promise!Lists, PutEntry, Promise!PutEntry
    <2> QED BY <1>0, <2>1, <2>2 DEF Promise!Next
  <1>4. ASSUME NEW a \in Adapters, Clear(a)
        PROVE  Promise!Next
    BY <1>0, <1>4, ClearImplements DEF Promise!Next
  <1>5. ASSUME UNCHANGED <<now, map, reply>>
        PROVE  UNCHANGED <<now, DataMap, reply>>
    BY <1>5 DEF DataMap, Seen, Expired
  <1>6. ASSUME NEW t \in Tasks, HasManyNext(t)
        PROVE  Promise!Next
    <2>1. task[t] \in [st : {"hasMany"}, a : Adapters, keys : Seq(Keys) \ {<<>>}]
      BY <1>6 DEF HasManyNext, TypeOK, Task, Idle
    <2>2. task[t].a \in Adapters /\ Head(task[t].keys) \in Keys
      <3>1. task[t].a \in Adapters /\ task[t].keys \in Seq(Keys) /\ task[t].keys # <<>>
        BY <2>1
      <3> QED BY <3>1
    <2>3. Has(task[t].a, Head(task[t].keys))
      BY <1>6 DEF HasManyNext
    <2> QED BY <1>2, <2>2, <2>3
  <1>7. ASSUME NEW t \in Tasks, IteratorNext(t)
        PROVE  Promise!Next
    BY <1>7, IteratorNextImplements DEF Promise!Next
  <1>8. CASE Tick
    BY <1>8, TickImplements DEF Promise!Next
  <1>9. ASSUME NEW a \in Adapters, NEW ns \in Namespaces, SetNamespace(a, ns)
        PROVE  UNCHANGED <<now, map, reply>>
    BY <1>9 DEF SetNamespace
  <1>10. ASSUME NEW t \in Tasks,
                \E a \in Adapters : Iterate(t, a) \/ \E ks \in Lists(Keys) : HasMany(t, a, ks)
         PROVE  UNCHANGED <<now, map, reply>>
    BY <1>10 DEF Iterate, HasMany
  <1>13. ASSUME NEW t \in Tasks, IteratorEnd(t)
         PROVE  UNCHANGED <<now, DataMap, reply>>
    BY <1>13, IteratorEndImplements
  <1>11. CASE UNCHANGED vars
    BY <1>5, <1>11 DEF vars
  <1>12. ASSUME NEW a \in Adapters, NEW k \in Keys, HasOne(a, k)
         PROVE  Promise!Next
    BY <1>2, <1>12 DEF HasOne
  <1> QED
    BY <1>1, <1>3, <1>4, <1>5, <1>6, <1>7, <1>8, <1>9, <1>10, <1>11, <1>12, <1>13 DEF Next

\* Adapters over one Map whose namespaces are separated behave as one
\* key-value store per namespace: prefixes keep the namespaces apart in every
\* operation, and the lazy deletion of expired entries never shows.
THEOREM MemoryImplementsPromise ==
    ASSUME Separated(Namespaces, Keys), HasKeys
    PROVE  Spec => ImplementsPromise
  <1>1. TypeOK /\ [Next]_vars => [Promise!Next]_(Promise!vars)
    BY StepImplements
  <1>2. Spec => Promise!Spec
    BY <1>1, InitImplements, TypeCorrect, PTL DEF Spec, Promise!Spec
  <1> QED BY <1>2 DEF ImplementsPromise

---------------------------------------------------------------------------
(* An iterator misses nothing that stayed *)

\* No two entries of the Map are at the same place, and places grow.
OrderOK ==
    \A f \in FullKeys : map[f] # None =>
        /\ map[f].seq <= inserts
        /\ \A g \in FullKeys : (f # g /\ map[g] # None) => map[f].seq # map[g].seq

\* What stayed since the start of an iterator is still there, and was yielded
\* or lies ahead.
StableOK ==
    \A t \in Tasks : task[t].st = "iterator" =>
        \A fk \in stable[t] :
            /\ map[fk] # None /\ InNamespace(fk, task[t].ns)
            /\ fk \in seen[t] \/ map[fk].seq > task[t].cursor

IteratorInv == TypeOK /\ OrderOK /\ StableOK

LEMMA DropOrder ==
    ASSUME OrderOK, NEW F, Drop(F), inserts' = inserts
    PROVE  OrderOK'
  BY DEF OrderOK, Drop

LEMMA SetOrder ==
    ASSUME TypeOK, OrderOK, NEW a \in Adapters, NEW es \in Lists(PutEntry), Set(a, es)
    PROVE  OrderOK'
  <1> DEFINE J(f) == At(a, es, f)
  <1>1. inserts' = inserts + Len(es) /\ inserts \in Nat /\ Len(es) \in Nat
    BY ListIsSeq DEF Set, TypeOK
  <1>2. ASSUME NEW f \in FullKeys, map'[f] # None
        PROVE  \/ map[f] # None /\ map'[f].seq = map[f].seq /\ map[f].seq \in Nat
               \/ /\ map[f] = None /\ J(f) # {} /\ FirstOf(J(f)) \in J(f)
                  /\ map'[f].seq = inserts + FirstOf(J(f))
    <2>1. map'[f] = IF J(f) = {} THEN map[f] ELSE Stored(a, es, f)
      BY DEF Set
    <2>2. map[f] # None => map[f].seq \in Nat
      BY DEF TypeOK, Entry
    <2>3. CASE J(f) = {}
      BY <1>2, <2>1, <2>2, <2>3
    <2>4. CASE J(f) # {}
      <3>1. map'[f].seq = IF map[f] # None THEN map[f].seq ELSE inserts + FirstOf(J(f))
        BY <2>1, <2>4 DEF Stored, Place
      <3>2. J(f) \subseteq 1..Len(es)
        BY DEF At
      <3>3. FirstOf(J(f)) \in J(f)
        <4> HIDE DEF J
        <4> QED BY <1>1, <2>4, <3>2, FirstAndLast
      <3> QED BY <2>2, <2>4, <3>1, <3>3
    <2> QED BY <2>3, <2>4
  <1>3. \A f \in FullKeys : J(f) \subseteq 1..Len(es)
    BY DEF At
  <1>4. \A f, g \in FullKeys : f # g => J(f) \cap J(g) = {}
    BY DEF At
  <1> HIDE DEF J
  <1>5. ASSUME NEW f \in FullKeys, map'[f] # None
        PROVE  map'[f].seq <= inserts'
    BY <1>1, <1>2, <1>3, <1>5 DEF OrderOK
  <1>6. ASSUME NEW f \in FullKeys, NEW g \in FullKeys, f # g, map'[f] # None, map'[g] # None
        PROVE  map'[f].seq # map'[g].seq
    <2>1. CASE map[f] # None /\ map[g] # None
      BY <1>2, <1>6, <2>1 DEF OrderOK
    <2>2. CASE map[f] = None /\ map[g] = None
      <3>1. /\ map'[f].seq = inserts + FirstOf(J(f)) /\ map'[g].seq = inserts + FirstOf(J(g))
            /\ FirstOf(J(f)) \in J(f) /\ FirstOf(J(g)) \in J(g)
        BY <1>2, <1>6, <2>2
      <3>2. FirstOf(J(f)) # FirstOf(J(g)) /\ FirstOf(J(f)) \in 1..Len(es) /\ FirstOf(J(g)) \in 1..Len(es)
        BY <1>3, <1>4, <1>6, <3>1
      <3> QED BY <1>1, <3>1, <3>2
    <2>3. ASSUME NEW x \in FullKeys, NEW y \in FullKeys, map[x] # None, map[y] = None,
                 map'[x] # None, map'[y] # None
          PROVE  map'[x].seq # map'[y].seq
      <3>1. map'[x].seq = map[x].seq /\ map[x].seq \in Nat /\ map[x].seq <= inserts
        BY <1>2, <2>3 DEF OrderOK
      <3>2. map'[y].seq = inserts + FirstOf(J(y)) /\ FirstOf(J(y)) \in J(y)
        BY <1>2, <2>3
      <3>3. FirstOf(J(y)) \in 1..Len(es)
        BY <1>3, <3>2
      <3> QED BY <1>1, <3>1, <3>2, <3>3
    <2> QED BY <1>6, <2>1, <2>2, <2>3
  <1> QED BY <1>5, <1>6 DEF OrderOK

\* A batch keeps the places of the entries it overwrites.
LEMMA SetStable ==
    ASSUME TypeOK, StableOK, NEW a \in Adapters, NEW es \in Lists(PutEntry), Set(a, es)
    PROVE  StableOK'
  <1>1. ASSUME NEW f \in FullKeys, map[f] # None
        PROVE  map'[f] # None /\ map'[f].seq = map[f].seq
    <2>1. map'[f] = IF At(a, es, f) = {} THEN map[f] ELSE Stored(a, es, f)
      BY DEF Set
    <2>2. At(a, es, f) # {} => Stored(a, es, f) # None
      BY StoredType, AdapterAssumption
    <2>3. Stored(a, es, f).seq = map[f].seq
      BY <1>1 DEF Stored, Place
    <2> QED BY <1>1, <2>1, <2>2, <2>3
  <1>2. stable' = stable /\ seen' = seen /\ task' = task
    BY DEF Set
  <1>3. \A t \in Tasks : stable[t] \subseteq FullKeys
    BY DEF TypeOK
  <1> QED BY <1>1, <1>2, <1>3 DEF StableOK

LEMMA DropStable ==
    ASSUME TypeOK, StableOK, NEW F, Drop(F), seen' = seen,
           \A t \in Tasks : task'[t].st = "iterator" => task'[t] = task[t]
    PROVE  StableOK'
  <1>1. \A t \in Tasks : stable'[t] = stable[t] \ F /\ stable[t] \subseteq FullKeys
    BY DEF Drop, TypeOK
  <1>2. \A fk \in FullKeys : fk \notin F => map'[fk] = map[fk]
    BY DEF Drop
  <1> QED BY <1>1, <1>2 DEF StableOK

LEMMA IteratorNextStable ==
    ASSUME IteratorInv, NEW t \in Tasks, IteratorNext(t)
    PROVE  StableOK'
  <1>1. PICK fk \in FullKeys :
           /\ IsNext(t, fk) /\ Drop(Skipped(t, fk))
           /\ task' = [task EXCEPT ![t].cursor = map[fk].seq]
           /\ seen' = [seen EXCEPT ![t] = @ \cup {fk}]
    BY DEF IteratorNext
  <1>2. /\ \A u \in Tasks : stable'[u] = stable[u] \ Skipped(t, fk) /\ stable[u] \subseteq FullKeys
        /\ \A u \in Tasks : seen[u] \subseteq seen'[u]
        /\ \A u \in Tasks : \A g \in stable'[u] : map'[g] = map[g]
        /\ fk \in seen'[t]
    BY <1>1 DEF Drop, IteratorInv, TypeOK
  <1>3. task \in [Tasks -> Task] /\ task[t].st = "iterator"
    BY DEF IteratorInv, TypeOK, IteratorNext
  <1>4. /\ \A u \in Tasks : u # t => task'[u] = task[u]
        /\ task'[t].st = "iterator" /\ task'[t].ns = task[t].ns /\ task'[t].cursor = map[fk].seq
    <2>1. task[t] \in [st : {"iterator"}, ns : Namespaces, cursor : Nat]
      BY <1>3 DEF Task, Idle
    <2> QED BY <1>1, <1>3, <2>1
  <1>5. ASSUME NEW g \in stable'[t]
        PROVE  /\ map'[g] # None /\ InNamespace(g, task'[t].ns)
               /\ g \in seen'[t] \/ map'[g].seq > task'[t].cursor
    <2>1. /\ g \in FullKeys /\ g \in stable[t] /\ map'[g] = map[g]
          /\ map[g] # None /\ InNamespace(g, task[t].ns)
          /\ g \in seen[t] \/ map[g].seq > task[t].cursor
      BY <1>2, <1>3 DEF IteratorInv, StableOK
    <2>2. CASE g \in seen'[t]
      BY <1>4, <2>1, <2>2
    <2>3. CASE g \notin seen'[t]
      <3>1. map[g].seq > task[t].cursor /\ g # fk
        BY <1>2, <2>1, <2>3
      <3>2. g \in Ahead(t)
        BY <2>1, <3>1 DEF Ahead
      <3>3. map[fk] # None /\ g \notin Skipped(t, fk)
        BY <1>1, <1>2 DEF IsNext, Ahead
      <3>4. map[fk].seq # map[g].seq
        BY <2>1, <3>1, <3>3 DEF IteratorInv, OrderOK
      <3>5. map[fk].seq \in Nat /\ map[g].seq \in Nat
        BY <2>1, <3>3 DEF IteratorInv, TypeOK, Entry
      <3>6. map[g].seq > map[fk].seq
        BY <3>2, <3>3, <3>4, <3>5 DEF Skipped
      <3> QED BY <1>4, <2>1, <3>6
    <2> QED BY <2>2, <2>3
  <1>6. ASSUME NEW u \in Tasks, u # t, task'[u].st = "iterator", NEW g \in stable'[u]
        PROVE  /\ map'[g] # None /\ InNamespace(g, task'[u].ns)
               /\ g \in seen'[u] \/ map'[g].seq > task'[u].cursor
    BY <1>2, <1>4, <1>6 DEF IteratorInv, StableOK
  <1> QED BY <1>5, <1>6 DEF StableOK

LEMMA InitIterator == Init => IteratorInv
  <1>1. Init => TypeOK
    BY InitType
  <1>2. Init => OrderOK /\ StableOK
    BY DEF Init, OrderOK, StableOK, Idle
  <1> QED BY <1>1, <1>2 DEF IteratorInv

\* An action that only drops keys, and takes no task into an iterator.
LEMMA DropIterator ==
    ASSUME IteratorInv, NEW F, Drop(F), inserts' = inserts, seen' = seen,
           \A t \in Tasks : task'[t].st = "iterator" => task'[t] = task[t]
    PROVE  OrderOK' /\ StableOK'
  BY DropOrder, DropStable DEF IteratorInv

\* An action that leaves the Map, the iterators and their history alone.
LEMMA OtherIterator ==
    ASSUME IteratorInv, UNCHANGED <<map, inserts, stable, seen>>,
           \A t \in Tasks : task'[t].st = "iterator" => task'[t] = task[t]
    PROVE  OrderOK' /\ StableOK'
  BY DEF IteratorInv, OrderOK, StableOK

LEMMA IterateStable ==
    ASSUME IteratorInv, NEW t \in Tasks, NEW a \in Adapters, Iterate(t, a)
    PROVE  OrderOK' /\ StableOK'
  <1>1. OrderOK'
    BY DEF IteratorInv, OrderOK, Iterate
  <1>2. /\ map' = map
        /\ task'[t] = [st |-> "iterator", ns |-> namespace[a], cursor |-> 0]
        /\ stable'[t] = {fk \in FullKeys : map[fk] # None /\ InNamespace(fk, namespace[a])}
        /\ \A u \in Tasks : u # t => /\ task'[u] = task[u] /\ stable'[u] = stable[u]
                                    /\ seen'[u] = seen[u]
    BY DEF Iterate, IteratorInv, TypeOK
  <1>3. \A fk \in FullKeys : map[fk] # None => map[fk].seq > 0
    BY DEF IteratorInv, TypeOK, Entry
  <1>4. ASSUME NEW u \in Tasks, task'[u].st = "iterator", NEW fk \in stable'[u]
        PROVE  /\ map'[fk] # None /\ InNamespace(fk, task'[u].ns)
               /\ fk \in seen'[u] \/ map'[fk].seq > task'[u].cursor
    <2>1. CASE u = t
      BY <1>2, <1>3, <1>4, <2>1
    <2>2. CASE u # t
      BY <1>2, <1>4, <2>2 DEF IteratorInv, StableOK
    <2> QED BY <2>1, <2>2
  <1> QED BY <1>1, <1>4 DEF StableOK

\* What an action does to the iterators, and that no other action than
\* IteratorEnd ends one.
LEMMA StepIterator ==
    ASSUME IteratorInv, [Next]_vars
    PROVE  /\ OrderOK' /\ StableOK'
           /\ \A t \in Tasks : (task[t].st = "iterator" /\ task'[t].st = "idle") => IteratorEnd(t)
  <1> DEFINE Good == /\ OrderOK' /\ StableOK'
                     /\ \A t \in Tasks :
                           (task[t].st = "iterator" /\ task'[t].st = "idle") => IteratorEnd(t)
  <1>0. task \in [Tasks -> Task]
    BY DEF IteratorInv, TypeOK
  <1>1. ASSUME NEW F, Drop(F), inserts' = inserts, seen' = seen, task' = task
        PROVE  Good
    BY <1>1, DropIterator
  <1>2. ASSUME UNCHANGED <<map, inserts, stable, seen, task>>
        PROVE  Good
    BY <1>2, OtherIterator
  <1>3. ASSUME NEW a \in Adapters, NEW ks \in Lists(Keys), Get(a, ks)
        PROVE  Good
    BY <1>1, <1>3 DEF Get
  <1>15. ASSUME NEW a \in Adapters, NEW ks \in Lists(Keys), Delete(a, ks)
        PROVE  Good
    BY <1>1, <1>15 DEF Delete
  <1>4. ASSUME NEW a \in Adapters, NEW k \in Keys, HasOne(a, k)
        PROVE  Good
    BY <1>1, <1>4 DEF HasOne, Has
  <1>5. ASSUME NEW a \in Adapters, NEW es \in Lists(PutEntry), Set(a, es)
        PROVE  Good
    BY <1>5, SetOrder, SetStable DEF IteratorInv, Set
  <1>6. ASSUME NEW a \in Adapters, Clear(a)
        PROVE  Good
    BY <1>1, <1>6 DEF Clear
  <1>7. ASSUME NEW a \in Adapters, NEW ns \in Namespaces, SetNamespace(a, ns)
        PROVE  Good
    BY <1>2, <1>7 DEF SetNamespace
  <1>8. ASSUME NEW t \in Tasks, NEW a \in Adapters, NEW ks \in Lists(Keys), HasMany(t, a, ks)
        PROVE  Good
    <2>1. \A u \in Tasks : task'[u] = task[u] \/ (task[u] = Idle /\ task'[u].st = "hasMany")
      BY <1>0, <1>8 DEF HasMany
    <2> QED BY <1>8, <2>1, OtherIterator DEF HasMany, Idle
  <1>9. ASSUME NEW t \in Tasks, NEW a \in Adapters, Iterate(t, a)
        PROVE  Good
    <2>1. \A u \in Tasks : task'[u] = task[u] \/ task'[u].st = "iterator"
      BY <1>0, <1>9 DEF Iterate
    <2> QED BY <1>9, <2>1, IterateStable
  <1>10. ASSUME NEW t \in Tasks, HasManyNext(t)
         PROVE  Good
    <2>1. Drop(Outdated({Full(task[t].a, Head(task[t].keys))}))
      BY <1>10 DEF HasManyNext, Has
    <2>2. task[t] \in [st : {"hasMany"}, a : Adapters, keys : Seq(Keys) \ {<<>>}]
      BY <1>0, <1>10 DEF HasManyNext, Task, Idle
    <2>3. task'[t] = Idle \/ task'[t] = [task[t] EXCEPT !.keys = Rest(t)]
      BY <1>0, <1>10 DEF HasManyNext
    <2>4. task'[t].st # "iterator" /\ task[t].st # "iterator"
      BY <2>2, <2>3 DEF Idle
    <2>5. \A u \in Tasks : u # t => task'[u] = task[u]
      BY <1>0, <1>10 DEF HasManyNext
    <2> QED BY <1>10, <2>1, <2>4, <2>5, DropIterator DEF HasManyNext, Has
  <1>11. ASSUME NEW t \in Tasks, IteratorNext(t)
         PROVE  Good
    <2>1. PICK fk \in FullKeys :
             /\ task' = [task EXCEPT ![t].cursor = map[fk].seq]
             /\ Drop(Skipped(t, fk))
      BY <1>11 DEF IteratorNext
    <2>2. OrderOK'
      <3>1. inserts' = inserts
        BY <1>11 DEF IteratorNext
      <3> QED BY <2>1, <3>1, DropOrder DEF IteratorInv, OrderOK
    <2>3. task[t] \in [st : {"iterator"}, ns : Namespaces, cursor : Nat]
      BY <1>0, <1>11 DEF IteratorNext, Task, Idle
    <2>4. \A u \in Tasks : task'[u].st = task[u].st
      BY <1>0, <2>1, <2>3
    <2> QED BY <1>11, <2>2, <2>4, IteratorNextStable
  <1>12. ASSUME NEW t \in Tasks, IteratorEnd(t)
         PROVE  Good
    <2>1. task'[t] = Idle /\ \A u \in Tasks : u # t => task'[u] = task[u]
      BY <1>0, <1>12 DEF IteratorEnd
    <2>2. \A u \in Tasks : task'[u].st = "iterator" => task'[u] = task[u]
      BY <2>1 DEF Idle
    <2>3. OrderOK' /\ StableOK'
      BY <1>12, <2>2, DropIterator DEF IteratorEnd
    <2>4. ASSUME NEW u \in Tasks, task[u].st = "iterator", task'[u].st = "idle"
          PROVE  IteratorEnd(u)
      <3>1. u = t
        BY <2>1, <2>4
      <3> QED BY <1>12, <3>1
    <2> QED BY <2>3, <2>4
  <1>13. CASE Tick
    BY <1>2, <1>13 DEF Tick
  <1>14. CASE UNCHANGED vars
    BY <1>2, <1>14 DEF vars
  <1>16. Next => Good
    BY <1>3, <1>15, <1>4, <1>5, <1>6, <1>7, <1>8, <1>9, <1>10, <1>11, <1>12, <1>13 DEF Next
  <1>17. Good
    BY <1>14, <1>16
  <1> QED BY <1>17

\* An iterator has yielded, when it ends, every entry of its namespace that was
\* in the Map when it started and was neither deleted nor expired since.
THEOREM IteratorCompletes == Spec => IteratorComplete
  <1> DEFINE Complete == \A t \in Tasks : (task[t].st = "iterator" /\ task'[t].st = "idle") =>
                            \A fk \in stable[t] : fk \in seen[t] \/ Expired(map[fk])
  <1>1. IteratorInv /\ [Next]_vars => IteratorInv'
    <2> SUFFICES ASSUME IteratorInv, [Next]_vars PROVE IteratorInv'
      OBVIOUS
    <2>1. TypeOK'
      BY StepType DEF IteratorInv
    <2> QED BY <2>1, StepIterator DEF IteratorInv
  <1>2. IteratorInv /\ [Next]_vars => Complete
    <2> SUFFICES ASSUME IteratorInv, [Next]_vars, NEW t \in Tasks,
                        task[t].st = "iterator", task'[t].st = "idle", NEW fk \in stable[t]
                 PROVE  fk \in seen[t] \/ Expired(map[fk])
      OBVIOUS
    <2>1. \A g \in Ahead(t) : Expired(map[g])
      BY StepIterator DEF IteratorEnd
    <2>2. /\ fk \in FullKeys /\ map[fk] # None /\ InNamespace(fk, task[t].ns)
          /\ fk \in seen[t] \/ map[fk].seq > task[t].cursor
      BY DEF IteratorInv, TypeOK, StableOK
    <2> QED BY <2>1, <2>2 DEF Ahead
  <1>3. Init => IteratorInv
    BY InitIterator
  <1>4. Spec => [][Complete]_vars
    <2> HIDE DEF Complete
    <2> QED BY <1>1, <1>2, <1>3, PTL DEF Spec
  <1> QED BY <1>4 DEF IteratorComplete
=============================================================================
