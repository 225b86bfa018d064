-------------------------- MODULE BridgeAdapterProofs --------------------------
(***************************************************************************)
(* What BridgeAdapter.tla claims, for every set of namespaces, keys,       *)
(* values, adapters, stores and tasks.  The invariant says what each call  *)
(* has asked, been answered and been told, and relates it to the stores.   *)
(***************************************************************************)
EXTENDS BridgeAdapter, SequenceTheorems, WellFoundedInduction, TLAPS

---------------------------------------------------------------------------
(* The invariant: what every variable holds *)

Found     == [key : Seq(STRING), row : Data]
Answer    == Seq(Rows) \cup Seq(BOOLEAN) \cup Seq(Found)
JobType   == [op : KeyOps \cup WalkOps, a : Adapters, keys : Seq(Keys), vals : Seq(Data),
              ns : Namespaces, stage : {"run", "sweep"}, res : Answer,
              rows : Seq(Rows), full : Seq(FullKeys)]
ReqType   == [s : Stores, m : SingleOps \cup Optional \cup {"clear"},
              keys : Seq(FullKeys), vals : Seq(Data)]
WalkType  == [s : Stores, due : SUBSET FullKeys, done : SUBSET FullKeys]
Kinds     == {"rows", "booleans", "boolean", "undefined", "rejected", "done", "entry"}
Entry     == [key : FullKeys, row : Data]
Served1   == Seq(Rows) \cup Seq(BOOLEAN) \cup BOOLEAN \cup Entry \cup {None}
AnsType   == [is : Kinds, v : Served1]
ToldType  == [key : FullKeys, row : Rows, over : BOOLEAN] \cup BOOLEAN \cup {None}
Steps     == {"idle", "asked", "served", "resolved", "rejected"}

Types ==
    /\ now \in Nat /\ calls \in Nat
    /\ data \in [Stores -> [FullKeys -> Rows]]
    /\ namespace \in [Adapters -> Namespaces] /\ store \in [Adapters -> Stores]
    /\ native \in [Adapters -> SUBSET Optional]
    /\ pc \in [Tasks -> Steps] /\ req \in [Tasks -> ReqType] /\ ans \in [Tasks -> AnsType]
    /\ job \in [Tasks -> JobType] /\ walk \in [Tasks -> WalkType]
    /\ raced \in [Tasks -> SUBSET FullKeys] /\ told \in [Tasks -> Seq(ToldType)]

\* A job: a write has data for every key, and it never answers more than it was asked.
JobShape(j) ==
    /\ j.res \in Results(j.op)
    /\ j.op \in KeyOps => Len(j.res) <= Len(j.keys)
    /\ j.op \in WriteOps => Len(j.vals) = Len(j.keys)
    /\ j.stage = "sweep" => j.op \in ReadOps \cup HasOps \cup {"iterator"}

\* The request a job on keys makes for the keys that follow what it has answered.
KeysAsked(j, r) ==
    /\ r.m = IF Native(j.a, j.op) THEN j.op ELSE OneByOne(j.a, j.op)
    /\ IF Native(j.a, j.op) THEN j.res = <<>> /\ Len(r.keys) = Len(j.keys)
       ELSE Len(r.keys) = 1 /\ Len(j.res) < Len(j.keys)
    /\ \A i \in DOMAIN r.keys : \E ns \in Namespaces :
          r.keys[i] = GetKeyPrefix(j.keys[Len(j.res) + i], ns)
    /\ j.op \in WriteOps => Len(r.vals) = Len(r.keys)

\* Rows that are still to be judged, from the first expired one on.
RowsLeft(j) ==
    /\ Len(j.full) = Len(j.rows)
    /\ IF Native(j.a, j.op) THEN Len(j.res) + Len(j.rows) = Len(j.keys)
       ELSE Len(j.res) + Len(j.rows) <= Len(j.keys)

Asks(j, r, s) ==
    /\ (j.op \in KeyOps /\ j.stage = "run") => KeysAsked(j, r)
    /\ j.stage = "sweep" => r.m = "delete" /\ Len(r.keys) = 1
    /\ (j.op \in KeyOps /\ j.stage = "sweep") => RowsLeft(j)
    /\ (j.op = "iterator" /\ j.stage = "run") => r.m = "iterator"
    /\ j.op = "clear" => /\ r.m \in {"clear", "iterator", "delete"}
                         /\ (j.ns # <<>> /\ "iterator" \in native[j.a]) => r.m # "clear"
                         /\ r.m = "delete" => j.full # <<>> /\ r.keys = <<Head(j.full)>>
                         /\ \A i \in DOMAIN j.full : InNamespace(j.full[i], j.ns)
    /\ r.m = "iterator" => r.s = s

\* The answer to a request.
Answers(r, x) ==
    /\ x.is = "rows" => r.m \in ReadOps /\ x.v \in Seq(Rows) /\ Len(x.v) = Len(r.keys)
    /\ x.is = "booleans" => /\ r.m \in HasOps \cup WriteOps \cup DeleteOps
                            /\ x.v \in Seq(BOOLEAN) /\ Len(x.v) = Len(r.keys)
    /\ x.is = "boolean" => r.m = "deleteMany" /\ x.v \in BOOLEAN
    /\ x.is = "undefined" => r.m \in Optional
    /\ x.is = "done" => r.m \in {"clear", "iterator"}
    /\ x.is = "entry" => r.m = "iterator" /\ x.v \in Entry

CallInv(t) ==
    /\ JobShape(job[t])
    /\ pc[t] \in {"asked", "served"} => Asks(job[t], req[t], walk[t].s)
    /\ pc[t] = "served" => Answers(req[t], ans[t])

CallsInv == Types /\ \A t \in Tasks : CallInv(t)

---------------------------------------------------------------------------
(* Helpers *)

LEMMA SeqIntro ==
    ASSUME NEW n \in Nat, NEW S, NEW s, s \in [1..n -> S]
    PROVE  s \in Seq(S) /\ Len(s) = n /\ DOMAIN s = 1..n
  OBVIOUS

LEMMA GreatestElement ==
    ASSUME NEW n \in Nat, NEW J, J \subseteq 0..n, J # {}
    PROVE  \E j \in J : \A m \in J : m <= j
  <1> DEFINE R == {p \in Nat \X Nat : p[1] < p[2]}
             K == {n - j : j \in J}
  <1>0. \A j \in J : j \in 0..n /\ j \in Nat /\ n - j \in Nat
    <2> SUFFICES ASSUME NEW j \in J PROVE j \in 0..n /\ j \in Nat /\ n - j \in Nat
      OBVIOUS
    <2>1. j \in 0..n
      OBVIOUS
    <2> QED BY <2>1
  <1>1. IsWellFoundedOn(R, Nat)
    BY NatLessThanWellFounded DEF OpToRel
  <1>2. \A x, y \in Nat : <<y, x>> \in R <=> y < x
    OBVIOUS
  <1>3. K \subseteq Nat /\ K # {}
    BY <1>0
  <1>4. PICK k \in K : \A m \in K : ~ (<<m, k>> \in R)
    <2> HIDE DEF K, R
    <2> QED BY <1>1, <1>3, WFMin
  <1>5. PICK j \in J : k = n - j
    OBVIOUS
  <1>6. \A m \in J : n - m \in K /\ n - m \in Nat /\ n - j \in Nat /\ m \in Nat /\ j \in Nat
    BY <1>0
  <1> HIDE DEF R, K
  <1>7. \A m \in J : ~ (n - m < n - j)
    BY <1>2, <1>4, <1>5, <1>6
  <1>8. \A m \in J : m <= j
    BY <1>6, <1>7
  <1> QED BY <1>8

\* A non-empty set of positions has a first and a last one.
LEMMA Positions ==
    ASSUME NEW n \in Nat, NEW J, J \subseteq 1..n, J # {}
    PROVE  /\ \E j \in J : \A m \in J : j <= m
           /\ \E j \in J : \A m \in J : m <= j
  <1>1. J \subseteq 0..n
    OBVIOUS
  <1>2. \E j \in J : \A m \in J : m <= j
    BY <1>1, GreatestElement
  <1> DEFINE K == {n - j : j \in J}
  <1>3. K \subseteq 0..n /\ K # {}
    <2> SUFFICES ASSUME NEW j \in J PROVE n - j \in 0..n
      OBVIOUS
    <2>1. j \in 1..n
      OBVIOUS
    <2> QED BY <2>1
  <1>4. PICK k \in K : \A m \in K : m <= k
    <2> HIDE DEF K
    <2> QED BY <1>3, GreatestElement
  <1>5. PICK j \in J : k = n - j
    OBVIOUS
  <1>6. \A m \in J : n - m \in K /\ m \in 1..n /\ j \in 1..n
    OBVIOUS
  <1> HIDE DEF K
  <1>7. \A m \in J : n - m <= n - j /\ m \in Nat /\ j \in Nat
    BY <1>4, <1>5, <1>6
  <1>8. \A m \in J : j <= m
    BY <1>7
  <1> QED BY <1>2, <1>8

LEMMA FullIn ==
    ASSUME Types, NEW a \in Adapters, NEW k \in Keys
    PROVE  Full(a, k) \in FullKeys /\ Full(a, k) = GetKeyPrefix(k, namespace[a])
           /\ namespace[a] \in Namespaces
  <1>1. namespace[a] \in Namespaces
    BY DEF Types
  <1> QED BY <1>1 DEF Full, FullKeys

\* What a store answers has its type.
LEMMA AnswerTypes ==
    /\ Seq(Rows) \subseteq Served1 /\ Seq(BOOLEAN) \subseteq Served1 /\ BOOLEAN \subseteq Served1
    /\ Entry \subseteq Served1 /\ None \in Served1
    /\ \A op : Results(op) \subseteq Answer
  <1>1. \A op : Results(op) \subseteq Answer
    BY DEF Results, Answer, Found
  <1> QED BY <1>1 DEF Served1

---------------------------------------------------------------------------
(* Asking and finishing *)

\* The tasks a step of t is not about.
Rest(t) == \A u \in Tasks : u # t => /\ pc'[u] = pc[u] /\ req'[u] = req[u] /\ ans'[u] = ans[u]
                                     /\ job'[u] = job[u] /\ told'[u] = told[u]
                                     /\ walk'[u].s = walk[u].s

LEMMA AskEffect ==
    ASSUME Types, NEW t \in Tasks, NEW s \in Stores, NEW m \in SingleOps \cup Optional \cup {"clear"},
           NEW ks \in Seq(FullKeys), NEW vs \in Seq(Data), Ask(t, s, m, ks, vs)
    PROVE  /\ pc' \in [Tasks -> Steps] /\ req' \in [Tasks -> ReqType]
           /\ pc'[t] = "asked" /\ req'[t] = [s |-> s, m |-> m, keys |-> ks, vals |-> vs]
           /\ \A u \in Tasks : u # t => pc'[u] = pc[u] /\ req'[u] = req[u]
  <1> DEFINE r == [s |-> s, m |-> m, keys |-> ks, vals |-> vs]
  <1>1. r \in ReqType /\ "asked" \in Steps
    BY DEF ReqType, Steps
  <1>2. pc \in [Tasks -> Steps] /\ req \in [Tasks -> ReqType]
    BY DEF Types
  <1>3. pc' = Set(pc, t, "asked") /\ req' = Set(req, t, r)
    BY DEF Ask
  <1> HIDE DEF r
  <1>4. pc' \in [Tasks -> Steps] /\ pc'[t] = "asked" /\ \A u \in Tasks : u # t => pc'[u] = pc[u]
    BY <1>1, <1>2, <1>3 DEF Set
  <1>5. req' \in [Tasks -> ReqType] /\ req'[t] = r /\ \A u \in Tasks : u # t => req'[u] = req[u]
    BY <1>1, <1>2, <1>3 DEF Set
  <1> QED BY <1>4, <1>5 DEF r

LEMMA FinishEffect ==
    ASSUME Types, NEW t \in Tasks, NEW o \in {"resolved", "rejected"}, Finish(t, o)
    PROVE  /\ pc' \in [Tasks -> Steps] /\ req' \in [Tasks -> ReqType]
           /\ pc'[t] = o /\ \A u \in Tasks : (u # t => pc'[u] = pc[u]) /\ req'[u] = req[u]
  <1>1. pc \in [Tasks -> Steps] /\ o \in Steps
    BY DEF Types, Steps
  <1>2. pc' = Set(pc, t, o) /\ req' = req
    BY DEF Finish
  <1> QED BY <1>1, <1>2 DEF Types, Set

\* The keys a job may ask for, from `first' to `last'.
LEMMA AskKeysEffect ==
    ASSUME Types, NEW t \in Tasks, NEW j \in JobType, NEW m \in KeyOps,
           NEW first \in Nat, NEW last \in Nat, 1 <= first, first <= last + 1, last <= Len(j.keys),
           j.op \in WriteOps => Len(j.vals) = Len(j.keys),
           AskKeys(t, j, m, first, last)
    PROVE  /\ pc' \in [Tasks -> Steps] /\ req' \in [Tasks -> ReqType] /\ pc'[t] = "asked"
           /\ req'[t].s = store[j.a] /\ req'[t].m = m /\ Len(req'[t].keys) = last - first + 1
           /\ \A i \in 1..(last - first + 1) :
                 req'[t].keys[i] = GetKeyPrefix(j.keys[first + i - 1], namespace[j.a])
           /\ j.op \in WriteOps => Len(req'[t].vals) = last - first + 1
           /\ \A u \in Tasks : u # t => pc'[u] = pc[u] /\ req'[u] = req[u]
  <1> DEFINE n  == last - first + 1
             ks == [i \in 1..n |-> Full(j.a, j.keys[first + i - 1])]
             vs == IF j.op \in WriteOps THEN [i \in 1..n |-> j.vals[first + i - 1]] ELSE <<>>
  <1>1. n \in Nat /\ \A i \in 1..n : first + i - 1 \in 1..Len(j.keys)
    <2>1. j.keys \in Seq(Keys)
      BY DEF JobType
    <2>2. Len(j.keys) \in Nat
      BY <2>1
    <2> QED BY <2>2
  <1>2. j.a \in Adapters /\ store[j.a] \in Stores /\ m \in SingleOps \cup Optional \cup {"clear"}
    <2>1. j.a \in Adapters
      BY DEF JobType
    <2>2. m \in SingleOps \cup Optional
      BY DEF KeyOps, ReadOps, HasOps, WriteOps, DeleteOps, SingleOps, Optional
    <2> QED BY <2>1, <2>2 DEF Types
  <1>3. \A i \in 1..n : j.keys[first + i - 1] \in Keys
    <2>1. j.keys \in Seq(Keys)
      BY DEF JobType
    <2> QED BY <1>1, <2>1, ElementOfSeq
  <1>4. \A i \in 1..n : /\ Full(j.a, j.keys[first + i - 1]) \in FullKeys
                        /\ Full(j.a, j.keys[first + i - 1]) = GetKeyPrefix(j.keys[first + i - 1], namespace[j.a])
    BY <1>2, <1>3, FullIn
  <1>5. ks \in Seq(FullKeys) /\ Len(ks) = n
    <2> HIDE DEF n
    <2>1. ks \in [1..n -> FullKeys]
      BY <1>4
    <2> HIDE DEF ks
    <2> QED BY <1>1, <2>1, SeqIntro
  <1>6. vs \in Seq(Data) /\ (j.op \in WriteOps => Len(vs) = n)
    <2>1. CASE j.op \in WriteOps
      <3>1. j.vals \in Seq(Data)
        BY DEF JobType
      <3>2. \A i \in 1..n : j.vals[first + i - 1] \in Data
        BY <1>1, <2>1, <3>1, ElementOfSeq
      <3> HIDE DEF n
      <3>3. vs \in [1..n -> Data]
        BY <2>1, <3>2
      <3> HIDE DEF vs
      <3> QED BY <1>1, <2>1, <3>3, SeqIntro
    <2>2. CASE ~(j.op \in WriteOps)
      BY <2>2
    <2> QED BY <2>1, <2>2
  <1>7. Ask(t, store[j.a], m, ks, vs)
    BY DEF AskKeys
  <1>8. \A i \in 1..n : ks[i] = GetKeyPrefix(j.keys[first + i - 1], namespace[j.a])
    BY <1>4
  <1> HIDE DEF n, ks, vs
  <1>9. /\ pc' \in [Tasks -> Steps] /\ req' \in [Tasks -> ReqType] /\ pc'[t] = "asked"
        /\ req'[t] = [s |-> store[j.a], m |-> m, keys |-> ks, vals |-> vs]
        /\ \A u \in Tasks : u # t => pc'[u] = pc[u] /\ req'[u] = req[u]
    BY <1>2, <1>5, <1>6, <1>7, AskEffect
  <1>10. /\ req'[t].s = store[j.a] /\ req'[t].m = m /\ req'[t].keys = ks /\ req'[t].vals = vs
    BY <1>9
  <1>11. /\ req'[t].s = store[j.a] /\ req'[t].m = m /\ Len(req'[t].keys) = n
         /\ \A i \in 1..n : req'[t].keys[i] = GetKeyPrefix(j.keys[first + i - 1], namespace[j.a])
         /\ j.op \in WriteOps => Len(req'[t].vals) = n
    BY <1>5, <1>6, <1>8, <1>10
  <1> QED BY <1>9, <1>11 DEF n

\* The next key of a call that goes key by key.
LEMMA ProceedEffect ==
    ASSUME Types, NEW t \in Tasks, NEW j \in JobType, NEW res, Len(res) \in Nat,
           Len(res) <= Len(j.keys), j.op \in KeyOps, j.op \in WriteOps => Len(j.vals) = Len(j.keys),
           Proceed(t, j, res)
    PROVE  /\ pc' \in [Tasks -> Steps] /\ req' \in [Tasks -> ReqType]
           /\ \A u \in Tasks : u # t => pc'[u] = pc[u] /\ req'[u] = req[u]
           /\ \/ /\ pc'[t] = "resolved" /\ req'[t] = req[t]
                 /\ Native(j.a, j.op) \/ Len(res) = Len(j.keys)
              \/ /\ pc'[t] = "asked" /\ ~Native(j.a, j.op) /\ req'[t].s = store[j.a]
                 /\ \A k : (k.a = j.a /\ k.op = j.op /\ k.keys = j.keys /\ Len(k.res) = Len(res))
                              => KeysAsked(k, req'[t])
  <1> DEFINE m == OneByOne(j.a, j.op)
             n == Len(res) + 1
  <1>1. CASE Native(j.a, j.op) \/ Len(res) = Len(j.keys)
    <2>1. Finish(t, "resolved")
      BY <1>1 DEF Proceed
    <2> QED BY <1>1, <2>1, FinishEffect
  <1>2. ASSUME ~(Native(j.a, j.op) \/ Len(res) = Len(j.keys))
        PROVE  /\ pc' \in [Tasks -> Steps] /\ req' \in [Tasks -> ReqType]
               /\ \A u \in Tasks : u # t => pc'[u] = pc[u] /\ req'[u] = req[u]
               /\ pc'[t] = "asked" /\ req'[t].s = store[j.a]
               /\ \A k : (k.a = j.a /\ k.op = j.op /\ k.keys = j.keys /\ Len(k.res) = Len(res))
                            => KeysAsked(k, req'[t])
    <2>1. m \in KeyOps
      BY DEF OneByOne, KeyOps, ReadOps, HasOps, WriteOps, DeleteOps
    <2>2. n \in Nat /\ 1 <= n /\ n <= n + 1 /\ n <= Len(j.keys)
      <3>1. j.keys \in Seq(Keys)
        BY DEF JobType
      <3>2. Len(j.keys) \in Nat
        BY <3>1
      <3> QED BY <1>2, <3>2
    <2>3. AskKeys(t, j, m, n, n)
      BY <1>2 DEF Proceed
    <2> HIDE DEF m, n
    <2>4. /\ pc' \in [Tasks -> Steps] /\ req' \in [Tasks -> ReqType] /\ pc'[t] = "asked"
          /\ req'[t].s = store[j.a] /\ req'[t].m = m /\ Len(req'[t].keys) = n - n + 1
          /\ \A i \in 1..(n - n + 1) :
                req'[t].keys[i] = GetKeyPrefix(j.keys[n + i - 1], namespace[j.a])
          /\ j.op \in WriteOps => Len(req'[t].vals) = n - n + 1
          /\ \A u \in Tasks : u # t => pc'[u] = pc[u] /\ req'[u] = req[u]
      BY <2>1, <2>2, <2>3, AskKeysEffect
    <2>5. DOMAIN req'[t].keys = 1..1 /\ Len(req'[t].keys) = 1
      <3>1. req'[t] \in ReqType
        BY <2>4
      <3>2. req'[t].keys \in Seq(FullKeys) /\ Len(req'[t].keys) = 1
        BY <2>2, <2>4, <3>1 DEF ReqType
      <3> QED BY <3>2
    <2>6. namespace[j.a] \in Namespaces
      BY DEF Types, JobType
    <2> SUFFICES ASSUME NEW k, k.a = j.a, k.op = j.op, k.keys = j.keys, Len(k.res) = Len(res)
                 PROVE  KeysAsked(k, req'[t])
      BY <2>4
    <2>7. \A i \in DOMAIN req'[t].keys : req'[t].keys[i] = GetKeyPrefix(j.keys[Len(res) + i], namespace[j.a])
      <3> SUFFICES ASSUME NEW i \in DOMAIN req'[t].keys
                   PROVE  req'[t].keys[i] = GetKeyPrefix(j.keys[Len(res) + i], namespace[j.a])
        OBVIOUS
      <3>1. i = 1 /\ n + i - 1 = Len(res) + i /\ i \in 1..(n - n + 1)
        BY <2>2, <2>5 DEF n
      <3> QED BY <2>4, <3>1
    <2>8. Len(res) < Len(j.keys) /\ (j.op \in WriteOps => Len(req'[t].vals) = 1)
      BY <2>2, <2>4 DEF n
    <2> QED BY <1>2, <2>4, <2>5, <2>6, <2>7, <2>8 DEF KeysAsked, m
  <1> QED BY <1>1, <1>2

\* The invariant of a call, from what a step makes of it.
LEMMA CallIntro ==
    ASSUME native' = native, NEW t \in Tasks, JobShape(job'[t]),
           pc'[t] \in {"asked", "served"} => Asks(job'[t], req'[t], walk'[t].s),
           pc'[t] = "served" => Answers(req'[t], ans'[t])
    PROVE  CallInv(t)'
  BY DEF CallInv, Asks, KeysAsked, RowsLeft, Native, OneByOne, Answers, JobShape

\* What a step leaves of the other calls' invariant.
LEMMA RestKeeps ==
    ASSUME CallsInv, native' = native, NEW t \in Tasks, Rest(t), CallInv(t)'
    PROVE  \A u \in Tasks : CallInv(u)'
  <1> SUFFICES ASSUME NEW u \in Tasks, u # t PROVE CallInv(u)'
    OBVIOUS
  <1>1. /\ pc'[u] = pc[u] /\ req'[u] = req[u] /\ ans'[u] = ans[u] /\ job'[u] = job[u]
        /\ walk'[u].s = walk[u].s
    BY DEF Rest
  <1>2. /\ JobShape(job[u])
        /\ pc[u] \in {"asked", "served"} => Asks(job[u], req[u], walk[u].s)
        /\ pc[u] = "served" => Answers(req[u], ans[u])
    BY DEF CallsInv, CallInv
  <1> QED BY <1>1, <1>2, CallIntro

---------------------------------------------------------------------------
(* Entering a call *)

LEMMA ListsType ==
    ASSUME NEW S, NEW op, NEW ks \in Lists(S, op)
    PROVE  ks \in Seq(S) /\ Len(ks) \in Nat /\ (op \in SingleOps => Len(ks) = 1)
  <1>1. PICK n \in IF op \in SingleOps THEN {1} ELSE 0..MaxBatch : ks \in [1..n -> S]
    BY DEF Lists
  <1>2. n \in Nat /\ (op \in SingleOps => n = 1)
    BY <1>1, BridgeAssumption
  <1> QED BY <1>1, <1>2, SeqIntro

LEMMA NewDataType ==
    ASSUME Types, NEW n \in Nat, NEW ds, ds \in NewData(n)
    PROVE  ds \in Seq(Data) /\ Len(ds) = n
  <1>1. PICK xs \in [1..n -> Values], ls \in [1..n -> Lives] :
           ds = [i \in 1..n |-> [val |-> xs[i], exp |-> IF ls[i] = None THEN None ELSE now + ls[i]]]
    BY SMT DEF NewData
  <1>2. \A i \in 1..n : xs[i] \in Values /\ (IF ls[i] = None THEN None ELSE now + ls[i]) \in Nat \cup {None}
    <2> SUFFICES ASSUME NEW i \in 1..n
                 PROVE  xs[i] \in Values /\ (IF ls[i] = None THEN None ELSE now + ls[i]) \in Nat \cup {None}
      OBVIOUS
    <2>1. ls[i] \in Nat \cup {None} /\ now \in Nat
      BY BridgeAssumption DEF Types
    <2> QED BY <2>1
  <1>3. \A i \in 1..n : ds[i] \in Data
    BY <1>1, <1>2 DEF Data
  <1>4. ds \in [1..n -> Data]
    BY <1>1, <1>3
  <1> QED BY <1>4, SeqIntro

LEMMA NewJobType ==
    ASSUME Types, NEW op \in KeyOps \cup WalkOps, NEW a \in Adapters, NEW ks \in Seq(Keys),
           NEW vs \in Seq(Data), op \in WriteOps => Len(vs) = Len(ks)
    PROVE  LET j == NewJob(op, a, ks, vs)
           IN  /\ j \in JobType /\ JobShape(j)
               /\ j.op = op /\ j.a = a /\ j.keys = ks /\ j.vals = vs /\ j.ns = namespace[a]
               /\ j.stage = "run" /\ j.res = <<>> /\ j.rows = <<>> /\ j.full = <<>>
  <1> DEFINE j == NewJob(op, a, ks, vs)
  <1>1. /\ j.op = op /\ j.a = a /\ j.keys = ks /\ j.vals = vs /\ j.ns = namespace[a]
        /\ j.stage = "run" /\ j.res = <<>> /\ j.rows = <<>> /\ j.full = <<>>
    BY DEF NewJob
  <1>2. namespace[a] \in Namespaces
    BY DEF Types
  <1>3. <<>> \in Results(op) /\ <<>> \in Answer /\ <<>> \in Seq(Rows) /\ <<>> \in Seq(FullKeys)
    BY DEF Results, Answer
  <1>4. j \in JobType
    BY <1>2, <1>3 DEF NewJob, JobType
  <1>5. JobShape(j)
    <2>1. Len(<<>>) = 0 /\ Len(ks) \in Nat
      OBVIOUS
    <2> HIDE DEF j
    <2> QED BY <1>1, <1>3, <2>1 DEF JobShape
  <1> QED BY <1>1, <1>4, <1>5

LEMMA EnterEffect ==
    ASSUME Types, NEW t \in Tasks, NEW j \in JobType, Enter(t, j)
    PROVE  /\ calls' \in Nat /\ job' \in [Tasks -> JobType] /\ raced' \in [Tasks -> SUBSET FullKeys]
           /\ told' \in [Tasks -> Seq(ToldType)]
           /\ job'[t] = j /\ raced'[t] = {} /\ told'[t] = <<>>
           /\ \A u \in Tasks : u # t => job'[u] = job[u] /\ raced'[u] = raced[u] /\ told'[u] = told[u]
           /\ UNCHANGED <<now, data, namespace, store, native, ans>>
  <1>1. calls \in Nat /\ <<>> \in Seq(ToldType)
    BY DEF Types
  <1> QED BY <1>1 DEF Enter, Set, Types

LEMMA CallKeysInv ==
    ASSUME CallsInv, NEW t \in Tasks, NEW a \in Adapters, CallKeys(t, a)
    PROVE  /\ Types' /\ CallInv(t)' /\ Rest(t) /\ native' = native
           /\ pc'[t] \in {"asked", "resolved"} /\ told'[t] = <<>> /\ job'[t].res = <<>>
           /\ job'[t].op \in KeyOps /\ job'[t].stage = "run"
           /\ job'[t].op \in SingleOps => Len(job'[t].keys) = 1
           /\ pc'[t] = "resolved" => Len(job'[t].keys) = 0
  <1>0. PICK op \in Ops[t] \cap KeyOps : \E ks \in Lists(Keys, op) :
             \E vs \in IF op \in WriteOps THEN NewData(Len(ks)) ELSE {<<>>} :
               LET j == NewJob(op, a, ks, vs)
               IN  /\ Enter(t, j)
                   /\ IF Native(a, op) THEN AskKeys(t, j, op, 1, Len(ks)) ELSE Proceed(t, j, <<>>)
                   /\ UNCHANGED walk
    BY DEF CallKeys
  <1>1. PICK ks \in Lists(Keys, op) : \E vs \in IF op \in WriteOps THEN NewData(Len(ks)) ELSE {<<>>} :
               LET j == NewJob(op, a, ks, vs)
               IN  /\ Enter(t, j)
                   /\ IF Native(a, op) THEN AskKeys(t, j, op, 1, Len(ks)) ELSE Proceed(t, j, <<>>)
                   /\ UNCHANGED walk
    BY <1>0
  <1>b. PICK vs \in IF op \in WriteOps THEN NewData(Len(ks)) ELSE {<<>>} :
               LET j == NewJob(op, a, ks, vs)
               IN  /\ Enter(t, j)
                   /\ IF Native(a, op) THEN AskKeys(t, j, op, 1, Len(ks)) ELSE Proceed(t, j, <<>>)
                   /\ UNCHANGED walk
    BY <1>1
  <1> DEFINE j == NewJob(op, a, ks, vs)
  <1>2. /\ ks \in Seq(Keys) /\ Len(ks) \in Nat /\ vs \in Seq(Data) /\ (op \in WriteOps => Len(vs) = Len(ks))
        /\ op \in SingleOps => Len(ks) = 1
    <2>1. ks \in Seq(Keys) /\ Len(ks) \in Nat /\ (op \in SingleOps => Len(ks) = 1)
      BY ListsType
    <2>2. op \in WriteOps => vs \in Seq(Data) /\ Len(vs) = Len(ks)
      BY <2>1, NewDataType DEF CallsInv
    <2>3. op \notin WriteOps => vs \in Seq(Data)
      OBVIOUS
    <2> QED BY <2>1, <2>2, <2>3
  <1>3. /\ j \in JobType /\ JobShape(j)
        /\ j.op = op /\ j.a = a /\ j.keys = ks /\ j.vals = vs /\ j.ns = namespace[a]
        /\ j.stage = "run" /\ j.res = <<>> /\ j.rows = <<>> /\ j.full = <<>>
    BY <1>2, NewJobType DEF CallsInv
  <1>4. /\ Enter(t, j) /\ UNCHANGED walk
        /\ IF Native(a, op) THEN AskKeys(t, j, op, 1, Len(ks)) ELSE Proceed(t, j, <<>>)
    BY <1>b
  <1> HIDE DEF j
  <1>5. /\ calls' \in Nat /\ job' \in [Tasks -> JobType] /\ raced' \in [Tasks -> SUBSET FullKeys]
        /\ told' \in [Tasks -> Seq(ToldType)]
        /\ job'[t] = j /\ raced'[t] = {} /\ told'[t] = <<>>
        /\ \A u \in Tasks : u # t => job'[u] = job[u] /\ raced'[u] = raced[u] /\ told'[u] = told[u]
        /\ UNCHANGED <<now, data, namespace, store, native, ans>>
    BY <1>3, <1>4, EnterEffect DEF CallsInv
  <1>6. /\ pc' \in [Tasks -> Steps] /\ req' \in [Tasks -> ReqType]
        /\ \A u \in Tasks : u # t => pc'[u] = pc[u] /\ req'[u] = req[u]
        /\ pc'[t] \in {"asked", "resolved"}
        /\ pc'[t] = "asked" => KeysAsked(j, req'[t]) /\ req'[t].m # "iterator"
        /\ pc'[t] = "resolved" => Len(j.keys) = 0
    <2>1. CASE Native(a, op)
      <3>1. op \in KeyOps /\ 1 \in Nat /\ 1 <= 1 /\ 1 <= Len(ks) + 1 /\ Len(ks) <= Len(j.keys)
        BY <1>2, <1>3
      <3>2. /\ pc' \in [Tasks -> Steps] /\ req' \in [Tasks -> ReqType] /\ pc'[t] = "asked"
            /\ req'[t].s = store[j.a] /\ req'[t].m = op /\ Len(req'[t].keys) = Len(ks) - 1 + 1
            /\ \A i \in 1..(Len(ks) - 1 + 1) :
                  req'[t].keys[i] = GetKeyPrefix(j.keys[1 + i - 1], namespace[j.a])
            /\ j.op \in WriteOps => Len(req'[t].vals) = Len(ks) - 1 + 1
            /\ \A u \in Tasks : u # t => pc'[u] = pc[u] /\ req'[u] = req[u]
        BY <1>2, <1>3, <1>4, <2>1, <3>1, AskKeysEffect DEF CallsInv
      <3>3. req'[t].keys \in Seq(FullKeys)
        BY <3>2 DEF ReqType
      <3>4. DOMAIN req'[t].keys = 1..Len(ks) /\ Len(req'[t].keys) = Len(ks)
        BY <1>2, <3>2, <3>3
      <3>5. \A i \in DOMAIN req'[t].keys : req'[t].keys[i] = GetKeyPrefix(j.keys[Len(<<>>) + i], namespace[j.a])
        <4> SUFFICES ASSUME NEW i \in 1..Len(ks)
                     PROVE  req'[t].keys[i] = GetKeyPrefix(j.keys[Len(<<>>) + i], namespace[j.a])
          BY <3>4
        <4>1. 1 + i - 1 = Len(<<>>) + i /\ i \in 1..(Len(ks) - 1 + 1)
          BY <1>2
        <4> QED BY <3>2, <4>1
      <3>6. namespace[j.a] \in Namespaces /\ op # "iterator"
        BY <1>3 DEF CallsInv, Types, KeyOps, ReadOps, HasOps, WriteOps, DeleteOps
      <3>7. KeysAsked(j, req'[t])
        BY <1>2, <1>3, <2>1, <3>2, <3>4, <3>5, <3>6 DEF KeysAsked
      <3> QED BY <3>2, <3>6, <3>7
    <2>2. CASE ~Native(a, op)
      <3> DEFINE none == <<>>
      <3>1. Len(none) = 0 /\ Len(none) \in Nat /\ Len(none) <= Len(j.keys) /\ j.op \in KeyOps
            /\ (j.op \in WriteOps => Len(j.vals) = Len(j.keys)) /\ Proceed(t, j, none)
            /\ j.res = none
        BY <1>2, <1>3, <1>4, <2>2
      <3> HIDE DEF none
      <3>2. /\ pc' \in [Tasks -> Steps] /\ req' \in [Tasks -> ReqType]
            /\ \A u \in Tasks : u # t => pc'[u] = pc[u] /\ req'[u] = req[u]
            /\ \/ pc'[t] = "resolved" /\ (Native(j.a, j.op) \/ Len(none) = Len(j.keys))
               \/ /\ pc'[t] = "asked"
                  /\ \A k : (k.a = j.a /\ k.op = j.op /\ k.keys = j.keys /\ Len(k.res) = Len(none))
                               => KeysAsked(k, req'[t])
        BY <1>3, <3>1, ProceedEffect DEF CallsInv
      <3>5. pc'[t] = "resolved" => Len(j.keys) = 0
        BY <1>3, <2>2, <3>1, <3>2
      <3>3. pc'[t] = "asked" => KeysAsked(j, req'[t])
        BY <3>1, <3>2
      <3>4. pc'[t] = "asked" => req'[t].m # "iterator"
        BY <1>3, <2>2, <3>3 DEF KeysAsked, OneByOne
      <3> QED BY <3>2, <3>3, <3>4, <3>5
    <2> QED BY <2>1, <2>2
  <1>7. Types'
    BY <1>4, <1>5, <1>6 DEF CallsInv, Types
  <1>8. Rest(t) /\ native' = native
    BY <1>4, <1>5, <1>6 DEF Rest
  <1>9. j.op \notin {"clear", "iterator"}
    BY <1>3 DEF KeyOps, ReadOps, HasOps, WriteOps, DeleteOps
  <1>10. pc'[t] \in {"asked", "served"} => Asks(job'[t], req'[t], walk'[t].s)
    BY <1>3, <1>5, <1>6, <1>9 DEF Asks
  <1>11. CallInv(t)'
    BY <1>3, <1>5, <1>6, <1>8, <1>10, CallIntro
  <1> QED BY <1>2, <1>3, <1>5, <1>6, <1>7, <1>8, <1>11

LEMMA CallWalkInv ==
    ASSUME CallsInv, NEW t \in Tasks, NEW a \in Adapters, CallWalk(t, a)
    PROVE  /\ Types' /\ CallInv(t)' /\ Rest(t) /\ native' = native
           /\ pc'[t] \in {"asked", "resolved"} /\ told'[t] = <<>>
           /\ job'[t].op \in WalkOps /\ job'[t].stage = "run"
           /\ job'[t].full = <<>> /\ store' = store /\ data' = data
           /\ pc'[t] = "resolved" => job'[t].op = "iterator"
           /\ pc'[t] = "asked" => \/ req'[t].m = "clear"
                                  \/ /\ req'[t].m = "iterator" /\ walk'[t].s = store[job'[t].a]
                                     /\ \A k \in FullKeys : data[walk'[t].s][k] = None \/ k \in walk'[t].due
  <1> DEFINE w == [s |-> store[a], done |-> {}, due |-> {k \in FullKeys : data[store[a]][k] # None}]
  <1>1. PICK op \in Ops[t] \cap WalkOps :
          LET j == NewJob(op, a, <<>>, <<>>)
          IN  /\ Enter(t, j)
              /\ \/ /\ op = "clear" /\ (j.ns = <<>> \/ "iterator" \notin native[a])
                    /\ Ask(t, store[a], "clear", <<>>, <<>>) /\ UNCHANGED walk
                 \/ /\ op = "iterator" /\ "iterator" \notin native[a]
                    /\ Finish(t, "resolved") /\ UNCHANGED walk
                 \/ /\ "iterator" \in native[a] /\ (op = "iterator" \/ j.ns # <<>>)
                    /\ Ask(t, store[a], "iterator", <<>>, <<>>)
                    /\ walk' = Set(walk, t, w)
    BY DEF CallWalk
  <1> DEFINE j == NewJob(op, a, <<>>, <<>>)
  <1>2. Types /\ store[a] \in Stores /\ <<>> \in Seq(FullKeys) /\ <<>> \in Seq(Data) /\ <<>> \in Seq(Keys)
    BY DEF CallsInv, Types
  <1>3. /\ j \in JobType /\ JobShape(j)
        /\ j.op = op /\ j.a = a /\ j.ns = namespace[a]
        /\ j.stage = "run" /\ j.res = <<>> /\ j.rows = <<>> /\ j.full = <<>>
    <2>1. op \in KeyOps \cup WalkOps /\ op \notin WriteOps
      BY DEF WalkOps, WriteOps
    <2>2. \A ks \in Seq(Keys), vs \in Seq(Data) : LET i == NewJob(op, a, ks, vs)
           IN  /\ i \in JobType /\ JobShape(i)
               /\ i.op = op /\ i.a = a /\ i.keys = ks /\ i.vals = vs /\ i.ns = namespace[a]
               /\ i.stage = "run" /\ i.res = <<>> /\ i.rows = <<>> /\ i.full = <<>>
      BY <1>2, <2>1, NewJobType
    <2> QED BY <1>2, <2>2
  <1>4. w \in WalkType /\ w.s = store[a] /\ \A k \in FullKeys : data[w.s][k] = None \/ k \in w.due
    BY <1>2 DEF WalkType
  <1>5. Enter(t, j)
    BY <1>1
  <1>6. \/ op = "clear" /\ (j.ns = <<>> \/ "iterator" \notin native[a])
           /\ Ask(t, store[a], "clear", <<>>, <<>>) /\ UNCHANGED walk
        \/ op = "iterator" /\ Finish(t, "resolved") /\ UNCHANGED walk
        \/ Ask(t, store[a], "iterator", <<>>, <<>>) /\ walk' = Set(walk, t, w)
    BY <1>1
  <1> HIDE DEF j, w
  <1>7. /\ calls' \in Nat /\ job' \in [Tasks -> JobType] /\ raced' \in [Tasks -> SUBSET FullKeys]
        /\ told' \in [Tasks -> Seq(ToldType)]
        /\ job'[t] = j /\ raced'[t] = {} /\ told'[t] = <<>>
        /\ \A u \in Tasks : u # t => job'[u] = job[u] /\ raced'[u] = raced[u] /\ told'[u] = told[u]
        /\ UNCHANGED <<now, data, namespace, store, native, ans>>
    BY <1>2, <1>3, <1>5, EnterEffect
  <1>8. /\ pc' \in [Tasks -> Steps] /\ req' \in [Tasks -> ReqType] /\ walk' \in [Tasks -> WalkType]
        /\ \A u \in Tasks : u # t => pc'[u] = pc[u] /\ req'[u] = req[u] /\ walk'[u].s = walk[u].s
        /\ \/ /\ pc'[t] = "asked" /\ op = "clear" /\ (j.ns = <<>> \/ "iterator" \notin native[a])
              /\ req'[t].m = "clear"
           \/ op = "iterator" /\ pc'[t] = "resolved"
           \/ /\ pc'[t] = "asked" /\ req'[t].m = "iterator" /\ req'[t].s = walk'[t].s
              /\ walk'[t] = w
    <2> DEFINE none == <<>>
    <2>0. walk \in [Tasks -> WalkType]
      BY <1>2 DEF Types
    <2> HIDE DEF none
    <2>1. CASE /\ op = "clear" /\ (j.ns = <<>> \/ "iterator" \notin native[a])
               /\ Ask(t, store[a], "clear", none, none) /\ UNCHANGED walk
      <3>1. /\ pc' \in [Tasks -> Steps] /\ req' \in [Tasks -> ReqType] /\ pc'[t] = "asked"
            /\ req'[t] = [s |-> store[a], m |-> "clear", keys |-> none, vals |-> none]
            /\ \A u \in Tasks : u # t => pc'[u] = pc[u] /\ req'[u] = req[u]
        BY <1>2, <2>1, AskEffect DEF none
      <3> QED BY <2>0, <2>1, <3>1
    <2>2. CASE op = "iterator" /\ Finish(t, "resolved") /\ UNCHANGED walk
      BY <1>2, <2>0, <2>2, FinishEffect
    <2>3. CASE Ask(t, store[a], "iterator", none, none) /\ walk' = Set(walk, t, w)
      <3>1. "iterator" \in SingleOps \cup Optional \cup {"clear"}
        BY DEF Optional
      <3>2. /\ pc' \in [Tasks -> Steps] /\ req' \in [Tasks -> ReqType] /\ pc'[t] = "asked"
            /\ req'[t] = [s |-> store[a], m |-> "iterator", keys |-> none, vals |-> none]
            /\ \A u \in Tasks : u # t => pc'[u] = pc[u] /\ req'[u] = req[u]
        BY <1>2, <2>3, <3>1, AskEffect DEF none
      <3>3. walk' \in [Tasks -> WalkType] /\ walk'[t] = w /\ \A u \in Tasks : u # t => walk'[u] = walk[u]
        BY <1>4, <2>0, <2>3 DEF Set
      <3> QED BY <1>4, <3>2, <3>3
    <2> QED BY <1>6, <2>1, <2>2, <2>3 DEF none
  <1>9. Types'
    BY <1>2, <1>7, <1>8 DEF Types
  <1>10. Rest(t) /\ native' = native
    BY <1>7, <1>8 DEF Rest
  <1>11. j.op \in {"clear", "iterator"} /\ j.op \notin KeyOps
    BY <1>3 DEF WalkOps, KeyOps, ReadOps, HasOps, WriteOps, DeleteOps
  <1>12. pc'[t] \in {"asked", "served"} => Asks(job'[t], req'[t], walk'[t].s)
    <2>1. pc'[t] \in {"asked", "served"} => pc'[t] = "asked" /\ req'[t].m \in {"clear", "iterator"}
      BY <1>8
    <2>2. DOMAIN j.full = {}
      BY <1>3
    <2>3. native'[j.a] = native[a] /\ job'[t] = j
      BY <1>3, <1>7
    <2>4. pc'[t] = "asked" /\ req'[t].m = "clear" => op = "clear" /\ (j.ns = <<>> \/ "iterator" \notin native[a])
      BY <1>8
    <2>5. j.op = "iterator" /\ pc'[t] = "asked" => req'[t].m = "iterator"
      BY <1>3, <1>8
    <2>6. pc'[t] = "asked" /\ req'[t].m = "iterator" => req'[t].s = walk'[t].s
      BY <1>8
    <2> QED BY <1>3, <1>11, <2>1, <2>2, <2>3, <2>4, <2>5, <2>6 DEF Asks
  <1>13. pc'[t] # "served"
    BY <1>8
  <1>14. CallInv(t)'
    BY <1>3, <1>7, <1>10, <1>12, <1>13, CallIntro
  <1>15. pc'[t] = "asked" => \/ req'[t].m = "clear"
                             \/ /\ req'[t].m = "iterator" /\ walk'[t].s = store[job'[t].a]
                                /\ \A k \in FullKeys : data[walk'[t].s][k] = None \/ k \in walk'[t].due
    BY <1>3, <1>4, <1>7, <1>8
  <1>16. job'[t].full = <<>> /\ store' = store /\ data' = data
    BY <1>3, <1>7
  <1>17. job'[t].op \in WalkOps /\ job'[t].stage = "run" /\ told'[t] = <<>> /\ pc'[t] \in {"asked", "resolved"}
         /\ (pc'[t] = "resolved" => job'[t].op = "iterator")
    BY <1>3, <1>7, <1>8
  <1> QED BY <1>9, <1>10, <1>14, <1>15, <1>16, <1>17

---------------------------------------------------------------------------
(* The wrapped store *)

\* Which calls make which requests.
LEMMA RequestOf ==
    ASSUME Types, NEW t \in Tasks, CallInv(t), pc[t] \in {"asked", "served"}
    PROVE  /\ job[t].op \in KeyOps \cup WalkOps /\ job[t].stage \in {"run", "sweep"}
           /\ req[t].m \in ReadOps => /\ job[t].op \in ReadOps \cup HasOps /\ job[t].stage = "run"
                                      /\ KeysAsked(job[t], req[t])
           /\ req[t].m \in HasOps => /\ job[t].op \in HasOps /\ job[t].stage = "run"
                                     /\ KeysAsked(job[t], req[t])
           /\ req[t].m \in WriteOps => /\ job[t].op \in WriteOps /\ job[t].stage = "run"
                                       /\ KeysAsked(job[t], req[t])
           /\ req[t].m \in DeleteOps => \/ job[t].stage = "sweep" \/ job[t].op = "clear"
                                        \/ job[t].op \in DeleteOps /\ KeysAsked(job[t], req[t])
           /\ req[t].m = "iterator" => job[t].op \in WalkOps /\ job[t].stage = "run"
           /\ req[t].m = "clear" => job[t].op = "clear"
  <1>1. job[t].op \in KeyOps \cup WalkOps /\ job[t].stage \in {"run", "sweep"}
    BY DEF Types, JobType
  <1>2. JobShape(job[t]) /\ Asks(job[t], req[t], walk[t].s)
    BY DEF CallInv
  <1>3. CASE job[t].op \in KeyOps /\ job[t].stage = "run"
    <2>1. KeysAsked(job[t], req[t])
      BY <1>2, <1>3 DEF Asks
    <2>2. req[t].m = IF Native(job[t].a, job[t].op) THEN job[t].op ELSE OneByOne(job[t].a, job[t].op)
      BY <2>1 DEF KeysAsked
    <2> QED BY <1>1, <1>3, <2>1, <2>2 DEF OneByOne, KeyOps, ReadOps, HasOps, WriteOps, DeleteOps
  <1>4. CASE job[t].stage = "sweep"
    BY <1>1, <1>2, <1>4 DEF Asks, ReadOps, HasOps, WriteOps, DeleteOps
  <1>5. CASE job[t].op \in WalkOps /\ job[t].stage = "run"
    BY <1>1, <1>2, <1>5 DEF Asks, WalkOps, ReadOps, HasOps, WriteOps, DeleteOps
  <1> QED BY <1>1, <1>3, <1>4, <1>5

LEMMA ReplyEffect ==
    ASSUME Types, NEW t \in Tasks, NEW is \in Kinds, NEW v \in Served1, Reply(t, is, v)
    PROVE  /\ pc' \in [Tasks -> Steps] /\ ans' \in [Tasks -> AnsType]
           /\ pc'[t] = "served" /\ ans'[t] = [is |-> is, v |-> v]
           /\ \A u \in Tasks : u # t => pc'[u] = pc[u] /\ ans'[u] = ans[u]
           /\ UNCHANGED <<fixed, req, job>>
  <1>1. [is |-> is, v |-> v] \in AnsType
    BY DEF AnsType
  <1> QED BY <1>1 DEF Types, Steps, Reply, Set

LEMMA TellEffect ==
    ASSUME Types, NEW t \in Tasks, NEW xs \in Seq(ToldType), Tell(t, xs)
    PROVE  /\ told' \in [Tasks -> Seq(ToldType)] /\ told'[t] = told[t] \o xs
           /\ \A u \in Tasks : u # t => told'[u] = told[u]
  <1>1. told \in [Tasks -> Seq(ToldType)]
    BY DEF Types
  <1>2. told[t] \o xs \in Seq(ToldType)
    BY <1>1
  <1> QED BY <1>1, <1>2 DEF Tell

\* What a store reads for the keys of a request.
LEMMA RowsRead ==
    ASSUME Types, NEW t \in Tasks
    PROVE  /\ req[t].s \in Stores /\ req[t].keys \in Seq(FullKeys) /\ Len(req[t].keys) \in Nat
           /\ DOMAIN req[t].keys = 1..Len(req[t].keys)
           /\ \A i \in DOMAIN req[t].keys : req[t].keys[i] \in FullKeys /\ At(t, i) \in Rows
           /\ AllRows(t) \in Seq(Rows) /\ Len(AllRows(t)) = Len(req[t].keys)
           /\ AllThere(t) \in Seq(BOOLEAN) /\ Len(AllThere(t)) = Len(req[t].keys)
           /\ Seen(t) \in Seq(ToldType) /\ Len(Seen(t)) = Len(req[t].keys)
  <1>1. /\ req[t].s \in Stores /\ req[t].keys \in Seq(FullKeys) /\ data[req[t].s] \in [FullKeys -> Rows]
    BY DEF Types, ReqType
  <1> DEFINE n == Len(req[t].keys)
  <1>2. n \in Nat /\ DOMAIN req[t].keys = 1..n
    BY <1>1
  <1>3. \A i \in 1..n : req[t].keys[i] \in FullKeys /\ At(t, i) \in Rows
    BY <1>1 DEF At
  <1>4. AllRows(t) \in [1..n -> Rows] /\ AllThere(t) \in [1..n -> BOOLEAN]
    BY <1>2, <1>3 DEF AllRows, AllThere
  <1>5. Seen(t) \in [1..n -> ToldType]
    <2>1. \A i \in 1..n : [key |-> req[t].keys[i], row |-> At(t, i), over |-> Expired(At(t, i))] \in ToldType
      BY <1>3 DEF ToldType, Expired
    <2> QED BY <1>2, <2>1 DEF Seen
  <1> HIDE DEF n
  <1>6. /\ AllRows(t) \in Seq(Rows) /\ Len(AllRows(t)) = n
        /\ AllThere(t) \in Seq(BOOLEAN) /\ Len(AllThere(t)) = n
        /\ Seen(t) \in Seq(ToldType) /\ Len(Seen(t)) = n
    BY <1>2, <1>4, <1>5, SeqIntro
  <1> QED BY <1>1, <1>2, <1>3, <1>6 DEF n

\* A call whose request was served: the answer fits the request.
LEMMA ServedCall ==
    ASSUME CallsInv, NEW t \in Tasks, pc[t] = "asked", pc'[t] = "served", native' = native,
           job'[t] = job[t], req'[t] = req[t], walk'[t].s = walk[t].s, Answers(req[t], ans'[t])
    PROVE  CallInv(t)'
  <1>1. JobShape(job[t]) /\ Asks(job[t], req[t], walk[t].s)
    BY DEF CallsInv, CallInv
  <1> QED BY <1>1, CallIntro

LEMMA ServeReadsInv ==
    ASSUME CallsInv, NEW t \in Tasks,
           ServeMissing(t) \/ ServeReject(t) \/ ServeRead(t) \/ ServeHas(t)
    PROVE  Types' /\ CallInv(t)' /\ Rest(t) /\ native' = native
  <1>1. Types /\ CallInv(t)
    BY DEF CallsInv
  <1>2. /\ AllRows(t) \in Seq(Rows) /\ Len(AllRows(t)) = Len(req[t].keys)
        /\ AllThere(t) \in Seq(BOOLEAN) /\ Len(AllThere(t)) = Len(req[t].keys)
        /\ Seen(t) \in Seq(ToldType)
    BY <1>1, RowsRead
  <1>3. /\ pc[t] = "asked" /\ UNCHANGED <<data, walk>>
        /\ pc' \in [Tasks -> Steps] /\ ans' \in [Tasks -> AnsType] /\ pc'[t] = "served"
        /\ \A u \in Tasks : u # t => pc'[u] = pc[u] /\ ans'[u] = ans[u]
        /\ UNCHANGED <<fixed, req, job>> /\ Answers(req[t], ans'[t])
    <2>1. CASE ServeMissing(t)
      <3>1. /\ pc[t] = "asked" /\ req[t].m \in Optional /\ Reply(t, "undefined", None) /\ UNCHANGED <<data, walk>>
        BY <2>1 DEF ServeMissing
      <3>2. "undefined" \in Kinds /\ None \in Served1
        BY DEF Kinds, Served1
      <3>3. /\ pc' \in [Tasks -> Steps] /\ ans' \in [Tasks -> AnsType] /\ pc'[t] = "served"
            /\ ans'[t] = [is |-> "undefined", v |-> None]
            /\ \A u \in Tasks : u # t => pc'[u] = pc[u] /\ ans'[u] = ans[u]
            /\ UNCHANGED <<fixed, req, job>>
        BY <1>1, <3>1, <3>2, ReplyEffect
      <3> QED BY <3>1, <3>3 DEF Answers
    <2>2. CASE ServeReject(t)
      <3>1. pc[t] = "asked" /\ Reply(t, "rejected", None) /\ UNCHANGED <<data, walk>>
        BY <2>2 DEF ServeReject
      <3>2. "rejected" \in Kinds /\ None \in Served1
        BY DEF Kinds, Served1
      <3>3. /\ pc' \in [Tasks -> Steps] /\ ans' \in [Tasks -> AnsType] /\ pc'[t] = "served"
            /\ ans'[t] = [is |-> "rejected", v |-> None]
            /\ \A u \in Tasks : u # t => pc'[u] = pc[u] /\ ans'[u] = ans[u]
            /\ UNCHANGED <<fixed, req, job>>
        BY <1>1, <3>1, <3>2, ReplyEffect
      <3> QED BY <3>1, <3>3 DEF Answers
    <2>3. CASE ServeRead(t)
      <3>1. pc[t] = "asked" /\ req[t].m \in ReadOps /\ Reply(t, "rows", AllRows(t)) /\ UNCHANGED <<data, walk>>
        BY <2>3 DEF ServeRead, Serving, ReadOps
      <3>2. "rows" \in Kinds /\ AllRows(t) \in Served1
        BY <1>2, AnswerTypes DEF Kinds
      <3>3. /\ pc' \in [Tasks -> Steps] /\ ans' \in [Tasks -> AnsType] /\ pc'[t] = "served"
            /\ ans'[t] = [is |-> "rows", v |-> AllRows(t)]
            /\ \A u \in Tasks : u # t => pc'[u] = pc[u] /\ ans'[u] = ans[u]
            /\ UNCHANGED <<fixed, req, job>>
        BY <1>1, <3>1, <3>2, ReplyEffect
      <3> QED BY <1>2, <3>1, <3>3 DEF Answers
    <2>4. CASE ServeHas(t)
      <3>1. pc[t] = "asked" /\ req[t].m \in HasOps /\ Reply(t, "booleans", AllThere(t)) /\ UNCHANGED <<data, walk>>
        BY <2>4 DEF ServeHas, Serving, HasOps
      <3>2. "booleans" \in Kinds /\ AllThere(t) \in Served1
        BY <1>2, AnswerTypes DEF Kinds
      <3>3. /\ pc' \in [Tasks -> Steps] /\ ans' \in [Tasks -> AnsType] /\ pc'[t] = "served"
            /\ ans'[t] = [is |-> "booleans", v |-> AllThere(t)]
            /\ \A u \in Tasks : u # t => pc'[u] = pc[u] /\ ans'[u] = ans[u]
            /\ UNCHANGED <<fixed, req, job>>
        BY <1>1, <3>1, <3>2, ReplyEffect
      <3> QED BY <1>2, <3>1, <3>3 DEF Answers
    <2> QED BY <2>1, <2>2, <2>3, <2>4
  <1>4. told' \in [Tasks -> Seq(ToldType)] /\ \A u \in Tasks : u # t => told'[u] = told[u]
    <2>1. <<None>> \in Seq(ToldType)
      BY DEF ToldType
    <2>2. Tell(t, <<None>>) \/ UNCHANGED told \/ Tell(t, Seen(t))
      BY DEF ServeMissing, ServeReject, ServeRead, ServeHas
    <2>3. UNCHANGED told => told' \in [Tasks -> Seq(ToldType)] /\ \A u \in Tasks : u # t => told'[u] = told[u]
      BY <1>1 DEF Types
    <2> QED BY <1>1, <1>2, <2>1, <2>2, <2>3, TellEffect
  <1>5. raced' \in [Tasks -> SUBSET FullKeys]
    BY <1>1 DEF Types, ServeMissing, ServeReject, ServeRead, ServeHas, Set
  <1>6. Types'
    BY <1>1, <1>3, <1>4, <1>5 DEF Types, fixed
  <1>7. Rest(t) /\ native' = native
    BY <1>3, <1>4 DEF Rest, fixed
  <1> QED BY <1>3, <1>6, <1>7, ServedCall

\* A write has data for every key it asks for.
LEMMA WriteData ==
    ASSUME Types, NEW t \in Tasks, CallInv(t), pc[t] \in {"asked", "served"}, req[t].m \in WriteOps
    PROVE  /\ req[t].vals \in Seq(Data) /\ Len(req[t].vals) = Len(req[t].keys)
           /\ \A i \in DOMAIN req[t].keys : req[t].vals[i] \in Data
  <1>1. req[t].vals \in Seq(Data) /\ DOMAIN req[t].keys = 1..Len(req[t].keys)
    BY RowsRead DEF Types, ReqType
  <1>2. Len(req[t].vals) = Len(req[t].keys)
    BY RequestOf DEF KeysAsked
  <1> QED BY <1>1, <1>2, ElementOfSeq

\* What is under a key after a write: what it was, or the last entry written to it.
LEMMA WrittenAt ==
    ASSUME Types, NEW t \in Tasks, CallInv(t), pc[t] = "asked", req[t].m \in WriteOps,
           NEW W, W \subseteq DOMAIN req[t].keys
    PROVE  /\ Written(t, W) \in [FullKeys -> Rows]
           /\ \A k \in FullKeys : \/ Written(t, W)[k] = data[req[t].s][k]
                                  \/ \E i \in W : req[t].keys[i] = k
  <1>1. /\ data[req[t].s] \in [FullKeys -> Rows] /\ Len(req[t].keys) \in Nat
        /\ DOMAIN req[t].keys = 1..Len(req[t].keys)
    BY RowsRead DEF Types
  <1>2. ASSUME NEW k \in FullKeys
        PROVE  /\ Written(t, W)[k] \in Rows
               /\ Written(t, W)[k] = data[req[t].s][k] \/ \E i \in W : req[t].keys[i] = k
    <2> DEFINE J == {i \in W : req[t].keys[i] = k}
               last == CHOOSE i \in J : \A m \in J : m <= i
    <2>1. Written(t, W)[k] = IF J = {} THEN data[req[t].s][k] ELSE req[t].vals[last]
      BY DEF Written
    <2>2. CASE J = {}
      BY <1>1, <2>1, <2>2
    <2>3. CASE J # {}
      <3>1. J \subseteq 1..Len(req[t].keys)
        BY <1>1
      <3>2. \E i \in J : \A m \in J : m <= i
        <4> HIDE DEF J
        <4> QED BY <1>1, <2>3, <3>1, Positions
      <3>3. last \in J
        BY <3>2
      <3>4. req[t].vals[last] \in Data
        <4> HIDE DEF last
        <4> QED BY <1>1, <3>1, <3>3, WriteData
      <3> QED BY <2>1, <2>3, <3>3, <3>4 DEF Rows
    <2> QED BY <2>2, <2>3
  <1>3. Written(t, W) \in [FullKeys -> Rows]
    BY <1>2 DEF Written
  <1> QED BY <1>2, <1>3

LEMMA ServeWriteInv ==
    ASSUME CallsInv, NEW t \in Tasks, ServeWrite(t)
    PROVE  Types' /\ CallInv(t)' /\ Rest(t) /\ native' = native
  <1>1. Types /\ CallInv(t)
    BY DEF CallsInv
  <1>2. PICK oks \in [DOMAIN req[t].keys -> BOOLEAN] :
          LET W == {i \in DOMAIN oks : oks[i]}
          IN  /\ data' = Set(data, req[t].s, Written(t, W))
              /\ raced' = [u \in Tasks |-> raced[u] \cup {req[t].keys[i] : i \in W}]
              /\ Tell(t, oks)
              /\ Reply(t, "booleans", oks) \/ RejectsAfter(t)
    BY DEF ServeWrite
  <1> DEFINE W == {i \in DOMAIN oks : oks[i]}
             K == {req[t].keys[i] : i \in W}
  <1>3. pc[t] = "asked" /\ req[t].m \in WriteOps /\ UNCHANGED walk
    BY DEF ServeWrite, Serving, WriteOps
  <1>4. /\ req[t].s \in Stores /\ Len(req[t].keys) \in Nat /\ DOMAIN req[t].keys = 1..Len(req[t].keys)
        /\ \A i \in DOMAIN req[t].keys : req[t].keys[i] \in FullKeys
    BY <1>1, RowsRead
  <1>5. oks \in Seq(BOOLEAN) /\ Len(oks) = Len(req[t].keys)
    <2>1. oks \in [1..Len(req[t].keys) -> BOOLEAN]
      BY <1>4
    <2> QED BY <1>4, <2>1, SeqIntro
  <1>6. W \subseteq DOMAIN req[t].keys
    BY <1>2
  <1>7. K \subseteq FullKeys
    BY <1>4, <1>6
  <1>8. data' = Set(data, req[t].s, Written(t, W)) /\ raced' = [u \in Tasks |-> raced[u] \cup K]
    BY <1>2
  <1> HIDE DEF W, K
  <1>9. Written(t, W) \in [FullKeys -> Rows]
    BY <1>1, <1>3, <1>6, WrittenAt
  <1>10. data' \in [Stores -> [FullKeys -> Rows]] /\ raced' \in [Tasks -> SUBSET FullKeys]
    BY <1>1, <1>4, <1>7, <1>8, <1>9 DEF Types, Set
  <1>11. told' \in [Tasks -> Seq(ToldType)] /\ \A u \in Tasks : u # t => told'[u] = told[u]
    <2>1. oks \in Seq(ToldType)
      BY <1>5 DEF ToldType
    <2> QED BY <1>1, <1>2, <2>1, TellEffect
  <1>12. /\ pc' \in [Tasks -> Steps] /\ ans' \in [Tasks -> AnsType] /\ pc'[t] = "served"
         /\ \A u \in Tasks : u # t => pc'[u] = pc[u] /\ ans'[u] = ans[u]
         /\ UNCHANGED <<fixed, req, job>>
         /\ ans'[t] = [is |-> "booleans", v |-> oks] \/ ans'[t] = [is |-> "rejected", v |-> None]
    <2>1. "booleans" \in Kinds /\ "rejected" \in Kinds /\ oks \in Served1 /\ None \in Served1
      BY <1>5, AnswerTypes DEF Kinds
    <2>2. Reply(t, "booleans", oks) \/ Reply(t, "rejected", None)
      BY <1>2 DEF RejectsAfter
    <2> QED BY <1>1, <2>1, <2>2, ReplyEffect
  <1>13. Answers(req[t], ans'[t])
    BY <1>3, <1>5, <1>12 DEF Answers
  <1>14. Types'
    BY <1>1, <1>3, <1>10, <1>11, <1>12 DEF Types, fixed
  <1>15. Rest(t) /\ native' = native
    BY <1>3, <1>11, <1>12 DEF Rest, fixed
  <1> QED BY <1>3, <1>12, <1>13, <1>14, <1>15, ServedCall DEF fixed

\* Keys go; every open iterator of the store has less to yield.
LEMMA RemoveEffect ==
    ASSUME Types, NEW s \in Stores, NEW K, Remove(s, K)
    PROVE  /\ data' \in [Stores -> [FullKeys -> Rows]] /\ walk' \in [Tasks -> WalkType]
           /\ \A u \in Tasks : walk'[u].s = walk[u].s /\ walk'[u].done = walk[u].done
                               /\ walk'[u].due = IF walk[u].s = s THEN walk[u].due \ K ELSE walk[u].due
           /\ \A r \in Stores : \A k \in FullKeys :
                 data'[r][k] = IF r = s /\ k \in K THEN None ELSE data[r][k]
  <1>1. /\ data \in [Stores -> [FullKeys -> Rows]] /\ walk \in [Tasks -> WalkType]
    BY DEF Types
  <1>2. data' = [data EXCEPT ![s] = [k \in FullKeys |-> IF k \in K THEN None ELSE data[s][k]]]
    BY DEF Remove
  <1>3. data' \in [Stores -> [FullKeys -> Rows]]
    <2>1. [k \in FullKeys |-> IF k \in K THEN None ELSE data[s][k]] \in [FullKeys -> Rows]
      BY <1>1 DEF Rows
    <2> QED BY <1>1, <1>2, <2>1
  <1>4. \A r \in Stores : \A k \in FullKeys :
           data'[r][k] = IF r = s /\ k \in K THEN None ELSE data[r][k]
    BY <1>1, <1>2
  <1>5. ASSUME NEW u \in Tasks
        PROVE  /\ walk'[u] \in WalkType
               /\ walk'[u].s = walk[u].s /\ walk'[u].done = walk[u].done
               /\ walk'[u].due = IF walk[u].s = s THEN walk[u].due \ K ELSE walk[u].due
    <2>1. walk[u] \in WalkType
      BY <1>1
    <2>2. walk'[u] = IF walk[u].s = s THEN [walk[u] EXCEPT !.due = walk[u].due \ K] ELSE walk[u]
      BY DEF Remove
    <2> QED BY <2>1, <2>2 DEF WalkType
  <1>6. walk' \in [Tasks -> WalkType]
    BY <1>5 DEF Remove
  <1> QED BY <1>3, <1>4, <1>5, <1>6

LEMMA ServeRemovesInv ==
    ASSUME CallsInv, NEW t \in Tasks, ServeDelete(t) \/ ServeClear(t)
    PROVE  Types' /\ CallInv(t)' /\ Rest(t) /\ native' = native
  <1>1. Types /\ CallInv(t)
    BY DEF CallsInv
  <1>2. /\ req[t].s \in Stores /\ AllThere(t) \in Seq(BOOLEAN) /\ Len(AllThere(t)) = Len(req[t].keys)
    BY <1>1, RowsRead
  <1>3. pc[t] = "asked" /\ UNCHANGED <<raced, told>> /\ \E K : Remove(req[t].s, K)
    BY DEF ServeDelete, ServeClear, Serving
  <1>4. /\ data' \in [Stores -> [FullKeys -> Rows]] /\ walk' \in [Tasks -> WalkType]
        /\ \A u \in Tasks : walk'[u].s = walk[u].s
    BY <1>1, <1>2, <1>3, RemoveEffect
  <1>5. /\ pc' \in [Tasks -> Steps] /\ ans' \in [Tasks -> AnsType] /\ pc'[t] = "served"
        /\ \A u \in Tasks : u # t => pc'[u] = pc[u] /\ ans'[u] = ans[u]
        /\ UNCHANGED <<fixed, req, job>> /\ Answers(req[t], ans'[t])
    <2>1. "booleans" \in Kinds /\ "boolean" \in Kinds /\ "rejected" \in Kinds /\ "done" \in Kinds
      BY DEF Kinds
    <2>2. /\ AllThere(t) \in Served1 /\ TRUE \in Served1 /\ None \in Served1
      BY <1>2, AnswerTypes
    <2>3. \/ Reply(t, "booleans", AllThere(t)) /\ req[t].m \in DeleteOps
          \/ Reply(t, "boolean", TRUE) /\ req[t].m = "deleteMany"
          \/ Reply(t, "rejected", None)
          \/ Reply(t, "done", None) /\ req[t].m = "clear"
      BY DEF ServeDelete, ServeClear, RejectsAfter, Serving, DeleteOps
    <2>4. CASE Reply(t, "booleans", AllThere(t)) /\ req[t].m \in DeleteOps
      <3>1. /\ pc' \in [Tasks -> Steps] /\ ans' \in [Tasks -> AnsType] /\ pc'[t] = "served"
            /\ ans'[t] = [is |-> "booleans", v |-> AllThere(t)]
            /\ \A u \in Tasks : u # t => pc'[u] = pc[u] /\ ans'[u] = ans[u]
            /\ UNCHANGED <<fixed, req, job>>
        BY <1>1, <2>1, <2>2, <2>4, ReplyEffect
      <3> QED BY <1>2, <2>4, <3>1 DEF Answers
    <2>5. CASE Reply(t, "boolean", TRUE) /\ req[t].m = "deleteMany"
      <3>1. /\ pc' \in [Tasks -> Steps] /\ ans' \in [Tasks -> AnsType] /\ pc'[t] = "served"
            /\ ans'[t] = [is |-> "boolean", v |-> TRUE]
            /\ \A u \in Tasks : u # t => pc'[u] = pc[u] /\ ans'[u] = ans[u]
            /\ UNCHANGED <<fixed, req, job>>
        BY <1>1, <2>1, <2>2, <2>5, ReplyEffect
      <3> QED BY <1>2, <2>5, <3>1 DEF Answers
    <2>6. CASE Reply(t, "rejected", None)
      <3>1. /\ pc' \in [Tasks -> Steps] /\ ans' \in [Tasks -> AnsType] /\ pc'[t] = "served"
            /\ ans'[t] = [is |-> "rejected", v |-> None]
            /\ \A u \in Tasks : u # t => pc'[u] = pc[u] /\ ans'[u] = ans[u]
            /\ UNCHANGED <<fixed, req, job>>
        BY <1>1, <2>1, <2>2, <2>6, ReplyEffect
      <3> QED BY <1>2, <2>6, <3>1 DEF Answers
    <2>7. CASE Reply(t, "done", None) /\ req[t].m = "clear"
      <3>1. /\ pc' \in [Tasks -> Steps] /\ ans' \in [Tasks -> AnsType] /\ pc'[t] = "served"
            /\ ans'[t] = [is |-> "done", v |-> None]
            /\ \A u \in Tasks : u # t => pc'[u] = pc[u] /\ ans'[u] = ans[u]
            /\ UNCHANGED <<fixed, req, job>>
        BY <1>1, <2>1, <2>2, <2>7, ReplyEffect
      <3> QED BY <1>2, <2>7, <3>1 DEF Answers
    <2> QED BY <2>3, <2>4, <2>5, <2>6, <2>7
  <1>6. Types'
    BY <1>1, <1>3, <1>4, <1>5 DEF Types, fixed
  <1>7. Rest(t) /\ native' = native
    BY <1>3, <1>4, <1>5 DEF Rest, fixed
  <1> QED BY <1>3, <1>4, <1>5, <1>6, <1>7, ServedCall

LEMMA ServeNextInv ==
    ASSUME CallsInv, NEW t \in Tasks, ServeNext(t)
    PROVE  Types' /\ CallInv(t)' /\ Rest(t) /\ native' = native
  <1>1. Types /\ CallInv(t)
    BY DEF CallsInv
  <1>2. /\ req[t].s \in Stores /\ data[req[t].s] \in [FullKeys -> Rows] /\ walk[t] \in WalkType
        /\ walk \in [Tasks -> WalkType] /\ raced \in [Tasks -> SUBSET FullKeys]
    BY <1>1, RowsRead DEF Types
  <1>3. pc[t] = "asked" /\ req[t].m = "iterator" /\ UNCHANGED <<data, told>>
    BY DEF ServeNext, Serving
  <1>4. "entry" \in Kinds /\ "done" \in Kinds
    BY DEF Kinds
  <1>5. /\ pc' \in [Tasks -> Steps] /\ ans' \in [Tasks -> AnsType] /\ pc'[t] = "served"
        /\ \A u \in Tasks : u # t => pc'[u] = pc[u] /\ ans'[u] = ans[u]
        /\ UNCHANGED <<fixed, req, job>> /\ Answers(req[t], ans'[t])
        /\ walk' \in [Tasks -> WalkType] /\ \A u \in Tasks : walk'[u].s = walk[u].s
        /\ raced' \in [Tasks -> SUBSET FullKeys]
    <2>1. CASE Reply(t, "done", None) /\ UNCHANGED <<walk, raced>>
      <3>1. None \in Served1
        BY AnswerTypes
      <3>2. /\ pc' \in [Tasks -> Steps] /\ ans' \in [Tasks -> AnsType] /\ pc'[t] = "served"
            /\ \A u \in Tasks : u # t => pc'[u] = pc[u] /\ ans'[u] = ans[u]
            /\ UNCHANGED <<fixed, req, job>> /\ ans'[t] = [is |-> "done", v |-> None]
        BY <1>1, <1>4, <2>1, <3>1, ReplyEffect
      <3> QED BY <1>2, <1>3, <2>1, <3>2 DEF Answers
    <2>2. ASSUME NEW k \in FullKeys \ walk[t].done,
                 data[req[t].s][k] # None,
                 Reply(t, "entry", [key |-> k, row |-> data[req[t].s][k]]),
                 walk' = [walk EXCEPT ![t].due = @ \ {k}, ![t].done = @ \cup {k}],
                 raced' = [raced EXCEPT ![t] = IF Current(t) THEN @ \ {k} ELSE @]
          PROVE  /\ pc' \in [Tasks -> Steps] /\ ans' \in [Tasks -> AnsType] /\ pc'[t] = "served"
                 /\ \A u \in Tasks : u # t => pc'[u] = pc[u] /\ ans'[u] = ans[u]
                 /\ UNCHANGED <<fixed, req, job>> /\ Answers(req[t], ans'[t])
                 /\ walk' \in [Tasks -> WalkType] /\ \A u \in Tasks : walk'[u].s = walk[u].s
                 /\ raced' \in [Tasks -> SUBSET FullKeys]
      <3> DEFINE e == [key |-> k, row |-> data[req[t].s][k]]
      <3>1. e \in Entry
        BY <1>2, <2>2 DEF Entry, Rows
      <3>2. e \in Served1
        BY <3>1, AnswerTypes
      <3>3. Reply(t, "entry", e)
        BY <2>2
      <3> HIDE DEF e
      <3>4. /\ pc' \in [Tasks -> Steps] /\ ans' \in [Tasks -> AnsType] /\ pc'[t] = "served"
            /\ \A u \in Tasks : u # t => pc'[u] = pc[u] /\ ans'[u] = ans[u]
            /\ UNCHANGED <<fixed, req, job>> /\ ans'[t] = [is |-> "entry", v |-> e]
        BY <1>1, <1>4, <3>2, <3>3, ReplyEffect
      <3>5. Answers(req[t], ans'[t])
        BY <1>3, <3>1, <3>4 DEF Answers
      <3>6. walk' \in [Tasks -> WalkType] /\ \A u \in Tasks : walk'[u].s = walk[u].s
        BY <1>2, <2>2 DEF WalkType
      <3>7. raced' \in [Tasks -> SUBSET FullKeys]
        BY <1>2, <2>2
      <3> QED BY <3>4, <3>5, <3>6, <3>7
    <2> QED BY <2>1, <2>2 DEF ServeNext
  <1>6. Types'
    BY <1>1, <1>3, <1>5 DEF Types, fixed
  <1>7. Rest(t) /\ native' = native
    BY <1>3, <1>5 DEF Rest, fixed
  <1> QED BY <1>3, <1>5, <1>6, <1>7, ServedCall

---------------------------------------------------------------------------
(* Going on with an answer: operations on keys *)

\* What a call keeps of its arguments, and where it goes once it has more answers.
SameCall(t) == /\ job'[t].op = job[t].op /\ job'[t].keys = job[t].keys /\ job'[t].a = job[t].a
               /\ job'[t].ns = job[t].ns

GoesOn(t) == /\ pc'[t] \in {"asked", "resolved"} /\ SameCall(t)
             /\ pc'[t] = "asked" => ~Native(job[t].a, job[t].op) /\ req'[t].s = store[job[t].a]
             /\ pc'[t] = "resolved" => \/ Native(job[t].a, job[t].op)
                                       \/ Len(job'[t].res) = Len(job[t].keys)

\* A call that goes on key by key with the answers of its job j.
LEMMA Continues ==
    ASSUME CallsInv, NEW t \in Tasks, NEW j \in JobType, NEW res,
           job[t].op \in KeyOps, Proceed(t, job[t], res),
           j.op = job[t].op, j.a = job[t].a, j.keys = job[t].keys, j.vals = job[t].vals,
           j.ns = job[t].ns, j.stage = "run", j.res = res, res \in Results(j.op),
           Len(res) \in Nat, Len(res) <= Len(j.keys),
           job' \in [Tasks -> JobType], job'[t] = j, \A u \in Tasks : u # t => job'[u] = job[u],
           UNCHANGED <<fixed, data, ans, walk, raced, told>>
    PROVE  Types' /\ CallInv(t)' /\ Rest(t) /\ native' = native /\ GoesOn(t)
  <1>1. Types /\ CallInv(t) /\ job[t] \in JobType
    BY DEF CallsInv, Types
  <1>2. JobShape(job[t])
    BY <1>1 DEF CallInv
  <1>3. /\ pc' \in [Tasks -> Steps] /\ req' \in [Tasks -> ReqType]
        /\ \A u \in Tasks : u # t => pc'[u] = pc[u] /\ req'[u] = req[u]
        /\ \/ pc'[t] = "resolved" /\ (Native(j.a, j.op) \/ Len(res) = Len(j.keys))
           \/ /\ pc'[t] = "asked" /\ ~Native(j.a, j.op) /\ req'[t].s = store[j.a]
              /\ \A k : (k.a = j.a /\ k.op = j.op /\ k.keys = j.keys /\ Len(k.res) = Len(res))
                           => KeysAsked(k, req'[t])
    <2>1. Len(res) <= Len(job[t].keys) /\ (job[t].op \in WriteOps => Len(job[t].vals) = Len(job[t].keys))
      BY <1>2 DEF JobShape
    <2>2. /\ pc' \in [Tasks -> Steps] /\ req' \in [Tasks -> ReqType]
          /\ \A u \in Tasks : u # t => pc'[u] = pc[u] /\ req'[u] = req[u]
          /\ \/ pc'[t] = "resolved" /\ (Native(job[t].a, job[t].op) \/ Len(res) = Len(job[t].keys))
             \/ /\ pc'[t] = "asked" /\ ~Native(job[t].a, job[t].op) /\ req'[t].s = store[job[t].a]
                /\ \A k : (k.a = job[t].a /\ k.op = job[t].op /\ k.keys = job[t].keys /\ Len(k.res) = Len(res))
                             => KeysAsked(k, req'[t])
      BY <1>1, <2>1, ProceedEffect
    <2> QED BY <2>2
  <1>4. j.op \notin {"clear", "iterator"}
    BY DEF KeyOps, ReadOps, HasOps, WriteOps, DeleteOps
  <1>5. JobShape(j)
    BY <1>2 DEF JobShape
  <1>6. pc'[t] = "asked" => KeysAsked(j, req'[t]) /\ req'[t].m # "iterator"
    <2>1. pc'[t] = "asked" => KeysAsked(j, req'[t]) /\ ~Native(j.a, j.op)
      BY <1>3
    <2> QED BY <2>1 DEF KeysAsked, OneByOne
  <1>7. pc'[t] \in {"asked", "served"} => Asks(job'[t], req'[t], walk'[t].s)
    BY <1>3, <1>4, <1>6 DEF Asks
  <1>8. Types'
    BY <1>1, <1>3 DEF Types, fixed
  <1>9. Rest(t) /\ native' = native
    BY <1>3 DEF Rest, fixed
  <1>10. pc'[t] # "served"
    BY <1>3
  <1>11. GoesOn(t)
    BY <1>3 DEF GoesOn, SameCall
  <1> QED BY <1>5, <1>7, <1>8, <1>9, <1>10, <1>11, CallIntro

\* A job whose answers are replaced.
LEMMA AnsweredEffect ==
    ASSUME CallsInv, NEW t \in Tasks, NEW res, res \in Results(job[t].op), Answered(t, res),
           Len(res) \in Nat, Len(res) <= Len(job[t].keys), job[t].op \in KeyOps, job[t].stage = "run",
           UNCHANGED <<fixed, data, ans, walk, raced, told>>
    PROVE  /\ Types' /\ CallInv(t)' /\ Rest(t) /\ native' = native /\ GoesOn(t)
           /\ job'[t].res = res /\ job'[t].stage = "run"
  <1> DEFINE j == [job[t] EXCEPT !.res = res]
  <1>1. job \in [Tasks -> JobType] /\ job[t] \in JobType
    BY DEF CallsInv, Types
  <1>2. res \in Answer
    BY AnswerTypes
  <1>3. /\ j \in JobType /\ j.op = job[t].op /\ j.a = job[t].a /\ j.keys = job[t].keys
        /\ j.vals = job[t].vals /\ j.ns = job[t].ns /\ j.stage = "run" /\ j.res = res
    BY <1>1, <1>2 DEF JobType
  <1>4. job' = [job EXCEPT ![t] = j] /\ Proceed(t, job[t], res)
    BY DEF Answered
  <1> HIDE DEF j
  <1>5. job' \in [Tasks -> JobType] /\ job'[t] = j /\ \A u \in Tasks : u # t => job'[u] = job[u]
    BY <1>1, <1>3, <1>4
  <1>6. Types' /\ CallInv(t)' /\ Rest(t) /\ native' = native /\ GoesOn(t)
    BY <1>3, <1>4, <1>5, Continues
  <1> QED BY <1>3, <1>5, <1>6

LEMMA Extended ==
    ASSUME NEW S, NEW r \in Seq(S), NEW b \in Seq(S), NEW m, NEW n, Len(b) = m, Len(r) + m <= n
    PROVE  r \o b \in Seq(S) /\ Len(r \o b) \in Nat /\ Len(r \o b) = Len(r) + m /\ Len(r \o b) <= n
  OBVIOUS

\* The answers to a request on keys extend the results, at most to one for every key.
LEMMA RoomLeft ==
    ASSUME CallsInv, NEW t \in Tasks, KeysAsked(job[t], req[t]), job[t].op \in KeyOps
    PROVE  /\ Len(job[t].res) \in Nat /\ Len(job[t].keys) \in Nat /\ Len(req[t].keys) \in Nat
           /\ DOMAIN job[t].keys = 1..Len(job[t].keys)
           /\ IF Native(job[t].a, job[t].op) THEN job[t].res = <<>> /\ Len(req[t].keys) = Len(job[t].keys)
              ELSE Len(req[t].keys) = 1 /\ Len(job[t].res) + 1 <= Len(job[t].keys)
           /\ Len(job[t].res) + Len(req[t].keys) <= Len(job[t].keys)
  <1>1. job[t].keys \in Seq(Keys) /\ Len(req[t].keys) \in Nat
    BY RowsRead DEF CallsInv, Types, JobType
  <1>2. Len(job[t].res) \in Nat
    BY DEF CallsInv, CallInv, JobShape, Results
  <1>3. Len(job[t].keys) \in Nat /\ DOMAIN job[t].keys = 1..Len(job[t].keys)
    BY <1>1
  <1>4. IF Native(job[t].a, job[t].op) THEN job[t].res = <<>> /\ Len(req[t].keys) = Len(job[t].keys)
        ELSE Len(req[t].keys) = 1 /\ Len(job[t].res) < Len(job[t].keys)
    BY DEF KeysAsked
  <1>5. job[t].res = <<>> => Len(job[t].res) = 0
    OBVIOUS
  <1>6. CASE Native(job[t].a, job[t].op)
    <2>1. job[t].res = <<>> /\ Len(req[t].keys) = Len(job[t].keys)
      BY <1>4, <1>6
    <2>2. Len(job[t].res) = 0
      BY <1>5, <2>1
    <2> QED BY <1>1, <1>2, <1>3, <1>6, <2>1, <2>2
  <1>7. CASE ~Native(job[t].a, job[t].op)
    <2>1. Len(req[t].keys) = 1 /\ Len(job[t].res) < Len(job[t].keys)
      BY <1>4, <1>7
    <2>2. Len(job[t].res) + 1 <= Len(job[t].keys)
      BY <1>2, <1>3, <2>1
    <2> QED BY <1>1, <1>2, <1>3, <1>7, <2>1, <2>2
  <1> QED BY <1>6, <1>7

LEMMA DeleteCaughtInv ==
    ASSUME CallsInv, NEW t \in Tasks, DeleteCaught(t)
    PROVE  /\ Types' /\ CallInv(t)' /\ Rest(t) /\ native' = native /\ GoesOn(t)
           /\ job'[t].res = Append(job[t].res, FALSE) /\ job'[t].stage = "run"
  <1>1. /\ pc[t] = "served" /\ job[t].op = "deleteMany" /\ ~Native(job[t].a, job[t].op)
        /\ UNCHANGED <<fixed, data, ans, walk, raced, told>> /\ Answered(t, Append(job[t].res, FALSE))
    BY DEF DeleteCaught, Catches, Resume
  <1>2. JobShape(job[t]) /\ Asks(job[t], req[t], walk[t].s) /\ job[t] \in JobType
    BY <1>1 DEF CallsInv, CallInv, Types
  <1>3. job[t].op \in KeyOps /\ job[t].stage = "run" /\ job[t].op \notin ReadOps
    BY <1>1, <1>2 DEF JobShape, JobType, KeyOps, ReadOps, HasOps, WriteOps, DeleteOps
  <1>4. KeysAsked(job[t], req[t])
    BY <1>2, <1>3 DEF Asks
  <1>5. Len(job[t].res) \in Nat /\ Len(job[t].res) + 1 <= Len(job[t].keys)
    BY <1>1, <1>3, <1>4, RoomLeft
  <1>6. job[t].res \in Seq(BOOLEAN)
    BY <1>2, <1>3 DEF JobShape, Results
  <1> DEFINE res == Append(job[t].res, FALSE)
  <1>7. res \in Seq(BOOLEAN) /\ Len(res) = Len(job[t].res) + 1
    BY <1>6
  <1>8. res \in Results(job[t].op)
    BY <1>3, <1>7 DEF Results
  <1>9. Answered(t, res)
    BY <1>1
  <1>10. Len(res) \in Nat /\ Len(res) <= Len(job[t].keys)
    BY <1>5, <1>7
  <1> HIDE DEF res
  <1>11. /\ Types' /\ CallInv(t)' /\ Rest(t) /\ native' = native /\ GoesOn(t)
         /\ job'[t].res = res /\ job'[t].stage = "run"
    BY <1>1, <1>3, <1>8, <1>9, <1>10, AnsweredEffect
  <1> QED BY <1>11 DEF res

\* What GotBooleans pushes: one boolean per key that was asked for.
LEMMA BooleansType ==
    ASSUME CallsInv, NEW t \in Tasks, GotBooleans(t)
    PROVE  /\ pc[t] = "served" /\ job[t].op \in KeyOps \ ReadOps /\ job[t].stage = "run"
           /\ KeysAsked(job[t], req[t])
           /\ Booleans(t) \in Seq(BOOLEAN) /\ Len(Booleans(t)) = Len(req[t].keys)
  <1>1. /\ pc[t] = "served" /\ ans[t].is \in {"booleans", "boolean"} /\ job[t].stage = "run"
        /\ job[t].op \notin WalkOps
    BY DEF GotBooleans, Resume
  <1>2. /\ Asks(job[t], req[t], walk[t].s) /\ Answers(req[t], ans[t]) /\ job[t] \in JobType /\ JobShape(job[t])
        /\ Types /\ CallInv(t)
    BY <1>1 DEF CallsInv, CallInv, Types
  <1>3. job[t].op \in KeyOps
    BY <1>1, <1>2 DEF JobType
  <1>4. KeysAsked(job[t], req[t])
    BY <1>1, <1>2, <1>3 DEF Asks
  <1>5. req[t].m \in HasOps \cup WriteOps \cup DeleteOps
    BY <1>1, <1>2 DEF Answers, DeleteOps
  <1>6. job[t].op \notin ReadOps
    <2>1. \/ job[t].op \in HasOps \cup WriteOps \/ job[t].stage = "sweep" \/ job[t].op = "clear"
          \/ job[t].op \in DeleteOps
      BY <1>1, <1>2, <1>5, RequestOf
    <2> QED BY <1>1, <2>1 DEF ReadOps, HasOps, WriteOps, DeleteOps, WalkOps
  <1>7. /\ Len(req[t].keys) \in Nat /\ DOMAIN job[t].keys = 1..Len(job[t].keys) /\ Len(job[t].keys) \in Nat
        /\ IF Native(job[t].a, job[t].op) THEN Len(req[t].keys) = Len(job[t].keys)
           ELSE Len(req[t].keys) = 1
    BY <1>3, <1>4, RoomLeft
  <1>8. Booleans(t) \in Seq(BOOLEAN) /\ Len(Booleans(t)) = Len(req[t].keys)
    <2>1. CASE job[t].op = "setMany" /\ ~Native(job[t].a, "setMany")
      <3>1. Booleans(t) = <<TRUE>>
        BY <2>1 DEF Booleans
      <3> QED BY <1>7, <2>1, <3>1
    <2>2. CASE ~(job[t].op = "setMany" /\ ~Native(job[t].a, "setMany")) /\ ans[t].is = "boolean"
      <3>1. req[t].m = "deleteMany" /\ ans[t].v \in BOOLEAN
        BY <1>2, <2>2 DEF Answers
      <3>2. Native(job[t].a, job[t].op)
        BY <1>4, <3>1 DEF KeysAsked, OneByOne
      <3>3. Booleans(t) \in [1..Len(job[t].keys) -> BOOLEAN]
        BY <1>7, <2>2, <3>1 DEF Booleans
      <3> QED BY <1>7, <3>2, <3>3, SeqIntro
    <2>3. CASE ~(job[t].op = "setMany" /\ ~Native(job[t].a, "setMany")) /\ ans[t].is = "booleans"
      BY <1>2, <2>3 DEF Answers, Booleans
    <2> QED BY <1>1, <2>1, <2>2, <2>3
  <1> QED BY <1>1, <1>3, <1>4, <1>6, <1>8

LEMMA GotBooleansInv ==
    ASSUME CallsInv, NEW t \in Tasks, GotBooleans(t)
    PROVE  /\ Types' /\ CallInv(t)' /\ Rest(t) /\ native' = native /\ GoesOn(t)
           /\ job'[t].res = job[t].res \o Booleans(t) /\ job'[t].stage = "run"
  <1> DEFINE res == job[t].res \o Booleans(t)
  <1>1. /\ pc[t] = "served" /\ job[t].op \in KeyOps \ ReadOps /\ job[t].stage = "run"
        /\ KeysAsked(job[t], req[t])
        /\ Booleans(t) \in Seq(BOOLEAN) /\ Len(Booleans(t)) = Len(req[t].keys)
    BY BooleansType
  <1>2. UNCHANGED <<fixed, data, ans, walk, raced, told>> /\ Answered(t, res)
    BY DEF GotBooleans, Resume
  <1>3. job[t].res \in Seq(BOOLEAN)
    BY <1>1 DEF CallsInv, CallInv, JobShape, Results
  <1>9. Len(job[t].res) + Len(req[t].keys) <= Len(job[t].keys)
    BY <1>1, RoomLeft
  <1>4. res \in Seq(BOOLEAN) /\ Len(res) \in Nat /\ Len(res) <= Len(job[t].keys)
    BY <1>1, <1>3, <1>9, Extended
  <1>5. res \in Results(job[t].op)
    BY <1>1, <1>4 DEF Results
  <1>6. Len(res) \in Nat /\ Len(res) <= Len(job[t].keys)
    BY <1>4
  <1> HIDE DEF res
  <1>7. /\ Types' /\ CallInv(t)' /\ Rest(t) /\ native' = native /\ GoesOn(t)
        /\ job'[t].res = res /\ job'[t].stage = "run"
    BY <1>1, <1>2, <1>5, <1>6, AnsweredEffect
  <1> QED BY <1>7 DEF res

LEMMA GotUndefinedInv ==
    ASSUME CallsInv, NEW t \in Tasks, GotUndefined(t)
    PROVE  /\ Types' /\ CallInv(t)' /\ Rest(t) /\ native' = native /\ GoesOn(t)
           /\ job'[t].stage = "run"
  <1> DEFINE res == job[t].res \o Default(t)
  <1>1. /\ pc[t] = "served" /\ ans[t].is = "undefined" /\ job[t].op \notin WalkOps
        /\ UNCHANGED <<fixed, data, ans, walk, raced, told>> /\ Answered(t, res)
    BY DEF GotUndefined, Resume
  <1>2. /\ Asks(job[t], req[t], walk[t].s) /\ Answers(req[t], ans[t]) /\ job[t] \in JobType /\ JobShape(job[t])
        /\ Types /\ CallInv(t)
    BY <1>1 DEF CallsInv, CallInv, Types
  <1>3. job[t].op \in KeyOps /\ req[t].m \in Optional
    BY <1>1, <1>2 DEF JobType, Answers
  <1>4. job[t].stage = "run"
    BY <1>2, <1>3 DEF Asks, Optional, JobType
  <1>5. KeysAsked(job[t], req[t])
    BY <1>2, <1>3, <1>4 DEF Asks
  <1>6. /\ Len(job[t].res) \in Nat /\ Len(job[t].keys) \in Nat /\ DOMAIN job[t].keys = 1..Len(job[t].keys)
        /\ Len(job[t].res) <= Len(job[t].keys)
        /\ IF Native(job[t].a, job[t].op) THEN job[t].res = <<>>
           ELSE Len(job[t].res) + 1 <= Len(job[t].keys)
    BY <1>2, <1>3, <1>5, RoomLeft DEF JobShape
  <1>7. res \in Results(job[t].op) /\ Len(res) \in Nat /\ Len(res) <= Len(job[t].keys)
    <2>1. CASE req[t].m = "setMany"
      <3>1. Native(job[t].a, job[t].op) /\ job[t].op \notin ReadOps
        BY <1>5, <2>1 DEF KeysAsked, OneByOne, Native, ReadOps
      <3>2. Default(t) \in [1..Len(job[t].keys) -> BOOLEAN]
        BY <1>6, <2>1 DEF Default
      <3>3. Default(t) \in Seq(BOOLEAN) /\ Len(Default(t)) = Len(job[t].keys)
        BY <1>6, <3>2, SeqIntro
      <3>4. res = Default(t)
        <4>1. job[t].res = <<>>
          BY <1>6, <3>1
        <4> QED BY <3>3, <4>1, ConcatEmptySeq
      <3> QED BY <1>3, <1>6, <3>1, <3>3, <3>4 DEF Results
    <2>2. CASE req[t].m = "has"
      <3>1. job[t].op \in HasOps
        BY <1>1, <1>2, <2>2, RequestOf DEF HasOps
      <3>2. ~Native(job[t].a, job[t].op)
        BY <1>5, <2>2 DEF KeysAsked, Native, SingleOps
      <3>3. Default(t) = <<FALSE>> /\ job[t].op \notin ReadOps
        BY <2>2, <3>1 DEF Default, HasOps, ReadOps
      <3>4. job[t].res \in Seq(BOOLEAN)
        BY <1>2, <1>3, <3>3 DEF JobShape, Results
      <3>5. res \in Seq(BOOLEAN) /\ Len(res) = Len(job[t].res) + 1
        BY <3>3, <3>4
      <3> QED BY <1>3, <1>6, <3>2, <3>3, <3>5 DEF Results
    <2>3. CASE req[t].m \notin {"setMany", "has"}
      <3>1. Default(t) = <<>>
        BY <2>3 DEF Default
      <3>2. job[t].res \in Results(job[t].op)
        BY <1>2 DEF JobShape
      <3>3. \E S : job[t].res \in Seq(S)
        BY <3>2 DEF Results
      <3>4. res = job[t].res
        BY <3>1, <3>3
      <3> QED BY <1>6, <3>2, <3>4
    <2> QED BY <2>1, <2>2, <2>3
  <1> HIDE DEF res
  <1> QED BY <1>1, <1>3, <1>4, <1>7, AnsweredEffect

---------------------------------------------------------------------------
(* Going on with an answer: rows that may be expired *)

LEMMA ShapeType ==
    ASSUME NEW op \in ReadOps \cup HasOps, NEW rows \in Seq(Rows)
    PROVE  /\ Shape(op, rows) \in Results(op) /\ Len(Shape(op, rows)) = Len(rows)
           /\ op \in HasOps => Shape(op, rows) \in Seq(BOOLEAN)
           /\ op \in ReadOps => Shape(op, rows) = rows
           /\ \A i \in 1..Len(rows) :
                 Shape(op, rows)[i] = IF op \in HasOps THEN rows[i] # None ELSE rows[i]
  <1>1. Len(rows) \in Nat /\ DOMAIN rows = 1..Len(rows)
    OBVIOUS
  <1>2. CASE op \in HasOps
    <2>1. Shape(op, rows) = [i \in 1..Len(rows) |-> rows[i] # None]
      BY <1>1, <1>2 DEF Shape
    <2>2. Shape(op, rows) \in [1..Len(rows) -> BOOLEAN]
      BY <2>1
    <2>3. Shape(op, rows) \in Seq(BOOLEAN) /\ Len(Shape(op, rows)) = Len(rows)
      BY <1>1, <2>2, SeqIntro
    <2>4. op \notin ReadOps /\ op \in KeyOps
      BY <1>2 DEF ReadOps, HasOps, KeyOps
    <2> QED BY <1>2, <2>1, <2>3, <2>4 DEF Results
  <1>3. CASE op \notin HasOps
    <2>1. Shape(op, rows) = rows /\ op \in ReadOps
      BY <1>3 DEF Shape
    <2> QED BY <1>3, <2>1 DEF Results
  <1> QED BY <1>2, <1>3

\* Results of a read and further rows, shaped.
LEMMA ShapedResults ==
    ASSUME NEW op \in ReadOps \cup HasOps, NEW r \in Results(op), NEW rows \in Seq(Rows),
           NEW n, Len(r) + Len(rows) <= n
    PROVE  LET all == r \o Shape(op, rows)
           IN  /\ all \in Results(op) /\ Len(r) \in Nat
               /\ Len(all) \in Nat /\ Len(all) = Len(r) + Len(rows) /\ Len(all) <= n
               /\ \A i \in 1..Len(r) : all[i] = r[i]
               /\ \A i \in 1..Len(rows) : all[Len(r) + i] = IF op \in HasOps THEN rows[i] # None ELSE rows[i]
  <1> DEFINE S == IF op \in ReadOps THEN Rows ELSE BOOLEAN
             x == Shape(op, rows)
  <1>1. Results(op) = Seq(S)
    BY DEF Results, ReadOps, HasOps, KeyOps
  <1>2. x \in Seq(S) /\ Len(x) = Len(rows)
    BY <1>1, ShapeType
  <1>3. \A i \in 1..Len(rows) : x[i] = IF op \in HasOps THEN rows[i] # None ELSE rows[i]
    BY ShapeType
  <1>4. r \in Seq(S)
    BY <1>1
  <1> HIDE DEF S, x
  <1>5. r \o x \in Seq(S) /\ Len(r \o x) \in Nat /\ Len(r \o x) = Len(r) + Len(rows) /\ Len(r \o x) <= n
    BY <1>2, <1>4, Extended
  <1>6. Len(r) \in Nat /\ \A i \in 1..Len(r) : (r \o x)[i] = r[i]
    BY <1>2, <1>4
  <1>7. \A i \in 1..Len(x) : (r \o x)[Len(r) + i] = x[i]
    BY <1>2, <1>4
  <1> QED BY <1>1, <1>2, <1>3, <1>5, <1>6, <1>7 DEF x

\* What is left of rows and their keys from row e on.
LEMMA LeftType ==
    ASSUME NEW rows \in Seq(Rows), NEW full \in Seq(FullKeys), Len(full) = Len(rows), NEW e \in 1..Len(rows)
    PROVE  /\ SubSeq(rows, 1, e - 1) \in Seq(Rows) /\ Len(SubSeq(rows, 1, e - 1)) = e - 1
           /\ \A i \in 1..(e - 1) : SubSeq(rows, 1, e - 1)[i] = rows[i]
           /\ Left(rows, e) \in Seq(Rows) /\ Len(Left(rows, e)) = Len(rows) - e + 1
           /\ Left(rows, e)[1] = None
           /\ \A i \in 2..(Len(rows) - e + 1) : Left(rows, e)[i] = rows[e + i - 1]
           /\ SubSeq(full, e, Len(full)) \in Seq(FullKeys)
           /\ Len(SubSeq(full, e, Len(full))) = Len(rows) - e + 1
           /\ \A i \in 1..(Len(rows) - e + 1) : SubSeq(full, e, Len(full))[i] = full[e + i - 1]
           /\ full[e] \in FullKeys
  <1>1. /\ Len(rows) \in Nat /\ e \in Int /\ e - 1 \in Int /\ e + 1 \in Int
        /\ \A i \in 1..Len(rows) : rows[i] \in Rows /\ full[i] \in FullKeys
    BY ElementOfSeq
  <1>2. /\ SubSeq(rows, 1, e - 1) \in Seq(Rows) /\ Len(SubSeq(rows, 1, e - 1)) = e - 1
        /\ \A i \in 1..(e - 1) : SubSeq(rows, 1, e - 1)[i] = rows[i]
    BY <1>1
  <1> DEFINE tail == SubSeq(rows, e + 1, Len(rows))
             one  == <<None>>
  <1>3. /\ tail \in Seq(Rows) /\ Len(tail) = Len(rows) - e
        /\ \A i \in 1..(Len(rows) - e) : tail[i] = rows[e + i]
    BY <1>1
  <1>4. one \in Seq(Rows) /\ Len(one) = 1 /\ one[1] = None
    BY DEF Rows
  <1>5. Left(rows, e) = one \o tail
    BY DEF Left
  <1> HIDE DEF tail, one
  <1>6. /\ one \o tail \in Seq(Rows) /\ Len(one \o tail) = 1 + Len(tail) /\ (one \o tail)[1] = None
        /\ \A i \in 2..(1 + Len(tail)) : (one \o tail)[i] = tail[i - 1]
    <2>1. /\ one \o tail \in Seq(Rows) /\ Len(one \o tail) = Len(one) + Len(tail)
          /\ \A i \in 1..(Len(one) + Len(tail)) :
                (one \o tail)[i] = IF i <= Len(one) THEN one[i] ELSE tail[i - Len(one)]
      <3>1. one \in Seq(Rows) /\ tail \in Seq(Rows)
        BY <1>3, <1>4
      <3> QED BY <3>1, ConcatProperties
    <2>2. Len(tail) \in Nat
      BY <1>3
    <2> QED BY <1>4, <2>1, <2>2
  <1>7. \A i \in 2..(Len(rows) - e + 1) : (one \o tail)[i] = rows[e + i - 1]
    <2> SUFFICES ASSUME NEW i \in 2..(Len(rows) - e + 1) PROVE (one \o tail)[i] = rows[e + i - 1]
      OBVIOUS
    <2>1. i - 1 \in 1..(Len(rows) - e) /\ e + (i - 1) = e + i - 1 /\ i \in 2..(1 + Len(tail))
      BY <1>1, <1>3
    <2> QED BY <1>3, <1>6, <2>1
  <1>8. Len(one \o tail) = Len(rows) - e + 1
    BY <1>1, <1>3, <1>6
  <1>9. /\ SubSeq(full, e, Len(full)) \in Seq(FullKeys)
        /\ Len(SubSeq(full, e, Len(full))) = Len(rows) - e + 1
        /\ \A i \in 1..(Len(rows) - e + 1) : SubSeq(full, e, Len(full))[i] = full[e + i - 1]
    BY <1>1
  <1> QED BY <1>1, <1>2, <1>5, <1>6, <1>7, <1>8, <1>9

LEMMA ConcatLater ==
    ASSUME NEW S, NEW a \in Seq(S), NEW b \in Seq(S), NEW i \in 1..Len(b)
    PROVE  (a \o b)[Len(a) + i] = b[i]
  OBVIOUS

LEMMA LeftRest ==
    ASSUME NEW rows \in Seq(Rows), NEW e \in 1..Len(rows), NEW i \in 2..(Len(rows) - e + 1)
    PROVE  Left(rows, e)[i] = rows[e + i - 1]
  <1> DEFINE tail == SubSeq(rows, e + 1, Len(rows))
             one  == <<None>>
             n    == Len(rows)
  <1>1. n \in Nat /\ e \in 1..n /\ i \in 2..(n - e + 1)
    OBVIOUS
  <1>2. tail \in Seq(Rows) /\ Len(tail) = n - e /\ \A j \in 1..(n - e) : tail[j] = rows[e + j]
    BY ElementOfSeq
  <1>3. one \in Seq(Rows) /\ Len(one) = 1
    BY DEF Rows
  <1> HIDE DEF tail, one, n
  <1>4. i - 1 \in 1..Len(tail) /\ e + (i - 1) = e + i - 1 /\ Len(one) + (i - 1) = i
    BY <1>1, <1>2, <1>3
  <1>5. (one \o tail)[Len(one) + (i - 1)] = tail[i - 1]
    <2>1. \A j \in 1..Len(tail) : (one \o tail)[Len(one) + j] = tail[j]
      <3> SUFFICES ASSUME NEW j \in 1..Len(tail) PROVE (one \o tail)[Len(one) + j] = tail[j]
        OBVIOUS
      <3>1. one \in Seq(Rows) /\ tail \in Seq(Rows)
        BY <1>2, <1>3
      <3> QED BY <3>1, ConcatLater
    <2> QED BY <1>4, <2>1
  <1> QED BY <1>2, <1>4, <1>5 DEF Left, one, tail, n

\* All rows were handed on, or all up to the first expired one, whose key is deleted next.
AllHanded(t, rows) ==
    /\ \A i \in 1..Len(rows) : ~Expired(rows[i])
    /\ job'[t].res = job[t].res \o Shape(job[t].op, rows) /\ job'[t].stage = "run"
    /\ GoesOn(t)

Stopped(t, rows, full) ==
    \E e \in 1..Len(rows) :
       /\ Expired(rows[e]) /\ \A i \in 1..(e - 1) : ~Expired(rows[i])
       /\ job'[t].res = job[t].res \o Shape(job[t].op, SubSeq(rows, 1, e - 1))
       /\ job'[t].rows = Left(rows, e) /\ job'[t].full = SubSeq(full, e, Len(full))
       /\ job'[t].stage = "sweep" /\ pc'[t] = "asked"
       /\ req'[t].s = store[job[t].a] /\ req'[t].keys = <<full[e]>>

LEMMA JudgeEffect ==
    ASSUME CallsInv, NEW t \in Tasks, job[t].op \in ReadOps \cup HasOps,
           NEW rows \in Seq(Rows), NEW full \in Seq(FullKeys), Len(full) = Len(rows),
           Len(job[t].res) + Len(rows) <= Len(job[t].keys),
           Native(job[t].a, job[t].op) => Len(job[t].res) + Len(rows) = Len(job[t].keys),
           Judge(t, rows, full), UNCHANGED <<fixed, data, ans, walk, raced, told>>
    PROVE  /\ Types' /\ CallInv(t)' /\ Rest(t) /\ native' = native /\ SameCall(t)
           /\ AllHanded(t, rows) \/ Stopped(t, rows, full)
  <1> DEFINE bad  == {i \in DOMAIN rows : Expired(rows[i])}
             e    == CHOOSE i \in bad : \A m \in bad : i <= m
             some == job[t].res \o Shape(job[t].op, SubSeq(rows, 1, e - 1))
             all  == job[t].res \o Shape(job[t].op, rows)
  <1>1. /\ Types /\ CallInv(t) /\ job \in [Tasks -> JobType] /\ job[t] \in JobType
        /\ JobShape(job[t]) /\ job[t].res \in Results(job[t].op) /\ job[t].op \in KeyOps
    BY DEF CallsInv, CallInv, Types, JobShape, KeyOps
  <1>2. Len(rows) \in Nat /\ DOMAIN rows = 1..Len(rows)
    OBVIOUS
  <1>3. CASE bad = {}
    <2> DEFINE j == [job[t] EXCEPT !.res = all, !.stage = "run"]
    <2>1. all \in Results(job[t].op) /\ Len(all) \in Nat /\ Len(all) <= Len(job[t].keys)
      BY <1>1, ShapedResults
    <2>2. job' = [job EXCEPT ![t] = j] /\ Proceed(t, job[t], all)
      BY <1>3 DEF Judge
    <2> HIDE DEF all
    <2>3. all \in Answer
      BY <2>1, AnswerTypes
    <2>4. /\ j \in JobType /\ j.op = job[t].op /\ j.a = job[t].a /\ j.keys = job[t].keys
          /\ j.vals = job[t].vals /\ j.ns = job[t].ns /\ j.stage = "run" /\ j.res = all
      BY <1>1, <2>3 DEF JobType
    <2> HIDE DEF j
    <2>5. job' \in [Tasks -> JobType] /\ job'[t] = j /\ \A u \in Tasks : u # t => job'[u] = job[u]
      BY <1>1, <2>2, <2>4
    <2>6. Types' /\ CallInv(t)' /\ Rest(t) /\ native' = native /\ GoesOn(t)
      BY <1>1, <2>1, <2>2, <2>4, <2>5, Continues
    <2>7. \A i \in 1..Len(rows) : ~Expired(rows[i])
      BY <1>2, <1>3
    <2>8. AllHanded(t, rows)
      BY <2>4, <2>5, <2>6, <2>7 DEF AllHanded, all
    <2> QED BY <2>6, <2>8 DEF GoesOn
  <1>4. CASE bad # {}
    <2> DEFINE left == Left(rows, e)
               keys == SubSeq(full, e, Len(full))
               j == [job[t] EXCEPT !.res = some, !.rows = left, !.full = keys, !.stage = "sweep"]
    <2>1. e \in 1..Len(rows) /\ Expired(rows[e]) /\ \A i \in 1..(e - 1) : ~Expired(rows[i])
      <3>1. bad \subseteq 1..Len(rows)
        BY <1>2
      <3>2. \E i \in bad : \A m \in bad : i <= m
        <4> HIDE DEF bad
        <4> QED BY <1>2, <1>4, <3>1, Positions
      <3>3. e \in bad /\ \A m \in bad : e <= m
        <4> HIDE DEF bad
        <4> QED BY <3>2
      <3> HIDE DEF e
      <3>4. e \in 1..Len(rows) /\ Expired(rows[e])
        BY <1>2, <3>3
      <3> SUFFICES ASSUME NEW i \in 1..(e - 1), Expired(rows[i]) PROVE FALSE
        BY <3>4
      <3>5. i \in bad /\ ~(e <= i)
        BY <1>2, <3>4
      <3> QED BY <3>3, <3>5
    <2>2. /\ job' = [job EXCEPT ![t] = j]
          /\ Ask(t, store[job[t].a], "delete", <<full[e]>>, <<>>)
      BY <1>4 DEF Judge, SweepKey
    <2> HIDE DEF e
    <2> DEFINE front == SubSeq(rows, 1, e - 1)
    <2>3. /\ front \in Seq(Rows) /\ Len(front) = e - 1 /\ left \in Seq(Rows) /\ Len(left) = Len(rows) - e + 1
          /\ keys \in Seq(FullKeys) /\ Len(keys) = Len(rows) - e + 1 /\ full[e] \in FullKeys
      BY <2>1, LeftType
    <2>4. some = job[t].res \o Shape(job[t].op, front)
      OBVIOUS
    <2> HIDE DEF some, front, left, keys
    <2>5. Len(job[t].res) \in Nat /\ Len(job[t].keys) \in Nat
      <3>1. job[t].keys \in Seq(Keys)
        BY <1>1 DEF JobType
      <3>2. \E S : job[t].res \in Seq(S)
        BY <1>1 DEF Results
      <3> QED BY <3>1, <3>2
    <2> DEFINE r == Len(job[t].res)
               n == Len(job[t].keys)
    <2>6. r \in Nat /\ n \in Nat /\ r + Len(rows) <= n
          /\ (Native(job[t].a, job[t].op) => r + Len(rows) = n)
      BY <2>5
    <2>7. r + Len(front) <= Len(job[t].keys)
      <3> HIDE DEF r
      <3>1. r + Len(front) <= n
        <4> HIDE DEF n
        <4> QED BY <1>2, <2>1, <2>3, <2>6
      <3> QED BY <3>1
    <2>8. some \in Results(job[t].op) /\ Len(some) = r + Len(front)
      BY <1>1, <2>3, <2>4, <2>7, ShapedResults
    <2>9. some \in Answer
      BY <2>8, AnswerTypes
    <2>10. /\ j \in JobType /\ j.op = job[t].op /\ j.a = job[t].a /\ j.keys = job[t].keys
           /\ j.vals = job[t].vals /\ j.ns = job[t].ns /\ j.stage = "sweep" /\ j.res = some
           /\ j.rows = left /\ j.full = keys
      BY <1>1, <2>3, <2>9 DEF JobType
    <2> HIDE DEF j
    <2>11. job' \in [Tasks -> JobType] /\ job'[t] = j /\ \A u \in Tasks : u # t => job'[u] = job[u]
      BY <1>1, <2>2, <2>10
    <2> DEFINE ks == <<full[e]>>
               vs == <<>>
    <2>12. /\ ks \in Seq(FullKeys) /\ Len(ks) = 1 /\ vs \in Seq(Data) /\ store[job[t].a] \in Stores
           /\ "delete" \in SingleOps \cup Optional \cup {"clear"}
           /\ Ask(t, store[job[t].a], "delete", ks, vs)
      BY <1>1, <2>2, <2>3 DEF Types, JobType, SingleOps
    <2> HIDE DEF ks, vs
    <2>13. /\ pc' \in [Tasks -> Steps] /\ req' \in [Tasks -> ReqType] /\ pc'[t] = "asked"
           /\ req'[t] = [s |-> store[job[t].a], m |-> "delete", keys |-> ks, vals |-> vs]
           /\ \A u \in Tasks : u # t => pc'[u] = pc[u] /\ req'[u] = req[u]
      BY <1>1, <2>12, AskEffect
    <2>14. JobShape(j)
      <3>1. Len(some) <= Len(job[t].keys) /\ Len(j.vals) = Len(job[t].vals)
        BY <2>7, <2>8, <2>10
      <3> QED BY <1>1, <2>8, <2>10, <3>1 DEF JobShape
    <2>15. Asks(j, req'[t], walk'[t].s)
      <3>1. req'[t].m = "delete" /\ Len(req'[t].keys) = 1
        BY <2>12, <2>13
      <3>2. j.op \notin {"clear", "iterator"}
        BY <1>1, <2>10 DEF KeyOps, ReadOps, HasOps, WriteOps, DeleteOps
      <3>3. RowsLeft(j)
        <4>1. Len(keys) = Len(left) /\ Len(some) + Len(left) <= n
              /\ (Native(job[t].a, job[t].op) => Len(some) + Len(left) = n)
          <5> HIDE DEF r, n
          <5>1. r + Len(front) + Len(left) = r + Len(rows)
            BY <1>2, <2>1, <2>3, <2>6
          <5>2. Len(some) + Len(left) = r + Len(rows)
            BY <2>8, <5>1
          <5> QED BY <2>3, <2>6, <5>2
        <4> QED BY <2>10, <4>1 DEF RowsLeft
      <3> QED BY <2>10, <3>1, <3>2, <3>3 DEF Asks
    <2>16. Types'
      BY <1>1, <2>11, <2>13 DEF Types, fixed
    <2>17. Rest(t) /\ native' = native
      BY <2>11, <2>13 DEF Rest, fixed
    <2>18. CallInv(t)'
      BY <2>11, <2>13, <2>14, <2>15, <2>17, CallIntro
    <2>19. req'[t].s = store[job[t].a] /\ req'[t].keys = <<full[e]>>
      BY <2>13 DEF ks
    <2>20. Stopped(t, rows, full)
      BY <2>1, <2>4, <2>10, <2>11, <2>13, <2>19 DEF Stopped, front, left, keys
    <2>21. SameCall(t)
      BY <2>10, <2>11 DEF SameCall
    <2> QED BY <2>16, <2>17, <2>18, <2>20, <2>21
  <1> QED BY <1>3, <1>4

LEMMA GotRowsInv ==
    ASSUME CallsInv, NEW t \in Tasks, GotRows(t)
    PROVE  /\ pc[t] = "served" /\ ans[t].is = "rows" /\ job[t].stage = "run"
           /\ job[t].op \in ReadOps \cup HasOps /\ KeysAsked(job[t], req[t])
           /\ Types' /\ CallInv(t)' /\ Rest(t) /\ native' = native /\ SameCall(t)
           /\ ans[t].v \in Seq(Rows) /\ Len(ans[t].v) = Len(req[t].keys)
           /\ AllHanded(t, ans[t].v) \/ Stopped(t, ans[t].v, req[t].keys)
  <1>1. /\ pc[t] = "served" /\ ans[t].is = "rows" /\ Judge(t, ans[t].v, req[t].keys)
        /\ UNCHANGED <<fixed, data, ans, walk, raced, told>>
    BY DEF GotRows, Resume
  <1>2. /\ Types /\ CallInv(t) /\ req[t].m \in ReadOps
        /\ ans[t].v \in Seq(Rows) /\ Len(ans[t].v) = Len(req[t].keys)
    BY <1>1 DEF CallsInv, CallInv, Answers
  <1>3. job[t].op \in ReadOps \cup HasOps /\ job[t].stage = "run" /\ KeysAsked(job[t], req[t])
    BY <1>1, <1>2, RequestOf
  <1>4. job[t].op \in KeyOps
    BY <1>3 DEF KeyOps
  <1>5. /\ Len(job[t].res) + Len(req[t].keys) <= Len(job[t].keys)
        /\ Native(job[t].a, job[t].op) => Len(job[t].res) + Len(req[t].keys) = Len(job[t].keys)
    <2>1. /\ Len(job[t].res) + Len(req[t].keys) <= Len(job[t].keys)
          /\ Native(job[t].a, job[t].op) => job[t].res = <<>> /\ Len(req[t].keys) = Len(job[t].keys)
      BY <1>3, <1>4, RoomLeft
    <2>2. job[t].keys \in Seq(Keys)
      BY <1>2 DEF Types, JobType
    <2>3. ASSUME job[t].res = <<>>, Len(req[t].keys) = Len(job[t].keys)
          PROVE  Len(job[t].res) + Len(req[t].keys) = Len(job[t].keys)
      <3> DEFINE n == Len(job[t].keys)
      <3>1. n \in Nat
        BY <2>2
      <3>2. Len(job[t].res) = 0
        BY <2>3
      <3>3. 0 + n = n
        <4> HIDE DEF n
        <4> QED BY <3>1
      <3> QED BY <2>3, <3>2, <3>3
    <2> QED BY <2>1, <2>3
  <1>6. req[t].keys \in Seq(FullKeys)
    BY <1>2, RowsRead
  <1> DEFINE rows == ans[t].v
             full == req[t].keys
  <1>7. /\ rows \in Seq(Rows) /\ full \in Seq(FullKeys) /\ Len(full) = Len(rows) /\ Judge(t, rows, full)
        /\ Len(job[t].res) + Len(rows) <= Len(job[t].keys)
        /\ Native(job[t].a, job[t].op) => Len(job[t].res) + Len(rows) = Len(job[t].keys)
    BY <1>1, <1>2, <1>5, <1>6
  <1> HIDE DEF rows, full
  <1>8. /\ Types' /\ CallInv(t)' /\ Rest(t) /\ native' = native /\ SameCall(t)
        /\ AllHanded(t, rows) \/ Stopped(t, rows, full)
    BY <1>1, <1>3, <1>7, JudgeEffect
  <1> QED BY <1>1, <1>2, <1>3, <1>8 DEF rows, full

LEMMA SweptInv ==
    ASSUME CallsInv, NEW t \in Tasks, Swept(t)
    PROVE  LET j == job[t]
           IN  /\ pc[t] = "served" /\ ans[t].is = "booleans" /\ j.stage = "sweep"
               /\ j.op \in ReadOps \cup HasOps /\ RowsLeft(j)
               /\ Types' /\ CallInv(t)' /\ Rest(t) /\ native' = native /\ SameCall(t)
               /\ j.rows \in Seq(Rows) /\ j.full \in Seq(FullKeys)
               /\ AllHanded(t, j.rows) \/ Stopped(t, j.rows, j.full)
  <1>1. /\ pc[t] = "served" /\ ans[t].is = "booleans" /\ Judge(t, job[t].rows, job[t].full)
        /\ job[t].stage = "sweep" /\ job[t].op # "iterator"
        /\ UNCHANGED <<fixed, data, ans, walk, raced, told>>
    BY DEF Swept, Resume
  <1>2. /\ Types /\ CallInv(t) /\ JobShape(job[t]) /\ Asks(job[t], req[t], walk[t].s)
        /\ job[t].rows \in Seq(Rows) /\ job[t].full \in Seq(FullKeys)
    BY <1>1 DEF CallsInv, CallInv, Types, JobType
  <1>3. job[t].op \in ReadOps \cup HasOps
    BY <1>1, <1>2 DEF JobShape
  <1>4. RowsLeft(job[t])
    BY <1>1, <1>2, <1>3 DEF Asks, KeyOps
  <1> DEFINE rows == job[t].rows
             full == job[t].full
  <1>5. /\ rows \in Seq(Rows) /\ full \in Seq(FullKeys) /\ Len(full) = Len(rows) /\ Judge(t, rows, full)
        /\ Len(job[t].res) + Len(rows) <= Len(job[t].keys)
        /\ Native(job[t].a, job[t].op) => Len(job[t].res) + Len(rows) = Len(job[t].keys)
    <2>1. /\ Len(full) = Len(rows)
          /\ IF Native(job[t].a, job[t].op) THEN Len(job[t].res) + Len(rows) = Len(job[t].keys)
             ELSE Len(job[t].res) + Len(rows) <= Len(job[t].keys)
      BY <1>4 DEF RowsLeft
    <2>2. job[t].keys \in Seq(Keys)
      BY <1>2 DEF Types, JobType
    <2> DEFINE n == Len(job[t].keys)
    <2>3. n \in Nat
      BY <2>2
    <2>4. n <= n
      <3> HIDE DEF n
      <3> QED BY <2>3
    <2> QED BY <1>1, <1>2, <2>1, <2>4
  <1> HIDE DEF rows, full
  <1>6. /\ Types' /\ CallInv(t)' /\ Rest(t) /\ native' = native /\ SameCall(t)
        /\ AllHanded(t, rows) \/ Stopped(t, rows, full)
    BY <1>1, <1>3, <1>5, JudgeEffect
  <1> QED BY <1>1, <1>2, <1>3, <1>4, <1>6 DEF rows, full

LEMMA RejectedInv ==
    ASSUME CallsInv, NEW t \in Tasks, Rejected(t)
    PROVE  /\ Types' /\ CallInv(t)' /\ Rest(t) /\ native' = native
           /\ pc'[t] = "rejected" /\ job' = job
  <1>1. Finish(t, "rejected") /\ job' = job /\ UNCHANGED <<fixed, data, ans, walk, raced, told>>
    BY DEF Rejected, Resume
  <1>2. Types /\ JobShape(job[t])
    BY DEF CallsInv, CallInv
  <1>3. /\ pc' \in [Tasks -> Steps] /\ req' \in [Tasks -> ReqType]
        /\ pc'[t] = "rejected" /\ \A u \in Tasks : (u # t => pc'[u] = pc[u]) /\ req'[u] = req[u]
    BY <1>1, <1>2, FinishEffect
  <1>4. Types'
    BY <1>1, <1>2, <1>3 DEF Types, fixed
  <1>5. Rest(t) /\ native' = native
    BY <1>1, <1>3 DEF Rest, fixed
  <1> QED BY <1>1, <1>2, <1>3, <1>4, <1>5, CallIntro

---------------------------------------------------------------------------
(* Going on with an answer: clear and iterator *)

LEMMA FullKeyType == FullKeys \subseteq Seq(STRING)
  <1> SUFFICES ASSUME NEW k \in Keys, NEW ns \in Namespaces PROVE GetKeyPrefix(k, ns) \in Seq(STRING)
    BY DEF FullKeys
  <1>1. k \in Seq(STRING) /\ ns \in Seq(STRING) /\ <<Separator>> \in Seq(STRING)
    <2>1. Keys \subseteq Seq(STRING) /\ Namespaces \subseteq Seq(STRING) /\ Separator \in STRING
      BY BridgeAssumption
    <2>2. ASSUME NEW S, NEW x \in S PROVE <<x>> \in Seq(S)
      OBVIOUS
    <2>3. <<Separator>> \in Seq(STRING)
      BY Zenon, <2>1, <2>2
    <2> QED BY <2>1, <2>3
  <1>2. ns \o <<Separator>> \in Seq(STRING)
    BY <1>1, ConcatProperties
  <1>3. (ns \o <<Separator>>) \o k \in Seq(STRING)
    BY <1>1, <1>2, ConcatProperties
  <1> QED BY <1>1, <1>3 DEF GetKeyPrefix

LEMMA StripType ==
    ASSUME NEW k \in FullKeys, NEW ns \in Namespaces
    PROVE  StripPrefix(k, ns) \in Seq(STRING)
  <1>1. k \in Seq(STRING) /\ ns \in Seq(STRING)
    BY FullKeyType, BridgeAssumption
  <1>2. SubSeq(k, Len(ns) + 2, Len(k)) \in Seq(STRING)
    BY <1>1
  <1> QED BY <1>1, <1>2 DEF StripPrefix

\* The step of a walk: what it asks next, with the job it goes on with.
LEMMA AskOn ==
    ASSUME CallsInv, NEW t \in Tasks, NEW j \in JobType, NEW s \in Stores,
           NEW m \in {"iterator", "delete"}, NEW ks \in Seq(FullKeys),
           Ask(t, s, m, ks, <<>>), job' = [job EXCEPT ![t] = j], JobShape(j),
           Asks(j, [s |-> s, m |-> m, keys |-> ks, vals |-> <<>>], walk[t].s),
           UNCHANGED <<fixed, data, ans, walk, raced, told>>
    PROVE  /\ Types' /\ CallInv(t)' /\ Rest(t) /\ native' = native
           /\ pc'[t] = "asked" /\ req'[t] = [s |-> s, m |-> m, keys |-> ks, vals |-> <<>>] /\ job'[t] = j
  <1> DEFINE vs == <<>>
  <1>1. /\ Types /\ m \in SingleOps \cup Optional \cup {"clear"} /\ vs \in Seq(Data) /\ Ask(t, s, m, ks, vs)
    BY DEF CallsInv, SingleOps, Optional
  <1> HIDE DEF vs
  <1>2. /\ pc' \in [Tasks -> Steps] /\ req' \in [Tasks -> ReqType] /\ pc'[t] = "asked"
        /\ req'[t] = [s |-> s, m |-> m, keys |-> ks, vals |-> vs]
        /\ \A u \in Tasks : u # t => pc'[u] = pc[u] /\ req'[u] = req[u]
    BY <1>1, AskEffect
  <1>3. job' \in [Tasks -> JobType] /\ job'[t] = j /\ \A u \in Tasks : u # t => job'[u] = job[u]
    BY <1>1 DEF Types
  <1>4. Types'
    BY <1>1, <1>2, <1>3 DEF Types, fixed
  <1>5. Rest(t) /\ native' = native
    BY <1>2, <1>3 DEF Rest, fixed
  <1>6. Asks(job'[t], req'[t], walk'[t].s)
    BY <1>2, <1>3 DEF vs
  <1>7. CallInv(t)'
    BY <1>2, <1>3, <1>5, <1>6, CallIntro
  <1> QED BY <1>2, <1>3, <1>4, <1>5, <1>7 DEF vs

\* A walk that has ended.
LEMMA EndOn ==
    ASSUME CallsInv, NEW t \in Tasks, NEW j \in JobType, Finish(t, "resolved"),
           job' = [job EXCEPT ![t] = j], JobShape(j),
           UNCHANGED <<fixed, data, ans, walk, raced, told>>
    PROVE  /\ Types' /\ CallInv(t)' /\ Rest(t) /\ native' = native
           /\ pc'[t] = "resolved" /\ job'[t] = j
  <1>1. Types
    BY DEF CallsInv
  <1>2. /\ pc' \in [Tasks -> Steps] /\ req' \in [Tasks -> ReqType]
        /\ pc'[t] = "resolved" /\ \A u \in Tasks : (u # t => pc'[u] = pc[u]) /\ req'[u] = req[u]
    BY <1>1, FinishEffect
  <1>3. job' \in [Tasks -> JobType] /\ job'[t] = j /\ \A u \in Tasks : u # t => job'[u] = job[u]
    BY <1>1 DEF Types
  <1>4. Types'
    BY <1>1, <1>2, <1>3 DEF Types, fixed
  <1>5. Rest(t) /\ native' = native
    BY <1>2, <1>3 DEF Rest, fixed
  <1> QED BY <1>2, <1>3, <1>4, <1>5, CallIntro

\* What holds of a walk that was answered.
LEMMA WalkAnswered ==
    ASSUME CallsInv, NEW t \in Tasks, job[t].op \in WalkOps, pc[t] = "served"
    PROVE  /\ job[t] \in JobType /\ JobShape(job[t]) /\ walk[t].s \in Stores /\ store[job[t].a] \in Stores
           /\ job[t].ns \in Namespaces /\ job[t].full \in Seq(FullKeys) /\ job = [job EXCEPT ![t] = job[t]]
           /\ Asks(job[t], req[t], walk[t].s) /\ Answers(req[t], ans[t])
           /\ ans[t].is = "entry" => /\ req[t].m = "iterator" /\ job[t].stage = "run"
                                     /\ ans[t].v.key \in FullKeys /\ ans[t].v.row \in Data
           /\ job[t].op \notin KeyOps
  <1>1. Types /\ CallInv(t) /\ job[t].op \notin KeyOps
    BY DEF CallsInv, WalkOps, KeyOps, ReadOps, HasOps, WriteOps, DeleteOps
  <1>2. /\ job \in [Tasks -> JobType] /\ job[t] \in JobType /\ walk[t] \in WalkType
        /\ store \in [Adapters -> Stores]
    BY <1>1 DEF Types
  <1>3. /\ walk[t].s \in Stores /\ store[job[t].a] \in Stores
        /\ job[t].ns \in Namespaces /\ job[t].full \in Seq(FullKeys)
    BY <1>2 DEF JobType, WalkType
  <1>4. job = [job EXCEPT ![t] = job[t]]
    BY <1>2
  <1>5. JobShape(job[t]) /\ Asks(job[t], req[t], walk[t].s) /\ Answers(req[t], ans[t])
    BY <1>1 DEF CallInv
  <1>6. ans[t].is = "entry" => req[t].m = "iterator" /\ ans[t].v \in Entry
    BY <1>5 DEF Answers
  <1>7. ans[t].is = "entry" => job[t].stage = "run"
    BY <1>1, <1>6, RequestOf
  <1> QED BY <1>1, <1>2, <1>3, <1>4, <1>5, <1>6, <1>7 DEF Entry

LEMMA IteratorEntryInv ==
    ASSUME CallsInv, NEW t \in Tasks, IteratorEntry(t)
    PROVE  /\ Types' /\ CallInv(t)' /\ Rest(t) /\ native' = native /\ pc'[t] = "asked"
           /\ job'[t].op = "iterator" /\ job'[t].a = job[t].a /\ job'[t].stage \in {"run", "sweep"}
           /\ job'[t].stage = "sweep" => /\ Expired(ans[t].v.row) /\ req'[t].s = store[job[t].a]
                                         /\ req'[t].m = "delete" /\ req'[t].keys = <<ans[t].v.key>>
           /\ job'[t].stage = "run" => req'[t].s = walk[t].s
  <1> DEFINE e    == ans[t].v
             none == <<>>
             goOn == [s |-> walk[t].s, m |-> "iterator", keys |-> none, vals |-> <<>>]
  <1>1. /\ pc[t] = "served" /\ ans[t].is = "entry" /\ job[t].op = "iterator"
        /\ UNCHANGED <<fixed, data, ans, walk, raced, told>>
    BY DEF IteratorEntry, Resume
  <1>2. /\ job[t] \in JobType /\ JobShape(job[t]) /\ walk[t].s \in Stores /\ store[job[t].a] \in Stores
        /\ job[t].ns \in Namespaces /\ job = [job EXCEPT ![t] = job[t]]
        /\ job[t].stage = "run" /\ e.key \in FullKeys /\ e.row \in Data /\ job[t].op \notin KeyOps
    BY <1>1, WalkAnswered DEF WalkOps
  <1>3. none \in Seq(FullKeys)
    OBVIOUS
  <1> HIDE DEF none
  <1>4. ASSUME NEW j, j.op = "iterator", j.stage = "run"
        PROVE  Asks(j, goOn, walk[t].s)
    BY <1>4 DEF Asks, KeyOps, ReadOps, HasOps, WriteOps, DeleteOps
  <1>5. CASE ~InNamespace(e.key, job[t].ns) /\ WalkOn(t) /\ UNCHANGED job
    <2>1. Ask(t, walk[t].s, "iterator", none, <<>>) /\ job' = [job EXCEPT ![t] = job[t]]
      BY <1>2, <1>5 DEF WalkOn, none
    <2>2. Asks(job[t], goOn, walk[t].s)
      BY <1>1, <1>2, <1>4
    <2>3. /\ Types' /\ CallInv(t)' /\ Rest(t) /\ native' = native
          /\ pc'[t] = "asked" /\ req'[t] = goOn /\ job'[t] = job[t]
      BY <1>1, <1>2, <1>3, <2>1, <2>2, AskOn
    <2> QED BY <1>1, <1>2, <2>3
  <1>6. CASE /\ InNamespace(e.key, job[t].ns) /\ Expired(e.row)
             /\ job' = [job EXCEPT ![t].stage = "sweep"]
             /\ Ask(t, store[job[t].a], "delete", <<e.key>>, <<>>)
    <2> DEFINE j  == [job[t] EXCEPT !.stage = "sweep"]
               ks == <<e.key>>
               r  == [s |-> store[job[t].a], m |-> "delete", keys |-> ks, vals |-> <<>>]
    <2>1. /\ j \in JobType /\ j.op = "iterator" /\ j.stage = "sweep" /\ j.a = job[t].a /\ j.res = job[t].res
          /\ job' = [job EXCEPT ![t] = j] /\ Ask(t, store[job[t].a], "delete", ks, <<>>)
      BY <1>1, <1>2, <1>6 DEF JobType
    <2>2. ks \in Seq(FullKeys) /\ Len(ks) = 1
      BY <1>2
    <2> HIDE DEF j, ks
    <2>3. JobShape(j)
      BY <1>1, <1>2, <2>1 DEF JobShape, KeyOps, ReadOps, HasOps, WriteOps, DeleteOps
    <2>4. Asks(j, r, walk[t].s)
      BY <2>1, <2>2 DEF Asks, KeyOps, ReadOps, HasOps, WriteOps, DeleteOps
    <2>5. /\ Types' /\ CallInv(t)' /\ Rest(t) /\ native' = native
          /\ pc'[t] = "asked" /\ req'[t] = r /\ job'[t] = j
      BY <1>1, <1>2, <2>1, <2>2, <2>3, <2>4, AskOn
    <2>6. Expired(e.row)
      BY <1>6
    <2>7. /\ req'[t].s = store[job[t].a] /\ req'[t].m = "delete" /\ req'[t].keys = ks
          /\ job'[t].op = "iterator" /\ job'[t].a = job[t].a /\ job'[t].stage = "sweep"
      BY <2>1, <2>5
    <2> QED BY <2>5, <2>6, <2>7 DEF ks
  <1>7. CASE /\ InNamespace(e.key, job[t].ns) /\ ~Expired(e.row)
             /\ job' = [job EXCEPT ![t].res = Append(@, [key |-> StripPrefix(e.key, job[t].ns), row |-> e.row])]
             /\ WalkOn(t)
    <2> DEFINE f   == [key |-> StripPrefix(e.key, job[t].ns), row |-> e.row]
               res == Append(job[t].res, f)
               j   == [job[t] EXCEPT !.res = res]
    <2>1. f \in Found
      BY <1>2, StripType DEF Found
    <2>2. job[t].res \in Seq(Found) /\ Results("iterator") = Seq(Found)
      BY <1>1, <1>2 DEF JobShape, Results, KeyOps, ReadOps, HasOps, WriteOps, DeleteOps, Found
    <2>3. res \in Results("iterator") /\ res \in Answer
      <3> HIDE DEF f
      <3>1. res \in Seq(Found)
        BY <2>1, <2>2
      <3> QED BY <2>2, <3>1, AnswerTypes
    <2>4. job' = [job EXCEPT ![t] = j] /\ Ask(t, walk[t].s, "iterator", none, <<>>)
      BY <1>7 DEF WalkOn, none
    <2> HIDE DEF f, res
    <2>5. /\ j \in JobType /\ j.op = "iterator" /\ j.stage = "run" /\ j.a = job[t].a /\ j.res = res
      BY <1>1, <1>2, <2>3 DEF JobType
    <2> HIDE DEF j
    <2>6. JobShape(j)
      BY <2>3, <2>5 DEF JobShape, KeyOps, ReadOps, HasOps, WriteOps, DeleteOps
    <2>7. Asks(j, goOn, walk[t].s)
      BY <1>4, <2>5
    <2>8. /\ Types' /\ CallInv(t)' /\ Rest(t) /\ native' = native
          /\ pc'[t] = "asked" /\ req'[t] = goOn /\ job'[t] = j
      BY <1>1, <1>2, <1>3, <2>4, <2>5, <2>6, <2>7, AskOn
    <2> QED BY <2>5, <2>8
  <1> QED BY <1>5, <1>6, <1>7 DEF IteratorEntry

LEMMA IteratorSweptInv ==
    ASSUME CallsInv, NEW t \in Tasks, IteratorSwept(t)
    PROVE  /\ Types' /\ CallInv(t)' /\ Rest(t) /\ native' = native /\ pc'[t] = "asked"
           /\ job'[t].op = "iterator" /\ job'[t].stage = "run" /\ job'[t].a = job[t].a
           /\ req'[t].s = walk[t].s
  <1> DEFINE none == <<>>
             goOn == [s |-> walk[t].s, m |-> "iterator", keys |-> none, vals |-> <<>>]
             j    == [job[t] EXCEPT !.stage = "run"]
  <1>1. /\ pc[t] = "served" /\ job[t].op = "iterator" /\ job' = [job EXCEPT ![t] = j]
        /\ Ask(t, walk[t].s, "iterator", none, <<>>)
        /\ UNCHANGED <<fixed, data, ans, walk, raced, told>>
    BY DEF IteratorSwept, Resume, WalkOn
  <1>2. /\ job[t] \in JobType /\ JobShape(job[t]) /\ walk[t].s \in Stores
    BY <1>1, WalkAnswered DEF WalkOps
  <1>3. none \in Seq(FullKeys)
    OBVIOUS
  <1>4. j \in JobType /\ j.op = "iterator" /\ j.stage = "run" /\ j.a = job[t].a /\ j.res = job[t].res
    BY <1>1, <1>2 DEF JobType
  <1> HIDE DEF none, j
  <1>5. JobShape(j)
    BY <1>1, <1>2, <1>4 DEF JobShape, KeyOps, ReadOps, HasOps, WriteOps, DeleteOps
  <1>6. Asks(j, goOn, walk[t].s)
    BY <1>4 DEF Asks, KeyOps, ReadOps, HasOps, WriteOps, DeleteOps
  <1>7. /\ Types' /\ CallInv(t)' /\ Rest(t) /\ native' = native
        /\ pc'[t] = "asked" /\ req'[t] = goOn /\ job'[t] = j
    BY <1>1, <1>2, <1>3, <1>4, <1>5, <1>6, AskOn
  <1> QED BY <1>4, <1>7

LEMMA IteratorEndInv ==
    ASSUME CallsInv, NEW t \in Tasks, IteratorEnd(t)
    PROVE  Types' /\ CallInv(t)' /\ Rest(t) /\ native' = native /\ pc'[t] = "resolved" /\ job'[t] = job[t]
  <1>1. /\ pc[t] = "served" /\ job[t].op = "iterator" /\ job' = job /\ Finish(t, "resolved")
        /\ UNCHANGED <<fixed, data, ans, walk, raced, told>>
    BY DEF IteratorEnd, Resume
  <1>2. job[t] \in JobType /\ JobShape(job[t]) /\ job' = [job EXCEPT ![t] = job[t]]
    BY <1>1, WalkAnswered DEF WalkOps
  <1> QED BY <1>1, <1>2, EndOn

\* The keys that clear still has to delete.
LEMMA DeleteFirstInv ==
    ASSUME CallsInv, NEW t \in Tasks, NEW ks \in Seq(FullKeys), NEW j \in JobType, JobShape(j),
           pc[t] = "served", job[t].op = "clear", j.op = "clear", j.full = ks, j.stage = "run",
           j.a = job[t].a, \A i \in DOMAIN ks : InNamespace(ks[i], j.ns),
           job' = [job EXCEPT ![t] = j], DeleteFirst(t, ks),
           UNCHANGED <<fixed, data, ans, walk, raced, told>>
    PROVE  /\ Types' /\ CallInv(t)' /\ Rest(t) /\ native' = native /\ job'[t] = j
           /\ \/ ks = <<>> /\ pc'[t] = "resolved"
              \/ /\ ks # <<>> /\ pc'[t] = "asked" /\ req'[t].m = "delete" /\ req'[t].s = store[j.a]
                 /\ req'[t].keys = <<Head(ks)>>
  <1>1. CASE ks = <<>>
    BY <1>1, EndOn DEF DeleteFirst
  <1>2. CASE ks # <<>>
    <2> DEFINE one == <<Head(ks)>>
               r   == [s |-> store[job[t].a], m |-> "delete", keys |-> one, vals |-> <<>>]
    <2>1. one \in Seq(FullKeys) /\ Ask(t, store[job[t].a], "delete", one, <<>>)
      BY <1>2 DEF DeleteFirst
    <2>2. store[job[t].a] \in Stores
      BY WalkAnswered DEF WalkOps
    <2>3. Asks(j, r, walk[t].s)
      BY <1>2 DEF Asks, KeyOps, ReadOps, HasOps, WriteOps, DeleteOps
    <2> HIDE DEF one
    <2>4. /\ Types' /\ CallInv(t)' /\ Rest(t) /\ native' = native
          /\ pc'[t] = "asked" /\ req'[t] = r /\ job'[t] = j
      BY <2>1, <2>2, <2>3, AskOn
    <2> QED BY <1>2, <2>4 DEF one
  <1> QED BY <1>1, <1>2

\* Between a clear's steps: its keys are in its namespace, and it is not sweeping.
LEMMA ClearAnswered ==
    ASSUME CallsInv, NEW t \in Tasks, job[t].op = "clear", pc[t] = "served"
    PROVE  /\ job[t] \in JobType /\ JobShape(job[t]) /\ walk[t].s \in Stores
           /\ job[t].full \in Seq(FullKeys) /\ job[t].stage = "run"
           /\ \A i \in DOMAIN job[t].full : InNamespace(job[t].full[i], job[t].ns)
           /\ req[t].m \in {"clear", "iterator", "delete"}
           /\ req[t].m = "delete" => job[t].full # <<>> /\ req[t].keys = <<Head(job[t].full)>>
           /\ Answers(req[t], ans[t])
           /\ ans[t].is = "booleans" => req[t].m = "delete"
           /\ ans[t].is \in {"done", "undefined", "entry"} => req[t].m \in {"clear", "iterator"}
           /\ ans[t].is = "entry" => ans[t].v.key \in FullKeys /\ req[t].m = "iterator"
  <1>1. /\ job[t] \in JobType /\ JobShape(job[t]) /\ walk[t].s \in Stores
        /\ job[t].full \in Seq(FullKeys) /\ Asks(job[t], req[t], walk[t].s) /\ Answers(req[t], ans[t])
    BY WalkAnswered DEF WalkOps
  <1>2. job[t].stage = "run"
    BY <1>1 DEF JobShape, JobType, ReadOps, HasOps
  <1>3. /\ \A i \in DOMAIN job[t].full : InNamespace(job[t].full[i], job[t].ns)
        /\ req[t].m \in {"clear", "iterator", "delete"}
        /\ req[t].m = "delete" => job[t].full # <<>> /\ req[t].keys = <<Head(job[t].full)>>
    BY <1>1 DEF Asks
  <1>4. /\ ans[t].is = "booleans" => req[t].m = "delete"
        /\ ans[t].is \in {"done", "undefined", "entry"} => req[t].m \in {"clear", "iterator"}
        /\ ans[t].is = "entry" => ans[t].v.key \in FullKeys /\ req[t].m = "iterator"
    BY <1>1, <1>3 DEF Answers, HasOps, WriteOps, DeleteOps, Optional, Entry
  <1> QED BY <1>1, <1>2, <1>3, <1>4

LEMMA ClearEntryInv ==
    ASSUME CallsInv, NEW t \in Tasks, ClearEntry(t)
    PROVE  /\ Types' /\ CallInv(t)' /\ Rest(t) /\ native' = native /\ pc'[t] = "asked"
           /\ job'[t].op = "clear" /\ job'[t].a = job[t].a /\ job'[t].ns = job[t].ns
           /\ job'[t].stage = "run" /\ req'[t].m = "iterator" /\ req'[t].s = walk[t].s
           /\ job'[t].full = IF InNamespace(ans[t].v.key, job[t].ns)
                             THEN Append(job[t].full, ans[t].v.key) ELSE job[t].full
  <1> DEFINE none == <<>>
             k    == ans[t].v.key
             goOn == [s |-> walk[t].s, m |-> "iterator", keys |-> none, vals |-> <<>>]
             full == IF InNamespace(k, job[t].ns) THEN Append(job[t].full, k) ELSE job[t].full
             j    == [job[t] EXCEPT !.full = full]
  <1>1. /\ pc[t] = "served" /\ ans[t].is = "entry" /\ job[t].op = "clear"
        /\ Ask(t, walk[t].s, "iterator", none, <<>>)
        /\ UNCHANGED <<fixed, data, ans, walk, raced, told>>
    BY DEF ClearEntry, Resume, WalkOn
  <1>2. /\ job[t] \in JobType /\ JobShape(job[t]) /\ walk[t].s \in Stores
        /\ job[t].full \in Seq(FullKeys) /\ job[t].stage = "run" /\ k \in FullKeys
        /\ \A i \in DOMAIN job[t].full : InNamespace(job[t].full[i], job[t].ns)
    BY <1>1, ClearAnswered
  <1>3. none \in Seq(FullKeys) /\ job \in [Tasks -> JobType]
    BY DEF CallsInv, Types
  <1> HIDE DEF none
  <1>4. /\ full \in Seq(FullKeys)
        /\ \A i \in DOMAIN full : InNamespace(full[i], job[t].ns)
    BY <1>2
  <1>5. job' = [job EXCEPT ![t] = j]
    <2>1. job' = IF InNamespace(k, job[t].ns) THEN [job EXCEPT ![t].full = Append(@, k)] ELSE job
      BY DEF ClearEntry
    <2>2. job[t] = [job[t] EXCEPT !.full = job[t].full]
      BY <1>2 DEF JobType
    <2>3. CASE InNamespace(k, job[t].ns)
      BY <2>1, <2>3
    <2>4. CASE ~InNamespace(k, job[t].ns)
      BY <1>3, <2>1, <2>2, <2>4
    <2> QED BY <2>3, <2>4
  <1> HIDE DEF full
  <1>6. /\ j \in JobType /\ j.op = "clear" /\ j.a = job[t].a /\ j.ns = job[t].ns /\ j.stage = "run"
        /\ j.full = full /\ j.res = job[t].res
    BY <1>1, <1>2, <1>4 DEF JobType
  <1> HIDE DEF j
  <1>7. JobShape(j)
    BY <1>1, <1>2, <1>6 DEF JobShape, KeyOps, ReadOps, HasOps, WriteOps, DeleteOps
  <1>8. Asks(j, goOn, walk[t].s)
    BY <1>4, <1>6 DEF Asks, KeyOps, ReadOps, HasOps, WriteOps, DeleteOps
  <1>9. /\ Types' /\ CallInv(t)' /\ Rest(t) /\ native' = native
        /\ pc'[t] = "asked" /\ req'[t] = goOn /\ job'[t] = j
    BY <1>1, <1>2, <1>3, <1>5, <1>6, <1>7, <1>8, AskOn
  <1>10. req'[t].m = "iterator" /\ req'[t].s = walk[t].s
    BY <1>9
  <1> QED BY <1>6, <1>9, <1>10 DEF full

\* A clear deletes the first of the keys it has left.
LEMMA ClearDeletesInv ==
    ASSUME CallsInv, NEW t \in Tasks, ClearCollected(t) \/ ClearDeleted(t)
    PROVE  /\ Types' /\ CallInv(t)' /\ Rest(t) /\ native' = native
           /\ job'[t].op = "clear" /\ job'[t].a = job[t].a /\ job'[t].ns = job[t].ns
           /\ job'[t].stage = "run"
           /\ job'[t].full = IF ans[t].is = "booleans" THEN Tail(job[t].full) ELSE job[t].full
           /\ \/ job'[t].full = <<>> /\ pc'[t] = "resolved"
              \/ /\ job'[t].full # <<>> /\ pc'[t] = "asked" /\ req'[t].m = "delete"
                 /\ req'[t].s = store[job[t].a] /\ req'[t].keys = <<Head(job'[t].full)>>
  <1> DEFINE full == IF ans[t].is = "booleans" THEN Tail(job[t].full) ELSE job[t].full
             j    == [job[t] EXCEPT !.full = full]
  <1>1. /\ pc[t] = "served" /\ ans[t].is \in {"booleans", "done", "undefined"} /\ job[t].op = "clear"
        /\ DeleteFirst(t, full) /\ UNCHANGED <<fixed, data, ans, walk, raced, told>>
    BY DEF ClearCollected, ClearDeleted, Resume
  <1>2. /\ job[t] \in JobType /\ JobShape(job[t])
        /\ job[t].full \in Seq(FullKeys) /\ job[t].stage = "run"
        /\ \A i \in DOMAIN job[t].full : InNamespace(job[t].full[i], job[t].ns)
        /\ ans[t].is = "booleans" => job[t].full # <<>>
    BY <1>1, ClearAnswered
  <1>3. job' = [job EXCEPT ![t] = j]
    <2>1. job' = IF ans[t].is = "booleans" THEN [job EXCEPT ![t].full = Tail(@)] ELSE job
      BY DEF ClearCollected, ClearDeleted, Resume
    <2>2. job[t] = [job[t] EXCEPT !.full = job[t].full] /\ job \in [Tasks -> JobType]
      BY <1>2 DEF JobType, CallsInv, Types
    <2>3. CASE ans[t].is = "booleans"
      BY <2>1, <2>3
    <2>4. CASE ~(ans[t].is = "booleans")
      BY <2>1, <2>2, <2>4
    <2> QED BY <2>3, <2>4
  <1>4. /\ full \in Seq(FullKeys)
        /\ \A i \in DOMAIN full : InNamespace(full[i], job[t].ns)
    <2>1. CASE ans[t].is = "booleans"
      BY <1>2, <2>1
    <2>2. CASE ~(ans[t].is = "booleans")
      BY <1>2, <2>2
    <2> QED BY <2>1, <2>2
  <1> HIDE DEF full
  <1>5. /\ j \in JobType /\ j.op = "clear" /\ j.a = job[t].a /\ j.ns = job[t].ns /\ j.stage = "run"
        /\ j.full = full /\ j.res = job[t].res
    BY <1>1, <1>2, <1>4 DEF JobType
  <1> HIDE DEF j
  <1>6. JobShape(j)
    BY <1>1, <1>2, <1>5 DEF JobShape, KeyOps, ReadOps, HasOps, WriteOps, DeleteOps
  <1>7. /\ Types' /\ CallInv(t)' /\ Rest(t) /\ native' = native /\ job'[t] = j
        /\ \/ full = <<>> /\ pc'[t] = "resolved"
           \/ /\ full # <<>> /\ pc'[t] = "asked" /\ req'[t].m = "delete" /\ req'[t].s = store[j.a]
              /\ req'[t].keys = <<Head(full)>>
    BY <1>1, <1>3, <1>4, <1>5, <1>6, DeleteFirstInv
  <1>8. job'[t].full = full /\ job'[t].a = job[t].a
    BY <1>5, <1>7
  <1> QED BY <1>5, <1>7, <1>8 DEF full

---------------------------------------------------------------------------
(* Every step *)

\* A step of a task t.
Step(t) == (\E a \in Adapters : CallKeys(t, a) \/ CallWalk(t, a)) \/ Serve(t) \/ GoOn(t)

LEMMA StepCalls ==
    ASSUME CallsInv, NEW t \in Tasks, Step(t)
    PROVE  Types' /\ CallInv(t)' /\ Rest(t) /\ native' = native
  <1>1. CASE \E a \in Adapters : CallKeys(t, a) \/ CallWalk(t, a)
    BY <1>1, CallKeysInv, CallWalkInv
  <1>2. CASE Serve(t)
    BY <1>2, ServeReadsInv, ServeWriteInv, ServeRemovesInv, ServeNextInv DEF Serve
  <1>3. CASE Rejected(t) \/ DeleteCaught(t) \/ GotRows(t) \/ Swept(t) \/ GotBooleans(t) \/ GotUndefined(t)
    BY <1>3, RejectedInv, DeleteCaughtInv, GotRowsInv, SweptInv, GotBooleansInv, GotUndefinedInv
  <1>4. CASE \/ IteratorEntry(t) \/ IteratorSwept(t) \/ IteratorEnd(t)
             \/ ClearEntry(t) \/ ClearCollected(t) \/ ClearDeleted(t)
    BY <1>4, IteratorEntryInv, IteratorSweptInv, IteratorEndInv, ClearEntryInv, ClearDeletesInv
  <1> QED BY <1>1, <1>2, <1>3, <1>4 DEF Step, GoOn

\* The setters and the clock leave the calls as they are.
Apart == (\E a \in Adapters : \/ \E ns \in Namespaces : SetNamespace(a, ns)
                              \/ \E s \in Stores : SetStore(a, s)) \/ Tick \/ UNCHANGED vars

LEMMA ApartCalls ==
    ASSUME CallsInv, Apart
    PROVE  CallsInv' /\ UNCHANGED <<data, native, pc, req, ans, job, walk, told>>
  <1>1. UNCHANGED <<data, native, pc, req, ans, job, walk, told>>
    BY DEF Apart, SetNamespace, SetStore, Tick, vars
  <1>2. Types
    BY DEF CallsInv
  <1>3. /\ now' \in Nat /\ calls' \in Nat /\ namespace' \in [Adapters -> Namespaces]
        /\ store' \in [Adapters -> Stores] /\ raced' \in [Tasks -> SUBSET FullKeys]
    <2> USE <1>2 DEF Types
    <2>1. CASE \E a \in Adapters : \E ns \in Namespaces : SetNamespace(a, ns)
      BY <2>1 DEF SetNamespace, Configure, Set
    <2>2. CASE \E a \in Adapters : \E s \in Stores : SetStore(a, s)
      BY <2>2 DEF SetStore, Configure, Set
    <2>3. CASE Tick
      BY <2>3 DEF Tick
    <2>4. CASE UNCHANGED vars
      BY <2>4 DEF vars
    <2> QED BY <2>1, <2>2, <2>3, <2>4 DEF Apart
  <1>4. Types'
    BY <1>1, <1>2, <1>3 DEF Types
  <1>5. ASSUME NEW t \in Tasks PROVE CallInv(t)'
    BY <1>1, CallIntro DEF CallsInv, CallInv
  <1> QED BY <1>1, <1>4, <1>5 DEF CallsInv

LEMMA NextSplits == [Next]_vars => (\E t \in Tasks : Step(t)) \/ Apart
  BY DEF Next, Step, Apart

LEMMA CallsStep == ASSUME CallsInv, [Next]_vars PROVE CallsInv'
  <1>1. CASE Apart
    BY <1>1, ApartCalls
  <1>2. ASSUME NEW t \in Tasks, Step(t) PROVE CallsInv'
    <2>1. Types' /\ CallInv(t)' /\ Rest(t) /\ native' = native
      BY <1>2, StepCalls
    <2>2. \A u \in Tasks : CallInv(u)'
      BY <2>1, RestKeeps
    <2> QED BY <2>1, <2>2 DEF CallsInv
  <1> QED BY <1>1, <1>2, NextSplits

LEMMA CallsInit == Init => CallsInv
  <1> SUFFICES ASSUME Init PROVE CallsInv
    OBVIOUS
  <1>1. Some(Adapters) \in Adapters
    BY BridgeAssumption DEF Some
  <1>2. store \in [Adapters -> Stores] /\ namespace \in [Adapters -> Namespaces]
    BY DEF Init
  <1>3. Some(Stores) \in Stores
    BY <1>1, <1>2 DEF Some
  <1>4. native \in [Adapters -> SUBSET Optional]
    BY <1>2, BridgeAssumption DEF Init
  <1>5. data \in [Stores -> [FullKeys -> Rows]]
    BY BridgeAssumption DEF Init
  <1> DEFINE j == NewJob("clear", Some(Adapters), <<>>, <<>>)
  <1>6. j \in JobType
    <2>1. <<>> \in Seq(Keys) /\ <<>> \in Seq(Data) /\ <<>> \in Seq(Rows) /\ <<>> \in Seq(FullKeys) /\ <<>> \in Answer
      BY DEF Answer
    <2>2. namespace[Some(Adapters)] \in Namespaces
      BY <1>1, <1>2
    <2> QED BY <1>1, <2>1, <2>2 DEF NewJob, JobType, WalkOps
  <1>7. JobShape(j)
    <2>1. j.res = <<>> /\ j.op = "clear" /\ j.stage = "run"
      BY DEF NewJob
    <2>2. <<>> \in Results("clear")
      BY DEF Results
    <2> HIDE DEF j
    <2> QED BY <2>1, <2>2 DEF JobShape, KeyOps, ReadOps, HasOps, WriteOps, DeleteOps
  <1>8. job = [t \in Tasks |-> j]
    BY DEF Init
  <1> HIDE DEF j
  <1>9. /\ pc \in [Tasks -> Steps] /\ \A t \in Tasks : pc[t] = "idle"
    BY DEF Init, Steps
  <1>10. req \in [Tasks -> ReqType]
    <2>1. [s |-> Some(Stores), m |-> "clear", keys |-> <<>>, vals |-> <<>>] \in ReqType
      BY <1>3 DEF ReqType
    <2> QED BY <2>1 DEF Init
  <1>11. ans \in [Tasks -> AnsType]
    <2>1. [is |-> "done", v |-> None] \in AnsType
      BY DEF AnsType, Kinds, Served1
    <2> QED BY <2>1 DEF Init
  <1>12. walk \in [Tasks -> WalkType] /\ raced \in [Tasks -> SUBSET FullKeys]
    BY <1>3 DEF Init, WalkType
  <1>13. told \in [Tasks -> Seq(ToldType)] /\ now \in Nat /\ calls \in Nat
    BY DEF Init
  <1>14. Types
    BY <1>2, <1>4, <1>5, <1>6, <1>8, <1>9, <1>10, <1>11, <1>12, <1>13 DEF Types
  <1>15. \A t \in Tasks : CallInv(t)
    BY <1>7, <1>8, <1>9 DEF CallInv
  <1> QED BY <1>14, <1>15 DEF CallsInv

LEMMA CallsType == CallsInv => TypeOK
  <1> SUFFICES ASSUME CallsInv PROVE TypeOK
    OBVIOUS
  <1>1. Types /\ \A t \in Tasks : JobShape(job[t])
    BY DEF CallsInv, CallInv
  <1>2. Seq(FullKeys) \subseteq Seq(Seq(STRING))
    BY FullKeyType, SeqMonotonic
  <1>3. \A t \in Tasks : req[t] \in Request
    BY <1>1, <1>2 DEF Types, ReqType, Request
  <1>4. \A t \in Tasks : Locals(job[t]) \in Job
    BY <1>1, <1>2 DEF Types, JobType, Job, Locals
  <1>5. \A t \in Tasks : /\ job[t].res \in Results(job[t].op)
                         /\ job[t].op \in KeyOps => Len(job[t].res) <= Len(job[t].keys)
    BY <1>1 DEF JobShape
  <1> QED BY <1>1, <1>3, <1>4, <1>5 DEF TypeOK, Types, Steps, WalkType

\* Every variable of the bridge adapter keeps its type, whatever the wrapped
\* stores answer: a batch never answers more than it was asked, and what it has
\* answered so far is data, booleans or entries, as the operation promises
\* (core/storely/src/adapters/bridge.ts).
THEOREM TypeCorrect == Spec => []TypeOK
  <1>1. Init => CallsInv
    BY CallsInit
  <1>2. CallsInv /\ [Next]_vars => CallsInv'
    BY CallsStep
  <1>3. CallsInv => TypeOK
    BY CallsType
  <1> QED BY <1>1, <1>2, <1>3, PTL DEF Spec

---------------------------------------------------------------------------
(* What a clear removes *)

\* A step that serves a request of t is the store's.
LEMMA ServedByStore ==
    ASSUME CallsInv, [Next]_vars, NEW t \in Tasks, pc[t] = "asked", pc'[t] = "served"
    PROVE  Serve(t)
  <1>1. ~ Apart
    BY ApartCalls
  <1>2. PICK u \in Tasks : Step(u)
    BY <1>1, NextSplits
  <1>3. u = t
    BY <1>2, StepCalls DEF Rest
  <1>4. ~ \E a \in Adapters : CallKeys(t, a) \/ CallWalk(t, a)
    BY DEF CallKeys, CallWalk, Enter
  <1>5. ~ GoOn(t)
    BY DEF GoOn, Rejected, DeleteCaught, GotRows, Swept, GotBooleans, GotUndefined,
           IteratorEntry, IteratorSwept, IteratorEnd, ClearEntry, ClearCollected, ClearDeleted, Resume
  <1> QED BY <1>2, <1>3, <1>4, <1>5 DEF Step

\* A clear that walks over the store removes nothing outside its namespace,
\* whatever setters and other calls come in between: a key it deletes is one
\* it collected, and it collects those of its namespace
\* (clear, core/storely/src/adapters/bridge.ts).
THEOREM ClearStaysInside == Spec => ClearIsolated
  <1> DEFINE Inside(t) == (Clearing(t) /\ pc[t] = "asked" /\ pc'[t] = "served") =>
                             \A s \in Stores : \A k \in FullKeys :
                                (data[s][k] # None /\ data'[s][k] = None) => InNamespace(k, job[t].ns)
  <1>1. ASSUME CallsInv, [Next]_vars, NEW t \in Tasks PROVE Inside(t)
    <2> SUFFICES ASSUME Clearing(t), pc[t] = "asked", pc'[t] = "served", NEW s \in Stores, NEW k \in FullKeys,
                        data[s][k] # None, data'[s][k] = None
                 PROVE  InNamespace(k, job[t].ns)
      OBVIOUS
    <2>1. Types /\ Asks(job[t], req[t], walk[t].s) /\ req[t].s \in Stores /\ job[t].full \in Seq(FullKeys)
      BY <1>1 DEF CallsInv, CallInv, Types, ReqType, JobType
    <2>2. /\ req[t].m \in {"iterator", "delete"} /\ \A i \in DOMAIN job[t].full : InNamespace(job[t].full[i], job[t].ns)
          /\ req[t].m = "delete" => job[t].full # <<>> /\ req[t].keys = <<Head(job[t].full)>>
      BY <2>1 DEF Asks, Clearing
    <2>3. Serve(t)
      BY <1>1, ServedByStore
    <2>4. ServeDelete(t)
      <3>1. data' # data
        OBVIOUS
      <3> QED BY <2>2, <2>3, <3>1 DEF Serve, ServeMissing, ServeReject, ServeRead, ServeHas, ServeWrite,
                                     ServeClear, ServeNext, Serving
    <2>5. Remove(req[t].s, {req[t].keys[i] : i \in DOMAIN req[t].keys}) /\ req[t].m = "delete"
      BY <2>2, <2>4 DEF ServeDelete, Serving
    <2>6. PICK i \in DOMAIN req[t].keys : req[t].keys[i] = k
      BY <2>1, <2>5, RemoveEffect
    <2>7. k = job[t].full[1] /\ 1 \in DOMAIN job[t].full
      <3>1. req[t].keys = <<Head(job[t].full)>> /\ job[t].full # <<>>
        BY <2>2, <2>5
      <3>2. i = 1
        BY <3>1
      <3> QED BY <2>1, <2>6, <3>1, <3>2
    <2> QED BY <2>2, <2>7
  <1>2. CallsInv /\ [Next]_vars => [\A t \in Tasks : Inside(t)]_vars
    BY <1>1
  <1>3. Init => CallsInv
    BY CallsInit
  <1>4. CallsInv /\ [Next]_vars => CallsInv'
    BY CallsStep
  <1> QED BY <1>2, <1>3, <1>4, PTL DEF Spec, ClearIsolated

---------------------------------------------------------------------------
(* The invariant: what the calls have been told *)

\* What a store told a read, and what a row became: as it was, or undefined
\* because it expired.
Sight == [key : FullKeys, row : Rows, over : BOOLEAN]
Became(x, seen) == x = seen.row \/ (x = None /\ Expired(seen.row))
Matches(op, x, seen) == IF op \in HasOps THEN (x => seen.row # None) ELSE Became(x, seen)

\* Rows still to be judged are those the store told last.
Pending(t, rows) ==
    /\ Len(told[t]) = Len(job[t].res) + Len(rows)
    /\ \A i \in 1..Len(rows) : Became(rows[i], told[t][Len(job[t].res) + i])

\* A read was told of its keys in their order, and has answered the first of them.
ToldKeys(t) ==
    \A i \in 1..Len(told[t]) :
        /\ told[t][i] \in Sight /\ i \in 1..Len(job[t].keys)
        /\ \E ns \in Namespaces : told[t][i].key = GetKeyPrefix(job[t].keys[i], ns)

ToldSoFar(t) ==
    /\ ToldKeys(t) /\ Len(job[t].res) <= Len(told[t])
    /\ \A i \in 1..Len(job[t].res) : Matches(job[t].op, job[t].res[i], told[t][i])

ToldReads(t) ==
    /\ ToldSoFar(t)
    /\ (pc[t] = "asked" /\ job[t].stage = "run") => Len(told[t]) = Len(job[t].res)
    /\ (pc[t] = "served" /\ ans[t].is = "rows") => Pending(t, ans[t].v)
    /\ (pc[t] = "served" /\ ans[t].is = "booleans" /\ job[t].stage = "run") =>
          /\ Len(told[t]) = Len(job[t].res) + Len(ans[t].v)
          /\ \A i \in 1..Len(ans[t].v) : ans[t].v[i] => told[t][Len(job[t].res) + i].row # None
    /\ (pc[t] \in {"asked", "served"} /\ job[t].stage = "sweep") => Pending(t, job[t].rows)
    /\ pc[t] = "resolved" => Len(told[t]) = Len(job[t].res)

\* The writes whose answer the call passes on.
Watched(t) == job[t].op = "set" \/ (job[t].op = "setMany" /\ Native(job[t].a, "setMany"))

ToldWrites(t) ==
    /\ job[t].op = "set" => Len(job[t].keys) = 1
    /\ pc[t] = "asked" => told[t] = <<>> /\ job[t].res = <<>>
    /\ (pc[t] = "served" /\ ans[t].is \in {"booleans", "boolean"}) =>
          told[t] = ans[t].v /\ job[t].res = <<>> /\ ans[t].is = "booleans"
    /\ pc[t] = "resolved" => told[t] = job[t].res

ToldInv(t) ==
    /\ (pc[t] = "served" /\ ans[t].is = "undefined") => ~Served(t)
    /\ Served(t) =>
          /\ job[t].op \in ReadOps \cup HasOps => ToldReads(t)
          /\ Watched(t) => ToldWrites(t)
          /\ Resolved(t, KeyOps) => Len(job[t].res) = Len(job[t].keys)

ToldsInv == CallsInv /\ \A t \in Tasks : ToldInv(t)

---------------------------------------------------------------------------
(* The calls and what they were told: each step *)

LEMMA ConcatAt ==
    ASSUME NEW S, NEW a \in Seq(S), NEW b \in Seq(S)
    PROVE  /\ a \o b \in Seq(S) /\ Len(a) \in Nat /\ Len(b) \in Nat /\ Len(a \o b) = Len(a) + Len(b)
           /\ \A i \in 1..Len(a) : (a \o b)[i] = a[i]
           /\ \A i \in 1..Len(b) : (a \o b)[Len(a) + i] = b[i]
           /\ \A i \in 1..(Len(a) + Len(b)) : i \in 1..Len(a) \/ \E m \in 1..Len(b) : i = Len(a) + m
  <1>1. Len(a) \in Nat /\ Len(b) \in Nat
    OBVIOUS
  <1>2. ASSUME NEW i \in 1..(Len(a) + Len(b)), i \notin 1..Len(a) PROVE \E m \in 1..Len(b) : i = Len(a) + m
    <2>1. i - Len(a) \in 1..Len(b) /\ i = Len(a) + (i - Len(a))
      BY <1>1, <1>2
    <2> QED BY <2>1
  <1>3. \A i \in 1..(Len(a) + Len(b)) : i \in 1..Len(a) \/ \E m \in 1..Len(b) : i = Len(a) + m
    BY <1>2
  <1>4. /\ a \o b \in Seq(S) /\ Len(a \o b) = Len(a) + Len(b)
        /\ \A i \in 1..Len(a) : (a \o b)[i] = a[i]
    OBVIOUS
  <1>5. \A i \in 1..Len(b) : (a \o b)[Len(a) + i] = b[i]
    OBVIOUS
  <1> QED BY <1>1, <1>3, <1>4, <1>5

LEMMA ToldType1 ==
    ASSUME Types, NEW t \in Tasks
    PROVE  told[t] \in Seq(ToldType) /\ Len(told[t]) \in Nat /\ DOMAIN told[t] = 1..Len(told[t])
  <1>1. told[t] \in Seq(ToldType)
    BY DEF Types
  <1> QED BY <1>1

\* What is told stays told: time and the other calls do not change it.
LEMMA ToldFrame ==
    ASSUME CallsInv, now' \in Nat, now <= now', native' = native, NEW u \in Tasks, ToldInv(u),
           pc'[u] = pc[u], ans'[u] = ans[u], job'[u] = job[u], told'[u] = told[u]
    PROVE  ToldInv(u)'
  <1> DEFINE n == Len(job[u].res)
             m == Len(told[u])
  <1>1. ASSUME NEW x, NEW seen \in Sight, x = seen.row \/ (x = None /\ Expired(seen.row))
        PROVE  x = seen.row \/ (x = None /\ Expired(seen.row)')
    <2>1. seen.row \in Rows /\ now \in Nat
      BY DEF Sight, CallsInv, Types
    <2>2. seen.row # None /\ seen.row.exp # None => seen.row.exp \in Nat
      BY <2>1 DEF Rows, Data
    <2> QED BY <1>1, <2>1, <2>2 DEF Expired
  <1>2. \A x : \A seen \in Sight : Became(x, seen) => Became(x, seen)'
    BY <1>1 DEF Became
  <1>3. \A x : \A seen \in Sight : \A op : Matches(op, x, seen) => Matches(op, x, seen)'
    BY <1>2 DEF Matches
  <1>4. Served(u)' = Served(u)
    BY DEF Served
  <1>5. m \in Nat /\ n \in Nat /\ job[u].rows \in Seq(Rows)
        /\ (pc[u] = "served" /\ ans[u].is = "rows" => ans[u].v \in Seq(Rows))
    <2>1. m \in Nat
      BY ToldType1 DEF CallsInv
    <2>2. n \in Nat
      BY DEF CallsInv, CallInv, JobShape, Results
    <2>3. job[u].rows \in Seq(Rows)
      BY DEF CallsInv, Types, JobType
    <2>4. pc[u] = "served" /\ ans[u].is = "rows" => ans[u].v \in Seq(Rows)
      BY DEF CallsInv, CallInv, Answers
    <2> QED BY <2>1, <2>2, <2>3, <2>4
  <1>6. ASSUME ToldReads(u) PROVE ToldReads(u)'
    <2>1. ToldKeys(u) /\ \A i \in 1..m : told[u][i] \in Sight
      BY <1>6 DEF ToldReads, ToldSoFar, ToldKeys
    <2>2. ToldKeys(u)'
      BY <2>1 DEF ToldKeys
    <2>3. n <= m
      BY <1>6 DEF ToldReads, ToldSoFar
    <2>4. \A i \in 1..n : Matches(job[u].op, job[u].res[i], told[u][i])'
      <3> SUFFICES ASSUME NEW i \in 1..n PROVE Matches(job[u].op, job[u].res[i], told[u][i])'
        OBVIOUS
      <3>1. Matches(job[u].op, job[u].res[i], told[u][i])
        BY <1>6 DEF ToldReads, ToldSoFar
      <3>2. told[u][i] \in Sight
        <4> HIDE DEF n, m
        <4> QED BY <1>5, <2>1, <2>3
      <3>3. \A x, seen : Matches(job[u].op, x, seen) /\ seen \in Sight => Matches(job[u].op, x, seen)'
        BY <1>3
      <3> QED BY <3>1, <3>2, <3>3
    <2>5. ASSUME NEW rows \in Seq(Rows), Pending(u, rows)
          PROVE  m = n + Len(rows) /\ \A i \in 1..Len(rows) : Became(rows[i], told[u][n + i])'
      <3>1. m = n + Len(rows) /\ \A i \in 1..Len(rows) : Became(rows[i], told[u][n + i])
        BY <2>5 DEF Pending
      <3>2. ASSUME NEW i \in 1..Len(rows) PROVE told[u][n + i] \in Sight
        <4>1. Len(rows) \in Nat
          OBVIOUS
        <4> HIDE DEF n, m
        <4> QED BY <1>5, <2>1, <3>1, <4>1
      <3> QED BY <1>2, <3>1, <3>2
    <2>6. ToldSoFar(u)'
      BY <2>2, <2>3, <2>4 DEF ToldSoFar
    <2>7. (pc[u] = "served" /\ ans[u].is = "rows") => Pending(u, ans[u].v)'
      <3>1. (pc[u] = "served" /\ ans[u].is = "rows") => Pending(u, ans[u].v)
        BY <1>6 DEF ToldReads
      <3> QED BY <1>5, <2>5, <3>1 DEF Pending
    <2>8. (pc[u] \in {"asked", "served"} /\ job[u].stage = "sweep") => Pending(u, job[u].rows)'
      <3>1. (pc[u] \in {"asked", "served"} /\ job[u].stage = "sweep") => Pending(u, job[u].rows)
        BY <1>6 DEF ToldReads
      <3> QED BY <1>5, <2>5, <3>1 DEF Pending
    <2> QED BY <1>6, <2>6, <2>7, <2>8 DEF ToldReads
  <1>7. Watched(u)' = Watched(u) /\ (Watched(u) /\ ToldWrites(u) => ToldWrites(u)')
    BY DEF Watched, ToldWrites, Native
  <1>8. Resolved(u, KeyOps)' = Resolved(u, KeyOps)
    BY DEF Resolved
  <1> QED BY <1>4, <1>6, <1>7, <1>8 DEF ToldInv

\* A call that was entered has been told nothing.
LEMMA ToldEnter ==
    ASSUME NEW t \in Tasks, told'[t] = <<>>, pc'[t] \in {"asked", "resolved"}, job'[t].stage = "run",
           job'[t].op \in KeyOps =>
              /\ job'[t].res = <<>> /\ (job'[t].op \in SingleOps => Len(job'[t].keys) = 1)
              /\ pc'[t] = "resolved" => Len(job'[t].keys) = 0
    PROVE  ToldInv(t)'
  <1> DEFINE none == <<>>
  <1>1. Len(none) = 0 /\ \A i \in 1..Len(none) : FALSE
    OBVIOUS
  <1>2. told'[t] = none /\ (job'[t].op \in KeyOps => job'[t].res = none)
    OBVIOUS
  <1>3. none = <<>>
    OBVIOUS
  <1> HIDE DEF none
  <1>4. job'[t].op \in ReadOps \cup HasOps => ToldReads(t)'
    <2> SUFFICES ASSUME job'[t].op \in ReadOps \cup HasOps PROVE ToldReads(t)'
      OBVIOUS
    <2>1. job'[t].res = none
      BY <1>2 DEF KeyOps
    <2> QED BY <1>1, <1>2, <2>1 DEF ToldReads, ToldSoFar, ToldKeys
  <1>5. Watched(t)' => ToldWrites(t)'
    <2> SUFFICES ASSUME Watched(t)' PROVE ToldWrites(t)'
      OBVIOUS
    <2>1. job'[t].op \in WriteOps /\ (job'[t].op = "set" => job'[t].op \in SingleOps)
      BY DEF Watched, WriteOps, SingleOps
    <2>2. job'[t].res = none /\ (job'[t].op = "set" => Len(job'[t].keys) = 1)
      BY <1>2, <2>1 DEF KeyOps
    <2> QED BY <1>2, <1>3, <2>2 DEF ToldWrites
  <1>6. Resolved(t, KeyOps)' => Len(job'[t].res) = Len(job'[t].keys)
    BY <1>1, <1>2 DEF Resolved
  <1> QED BY <1>4, <1>5, <1>6 DEF ToldInv

\* A step after which the call was told no more, and has answered no more.
LEMMA ToldKept ==
    ASSUME CallsInv, NEW t \in Tasks, ToldInv(t), now' = now, native' = native,
           told'[t] = told[t], job'[t] = job[t],
           \/ pc'[t] = "rejected"
           \/ /\ pc[t] = "asked" /\ pc'[t] = "served" /\ ans'[t].is \notin {"rows", "undefined"}
              /\ ans'[t].is \in {"booleans", "boolean"} =>
                    job[t].op \notin WriteOps /\ (job[t].op \in HasOps \cup ReadOps => job[t].stage = "sweep")
    PROVE  ToldInv(t)'
  <1>1. Served(t)' = Served(t) /\ pc'[t] # "resolved" /\ pc'[t] # "asked"
        /\ (pc'[t] = "served" => pc[t] = "asked" /\ ans'[t].is # "undefined")
    BY DEF Served
  <1>2. ASSUME job[t].op \in ReadOps \cup HasOps, ToldReads(t) PROVE ToldReads(t)'
    <2>1. ToldSoFar(t)'
      <3>1. \A op, x, seen : Matches(op, x, seen)' = Matches(op, x, seen)
        BY DEF Matches, Became, Expired
      <3>2. ToldKeys(t)'
        BY <1>2 DEF ToldReads, ToldSoFar, ToldKeys
      <3> QED BY <1>2, <3>1, <3>2 DEF ToldReads, ToldSoFar
    <2>2. (pc'[t] \in {"asked", "served"} /\ job'[t].stage = "sweep") => Pending(t, job[t].rows)'
      <3>1. (pc'[t] \in {"asked", "served"} /\ job'[t].stage = "sweep") => Pending(t, job[t].rows)
        BY <1>1, <1>2 DEF ToldReads
      <3> QED BY <3>1 DEF Pending, Became, Expired
    <2>3. pc'[t] = "served" => ans'[t].is # "rows"
      BY <1>1
    <2>4. (pc'[t] = "served" /\ ans'[t].is = "booleans") => job'[t].stage = "sweep"
      BY <1>1, <1>2
    <2>5. job'[t].stage = "sweep" => job'[t].stage # "run"
      OBVIOUS
    <2> QED BY <1>1, <2>1, <2>2, <2>3, <2>4, <2>5 DEF ToldReads
  <1>3. ASSUME Watched(t), ToldWrites(t) PROVE ToldWrites(t)'
    <2>1. job[t].op \in WriteOps
      BY <1>3 DEF Watched, WriteOps
    <2> QED BY <1>1, <1>3, <2>1 DEF ToldWrites
  <1>4. Watched(t)' = Watched(t) /\ ~ Resolved(t, KeyOps)'
    BY <1>1 DEF Watched, Native, Resolved
  <1> QED BY <1>1, <1>2, <1>3, <1>4 DEF ToldInv

\* What a call was told before a step that tells it more.
LEMMA ToldBefore ==
    ASSUME CallsInv, NEW t \in Tasks, NEW xs \in Seq(ToldType), Tell(t, xs)
    PROVE  /\ Served(t)' => Served(t)
           /\ Len(told[t]) \in Nat /\ Len(xs) \in Nat /\ Len(told'[t]) = Len(told[t]) + Len(xs)
           /\ told'[t] = told[t] \o xs /\ told[t] \in Seq(ToldType)
           /\ \A i \in 1..Len(told[t]) : told'[t][i] = told[t][i]
           /\ \A i \in 1..Len(xs) : told'[t][Len(told[t]) + i] = xs[i]
           /\ \A i \in 1..Len(told'[t]) : i \in 1..Len(told[t]) \/ \E m \in 1..Len(xs) : i = Len(told[t]) + m
  <1>1. /\ told' \in [Tasks -> Seq(ToldType)] /\ told'[t] = told[t] \o xs /\ told[t] \in Seq(ToldType)
        /\ Len(told[t]) \in Nat /\ DOMAIN told[t] = 1..Len(told[t])
    BY TellEffect, ToldType1 DEF CallsInv
  <1>2. /\ Len(xs) \in Nat /\ Len(told'[t]) = Len(told[t]) + Len(xs)
        /\ \A i \in 1..Len(told[t]) : told'[t][i] = told[t][i]
        /\ \A i \in 1..Len(xs) : told'[t][Len(told[t]) + i] = xs[i]
        /\ \A i \in 1..Len(told'[t]) : i \in 1..Len(told[t]) \/ \E m \in 1..Len(xs) : i = Len(told[t]) + m
    BY <1>1, ConcatAt
  <1>3. DOMAIN told'[t] = 1..Len(told'[t]) /\ Len(told'[t]) \in Nat
    BY <1>1
  <1>4. \A i \in 1..Len(told[t]) : i \in 1..Len(told'[t])
    <2> DEFINE a == Len(told[t])
               b == Len(told'[t])
               c == Len(xs)
    <2>1. a \in Nat /\ b = a + c /\ c \in Nat
      BY <1>1, <1>2
    <2> HIDE DEF a, b, c
    <2>2. \A i \in 1..a : i \in 1..b
      BY <2>1
    <2> QED BY <2>2 DEF a, b
  <1>5. Served(t)' => Served(t)
    BY <1>1, <1>2, <1>3, <1>4 DEF Served
  <1> QED BY <1>1, <1>2, <1>5

\* A method the store does not have: the call was not served.
LEMMA ToldMissing ==
    ASSUME CallsInv, NEW t \in Tasks, ServeMissing(t) PROVE ToldInv(t)'
  <1> DEFINE one == <<None>>
  <1>1. one \in Seq(ToldType) /\ Len(one) = 1 /\ one[1] = None
    BY DEF ToldType
  <1>2. Tell(t, one)
    BY DEF ServeMissing
  <1> HIDE DEF one
  <1>3. /\ Len(told[t]) \in Nat /\ Len(told'[t]) = Len(told[t]) + Len(one)
        /\ told'[t] = told[t] \o one /\ told[t] \in Seq(ToldType)
        /\ \A i \in 1..Len(one) : told'[t][Len(told[t]) + i] = one[i]
    BY <1>1, <1>2, ToldBefore
  <1>4. 1 \in 1..Len(one) /\ told'[t] \in Seq(ToldType)
    BY <1>1, <1>3, ConcatProperties
  <1>5. told'[t][Len(told[t]) + 1] = None
    BY <1>1, <1>3, <1>4
  <1>6. Len(told[t]) + 1 \in DOMAIN told'[t]
    BY <1>1, <1>3, <1>4
  <1>7. ~ Served(t)'
    BY <1>5, <1>6 DEF Served
  <1> QED BY <1>7 DEF ToldInv

\* A read is told what the store holds under the keys it asked for, in their order.
LEMMA ToldSeen ==
    ASSUME CallsInv, NEW t \in Tasks, ToldInv(t), ServeRead(t) \/ ServeHas(t)
    PROVE  ToldInv(t)'
  <1> DEFINE n == Len(job[t].res)
             m == Len(req[t].keys)
             j == job[t]
  <1>1. /\ pc[t] = "asked" /\ req[t].m \in ReadOps \cup HasOps /\ Tell(t, Seen(t))
        /\ \/ req[t].m \in ReadOps /\ Reply(t, "rows", AllRows(t))
           \/ req[t].m \in HasOps /\ Reply(t, "booleans", AllThere(t))
    BY DEF ServeRead, ServeHas, Serving, ReadOps, HasOps
  <1>2. Types /\ CallInv(t) /\ job[t] \in JobType /\ now' = now
    BY <1>1 DEF CallsInv, Types, Reply, fixed
  <1>3. j.op \in ReadOps \cup HasOps /\ j.stage = "run" /\ KeysAsked(j, req[t]) /\ j.op \in KeyOps
        /\ (req[t].m \in HasOps => j.op \in HasOps)
    BY <1>1, <1>2, RequestOf DEF KeyOps
  <1>4. n \in Nat /\ m \in Nat /\ DOMAIN j.keys = 1..Len(j.keys) /\ Len(j.keys) \in Nat /\ n + m <= Len(j.keys)
    BY <1>3, RoomLeft
  <1>5. /\ DOMAIN req[t].keys = 1..m
        /\ \A i \in 1..m : req[t].keys[i] \in FullKeys /\ At(t, i) \in Rows
        /\ AllRows(t) \in Seq(Rows) /\ Len(AllRows(t)) = m
        /\ AllThere(t) \in Seq(BOOLEAN) /\ Len(AllThere(t)) = m
        /\ Seen(t) \in Seq(ToldType) /\ Len(Seen(t)) = m
    BY <1>2, RowsRead
  <1>6. /\ pc'[t] = "served" /\ job'[t] = j /\ now' = now /\ native' = native
        /\ \/ ans'[t].is = "rows" /\ ans'[t].v = AllRows(t)
           \/ ans'[t].is = "booleans" /\ ans'[t].v = AllThere(t) /\ j.op \in HasOps
    <2>1. CASE req[t].m \in ReadOps /\ Reply(t, "rows", AllRows(t))
      <3>1. "rows" \in Kinds /\ AllRows(t) \in Served1
        BY <1>5, AnswerTypes DEF Kinds
      <3>2. pc'[t] = "served" /\ ans'[t] = [is |-> "rows", v |-> AllRows(t)] /\ UNCHANGED <<fixed, req, job>>
        BY <1>2, <2>1, <3>1, ReplyEffect
      <3> QED BY <3>2 DEF fixed
    <2>2. CASE req[t].m \in HasOps /\ Reply(t, "booleans", AllThere(t))
      <3>1. "booleans" \in Kinds /\ AllThere(t) \in Served1
        BY <1>5, AnswerTypes DEF Kinds
      <3>2. pc'[t] = "served" /\ ans'[t] = [is |-> "booleans", v |-> AllThere(t)] /\ UNCHANGED <<fixed, req, job>>
        BY <1>2, <2>2, <3>1, ReplyEffect
      <3> QED BY <1>3, <2>2, <3>2 DEF fixed
    <2> QED BY <1>1, <2>1, <2>2
  <1>7. \A i \in 1..m : /\ Seen(t)[i] \in Sight /\ Seen(t)[i].row = At(t, i) /\ Seen(t)[i].key = req[t].keys[i]
                        /\ AllRows(t)[i] = At(t, i) /\ AllThere(t)[i] = (At(t, i) # None)
    BY <1>5 DEF Seen, Sight, AllRows, AllThere, Expired
  <1>8. /\ Served(t)' => Served(t)
        /\ Len(told[t]) \in Nat /\ Len(told'[t]) = Len(told[t]) + m
        /\ \A i \in 1..Len(told[t]) : told'[t][i] = told[t][i]
        /\ \A i \in 1..m : told'[t][Len(told[t]) + i] = Seen(t)[i]
        /\ \A i \in 1..Len(told'[t]) : i \in 1..Len(told[t]) \/ \E k \in 1..m : i = Len(told[t]) + k
    <2>1. Tell(t, Seen(t)) /\ Seen(t) \in Seq(ToldType)
      BY <1>1, <1>5
    <2>2. /\ Served(t)' => Served(t)
          /\ Len(told[t]) \in Nat /\ Len(told'[t]) = Len(told[t]) + Len(Seen(t))
          /\ \A i \in 1..Len(told[t]) : told'[t][i] = told[t][i]
          /\ \A i \in 1..Len(Seen(t)) : told'[t][Len(told[t]) + i] = Seen(t)[i]
          /\ \A i \in 1..Len(told'[t]) :
                i \in 1..Len(told[t]) \/ \E k \in 1..Len(Seen(t)) : i = Len(told[t]) + k
      BY <2>1, ToldBefore
    <2>3. Len(Seen(t)) = m
      BY <1>5
    <2> HIDE DEF m
    <2> QED BY <2>2, <2>3
  <1>9. ASSUME Served(t)' PROVE ToldReads(t)'
    <2>1. ToldReads(t)
      BY <1>3, <1>8, <1>9 DEF ToldInv
    <2>2. ToldSoFar(t) /\ ToldKeys(t) /\ Len(told[t]) = n
      BY <1>1, <1>3, <2>1 DEF ToldReads, ToldSoFar
    <2>3. \A i \in 1..m : told'[t][n + i] = Seen(t)[i]
      BY <1>8, <2>2
    <2>4. ToldKeys(t)'
      <3> SUFFICES ASSUME NEW i \in 1..Len(told'[t])
                   PROVE  /\ told'[t][i] \in Sight /\ i \in 1..Len(j.keys)
                          /\ \E ns \in Namespaces : told'[t][i].key = GetKeyPrefix(j.keys[i], ns)
        BY <1>6 DEF ToldKeys
      <3>1. CASE i \in 1..Len(told[t])
        BY <1>8, <2>2, <3>1 DEF ToldKeys
      <3>2. ASSUME NEW k \in 1..m, i = n + k
            PROVE  /\ told'[t][i] \in Sight /\ i \in 1..Len(j.keys)
                   /\ \E ns \in Namespaces : told'[t][i].key = GetKeyPrefix(j.keys[i], ns)
        <4>1. told'[t][i] = Seen(t)[k]
          BY <2>3, <3>2
        <4>2. i \in 1..Len(j.keys)
          <5> HIDE DEF n, m
          <5> QED BY <1>4, <3>2
        <4>3. \E ns \in Namespaces : req[t].keys[k] = GetKeyPrefix(j.keys[i], ns)
          BY <1>3, <1>5, <3>2 DEF KeysAsked
        <4> QED BY <1>7, <4>1, <4>2, <4>3
      <3> QED BY <1>8, <2>2, <3>1, <3>2
    <2>5. ToldSoFar(t)'
      <3>1. n <= Len(told'[t])
        <4> HIDE DEF n, m
        <4> QED BY <1>4, <1>8, <2>2
      <3>2. \A i \in 1..n : told'[t][i] = told[t][i] /\ Matches(j.op, j.res[i], told[t][i])
        BY <1>8, <2>2 DEF ToldSoFar
      <3>3. \A op, x, seen : Matches(op, x, seen)' = Matches(op, x, seen)
        BY <1>2 DEF Matches, Became, Expired
      <3> QED BY <1>6, <2>4, <3>1, <3>2, <3>3 DEF ToldSoFar
    <2>6. ans'[t].is = "rows" => Pending(t, ans[t].v)'
      <3> SUFFICES ASSUME ans'[t].is = "rows" PROVE Pending(t, ans[t].v)'
        OBVIOUS
      <3>1. ans'[t].v = AllRows(t) /\ Len(told'[t]) = n + Len(AllRows(t))
        BY <1>5, <1>6, <1>8, <2>2
      <3>2. \A i \in 1..m : AllRows(t)[i] = told'[t][n + i].row
        BY <1>7, <2>3
      <3>3. /\ Len(told'[t]) = Len(job'[t].res) + Len(ans'[t].v)
            /\ \A i \in 1..Len(ans'[t].v) : ans'[t].v[i] = told'[t][Len(job'[t].res) + i].row
        BY <1>5, <1>6, <3>1, <3>2
      <3> QED BY <3>3 DEF Pending, Became
    <2>7. ans'[t].is = "booleans" =>
             /\ Len(told'[t]) = n + Len(ans'[t].v)
             /\ \A i \in 1..Len(ans'[t].v) : ans'[t].v[i] => told'[t][n + i].row # None
      <3> SUFFICES ASSUME ans'[t].is = "booleans"
                   PROVE  /\ Len(told'[t]) = n + Len(ans'[t].v)
                          /\ \A i \in 1..Len(ans'[t].v) : ans'[t].v[i] => told'[t][n + i].row # None
        OBVIOUS
      <3>1. ans'[t].v = AllThere(t) /\ Len(told'[t]) = n + Len(AllThere(t))
        BY <1>5, <1>6, <1>8, <2>2
      <3>2. \A i \in 1..m : AllThere(t)[i] = (told'[t][n + i].row # None)
        BY <1>7, <2>3
      <3> QED BY <1>5, <3>1, <3>2
    <2>8. job'[t].stage = "run" /\ pc'[t] = "served"
      BY <1>3, <1>6
    <2> QED BY <1>6, <2>5, <2>6, <2>7, <2>8 DEF ToldReads
  <1>10. ~ Watched(t)' /\ ~ Resolved(t, KeyOps)' /\ ~ (pc'[t] = "served" /\ ans'[t].is = "undefined")
    BY <1>3, <1>6 DEF Watched, Resolved, ReadOps, HasOps
  <1> QED BY <1>9, <1>10 DEF ToldInv

\* What a write was answered is what it is told.
LEMMA ToldWritten ==
    ASSUME CallsInv, NEW t \in Tasks, ToldInv(t), ServeWrite(t)
    PROVE  ToldInv(t)'
  <1>1. PICK oks \in [DOMAIN req[t].keys -> BOOLEAN] :
          Tell(t, oks) /\ (Reply(t, "booleans", oks) \/ RejectsAfter(t))
    BY DEF ServeWrite
  <1>2. pc[t] = "asked" /\ req[t].m \in WriteOps /\ Types /\ CallInv(t)
    BY DEF ServeWrite, Serving, WriteOps, CallsInv
  <1>3. job[t].op \in WriteOps /\ job[t].stage = "run"
    BY <1>2, RequestOf
  <1>4. oks \in Seq(BOOLEAN) /\ oks \in Seq(ToldType)
    <2>1. DOMAIN req[t].keys = 1..Len(req[t].keys) /\ Len(req[t].keys) \in Nat
      BY <1>2, RowsRead
    <2>2. oks \in [1..Len(req[t].keys) -> BOOLEAN]
      BY <2>1
    <2>3. oks \in Seq(BOOLEAN)
      BY <2>1, <2>2, SeqIntro
    <2>4. BOOLEAN \subseteq ToldType
      BY DEF ToldType
    <2> QED BY <2>3, <2>4, SeqMonotonic
  <1>5. /\ pc'[t] = "served" /\ job'[t] = job[t] /\ native' = native
        /\ \/ ans'[t].is = "booleans" /\ ans'[t].v = oks
           \/ ans'[t].is = "rejected"
    <2>1. "booleans" \in Kinds /\ oks \in Served1
      BY <1>4, AnswerTypes DEF Kinds
    <2>2. "rejected" \in Kinds /\ None \in Served1
      BY AnswerTypes DEF Kinds
    <2>3. CASE Reply(t, "booleans", oks)
      <3>1. pc'[t] = "served" /\ ans'[t] = [is |-> "booleans", v |-> oks] /\ UNCHANGED <<fixed, req, job>>
        BY <1>2, <2>1, <2>3, ReplyEffect
      <3> QED BY <3>1 DEF fixed
    <2>4. CASE Reply(t, "rejected", None)
      <3>1. pc'[t] = "served" /\ ans'[t] = [is |-> "rejected", v |-> None] /\ UNCHANGED <<fixed, req, job>>
        BY <1>2, <2>2, <2>4, ReplyEffect
      <3> QED BY <3>1 DEF fixed
    <2> QED BY <1>1, <2>3, <2>4 DEF RejectsAfter
  <1>6. (Served(t)' => Served(t)) /\ told'[t] = told[t] \o oks
    BY <1>1, <1>4, ToldBefore
  <1>7. ASSUME Served(t)', Watched(t)' PROVE ToldWrites(t)'
    <2>1. ToldWrites(t)
      BY <1>5, <1>6, <1>7 DEF ToldInv, Watched, Native
    <2>2. /\ job[t].op = "set" => Len(job[t].keys) = 1
          /\ told[t] = <<>> /\ job[t].res = <<>>
      BY <1>2, <2>1 DEF ToldWrites
    <2>3. told'[t] = oks
      BY <1>4, <1>6, <2>2, ConcatEmptySeq
    <2> QED BY <1>5, <2>2, <2>3 DEF ToldWrites
  <1>8. job'[t].op \notin ReadOps \cup HasOps /\ ~ Resolved(t, KeyOps)'
        /\ ~ (pc'[t] = "served" /\ ans'[t].is = "undefined")
    BY <1>3, <1>5 DEF Resolved, ReadOps, HasOps, WriteOps
  <1> QED BY <1>7, <1>8 DEF ToldInv

LEMMA ShapedAt ==
    ASSUME NEW op \in ReadOps \cup HasOps, NEW r \in Results(op), NEW rows \in Seq(Rows)
    PROVE  LET all == r \o Shape(op, rows)
           IN  /\ Len(all) = Len(r) + Len(rows)
               /\ \A i \in 1..Len(r) : all[i] = r[i]
               /\ \A i \in 1..Len(rows) : all[Len(r) + i] = IF op \in HasOps THEN rows[i] # None ELSE rows[i]
  <1> DEFINE n == Len(r) + Len(rows)
  <1>1. Len(r) + Len(rows) <= n
    <2>1. Len(r) \in Nat
      BY DEF Results
    <2> QED BY <2>1
  <1> HIDE DEF n
  <1> QED BY <1>1, ShapedResults

\* Rows are handed on as they were told, or undefined where they expired.
LEMMA ToldJudged ==
    ASSUME CallsInv, NEW t \in Tasks, now' = now, native' = native, told'[t] = told[t],
           job[t].op \in ReadOps \cup HasOps, ToldSoFar(t),
           NEW rows \in Seq(Rows), NEW full \in Seq(FullKeys), Len(full) = Len(rows), Pending(t, rows),
           Native(job[t].a, job[t].op) => Len(job[t].res) + Len(rows) = Len(job[t].keys),
           SameCall(t), AllHanded(t, rows) \/ Stopped(t, rows, full)
    PROVE  ToldInv(t)'
  <1> DEFINE r == job[t].res
             n == Len(r)
             op == job[t].op
             m == Len(rows)
             x == told[t]
  <1>1. r \in Results(op) /\ job'[t].op = op /\ job'[t].keys = job[t].keys /\ job'[t].a = job[t].a
        /\ op \notin WriteOps /\ op \in KeyOps
    BY DEF CallsInv, CallInv, JobShape, SameCall, ReadOps, HasOps, WriteOps, KeyOps
  <1>2. n \in Nat /\ m \in Nat /\ Len(x) = n + m /\ \A i \in 1..m : Became(rows[i], x[n + i])
    <2>1. n \in Nat
      BY <1>1 DEF Results
    <2> QED BY <2>1 DEF Pending
  <1>3. \A i \in 1..n : Matches(op, r[i], x[i])
    BY DEF ToldSoFar
  <1>5. ToldKeys(t)'
    BY <1>1 DEF ToldSoFar, ToldKeys
  <1>6. ASSUME NEW some \in Seq(Rows), NEW k, Len(some) = k, k <= m, \A i \in 1..k : some[i] = rows[i],
               job'[t].res = r \o Shape(op, some)
        PROVE  Len(job'[t].res) = n + k /\ ToldSoFar(t)'
    <2>1. k \in Nat /\ n + k <= n + m
      <3>1. k \in Nat
        BY <1>6
      <3> HIDE DEF n, m
      <3> QED BY <1>2, <1>6, <3>1
    <2> DEFINE all == r \o Shape(op, some)
    <2>3. /\ Len(all) = Len(r) + Len(some)
          /\ \A i \in 1..Len(r) : all[i] = r[i]
          /\ \A i \in 1..Len(some) : all[Len(r) + i] = IF op \in HasOps THEN some[i] # None ELSE some[i]
      <3>1. op \in ReadOps \cup HasOps /\ r \in Results(op)
        BY <1>1
      <3> HIDE DEF r, op, m
      <3> QED BY <3>1, ShapedAt
    <2>4. \A i \in 1..k : Became(some[i], x[n + i])
      <3> HIDE DEF n
      <3>1. \A i \in 1..k : i \in 1..m
        BY <1>2, <1>6, <2>1
      <3> QED BY <1>2, <1>6, <3>1
    <2>5. \A i \in 1..k : Matches(op, all[n + i], x[n + i])
      BY <1>6, <2>3, <2>4 DEF Matches, Became
    <2>6. \A i \in 1..n : Matches(op, all[i], x[i])
      BY <1>3, <2>3
    <2>7. Len(all) = n + k
      BY <1>6, <2>3
    <2> HIDE DEF n, m, all, x, op, r
    <2>8. ASSUME NEW i \in 1..(n + k) PROVE Matches(op, all[i], x[i])
      <3>1. CASE i \in 1..n
        BY <2>6, <3>1
      <3>2. CASE i \notin 1..n
        <4>1. i - n \in 1..k /\ n + (i - n) = i
          BY <1>2, <2>1, <3>2
        <4> QED BY <2>5, <4>1
      <3> QED BY <3>1, <3>2
    <2>9. n + k <= Len(x)
      BY <1>2, <2>1
    <2>10. job'[t].res = all
      BY <1>6 DEF all, r, op
    <2>11. job'[t].op = op /\ told'[t] = x
      BY <1>1 DEF op, x
    <2>12. ASSUME NEW i \in 1..Len(job'[t].res) PROVE Matches(job[t].op, job[t].res[i], told[t][i])'
      <3>1. Matches(op, job'[t].res[i], told'[t][i])
        BY <2>7, <2>8, <2>10, <2>11, <2>12
      <3> QED BY <2>11, <3>1 DEF Matches, Became, Expired
    <2>13. Len(job'[t].res) <= Len(told'[t])
      BY <2>7, <2>9, <2>10, <2>11
    <2> QED BY <1>5, <2>7, <2>10, <2>12, <2>13 DEF ToldSoFar
  <1>7. CASE AllHanded(t, rows)
    <2>1. /\ job'[t].res = r \o Shape(op, rows) /\ job'[t].stage = "run"
          /\ pc'[t] \in {"asked", "resolved"}
          /\ pc'[t] = "resolved" => Native(job[t].a, op) \/ Len(job'[t].res) = Len(job[t].keys)
      BY <1>7 DEF AllHanded, GoesOn
    <2>2. Len(job'[t].res) = n + m /\ ToldSoFar(t)'
      <3>1. Len(rows) = m /\ m <= m /\ \A i \in 1..m : rows[i] = rows[i]
        BY <1>2
      <3> HIDE DEF n, m, r, op
      <3> QED BY <1>6, <2>1, <3>1
    <2>3. Len(told'[t]) = Len(job'[t].res)
      BY <1>2, <2>2
    <2>4. ToldReads(t)'
      BY <2>1, <2>2, <2>3 DEF ToldReads
    <2>5. Resolved(t, KeyOps)' => Len(job'[t].res) = Len(job'[t].keys)
      BY <1>1, <2>1, <2>2 DEF Resolved
    <2> QED BY <1>1, <2>1, <2>4, <2>5 DEF ToldInv, Watched, WriteOps
  <1>8. CASE Stopped(t, rows, full)
    <2>1. PICK e \in 1..m :
            /\ Expired(rows[e]) /\ job'[t].res = r \o Shape(op, SubSeq(rows, 1, e - 1))
            /\ job'[t].rows = Left(rows, e) /\ job'[t].stage = "sweep" /\ pc'[t] = "asked"
      BY <1>8 DEF Stopped
    <2> DEFINE some == SubSeq(rows, 1, e - 1)
               left == Left(rows, e)
    <2>2. /\ some \in Seq(Rows) /\ Len(some) = e - 1 /\ \A i \in 1..(e - 1) : some[i] = rows[i]
          /\ left \in Seq(Rows) /\ Len(left) = m - e + 1 /\ left[1] = None
          /\ \A i \in 2..(m - e + 1) : left[i] = rows[e + i - 1]
      <3> HIDE DEF r, op, n, x
      <3>1. /\ some \in Seq(Rows) /\ Len(some) = e - 1
            /\ left \in Seq(Rows) /\ Len(left) = m - e + 1 /\ left[1] = None
        BY LeftType
      <3>2. \A i \in 1..(e - 1) : some[i] = rows[i]
        BY LeftType
      <3>3. \A i \in 2..(m - e + 1) : left[i] = rows[e + i - 1]
        BY LeftType
      <3> QED BY <3>1, <3>2, <3>3
    <2> HIDE DEF some, left
    <2>3. e - 1 <= m /\ job'[t].res = r \o Shape(op, some)
      <3>1. job'[t].res = r \o Shape(op, some)
        BY <2>1 DEF some
      <3> HIDE DEF m
      <3> QED BY <1>2, <3>1
    <2>4. Len(job'[t].res) = n + (e - 1) /\ ToldSoFar(t)'
      BY <1>6, <2>2, <2>3
    <2>5. ASSUME NEW i \in 1..(m - e + 1) PROVE Became(left[i], x[n + (e - 1) + i])
      <3> HIDE DEF m, n, x
      <3>1. CASE i = 1
        <4>1. x[n + (e - 1) + i] = x[n + e]
          BY <1>2, <3>1
        <4>2. Became(rows[e], x[n + e]) /\ left[i] = None
          BY <1>2, <2>2, <3>1
        <4>3. Expired(rows[e]) /\ rows[e] # None
          BY <2>1 DEF Expired
        <4> QED BY <4>1, <4>2, <4>3 DEF Became
      <3>2. CASE i # 1
        <4>1. i \in 2..(m - e + 1) /\ e + i - 1 \in 1..m /\ n + (e - 1) + i = n + (e + i - 1)
          BY <1>2, <3>2
        <4> QED BY <1>2, <2>2, <4>1
      <3> QED BY <3>1, <3>2
    <2>6. Len(x) = n + (e - 1) + Len(left)
      <3> HIDE DEF m, n, x
      <3> QED BY <1>2, <2>2
    <2>7. Pending(t, job[t].rows)'
      <3>1. job'[t].rows = left /\ told'[t] = x
        BY <2>1 DEF left
      <3>2. \A i \in 1..Len(left) : Became(left[i], x[n + (e - 1) + i])
        BY <2>2, <2>5
      <3> HIDE DEF n, m, x
      <3>3. /\ Len(told'[t]) = Len(job'[t].res) + Len(job'[t].rows)
            /\ \A i \in 1..Len(job'[t].rows) : Became(job'[t].rows[i], told'[t][Len(job'[t].res) + i])
        BY <2>4, <2>6, <3>1, <3>2
      <3> QED BY <3>3 DEF Pending, Became, Expired
    <2>8. ToldReads(t)'
      BY <2>1, <2>4, <2>7 DEF ToldReads
    <2> QED BY <1>1, <2>1, <2>8 DEF ToldInv, Watched, Resolved, WriteOps
  <1> QED BY <1>7, <1>8

LEMMA ToldRows ==
    ASSUME CallsInv, NEW t \in Tasks, ToldInv(t), GotRows(t) \/ Swept(t)
    PROVE  ToldInv(t)'
  <1>1. UNCHANGED <<fixed, told>>
    BY DEF GotRows, Swept, Resume
  <1>2. Served(t)' = Served(t) /\ now' = now /\ native' = native /\ told'[t] = told[t]
    BY <1>1 DEF Served, fixed
  <1>3. CASE GotRows(t)
    <2>1. /\ pc[t] = "served" /\ ans[t].is = "rows" /\ job[t].stage = "run"
          /\ job[t].op \in ReadOps \cup HasOps /\ KeysAsked(job[t], req[t]) /\ CallInv(t)' /\ SameCall(t)
          /\ ans[t].v \in Seq(Rows) /\ Len(ans[t].v) = Len(req[t].keys)
          /\ AllHanded(t, ans[t].v) \/ Stopped(t, ans[t].v, req[t].keys)
      BY <1>3, GotRowsInv
    <2>2. pc'[t] \in {"asked", "resolved"}
      BY <2>1 DEF AllHanded, Stopped, GoesOn
    <2>3. CASE ~ Served(t)
      BY <1>2, <2>2, <2>3 DEF ToldInv
    <2>4. CASE Served(t)
      <3>1. ToldSoFar(t) /\ Pending(t, ans[t].v)
        BY <2>1, <2>4 DEF ToldInv, ToldReads
      <3>2. Native(job[t].a, job[t].op) => Len(job[t].res) + Len(ans[t].v) = Len(job[t].keys)
        <4> SUFFICES ASSUME Native(job[t].a, job[t].op)
                     PROVE  Len(job[t].res) + Len(ans[t].v) = Len(job[t].keys)
          OBVIOUS
        <4>1. job[t].res = <<>> /\ Len(req[t].keys) = Len(job[t].keys) /\ Len(job[t].keys) \in Nat
          <5>1. job[t].op \in KeyOps
            BY <2>1 DEF KeyOps
          <5> QED BY <2>1, <5>1, RoomLeft
        <4>2. Len(job[t].res) = 0
          BY <4>1
        <4> QED BY <2>1, <4>1, <4>2
      <3>3. req[t].keys \in Seq(FullKeys)
        BY RowsRead DEF CallsInv
      <3> QED BY <1>2, <2>1, <3>1, <3>2, <3>3, ToldJudged
    <2> QED BY <2>3, <2>4
  <1>4. CASE Swept(t)
    <2>1. /\ pc[t] = "served" /\ job[t].stage = "sweep" /\ job[t].op \in ReadOps \cup HasOps
          /\ RowsLeft(job[t]) /\ SameCall(t) /\ job[t].rows \in Seq(Rows) /\ job[t].full \in Seq(FullKeys)
          /\ AllHanded(t, job[t].rows) \/ Stopped(t, job[t].rows, job[t].full)
      BY <1>4, SweptInv
    <2>2. pc'[t] \in {"asked", "resolved"}
      BY <2>1 DEF AllHanded, Stopped, GoesOn
    <2>3. CASE ~ Served(t)
      BY <1>2, <2>2, <2>3 DEF ToldInv
    <2>4. CASE Served(t)
      <3>1. ToldSoFar(t) /\ Pending(t, job[t].rows)
        BY <2>1, <2>4 DEF ToldInv, ToldReads
      <3>2. /\ Native(job[t].a, job[t].op) => Len(job[t].res) + Len(job[t].rows) = Len(job[t].keys)
            /\ Len(job[t].full) = Len(job[t].rows)
        BY <2>1 DEF RowsLeft
      <3> QED BY <1>2, <2>1, <3>1, <3>2, ToldJudged
    <2> QED BY <2>3, <2>4
  <1> QED BY <1>3, <1>4

\* Booleans are handed on as they were answered.
LEMMA ToldBooleans ==
    ASSUME CallsInv, NEW t \in Tasks, ToldInv(t), GotBooleans(t)
    PROVE  ToldInv(t)'
  <1> DEFINE r == job[t].res
             b == Booleans(t)
             n == Len(r)
             m == Len(b)
             x == told[t]
             op == job[t].op
             all == r \o b
  <1>1. /\ pc[t] = "served" /\ ans[t].is \in {"booleans", "boolean"} /\ UNCHANGED <<fixed, told>>
        /\ op \in KeyOps \ ReadOps /\ job[t].stage = "run" /\ KeysAsked(job[t], req[t])
        /\ b \in Seq(BOOLEAN) /\ m = Len(req[t].keys)
    BY BooleansType DEF GotBooleans, Resume
  <1>2. /\ GoesOn(t) /\ native' = native /\ job'[t].res = all /\ job'[t].stage = "run" /\ CallInv(t)'
    BY GotBooleansInv
  <1>3. Served(t)' = Served(t) /\ now' = now /\ told'[t] = x
    BY <1>1 DEF Served, fixed
  <1>4. /\ job'[t].op = op /\ job'[t].keys = job[t].keys /\ job'[t].a = job[t].a
        /\ pc'[t] \in {"asked", "resolved"}
        /\ pc'[t] = "asked" => ~Native(job[t].a, op)
        /\ pc'[t] = "resolved" => Native(job[t].a, op) \/ Len(all) = Len(job[t].keys)
    BY <1>2 DEF GoesOn, SameCall
  <1>5. r \in Seq(BOOLEAN)
    BY <1>1 DEF CallsInv, CallInv, JobShape, Results
  <1>6. /\ n \in Nat /\ m \in Nat /\ Len(all) = n + m
        /\ \A i \in 1..n : all[i] = r[i]
        /\ \A i \in 1..m : all[n + i] = b[i]
        /\ \A i \in 1..(n + m) : i \in 1..n \/ \E k \in 1..m : i = n + k
    <2>1. r \in Seq(BOOLEAN) /\ b \in Seq(BOOLEAN)
      BY <1>1, <1>5
    <2> HIDE DEF r, b
    <2>2. n \in Nat /\ m \in Nat /\ Len(all) = n + m /\ \A i \in 1..n : all[i] = r[i]
      BY <2>1, ConcatAt
    <2>3. \A i \in 1..m : all[n + i] = b[i]
      <3>1. ASSUME NEW i \in 1..Len(b) PROVE (r \o b)[Len(r) + i] = b[i]
        BY <2>1, ConcatLater
      <3> QED BY <3>1
    <2>4. \A i \in 1..(n + m) : i \in 1..n \/ \E k \in 1..m : i = n + k
      <3> HIDE DEF n, m
      <3>1. ASSUME NEW i \in 1..(n + m), i \notin 1..n PROVE \E k \in 1..m : i = n + k
        <4>1. i - n \in 1..m /\ i = n + (i - n)
          BY <2>2, <3>1
        <4> QED BY <4>1
      <3> QED BY <3>1
    <2> QED BY <2>2, <2>3, <2>4
  <1>7. ans[t].is = "boolean" => op \in DeleteOps
    <2> SUFFICES ASSUME ans[t].is = "boolean" PROVE op \in DeleteOps
      OBVIOUS
    <2>1. Types /\ CallInv(t) /\ req[t].m \in DeleteOps
      BY <1>1 DEF CallsInv, CallInv, Answers, DeleteOps
    <2>2. op # "clear"
      BY <1>1 DEF KeyOps, ReadOps, HasOps, WriteOps, DeleteOps
    <2> QED BY <1>1, <2>1, <2>2, RequestOf
  <1>8. (op \in HasOps \/ Watched(t)) => ans[t].is = "booleans" /\ b = ans[t].v
    BY <1>1, <1>7 DEF Booleans, Watched, HasOps, DeleteOps
  <1>9. ASSUME Served(t), op \in HasOps PROVE ToldReads(t)'
    <2>1. ToldReads(t) /\ ans[t].is = "booleans" /\ b = ans[t].v
      BY <1>8, <1>9 DEF ToldInv
    <2>2. /\ Len(x) = n + m /\ \A i \in 1..m : b[i] => x[n + i].row # None
          /\ ToldKeys(t) /\ \A i \in 1..n : r[i] => x[i].row # None
      BY <1>1, <1>9, <2>1 DEF ToldReads, ToldSoFar, Matches
    <2>3. ToldKeys(t)'
      BY <1>3, <1>4, <2>2 DEF ToldKeys
    <2>4. \A i \in 1..Len(all) : all[i] => x[i].row # None
      <3> HIDE DEF all, r, b, n, m, x, op
      <3> QED BY <1>6, <2>2
    <2>5. Len(all) <= Len(x) /\ Len(all) = Len(x)
      <3> HIDE DEF all, r, b, n, m, x, op
      <3> QED BY <1>6, <2>2
    <2>6. ToldSoFar(t)'
      <3> HIDE DEF all, r, b, n, m, x
      <3> QED BY <1>2, <1>3, <1>4, <1>9, <2>3, <2>4, <2>5 DEF ToldSoFar, Matches
    <2> HIDE DEF all, r, b, n, m, x
    <2> QED BY <1>2, <1>3, <1>4, <2>5, <2>6 DEF ToldReads
  <1>10. ASSUME Served(t), Watched(t) PROVE ToldWrites(t)'
    <2>1. /\ op = "set" => Len(job[t].keys) = 1
          /\ x = b /\ r = <<>>
      BY <1>1, <1>8, <1>10 DEF ToldInv, ToldWrites
    <2>2. all = b
      BY <1>1, <2>1, ConcatEmptySeq
    <2>3. pc'[t] # "asked"
      <3>1. CASE op = "set"
        <4>1. Len(all) = 1 /\ Len(job'[t].keys) = 1
          <5>1. Len(req[t].keys) = 1
            BY <1>1, <3>1 DEF KeysAsked, Native, SingleOps
          <5> QED BY <1>1, <1>4, <2>1, <2>2, <3>1, <5>1
        <4>2. pc'[t] = "asked" => Len(job'[t].res) < Len(job'[t].keys)
          <5> SUFFICES ASSUME pc'[t] = "asked" PROVE Len(job'[t].res) < Len(job'[t].keys)
            OBVIOUS
          <5>1. Asks(job[t], req[t], walk[t].s)'
            BY <1>2 DEF CallInv
          <5>2. job'[t].op \in KeyOps /\ job'[t].stage = "run" /\ ~Native(job[t].a, job[t].op)'
            BY <1>1, <1>2, <1>4 DEF Native
          <5>3. KeysAsked(job[t], req[t])'
            BY <5>1, <5>2 DEF Asks
          <5> QED BY <5>2, <5>3 DEF KeysAsked
        <4> QED BY <1>2, <4>1, <4>2
      <3>2. CASE op # "set"
        BY <1>4, <1>10, <3>2 DEF Watched
      <3> QED BY <3>1, <3>2
    <2> HIDE DEF b, all, x
    <2> QED BY <1>2, <1>3, <1>4, <2>1, <2>2, <2>3 DEF ToldWrites
  <1>11. Resolved(t, KeyOps)' => Len(job'[t].res) = Len(job'[t].keys)
    <2> SUFFICES ASSUME pc'[t] = "resolved" PROVE Len(all) = Len(job[t].keys)
      BY <1>2, <1>4 DEF Resolved
    <2>1. CASE Native(job[t].a, op)
      <3>1. r = <<>> /\ m = Len(job[t].keys)
        BY <1>1, <2>1 DEF KeysAsked
      <3>2. all = b
        BY <1>1, <3>1, ConcatEmptySeq
      <3> QED BY <3>1, <3>2
    <2>2. CASE ~Native(job[t].a, op)
      BY <1>4, <2>2
    <2> QED BY <2>1, <2>2
  <1>12. Watched(t)' = Watched(t) /\ job'[t].op \notin ReadOps
    BY <1>1, <1>2, <1>4 DEF Watched, Native
  <1> QED BY <1>3, <1>4, <1>9, <1>10, <1>11, <1>12 DEF ToldInv

\* Of the operations on keys a step goes on with, those that pass on no answer of the store.
LEMMA ToldOther ==
    ASSUME CallsInv, NEW t \in Tasks, ToldInv(t), DeleteCaught(t) \/ GotUndefined(t)
    PROVE  ToldInv(t)'
  <1>1. UNCHANGED told /\ GoesOn(t) /\ job'[t].op = job[t].op /\ job'[t].keys = job[t].keys
        /\ pc'[t] \in {"asked", "resolved"}
    BY DeleteCaughtInv, GotUndefinedInv DEF DeleteCaught, GotUndefined, Resume, GoesOn, SameCall
  <1>2. Served(t)' = Served(t)
    BY <1>1 DEF Served
  <1>3. CASE GotUndefined(t)
    <2>1. ~ Served(t)
      BY <1>3 DEF GotUndefined, Resume, ToldInv
    <2> QED BY <1>1, <1>2, <2>1 DEF ToldInv
  <1>4. CASE DeleteCaught(t)
    <2>1. job[t].op = "deleteMany" /\ ~Native(job[t].a, job[t].op)
      BY <1>4 DEF DeleteCaught, Catches
    <2>2. pc'[t] = "resolved" => Len(job'[t].res) = Len(job'[t].keys)
      BY <1>1, <2>1 DEF GoesOn
    <2> QED BY <1>1, <2>1, <2>2 DEF ToldInv, Watched, Resolved, ReadOps, HasOps
  <1> QED BY <1>3, <1>4

\* A walk passes on nothing the invariant speaks of.
LEMMA ToldWalk ==
    ASSUME NEW t \in Tasks, job'[t].op \in {"clear", "iterator"}, pc'[t] # "served"
    PROVE  ToldInv(t)'
  BY DEF ToldInv, Watched, Resolved, KeyOps, ReadOps, HasOps, WriteOps, DeleteOps

\* The other answers of a store.
LEMMA ToldServed ==
    ASSUME CallsInv, NEW t \in Tasks, ToldInv(t),
           ServeReject(t) \/ ServeDelete(t) \/ ServeClear(t) \/ ServeNext(t)
    PROVE  ToldInv(t)'
  <1>1. /\ Types /\ CallInv(t) /\ ans \in [Tasks -> AnsType] /\ pc[t] = "asked" /\ told' = told
        /\ pc \in [Tasks -> Steps]
    BY DEF CallsInv, Types, ServeReject, ServeDelete, ServeClear, ServeNext, Serving
  <1>2. \E is, v : /\ Reply(t, is, v) /\ is \notin {"rows", "undefined"}
                   /\ is \in {"booleans", "boolean"} => req[t].m \in DeleteOps
    <2>1. CASE ServeReject(t)
      BY <2>1 DEF ServeReject
    <2>2. CASE ServeDelete(t)
      BY <2>2 DEF ServeDelete, RejectsAfter, Serving, DeleteOps
    <2>3. CASE ServeClear(t)
      BY <2>3 DEF ServeClear
    <2>4. CASE ServeNext(t)
      <3>1. CASE Reply(t, "done", None)
        BY <3>1
      <3>2. CASE \E k : Reply(t, "entry", [key |-> k, row |-> data[req[t].s][k]])
        BY <3>2
      <3> QED BY <2>4, <3>1, <3>2 DEF ServeNext
    <2> QED BY <2>1, <2>2, <2>3, <2>4
  <1>3. PICK is, v : /\ Reply(t, is, v) /\ is \notin {"rows", "undefined"}
                     /\ is \in {"booleans", "boolean"} => req[t].m \in DeleteOps
    BY <1>2
  <1>4. pc'[t] = "served" /\ ans'[t].is = is /\ now' = now /\ native' = native /\ job' = job
    <2>1. pc' = Set(pc, t, "served") /\ ans' = Set(ans, t, [is |-> is, v |-> v])
          /\ UNCHANGED <<fixed, req, job>>
      BY <1>3 DEF Reply
    <2>2. pc'[t] = "served" /\ ans'[t] = [is |-> is, v |-> v]
      BY <1>1, <2>1 DEF Set
    <2> QED BY <2>1, <2>2 DEF fixed
  <1>5. is \in {"booleans", "boolean"} =>
           job[t].op \notin WriteOps /\ (job[t].op \in HasOps \cup ReadOps => job[t].stage = "sweep")
    <2> SUFFICES ASSUME req[t].m \in DeleteOps
                 PROVE  job[t].op \notin WriteOps /\ (job[t].op \in HasOps \cup ReadOps => job[t].stage = "sweep")
      BY <1>3
    <2>1. job[t].stage = "sweep" \/ job[t].op = "clear" \/ job[t].op \in DeleteOps
      BY <1>1, RequestOf
    <2>2. job[t].stage = "sweep" => job[t].op \in ReadOps \cup HasOps \cup {"iterator"}
      BY <1>1 DEF CallInv, JobShape
    <2> QED BY <2>1, <2>2 DEF ReadOps, HasOps, WriteOps, DeleteOps
  <1> QED BY <1>1, <1>3, <1>4, <1>5, ToldKept

LEMMA ToldStep ==
    ASSUME CallsInv, NEW t \in Tasks, ToldInv(t), Step(t)
    PROVE  ToldInv(t)' /\ now' = now
  <1>1. CASE \E a \in Adapters : CallKeys(t, a) \/ CallWalk(t, a)
    <2>1. PICK a \in Adapters : CallKeys(t, a) \/ CallWalk(t, a)
      BY <1>1
    <2>2. now' = now
      BY <2>1 DEF CallKeys, CallWalk, Enter
    <2>3. CASE CallKeys(t, a)
      BY <2>2, <2>3, CallKeysInv, ToldEnter
    <2>4. CASE CallWalk(t, a)
      <3>1. job'[t].op \in WalkOps /\ pc'[t] \in {"asked", "resolved"}
        BY <2>4, CallWalkInv
      <3> QED BY <2>2, <3>1, ToldWalk DEF WalkOps
    <2> QED BY <2>1, <2>3, <2>4
  <1>2. CASE Serve(t)
    <2>1. now' = now
      BY <1>2 DEF Serve, ServeMissing, ServeReject, ServeRead, ServeHas, ServeWrite, ServeDelete, ServeClear,
                  ServeNext, RejectsAfter, Reply, fixed
    <2> QED BY <1>2, <2>1, ToldMissing, ToldSeen, ToldWritten, ToldServed DEF Serve
  <1>3. CASE GoOn(t)
    <2>1. now' = now /\ told' = told /\ pc[t] = "served"
      BY <1>3 DEF GoOn, Rejected, DeleteCaught, GotRows, Swept, GotBooleans, GotUndefined, IteratorEntry,
                  IteratorSwept, IteratorEnd, ClearEntry, ClearCollected, ClearDeleted, Resume, fixed
    <2>2. CASE Rejected(t)
      <3>1. native' = native /\ pc'[t] = "rejected" /\ job' = job
        BY <2>2, RejectedInv
      <3> QED BY <2>1, <3>1, ToldKept
    <2>3. CASE DeleteCaught(t) \/ GotUndefined(t) \/ GotRows(t) \/ Swept(t) \/ GotBooleans(t)
      BY <2>1, <2>3, ToldOther, ToldRows, ToldBooleans
    <2>4. CASE IteratorEntry(t) \/ IteratorSwept(t)
      <3>1. pc'[t] = "asked" /\ job'[t].op = "iterator"
        BY <2>4, IteratorEntryInv, IteratorSweptInv
      <3> QED BY <2>1, <3>1, ToldWalk
    <2>5. CASE IteratorEnd(t)
      <3>1. pc'[t] = "resolved" /\ job'[t] = job[t] /\ job[t].op = "iterator"
        BY <2>5, IteratorEndInv DEF IteratorEnd
      <3> QED BY <2>1, <3>1, ToldWalk
    <2>6. CASE ClearEntry(t) \/ ClearCollected(t) \/ ClearDeleted(t)
      <3>1. job'[t].op = "clear" /\ pc'[t] # "served"
        BY <2>6, ClearEntryInv, ClearDeletesInv
      <3> QED BY <2>1, <3>1, ToldWalk
    <2> QED BY <1>3, <2>2, <2>3, <2>4, <2>5, <2>6 DEF GoOn
  <1> QED BY <1>1, <1>2, <1>3 DEF Step

LEMMA ToldsStep == ASSUME ToldsInv, [Next]_vars PROVE ToldsInv'
  <1>1. CallsInv' /\ CallsInv /\ now \in Nat
    BY CallsStep DEF ToldsInv, CallsInv, Types
  <1>2. CASE \E t \in Tasks : Step(t)
    <2>1. PICK t \in Tasks : Step(t)
      BY <1>2
    <2>2. ToldInv(t)' /\ now' = now
      BY <1>1, <2>1, ToldStep DEF ToldsInv
    <2>3. Rest(t) /\ native' = native
      BY <1>1, <2>1, StepCalls
    <2>4. ASSUME NEW u \in Tasks, u # t PROVE ToldInv(u)'
      <3>1. /\ pc'[u] = pc[u] /\ ans'[u] = ans[u] /\ job'[u] = job[u] /\ told'[u] = told[u]
            /\ now' \in Nat /\ now <= now' /\ ToldInv(u)
        BY <1>1, <2>2, <2>3, <2>4 DEF Rest, ToldsInv
      <3> QED BY <1>1, <2>3, <3>1, ToldFrame
    <2> QED BY <1>1, <2>2, <2>4 DEF ToldsInv
  <1>3. CASE Apart
    <2>1. UNCHANGED <<native, pc, ans, job, told>>
      BY <1>1, <1>3, ApartCalls
    <2>2. now' \in Nat /\ now <= now'
      BY <1>1, <1>3 DEF Apart, SetNamespace, SetStore, Tick, vars
    <2>3. ASSUME NEW u \in Tasks PROVE ToldInv(u)'
      <3>1. ToldInv(u) /\ pc'[u] = pc[u] /\ ans'[u] = ans[u] /\ job'[u] = job[u] /\ told'[u] = told[u]
        BY <2>1 DEF ToldsInv
      <3> QED BY <1>1, <2>1, <2>2, <3>1, ToldFrame
    <2> QED BY <1>1, <2>3 DEF ToldsInv
  <1> QED BY <1>2, <1>3, NextSplits

LEMMA ToldsInit == Init => ToldsInv
  <1> SUFFICES ASSUME Init, NEW t \in Tasks PROVE ToldInv(t)
    BY CallsInit DEF ToldsInv
  <1>1. pc[t] = "idle" /\ job[t].op = "clear"
    BY DEF Init, NewJob
  <1> QED BY <1>1 DEF ToldInv, Watched, Resolved, KeyOps, ReadOps, HasOps, WriteOps, DeleteOps

LEMMA ToldsSteps ==
    /\ Init => ToldsInv
    /\ ToldsInv /\ [Next]_vars => ToldsInv'
  BY ToldsInit, ToldsStep

\* A call on keys that resolves gives one result per key, in the order of the
\* keys: what the store held under the key, or undefined because it expired,
\* for every mix of native and key-by-key requests, and while namespace, store
\* and clock change between its awaits (get, getMany, has, hasMany,
\* core/storely/src/adapters/bridge.ts).
THEOREM AnswersStayAligned == Spec => []AnswersAligned
  <1>1. ASSUME ToldsInv PROVE AnswersAligned
    <2> SUFFICES ASSUME NEW t \in Tasks, Resolved(t, KeyOps), Served(t)
                 PROVE
          LET j == job[t]
          IN  /\ Len(j.res) = Len(j.keys)
              /\ j.op \in ReadOps \cup HasOps => \A i \in DOMAIN j.keys :
                    \E ns \in Namespaces : told[t][i].key = GetKeyPrefix(j.keys[i], ns)
              /\ j.op \in ReadOps => \A i \in DOMAIN j.keys :
                    \/ j.res[i] = told[t][i].row
                    \/ j.res[i] = None /\ Expired(told[t][i].row)
              /\ j.op \in HasOps => \A i \in DOMAIN j.keys : j.res[i] => told[t][i].row # None
      BY DEF AnswersAligned
    <2> DEFINE j == job[t]
               n == Len(j.keys)
    <2>1. /\ Len(j.res) = n /\ pc[t] = "resolved"
          /\ j.op \in ReadOps \cup HasOps => ToldReads(t)
      BY <1>1 DEF ToldsInv, ToldInv, Resolved
    <2>2. DOMAIN j.keys = 1..n
      <3>1. j.keys \in Seq(Keys)
        BY <1>1 DEF ToldsInv, CallsInv, Types, JobType
      <3> QED BY <3>1
    <2>3. j.op \in ReadOps \cup HasOps =>
            /\ ToldKeys(t) /\ Len(told[t]) = n
            /\ \A i \in 1..n : Matches(j.op, j.res[i], told[t][i])
      BY <2>1 DEF ToldReads, ToldSoFar
    <2>4. j.op \in ReadOps \cup HasOps => \A i \in 1..n :
             \E ns \in Namespaces : told[t][i].key = GetKeyPrefix(j.keys[i], ns)
      BY <2>3 DEF ToldKeys
    <2>5. j.op \in ReadOps => j.op \notin HasOps
      BY DEF ReadOps, HasOps
    <2>6. /\ j.op \in ReadOps => \A i \in 1..n : Became(j.res[i], told[t][i])
          /\ j.op \in HasOps => \A i \in 1..n : j.res[i] => told[t][i].row # None
      BY <2>3, <2>5 DEF Matches
    <2> QED BY <2>1, <2>2, <2>4, <2>6 DEF Became
  <1> QED BY <1>1, ToldsSteps, PTL DEF Spec

\* What a store refused is not reported as written by set or a native setMany,
\* also when the store is replaced or the namespace set while the call waits
\* (set, setMany, core/storely/src/adapters/bridge.ts).
THEOREM RefusalsStayReported == Spec => []RefusalsReported
  <1>1. ASSUME ToldsInv PROVE RefusalsReported
    <2> SUFFICES ASSUME NEW t \in Tasks, Resolved(t, WriteOps), Served(t),
                        job[t].op = "set" \/ Native(job[t].a, "setMany"),
                        NEW i \in DOMAIN job[t].res, job[t].res[i]
                 PROVE  told[t][i]
      BY DEF RefusalsReported
    <2>1. Watched(t) /\ pc[t] = "resolved"
      BY DEF Resolved, WriteOps, Watched
    <2>2. told[t] = job[t].res
      BY <1>1, <2>1 DEF ToldsInv, ToldInv, ToldWrites
    <2> QED BY <2>2
  <1> QED BY <1>1, ToldsSteps, PTL DEF Spec

---------------------------------------------------------------------------
(* The invariant: the calls and the stores *)

\* Under k the adapter's store holds the row that was read, unless k was written since.
Fresh(t, k, row) == k \in raced[t] \/ data[store[job[t].a]][k] \in {None, row}

\* k was written since it was read, or is gone or expired.
Doomed(t, k) ==
    LET row == data[store[job[t].a]][k]
    IN  k \in raced[t] \/ row = None \/ Expired(row)

\* The store of a request or a walk is still the adapter's, unless all is raced.
SameStore(t, s) == s = store[job[t].a] \/ raced[t] = FullKeys

SweepInv(t) ==
    /\ (pc[t] = "served" /\ ans[t].is = "rows") =>
          \A i \in 1..Len(ans[t].v) : Fresh(t, req[t].keys[i], ans[t].v[i])
    /\ (pc[t] = "served" /\ ans[t].is = "entry") => Fresh(t, ans[t].v.key, ans[t].v.row)
    /\ (pc[t] \in {"asked", "served"} /\ job[t].op \in KeyOps /\ job[t].stage = "sweep") =>
          \A i \in 1..Len(job[t].rows) :
             job[t].rows[i] # None => Fresh(t, job[t].full[i], job[t].rows[i])
    /\ (pc[t] = "asked" /\ (job[t].stage = "sweep" \/ (job[t].op = "clear" /\ req[t].m = "delete"))) =>
          SameStore(t, req[t].s)
    /\ (pc[t] = "asked" /\ job[t].stage = "sweep") =>
          \A i \in DOMAIN req[t].keys : Doomed(t, req[t].keys[i])
    /\ (pc[t] \in {"asked", "served"} /\ job[t].op \in WalkOps) =>
          IF req[t].m = "clear" THEN job[t].full = <<>> ELSE SameStore(t, walk[t].s)

\* What a clear still has to delete: nothing is left of k, or it will be deleted.
Cleared(t, k) == k \in raced[t] \/ data[walk[t].s][k] = None
Listed(t, k)  == \E i \in 1..Len(job[t].full) : job[t].full[i] = k
Remains(t, k) == Cleared(t, k) \/ Listed(t, k)

ClearKey(t, k) ==
    /\ (pc[t] = "asked" /\ req[t].m = "iterator") => Remains(t, k) \/ k \in walk[t].due
    /\ (pc[t] = "served" /\ req[t].m = "iterator") =>
          \/ Remains(t, k)
          \/ k \in walk[t].due /\ ans[t].is # "done"
          \/ ans[t].is = "entry" /\ ans[t].v.key = k
    /\ (pc[t] = "asked" /\ req[t].m = "delete") => Remains(t, k)
    /\ (pc[t] = "served" /\ req[t].m = "delete" /\ ans[t].is = "booleans") =>
          Cleared(t, k) \/ \E i \in 2..Len(job[t].full) : job[t].full[i] = k
    /\ pc[t] = "resolved" => Cleared(t, k)

ClearInv(t) ==
    (Clearing(t) /\ Served(t)) =>
        \A k \in FullKeys : InNamespace(k, job[t].ns) => ClearKey(t, k)

StoresInv == ToldsInv /\ \A t \in Tasks : SweepInv(t) /\ ClearInv(t)

\* What a step of another task, a setter or the clock does to the call of u.
Keeps(u) ==
    /\ native' = native /\ now' \in Nat /\ now <= now'
    /\ pc'[u] = pc[u] /\ req'[u] = req[u] /\ ans'[u] = ans[u] /\ job'[u] = job[u] /\ told'[u] = told[u]
    /\ raced[u] \subseteq raced'[u]
    /\ store'[job[u].a] = store[job[u].a] \/ raced'[u] = FullKeys
    /\ \A s \in Stores : \A k \in FullKeys :
          data'[s][k] = data[s][k] \/ data'[s][k] = None \/ k \in raced'[u]
    /\ walk'[u].s = walk[u].s
    /\ \A k \in FullKeys : k \in walk[u].due => k \in walk'[u].due \/ data'[walk[u].s][k] = None

---------------------------------------------------------------------------
(* What a step leaves of the other calls *)

LEMMA Replied ==
    ASSUME Types, NEW t \in Tasks, NEW is, NEW v, Reply(t, is, v)
    PROVE  /\ pc'[t] = "served" /\ ans'[t].is = is /\ ans'[t].v = v
           /\ now' = now /\ store' = store /\ native' = native /\ req' = req /\ job' = job
  BY DEF Reply, Set, Types, fixed

LEMMA RacedAt ==
    ASSUME CallsInv, NEW u \in Tasks
    PROVE  /\ raced[u] \subseteq FullKeys /\ walk[u] \in WalkType /\ walk[u].s \in Stores
           /\ job[u] \in JobType /\ job[u].a \in Adapters /\ store[job[u].a] \in Stores
           /\ req[u] \in ReqType /\ req[u].s \in Stores /\ req[u].keys \in Seq(FullKeys)
  BY DEF CallsInv, Types, JobType, ReqType, WalkType

LEMMA SweepFrame ==
    ASSUME CallsInv, CallsInv', NEW u \in Tasks, Keeps(u), SweepInv(u)
    PROVE  SweepInv(u)'
  <1> DEFINE s == store[job[u].a]
  <1>1. /\ raced[u] \subseteq raced'[u] /\ raced'[u] \subseteq FullKeys /\ job[u] \in JobType
        /\ s \in Stores /\ (store'[job[u].a] = s \/ raced'[u] = FullKeys)
        /\ now \in Nat /\ now' \in Nat /\ now <= now' /\ data \in [Stores -> [FullKeys -> Rows]]
        /\ \A k \in FullKeys : data'[s][k] = data[s][k] \/ data'[s][k] = None \/ k \in raced'[u]
    BY RacedAt DEF Keeps, CallsInv, Types
  <1>2. /\ pc'[u] = pc[u] /\ req'[u] = req[u] /\ ans'[u] = ans[u] /\ job'[u] = job[u]
        /\ walk'[u].s = walk[u].s
    BY DEF Keeps
  <1>3. ASSUME NEW k \in FullKeys, NEW row, Fresh(u, k, row) PROVE Fresh(u, k, row)'
    BY <1>1, <1>2, <1>3 DEF Fresh
  <1>4. ASSUME NEW k \in FullKeys, Doomed(u, k) PROVE Doomed(u, k)'
    <2> DEFINE row == data[s][k]
    <2>1. row \in Rows /\ (row # None /\ row.exp # None => row.exp \in Nat)
      BY <1>1 DEF Rows, Data
    <2>2. Expired(row) => now' > row.exp /\ row # None /\ row.exp # None
      BY <1>1, <2>1 DEF Expired
    <2>3. k \in raced[u] \/ row = None \/ Expired(row)
      BY <1>4 DEF Doomed
    <2>4. CASE k \in raced'[u]
      BY <2>4 DEF Doomed
    <2>5. CASE k \notin raced'[u]
      <3>1. store'[job[u].a] = s /\ (data'[s][k] = row \/ data'[s][k] = None)
        BY <1>1, <2>5
      <3>2. row = None \/ Expired(row)
        BY <1>1, <2>3, <2>5
      <3>3. row = None \/ (now' > row.exp /\ row # None /\ row.exp # None)
        BY <2>2, <3>2
      <3>4. data'[store'[job'[u].a]][k] = row \/ data'[store'[job'[u].a]][k] = None
        BY <1>2, <3>1
      <3> HIDE DEF row, s
      <3> QED BY <3>3, <3>4 DEF Doomed, Expired
    <2> QED BY <2>4, <2>5
  <1>5. ASSUME NEW r, SameStore(u, r) PROVE SameStore(u, r)'
    BY <1>1, <1>2, <1>5 DEF SameStore
  <1>6. /\ pc[u] = "served" /\ ans[u].is = "rows" =>
              \A i \in 1..Len(ans[u].v) : req[u].keys[i] \in FullKeys
        /\ pc[u] = "served" /\ ans[u].is = "entry" => ans[u].v.key \in FullKeys
        /\ \A i \in DOMAIN req[u].keys : req[u].keys[i] \in FullKeys
        /\ (pc[u] \in {"asked", "served"} /\ job[u].op \in KeyOps /\ job[u].stage = "sweep") =>
              \A i \in 1..Len(job[u].rows) : job[u].full[i] \in FullKeys
    <2>1. CallInv(u) /\ \A i \in 1..Len(req[u].keys) : req[u].keys[i] \in FullKeys
      BY RowsRead DEF CallsInv
    <2>2. pc[u] = "served" => Answers(req[u], ans[u])
      BY <2>1 DEF CallInv
    <2>3. (pc[u] \in {"asked", "served"} /\ job[u].op \in KeyOps /\ job[u].stage = "sweep") =>
             Len(job[u].full) = Len(job[u].rows)
      BY <2>1 DEF CallInv, Asks, RowsLeft
    <2>4. \A i \in 1..Len(job[u].full) : job[u].full[i] \in FullKeys
      <3>1. job[u].full \in Seq(FullKeys)
        BY <1>1 DEF JobType
      <3> QED BY <3>1
    <2>5. DOMAIN req[u].keys = 1..Len(req[u].keys)
      BY RowsRead DEF CallsInv
    <2> QED BY <2>1, <2>2, <2>3, <2>4, <2>5 DEF Answers, Entry
  <1>7. (pc[u] = "served" /\ ans[u].is = "rows") =>
           \A i \in 1..Len(ans[u].v) : Fresh(u, req[u].keys[i], ans[u].v[i])'
    <2> SUFFICES ASSUME pc[u] = "served", ans[u].is = "rows", NEW i \in 1..Len(ans[u].v)
                 PROVE  Fresh(u, req[u].keys[i], ans[u].v[i])'
      OBVIOUS
    <2>1. Fresh(u, req[u].keys[i], ans[u].v[i]) /\ req[u].keys[i] \in FullKeys
      BY <1>6 DEF SweepInv
    <2> QED BY <1>1, <1>2, <2>1 DEF Fresh
  <1>8. (pc[u] = "served" /\ ans[u].is = "entry") => Fresh(u, ans[u].v.key, ans[u].v.row)'
    <2> SUFFICES ASSUME pc[u] = "served", ans[u].is = "entry" PROVE Fresh(u, ans[u].v.key, ans[u].v.row)'
      OBVIOUS
    <2>1. Fresh(u, ans[u].v.key, ans[u].v.row) /\ ans[u].v.key \in FullKeys
      BY <1>6 DEF SweepInv
    <2> QED BY <1>1, <1>2, <2>1 DEF Fresh
  <1>9. (pc[u] \in {"asked", "served"} /\ job[u].op \in KeyOps /\ job[u].stage = "sweep") =>
           \A i \in 1..Len(job[u].rows) :
              job[u].rows[i] # None => Fresh(u, job[u].full[i], job[u].rows[i])'
    <2> SUFFICES ASSUME pc[u] \in {"asked", "served"}, job[u].op \in KeyOps, job[u].stage = "sweep",
                        NEW i \in 1..Len(job[u].rows), job[u].rows[i] # None
                 PROVE  Fresh(u, job[u].full[i], job[u].rows[i])'
      OBVIOUS
    <2>1. Fresh(u, job[u].full[i], job[u].rows[i]) /\ job[u].full[i] \in FullKeys
      BY <1>6 DEF SweepInv
    <2> QED BY <1>1, <1>2, <2>1 DEF Fresh
  <1>10. (pc[u] = "asked" /\ job[u].stage = "sweep") => \A i \in DOMAIN req[u].keys : Doomed(u, req[u].keys[i])'
    <2> SUFFICES ASSUME pc[u] = "asked", job[u].stage = "sweep", NEW i \in DOMAIN req[u].keys
                 PROVE  Doomed(u, req[u].keys[i])'
      OBVIOUS
    <2>1. Doomed(u, req[u].keys[i]) /\ req[u].keys[i] \in FullKeys
      BY <1>6 DEF SweepInv
    <2>2. \A k \in FullKeys : Doomed(u, k) => Doomed(u, k)'
      BY <1>4
    <2>3. PICK k \in FullKeys : k = req[u].keys[i]
      BY <2>1
    <2>4. Doomed(u, k)'
      BY <2>1, <2>2, <2>3
    <2> QED BY <1>2, <2>3, <2>4 DEF Doomed
  <1>11. /\ (pc[u] = "asked" /\ (job[u].stage = "sweep" \/ (job[u].op = "clear" /\ req[u].m = "delete"))) =>
               SameStore(u, req[u].s)'
         /\ (pc[u] \in {"asked", "served"} /\ job[u].op \in WalkOps) =>
               IF req[u].m = "clear" THEN job[u].full = <<>> ELSE SameStore(u, walk[u].s)'
    BY <1>1, <1>2 DEF SweepInv, SameStore
  <1> QED BY <1>2, <1>7, <1>8, <1>9, <1>10, <1>11 DEF SweepInv

LEMMA ClearFrame ==
    ASSUME CallsInv, CallsInv', NEW u \in Tasks, Keeps(u), ClearInv(u)
    PROVE  ClearInv(u)'
  <1>1. /\ raced[u] \subseteq raced'[u] /\ walk[u].s \in Stores
        /\ pc'[u] = pc[u] /\ req'[u] = req[u] /\ ans'[u] = ans[u] /\ job'[u] = job[u] /\ told'[u] = told[u]
        /\ walk'[u].s = walk[u].s /\ native' = native
        /\ \A k \in FullKeys : /\ \/ data'[walk[u].s][k] = data[walk[u].s][k]
                                  \/ data'[walk[u].s][k] = None \/ k \in raced'[u]
                               /\ k \in walk[u].due => k \in walk'[u].due \/ data'[walk[u].s][k] = None
    BY RacedAt DEF Keeps
  <1>2. Clearing(u)' = Clearing(u) /\ Served(u)' = Served(u)
    BY <1>1 DEF Clearing, Served
  <1>3. ASSUME NEW k \in FullKeys, ClearKey(u, k) PROVE ClearKey(u, k)'
    <2>1. Cleared(u, k) => Cleared(u, k)'
      BY <1>1 DEF Cleared
    <2>2. Listed(u, k)' = Listed(u, k)
      BY <1>1 DEF Listed
    <2>3. Remains(u, k) => Remains(u, k)'
      BY <2>1, <2>2 DEF Remains
    <2>4. k \in walk[u].due => k \in walk'[u].due \/ Remains(u, k)'
      BY <1>1 DEF Remains, Cleared
    <2> QED BY <1>1, <1>3, <2>1, <2>3, <2>4 DEF ClearKey
  <1> QED BY <1>1, <1>2, <1>3 DEF ClearInv

\* What the write of t does to the stores: an entry that changes was raced for everyone.
LEMMA WriteKeeps ==
    ASSUME CallsInv, NEW t \in Tasks, ServeWrite(t)
    PROVE  /\ walk' = walk /\ store' = store /\ now' = now
           /\ \A u \in Tasks : raced[u] \subseteq raced'[u]
           /\ \A s \in Stores : \A k \in FullKeys : \A u \in Tasks :
                 data'[s][k] = data[s][k] \/ k \in raced'[u]
  <1>1. Types /\ CallInv(t) /\ pc[t] = "asked" /\ req[t].m \in WriteOps /\ walk' = walk
    BY DEF CallsInv, ServeWrite, Serving, WriteOps
  <1>2. PICK oks \in [DOMAIN req[t].keys -> BOOLEAN] :
          LET W == {i \in DOMAIN oks : oks[i]}
          IN  /\ data' = Set(data, req[t].s, Written(t, W))
              /\ raced' = [u \in Tasks |-> raced[u] \cup {req[t].keys[i] : i \in W}]
              /\ Reply(t, "booleans", oks) \/ RejectsAfter(t)
    BY DEF ServeWrite
  <1> DEFINE W == {i \in DOMAIN oks : oks[i]}
  <1>3. W \subseteq DOMAIN req[t].keys
    OBVIOUS
  <1>4. /\ data' = Set(data, req[t].s, Written(t, W))
        /\ raced' = [u \in Tasks |-> raced[u] \cup {req[t].keys[i] : i \in W}]
    BY <1>2
  <1>5. store' = store /\ now' = now
    BY <1>2 DEF RejectsAfter, Reply, fixed
  <1> HIDE DEF W
  <1>6. \A k \in FullKeys : \/ Written(t, W)[k] = data[req[t].s][k]
                            \/ \E i \in W : req[t].keys[i] = k
    BY <1>1, <1>3, WrittenAt
  <1>7. \A u \in Tasks : raced[u] \subseteq raced'[u] /\ \A i \in W : req[t].keys[i] \in raced'[u]
    BY <1>4
  <1>8. \A s \in Stores : data'[s] = IF s = req[t].s THEN Written(t, W) ELSE data[s]
    BY <1>1, <1>4 DEF Set, Types
  <1> QED BY <1>1, <1>5, <1>6, <1>7, <1>8

\* What a delete or a clear of t does to the stores.
LEMMA RemoveKeeps ==
    ASSUME CallsInv, NEW t \in Tasks, ServeDelete(t) \/ ServeClear(t)
    PROVE  /\ store' = store /\ now' = now /\ raced' = raced
           /\ \A s \in Stores : \A k \in FullKeys : data'[s][k] \in {data[s][k], None}
           /\ \A u \in Tasks : /\ walk'[u].s = walk[u].s
                               /\ \A k \in FullKeys : k \in walk[u].due =>
                                     k \in walk'[u].due \/ data'[walk[u].s][k] = None
           /\ ServeDelete(t) => \A i \in DOMAIN req[t].keys : data'[req[t].s][req[t].keys[i]] = None
  <1>1. Types /\ req[t].s \in Stores /\ raced' = raced /\ store' = store /\ now' = now
    BY RacedAt DEF CallsInv, ServeDelete, ServeClear, RejectsAfter, Reply, fixed
  <1> DEFINE K == IF ServeDelete(t) THEN {req[t].keys[i] : i \in DOMAIN req[t].keys} ELSE FullKeys
  <1>2. Remove(req[t].s, K)
    BY DEF ServeDelete, ServeClear
  <1>3. ServeDelete(t) => \A i \in DOMAIN req[t].keys : req[t].keys[i] \in K
    OBVIOUS
  <1> HIDE DEF K
  <1>4. /\ \A u \in Tasks : walk'[u].s = walk[u].s
                            /\ walk'[u].due = IF walk[u].s = req[t].s THEN walk[u].due \ K ELSE walk[u].due
        /\ \A r \in Stores : \A k \in FullKeys :
              data'[r][k] = IF r = req[t].s /\ k \in K THEN None ELSE data[r][k]
    <2> DEFINE s == req[t].s
    <2>1. Types /\ s \in Stores /\ Remove(s, K)
      BY <1>1, <1>2
    <2> HIDE DEF s
    <2>2. \A u \in Tasks : walk'[u].s = walk[u].s
                           /\ walk'[u].due = IF walk[u].s = s THEN walk[u].due \ K ELSE walk[u].due
      <3>1. \A u \in Tasks : walk[u] \in WalkType
        BY <2>1 DEF Types
      <3>2. walk' = [u \in Tasks |-> IF walk[u].s = s THEN [walk[u] EXCEPT !.due = @ \ K] ELSE walk[u]]
        BY <2>1 DEF Remove
      <3> QED BY <3>1, <3>2 DEF WalkType
    <2>3. \A r \in Stores : \A k \in FullKeys :
             data'[r][k] = IF r = s /\ k \in K THEN None ELSE data[r][k]
      BY <2>1, RemoveEffect
    <2> QED BY <2>2, <2>3 DEF s
  <1>5. ServeDelete(t) => \A i \in DOMAIN req[t].keys : data'[req[t].s][req[t].keys[i]] = None
    <2>1. \A i \in DOMAIN req[t].keys : req[t].keys[i] \in FullKeys
      BY <1>1, RowsRead
    <2> QED BY <1>1, <1>3, <1>4, <2>1
  <1>6. \A u \in Tasks : walk[u].s \in Stores
    BY RacedAt
  <1>7. \A u \in Tasks : \A k \in FullKeys : k \in walk[u].due =>
           k \in walk'[u].due \/ data'[walk[u].s][k] = None
    BY <1>4, <1>6
  <1> QED BY <1>1, <1>4, <1>5, <1>7

LEMMA StepKeeps ==
    ASSUME CallsInv, NEW t \in Tasks, Step(t), NEW u \in Tasks, u # t
    PROVE  Keeps(u)
  <1>1. Rest(t) /\ native' = native /\ CallsInv /\ now \in Nat /\ now <= now
        /\ walk \in [Tasks -> WalkType] /\ raced \in [Tasks -> SUBSET FullKeys]
    BY StepCalls DEF CallsInv, Types
  <1>2. /\ now' = now /\ store' = store /\ raced[u] \subseteq raced'[u]
        /\ \A s \in Stores : \A k \in FullKeys :
              data'[s][k] = data[s][k] \/ data'[s][k] = None \/ k \in raced'[u]
        /\ \A k \in FullKeys : k \in walk[u].due => k \in walk'[u].due \/ data'[walk[u].s][k] = None
    <2>1. CASE \E a \in Adapters : CallKeys(t, a) \/ CallWalk(t, a)
      <3>0. PICK a \in Adapters : CallKeys(t, a) \/ CallWalk(t, a)
        BY <2>1
      <3>1. /\ UNCHANGED <<now, data, store>> /\ raced' = Set(raced, t, {})
            /\ UNCHANGED walk \/ \E w : walk' = Set(walk, t, w)
        <4>1. CASE CallKeys(t, a)
          <5>1. PICK op \in Ops[t] \cap KeyOps : \E ks \in Lists(Keys, op) :
                   \E vs \in IF op \in WriteOps THEN NewData(Len(ks)) ELSE {<<>>} :
                      Enter(t, NewJob(op, a, ks, vs)) /\ UNCHANGED walk
            BY <4>1 DEF CallKeys
          <5> QED BY <5>1 DEF Enter
        <4>2. CASE CallWalk(t, a)
          <5>1. PICK op \in Ops[t] \cap WalkOps : 
                   /\ Enter(t, NewJob(op, a, <<>>, <<>>))
                   /\ \/ UNCHANGED walk
                      \/ walk' = Set(walk, t, [s |-> store[a], done |-> {},
                                               due |-> {k \in FullKeys : data[store[a]][k] # None}])
            BY <4>2 DEF CallWalk
          <5>2. UNCHANGED walk \/ \E w : walk' = Set(walk, t, w)
            BY <5>1
          <5> QED BY <5>1, <5>2 DEF Enter
        <4> QED BY <3>0, <4>1, <4>2
      <3>2. raced'[u] = raced[u] /\ walk'[u] = walk[u]
        BY <1>1, <3>1 DEF Set
      <3> QED BY <3>1, <3>2
    <2>2. CASE ServeMissing(t) \/ ServeReject(t) \/ ServeHas(t)
      <3>1. UNCHANGED <<now, store, data, walk, raced>>
        BY <2>2 DEF ServeMissing, ServeReject, ServeHas, Reply, fixed
      <3> QED BY <3>1
    <2>3. CASE ServeRead(t)
      <3>1. UNCHANGED <<now, store, data, walk>> /\ raced' = Set(raced, t, IF Current(t) THEN {} ELSE FullKeys)
        BY <2>3 DEF ServeRead, Reply, fixed
      <3>2. raced'[u] = raced[u]
        BY <1>1, <3>1 DEF Set
      <3> QED BY <3>1, <3>2
    <2>4. CASE ServeWrite(t)
      BY <1>1, <2>4, WriteKeeps
    <2>5. CASE ServeDelete(t) \/ ServeClear(t)
      BY <1>1, <2>5, RemoveKeeps
    <2>6. CASE ServeNext(t)
      <3>1. UNCHANGED <<now, store, data>>
        BY <2>6 DEF ServeNext, Reply, fixed
      <3>2. walk'[u] = walk[u] /\ raced'[u] = raced[u]
        BY <1>1, <2>6 DEF ServeNext
      <3> QED BY <3>1, <3>2
    <2>7. CASE GoOn(t)
      <3>1. UNCHANGED <<now, store, data, walk, raced>>
        BY <2>7 DEF GoOn, Rejected, DeleteCaught, GotRows, Swept, GotBooleans, GotUndefined, IteratorEntry,
                    IteratorSwept, IteratorEnd, ClearEntry, ClearCollected, ClearDeleted, Resume, fixed
      <3> QED BY <3>1
    <2> QED BY <2>1, <2>2, <2>3, <2>4, <2>5, <2>6, <2>7 DEF Step, Serve
  <1>3. /\ pc'[u] = pc[u] /\ req'[u] = req[u] /\ ans'[u] = ans[u] /\ job'[u] = job[u] /\ told'[u] = told[u]
        /\ walk'[u].s = walk[u].s
    BY <1>1 DEF Rest
  <1> QED BY <1>1, <1>2, <1>3 DEF Keeps

LEMMA ApartKeeps ==
    ASSUME CallsInv, Apart, NEW u \in Tasks
    PROVE  Keeps(u)
  <1>1. UNCHANGED <<data, native, pc, req, ans, job, walk, told>>
    BY ApartCalls
  <1>2. now \in Nat /\ store \in [Adapters -> Stores] /\ job[u].a \in Adapters /\ raced[u] \subseteq FullKeys
    BY RacedAt DEF CallsInv, Types
  <1>3. now' \in Nat /\ now <= now' /\ raced[u] \subseteq raced'[u]
        /\ (store'[job[u].a] = store[job[u].a] \/ raced'[u] = FullKeys)
    <2>1. CASE \E a \in Adapters, s \in Stores : SetStore(a, s)
      <3>1. PICK a \in Adapters, s \in Stores : SetStore(a, s)
        BY <2>1
      <3>2. /\ store' = Set(store, a, s) /\ now' = now
            /\ raced' = [t \in Tasks |-> IF job[t].a = a THEN FullKeys ELSE raced[t]]
        BY <3>1 DEF SetStore
      <3>3. raced'[u] = IF job[u].a = a THEN FullKeys ELSE raced[u]
        BY <3>2
      <3>4. job[u].a # a => store'[job[u].a] = store[job[u].a]
        BY <1>2, <3>2 DEF Set
      <3> QED BY <1>2, <3>2, <3>3, <3>4
    <2>2. CASE \E a \in Adapters, ns \in Namespaces : SetNamespace(a, ns)
      <3>1. UNCHANGED <<now, store, raced>>
        BY <2>2 DEF SetNamespace
      <3> QED BY <1>2, <3>1
    <2>3. CASE Tick
      <3>1. now' = now + 1 /\ UNCHANGED <<store, raced>>
        BY <2>3 DEF Tick
      <3> QED BY <1>2, <3>1
    <2>4. CASE UNCHANGED vars
      <3>1. UNCHANGED <<now, store, raced>>
        BY <2>4 DEF vars
      <3> QED BY <1>2, <3>1
    <2> QED BY <2>1, <2>2, <2>3, <2>4 DEF Apart
  <1> QED BY <1>1, <1>3 DEF Keeps

---------------------------------------------------------------------------
(* The sweeps: what is read stays true of the store *)

LEMMA SweepRun ==
    ASSUME NEW t \in Tasks, job'[t].op \in KeyOps, job'[t].stage = "run",
           pc'[t] = "served" => ans'[t].is \notin {"rows", "entry"}
    PROVE  SweepInv(t)'
  <1>1. job'[t].op \notin WalkOps /\ job'[t].op # "clear"
    BY DEF KeyOps, ReadOps, HasOps, WriteOps, DeleteOps, WalkOps
  <1> QED BY <1>1 DEF SweepInv

LEMMA SweepOver ==
    ASSUME NEW t \in Tasks, pc'[t] \notin {"asked", "served"}
    PROVE  SweepInv(t)'
  BY DEF SweepInv

LEMMA SweepEnter ==
    ASSUME CallsInv, NEW t \in Tasks, NEW a \in Adapters, CallKeys(t, a) \/ CallWalk(t, a)
    PROVE  SweepInv(t)'
  <1>1. CASE CallKeys(t, a)
    <2>1. job'[t].op \in KeyOps /\ job'[t].stage = "run" /\ pc'[t] # "served"
      BY <1>1, CallKeysInv
    <2> QED BY <2>1, SweepRun
  <1>2. CASE CallWalk(t, a)
    <2>1. /\ job'[t].op \in WalkOps /\ job'[t].stage = "run" /\ pc'[t] \in {"asked", "resolved"}
          /\ job'[t].full = <<>> /\ store' = store
          /\ pc'[t] = "asked" => \/ req'[t].m = "clear"
                                 \/ req'[t].m = "iterator" /\ walk'[t].s = store[job'[t].a]
      BY <1>2, CallWalkInv
    <2>2. job'[t].op \notin KeyOps
      BY <2>1 DEF KeyOps, ReadOps, HasOps, WriteOps, DeleteOps, WalkOps
    <2>3. pc'[t] = "asked" => IF req'[t].m = "clear" THEN job'[t].full = <<>> ELSE SameStore(t, walk[t].s)'
      BY <2>1 DEF SameStore
    <2> QED BY <2>1, <2>2, <2>3 DEF SweepInv
  <1> QED BY <1>1, <1>2

\* The keys of the rows that are left are full keys.
LEMMA FullLeft ==
    ASSUME CallsInv, NEW t \in Tasks, pc[t] \in {"asked", "served"}, job[t].op \in KeyOps,
           job[t].stage = "sweep"
    PROVE  \A i \in 1..Len(job[t].rows) : job[t].full[i] \in FullKeys
  <1>1. job[t].full \in Seq(FullKeys)
    BY RacedAt DEF JobType
  <1>2. Len(job[t].full) = Len(job[t].rows)
    BY DEF CallsInv, CallInv, Asks, RowsLeft
  <1> QED BY <1>1, <1>2

\* An answer that reads nothing, and a store that changes only what is raced.
LEMMA SweepServed ==
    ASSUME CallsInv, NEW t \in Tasks, SweepInv(t), pc[t] = "asked", pc'[t] = "served",
           job'[t] = job[t], req'[t] = req[t], store' = store, raced[t] \subseteq raced'[t],
           raced'[t] \subseteq FullKeys, walk'[t].s = walk[t].s, ans'[t].is \notin {"rows", "entry"},
           \A s \in Stores : \A k \in FullKeys :
              data'[s][k] = data[s][k] \/ data'[s][k] = None \/ k \in raced'[t]
    PROVE  SweepInv(t)'
  <1>1. store[job[t].a] \in Stores
    BY RacedAt
  <1>2. (job[t].op \in KeyOps /\ job[t].stage = "sweep") =>
           \A i \in 1..Len(job[t].rows) :
              job[t].rows[i] # None => Fresh(t, job[t].full[i], job[t].rows[i])'
    <2> SUFFICES ASSUME job[t].op \in KeyOps, job[t].stage = "sweep",
                        NEW i \in 1..Len(job[t].rows), job[t].rows[i] # None
                 PROVE  Fresh(t, job[t].full[i], job[t].rows[i])'
      OBVIOUS
    <2>1. Fresh(t, job[t].full[i], job[t].rows[i]) /\ job[t].full[i] \in FullKeys
      BY FullLeft DEF SweepInv
    <2> QED BY <1>1, <2>1 DEF Fresh
  <1>3. job[t].op \in WalkOps =>
           IF req[t].m = "clear" THEN job[t].full = <<>> ELSE SameStore(t, walk[t].s)'
    <2>1. job[t].op \in WalkOps =>
             IF req[t].m = "clear" THEN job[t].full = <<>> ELSE SameStore(t, walk[t].s)
      BY DEF SweepInv
    <2>2. SameStore(t, walk[t].s) => SameStore(t, walk[t].s)'
      BY DEF SameStore
    <2> QED BY <2>1, <2>2
  <1> QED BY <1>2, <1>3 DEF SweepInv

LEMMA SweepRead ==
    ASSUME CallsInv, NEW t \in Tasks, ServeRead(t)
    PROVE  SweepInv(t)'
  <1>1. /\ pc[t] = "asked" /\ req[t].m \in ReadOps /\ Types /\ CallInv(t)
        /\ Reply(t, "rows", AllRows(t))
        /\ raced' = Set(raced, t, IF Current(t) THEN {} ELSE FullKeys) /\ data' = data
    BY DEF ServeRead, Serving, ReadOps, CallsInv
  <1>2. job[t].op \in ReadOps \cup HasOps /\ job[t].stage = "run"
    BY <1>1, RequestOf
  <1>3. job[t].op \in KeyOps /\ job[t].op \notin WalkOps
    BY <1>2 DEF KeyOps, ReadOps, HasOps, WalkOps
  <1>4. AllRows(t) \in Seq(Rows) /\ Len(AllRows(t)) = Len(req[t].keys)
        /\ DOMAIN req[t].keys = 1..Len(req[t].keys)
        /\ \A i \in DOMAIN req[t].keys : req[t].keys[i] \in FullKeys
    BY <1>1, RowsRead
  <1>5. /\ pc'[t] = "served" /\ ans'[t].is = "rows" /\ ans'[t].v = AllRows(t)
        /\ store' = store /\ req' = req /\ job' = job
    BY <1>1, Replied
  <1>6. raced'[t] = IF Current(t) THEN {} ELSE FullKeys
    BY <1>1 DEF Set, Types
  <1>7. \A i \in 1..Len(AllRows(t)) : AllRows(t)[i] = data[req[t].s][req[t].keys[i]]
    BY <1>4 DEF AllRows, At
  <1> DEFINE rows == AllRows(t)
  <1> HIDE DEF rows
  <1>8. ASSUME NEW i \in 1..Len(rows)
        PROVE  \/ req[t].keys[i] \in raced'[t]
               \/ data[store[job[t].a]][req[t].keys[i]] \in {None, rows[i]}
    <2>0. Len(rows) = Len(req[t].keys) /\ rows[i] = data[req[t].s][req[t].keys[i]]
      BY <1>4, <1>7 DEF rows
    <2>1. CASE Current(t)
      BY <2>0, <2>1 DEF Current
    <2>2. CASE ~Current(t)
      BY <1>4, <1>6, <2>0, <2>2
    <2> QED BY <2>1, <2>2
  <1>9. \A i \in 1..Len(ans'[t].v) : Fresh(t, req[t].keys[i], ans[t].v[i])'
    BY <1>1, <1>5, <1>8 DEF Fresh, rows
  <1>10. job'[t].stage = "run" /\ job'[t].op \notin WalkOps /\ job'[t].op # "clear"
    BY <1>2, <1>3, <1>5 DEF WalkOps
  <1> QED BY <1>5, <1>9, <1>10 DEF SweepInv

LEMMA SweepNext ==
    ASSUME CallsInv, NEW t \in Tasks, SweepInv(t), ServeNext(t)
    PROVE  SweepInv(t)'
  <1>1. /\ pc[t] = "asked" /\ req[t].m = "iterator" /\ Types /\ CallInv(t) /\ data' = data
    BY DEF ServeNext, Serving, CallsInv
  <1>2. job[t].op \in WalkOps /\ job[t].stage = "run" /\ job[t].op \notin KeyOps
    BY <1>1, RequestOf DEF KeyOps, ReadOps, HasOps, WriteOps, DeleteOps, WalkOps
  <1>3. SameStore(t, walk[t].s) /\ req[t].s = walk[t].s
    BY <1>1, <1>2 DEF SweepInv, CallInv, Asks
  <1>4. CASE Reply(t, "done", None) /\ UNCHANGED <<walk, raced>>
    <2>1. pc'[t] = "served" /\ ans'[t].is = "done" /\ req' = req /\ job' = job /\ store' = store
      BY <1>1, <1>4, Replied
    <2> QED BY <1>1, <1>4, <2>1, SweepServed, RacedAt
  <1>5. ASSUME NEW k \in FullKeys, data[req[t].s][k] # None,
               Reply(t, "entry", [key |-> k, row |-> data[req[t].s][k]]),
               walk' = [walk EXCEPT ![t].due = @ \ {k}, ![t].done = @ \cup {k}],
               raced' = [raced EXCEPT ![t] = IF Current(t) THEN @ \ {k} ELSE @]
        PROVE  SweepInv(t)'
    <2> DEFINE row == data[req[t].s][k]
    <2>1. req[t].s \in Stores /\ raced \in [Tasks -> SUBSET FullKeys] /\ walk \in [Tasks -> WalkType]
          /\ data \in [Stores -> [FullKeys -> Rows]]
      BY <1>1, RowsRead DEF Types
    <2>2. Reply(t, "entry", [key |-> k, row |-> row])
      BY <1>5
    <2>3. pc'[t] = "served" /\ ans'[t].is = "entry" /\ ans'[t].v = [key |-> k, row |-> row]
          /\ req' = req /\ job' = job /\ store' = store
      BY <1>1, <2>2, Replied
    <2>4. raced'[t] = IF Current(t) THEN raced[t] \ {k} ELSE raced[t]
      BY <1>5, <2>1
    <2>5. walk'[t].s = walk[t].s
      BY <1>5, <2>1 DEF WalkType
    <2>6. Fresh(t, k, row)'
      BY <1>1, <1>3, <2>3, <2>4 DEF Fresh, Current, SameStore
    <2>7. SameStore(t, walk[t].s)'
      BY <1>3, <2>3, <2>4, <2>5 DEF SameStore, Current
    <2>8. ans'[t].is = "entry" /\ ans'[t].v.key = k /\ ans'[t].v.row = row
      BY <2>3
    <2>9. Fresh(t, ans[t].v.key, ans[t].v.row)'
      BY <1>1, <2>3, <2>6, <2>8 DEF Fresh
    <2> QED BY <1>1, <1>2, <2>3, <2>7, <2>8, <2>9 DEF SweepInv
  <1> QED BY <1>4, <1>5 DEF ServeNext

LEMMA SweepServe ==
    ASSUME CallsInv, NEW t \in Tasks, SweepInv(t), Serve(t)
    PROVE  SweepInv(t)'
  <1>1. CASE ServeMissing(t) \/ ServeReject(t) \/ ServeHas(t)
    <2>1. Types /\ AllThere(t) \in Seq(BOOLEAN)
      BY RowsRead DEF CallsInv
    <2>2. PICK is \in {"undefined", "rejected", "booleans"} : \E v \in Served1 : Reply(t, is, v)
      BY <1>1, <2>1, AnswerTypes DEF ServeMissing, ServeReject, ServeHas
    <2>3. PICK v \in Served1 : Reply(t, is, v)
      BY <2>2
    <2>4. pc[t] = "asked" /\ UNCHANGED <<data, walk, raced>>
      BY <1>1 DEF ServeMissing, ServeReject, ServeHas, Serving
    <2>5. pc'[t] = "served" /\ ans'[t].is = is /\ UNCHANGED <<req, job, store>>
      BY <2>1, <2>3, Replied
    <2> QED BY <2>4, <2>5, SweepServed, RacedAt
  <1>2. CASE ServeRead(t)
    BY <1>2, SweepRead
  <1>3. CASE ServeWrite(t)
    <2>1. /\ pc[t] = "asked" /\ Types /\ Types'
      BY <1>3, ServeWriteInv DEF ServeWrite, Serving, CallsInv
    <2>2. PICK oks \in [DOMAIN req[t].keys -> BOOLEAN] : Reply(t, "booleans", oks) \/ RejectsAfter(t)
      BY <1>3 DEF ServeWrite
    <2>3. Reply(t, "booleans", oks) \/ Reply(t, "rejected", None)
      BY <2>2 DEF RejectsAfter
    <2>4. pc'[t] = "served" /\ ans'[t].is \in {"booleans", "rejected"} /\ UNCHANGED <<req, job, store>>
      BY <2>1, <2>3, Replied
    <2>5. walk' = walk /\ raced[t] \subseteq raced'[t] /\ raced'[t] \subseteq FullKeys
          /\ \A s \in Stores : \A k \in FullKeys : data'[s][k] = data[s][k] \/ k \in raced'[t]
      BY <1>3, <2>1, WriteKeeps DEF Types
    <2> QED BY <2>1, <2>4, <2>5, SweepServed
  <1>4. CASE ServeDelete(t) \/ ServeClear(t)
    <2>1. /\ pc[t] = "asked" /\ Types /\ AllThere(t) \in Seq(BOOLEAN)
      BY <1>4, RowsRead DEF ServeDelete, ServeClear, Serving, CallsInv
    <2>2. PICK is \in {"booleans", "boolean", "rejected", "done"} : \E v \in Served1 : Reply(t, is, v)
      BY <1>4, <2>1, AnswerTypes DEF ServeDelete, ServeClear, RejectsAfter
    <2>3. PICK v \in Served1 : Reply(t, is, v)
      BY <2>2
    <2>4. pc'[t] = "served" /\ ans'[t].is = is /\ UNCHANGED <<req, job, store>>
      BY <2>1, <2>3, Replied
    <2>5. raced' = raced /\ walk'[t].s = walk[t].s
          /\ \A s \in Stores : \A k \in FullKeys : data'[s][k] = data[s][k] \/ data'[s][k] = None
      BY <1>4, RemoveKeeps
    <2> QED BY <2>1, <2>4, <2>5, SweepServed, RacedAt
  <1>5. CASE ServeNext(t)
    BY <1>5, SweepNext
  <1> QED BY <1>1, <1>2, <1>3, <1>4, <1>5 DEF Serve

\* A row found expired dooms its key, and the rows that are left stay fresh.
LEMMA SweepStopped ==
    ASSUME CallsInv, NEW t \in Tasks, job[t].op \in KeyOps,
           NEW rows \in Seq(Rows), NEW full \in Seq(FullKeys), Len(full) = Len(rows),
           \A i \in 1..Len(rows) : rows[i] # None => Fresh(t, full[i], rows[i]),
           Stopped(t, rows, full), SameCall(t),
           now' = now, data' = data, store' = store, raced' = raced
    PROVE  SweepInv(t)'
  <1>1. PICK e \in 1..Len(rows) :
           /\ Expired(rows[e])
           /\ job'[t].rows = Left(rows, e) /\ job'[t].full = SubSeq(full, e, Len(full))
           /\ job'[t].stage = "sweep" /\ pc'[t] = "asked"
           /\ req'[t].s = store[job[t].a] /\ req'[t].keys = <<full[e]>>
    BY DEF Stopped
  <1>2. /\ job'[t].op \in KeyOps /\ job'[t].op \notin WalkOps /\ job'[t].a = job[t].a
    BY DEF SameCall, KeyOps, ReadOps, HasOps, WriteOps, DeleteOps, WalkOps
  <1>3. Len(job'[t].rows) = Len(rows) - e + 1 /\ job'[t].rows[1] = None
    <2>1. Len(Left(rows, e)) = Len(rows) - e + 1
      BY LeftType
    <2>2. Left(rows, e)[1] = None
      BY LeftType
    <2> QED BY <1>1, <2>1, <2>2
  <1>4. \A i \in 2..(Len(rows) - e + 1) : job'[t].rows[i] = rows[e + i - 1]
    <2>1. ASSUME NEW i \in 2..(Len(rows) - e + 1) PROVE Left(rows, e)[i] = rows[e + i - 1]
      BY LeftRest
    <2> QED BY <1>1, <2>1
  <1>5. \A i \in 1..(Len(rows) - e + 1) : job'[t].full[i] = full[e + i - 1]
    <2>1. \A i \in 1..(Len(rows) - e + 1) : SubSeq(full, e, Len(full))[i] = full[e + i - 1]
      BY LeftType
    <2> QED BY <1>1, <2>1
  <1>6. Len(rows) \in Nat /\ e \in 1..Len(rows)
    OBVIOUS
  <1> DEFINE n == Len(rows)
  <1>7. ASSUME NEW i \in 1..Len(job'[t].rows), job'[t].rows[i] # None
        PROVE  Fresh(t, job[t].full[i], job[t].rows[i])'
    <2>0. n \in Nat /\ e \in 1..n /\ i \in 1..(n - e + 1)
      BY <1>3, <1>6, <1>7
    <2> HIDE DEF n
    <2>1. i \in 2..(n - e + 1) /\ e + i - 1 \in 1..n
      BY <1>3, <1>7, <2>0
    <2>2. job'[t].rows[i] = rows[e + i - 1] /\ job'[t].full[i] = full[e + i - 1]
      BY <1>4, <1>5, <2>0, <2>1 DEF n
    <2>3. Fresh(t, full[e + i - 1], rows[e + i - 1])
      BY <1>7, <2>1, <2>2 DEF n
    <2> QED BY <1>2, <2>2, <2>3 DEF Fresh
  <1>8. Fresh(t, full[e], rows[e]) /\ full[e] \in FullKeys
    BY <1>1 DEF Expired
  <1>9. Doomed(t, full[e])
    BY <1>1, <1>8 DEF Fresh, Doomed
  <1>10. \A i \in DOMAIN req'[t].keys : Doomed(t, req[t].keys[i])'
    <2> SUFFICES ASSUME NEW i \in DOMAIN req'[t].keys PROVE Doomed(t, req[t].keys[i])'
      OBVIOUS
    <2>1. req'[t].keys[i] = full[e]
      BY <1>1
    <2> QED BY <1>2, <1>9, <2>1 DEF Doomed, Expired
  <1>11. SameStore(t, req[t].s)'
    BY <1>1, <1>2 DEF SameStore
  <1> QED BY <1>1, <1>2, <1>7, <1>10, <1>11 DEF SweepInv

LEMMA SweepGoOn ==
    ASSUME CallsInv, NEW t \in Tasks, SweepInv(t), GoOn(t)
    PROVE  SweepInv(t)'
  <1>1. pc[t] = "served" /\ UNCHANGED <<now, data, store, raced, walk>> /\ Types /\ CallInv(t)
    BY DEF GoOn, Rejected, DeleteCaught, GotRows, Swept, GotBooleans, GotUndefined, IteratorEntry,
           IteratorSwept, IteratorEnd, ClearEntry, ClearCollected, ClearDeleted, Resume, fixed, CallsInv
  <1>2. job[t].op \in KeyOps \cup WalkOps
    BY RacedAt DEF JobType
  <1>3. CASE Rejected(t) \/ IteratorEnd(t)
    BY <1>3, RejectedInv, IteratorEndInv, SweepOver
  <1>4. CASE DeleteCaught(t) \/ GotBooleans(t) \/ GotUndefined(t)
    <2>1. job[t].op \in KeyOps
      BY <1>2, <1>4, BooleansType DEF DeleteCaught, Catches, GotUndefined, KeyOps, DeleteOps
    <2>2. GoesOn(t) /\ job'[t].stage = "run"
      BY <1>4, DeleteCaughtInv, GotBooleansInv, GotUndefinedInv
    <2> QED BY <2>1, <2>2, SweepRun DEF GoesOn, SameCall
  <1>5. CASE GotRows(t)
    <2> DEFINE rows == ans[t].v
               full == req[t].keys
    <2>1. /\ ans[t].is = "rows" /\ job[t].op \in KeyOps /\ SameCall(t)
          /\ rows \in Seq(Rows) /\ Len(rows) = Len(full) /\ (AllHanded(t, rows) \/ Stopped(t, rows, full))
      BY <1>5, GotRowsInv DEF KeyOps
    <2>2. full \in Seq(FullKeys)
      BY RacedAt
    <2>3. \A i \in 1..Len(rows) : rows[i] # None => Fresh(t, full[i], rows[i])
      BY <1>1, <2>1 DEF SweepInv
    <2>4. CASE AllHanded(t, rows)
      BY <2>1, <2>4, SweepRun DEF AllHanded, GoesOn, SameCall
    <2>5. CASE Stopped(t, rows, full)
      <3> HIDE DEF rows, full
      <3>1. now' = now /\ data' = data /\ store' = store /\ raced' = raced /\ Len(full) = Len(rows)
            /\ job[t].op \in KeyOps /\ SameCall(t) /\ rows \in Seq(Rows)
        BY <1>1, <2>1
      <3> QED BY <2>2, <2>3, <2>5, <3>1, SweepStopped
    <2> QED BY <2>1, <2>4, <2>5
  <1>6. CASE Swept(t)
    <2> DEFINE rows == job[t].rows
               full == job[t].full
    <2>1. /\ job[t].stage = "sweep" /\ job[t].op \in KeyOps /\ SameCall(t) /\ full \in Seq(FullKeys)
          /\ rows \in Seq(Rows) /\ Len(full) = Len(rows) /\ (AllHanded(t, rows) \/ Stopped(t, rows, full))
      BY <1>6, SweptInv DEF KeyOps, RowsLeft
    <2>2. \A i \in 1..Len(rows) : rows[i] # None => Fresh(t, full[i], rows[i])
      BY <1>1, <2>1 DEF SweepInv
    <2>3. CASE AllHanded(t, rows)
      BY <2>1, <2>3, SweepRun DEF AllHanded, GoesOn, SameCall
    <2>4. CASE Stopped(t, rows, full)
      <3> HIDE DEF rows, full
      <3>1. now' = now /\ data' = data /\ store' = store /\ raced' = raced /\ Len(full) = Len(rows)
            /\ job[t].op \in KeyOps /\ SameCall(t) /\ rows \in Seq(Rows) /\ full \in Seq(FullKeys)
        BY <1>1, <2>1
      <3> QED BY <2>2, <2>4, <3>1, SweepStopped
    <2> QED BY <2>1, <2>3, <2>4
  <1>7. job[t].op \in WalkOps => IF req[t].m = "clear" THEN job[t].full = <<>> ELSE SameStore(t, walk[t].s)
    BY <1>1 DEF SweepInv
  <1>8. \A s : SameStore(t, s) /\ job'[t].a = job[t].a => SameStore(t, s)'
    BY <1>1 DEF SameStore
  <1>9. CASE IteratorEntry(t) \/ IteratorSwept(t)
    <2>1. /\ job'[t].op = "iterator" /\ job'[t].a = job[t].a /\ pc'[t] = "asked"
          /\ job'[t].stage \in {"run", "sweep"} /\ CallInv(t)'
          /\ job'[t].stage = "sweep" => /\ IteratorEntry(t) /\ Expired(ans[t].v.row)
                                        /\ req'[t].s = store[job[t].a] /\ req'[t].keys = <<ans[t].v.key>>
      BY <1>9, IteratorEntryInv, IteratorSweptInv
    <2>2. job[t].op = "iterator" /\ req[t].m # "clear" /\ req'[t].m # "clear"
      <3>1. job[t].op = "iterator"
        BY <1>9 DEF IteratorEntry, IteratorSwept
      <3>2. req[t].m # "clear"
        BY <1>1, <3>1, RequestOf
      <3>3. req'[t].m # "clear"
        BY <2>1 DEF CallInv, Asks
      <3> QED BY <3>1, <3>2, <3>3
    <2>3. SameStore(t, walk[t].s)'
      <3>1. SameStore(t, walk[t].s)
        BY <1>7, <2>2 DEF WalkOps
      <3> QED BY <1>1, <2>1, <3>1 DEF SameStore
    <2>4. job'[t].stage = "sweep" => Doomed(t, ans[t].v.key)
      <3>1. IteratorEntry(t) => Fresh(t, ans[t].v.key, ans[t].v.row)
        BY <1>1 DEF IteratorEntry, Resume, SweepInv
      <3> QED BY <2>1, <3>1 DEF Fresh, Doomed
    <2>5. job'[t].stage = "sweep" => \A i \in DOMAIN req'[t].keys : Doomed(t, req[t].keys[i])'
      <3> SUFFICES ASSUME job'[t].stage = "sweep", NEW i \in DOMAIN req'[t].keys
                   PROVE  Doomed(t, req[t].keys[i])'
        OBVIOUS
      <3>1. req'[t].keys[i] = ans[t].v.key
        BY <2>1
      <3> QED BY <1>1, <2>1, <2>4, <3>1 DEF Doomed, Expired
    <2>6. job'[t].stage = "sweep" => SameStore(t, req[t].s)'
      BY <1>1, <2>1 DEF SameStore
    <2>7. job'[t].op \notin KeyOps /\ job'[t].op # "clear"
      BY <2>1 DEF KeyOps, ReadOps, HasOps, WriteOps, DeleteOps
    <2> QED BY <2>1, <2>2, <2>3, <2>5, <2>6, <2>7 DEF SweepInv
  <1>10. CASE ClearEntry(t)
    <2>1. /\ job'[t].op = "clear" /\ job'[t].a = job[t].a /\ pc'[t] = "asked" /\ req'[t].m = "iterator"
          /\ job'[t].stage = "run" /\ job[t].op = "clear"
      BY <1>10, ClearEntryInv DEF ClearEntry
    <2>2. req[t].m = "iterator"
      BY <1>1, <1>10, ClearAnswered DEF ClearEntry, Resume
    <2>3. SameStore(t, walk[t].s)'
      <3>1. SameStore(t, walk[t].s)
        BY <1>7, <2>1, <2>2 DEF WalkOps
      <3> QED BY <1>1, <2>1, <3>1 DEF SameStore
    <2>4. job'[t].op \notin KeyOps
      BY <2>1 DEF KeyOps, ReadOps, HasOps, WriteOps, DeleteOps
    <2> QED BY <2>1, <2>3, <2>4 DEF SweepInv
  <1>11. CASE ClearCollected(t) \/ ClearDeleted(t)
    <2>1. /\ job'[t].op = "clear" /\ job'[t].a = job[t].a /\ job'[t].stage = "run" /\ job[t].op = "clear"
          /\ job'[t].full = IF ans[t].is = "booleans" THEN Tail(job[t].full) ELSE job[t].full
          /\ \/ job'[t].full = <<>> /\ pc'[t] = "resolved"
             \/ /\ job'[t].full # <<>> /\ pc'[t] = "asked" /\ req'[t].m = "delete"
                /\ req'[t].s = store[job[t].a]
      BY <1>11, ClearDeletesInv DEF ClearCollected, ClearDeleted
    <2>2. CASE pc'[t] = "resolved"
      BY <2>2, SweepOver
    <2>3. CASE pc'[t] = "asked"
      <3>1. job'[t].full # <<>> /\ req'[t].m = "delete" /\ req'[t].s = store[job[t].a]
        BY <2>1, <2>3
      <3>2. req[t].m # "clear"
        <4>1. CASE ans[t].is = "booleans"
          BY <1>1, <2>1, <4>1, ClearAnswered
        <4>2. CASE ans[t].is # "booleans"
          BY <1>1, <1>7, <2>1, <3>1, <4>2 DEF WalkOps
        <4> QED BY <4>1, <4>2
      <3>3. SameStore(t, walk[t].s)' /\ SameStore(t, req[t].s)'
        <4>1. SameStore(t, walk[t].s)
          BY <1>7, <2>1, <3>2 DEF WalkOps
        <4> QED BY <1>1, <2>1, <3>1, <4>1 DEF SameStore
      <3>4. job'[t].op \notin KeyOps
        BY <2>1 DEF KeyOps, ReadOps, HasOps, WriteOps, DeleteOps
      <3> QED BY <2>1, <2>3, <3>1, <3>3, <3>4 DEF SweepInv
    <2> QED BY <2>1, <2>2, <2>3
  <1> QED BY <1>3, <1>4, <1>5, <1>6, <1>9, <1>10, <1>11 DEF GoOn

LEMMA SweepStep ==
    ASSUME CallsInv, NEW t \in Tasks, SweepInv(t), Step(t)
    PROVE  SweepInv(t)'
  BY SweepEnter, SweepServe, SweepGoOn DEF Step

---------------------------------------------------------------------------
(* The clears: every key of the namespace is yielded, listed and deleted *)

\* A step that a walking clear does not take.
LEMMA ClearOther ==
    ASSUME NEW t \in Tasks,
           \/ job'[t].op # "clear"
           \/ pc'[t] \in {"idle", "rejected"}
           \/ pc'[t] = "served" /\ req'[t].m \notin {"iterator", "delete"}
           \/ ~Served(t)'
    PROVE  ClearInv(t)'
  BY DEF ClearInv, Clearing, ClearKey

LEMMA ClearEnter ==
    ASSUME CallsInv, NEW t \in Tasks, NEW a \in Adapters, CallKeys(t, a) \/ CallWalk(t, a)
    PROVE  ClearInv(t)'
  <1>1. CASE CallKeys(t, a)
    <2>1. job'[t].op \in KeyOps
      BY <1>1, CallKeysInv
    <2> QED BY <2>1, ClearOther DEF KeyOps, ReadOps, HasOps, WriteOps, DeleteOps
  <1>2. CASE CallWalk(t, a)
    <2>1. /\ pc'[t] \in {"asked", "resolved"} /\ CallInv(t)' /\ data' = data
          /\ pc'[t] = "resolved" => job'[t].op = "iterator"
          /\ pc'[t] = "asked" => \/ req'[t].m = "clear"
                                 \/ /\ req'[t].m = "iterator"
                                    /\ \A k \in FullKeys : data[walk'[t].s][k] = None \/ k \in walk'[t].due
      BY <1>2, CallWalkInv
    <2>2. CASE pc'[t] = "resolved"
      BY <2>1, <2>2, ClearOther
    <2>3. CASE pc'[t] = "asked"
      <3>1. Clearing(t)' => req'[t].m # "clear"
        BY <2>1, <2>3 DEF CallInv, Asks, Clearing
      <3>2. ASSUME req'[t].m = "iterator", NEW k \in FullKeys PROVE ClearKey(t, k)'
        <4>1. data[walk'[t].s][k] = None \/ k \in walk'[t].due
          BY <2>1, <2>3, <3>2
        <4> QED BY <2>1, <2>3, <3>2, <4>1 DEF ClearKey, Remains, Cleared
      <3> QED BY <2>1, <2>3, <3>1, <3>2 DEF ClearInv
    <2> QED BY <2>1, <2>2, <2>3
  <1> QED BY <1>1, <1>2

LEMMA ClearStarved ==
    ASSUME CallsInv, NEW t \in Tasks, ServeMissing(t)
    PROVE  ~Served(t)'
  <1>1. Tell(t, <<None>>) /\ <<None>> \in Seq(ToldType)
    BY DEF ServeMissing, ToldType
  <1>2. told'[t] = told[t] \o <<None>> /\ told[t] \in Seq(ToldType)
    BY <1>1, ToldBefore
  <1>3. Len(told[t]) + 1 \in DOMAIN told'[t] /\ told'[t][Len(told[t]) + 1] = None
    BY <1>2
  <1> QED BY <1>3 DEF Served

\* A walking clear whose delete was served: its first key is gone.
LEMMA ClearServesDelete ==
    ASSUME CallsInv, NEW t \in Tasks, SweepInv(t), ClearInv(t), ServeDelete(t)
    PROVE  ClearInv(t)'
  <1>1. /\ pc[t] = "asked" /\ Types /\ CallInv(t) /\ AllThere(t) \in Seq(BOOLEAN)
    BY RowsRead DEF ServeDelete, Serving, CallsInv
  <1>2. PICK is \in {"booleans", "boolean", "rejected"} : \E v \in Served1 : Reply(t, is, v)
    BY <1>1, AnswerTypes DEF ServeDelete, RejectsAfter
  <1>3. PICK v \in Served1 : Reply(t, is, v)
    BY <1>2
  <1>4. pc'[t] = "served" /\ UNCHANGED <<req, job, store, native>> /\ told' = told
    BY <1>1, <1>3, Replied DEF ServeDelete
  <1>5. raced' = raced /\ walk'[t].s = walk[t].s /\ walk[t].s \in Stores /\ req[t].s \in Stores
        /\ \A s \in Stores : \A k \in FullKeys : data'[s][k] \in {data[s][k], None}
        /\ \A i \in DOMAIN req[t].keys : data'[req[t].s][req[t].keys[i]] = None
    BY RemoveKeeps, RacedAt
  <1>6. CASE req[t].m # "delete" \/ job[t].op # "clear"
    <2>1. req[t].m \in {"delete", "deleteMany"}
      BY DEF ServeDelete, Serving
    <2> QED BY <1>4, <1>6, <2>1, ClearOther
  <1>7. CASE req[t].m = "delete" /\ job[t].op = "clear"
    <2>1. job[t].full # <<>> /\ req[t].keys = <<Head(job[t].full)>> /\ job[t].full \in Seq(FullKeys)
      BY <1>1, <1>7, RacedAt DEF CallInv, Asks, JobType
    <2>2. data'[req[t].s][job[t].full[1]] = None
      BY <1>5, <2>1
    <2>3. SameStore(t, req[t].s) /\ SameStore(t, walk[t].s)
      BY <1>1, <1>7 DEF SweepInv, WalkOps
    <2>4. ASSUME NEW k \in FullKeys, ClearKey(t, k) PROVE ClearKey(t, k)'
      <3>1. Cleared(t, k) \/ Listed(t, k)
        BY <1>1, <1>7, <2>4 DEF ClearKey, Remains
      <3>2. Cleared(t, k) => Cleared(t, k)'
        BY <1>5 DEF Cleared
      <3>3. Listed(t, k) => Cleared(t, k)' \/ \E i \in 2..Len(job'[t].full) : job'[t].full[i] = k
        <4> SUFFICES ASSUME NEW i \in 1..Len(job[t].full), job[t].full[i] = k,
                            ~(\E m \in 2..Len(job[t].full) : job[t].full[m] = k)
                     PROVE  Cleared(t, k)'
          BY <1>4 DEF Listed
        <4>1. i = 1
          BY <2>1
        <4>2. data'[req[t].s][k] = None
          BY <2>2, <4>1
        <4> QED BY <1>5, <2>3, <4>2 DEF Cleared, SameStore
      <3> QED BY <1>4, <1>7, <3>1, <3>2, <3>3 DEF ClearKey
    <2> QED BY <1>4, <2>4 DEF ClearInv, Clearing, Served
  <1> QED BY <1>6, <1>7

LEMMA ClearServesNext ==
    ASSUME CallsInv, NEW t \in Tasks, ClearInv(t), ServeNext(t) \/ ServeReject(t)
    PROVE  ClearInv(t)'
  <1>1. /\ pc[t] = "asked" /\ Types /\ UNCHANGED <<data, told>>
    BY DEF ServeNext, ServeReject, Serving, CallsInv
  <1>2. walk \in [Tasks -> WalkType] /\ raced \in [Tasks -> SUBSET FullKeys]
    BY <1>1 DEF Types
  <1>3. ASSUME pc'[t] = "served", UNCHANGED <<req, job, store, native>>,
               \A k \in FullKeys : ClearKey(t, k) => ClearKey(t, k)'
        PROVE  ClearInv(t)'
    BY <1>1, <1>3 DEF ClearInv, Clearing, Served
  <1>4. CASE ServeReject(t)
    <2>1. Reply(t, "rejected", None) /\ UNCHANGED <<walk, raced>>
      BY <1>4 DEF ServeReject
    <2>2. pc'[t] = "served" /\ ans'[t].is = "rejected" /\ UNCHANGED <<req, job, store, native>>
      BY <1>1, <2>1, Replied
    <2>3. \A k \in FullKeys : ClearKey(t, k) => ClearKey(t, k)'
      BY <1>1, <2>1, <2>2 DEF ClearKey, Remains, Cleared, Listed
    <2> QED BY <1>3, <2>2, <2>3
  <1>5. CASE ServeNext(t) /\ walk[t].due = {} /\ Reply(t, "done", None) /\ UNCHANGED <<walk, raced>>
    <2>1. pc'[t] = "served" /\ ans'[t].is = "done" /\ UNCHANGED <<req, job, store, native>> /\ req[t].m = "iterator"
      BY <1>1, <1>5, Replied DEF ServeNext, Serving
    <2>2. \A k \in FullKeys : ClearKey(t, k) => ClearKey(t, k)'
      BY <1>1, <1>5, <2>1 DEF ClearKey, Remains, Cleared, Listed
    <2> QED BY <1>3, <2>1, <2>2
  <1>6. ASSUME ServeNext(t), NEW x \in FullKeys, data[req[t].s][x] # None,
               Reply(t, "entry", [key |-> x, row |-> data[req[t].s][x]]),
               walk' = [walk EXCEPT ![t].due = @ \ {x}, ![t].done = @ \cup {x}],
               raced' = [raced EXCEPT ![t] = IF Current(t) THEN @ \ {x} ELSE @]
        PROVE  ClearInv(t)'
    <2> DEFINE v == [key |-> x, row |-> data[req[t].s][x]]
    <2>1. v.key = x
      OBVIOUS
    <2>2. Reply(t, "entry", v)
      BY <1>6
    <2> HIDE DEF v
    <2>3. pc'[t] = "served" /\ ans'[t].is = "entry" /\ ans'[t].v.key = x
          /\ UNCHANGED <<req, job, store, native>> /\ req[t].m = "iterator"
      BY <1>1, <1>6, <2>1, <2>2, Replied DEF ServeNext, Serving
    <2>4. walk'[t].s = walk[t].s /\ walk'[t].due = walk[t].due \ {x} /\ \A k \in raced[t] : k \in raced'[t] \/ k = x
      BY <1>2, <1>6 DEF WalkType
    <2>5. ASSUME NEW k \in FullKeys, ClearKey(t, k) PROVE ClearKey(t, k)'
      <3>1. Remains(t, k) \/ k \in walk[t].due
        BY <1>1, <2>3, <2>5 DEF ClearKey
      <3>2. k # x => (Remains(t, k) => Remains(t, k)') /\ (k \in walk[t].due => k \in walk'[t].due)
        BY <1>1, <2>3, <2>4 DEF Remains, Cleared, Listed
      <3> QED BY <2>3, <3>1, <3>2 DEF ClearKey
    <2> QED BY <1>3, <2>3, <2>5
  <1> QED BY <1>4, <1>5, <1>6 DEF ServeNext

LEMMA ClearServe ==
    ASSUME CallsInv, NEW t \in Tasks, SweepInv(t), ClearInv(t), Serve(t)
    PROVE  ClearInv(t)'
  <1>1. CASE ServeMissing(t)
    BY <1>1, ClearStarved, ClearOther
  <1>2. CASE ServeRead(t) \/ ServeHas(t) \/ ServeWrite(t) \/ ServeClear(t)
    <2>1. req[t].m \notin {"iterator", "delete"}
      BY <1>2 DEF ServeRead, ServeHas, ServeWrite, ServeClear, Serving
    <2>2. pc'[t] = "served" /\ req' = req
      <3>1. \E is, v : Reply(t, is, v)
        BY <1>2 DEF ServeRead, ServeHas, ServeWrite, ServeClear, RejectsAfter
      <3> QED BY <3>1 DEF Reply, Set, CallsInv, Types
    <2> QED BY <2>1, <2>2, ClearOther
  <1>3. CASE ServeReject(t) \/ ServeNext(t)
    BY <1>3, ClearServesNext
  <1>4. CASE ServeDelete(t)
    BY <1>4, ClearServesDelete
  <1> QED BY <1>1, <1>2, <1>3, <1>4 DEF Serve

LEMMA ClearGoOn ==
    ASSUME CallsInv, NEW t \in Tasks, ToldInv(t), ClearInv(t), GoOn(t)
    PROVE  ClearInv(t)'
  <1>1. /\ pc[t] = "served" /\ UNCHANGED <<now, data, store, native, raced, walk, told>> /\ Types /\ CallInv(t)
    BY DEF GoOn, Rejected, DeleteCaught, GotRows, Swept, GotBooleans, GotUndefined, IteratorEntry,
           IteratorSwept, IteratorEnd, ClearEntry, ClearCollected, ClearDeleted, Resume, fixed, CallsInv
  <1>2. job[t].op \in KeyOps \cup WalkOps /\ "clear" \notin KeyOps
    BY RacedAt DEF JobType, KeyOps, ReadOps, HasOps, WriteOps, DeleteOps
  <1>3. CASE Rejected(t)
    BY <1>3, RejectedInv, ClearOther
  <1>4. CASE DeleteCaught(t) \/ GotBooleans(t) \/ GotUndefined(t) \/ GotRows(t) \/ Swept(t)
    <2>1. job[t].op \in KeyOps
      BY <1>2, <1>4, BooleansType, GotRowsInv, SweptInv DEF DeleteCaught, Catches, GotUndefined, KeyOps, DeleteOps
    <2>2. SameCall(t)
      BY <1>4, DeleteCaughtInv, GotBooleansInv, GotUndefinedInv, GotRowsInv, SweptInv DEF GoesOn
    <2> QED BY <1>2, <2>1, <2>2, ClearOther DEF SameCall
  <1>5. CASE IteratorEntry(t) \/ IteratorSwept(t) \/ IteratorEnd(t)
    <2>1. job'[t].op = "iterator"
      BY <1>5, IteratorEntryInv, IteratorSweptInv, IteratorEndInv DEF IteratorEnd
    <2> QED BY <2>1, ClearOther
  <1>6. ASSUME ClearEntry(t) \/ ClearCollected(t) \/ ClearDeleted(t),
               Clearing(t), Served(t),
               NEW k \in FullKeys, InNamespace(k, job[t].ns)
        PROVE  ClearKey(t, k)'
    <2>0. /\ job[t].op = "clear" /\ ClearKey(t, k) /\ req[t].m # "clear" /\ job[t].full \in Seq(FullKeys)
      BY <1>1, <1>6, RacedAt DEF Clearing, ClearInv, CallInv, Asks, JobType
    <2> DEFINE full == job[t].full
    <2>1. Cleared(t, k)' = Cleared(t, k)
      BY <1>1 DEF Cleared
    <2>2. CASE ClearEntry(t)
      <3> DEFINE key == ans[t].v.key
      <3>1. ans[t].is = "entry" /\ req[t].m = "iterator" /\ key \in FullKeys
        BY <1>1, <2>0, <2>2, ClearAnswered DEF ClearEntry, Resume
      <3>2. pc'[t] = "asked" /\ req'[t].m = "iterator"
            /\ job'[t].full = IF InNamespace(key, job[t].ns) THEN Append(full, key) ELSE full
        BY <2>2, ClearEntryInv
      <3>3. Remains(t, k) \/ k \in walk[t].due \/ key = k
        BY <1>1, <2>0, <3>1 DEF ClearKey
      <3>4. Listed(t, k) \/ key = k => Listed(t, k)'
        <4> HIDE DEF key, full
        <4>1. full \in Seq(FullKeys) /\ key \in FullKeys
          BY <2>0, <3>1 DEF full
        <4>2. /\ Len(Append(full, key)) = Len(full) + 1 /\ Append(full, key)[Len(full) + 1] = key
              /\ \A i \in 1..Len(full) : Append(full, key)[i] = full[i] /\ i \in 1..(Len(full) + 1)
              /\ Len(full) + 1 \in 1..(Len(full) + 1)
          BY <4>1
        <4>3. key = k => job'[t].full = Append(full, key)
          BY <1>6, <3>2
        <4>4. key = k => Listed(t, k)'
          BY <4>2, <4>3 DEF Listed
        <4>5. Listed(t, k) => Listed(t, k)'
          BY <3>2, <4>2 DEF Listed, full
        <4> QED BY <4>4, <4>5
      <3> QED BY <1>1, <2>1, <3>2, <3>3, <3>4 DEF ClearKey, Remains
    <2>3. CASE ClearCollected(t)
      <3>1. ans[t].is \in {"done", "undefined"}
        BY <2>3 DEF ClearCollected, Resume
      <3>2. ans[t].is = "done" /\ req[t].m = "iterator"
        BY <1>1, <1>6, <2>0, <3>1, ClearAnswered DEF ToldInv
      <3>3. Remains(t, k)
        BY <1>1, <2>0, <3>2 DEF ClearKey
      <3>4. /\ job'[t].full = full
            /\ (full = <<>> /\ pc'[t] = "resolved") \/ (pc'[t] = "asked" /\ req'[t].m = "delete")
        <4>1. job'[t].full = IF ans[t].is = "booleans" THEN Tail(job[t].full) ELSE job[t].full
          BY <2>3, ClearDeletesInv
        <4>2. \/ job'[t].full = <<>> /\ pc'[t] = "resolved"
              \/ pc'[t] = "asked" /\ req'[t].m = "delete"
          BY <2>3, ClearDeletesInv
        <4> QED BY <3>2, <4>1, <4>2
      <3>5. Listed(t, k)' = Listed(t, k) /\ (full = <<>> => ~Listed(t, k))
        BY <3>4 DEF Listed
      <3> QED BY <2>1, <3>3, <3>4, <3>5 DEF ClearKey, Remains
    <2>4. CASE ClearDeleted(t)
      <3>1. ans[t].is = "booleans" /\ req[t].m = "delete" /\ full # <<>>
        BY <1>1, <2>0, <2>4, ClearAnswered DEF ClearDeleted, Resume
      <3>2. Cleared(t, k) \/ \E i \in 2..Len(full) : full[i] = k
        BY <1>1, <2>0, <3>1 DEF ClearKey
      <3>3. /\ job'[t].full = Tail(full)
            /\ \/ job'[t].full = <<>> /\ pc'[t] = "resolved"
               \/ pc'[t] = "asked" /\ req'[t].m = "delete"
        BY <2>4, <3>1, ClearDeletesInv
      <3>4. (\E i \in 2..Len(full) : full[i] = k) => Listed(t, k)'
        <4> HIDE DEF full
        <4>1. full \in Seq(FullKeys) /\ full # <<>>
          BY <2>0, <3>1 DEF full
        <4>2. \A i \in 2..Len(full) : i - 1 \in 1..Len(Tail(full)) /\ Tail(full)[i - 1] = full[i]
          BY <4>1
        <4> QED BY <3>3, <4>2 DEF Listed
      <3>5. job'[t].full = <<>> => ~Listed(t, k)'
        BY DEF Listed
      <3> QED BY <2>1, <3>2, <3>3, <3>4, <3>5 DEF ClearKey, Remains
    <2> QED BY <1>6, <2>2, <2>3, <2>4
  <1>7. CASE ClearEntry(t) \/ ClearCollected(t) \/ ClearDeleted(t)
    <2>1. job'[t].op = "clear" /\ job'[t].a = job[t].a /\ job'[t].ns = job[t].ns /\ job[t].op = "clear"
      BY <1>7, ClearEntryInv, ClearDeletesInv DEF ClearEntry, ClearCollected, ClearDeleted
    <2> QED BY <1>1, <1>6, <1>7, <2>1 DEF ClearInv, Clearing, Served
  <1> QED BY <1>3, <1>4, <1>5, <1>7 DEF GoOn

LEMMA ClearStep ==
    ASSUME CallsInv, NEW t \in Tasks, ToldInv(t), SweepInv(t), ClearInv(t), Step(t)
    PROVE  ClearInv(t)'
  BY ClearEnter, ClearServe, ClearGoOn DEF Step

---------------------------------------------------------------------------
(* The theorems about the stores *)

LEMMA StoresStep == ASSUME StoresInv, [Next]_vars PROVE StoresInv'
  <1>1. CallsInv /\ ToldsInv /\ ToldsInv' /\ CallsInv' /\ \A t \in Tasks : ToldInv(t) /\ SweepInv(t) /\ ClearInv(t)
    BY ToldsStep DEF StoresInv, ToldsInv
  <1>2. ASSUME NEW t \in Tasks, Step(t), NEW u \in Tasks PROVE SweepInv(u)' /\ ClearInv(u)'
    <2>1. CASE u = t
      BY <1>1, <1>2, <2>1, SweepStep, ClearStep
    <2>2. CASE u # t
      <3>1. Keeps(u)
        BY <1>1, <1>2, <2>2, StepKeeps
      <3> QED BY <1>1, <3>1, SweepFrame, ClearFrame
    <2> QED BY <2>1, <2>2
  <1>3. ASSUME Apart, NEW u \in Tasks PROVE SweepInv(u)' /\ ClearInv(u)'
    BY <1>1, <1>3, ApartKeeps, SweepFrame, ClearFrame
  <1>4. \A u \in Tasks : SweepInv(u)' /\ ClearInv(u)'
    BY <1>2, <1>3, NextSplits
  <1> QED BY <1>1, <1>4 DEF StoresInv

LEMMA StoresInit == Init => StoresInv
  <1> SUFFICES ASSUME Init PROVE StoresInv
    OBVIOUS
  <1>1. ToldsInv
    BY ToldsInit
  <1>2. \A t \in Tasks : pc[t] = "idle"
    BY DEF Init
  <1>3. \A t \in Tasks : SweepInv(t) /\ ClearInv(t)
    BY <1>2 DEF SweepInv, ClearInv, ClearKey
  <1> QED BY <1>1, <1>3 DEF StoresInv

\* What a call is about to delete because it read it expired is gone or
\* expired, unless it was written, or the store replaced, since that read
\* (get, getMany, has, hasMany and iterator).
THEOREM SweepsStaySafe == Spec => []SweepSafe
  <1>1. Init => StoresInv
    BY StoresInit
  <1>2. StoresInv /\ [Next]_vars => StoresInv'
    BY StoresStep
  <1>3. StoresInv => SweepSafe
    <2> SUFFICES ASSUME StoresInv, NEW t \in Tasks, pc[t] = "asked", job[t].stage = "sweep",
                        NEW i \in DOMAIN req[t].keys
                 PROVE  \/ req[t].keys[i] \in raced[t]
                        \/ At(t, i) = None
                        \/ Expired(At(t, i))
      BY DEF SweepSafe
    <2>1. CallsInv /\ SweepInv(t)
      BY DEF StoresInv, ToldsInv
    <2>2. SameStore(t, req[t].s) /\ Doomed(t, req[t].keys[i])
      BY <2>1 DEF SweepInv
    <2>3. req[t].keys[i] \in FullKeys
      BY <2>1, RowsRead DEF CallsInv
    <2> QED BY <2>2, <2>3 DEF SameStore, Doomed, At
  <1> QED BY <1>1, <1>2, <1>3, PTL DEF Spec

\* A clear that walks over the store (a namespace is set and the store has an
\* iterator) resolves with nothing left in its namespace but what was written
\* while it ran, and what a store holds that was put in place meanwhile.
THEOREM ClearsStayComplete == Spec => []ClearComplete
  <1>1. Init => StoresInv
    BY StoresInit
  <1>2. StoresInv /\ [Next]_vars => StoresInv'
    BY StoresStep
  <1>3. StoresInv => ClearComplete
    BY DEF StoresInv, ClearInv, ClearKey, Cleared, ClearComplete
  <1> QED BY <1>1, <1>2, <1>3, PTL DEF Spec
=============================================================================
