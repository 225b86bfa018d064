--------------------------- MODULE StorelyProofs ---------------------------
(* Proofs about Storely, for every value of its constants. *)
EXTENDS Storely, FiniteSetTheorems, WellFoundedInduction, TLAPS

\* A function on 1..n is a sequence.
LEMMA SeqIntro ==
    ASSUME NEW S, NEW n \in Nat, NEW f \in [1..n -> S]
    PROVE  f \in Seq(S) /\ Len(f) = n /\ DOMAIN f = 1..n
  OBVIOUS

\* Updating one task's slot keeps a per-task variable in its type.
LEMMA UpdateType ==
    ASSUME NEW S, NEW f \in [Tasks -> S], NEW t \in Tasks, NEW x \in S
    PROVE  [f EXCEPT ![t] = x] \in [Tasks -> S]
  OBVIOUS

\* What the types say about one call's arguments.
LEMMA ArgFacts ==
    ASSUME TypeOK, NEW t \in Tasks
    PROVE  /\ Args(t) \in Seq(Arg) /\ Op(t) \in AllOps /\ Len(Args(t)) \in Nat
           /\ \A i \in Index(t) : /\ Args(t)[i] \in Arg /\ KeyAt(t, i) \in Keys
                                  /\ Args(t)[i] \in ArgOf(Op(t))
  <1>1. call[t] \in Call
    BY DEF TypeOK
  <1>2. Args(t) \in Seq(Arg) /\ Args(t) \in Seq(ArgOf(Op(t))) /\ Op(t) \in AllOps
    BY <1>1 DEF Call, Args, Op
  <1>3. /\ Len(Args(t)) \in Nat
        /\ \A i \in Index(t) : Args(t)[i] \in Arg /\ Args(t)[i] \in ArgOf(Op(t))
    BY <1>2 DEF Index
  <1> QED BY <1>2, <1>3 DEF KeyAt, Arg

\* A per-position result of a call is a sequence of the same length.
LEMMA FetchType ==
    ASSUME TypeOK, NEW k \in Keys
    PROVE  Fetch(k) \in Entry \cup {None}
  BY DEF TypeOK, Fetch

LEMMA StoreWritten ==
    ASSUME NEW es, NEW W, \A j \in W : es[j] \in EncEntry, TypeOK
    PROVE  Written(es, W) \in [Keys -> Entry \cup {None}]
  <1> SUFFICES ASSUME NEW k \in Keys PROVE Written(es, W)[k] \in Entry \cup {None}
    BY DEF Written
  <1>1. \A j \in W : Stamp(es[j], now) \in Entry
    BY DataAssumption DEF TypeOK, Stamp, Entry, EncEntry, Times, CalculateExpires
  <1> QED BY <1>1 DEF Written, TypeOK

LEMMA StoreWithout ==
    ASSUME NEW K, TypeOK
    PROVE  Without(K) \in [Keys -> Entry \cup {None}]
  BY DEF Without, TypeOK

\* Telemetry counters stay natural numbers.
LEMMA CountType ==
    ASSUME TypeOK, NEW t \in Tasks, NEW n \in Nat,
           NEW f \in {"hit", "miss", "set", "delete", "error"}, Count(t, f, n)
    PROVE  tele' \in [Tasks -> Tele]
  <1>1. tele[t] \in Tele
    BY DEF TypeOK
  <1>2. [tele[t] EXCEPT ![f] = @ + n] \in Tele
    BY <1>1 DEF Tele
  <1> QED BY <1>2 DEF Count, TypeOK

LEMMA ErrorType ==
    ASSUME TypeOK, NEW t \in Tasks, NEW n \in Nat, NEW p \in Finished \cup Busy,
           EmitError(t, n, p)
    PROVE  tele' \in [Tasks -> Tele] /\ pc' \in [Tasks -> Finished \cup Busy]
  <1>1. tele[t] \in Tele
    BY DEF TypeOK
  <1>2. tele[t].error \in Nat /\ tele[t].error + n \in Nat
    BY <1>1 DEF Tele
  <1>3. tele' \in [Tasks -> Tele]
    <2> DEFINE e == IF ThrowOnErrors THEN tele[t].error ELSE tele[t].error + n
               x == [tele[t] EXCEPT !.raised = TRUE, !.error = e]
    <2>1. e \in Nat
      BY <1>2
    <2>2. x \in Tele
      <3> HIDE DEF e
      <3> QED BY <1>1, <2>1 DEF Tele
    <2>3. tele' = [tele EXCEPT ![t] = x]
      BY <1>1 DEF EmitError, TypeOK, Tele
    <2> QED BY <2>2, <2>3 DEF TypeOK
  <1>4. pc' \in [Tasks -> Finished \cup Busy]
    BY DEF EmitError, Goto, TypeOK, Finished
  <1> QED BY <1>3, <1>4

LEMMA GotoType ==
    ASSUME TypeOK, NEW t \in Tasks, NEW p \in Finished \cup Busy, Goto(t, p)
    PROVE  pc' \in [Tasks -> Finished \cup Busy]
  BY DEF Goto, TypeOK

LEMMA ReadStoreType == ASSUME TypeOK, NEW t \in Tasks, ReadStore(t) PROVE TypeOK'
  <1>1. rows' \in [Tasks -> Seq(Entry \cup {None})]
    <2>1. [i \in Index(t) |-> Fetch(KeyAt(t, i))] \in Seq(Entry \cup {None})
      BY ArgFacts, FetchType, SeqIntro DEF Index
    <2> QED BY <2>1 DEF ReadStore, Set, TypeOK
  <1>2. racy' \in [Tasks -> SUBSET Keys]
    BY DEF ReadStore, Set, TypeOK
  <1>3. pc' \in [Tasks -> Finished \cup Busy]
    BY DEF ReadStore, Goto, TypeOK, Busy
  <1> QED BY <1>1, <1>2, <1>3 DEF ReadStore, TypeOK

LEMMA ReadRejectedType == ASSUME TypeOK, NEW t \in Tasks, ReadRejected(t) PROVE TypeOK'
  <1>1. tele' \in [Tasks -> Tele] /\ pc' \in [Tasks -> Finished \cup Busy]
    <2>1. CASE EmitError(t, 1, "decode")
      BY <2>1, ErrorType DEF Busy
    <2>2. CASE EmitError(t, Len(Args(t)), "after")
      BY <2>2, ErrorType, ArgFacts DEF Busy
    <2>3. CASE Goto(t, "rejected") /\ UNCHANGED tele
      BY <2>3, GotoType DEF Finished, TypeOK
    <2> QED BY <2>1, <2>2, <2>3 DEF ReadRejected
  <1>2. failed' \in [Tasks -> BOOLEAN]
    BY DEF ReadRejected, Fault, TypeOK
  <1>3. rows' \in [Tasks -> Seq(Entry \cup {None})]
    <2>1. [i \in Index(t) |-> None] \in Seq(Entry \cup {None})
      BY ArgFacts, SeqIntro DEF Index
    <2> QED BY <2>1 DEF ReadRejected, Set, TypeOK
  <1> QED BY <1>1, <1>2, <1>3 DEF ReadRejected, TypeOK

LEMMA SweepType == ASSUME TypeOK, NEW t \in Tasks, Sweep(t) PROVE TypeOK'
  <1>1. store' \in [Keys -> Entry \cup {None}]
    BY StoreWithout DEF Sweep
  <1>2. pc' \in [Tasks -> Finished \cup Busy]
    BY DEF Sweep, AfterSweep, Goto, TypeOK, Busy
  <1>3. doomed' \in [Tasks -> SUBSET Nat]
    BY DEF Sweep, Set, TypeOK
  <1>4. \A u \in Tasks : IsFiniteSet(doomed'[u])
    BY FS_EmptySet DEF Sweep, Set, TypeOK
  <1>5. tele' \in [Tasks -> Tele]
    <2>1. Cardinality(doomed[t]) \in Nat
      BY FS_CardinalityType DEF TypeOK
    <2> QED BY <2>1, CountType DEF Sweep
  <1> QED BY <1>1, <1>2, <1>3, <1>4, <1>5 DEF Sweep, TypeOK

LEMMA DecodeType == ASSUME TypeOK, NEW t \in Tasks, Decode(t) PROVE TypeOK'
  <1> PICK bad \in SUBSET {i \in DOMAIN rows[t] : rows[t][i] # None} :
        LET data == Decoded(t, bad)
            next == IF ExpiredRows(data) # {} THEN "sweep" ELSE AfterSweep(t)
        IN  /\ rows' = Set(rows, t, Unexpired(data))
            /\ oks' = Set(oks, t, [i \in DOMAIN data |-> Unexpired(data)[i] # None])
            /\ doomed' = Set(doomed, t, ExpiredRows(data))
            /\ \/ bad # {} /\ EmitError(t, 0, next)
               \/ bad = {} /\ Goto(t, next) /\ UNCHANGED tele
    BY DEF Decode
  <1> DEFINE data == Decoded(t, bad)
             next == IF ExpiredRows(data) # {} THEN "sweep" ELSE AfterSweep(t)
  <1>1. PICK n \in Nat : DOMAIN rows[t] = 1..n
    BY DEF TypeOK
  <1>2. data \in [1..n -> Entry \cup {None}] /\ Unexpired(data) \in [1..n -> Entry \cup {None}]
    <2>1. rows[t] \in [1..n -> Entry \cup {None}]
      <3>1. rows[t] \in Seq(Entry \cup {None})
        BY DEF TypeOK
      <3> QED BY <3>1, <1>1
    <2>2. data \in [1..n -> Entry \cup {None}]
      BY <1>1, <2>1 DEF Decoded
    <2>3. DOMAIN data = 1..n
      BY <2>2
    <2> HIDE DEF data
    <2>4. Unexpired(data) \in [1..n -> Entry \cup {None}]
      BY <2>2, <2>3 DEF Unexpired
    <2> QED BY <2>2, <2>4
  <1>3. rows' \in [Tasks -> Seq(Entry \cup {None})]
    BY <1>2, SeqIntro DEF TypeOK, Set
  <1>4. oks' \in [Tasks -> Seq(BOOLEAN)]
    <2>1. [i \in DOMAIN data |-> Unexpired(data)[i] # None] \in Seq(BOOLEAN)
      BY <1>2, SeqIntro
    <2> QED BY <2>1 DEF TypeOK, Set
  <1>5. ExpiredRows(data) \in SUBSET Nat /\ IsFiniteSet(ExpiredRows(data))
    <2>1. ExpiredRows(data) \subseteq 1..n
      BY <1>2 DEF ExpiredRows
    <2>2. IsFiniteSet(1..n)
      BY FS_Interval
    <2> HIDE DEF data
    <2> QED BY <2>1, <2>2, FS_Subset
  <1>6. doomed' \in [Tasks -> SUBSET Nat] /\ \A u \in Tasks : IsFiniteSet(doomed'[u])
    BY <1>5 DEF TypeOK, Set
  <1>7. next \in Finished \cup Busy
    BY DEF Busy, AfterSweep
  <1>8. tele' \in [Tasks -> Tele] /\ pc' \in [Tasks -> Finished \cup Busy]
    <2>1. CASE EmitError(t, 0, next)
      BY <2>1, <1>7, ErrorType
    <2>2. CASE Goto(t, next) /\ UNCHANGED tele
      BY <2>2, <1>7, GotoType DEF TypeOK
    <2> QED BY <2>1, <2>2
  <1> QED BY <1>3, <1>4, <1>6, <1>8 DEF Decode, TypeOK

LEMMA SweepRejectedType == ASSUME TypeOK, NEW t \in Tasks, SweepRejected(t) PROVE TypeOK'
  <1>1. store' \in [Keys -> Entry \cup {None}]
    BY StoreWithout DEF SweepRejected
  <1>2. pc' \in [Tasks -> Finished \cup Busy]
    BY DEF SweepRejected, AfterSweep, Goto, TypeOK, Busy, Finished
  <1>3. doomed' \in [Tasks -> SUBSET Nat] /\ \A u \in Tasks : IsFiniteSet(doomed'[u])
    BY FS_EmptySet DEF SweepRejected, Set, TypeOK
  <1>4. failed' \in [Tasks -> BOOLEAN]
    BY DEF SweepRejected, Fault, TypeOK
  <1>5. tele' \in [Tasks -> Tele]
    <2> DEFINE e == IF ThrowOnErrors THEN tele[t].error
                    ELSE tele[t].error + Cardinality(doomed[t])
               d == IF ThrowOnErrors \/ Op(t) # "iterator" THEN tele[t].delete
                    ELSE tele[t].delete + 1
               x == [tele[t] EXCEPT !.raised = TRUE, !.error = e, !.delete = d]
    <2>1. tele[t] \in Tele /\ Cardinality(doomed[t]) \in Nat
      BY FS_CardinalityType DEF TypeOK
    <2>2. e \in Nat /\ d \in Nat
      BY <2>1 DEF Tele
    <2>3. x \in Tele
      <3> HIDE DEF e, d
      <3> QED BY <2>1, <2>2 DEF Tele
    <2>4. tele' = [tele EXCEPT ![t] = x]
      BY <2>1 DEF SweepRejected, TypeOK, Tele
    <2> QED BY <2>3, <2>4 DEF TypeOK
  <1> QED BY <1>1, <1>2, <1>3, <1>4, <1>5 DEF SweepRejected, TypeOK

\* The sets of positions that are counted are finite.
LEMMA IndexFinite ==
    ASSUME TypeOK, NEW t \in Tasks, NEW S \in SUBSET Index(t)
    PROVE  IsFiniteSet(S) /\ Cardinality(S) \in Nat
  <1>1. IsFiniteSet(Index(t))
    BY ArgFacts, FS_Interval DEF Index
  <1>2. IsFiniteSet(S)
    BY <1>1, FS_Subset
  <1> QED BY <1>2, FS_CardinalityType

LEMMA SurvivorsFinite ==
    ASSUME TypeOK, NEW t \in Tasks
    PROVE  /\ IsFiniteSet(Survivors(t)) /\ Cardinality(Survivors(t)) \in Nat
           /\ \A i \in Survivors(t) : enc[t][i] \in EncEntry
  <1>1. enc[t] \in Seq(EncEntry \cup {None})
    BY DEF TypeOK
  <1>2. PICK n \in Nat : DOMAIN enc[t] = 1..n
    BY <1>1
  <1>3. Survivors(t) \subseteq 1..n
    BY <1>2 DEF Survivors
  <1>4. IsFiniteSet(Survivors(t))
    <2>1. IsFiniteSet(1..n)
      BY FS_Interval
    <2> QED BY <1>3, <2>1, FS_Subset
  <1>5. \A i \in Survivors(t) : enc[t][i] \in EncEntry
    BY <1>1 DEF Survivors
  <1> QED BY <1>4, <1>5, FS_CardinalityType

\* An entry handed to the adapter has a positive TTL or none, and a natural expiry.
LEMMA SetEntryType ==
    ASSUME TypeOK, NEW a \in WriteArg
    PROVE  SetEntry(a) \in EncEntry
  <1> DEFINE r == IF a.lim = None THEN DefaultTtl ELSE a.lim
  <1>1. a.lim \in Ttls \cup {None}
    BY DEF WriteArg
  <1>2. r \in Int \/ r = None
    BY <1>1, DataAssumption
  <1>3. ResolveTtl(a.lim) = IF r = None THEN None ELSE IF r <= 0 THEN None ELSE r
    BY DEF ResolveTtl
  <1>4. ResolveTtl(a.lim) \in (Nat \ {0}) \cup {None}
    <2> HIDE DEF r
    <2> QED BY <1>2, <1>3
  <1>5. CalculateExpires(ResolveTtl(a.lim), now) \in Times
    BY <1>4 DEF CalculateExpires, Times, TypeOK
  <1> QED BY <1>4, <1>5 DEF SetEntry, EncEntry, WriteArg

LEMMA RawEntryType ==
    ASSUME TypeOK, NEW a \in RawArg
    PROVE  RawEntry(a) \in EncEntry
  <1>1. a.lim \in Nat \/ a.lim = None
    BY DataAssumption DEF RawArg
  <1>2. TtlFromExpires(a.lim, now) \in (Nat \ {0}) \cup {None}
    <2>1. now \in Nat
      BY DEF TypeOK
    <2> QED BY <1>1, <2>1, DataAssumption DEF TtlFromExpires
  <1> QED BY <1>1, <1>2 DEF RawEntry, EncEntry, Times, RawArg

LEMMA EncodedType ==
    ASSUME TypeOK, NEW t \in Tasks, Op(t) \in SetOps \cup RawOps, NEW a \in ArgOf(Op(t))
    PROVE  Encoded(t, a) \in EncEntry
  BY SetEntryType, RawEntryType DEF Encoded, ArgOf

LEMMA EncodeAllType == ASSUME TypeOK, NEW t \in Tasks, EncodeAll(t) PROVE TypeOK'
  <1>1. enc' \in [Tasks -> Seq(EncEntry \cup {None})]
    <2> DEFINE es == [i \in Index(t) |-> IF i \in Bad(t) THEN None ELSE Encoded(t, Args(t)[i])]
    <2>1. \A i \in Index(t) : Encoded(t, Args(t)[i]) \in EncEntry
      BY ArgFacts, EncodedType DEF EncodeAll
    <2>2. es \in Seq(EncEntry \cup {None})
      BY <2>1, ArgFacts, SeqIntro DEF Index
    <2> QED BY <2>2 DEF EncodeAll, Set, TypeOK
  <1>2. Cardinality(Bad(t)) \in Nat /\ Len(Args(t)) \in Nat
    BY IndexFinite, ArgFacts DEF Bad
  <1>3. tele' \in [Tasks -> Tele] /\ pc' \in [Tasks -> Finished \cup Busy]
    <2>1. CASE Goto(t, "encode") /\ UNCHANGED tele
      BY <2>1, GotoType DEF Busy, TypeOK
    <2>2. CASE EmitError(t, Cardinality(Bad(t)), "encode")
      BY <2>2, <1>2, ErrorType DEF Busy
    <2>3. CASE EmitError(t, Len(Args(t)), "after")
      BY <2>3, <1>2, ErrorType DEF Busy
    <2>4. CASE EmitError(t, 1, "resolved")
      BY <2>4, ErrorType DEF Finished
    <2>5. CASE EmitError(t, 1, "after")
      BY <2>5, ErrorType DEF Busy
    <2> QED BY <2>1, <2>2, <2>3, <2>4, <2>5 DEF EncodeAll
  <1> QED BY <1>1, <1>3 DEF EncodeAll, TypeOK

\* Writing surviving entries keeps the store and the race history in type.
LEMMA WriteType ==
    ASSUME TypeOK, NEW t \in Tasks, NEW W \in SUBSET Survivors(t),
           store' = Written(enc[t], W), NoteWrites(EncKeys(t, W))
    PROVE  store' \in [Keys -> Entry \cup {None}] /\ racy' \in [Tasks -> SUBSET Keys]
  <1>1. \A j \in W : enc[t][j] \in EncEntry
    BY SurvivorsFinite
  <1>2. store' \in [Keys -> Entry \cup {None}]
    BY <1>1, StoreWritten
  <1>3. EncKeys(t, W) \subseteq Keys
    BY SurvivorsFinite DEF EncKeys, EncEntry
  <1> QED BY <1>2, <1>3 DEF NoteWrites, TypeOK

\* Every surviving position has a place in the batch the store is given.
LEMMA RankRange ==
    ASSUME TypeOK, NEW t \in Tasks, NEW i \in Survivors(t)
    PROVE  Rank(t, i) \in 1..Cardinality(Survivors(t))
  <1> DEFINE S == {j \in Survivors(t) : j <= i}
  <1>1. IsFiniteSet(Survivors(t)) /\ S \subseteq Survivors(t)
    BY SurvivorsFinite
  <1>2. i \in Nat
    BY DEF Survivors, TypeOK
  <1>3. i \in S
    BY <1>2
  <1>4. IsFiniteSet(S) /\ Cardinality(S) <= Cardinality(Survivors(t))
    BY <1>1, FS_Subset
  <1>5. Cardinality(S) \in Nat /\ Cardinality(S) # 0
    BY <1>3, <1>4, FS_CardinalityType, FS_EmptySet
  <1>6. Cardinality(Survivors(t)) \in Nat
    BY SurvivorsFinite
  <1> QED BY <1>4, <1>5, <1>6 DEF Rank

LEMMA StoreSetType == ASSUME TypeOK, NEW t \in Tasks, StoreSet(t) PROVE TypeOK'
  <1> PICK storeResults \in [1..Cardinality(Survivors(t)) -> BOOLEAN] :
        LET accepted == {i \in Survivors(t) : storeResults[Rank(t, i)]}
            results  == Scatter(t, storeResults)
        IN  /\ store' = Written(enc[t], accepted)
            /\ NoteWrites(EncKeys(t, accepted))
            /\ oks' = Set(oks, t, results)
            /\ \/ Count(t, "set", Cardinality({i \in Index(t) : results[i]}))
               \/ Count(t, "set", Len(Args(t)))
               \/ UNCHANGED tele
    BY DEF StoreSet
  <1>1. store' \in [Keys -> Entry \cup {None}] /\ racy' \in [Tasks -> SUBSET Keys]
    BY WriteType
  <1>2. oks' \in [Tasks -> Seq(BOOLEAN)]
    <2>1. Scatter(t, storeResults) \in Seq(BOOLEAN)
      <3>1. \A i \in Survivors(t) : Rank(t, i) \in 1..Cardinality(Survivors(t))
        BY RankRange
      <3> QED BY <3>1, ArgFacts, SeqIntro DEF Scatter, Index
    <2> QED BY <2>1 DEF Set, TypeOK
  <1>3. tele' \in [Tasks -> Tele]
    BY CountType, ArgFacts, IndexFinite DEF TypeOK
  <1>4. pc' \in [Tasks -> Finished \cup Busy]
    BY GotoType DEF StoreSet, Busy
  <1> QED BY <1>1, <1>2, <1>3, <1>4 DEF StoreSet, TypeOK

LEMMA AllType ==
    ASSUME TypeOK, NEW t \in Tasks, NEW b \in BOOLEAN
    PROVE  All(t, b) \in Seq(BOOLEAN)
  BY ArgFacts, SeqIntro DEF All, Index

LEMMA StoreSetRejectedType == ASSUME TypeOK, NEW t \in Tasks, StoreSetRejected(t) PROVE TypeOK'
  <1>1. store' \in [Keys -> Entry \cup {None}] /\ racy' \in [Tasks -> SUBSET Keys]
    BY WriteType DEF StoreSetRejected
  <1>2. oks' \in [Tasks -> Seq(BOOLEAN)]
    BY AllType DEF StoreSetRejected, Set, TypeOK
  <1>3. tele' \in [Tasks -> Tele] /\ pc' \in [Tasks -> Finished \cup Busy]
    BY SurvivorsFinite, ErrorType DEF StoreSetRejected, Busy
  <1>4. failed' \in [Tasks -> BOOLEAN]
    BY DEF StoreSetRejected, Fault, TypeOK
  <1> QED BY <1>1, <1>2, <1>3, <1>4 DEF StoreSetRejected, TypeOK

LEMMA StoreDeleteType == ASSUME TypeOK, NEW t \in Tasks, StoreDelete(t) PROVE TypeOK'
  <1>1. store' \in [Keys -> Entry \cup {None}]
    BY StoreWithout DEF StoreDelete
  <1>2. oks' \in [Tasks -> Seq(BOOLEAN)]
    <2>1. [i \in Index(t) |-> store[KeyAt(t, i)] # None] \in Seq(BOOLEAN)
      BY ArgFacts, SeqIntro DEF Index
    <2> QED BY <2>1 DEF StoreDelete, Set, TypeOK
  <1>3. tele' \in [Tasks -> Tele]
    BY CountType, ArgFacts DEF StoreDelete, TypeOK
  <1>4. pc' \in [Tasks -> Finished \cup Busy]
    BY GotoType DEF StoreDelete, Busy
  <1> QED BY <1>1, <1>2, <1>3, <1>4 DEF StoreDelete, TypeOK

LEMMA StoreDeleteRejectedType ==
    ASSUME TypeOK, NEW t \in Tasks, StoreDeleteRejected(t) PROVE TypeOK'
  <1>1. store' \in [Keys -> Entry \cup {None}]
    BY StoreWithout DEF StoreDeleteRejected
  <1>2. oks' \in [Tasks -> Seq(BOOLEAN)]
    BY AllType DEF StoreDeleteRejected, Set, TypeOK
  <1>3. tele' \in [Tasks -> Tele] /\ pc' \in [Tasks -> Finished \cup Busy]
    BY ArgFacts, ErrorType DEF StoreDeleteRejected, Busy
  <1>4. failed' \in [Tasks -> BOOLEAN]
    BY DEF StoreDeleteRejected, Fault, TypeOK
  <1> QED BY <1>1, <1>2, <1>3, <1>4 DEF StoreDeleteRejected, TypeOK

LEMMA StoreHasType == ASSUME TypeOK, NEW t \in Tasks, StoreHas(t) PROVE TypeOK'
  <1>1. oks' \in [Tasks -> Seq(BOOLEAN)]
    <2>1. [i \in Index(t) |-> Visible(KeyAt(t, i))] \in Seq(BOOLEAN)
      <3>1. \A k : Visible(k) \in BOOLEAN
        BY DEF Visible, Expired
      <3> QED BY <3>1, ArgFacts, SeqIntro DEF Index
    <2> QED BY <2>1 DEF StoreHas, Set, TypeOK
  <1>2. tele' \in [Tasks -> Tele] /\ pc' \in [Tasks -> Finished \cup Busy]
    <2>1. CASE Goto(t, "after") /\ UNCHANGED <<tele, failed>>
      BY <2>1, GotoType DEF Busy, TypeOK
    <2>2. CASE EmitError(t, Len(Args(t)), "after")
      BY <2>2, ArgFacts, ErrorType DEF Busy
    <2> QED BY <2>1, <2>2 DEF StoreHas
  <1>3. failed' \in [Tasks -> BOOLEAN]
    BY DEF StoreHas, Fault, TypeOK
  <1> QED BY <1>1, <1>2, <1>3 DEF StoreHas, TypeOK

LEMMA StoreClearType == ASSUME TypeOK, NEW t \in Tasks, StoreClear(t) PROVE TypeOK'
  <1>1. store' \in [Keys -> Entry \cup {None}]
    BY StoreWithout DEF StoreClear
  <1>2. tele' \in [Tasks -> Tele] /\ pc' \in [Tasks -> Finished \cup Busy]
    <2>1. CASE Goto(t, "after") /\ UNCHANGED <<tele, failed>>
      BY <2>1, GotoType DEF Busy, TypeOK
    <2>2. CASE EmitError(t, 1, "after")
      BY <2>2, ErrorType DEF Busy
    <2> QED BY <2>1, <2>2 DEF StoreClear
  <1>3. failed' \in [Tasks -> BOOLEAN]
    BY DEF StoreClear, Fault, TypeOK
  <1> QED BY <1>1, <1>2, <1>3 DEF StoreClear, TypeOK

LEMMA StoreDisconnectType == ASSUME TypeOK, NEW t \in Tasks, StoreDisconnect(t) PROVE TypeOK'
  <1>1. tele' \in [Tasks -> Tele] /\ pc' \in [Tasks -> Finished \cup Busy]
    <2>1. CASE Goto(t, "after") /\ UNCHANGED <<tele, failed>>
      BY <2>1, GotoType DEF Busy, TypeOK
    <2>2. CASE EmitError(t, 0, "after")
      BY <2>2, ErrorType DEF Busy
    <2> QED BY <2>1, <2>2 DEF StoreDisconnect
  <1>2. failed' \in [Tasks -> BOOLEAN]
    BY DEF StoreDisconnect, Fault, TypeOK
  <1> QED BY <1>1, <1>2 DEF StoreDisconnect, TypeOK

LEMMA IterNextType == ASSUME TypeOK, NEW t \in Tasks, IterNext(t) PROVE TypeOK'
  <1>1. PICK k \in todo[t] :
          /\ Visible(k)
          /\ call' = Set(call, t, IterCall(k))
          /\ rows' = Set(rows, t, <<store[k]>>)
          /\ todo' = [todo EXCEPT ![t] = @ \ {k}]
    BY DEF IterNext
  <1>2. k \in Keys
    BY DEF TypeOK
  <1>3. rows' \in [Tasks -> Seq(Entry \cup {None})]
    <2>1. <<store[k]>> \in Seq(Entry \cup {None})
      BY <1>2 DEF TypeOK
    <2> QED BY <1>1, <2>1 DEF Set, TypeOK
  <1>4. call' \in [Tasks -> Call]
    <2>1. ArgOf("iterator") = KeyArg
      BY DEF ArgOf, SetOps, RawOps
    <2>2. IterCall(k) \in Call
      <3> DEFINE a == [key |-> k, val |-> None, lim |-> None]
      <3>1. a \in KeyArg /\ a \in Arg
        BY <1>2 DEF KeyArg, Arg
      <3> HIDE DEF a
      <3>2. <<a>> \in Seq(KeyArg) /\ <<a>> \in Seq(Arg)
        BY <3>1
      <3>3. "iterator" \in AllOps
        BY DEF AllOps, OtherOps
      <3>4. IterCall(k) = [op |-> "iterator", args |-> <<a>>]
        BY DEF IterCall, a
      <3>5. /\ IterCall(k) \in [op : AllOps, args : Seq(Arg)]
            /\ IterCall(k).args = <<a>> /\ IterCall(k).op = "iterator"
        BY <3>2, <3>3, <3>4
      <3> QED BY <2>1, <3>2, <3>5 DEF Call
    <2> QED BY <1>1, <2>2 DEF TypeOK, Set
  <1>5. todo' \in [Tasks -> SUBSET Keys] /\ racy' \in [Tasks -> SUBSET Keys]
    BY <1>1 DEF IterNext, Set, TypeOK
  <1>6. pc' \in [Tasks -> Finished \cup Busy]
    BY GotoType DEF IterNext, Busy
  <1> QED BY <1>3, <1>4, <1>5, <1>6 DEF IterNext, TypeOK

LEMMA IterEndType == ASSUME TypeOK, NEW t \in Tasks, IterEnd(t) PROVE TypeOK'
  <1>1. pc' \in [Tasks -> Finished \cup Busy]
    BY GotoType DEF IterEnd, Finished
  <1>2. failed' \in [Tasks -> BOOLEAN]
    BY DEF IterEnd, Fault, TypeOK
  <1> QED BY <1>1, <1>2 DEF IterEnd, TypeOK

LEMMA ReturnType == ASSUME TypeOK, NEW t \in Tasks, Return(t) PROVE TypeOK'
  <1>1. pc' \in [Tasks -> Finished \cup Busy]
    BY GotoType DEF Return, Finished
  <1>2. tele' \in [Tasks -> Tele]
    <2>1. CASE tele' = [tele EXCEPT ![t].hit = @ + Hits(t), ![t].miss = @ + Misses(t)]
      <3>1. Hits(t) \in Nat /\ Misses(t) \in Nat
        BY IndexFinite DEF Hits, Misses
      <3>2. tele[t] \in Tele
        BY DEF TypeOK
      <3> DEFINE h == tele[t].hit + Hits(t)
                 m == tele[t].miss + Misses(t)
                 x == [tele[t] EXCEPT !.hit = h, !.miss = m]
      <3>3. h \in Nat /\ m \in Nat
        BY <3>1, <3>2 DEF Tele
      <3>4. x \in Tele
        <4> HIDE DEF h, m
        <4> QED BY <3>2, <3>3 DEF Tele
      <3>5. tele' = [tele EXCEPT ![t] = x]
        BY <2>1, <3>2 DEF TypeOK, Tele
      <3> QED BY <3>4, <3>5 DEF TypeOK
    <2>2. CASE Count(t, "set", 1) \/ Count(t, "delete", 1)
      BY <2>2, CountType
    <2>3. CASE UNCHANGED tele
      BY <2>3 DEF TypeOK
    <2> QED BY <2>1, <2>2, <2>3 DEF Return
  <1> QED BY <1>1, <1>2 DEF Return, TypeOK

LEMMA ArgOfType == \A op : ArgOf(op) \subseteq Arg
  <1>1. KeyArg \subseteq Arg
    BY DEF KeyArg, Arg
  <1>2. WriteArg \subseteq Arg
    <2> SUFFICES ASSUME NEW a \in WriteArg PROVE a \in Arg
      OBVIOUS
    <2>1. a.lim \in Int \cup {None}
      BY DataAssumption DEF WriteArg
    <2> QED BY <2>1 DEF WriteArg, Arg
  <1>3. RawArg \subseteq Arg
    <2> SUFFICES ASSUME NEW a \in RawArg PROVE a \in Arg
      OBVIOUS
    <2>1. a.lim \in Int \cup {None}
      <3>1. a.lim \in Expiries \cup {None}
        BY DEF RawArg
      <3>2. Expiries \subseteq Int
        BY DataAssumption
      <3> QED BY <3>1, <3>2
    <2> QED BY <2>1 DEF RawArg, Arg
  <1> QED BY <1>1, <1>2, <1>3 DEF ArgOf

LEMMA InputsType ==
    ASSUME NEW op \in AllOps, NEW args \in Inputs(op)
    PROVE  /\ args \in Seq(ArgOf(op)) /\ args \in Seq(Arg)
           /\ op \in SingleOps => DOMAIN args = {1} /\ args[1] \in ArgOf(op)
  <1>1. PICK n \in Lengths(op) : args \in [1..n -> ArgOf(op)]
    BY DEF Inputs
  <1>2. n \in Nat /\ (op \in SingleOps => n = 1)
    BY DataAssumption DEF Lengths
  <1>3. ArgOf(op) \subseteq Arg
    BY ArgOfType
  <1> QED BY <1>1, <1>2, <1>3, SeqIntro

\* Entering a call with cleaned arguments keeps the bookkeeping in type.
LEMMA EnterType ==
    ASSUME TypeOK, NEW t \in Tasks, NEW op \in AllOps,
           NEW args \in Seq(ArgOf(op)), args \in Seq(Arg), Enter(t, op, args)
    PROVE  /\ call' \in [Tasks -> Call] /\ calls' \in Nat /\ now' \in Nat
           /\ enc' \in [Tasks -> Seq(EncEntry \cup {None})]
           /\ doomed' \in [Tasks -> SUBSET Nat] /\ \A u \in Tasks : IsFiniteSet(doomed'[u])
           /\ todo' \in [Tasks -> SUBSET Keys]
  <1>1. call' \in [Tasks -> Call]
    <2>1. [op |-> op, args |-> args] \in Call
      BY DEF Call
    <2> QED BY <2>1 DEF Enter, Set, TypeOK
  <1>2. enc' \in [Tasks -> Seq(EncEntry \cup {None})]
    BY DEF Enter, Set, TypeOK
  <1>3. doomed' \in [Tasks -> SUBSET Nat] /\ \A u \in Tasks : IsFiniteSet(doomed'[u])
    BY FS_EmptySet DEF Enter, Set, TypeOK
  <1>4. todo' \in [Tasks -> SUBSET Keys]
    BY DEF Enter, Set, TypeOK
  <1> QED BY <1>1, <1>2, <1>3, <1>4 DEF Enter, TypeOK

LEMMA CleanType ==
    ASSUME NEW op \in AllOps, NEW raw \in Inputs(op)
    PROVE  /\ Clean(raw) \in Seq(ArgOf(op)) /\ Clean(raw) \in Seq(Arg)
           /\ DOMAIN Clean(raw) = DOMAIN raw
  <1>1. PICK n \in Nat : DOMAIN raw = 1..n /\ raw \in [1..n -> ArgOf(op)]
    BY InputsType
  <1>2. \A a \in ArgOf(op) : [a EXCEPT !.key = CleanKey[@]] \in ArgOf(op)
    BY DataAssumption DEF ArgOf, WriteArg, RawArg, KeyArg
  <1>3. Clean(raw) \in [1..n -> ArgOf(op)]
    BY <1>1, <1>2 DEF Clean
  <1>4. ArgOf(op) \subseteq Arg
    BY ArgOfType
  <1> QED BY <1>1, <1>3, <1>4, SeqIntro

LEMMA BeginType == ASSUME TypeOK, NEW t \in Tasks, Begin(t) PROVE TypeOK'
  <1>0. PICK op \in Ops : \E raw \in Inputs(op) :
          /\ Enter(t, op, Clean(raw))
          /\ Goto(t, IF op \in SingleOps /\ Clean(raw)[1].key = EmptyKey THEN "resolved"
                     ELSE IF op = "iterator" THEN "iter" ELSE "before")
          /\ rows' = Set(rows, t, [i \in DOMAIN Clean(raw) |-> None])
          /\ oks' = Set(oks, t, [i \in DOMAIN Clean(raw) |-> FALSE])
    BY DEF Begin
  <1>1. PICK raw \in Inputs(op) :
          /\ Enter(t, op, Clean(raw))
          /\ Goto(t, IF op \in SingleOps /\ Clean(raw)[1].key = EmptyKey THEN "resolved"
                     ELSE IF op = "iterator" THEN "iter" ELSE "before")
          /\ rows' = Set(rows, t, [i \in DOMAIN Clean(raw) |-> None])
          /\ oks' = Set(oks, t, [i \in DOMAIN Clean(raw) |-> FALSE])
    BY <1>0
  <1>2. op \in AllOps
    BY ConfigAssumption
  <1>3. PICK n \in Nat : DOMAIN Clean(raw) = 1..n
    BY <1>2, CleanType
  <1>4. rows' \in [Tasks -> Seq(Entry \cup {None})]
    <2>1. [i \in 1..n |-> None] \in Seq(Entry \cup {None})
      BY SeqIntro
    <2> QED BY <1>1, <1>3, <2>1 DEF Set, TypeOK
  <1>5. oks' \in [Tasks -> Seq(BOOLEAN)]
    <2>1. [i \in 1..n |-> FALSE] \in Seq(BOOLEAN)
      BY SeqIntro
    <2> QED BY <1>1, <1>3, <2>1 DEF Set, TypeOK
  <1>6. pc' \in [Tasks -> Finished \cup Busy]
    BY <1>1, GotoType DEF Finished, Busy
  <1>7. tele' \in [Tasks -> Tele] /\ failed' \in [Tasks -> BOOLEAN]
    BY DEF Begin, Set, TypeOK, NoTele, Tele
  <1>8. /\ call' \in [Tasks -> Call] /\ calls' \in Nat /\ now' \in Nat
        /\ enc' \in [Tasks -> Seq(EncEntry \cup {None})]
        /\ doomed' \in [Tasks -> SUBSET Nat] /\ \A u \in Tasks : IsFiniteSet(doomed'[u])
        /\ todo' \in [Tasks -> SUBSET Keys]
    BY <1>1, <1>2, CleanType, EnterType
  <1> QED BY <1>4, <1>5, <1>6, <1>7, <1>8 DEF Begin, TypeOK

\* The outcomes of a fast-path call.
LEMMA FastOutcomeType ==
    ASSUME TypeOK, NEW t \in Tasks, NEW row \in Entry \cup {None}, NEW ok \in BOOLEAN,
           NEW fault \in BOOLEAN, FastReturn(t, row, ok) \/ FastError(t, fault)
    PROVE  /\ rows' \in [Tasks -> Seq(Entry \cup {None})] /\ oks' \in [Tasks -> Seq(BOOLEAN)]
           /\ tele' \in [Tasks -> Tele] /\ failed' \in [Tasks -> BOOLEAN]
           /\ pc' \in [Tasks -> Finished \cup Busy]
  <1>1. /\ <<row>> \in Seq(Entry \cup {None}) /\ <<None>> \in Seq(Entry \cup {None})
        /\ <<ok>> \in Seq(BOOLEAN) /\ <<FALSE>> \in Seq(BOOLEAN)
    OBVIOUS
  <1>2. NoTele \in Tele /\ [NoTele EXCEPT !.raised = TRUE] \in Tele
    BY DEF NoTele, Tele
  <1> USE DEF Set, TypeOK
  <1>3. CASE FastReturn(t, row, ok)
    <2> USE <1>3 DEF FastReturn
    <2>1. rows' \in [Tasks -> Seq(Entry \cup {None})]
      BY <1>1, UpdateType
    <2>2. oks' \in [Tasks -> Seq(BOOLEAN)]
      BY <1>1, UpdateType
    <2>3. tele' \in [Tasks -> Tele]
      BY <1>2, UpdateType
    <2>4. failed' \in [Tasks -> BOOLEAN]
      BY UpdateType
    <2>5. pc' \in [Tasks -> Finished \cup Busy]
      BY GotoType DEF Finished
    <2> QED BY <2>1, <2>2, <2>3, <2>4, <2>5
  <1>4. CASE FastError(t, fault)
    <2> USE <1>4 DEF FastError
    <2>1. rows' \in [Tasks -> Seq(Entry \cup {None})]
      BY <1>1, UpdateType
    <2>2. oks' \in [Tasks -> Seq(BOOLEAN)]
      BY <1>1, UpdateType
    <2>3. tele' \in [Tasks -> Tele]
      BY <1>2, UpdateType
    <2>4. failed' \in [Tasks -> BOOLEAN]
      BY UpdateType
    <2>5. pc' \in [Tasks -> Finished \cup Busy]
      BY GotoType DEF Finished
    <2> QED BY <2>1, <2>2, <2>3, <2>4, <2>5
  <1> QED BY <1>3, <1>4

LEMMA FastCallType ==
    ASSUME TypeOK, NEW t \in Tasks, NEW op \in Ops, NEW args \in Inputs(op), FastCall(t, op, args)
    PROVE  /\ call' \in [Tasks -> Call] /\ calls' \in Nat /\ now' \in Nat
           /\ enc' \in [Tasks -> Seq(EncEntry \cup {None})]
           /\ doomed' \in [Tasks -> SUBSET Nat] /\ \A u \in Tasks : IsFiniteSet(doomed'[u])
           /\ todo' \in [Tasks -> SUBSET Keys]
           /\ op \in SingleOps => args[1] \in ArgOf(op)
  <1>1. op \in AllOps
    BY ConfigAssumption
  <1> QED BY <1>1, InputsType, EnterType DEF FastCall

LEMMA FastGetType == ASSUME TypeOK, NEW t \in Tasks, FastGet(t) PROVE TypeOK'
  <1>1. PICK args \in Inputs("get") :
          /\ FastCall(t, "get", args)
          /\ FastReturn(t, Fetch(args[1].key), FALSE) \/ FastReject(t)
    BY DEF FastGet
  <1>2. "get" \in Ops /\ "get" \in SingleOps /\ ArgOf("get") = KeyArg
    BY <1>1 DEF FastCall, SingleOps, ArgOf, SetOps, RawOps
  <1>3. Fetch(args[1].key) \in Entry \cup {None}
    <2>1. args[1] \in KeyArg
      BY <1>1, <1>2, FastCallType
    <2>2. args[1].key \in Keys
      BY <2>1 DEF KeyArg
    <2> QED BY <2>2, FetchType
  <1>4. /\ rows' \in [Tasks -> Seq(Entry \cup {None})] /\ oks' \in [Tasks -> Seq(BOOLEAN)]
        /\ tele' \in [Tasks -> Tele] /\ failed' \in [Tasks -> BOOLEAN]
        /\ pc' \in [Tasks -> Finished \cup Busy]
    BY <1>1, <1>3, FastOutcomeType DEF FastReject
  <1> QED BY <1>1, <1>2, <1>4, FastCallType DEF FastGet, TypeOK

LEMMA FastHasType == ASSUME TypeOK, NEW t \in Tasks, FastHas(t) PROVE TypeOK'
  <1>1. PICK args \in Inputs("has") :
          /\ FastCall(t, "has", args)
          /\ FastReturn(t, None, Visible(args[1].key)) \/ FastReject(t)
    BY DEF FastHas
  <1>2. "has" \in Ops
    BY <1>1 DEF FastCall
  <1>3. Visible(args[1].key) \in BOOLEAN
    BY DEF Visible, Expired
  <1>4. /\ rows' \in [Tasks -> Seq(Entry \cup {None})] /\ oks' \in [Tasks -> Seq(BOOLEAN)]
        /\ tele' \in [Tasks -> Tele] /\ failed' \in [Tasks -> BOOLEAN]
        /\ pc' \in [Tasks -> Finished \cup Busy]
    BY <1>1, <1>3, FastOutcomeType DEF FastReject
  <1> QED BY <1>1, <1>2, <1>4, FastCallType DEF FastHas, TypeOK

LEMMA FastDeleteType == ASSUME TypeOK, NEW t \in Tasks, FastDelete(t) PROVE TypeOK'
  <1>1. PICK args \in Inputs("delete") :
          /\ FastCall(t, "delete", args)
          /\ \/ /\ FastReturn(t, None, store[args[1].key] # None)
                /\ store' = Without({args[1].key})
             \/ FastReject(t) /\ UNCHANGED store
    BY DEF FastDelete
  <1>2. "delete" \in Ops
    BY <1>1 DEF FastCall
  <1>3. store' \in [Keys -> Entry \cup {None}]
    <2>1. Without({args[1].key}) \in [Keys -> Entry \cup {None}]
      BY StoreWithout
    <2>2. store \in [Keys -> Entry \cup {None}]
      BY DEF TypeOK
    <2> QED BY <1>1, <2>1, <2>2
  <1>4. /\ rows' \in [Tasks -> Seq(Entry \cup {None})] /\ oks' \in [Tasks -> Seq(BOOLEAN)]
        /\ tele' \in [Tasks -> Tele] /\ failed' \in [Tasks -> BOOLEAN]
        /\ pc' \in [Tasks -> Finished \cup Busy]
    BY <1>1, FastOutcomeType DEF FastReject
  <1> QED BY <1>1, <1>2, <1>3, <1>4, FastCallType DEF FastDelete, TypeOK

LEMMA FastSetType == ASSUME TypeOK, NEW t \in Tasks, FastSet(t) PROVE TypeOK'
  <1>1. PICK args \in Inputs("set") :
          /\ FastCall(t, "set", args)
          /\ \/ FastError(t, FALSE) /\ UNCHANGED <<store, racy>>
             \/ /\ FastReturn(t, None, TRUE)
                /\ store' = Written(<<SetEntry(args[1])>>, {1})
                /\ NoteWrites({args[1].key})
             \/ FastReject(t) /\ UNCHANGED <<store, racy>>
    BY DEF FastSet
  <1>2. "set" \in Ops /\ "set" \in SingleOps /\ ArgOf("set") = WriteArg
    BY <1>1 DEF FastCall, SingleOps, ArgOf, SetOps
  <1>3. args[1] \in WriteArg
    BY <1>1, <1>2, FastCallType
  <1>4. /\ rows' \in [Tasks -> Seq(Entry \cup {None})] /\ oks' \in [Tasks -> Seq(BOOLEAN)]
        /\ tele' \in [Tasks -> Tele] /\ failed' \in [Tasks -> BOOLEAN]
        /\ pc' \in [Tasks -> Finished \cup Busy]
    BY <1>1, FastOutcomeType DEF FastReject
  <1>5. store' \in [Keys -> Entry \cup {None}]
    <2> DEFINE es == <<SetEntry(args[1])>>
    <2>1. SetEntry(args[1]) \in EncEntry
      BY <1>3, SetEntryType
    <2>3. \A j \in {1} : es[j] \in EncEntry
      BY <2>1
    <2>4. Written(es, {1}) \in [Keys -> Entry \cup {None}]
      <3> HIDE DEF es
      <3> QED BY <2>3, StoreWritten
    <2>5. store \in [Keys -> Entry \cup {None}]
      BY DEF TypeOK
    <2> QED BY <1>1, <2>4, <2>5
  <1>6. racy' \in [Tasks -> SUBSET Keys]
    <2>1. {args[1].key} \subseteq Keys
      BY <1>3 DEF WriteArg
    <2>2. racy \in [Tasks -> SUBSET Keys]
      BY DEF TypeOK
    <2>3. NoteWrites({args[1].key}) => racy' \in [Tasks -> SUBSET Keys]
      BY <2>1, <2>2 DEF NoteWrites
    <2> QED BY <1>1, <2>2, <2>3
  <1> QED BY <1>1, <1>2, <1>4, <1>5, <1>6, FastCallType DEF FastSet, TypeOK

LEMMA InitType == Init => TypeOK
  <1> SUFFICES ASSUME Init PROVE TypeOK
    OBVIOUS
  <1> USE DEF Init, TypeOK
  <1>1. now \in Nat /\ calls \in Nat /\ store \in [Keys -> Entry \cup {None}]
    OBVIOUS
  <1>2. pc \in [Tasks -> Finished \cup Busy]
    BY DEF Finished
  <1>3. call \in [Tasks -> Call]
    <2>1. <<>> \in Seq(Arg) /\ <<>> \in Seq(ArgOf("clear"))
      OBVIOUS
    <2>2. [op |-> "clear", args |-> <<>>] \in Call
      BY <2>1 DEF Call, AllOps, OtherOps
    <2> QED BY <2>2
  <1>4. /\ enc \in [Tasks -> Seq(EncEntry \cup {None})]
        /\ rows \in [Tasks -> Seq(Entry \cup {None})] /\ oks \in [Tasks -> Seq(BOOLEAN)]
    OBVIOUS
  <1>5. /\ doomed \in [Tasks -> SUBSET Nat] /\ (\A t \in Tasks : IsFiniteSet(doomed[t]))
        /\ todo \in [Tasks -> SUBSET Keys]
    BY FS_EmptySet
  <1>6. tele \in [Tasks -> Tele]
    BY DEF NoTele, Tele
  <1>7. failed \in [Tasks -> BOOLEAN] /\ racy \in [Tasks -> SUBSET Keys]
    OBVIOUS
  <1> QED BY <1>1, <1>2, <1>3, <1>4, <1>5, <1>6, <1>7

LEMMA NextType == ASSUME TypeOK, [Next]_vars PROVE TypeOK'
  <1>1. CASE \E t \in Tasks : NewCall(t)
    BY <1>1, BeginType, FastGetType, FastSetType, FastDeleteType, FastHasType DEF NewCall
  <1>2. CASE \E t \in Tasks : Step(t)
    BY <1>2, ReadStoreType, ReadRejectedType, DecodeType, SweepType, SweepRejectedType,
       EncodeAllType, StoreSetType, StoreSetRejectedType, StoreDeleteType,
       StoreDeleteRejectedType, StoreHasType, StoreClearType, StoreDisconnectType,
       IterNextType, IterEndType, ReturnType DEF Step
  <1>3. CASE \E k \in Keys : AdapterExpires(k)
    <2>1. store' \in [Keys -> Entry \cup {None}]
      BY <1>3, StoreWithout DEF AdapterExpires
    <2> QED BY <1>3, <2>1 DEF AdapterExpires, TypeOK
  <1>4. CASE Tick
    BY <1>4 DEF Tick, TypeOK
  <1>5. CASE UNCHANGED vars
    BY <1>5 DEF vars, TypeOK
  <1> QED BY <1>1, <1>2, <1>3, <1>4, <1>5 DEF Next

\* Every reachable state is well typed: the facade never produces an empty or
\* negative TTL, a result list of the wrong shape, or a negative counter.
THEOREM TypeCorrect == Spec => []TypeOK
  BY InitType, NextType, PTL DEF Spec

---------------------------------------------------------------------------
(* The adapter's expiry never precedes the envelope's *)

\* An entry handed over at time n or later is stamped no earlier than its envelope.
Covers(e, n) == e.ttl # None => (e.env # None /\ e.env <= n + e.ttl)

\* Every entry on its way to the adapter covers its envelope already, and the
\* clock only grows until it gets there.
EncodedCovers ==
    \A t \in Tasks : \A i \in DOMAIN enc[t] : enc[t][i] # None => Covers(enc[t][i], now)

OutlivesInv == TypeOK /\ StoreOutlivesEnvelope /\ EncodedCovers

LEMMA SetEntryCovers == ASSUME TypeOK, NEW a \in WriteArg PROVE Covers(SetEntry(a), now)
  <1>1. SetEntry(a).ttl = ResolveTtl(a.lim)
        /\ SetEntry(a).env = CalculateExpires(ResolveTtl(a.lim), now)
    BY DEF SetEntry
  <1>2. SetEntry(a).ttl \in (Nat \ {0}) \cup {None}
    BY SetEntryType DEF EncEntry
  <1> QED BY <1>1, <1>2, DataAssumption DEF CalculateExpires, Covers, TypeOK

LEMMA RawEntryCovers == ASSUME TypeOK, NEW a \in RawArg PROVE Covers(RawEntry(a), now)
  <1>1. RawEntry(a).ttl = TtlFromExpires(a.lim, now) /\ RawEntry(a).env = a.lim
    BY DEF RawEntry
  <1>2. a.lim \in Nat \/ a.lim = None
    BY DataAssumption DEF RawArg
  <1>3. now \in Nat
    BY DEF TypeOK
  <1> QED BY <1>1, <1>2, <1>3, DataAssumption DEF TtlFromExpires, Covers

LEMMA WrittenOutlives ==
    ASSUME TypeOK, StoreOutlivesEnvelope, NEW es, NEW W,
           \A j \in W : es[j] \in EncEntry /\ Covers(es[j], now), store' = Written(es, W)
    PROVE  StoreOutlivesEnvelope'
  <1> SUFFICES ASSUME NEW k \in Keys, store'[k] # None, store'[k].exp # None
               PROVE  store'[k].env # None /\ store'[k].env <= store'[k].exp
    BY DEF StoreOutlivesEnvelope
  <1>1. CASE store'[k] = store[k]
    BY <1>1 DEF StoreOutlivesEnvelope
  <1>2. ASSUME NEW j \in W, store'[k] = Stamp(es[j], now)
        PROVE  store'[k].env # None /\ store'[k].env <= store'[k].exp
    BY <1>2 DEF Stamp, CalculateExpires, Covers
  <1> QED BY <1>1, <1>2 DEF Written

LEMMA WithoutOutlives ==
    ASSUME TypeOK, StoreOutlivesEnvelope, NEW K, store' = Without(K)
    PROVE  StoreOutlivesEnvelope'
  BY DEF StoreOutlivesEnvelope, Without, TypeOK

LEMMA SurvivorsCover ==
    ASSUME OutlivesInv, NEW t \in Tasks
    PROVE  \A i \in Survivors(t) : enc[t][i] \in EncEntry /\ Covers(enc[t][i], now)
  BY SurvivorsFinite DEF OutlivesInv, EncodedCovers, Survivors

LEMMA OutlivesStep == ASSUME OutlivesInv, [Next]_vars PROVE OutlivesInv'
  <1> USE DEF OutlivesInv
  <1>1. TypeOK'
    BY NextType
  <1>2. ASSUME NEW t \in Tasks, NewCall(t) PROVE StoreOutlivesEnvelope' /\ EncodedCovers'
    <2>1. EncodedCovers'
      <3>1. now' = now /\ enc' = [enc EXCEPT ![t] = <<>>]
        BY <1>2 DEF NewCall, Begin, FastGet, FastSet, FastDelete, FastHas, FastCall, Enter, Set
      <3> QED BY <3>1 DEF EncodedCovers, TypeOK
    <2>2. CASE UNCHANGED store
      BY <2>1, <2>2 DEF StoreOutlivesEnvelope
    <2>3. CASE FastSet(t) /\ ~UNCHANGED store
      <3>1. PICK args \in Inputs("set") :
              FastCall(t, "set", args) /\ store' = Written(<<SetEntry(args[1])>>, {1})
        BY <2>3 DEF FastSet
      <3>2. args[1] \in WriteArg
        <4>1. "set" \in Ops /\ "set" \in SingleOps /\ ArgOf("set") = WriteArg
          BY <3>1 DEF FastCall, SingleOps, ArgOf, SetOps
        <4> QED BY <3>1, <4>1, FastCallType
      <3>3. SetEntry(args[1]) \in EncEntry /\ Covers(SetEntry(args[1]), now)
        BY <3>2, SetEntryType, SetEntryCovers
      <3> DEFINE es == <<SetEntry(args[1])>>
      <3>4. \A j \in {1} : es[j] \in EncEntry /\ Covers(es[j], now)
        BY <3>3
      <3>5. store' = Written(es, {1})
        BY <3>1
      <3> HIDE DEF es
      <3> QED BY <2>1, <3>4, <3>5, WrittenOutlives
    <2>4. CASE FastDelete(t)
      <3>1. UNCHANGED store \/ \E K : store' = Without(K)
        BY <2>4 DEF FastDelete
      <3> QED BY <2>1, <2>2, <3>1, WithoutOutlives
    <2> QED BY <1>2, <2>1, <2>2, <2>3, <2>4 DEF NewCall, Begin, FastGet, FastHas
  <1>3. ASSUME NEW t \in Tasks, Step(t) PROVE StoreOutlivesEnvelope' /\ EncodedCovers'
    <2>1. CASE EncodeAll(t)
      <3>1. \A i \in Index(t) : Covers(Encoded(t, Args(t)[i]), now)
        BY <2>1, ArgFacts, SetEntryCovers, RawEntryCovers DEF EncodeAll, Encoded, ArgOf
      <3>2. enc' = [enc EXCEPT ![t] =
                      [i \in Index(t) |-> IF i \in Bad(t) THEN None ELSE Encoded(t, Args(t)[i])]]
            /\ UNCHANGED <<now, store>>
        BY <2>1 DEF EncodeAll, Set
      <3>3. EncodedCovers'
        BY <3>1, <3>2 DEF EncodedCovers, TypeOK
      <3> QED BY <3>2, <3>3 DEF StoreOutlivesEnvelope
    <2>2. CASE StoreSet(t) \/ StoreSetRejected(t)
      <3>1. \E W \in SUBSET Survivors(t) : store' = Written(enc[t], W)
        BY <2>2 DEF StoreSet, StoreSetRejected
      <3>2. StoreOutlivesEnvelope'
        BY <3>1, SurvivorsCover, WrittenOutlives
      <3>3. UNCHANGED <<now, enc>>
        BY <2>2 DEF StoreSet, StoreSetRejected
      <3> QED BY <3>2, <3>3 DEF EncodedCovers
    <2>3. CASE \/ Sweep(t) \/ SweepRejected(t) \/ StoreDelete(t) \/ StoreDeleteRejected(t)
               \/ StoreClear(t)
      <3>1. (\E K : store' = Without(K)) /\ UNCHANGED <<now, enc>>
        BY <2>3 DEF Sweep, SweepRejected, StoreDelete, StoreDeleteRejected, StoreClear
      <3> QED BY <3>1, WithoutOutlives DEF EncodedCovers
    <2>4. CASE UNCHANGED <<now, store, enc>>
      BY <2>4 DEF EncodedCovers, StoreOutlivesEnvelope
    <2> QED BY <1>3, <2>1, <2>2, <2>3, <2>4
            DEF Step, ReadStore, ReadRejected, Decode, StoreHas, StoreDisconnect,
                IterNext, IterEnd, Return
  <1>4. CASE \E k \in Keys : AdapterExpires(k)
    BY <1>1, <1>4, WithoutOutlives DEF AdapterExpires, EncodedCovers
  <1>5. CASE Tick
    <2>1. now \in Nat /\ now' = now + 1 /\ UNCHANGED <<store, enc>>
      BY <1>5 DEF Tick, TypeOK
    <2>2. \A t \in Tasks : \A i \in DOMAIN enc[t] :
             enc[t][i] # None => enc[t][i] \in EncEntry
      BY DEF TypeOK
    <2>3. \A e \in EncEntry : Covers(e, now) => Covers(e, now + 1)
      BY <2>1, DataAssumption DEF Covers, EncEntry, Times
    <2> QED BY <1>1, <2>1, <2>2, <2>3 DEF EncodedCovers, StoreOutlivesEnvelope
  <1>6. CASE UNCHANGED vars
    BY <1>1, <1>6 DEF vars, EncodedCovers, StoreOutlivesEnvelope
  <1> QED BY <1>1, <1>2, <1>3, <1>4, <1>5, <1>6 DEF Next

\* However long the encode takes, the adapter never expires an entry before
\* the envelope set, setMany, setRaw or setManyRaw stored in it.
THEOREM StoreOutlives == Spec => []StoreOutlivesEnvelope
  <1>1. Init => OutlivesInv
    BY InitType DEF Init, OutlivesInv, EncodedCovers, StoreOutlivesEnvelope
  <1>2. OutlivesInv /\ [Next]_vars => OutlivesInv'
    BY OutlivesStep
  <1>3. OutlivesInv => StoreOutlivesEnvelope
    BY DEF OutlivesInv
  <1> QED BY <1>1, <1>2, <1>3, PTL DEF Spec

---------------------------------------------------------------------------
(* A sweep loses only writes that raced with its read *)

\* Sanitizing a sanitized key changes nothing.
CleanIdempotent == \A k \in Keys : CleanKey[CleanKey[k]] = CleanKey[k]

IsClean(k) == CleanKey[k] = k

\* The facade works with cleaned keys everywhere, and stores under no other.
AllClean ==
    /\ \A t \in Tasks : \A i \in Index(t) : IsClean(KeyAt(t, i))
    /\ \A t \in Tasks : \A i \in DOMAIN enc[t] : enc[t][i] # None => IsClean(enc[t][i].key)
    /\ \A k \in Keys : store[k] # None => IsClean(k)

\* Until a key is written again, the store holds what was read or nothing.
ReadFresh(t) ==
    pc[t] = "decode" =>
        /\ DOMAIN rows[t] = Index(t)
        /\ \A i \in Index(t) : \/ rows[t][i] = None
                               \/ KeyAt(t, i) \in racy[t]
                               \/ store[KeyAt(t, i)] = None
                               \/ store[KeyAt(t, i)] = rows[t][i]

DoomedFresh(t) ==
    pc[t] = "sweep" =>
        /\ doomed[t] \subseteq Index(t)
        /\ \A i \in doomed[t] : \/ KeyAt(t, i) \in racy[t]
                                \/ store[KeyAt(t, i)] = None
                                \/ Expired(store[KeyAt(t, i)].env, now)

SweepInv == TypeOK /\ AllClean /\ \A t \in Tasks : ReadFresh(t) /\ DoomedFresh(t)

\* What a step of task t may do to the state the other tasks depend on.
Frame(t) ==
    /\ now' = now
    /\ \A k \in Keys : \/ store'[k] = store[k]
                       \/ store'[k] = None
                       \/ \A u \in Tasks : k \in racy'[u]
    /\ \A u \in Tasks \ {t} : /\ pc'[u] = pc[u] /\ call'[u] = call[u] /\ rows'[u] = rows[u]
                              /\ doomed'[u] = doomed[u] /\ racy[u] \subseteq racy'[u]

LEMMA FrameKeeps ==
    ASSUME SweepInv, NEW t \in Tasks, Frame(t), NEW u \in Tasks \ {t}
    PROVE  ReadFresh(u)' /\ DoomedFresh(u)'
  <1> USE DEF SweepInv
  <1>1. \A i \in Index(u) : KeyAt(u, i) \in Keys
    BY ArgFacts
  <1>2. Index(u)' = Index(u) /\ \A i : KeyAt(u, i)' = KeyAt(u, i)
    BY DEF Frame, Index, Args, KeyAt
  <1>3. ReadFresh(u)'
    <2> SUFFICES ASSUME pc'[u] = "decode"
                 PROVE  /\ DOMAIN rows'[u] = Index(u)
                        /\ \A i \in Index(u) : \/ rows'[u][i] = None
                                               \/ KeyAt(u, i) \in racy'[u]
                                               \/ store'[KeyAt(u, i)] = None
                                               \/ store'[KeyAt(u, i)] = rows'[u][i]
      BY <1>2 DEF ReadFresh
    <2> QED BY <1>1 DEF Frame, ReadFresh
  <1>4. DoomedFresh(u)'
    <2> SUFFICES ASSUME pc'[u] = "sweep"
                 PROVE  /\ doomed'[u] \subseteq Index(u)
                        /\ \A i \in doomed'[u] : \/ KeyAt(u, i) \in racy'[u]
                                                 \/ store'[KeyAt(u, i)] = None
                                                 \/ Expired(store'[KeyAt(u, i)].env, now')
      BY <1>2 DEF DoomedFresh
    <2> QED BY <1>1 DEF Frame, DoomedFresh
  <1> QED BY <1>3, <1>4

\* Removing keys, and writing keys that are noted as racy, respect the frame.
LEMMA WithoutFrame ==
    ASSUME TypeOK, NEW K, store' = Without(K)
    PROVE  \A k \in Keys : store'[k] = store[k] \/ store'[k] = None
  BY DEF Without

LEMMA WrittenFrame ==
    ASSUME NEW es, NEW W, NEW K, \A j \in W : es[j].key \in K, store' = Written(es, W), NoteWrites(K)
    PROVE  \A k \in Keys : store'[k] = store[k] \/ \A u \in Tasks : k \in racy'[u]
  <1> SUFFICES ASSUME NEW k \in Keys, store'[k] # store[k] PROVE k \in K
    BY DEF NoteWrites
  <1>1. \E j \in W : es[j].key = k
    BY DEF Written
  <1> QED BY <1>1

LEMMA NewCallFrame ==
    ASSUME TypeOK, NEW t \in Tasks, NewCall(t)
    PROVE  Frame(t) /\ pc'[t] \notin {"decode", "sweep"}
  <1> USE DEF TypeOK
  <1>1. /\ now' = now
        /\ \A u \in Tasks \ {t} : call'[u] = call[u] /\ doomed'[u] = doomed[u]
    BY DEF NewCall, Begin, FastGet, FastSet, FastDelete, FastHas, FastCall, Enter, Set
  <1>2. /\ \A u \in Tasks \ {t} : pc'[u] = pc[u] /\ rows'[u] = rows[u]
        /\ pc'[t] \notin {"decode", "sweep"}
    BY DEF NewCall, Begin, FastGet, FastSet, FastDelete, FastHas, FastReject, FastReturn,
           FastError, Goto, Set
  <1>3. /\ \A u \in Tasks \ {t} : racy[u] \subseteq racy'[u]
        /\ \A k \in Keys : \/ store'[k] = store[k]
                           \/ store'[k] = None
                           \/ \A u \in Tasks : k \in racy'[u]
    <2>1. CASE UNCHANGED <<store, racy>>
      BY <2>1
    <2>2. CASE FastDelete(t)
      BY <2>2, WithoutFrame DEF FastDelete
    <2>3. CASE FastSet(t) /\ ~UNCHANGED <<store, racy>>
      <3>1. PICK args \in Inputs("set") :
              store' = Written(<<SetEntry(args[1])>>, {1}) /\ NoteWrites({args[1].key})
        BY <2>3 DEF FastSet
      <3> DEFINE es == <<SetEntry(args[1])>>
      <3>2. \A j \in {1} : es[j].key \in {args[1].key}
        BY DEF SetEntry
      <3>3. store' = Written(es, {1})
        BY <3>1
      <3> DEFINE K == {args[1].key}
                 W == {1}
      <3>5. (\A j \in W : es[j].key \in K) /\ NoteWrites(K) /\ store' = Written(es, W)
        BY <3>1, <3>2, <3>3
      <3> HIDE DEF es, K, W
      <3>4. \A k \in Keys : store'[k] = store[k] \/ \A u \in Tasks : k \in racy'[u]
        BY <3>5, WrittenFrame
      <3> QED BY <3>1, <3>4 DEF NoteWrites
    <2> QED BY <2>1, <2>2, <2>3 DEF NewCall, Begin, FastGet, FastHas
  <1> QED BY <1>1, <1>2, <1>3 DEF Frame

LEMMA StepFrame ==
    ASSUME TypeOK, NEW t \in Tasks, Step(t)
    PROVE  Frame(t)
  <1> USE DEF TypeOK
  <1>1. CASE ReadStore(t) \/ ReadRejected(t) \/ Decode(t)
    BY <1>1 DEF Frame, ReadStore, ReadRejected, Decode, EmitError, Goto, Set
  <1>2. CASE Sweep(t) \/ SweepRejected(t)
    <2>1. (\E K : store' = Without(K)) /\ UNCHANGED <<now, call, rows, racy>>
      BY <1>2 DEF Sweep, SweepRejected
    <2>2. \A u \in Tasks \ {t} : pc'[u] = pc[u] /\ doomed'[u] = doomed[u]
      BY <1>2 DEF Sweep, SweepRejected, Goto, Set
    <2> QED BY <2>1, <2>2, WithoutFrame DEF Frame
  <1>3. CASE EncodeAll(t)
    BY <1>3 DEF Frame, EncodeAll, EmitError, Goto
  <1>4. CASE StoreSet(t) \/ StoreSetRejected(t)
    <2>1. \E W \in SUBSET Survivors(t) : store' = Written(enc[t], W) /\ NoteWrites(EncKeys(t, W))
      BY <1>4 DEF StoreSet, StoreSetRejected
    <2>2. \A k \in Keys : store'[k] = store[k] \/ \A u \in Tasks : k \in racy'[u]
      <3>1. PICK W \in SUBSET Survivors(t) :
              store' = Written(enc[t], W) /\ NoteWrites(EncKeys(t, W))
        BY <2>1
      <3> DEFINE K == EncKeys(t, W)
                 es == enc[t]
      <3>2. \A j \in W : es[j].key \in K
        BY DEF EncKeys
      <3>3. store' = Written(es, W) /\ NoteWrites(K)
        BY <3>1
      <3> HIDE DEF K, es
      <3> QED BY <3>2, <3>3, WrittenFrame
    <2>3. \A u \in Tasks : racy[u] \subseteq racy'[u]
      BY <2>1 DEF NoteWrites
    <2>4. UNCHANGED <<now, call, rows, doomed>> /\ \A u \in Tasks \ {t} : pc'[u] = pc[u]
      BY <1>4 DEF StoreSet, StoreSetRejected, EmitError, Goto
    <2> QED BY <2>2, <2>3, <2>4 DEF Frame
  <1>5. CASE StoreDelete(t) \/ StoreDeleteRejected(t) \/ StoreClear(t)
    <2>1. (\E K : store' = Without(K)) /\ UNCHANGED <<now, call, rows, racy, doomed>>
      BY <1>5 DEF StoreDelete, StoreDeleteRejected, StoreClear
    <2>2. \A u \in Tasks \ {t} : pc'[u] = pc[u]
      BY <1>5 DEF StoreDelete, StoreDeleteRejected, StoreClear, EmitError, Goto
    <2> QED BY <2>1, <2>2, WithoutFrame DEF Frame
  <1>6. CASE StoreHas(t) \/ StoreDisconnect(t) \/ IterEnd(t) \/ Return(t)
    BY <1>6 DEF Frame, StoreHas, StoreDisconnect, IterEnd, Return, EmitError, Goto
  <1>7. CASE IterNext(t)
    BY <1>7 DEF Frame, IterNext, Goto, Set
  <1> QED BY <1>1, <1>2, <1>3, <1>4, <1>5, <1>6, <1>7 DEF Step

\* The task's own read stays fresh.
LEMMA StepFresh ==
    ASSUME SweepInv, NEW t \in Tasks, Step(t)
    PROVE  ReadFresh(t)' /\ DoomedFresh(t)'
  <1> USE DEF SweepInv
  <1>1. CASE ReadStore(t)
    <2>1. /\ pc'[t] # "sweep" /\ UNCHANGED <<store, call>>
          /\ rows'[t] = [i \in Index(t) |-> Fetch(KeyAt(t, i))]
      BY <1>1 DEF ReadStore, Goto, Set, TypeOK
    <2> QED BY <2>1 DEF ReadFresh, DoomedFresh, Index, Args, KeyAt, Fetch
  <1>2. CASE ReadRejected(t)
    <2>1. /\ pc'[t] # "sweep" /\ UNCHANGED <<store, call>>
          /\ rows'[t] = [i \in Index(t) |-> None]
      BY <1>2 DEF ReadRejected, EmitError, Goto, Set, TypeOK
    <2> QED BY <2>1 DEF ReadFresh, DoomedFresh, Index, Args
  <1>3. CASE Decode(t)
    <2>1. PICK bad : /\ doomed'[t] = ExpiredRows(Decoded(t, bad))
                     /\ pc'[t] # "decode"
      BY <1>3 DEF Decode, EmitError, Goto, Set, AfterSweep, TypeOK
    <2>2. UNCHANGED <<now, store, call, racy>> /\ pc[t] = "decode"
      BY <1>3 DEF Decode
    <2>3. doomed'[t] \subseteq Index(t)
      BY <2>1, <2>2 DEF ExpiredRows, Decoded, ReadFresh
    <2>4. ASSUME NEW i \in doomed'[t]
          PROVE  \/ KeyAt(t, i) \in racy[t]
                 \/ store[KeyAt(t, i)] = None
                 \/ Expired(store[KeyAt(t, i)].env, now)
      <3>1. i \in DOMAIN rows[t] /\ rows[t][i] # None /\ Expired(rows[t][i].env, now)
        BY <2>1 DEF ExpiredRows, Decoded
      <3> QED BY <2>2, <2>3, <3>1 DEF ReadFresh
    <2> QED BY <2>1, <2>2, <2>3, <2>4 DEF ReadFresh, DoomedFresh, Index, Args, KeyAt
  <1>4. CASE IterNext(t)
    <2>1. PICK k : call'[t] = IterCall(k) /\ rows'[t] = <<store[k]>>
      BY <1>4 DEF IterNext, Set, TypeOK
    <2>2. pc'[t] = "decode" /\ UNCHANGED store
      BY <1>4 DEF IterNext, Goto, TypeOK
    <2>3. Index(t)' = {1} /\ KeyAt(t, 1)' = k /\ DOMAIN rows'[t] = {1} /\ rows'[t][1] = store[k]
      BY <2>1 DEF Index, Args, KeyAt, IterCall
    <2> QED BY <2>2, <2>3 DEF ReadFresh, DoomedFresh
  <1>5. CASE ~(ReadStore(t) \/ ReadRejected(t) \/ Decode(t) \/ IterNext(t))
    <2>1. pc'[t] \notin {"decode", "sweep"}
      BY <1>5 DEF Step, Sweep, SweepRejected, EncodeAll, StoreSet, StoreSetRejected, StoreDelete,
                  StoreDeleteRejected, StoreHas, StoreClear, StoreDisconnect, IterEnd, Return,
                  EmitError, Goto, AfterSweep, TypeOK
    <2> QED BY <2>1 DEF ReadFresh, DoomedFresh
  <1> QED BY <1>1, <1>2, <1>3, <1>4, <1>5

LEMMA CleanArgs ==
    ASSUME CleanIdempotent, NEW op \in AllOps, NEW raw \in Inputs(op)
    PROVE  \A i \in DOMAIN Clean(raw) : IsClean(Clean(raw)[i].key)
  <1> SUFFICES ASSUME NEW i \in DOMAIN Clean(raw) PROVE IsClean(Clean(raw)[i].key)
    OBVIOUS
  <1>1. i \in DOMAIN raw /\ raw[i] \in Arg
    BY InputsType DEF Clean
  <1>2. Clean(raw)[i].key = CleanKey[raw[i].key] /\ raw[i].key \in Keys
    BY <1>1 DEF Clean, Arg
  <1> QED BY <1>2 DEF CleanIdempotent, IsClean

\* Writing entries under clean keys keeps the store clean.
LEMMA WrittenClean ==
    ASSUME AllClean, NEW es, NEW W, \A j \in W : IsClean(es[j].key), store' = Written(es, W)
    PROVE  \A k \in Keys : store'[k] # None => IsClean(k)
  BY DEF AllClean, Written

LEMMA NewCallClean ==
    ASSUME CleanIdempotent, TypeOK, AllClean, NEW t \in Tasks, NewCall(t)
    PROVE  AllClean'
  <1>1. \E args \in Seq(Arg) :
           /\ call'[t].args = args /\ \A i \in 1..Len(args) : IsClean(args[i].key)
    <2>1. CASE Begin(t)
      <3>1. PICK op \in Ops : \E raw \in Inputs(op) : Enter(t, op, Clean(raw))
        BY <2>1 DEF Begin
      <3>2. PICK raw \in Inputs(op) : Enter(t, op, Clean(raw))
        BY <3>1
      <3>3. op \in AllOps
        BY ConfigAssumption
      <3>4. Clean(raw) \in Seq(Arg) /\ \A i \in DOMAIN Clean(raw) : IsClean(Clean(raw)[i].key)
        BY <3>3, CleanType, CleanArgs
      <3>5. call'[t].args = Clean(raw)
        BY <3>2 DEF Enter, Set, TypeOK
      <3> QED BY <3>4, <3>5
    <2>2. CASE ~Begin(t)
      <3>1. PICK op \in Ops : \E args \in Inputs(op) : FastCall(t, op, args)
        BY <2>2 DEF NewCall, FastGet, FastSet, FastDelete, FastHas, FastCall
      <3>2. PICK args \in Inputs(op) : FastCall(t, op, args)
        BY <3>1
      <3>3. op \in AllOps /\ \A k \in Keys : IsClean(k)
        BY <3>2, ConfigAssumption DEF FastCall, TakesFastPath, IsClean
      <3>4. args \in Seq(Arg)
        BY <3>3, InputsType
      <3>5. \A i \in 1..Len(args) : IsClean(args[i].key)
        <4>1. \A i \in 1..Len(args) : args[i] \in Arg
          BY <3>4
        <4>2. \A a \in Arg : a.key \in Keys
          BY DEF Arg
        <4> QED BY <3>3, <4>1, <4>2
      <3>6. call'[t].args = args
        BY <3>2 DEF FastCall, Enter, Set, TypeOK
      <3> QED BY <3>4, <3>5, <3>6
    <2> QED BY <2>1, <2>2
  <1>2. \A u \in Tasks : \A i \in Index(u)' : IsClean(KeyAt(u, i)')
    <2>1. \A u \in Tasks \ {t} : call'[u] = call[u]
      BY NewCallFrame DEF Frame
    <2> QED BY <1>1, <2>1 DEF AllClean, Index, Args, KeyAt
  <1>3. \A u \in Tasks : \A i \in DOMAIN enc'[u] : enc'[u][i] # None => IsClean(enc'[u][i].key)
    <2>1. enc' = [enc EXCEPT ![t] = <<>>]
      BY DEF NewCall, Begin, FastGet, FastSet, FastDelete, FastHas, FastCall, Enter, Set
    <2> QED BY <2>1 DEF AllClean, TypeOK
  <1>4. \A k \in Keys : store'[k] # None => IsClean(k)
    <2>1. CASE FastSet(t)
      BY <2>1, ConfigAssumption DEF FastSet, FastCall, TakesFastPath, IsClean
    <2>2. CASE FastDelete(t)
      BY <2>2 DEF FastDelete, Without, AllClean
    <2>3. CASE UNCHANGED store
      BY <2>3 DEF AllClean
    <2> QED BY <2>1, <2>2, <2>3 DEF NewCall, Begin, FastGet, FastHas
  <1> QED BY <1>2, <1>3, <1>4 DEF AllClean, IsClean

LEMMA StepClean ==
    ASSUME TypeOK, AllClean, NEW t \in Tasks, Step(t)
    PROVE  AllClean'
  <1>1. CASE EncodeAll(t)
    <2>1. \A i \in Index(t) : Encoded(t, Args(t)[i]).key = KeyAt(t, i)
      BY DEF Encoded, SetEntry, RawEntry, KeyAt
    <2>2. enc' = [enc EXCEPT ![t] =
                    [i \in Index(t) |-> IF i \in Bad(t) THEN None ELSE Encoded(t, Args(t)[i])]]
          /\ UNCHANGED <<store, call>>
      BY <1>1 DEF EncodeAll, Set
    <2>3. \A u \in Tasks : \A i \in DOMAIN enc'[u] : enc'[u][i] # None => IsClean(enc'[u][i].key)
      BY <2>1, <2>2 DEF AllClean, TypeOK
    <2> QED BY <2>2, <2>3 DEF AllClean, IsClean, Index, Args, KeyAt
  <1>2. CASE StoreSet(t) \/ StoreSetRejected(t)
    <2>1. PICK W \in SUBSET Survivors(t) : store' = Written(enc[t], W)
      BY <1>2 DEF StoreSet, StoreSetRejected
    <2>2. \A j \in W : IsClean(enc[t][j].key)
      BY DEF AllClean, Survivors
    <2>3. \A k \in Keys : store'[k] # None => IsClean(k)
      BY <2>1, <2>2, WrittenClean
    <2>4. UNCHANGED <<call, enc>>
      BY <1>2 DEF StoreSet, StoreSetRejected
    <2> QED BY <2>3, <2>4 DEF AllClean, IsClean, Index, Args, KeyAt
  <1>3. CASE IterNext(t)
    <2>1. PICK k \in todo[t] : Visible(k) /\ call' = [call EXCEPT ![t] = IterCall(k)]
      BY <1>3 DEF IterNext, Set
    <2>2. k \in Keys /\ IsClean(k)
      BY <2>1 DEF TypeOK, Visible, AllClean
    <2>3. Index(t)' = {1} /\ KeyAt(t, 1)' = k
      BY <2>1 DEF Index, Args, KeyAt, IterCall, TypeOK
    <2>4. \A u \in Tasks \ {t} : call'[u] = call[u]
      BY <2>1
    <2>5. \A u \in Tasks : \A i \in Index(u)' : IsClean(KeyAt(u, i)')
      BY <2>2, <2>3, <2>4 DEF AllClean, Index, Args, KeyAt
    <2>6. UNCHANGED <<store, enc>>
      BY <1>3 DEF IterNext
    <2> QED BY <2>5, <2>6 DEF AllClean, IsClean
  <1>4. CASE (\E K : store' = Without(K)) /\ UNCHANGED <<call, enc>>
    BY <1>4 DEF AllClean, IsClean, Without, Index, Args, KeyAt
  <1>5. CASE UNCHANGED <<store, call, enc>>
    BY <1>5 DEF AllClean, IsClean, Index, Args, KeyAt
  <1>6. CASE Sweep(t) \/ SweepRejected(t) \/ StoreDelete(t) \/ StoreDeleteRejected(t) \/ StoreClear(t)
    BY <1>4, <1>6 DEF Sweep, SweepRejected, StoreDelete, StoreDeleteRejected, StoreClear
  <1>7. CASE \/ ReadStore(t) \/ ReadRejected(t) \/ Decode(t) \/ StoreHas(t)
             \/ StoreDisconnect(t) \/ IterEnd(t) \/ Return(t)
    BY <1>5, <1>7 DEF ReadStore, ReadRejected, Decode, StoreHas, StoreDisconnect, IterEnd, Return
  <1> QED BY <1>1, <1>2, <1>3, <1>6, <1>7 DEF Step

LEMMA SweepStep == ASSUME CleanIdempotent, SweepInv, [Next]_vars PROVE SweepInv'
  <1> USE DEF SweepInv
  <1>1. TypeOK'
    BY NextType
  <1>2. CASE \E t \in Tasks : NewCall(t)
    <2>1. PICK t \in Tasks : NewCall(t)
      BY <1>2
    <2>2. ReadFresh(t)' /\ DoomedFresh(t)'
      BY <2>1, NewCallFrame DEF ReadFresh, DoomedFresh
    <2>3. AllClean'
      BY <2>1, NewCallClean
    <2>4. \A u \in Tasks \ {t} : ReadFresh(u)' /\ DoomedFresh(u)'
      BY <2>1, NewCallFrame, FrameKeeps
    <2> QED BY <1>1, <2>2, <2>3, <2>4
  <1>3. CASE \E t \in Tasks : Step(t)
    <2>1. PICK t \in Tasks : Step(t)
      BY <1>3
    <2>2. ReadFresh(t)' /\ DoomedFresh(t)'
      BY <2>1, StepFresh
    <2>3. AllClean'
      BY <2>1, StepClean
    <2>4. \A u \in Tasks \ {t} : ReadFresh(u)' /\ DoomedFresh(u)'
      BY <2>1, StepFrame, FrameKeeps
    <2> QED BY <1>1, <2>2, <2>3, <2>4
  <1>4. CASE (\E k \in Keys : AdapterExpires(k)) \/ Tick
    <2>1. /\ \A k \in Keys : store'[k] = store[k] \/ store'[k] = None
          /\ UNCHANGED <<pc, call, enc, rows, doomed, racy>>
          /\ now' = now \/ now' = now + 1
      BY <1>4, WithoutFrame DEF AdapterExpires, Tick
    <2>2. AllClean'
      BY <2>1 DEF AllClean, IsClean, Index, Args, KeyAt
    <2>3. ASSUME NEW u \in Tasks PROVE ReadFresh(u)' /\ DoomedFresh(u)'
      <3>1. \A i \in Index(u) : KeyAt(u, i) \in Keys
        BY ArgFacts
      <3>2. Index(u)' = Index(u) /\ \A i : KeyAt(u, i)' = KeyAt(u, i)
        BY <2>1 DEF Index, Args, KeyAt
      <3>3. ReadFresh(u)'
        BY <2>1, <3>1, <3>2 DEF ReadFresh
      <3>4. \A k \in Keys : (store[k] # None /\ Expired(store[k].env, now)) =>
               \/ store'[k] = None
               \/ Expired(store'[k].env, now')
        <4>1. now \in Nat /\ \A k \in Keys : store[k] # None => store[k].env \in Nat \cup {None}
          BY DEF TypeOK, Entry, Times
        <4> QED BY <2>1, <4>1 DEF Expired
      <3>5. DoomedFresh(u)'
        BY <2>1, <3>1, <3>2, <3>4 DEF DoomedFresh
      <3> QED BY <3>3, <3>5
    <2> QED BY <1>1, <2>2, <2>3
  <1>5. CASE UNCHANGED vars
    BY <1>1, <1>5 DEF vars, AllClean, IsClean, ReadFresh, DoomedFresh, Index, Args, KeyAt
  <1> QED BY <1>2, <1>3, <1>4, <1>5 DEF Next

LEMMA SweepInit == Init => SweepInv
  <1> SUFFICES ASSUME Init PROVE SweepInv
    OBVIOUS
  <1>1. AllClean
    BY DEF Init, AllClean, Index, Args
  <1>2. \A t \in Tasks : ReadFresh(t) /\ DoomedFresh(t)
    BY DEF Init, ReadFresh, DoomedFresh
  <1> QED BY <1>1, <1>2, InitType DEF SweepInv

LEMMA SweepImplies == ASSUME SweepInv PROVE SweepSafe
  <1> SUFFICES ASSUME NEW t \in Tasks, pc[t] = "sweep", NEW k \in Swept(t)
               PROVE  k \in racy[t] \/ store[k] = None \/ Expired(store[k].env, now)
    BY DEF SweepSafe
  <1>1. PICK i \in doomed[t] : k = CleanKey[KeyAt(t, i)]
    BY DEF Swept
  <1>2. i \in Index(t) /\ k = KeyAt(t, i)
    BY <1>1 DEF SweepInv, DoomedFresh, AllClean, IsClean
  <1> QED BY <1>1, <1>2 DEF SweepInv, DoomedFresh

\* If sanitizing is idempotent, the keys decodeWithExpire deletes are gone or
\* expired, except for keys written since its own read.  The hypothesis is
\* needed: the keys of a sweep are sanitized a second time by deleteMany.
THEOREM SweepSafety == ASSUME CleanIdempotent PROVE Spec => []SweepSafe
  <1>1. Init => SweepInv
    BY SweepInit
  <1>2. SweepInv /\ [Next]_vars => SweepInv'
    BY SweepStep
  <1>3. SweepInv => SweepSafe
    BY SweepImplies
  <1> QED BY <1>1, <1>2, <1>3, PTL DEF Spec

---------------------------------------------------------------------------
(* What a call reports.                                                    *)

WriteOps == SetOps \cup RawOps \cup DeleteOps

\* Where a call stands, and how many keys a single-key call has.
Shape(t) ==
    /\ pc[t] \in {"decode", "sweep"} => Op(t) \in GetOps \cup HasOps \cup {"iterator"}
    /\ pc[t] = "iter" => Op(t) = "iterator"
    /\ pc[t] = "encode" => Op(t) \in SetOps \cup RawOps
    /\ Op(t) = "iterator" => pc[t] \notin {"before", "after"}
    /\ Op(t) \in SingleOps => Len(Args(t)) = 1

\* A failure that was not thrown was raised, and nothing is acknowledged after it.
Reported(t) ==
    failed[t] => \/ pc[t] = "rejected"
                 \/ /\ ~ThrowOnErrors /\ tele[t].raised
                    /\ Op(t) \in WriteOps => /\ pc[t] \in {"after", "resolved"}
                                             /\ \A i \in DOMAIN oks[t] : ~oks[t][i]

ReportInv == TypeOK /\ \A t \in Tasks : Shape(t) /\ Reported(t)

\* A task's own step leaves every other task's call alone.
LEMMA OthersKeep ==
    ASSUME TypeOK, NEW t \in Tasks, NewCall(t) \/ Step(t), NEW u \in Tasks \ {t}
    PROVE  /\ pc'[u] = pc[u] /\ call'[u] = call[u] /\ enc'[u] = enc[u] /\ rows'[u] = rows[u]
           /\ oks'[u] = oks[u] /\ tele'[u] = tele[u] /\ failed'[u] = failed[u]
  <1> USE DEF TypeOK, Set, Goto, Count, EmitError, Fault
  <1>1. CASE Begin(t)
    BY <1>1 DEF Begin, Enter
  <1>2. CASE FastGet(t) \/ FastSet(t) \/ FastDelete(t) \/ FastHas(t)
    BY <1>2 DEF FastGet, FastSet, FastDelete, FastHas, FastCall, Enter, FastReturn, FastError,
                FastReject
  <1>3. CASE ReadStore(t) \/ ReadRejected(t) \/ Decode(t) \/ Sweep(t) \/ SweepRejected(t)
    BY <1>3 DEF ReadStore, ReadRejected, Decode, Sweep, SweepRejected
  <1>4. CASE EncodeAll(t) \/ StoreSet(t) \/ StoreSetRejected(t)
    BY <1>4 DEF EncodeAll, StoreSet, StoreSetRejected
  <1>5. CASE StoreDelete(t) \/ StoreDeleteRejected(t) \/ StoreHas(t) \/ StoreClear(t)
             \/ StoreDisconnect(t)
    BY <1>5 DEF StoreDelete, StoreDeleteRejected, StoreHas, StoreClear, StoreDisconnect
  <1>6. CASE IterNext(t) \/ IterEnd(t) \/ Return(t)
    BY <1>6 DEF IterNext, IterEnd, Return
  <1> QED BY <1>1, <1>2, <1>3, <1>4, <1>5, <1>6 DEF NewCall, Step

\* What an emitted error does to its own call.
LEMMA ErrorEffect ==
    ASSUME TypeOK, NEW t \in Tasks, NEW n, NEW p, EmitError(t, n, p)
    PROVE  /\ pc'[t] = IF ThrowOnErrors THEN "rejected" ELSE p
           /\ tele'[t].raised
           /\ tele'[t].hit = tele[t].hit /\ tele'[t].miss = tele[t].miss
           /\ tele'[t].set = tele[t].set /\ tele'[t].delete = tele[t].delete
  <1>1. tele[t] \in Tele
    BY DEF TypeOK
  <1>2. /\ tele'[t].raised
        /\ tele'[t].hit = tele[t].hit /\ tele'[t].miss = tele[t].miss
        /\ tele'[t].set = tele[t].set /\ tele'[t].delete = tele[t].delete
    BY <1>1 DEF EmitError, TypeOK, Tele
  <1> QED BY <1>2 DEF EmitError, Goto, TypeOK

\* A new call has the arguments of its operation, and has not failed unless it
\* is over.
LEMMA NewCallReported ==
    ASSUME TypeOK, NEW t \in Tasks, NewCall(t)
    PROVE  Shape(t)' /\ Reported(t)'
  <1> USE DEF TypeOK, Set, Goto
  <1>1. CASE Begin(t)
    <2>1. PICK op \in Ops : \E raw \in Inputs(op) :
            /\ call'[t] = [op |-> op, args |-> Clean(raw)]
            /\ pc'[t] \in {"resolved", IF op = "iterator" THEN "iter" ELSE "before"}
      BY <1>1 DEF Begin, Enter
    <2>2. PICK raw \in Inputs(op) :
            /\ call'[t] = [op |-> op, args |-> Clean(raw)]
            /\ pc'[t] \in {"resolved", IF op = "iterator" THEN "iter" ELSE "before"}
      BY <2>1
    <2>3. op \in AllOps
      BY ConfigAssumption
    <2>4. op \in SingleOps => Len(Clean(raw)) = 1
      BY <2>3, CleanType, InputsType
    <2>5. ~failed'[t]
      BY <1>1 DEF Begin
    <2> QED BY <2>2, <2>4, <2>5 DEF Shape, Reported, Op, Args
  <1>2. CASE ~Begin(t)
    <2>1. PICK op \in FastOps : \E args \in Inputs(op) :
            /\ FastCall(t, op, args)
            /\ \/ \E row, ok : FastReturn(t, row, ok)
               \/ \E fault \in BOOLEAN : FastError(t, fault)
      BY <1>2 DEF NewCall, FastGet, FastSet, FastDelete, FastHas, FastReject, FastOps
    <2>2. PICK args \in Inputs(op) :
            /\ FastCall(t, op, args)
            /\ \/ \E row, ok : FastReturn(t, row, ok)
               \/ \E fault \in BOOLEAN : FastError(t, fault)
      BY <2>1
    <2>3. op \in AllOps /\ op \in SingleOps
      BY DEF FastOps, AllOps, GetOps, SetOps, DeleteOps, HasOps, SingleOps
    <2>4. Len(args) = 1
      BY <2>3, InputsType
    <2>5. call'[t] = [op |-> op, args |-> args]
      BY <2>2 DEF FastCall, Enter
    <2>6. pc'[t] \in {"resolved", "rejected"}
      BY <2>2 DEF FastReturn, FastError
    <2>7. Shape(t)'
      BY <2>4, <2>5, <2>6 DEF Shape, Op, Args
    <2>8. Reported(t)'
      <3>1. ASSUME failed'[t], pc'[t] # "rejected"
            PROVE  ~ThrowOnErrors /\ tele'[t].raised /\ pc'[t] = "resolved" /\ oks'[t] = <<FALSE>>
        <4>1. NoTele.raised = FALSE /\ [NoTele EXCEPT !.raised = TRUE].raised = TRUE
          BY DEF NoTele
        <4>2. PICK fault \in BOOLEAN : FastError(t, fault)
          BY <2>2, <3>1 DEF FastReturn
        <4>3. /\ oks'[t] = <<FALSE>> /\ tele'[t] = [NoTele EXCEPT !.raised = TRUE]
              /\ pc'[t] = IF ThrowOnErrors THEN "rejected" ELSE "resolved"
          BY <4>2 DEF FastError
        <4> QED BY <3>1, <4>1, <4>3
      <3> DEFINE none == <<FALSE>>
      <3>2. DOMAIN none = {1} /\ none[1] = FALSE
        OBVIOUS
      <3> HIDE DEF none
      <3>3. ASSUME failed'[t], pc'[t] # "rejected" PROVE oks'[t] = none
        BY <3>1, <3>3 DEF none
      <3> QED BY <3>1, <3>2, <3>3 DEF Reported
    <2> QED BY <2>7, <2>8
  <1> QED BY <1>1, <1>2

\* A task's own step keeps the shape of its call and reports its failures.
LEMMA StepReported ==
    ASSUME ReportInv, NEW t \in Tasks, Step(t)
    PROVE  Shape(t)' /\ Reported(t)'
  <1>a. /\ TypeOK
        /\ t \in DOMAIN pc /\ t \in DOMAIN oks /\ t \in DOMAIN tele /\ t \in DOMAIN failed
        /\ tele[t] \in Tele
    BY DEF ReportInv, TypeOK
  <1>b. Shape(t) /\ Reported(t)
    BY DEF ReportInv
  <1>c. ASSUME UNCHANGED call PROVE Op(t)' = Op(t) /\ Args(t)' = Args(t)
    BY <1>c DEF Op, Args
  \* A step that stays within its call, fails only as it should and acknowledges nothing new.
  <1>d. ASSUME UNCHANGED call, pc'[t] \in {"decode", "sweep", "iter", "after", "resolved", "rejected"},
               Op(t) \in GetOps \cup HasOps \cup OtherOps, Shape(t)',
               failed'[t] => pc'[t] = "rejected" \/ failed[t] \/ (~ThrowOnErrors /\ tele'[t].raised),
               pc[t] # "rejected", tele[t].raised => tele'[t].raised
        PROVE  Reported(t)'
    <2>1. Op(t)' \notin WriteOps
      BY <1>c, <1>d DEF WriteOps, SetOps, RawOps, DeleteOps, GetOps, HasOps, OtherOps
    <2> QED BY <1>b, <1>d, <2>1 DEF Reported
  <1> USE DEF Set, Goto
  <1>1. CASE ReadStore(t)
    <2>1. /\ pc'[t] \in {"after", "decode"} /\ UNCHANGED <<call, tele, failed>> /\ pc[t] = "before"
          /\ Op(t) \in GetOps \cup HasOps
      BY <1>1, <1>a DEF ReadStore, Reads
    <2>2. Shape(t)'
      BY <1>b, <1>c, <2>1 DEF Shape, GetOps, HasOps
    <2> QED BY <1>d, <2>1, <2>2
  <1>2. CASE ReadRejected(t)
    <2>1. /\ pc'[t] \in {"after", "decode", "rejected"} /\ UNCHANGED call /\ pc[t] = "before"
          /\ Op(t) \in GetOps \cup HasOps
          /\ pc'[t] = "rejected" \/ (~ThrowOnErrors /\ tele'[t].raised)
          /\ tele[t].raised => tele'[t].raised
      BY <1>2, <1>a, ErrorEffect DEF ReadRejected, Reads
    <2>2. Shape(t)'
      BY <1>b, <1>c, <2>1 DEF Shape, GetOps, HasOps
    <2> QED BY <1>d, <2>1, <2>2
  <1>3. CASE Decode(t)
    <2>1. /\ pc'[t] \in {"sweep", "rejected", IF Op(t) = "iterator" THEN "iter" ELSE "after"}
          /\ UNCHANGED <<call, failed>> /\ pc[t] = "decode"
          /\ tele[t].raised => tele'[t].raised
      BY <1>3, <1>a, ErrorEffect DEF Decode, AfterSweep
    <2>2. Shape(t)' /\ Op(t) \in GetOps \cup HasOps \cup OtherOps
      BY <1>b, <1>c, <2>1 DEF Shape, GetOps, HasOps, OtherOps
    <2> QED BY <1>d, <2>1, <2>2
  <1>4. CASE Sweep(t) \/ SweepRejected(t)
    <2>1. /\ pc'[t] \in {"rejected", IF Op(t) = "iterator" THEN "iter" ELSE "after"}
          /\ UNCHANGED call /\ pc[t] = "sweep"
      BY <1>4, <1>a DEF Sweep, SweepRejected, AfterSweep
    <2>2. tele[t].raised => tele'[t].raised
      BY <1>4, <1>a DEF Sweep, SweepRejected, Count, Tele
    <2>3. failed'[t] => failed[t] \/ pc'[t] = "rejected" \/ (~ThrowOnErrors /\ tele'[t].raised)
      BY <1>4, <1>a DEF Sweep, SweepRejected, Fault, Tele
    <2>4. Shape(t)' /\ Op(t) \in GetOps \cup HasOps \cup OtherOps
      BY <1>b, <1>c, <2>1 DEF Shape, GetOps, HasOps, OtherOps
    <2> QED BY <1>d, <2>1, <2>2, <2>3, <2>4
  <1>5. CASE EncodeAll(t)
    <2>1. /\ pc'[t] \in {"encode", "after", "resolved", "rejected"} /\ UNCHANGED <<call, failed>>
          /\ pc[t] = "before" /\ Op(t) \in SetOps \cup RawOps
      BY <1>5, <1>a, ErrorEffect DEF EncodeAll
    <2>2. ~failed'[t]
      BY <1>b, <2>1 DEF Reported, WriteOps
    <2> QED BY <1>b, <1>c, <2>1, <2>2 DEF Shape, Reported, SetOps, RawOps
  <1>6. CASE StoreSet(t)
    <2>1. pc'[t] = "after" /\ UNCHANGED <<call, failed>> /\ pc[t] = "encode"
      BY <1>6, <1>a DEF StoreSet
    <2>2. ~failed'[t] /\ Op(t) \in SetOps \cup RawOps
      BY <1>b, <2>1 DEF Reported, Shape, WriteOps
    <2> QED BY <1>b, <1>c, <2>1, <2>2 DEF Shape, Reported, SetOps, RawOps
  <1>7. CASE StoreSetRejected(t) \/ StoreDeleteRejected(t)
    <2>1. /\ UNCHANGED call /\ pc[t] \in {"before", "encode"}
          /\ oks'[t] = All(t, FALSE)
          /\ pc'[t] = IF ThrowOnErrors THEN "rejected" ELSE "after"
          /\ tele'[t].raised
      BY <1>7, <1>a, ErrorEffect DEF StoreSetRejected, StoreDeleteRejected
    <2>2. Op(t) # "iterator"
      BY <1>b, <2>1 DEF Shape, SetOps, RawOps
    <2>3. \A i \in DOMAIN oks'[t] : ~oks'[t][i]
      BY <2>1 DEF All
    <2> QED BY <1>b, <1>c, <2>1, <2>2, <2>3 DEF Shape, Reported
  <1>8. CASE StoreDelete(t)
    <2>1. pc'[t] = "after" /\ UNCHANGED <<call, failed>> /\ pc[t] = "before" /\ Op(t) \in DeleteOps
      BY <1>8, <1>a DEF StoreDelete
    <2>2. ~failed'[t]
      BY <1>b, <2>1 DEF Reported, WriteOps
    <2> QED BY <1>b, <1>c, <2>1, <2>2 DEF Shape, Reported, DeleteOps
  <1>9. CASE StoreHas(t) \/ StoreClear(t) \/ StoreDisconnect(t)
    <2>1. /\ pc'[t] \in {"after", "rejected"} /\ UNCHANGED call /\ pc[t] = "before"
          /\ Op(t) \in HasOps \cup {"clear", "disconnect"}
          /\ failed'[t] => failed[t] \/ pc'[t] = "rejected" \/ (~ThrowOnErrors /\ tele'[t].raised)
          /\ tele[t].raised => tele'[t].raised
      BY <1>9, <1>a, ErrorEffect DEF StoreHas, StoreClear, StoreDisconnect
    <2>2. Shape(t)' /\ Op(t) \in GetOps \cup HasOps \cup OtherOps
      BY <1>b, <1>c, <2>1 DEF Shape, HasOps, OtherOps
    <2> QED BY <1>d, <2>1, <2>2
  <1>10. CASE IterNext(t)
    <2>1. /\ Op(t)' = "iterator" /\ pc'[t] = "decode" /\ UNCHANGED <<tele, failed>>
          /\ pc[t] = "iter"
      <3>1. PICK k : call'[t] = IterCall(k)
        BY <1>10 DEF IterNext, ReportInv, TypeOK
      <3> QED BY <1>10, <1>a, <3>1 DEF IterNext, IterCall, Op
    <2> QED BY <1>b, <2>1 DEF Shape, Reported, SingleOps, WriteOps, SetOps, RawOps, DeleteOps
  <1>11. CASE IterEnd(t)
    <2>1. /\ pc'[t] \in {"resolved", "rejected"} /\ UNCHANGED <<call, tele>> /\ pc[t] = "iter"
          /\ failed'[t] => failed[t] \/ pc'[t] = "rejected"
      BY <1>11, <1>a DEF IterEnd, Fault
    <2>2. Shape(t)' /\ Op(t) \in OtherOps
      BY <1>b, <1>c, <2>1 DEF Shape, OtherOps
    <2> QED BY <1>d, <2>1, <2>2
  <1>12. CASE Return(t)
    <2>1. pc'[t] = "resolved" /\ UNCHANGED <<call, oks, failed>> /\ pc[t] = "after"
      BY <1>12, <1>a DEF Return
    <2>2. tele[t].raised => tele'[t].raised
      BY <1>12, <1>a DEF Return, Count, Tele
    <2> QED BY <1>b, <1>c, <2>1, <2>2 DEF Shape, Reported
  <1> QED BY <1>1, <1>2, <1>3, <1>4, <1>5, <1>6, <1>7, <1>8, <1>9, <1>10, <1>11, <1>12 DEF Step

LEMMA ReportStep == ASSUME ReportInv, [Next]_vars PROVE ReportInv'
  <1>1. TypeOK'
    BY NextType DEF ReportInv
  <1>2. ASSUME NEW t \in Tasks, NewCall(t) \/ Step(t)
        PROVE  \A u \in Tasks : Shape(u)' /\ Reported(u)'
    <2>1. Shape(t)' /\ Reported(t)'
      BY <1>2, NewCallReported, StepReported DEF ReportInv
    <2>2. ASSUME NEW u \in Tasks \ {t} PROVE Shape(u)' /\ Reported(u)'
      BY <1>2, OthersKeep DEF ReportInv, Shape, Reported, Op, Args
    <2> QED BY <2>1, <2>2
  <1>3. CASE (\E k \in Keys : AdapterExpires(k)) \/ Tick \/ UNCHANGED vars
    <2>1. UNCHANGED <<pc, call, oks, tele, failed>>
      BY <1>3 DEF AdapterExpires, Tick, vars
    <2> QED BY <1>1, <2>1 DEF ReportInv, Shape, Reported, Op, Args
  <1> QED BY <1>1, <1>2, <1>3 DEF Next, ReportInv

LEMMA ReportInit == Init => ReportInv
  <1> SUFFICES ASSUME Init PROVE ReportInv
    OBVIOUS
  <1>1. ASSUME NEW t \in Tasks PROVE Shape(t) /\ Reported(t)
    BY DEF Init, Shape, Reported, Op, SingleOps
  <1> QED BY <1>1, InitType DEF ReportInv

\* A call during which the adapter rejected rejects, or raises an error event
\* and acknowledges nothing (the catch blocks of set, setMany, setRaw,
\* setManyRaw, delete, deleteMany, get, has, hasMany, clear, disconnect).
THEOREM FailuresReported == Spec => []NoSilentFailure
  <1>1. Init => ReportInv
    BY ReportInit
  <1>2. ReportInv /\ [Next]_vars => ReportInv'
    BY ReportStep
  <1>3. ReportInv => NoSilentFailure
    BY DEF ReportInv, Reported, NoSilentFailure, WriteOps
  <1> QED BY <1>1, <1>2, <1>3, PTL DEF Spec

---------------------------------------------------------------------------
(* What a call counts.                                                     *)

\* What a call has counted so far, until it is over.
Counted(t) ==
    /\ pc[t] \in Busy =>
          /\ Op(t) \in GetOps => tele[t].hit = 0 /\ tele[t].miss = 0
          /\ Op(t) \in {"set", "setRaw"} => tele[t].set = 0
          /\ Op(t) = "setMany" =>
                tele[t].set = IF pc[t] = "after" THEN Acknowledged(t) ELSE 0
    /\ pc[t] \in {"before", "encode"} => \A i \in DOMAIN oks[t] : ~oks[t][i]
    /\ Op(t) \in SetOps \cup RawOps => DOMAIN oks[t] = Index(t)

\* TelemetryMatchesResult, for one call.
Matches(t) ==
    SlowResolved(t) =>
        /\ Op(t) \in GetOps => tele[t].hit + tele[t].miss = Len(Args(t))
        /\ Op(t) \in GetOps \ {"getMany"} =>
              tele[t].hit = Cardinality({i \in Index(t) : rows[t][i] # None})
        /\ Op(t) \in {"set", "setMany", "setRaw"} => tele[t].set = Acknowledged(t)

CountInv == ReportInv /\ \A t \in Tasks : Counted(t) /\ Matches(t)

\* Every key of a read is a hit or a miss.
LEMMA HitsAndMisses ==
    ASSUME TypeOK, NEW t \in Tasks
    PROVE  Hits(t) \in Nat /\ Misses(t) \in Nat /\ Hits(t) + Misses(t) = Len(Args(t))
  <1> DEFINE H == {i \in Index(t) : Hit(t, i)}
             M == {i \in Index(t) : ~Hit(t, i)}
  <1>1. IsFiniteSet(H) /\ IsFiniteSet(M) /\ Cardinality(H) \in Nat /\ Cardinality(M) \in Nat
    BY IndexFinite
  <1>2. H \cup M = Index(t) /\ H \cap M = {}
    OBVIOUS
  <1>3. Cardinality(H \cup M) = Cardinality(H) + Cardinality(M) - Cardinality(H \cap M)
    BY <1>1, FS_Union
  <1>4. Cardinality(Index(t)) = Len(Args(t))
    <2> DEFINE n == Len(Args(t))
    <2>1. n \in Nat
      BY ArgFacts
    <2> HIDE DEF n
    <2>2. Cardinality(1..n) = n
      BY <2>1, FS_Interval
    <2> QED BY <2>2 DEF n, Index
  <1> HIDE DEF H, M
  <1>5. Cardinality(H \cap M) = 0
    BY <1>2, FS_EmptySet
  <1>6. Cardinality(H) + Cardinality(M) = Len(Args(t))
    <2>1. Len(Args(t)) = Cardinality(H) + Cardinality(M) - 0
      BY <1>2, <1>3, <1>4, <1>5
    <2> QED BY <1>1, <2>1
  <1> QED BY <1>1, <1>6 DEF Hits, Misses, H, M

\* What a single write acknowledges, and what a call acknowledges that answers no key with true.
LEMMA AcknowledgedOne ==
    ASSUME NEW t, DOMAIN oks[t] = {1}
    PROVE  Acknowledged(t) = IF oks[t][1] THEN 1 ELSE 0
  <1> DEFINE A == {i \in DOMAIN oks[t] : oks[t][i]}
  <1>1. A = IF oks[t][1] THEN {1} ELSE {}
    OBVIOUS
  <1> HIDE DEF A
  <1>2. Cardinality(A) = IF oks[t][1] THEN 1 ELSE 0
    BY <1>1, FS_Singleton, FS_EmptySet
  <1> QED BY <1>2 DEF Acknowledged, A

LEMMA AcknowledgedNone ==
    ASSUME NEW t, \A i \in DOMAIN oks[t] : ~oks[t][i]
    PROVE  Acknowledged(t) = 0
  <1>1. {i \in DOMAIN oks[t] : oks[t][i]} = {}
    OBVIOUS
  <1> QED BY <1>1, FS_EmptySet DEF Acknowledged

\* A new call has counted nothing.
LEMMA BeginCounted ==
    ASSUME ~FastPath, TypeOK, NEW t \in Tasks, NewCall(t)
    PROVE  Counted(t)' /\ Matches(t)'
  <1>1. Begin(t)
    BY DEF NewCall, FastGet, FastSet, FastDelete, FastHas, FastCall, TakesFastPath
  <1>2. PICK op \in Ops : \E raw \in Inputs(op) :
          /\ call'[t] = [op |-> op, args |-> Clean(raw)]
          /\ oks'[t] = [i \in DOMAIN Clean(raw) |-> FALSE]
          /\ pc'[t] = "resolved" => op \in SingleOps /\ Clean(raw)[1].key = EmptyKey
          /\ pc'[t] # "after"
    BY <1>1 DEF Begin, Enter, Set, Goto, TypeOK
  <1>3. PICK raw \in Inputs(op) :
          /\ call'[t] = [op |-> op, args |-> Clean(raw)]
          /\ oks'[t] = [i \in DOMAIN Clean(raw) |-> FALSE]
          /\ pc'[t] = "resolved" => op \in SingleOps /\ Clean(raw)[1].key = EmptyKey
          /\ pc'[t] # "after"
    BY <1>2
  <1>4. op \in AllOps
    BY ConfigAssumption
  <1>5. DOMAIN Clean(raw) = Index(t)' /\ Op(t)' = op /\ KeyAt(t, 1)' = Clean(raw)[1].key
    BY <1>3, <1>4, CleanType DEF Index, Args, Op, KeyAt
  <1>6. tele'[t].hit = 0 /\ tele'[t].miss = 0 /\ tele'[t].set = 0
    BY <1>1 DEF Begin, Set, TypeOK, NoTele
  <1>7. Counted(t)'
    BY <1>3, <1>5, <1>6 DEF Counted
  <1>8. Matches(t)'
    BY <1>3, <1>5 DEF Matches, SlowResolved, EarlyReturn
  <1> QED BY <1>7, <1>8

LEMMA StepCounted ==
    ASSUME CountInv, NEW t \in Tasks, Step(t)
    PROVE  Counted(t)' /\ Matches(t)'
  <1>a. /\ TypeOK /\ Shape(t) /\ Counted(t)
        /\ t \in DOMAIN pc /\ t \in DOMAIN oks /\ t \in DOMAIN tele /\ t \in DOMAIN enc
        /\ tele[t] \in Tele
    BY DEF CountInv, ReportInv, TypeOK
  <1>c. ASSUME UNCHANGED call
        PROVE  /\ Op(t)' = Op(t) /\ Args(t)' = Args(t) /\ Index(t)' = Index(t)
               /\ \A i : KeyAt(t, i)' = KeyAt(t, i)
    BY <1>c DEF Op, Args, Index, KeyAt
  \* A step of a read, a delete or another call that writes nothing.
  <1>d. ASSUME UNCHANGED call, pc[t] \in Busy, pc'[t] \notin {"before", "encode"},
               Op(t) \notin SetOps \cup RawOps,
               Op(t) \in GetOps => /\ pc'[t] # "resolved"
                                   /\ tele'[t].hit = tele[t].hit /\ tele'[t].miss = tele[t].miss
        PROVE  Counted(t)' /\ Matches(t)'
    <2>1. Op(t) \notin {"set", "setMany", "setRaw"}
      BY <1>d DEF SetOps, RawOps
    <2> QED BY <1>a, <1>c, <1>d, <2>1 DEF Counted, Matches, SlowResolved
  <1> USE DEF Set, Goto
  <1>1. CASE ReadStore(t) \/ ReadRejected(t)
    <2>1. /\ pc[t] = "before" /\ UNCHANGED call /\ pc'[t] \in {"after", "decode", "rejected"}
          /\ Op(t) \in GetOps \cup HasOps
          /\ tele'[t].hit = tele[t].hit /\ tele'[t].miss = tele[t].miss
      BY <1>1, <1>a, ErrorEffect DEF ReadStore, ReadRejected, Reads
    <2>2. Op(t) \notin SetOps \cup RawOps
      BY <2>1 DEF GetOps, HasOps, SetOps, RawOps
    <2> QED BY <1>d, <2>1, <2>2 DEF Busy
  <1>2. CASE Decode(t)
    <2>1. /\ pc[t] = "decode" /\ UNCHANGED call /\ pc'[t] \in {"after", "iter", "sweep", "rejected"}
          /\ tele'[t].hit = tele[t].hit /\ tele'[t].miss = tele[t].miss
      BY <1>2, <1>a, ErrorEffect DEF Decode, AfterSweep
    <2>2. Op(t) \notin SetOps \cup RawOps
      BY <1>a, <2>1 DEF Shape, GetOps, HasOps, SetOps, RawOps
    <2> QED BY <1>d, <2>1, <2>2 DEF Busy
  <1>3. CASE Sweep(t) \/ SweepRejected(t)
    <2>1. /\ pc[t] = "sweep" /\ UNCHANGED call /\ pc'[t] \in {"after", "iter", "rejected"}
      BY <1>3, <1>a DEF Sweep, SweepRejected, AfterSweep
    <2>2. tele'[t].hit = tele[t].hit /\ tele'[t].miss = tele[t].miss
      BY <1>3, <1>a DEF Sweep, SweepRejected, Count, Tele
    <2>3. Op(t) \notin SetOps \cup RawOps
      BY <1>a, <2>1 DEF Shape, GetOps, HasOps, SetOps, RawOps
    <2> QED BY <1>d, <2>1, <2>2, <2>3 DEF Busy
  <1>4. CASE EncodeAll(t)
    <2>1. /\ pc[t] = "before" /\ UNCHANGED <<call, oks>> /\ Op(t) \in SetOps \cup RawOps
          /\ pc'[t] \in {"encode", "after", "resolved", "rejected"}
          /\ tele'[t].set = tele[t].set
      BY <1>4, <1>a, ErrorEffect DEF EncodeAll
    <2>2. tele[t].set = 0 \/ Op(t) = "setManyRaw"
      BY <1>a, <2>1 DEF Counted, Busy, SetOps, RawOps
    <2>3. (\A i \in DOMAIN oks'[t] : ~oks'[t][i]) /\ Acknowledged(t)' = 0
      <3>1. \A i \in DOMAIN oks[t] : ~oks[t][i]
        BY <1>a, <2>1 DEF Counted
      <3> QED BY <2>1, <3>1, AcknowledgedNone DEF Acknowledged
    <2>4. Op(t) \notin GetOps
      BY <2>1 DEF GetOps, SetOps, RawOps
    <2>5. Counted(t)'
      BY <1>a, <1>c, <2>1, <2>2, <2>3, <2>4 DEF Counted
    <2>6. Matches(t)'
      BY <1>c, <2>1, <2>2, <2>3, <2>4 DEF Matches
    <2> QED BY <2>5, <2>6
  <1>5. CASE StoreSet(t)
    <2>1. PICK storeResults \in [1..Cardinality(Survivors(t)) -> BOOLEAN] :
            /\ oks' = Set(oks, t, Scatter(t, storeResults))
            /\ \/ /\ Op(t) = "setMany"
                  /\ Count(t, "set", Cardinality({i \in Index(t) : Scatter(t, storeResults)[i]}))
               \/ Op(t) = "setManyRaw"
               \/ Op(t) \in {"set", "setRaw"} /\ UNCHANGED tele
      BY <1>5 DEF StoreSet
    <2>2. pc[t] = "encode" /\ pc'[t] = "after" /\ UNCHANGED call /\ Op(t) \in SetOps \cup RawOps
      BY <1>5, <1>a DEF StoreSet, Shape
    <2>3. oks'[t] = Scatter(t, storeResults) /\ DOMAIN oks'[t] = Index(t)
      BY <1>a, <2>1 DEF Scatter
    <2>4. Op(t) = "setMany" => tele'[t].set = Acknowledged(t)'
      <3>1. Acknowledged(t)' = Cardinality({i \in Index(t) : Scatter(t, storeResults)[i]})
        BY <2>3 DEF Acknowledged
      <3>2. Acknowledged(t)' \in Nat
        BY <1>a, <3>1, IndexFinite
      <3>3. ASSUME Op(t) = "setMany" PROVE tele'[t].set = tele[t].set + Acknowledged(t)' /\ tele[t].set = 0
        <4>1. Count(t, "set", Acknowledged(t)')
          BY <2>1, <3>1, <3>3
        <4>2. tele[t].set = 0
          BY <1>a, <2>2, <3>3 DEF Counted, Busy
        <4> QED BY <1>a, <4>1, <4>2 DEF Count, Tele
      <3> QED BY <3>2, <3>3
    <2>5. Op(t) \in {"set", "setRaw"} => tele'[t].set = 0
      BY <1>a, <2>1, <2>2 DEF Counted, Busy
    <2>6. Op(t) \notin GetOps
      BY <2>2 DEF GetOps, SetOps, RawOps
    <2>7. Counted(t)'
      BY <1>c, <2>2, <2>3, <2>4, <2>5, <2>6 DEF Counted
    <2>8. Matches(t)'
      BY <2>2 DEF Matches, SlowResolved
    <2> QED BY <2>7, <2>8
  <1>6. CASE StoreSetRejected(t)
    <2>1. /\ pc[t] = "encode" /\ pc'[t] \in {"after", "rejected"} /\ UNCHANGED call
          /\ oks'[t] = All(t, FALSE) /\ tele'[t].set = tele[t].set
      BY <1>6, <1>a, ErrorEffect DEF StoreSetRejected
    <2>2. Op(t) \in SetOps \cup RawOps /\ Op(t) \notin GetOps
      BY <1>a, <2>1 DEF Shape, GetOps, SetOps, RawOps
    <2>3. Op(t) \in {"set", "setMany", "setRaw"} => tele[t].set = 0
      BY <1>a, <2>1 DEF Counted, Busy
    <2>4. DOMAIN oks'[t] = Index(t) /\ \A i \in DOMAIN oks'[t] : ~oks'[t][i]
      BY <2>1 DEF All
    <2>5. Acknowledged(t)' = 0
      <3>1. {i \in DOMAIN oks'[t] : oks'[t][i]} = {}
        BY <2>4
      <3> QED BY <3>1, FS_EmptySet DEF Acknowledged
    <2>6. Counted(t)'
      BY <1>c, <2>1, <2>2, <2>3, <2>4, <2>5 DEF Counted
    <2>7. Matches(t)'
      BY <2>1 DEF Matches, SlowResolved
    <2> QED BY <2>6, <2>7
  <1>7. CASE \/ StoreDelete(t) \/ StoreDeleteRejected(t) \/ StoreHas(t) \/ StoreClear(t)
             \/ StoreDisconnect(t)
    <2>1. /\ pc[t] = "before" /\ UNCHANGED call /\ pc'[t] \in {"after", "rejected"}
          /\ Op(t) \in DeleteOps \cup HasOps \cup OtherOps
      BY <1>7, <1>a, ErrorEffect DEF StoreDelete, StoreDeleteRejected, StoreHas, StoreClear,
         StoreDisconnect, OtherOps
    <2>2. Op(t) \notin SetOps \cup RawOps /\ Op(t) \notin GetOps
      BY <2>1 DEF GetOps, HasOps, SetOps, RawOps, DeleteOps, OtherOps
    <2> QED BY <1>d, <2>1, <2>2 DEF Busy
  <1>8. CASE IterNext(t)
    <2>1. Op(t)' = "iterator" /\ pc'[t] = "decode"
      <3>1. PICK k : call'[t] = IterCall(k)
        BY <1>8, <1>a DEF IterNext, TypeOK
      <3> QED BY <1>8, <1>a, <3>1 DEF IterNext, IterCall, Op
    <2> QED BY <2>1 DEF Counted, Matches, GetOps, SetOps, RawOps
  <1>9. CASE IterEnd(t)
    <2>1. pc[t] = "iter" /\ UNCHANGED call /\ pc'[t] \in {"resolved", "rejected"}
      BY <1>9, <1>a DEF IterEnd
    <2>2. Op(t) \notin SetOps \cup RawOps /\ Op(t) \notin GetOps
      BY <1>a, <2>1 DEF Shape, GetOps, SetOps, RawOps
    <2> QED BY <1>d, <2>1, <2>2 DEF Busy
  <1>10. CASE Return(t)
    <2>1. pc[t] = "after" /\ pc'[t] = "resolved" /\ UNCHANGED <<call, oks, rows>>
      BY <1>10, <1>a DEF Return
    <2>2. Counted(t)'
      BY <1>a, <1>c, <2>1 DEF Counted, Busy
    <2>3. Op(t) \in GetOps => tele'[t].hit = Hits(t) /\ tele'[t].miss = Misses(t)
      <3>1. ASSUME Op(t) \in GetOps
            PROVE  tele' = [tele EXCEPT ![t].hit = @ + Hits(t), ![t].miss = @ + Misses(t)]
        BY <1>10, <3>1 DEF Return, GetOps
      <3>2. Op(t) \in GetOps => tele[t].hit = 0 /\ tele[t].miss = 0
        BY <1>a, <2>1 DEF Counted, Busy
      <3>3. Hits(t) \in Nat /\ Misses(t) \in Nat
        BY <1>a, HitsAndMisses
      <3>4. ASSUME Op(t) \in GetOps
            PROVE  tele'[t] = [tele[t] EXCEPT !.hit = @ + Hits(t), !.miss = @ + Misses(t)]
        BY <1>a, <3>1, <3>4 DEF Tele
      <3>5. ASSUME Op(t) \in GetOps
            PROVE  tele'[t].hit = 0 + Hits(t) /\ tele'[t].miss = 0 + Misses(t)
        BY <1>a, <3>2, <3>4, <3>5 DEF Tele
      <3> QED BY <3>3, <3>5
    <2>4. Op(t) \in GetOps \ {"getMany"} => Hits(t) = Cardinality({i \in Index(t) : rows[t][i] # None})
      <3>1. Op(t) # "getMany" => \A i : Hit(t, i) = (rows[t][i] # None)
        BY DEF Hit
      <3>2. Op(t) # "getMany" => {i \in Index(t) : Hit(t, i)} = {i \in Index(t) : rows[t][i] # None}
        BY <3>1
      <3> QED BY <3>2 DEF Hits
    <2>5. Op(t) \in {"set", "setRaw"} => tele'[t].set = Acknowledged(t)
      <3> SUFFICES ASSUME Op(t) \in {"set", "setRaw"} PROVE tele'[t].set = Acknowledged(t)
        OBVIOUS
      <3>1. DOMAIN oks[t] = {1} /\ tele[t].set = 0
        <4>1. Op(t) \in SingleOps /\ Op(t) \in SetOps \cup RawOps
          BY DEF SingleOps, SetOps, RawOps
        <4> QED BY <1>a, <2>1, <4>1 DEF Counted, Busy, Shape, Index
      <3>2. IF oks[t][1] THEN Count(t, "set", 1) ELSE UNCHANGED tele
        BY <1>10 DEF Return, GetOps
      <3>3. tele'[t].set = IF oks[t][1] THEN 1 ELSE 0
        BY <1>a, <3>1, <3>2 DEF Count, Tele
      <3> QED BY <3>1, <3>3, AcknowledgedOne
    <2>6. Op(t) = "setMany" => tele'[t].set = Acknowledged(t)
      <3>1. Op(t) = "setMany" => UNCHANGED tele
        BY <1>10 DEF Return, GetOps
      <3> QED BY <1>a, <2>1, <3>1 DEF Counted, Busy
    <2>7. Matches(t)'
      <3>1. Acknowledged(t)' = Acknowledged(t) /\ rows'[t] = rows[t]
        BY <2>1 DEF Acknowledged
      <3> QED BY <1>a, <1>c, <2>1, <2>3, <2>4, <2>5, <2>6, <3>1, HitsAndMisses DEF Matches
    <2> QED BY <2>2, <2>7
  <1> QED BY <1>1, <1>2, <1>3, <1>4, <1>5, <1>6, <1>7, <1>8, <1>9, <1>10 DEF Step

LEMMA CountStep == ASSUME ~FastPath, CountInv, [Next]_vars PROVE CountInv'
  <1>1. ReportInv'
    BY ReportStep DEF CountInv
  <1> USE DEF Counted, Matches, SlowResolved, EarlyReturn, Acknowledged, Op, Args, Index, KeyAt
  <1>2. ASSUME NEW t \in Tasks, NewCall(t) \/ Step(t)
        PROVE  \A u \in Tasks : Counted(u)' /\ Matches(u)'
    <2>1. Counted(t)' /\ Matches(t)'
      BY <1>2, BeginCounted, StepCounted DEF CountInv, ReportInv
    <2>2. ASSUME NEW u \in Tasks \ {t} PROVE Counted(u)' /\ Matches(u)'
      <3>1. /\ pc'[u] = pc[u] /\ call'[u] = call[u] /\ rows'[u] = rows[u]
            /\ oks'[u] = oks[u] /\ tele'[u] = tele[u]
        BY <1>2, OthersKeep DEF CountInv, ReportInv
      <3>2. Counted(u) /\ Matches(u)
        BY DEF CountInv
      <3> QED BY <3>1, <3>2
    <2> QED BY <2>1, <2>2
  <1>3. CASE (\E k \in Keys : AdapterExpires(k)) \/ Tick \/ UNCHANGED vars
    <2>1. UNCHANGED <<pc, call, oks, tele, rows>>
      BY <1>3 DEF AdapterExpires, Tick, vars
    <2> QED BY <1>1, <2>1 DEF CountInv
  <1> QED BY <1>1, <1>2, <1>3 DEF Next, CountInv

\* A resolved call has counted every key it read as a hit or a miss, and every
\* write it acknowledges (emitTelemetry after the AFTER hooks).
THEOREM TelemetryMatches == Spec => []TelemetryMatchesResult
  <1>1. CASE FastPath
    <2>1. TelemetryMatchesResult
      BY <1>1 DEF TelemetryMatchesResult, SlowResolved
    <2> QED BY <2>1, PTL
  <1>2. CASE ~FastPath
    <2>1. Init => CountInv
      <3>1. ASSUME Init, NEW t \in Tasks PROVE Counted(t) /\ Matches(t)
        BY <3>1 DEF Init, Counted, Matches, SlowResolved, Op, Busy, SetOps, RawOps
      <3> QED BY <3>1, ReportInit DEF CountInv
    <2>2. CountInv /\ [Next]_vars => CountInv'
      BY <1>2, CountStep
    <2>3. CountInv => TelemetryMatchesResult
      BY DEF CountInv, Matches, TelemetryMatchesResult
    <2> QED BY <2>1, <2>2, <2>3, PTL DEF Spec
  <1> QED BY <1>1, <1>2

---------------------------------------------------------------------------
(* What a single step does: a read that leaves "decode", a write that is   *)
(* answered.                                                               *)

\* A call leaves the decode and the adapter's answer only by its own steps.
LEMMA LeavesDecode ==
    ASSUME TypeOK, [Next]_vars, NEW t \in Tasks, pc[t] = "decode", pc'[t] # "decode"
    PROVE  Decode(t)
  <1>1. PICK u \in Tasks : NewCall(u) \/ Step(u)
    BY DEF Next, AdapterExpires, Tick, vars
  <1>2. u = t
    BY <1>1, OthersKeep
  <1>3. ~NewCall(t)
    BY DEF NewCall, Begin, FastGet, FastSet, FastDelete, FastHas, FastCall, Enter, Idle, Finished
  <1> QED BY <1>1, <1>2, <1>3 DEF Step, ReadStore, ReadRejected, Reads, Sweep, SweepRejected,
             EncodeAll, StoreSet, StoreSetRejected, StoreDelete, StoreDeleteRejected, StoreHas,
             StoreClear, StoreDisconnect, IterNext, IterEnd, Return

LEMMA LeavesEncode ==
    ASSUME TypeOK, [Next]_vars, NEW t \in Tasks, pc[t] = "encode", pc'[t] # "encode"
    PROVE  StoreSet(t) \/ StoreSetRejected(t)
  <1>1. PICK u \in Tasks : NewCall(u) \/ Step(u)
    BY DEF Next, AdapterExpires, Tick, vars
  <1>2. u = t
    BY <1>1, OthersKeep
  <1>3. ~NewCall(t)
    BY DEF NewCall, Begin, FastGet, FastSet, FastDelete, FastHas, FastCall, Enter, Idle, Finished
  <1> QED BY <1>1, <1>2, <1>3 DEF Step, ReadStore, ReadRejected, Reads, Decode, Sweep,
             SweepRejected, EncodeAll, StoreDelete, StoreDeleteRejected, StoreHas,
             StoreClear, StoreDisconnect, IterNext, IterEnd, Return

\* With checkExpired, no read hands on a row whose envelope is over when it is
\* decoded.
THEOREM ReadsNeverExpired == ASSUME CheckExpired PROVE Spec => ReadsUnexpired
  <1>1. ASSUME TypeOK, [Next]_vars, NEW t \in Tasks, pc[t] = "decode", pc'[t] # "decode"
        PROVE  \A i \in DOMAIN rows'[t] : rows'[t][i] # None => ~Expired(rows'[t][i].env, now)
    <2>1. Decode(t)
      BY <1>1, LeavesDecode
    <2>2. PICK bad : rows'[t] = Unexpired(Decoded(t, bad))
      BY <1>1, <2>1 DEF Decode, Set, TypeOK
    <2> DEFINE data == Decoded(t, bad)
    <2>3. \A i \in DOMAIN Unexpired(data) : Unexpired(data)[i] # None =>
             Unexpired(data)[i] = data[i] /\ ~Expired(data[i].env, now)
      <3> HIDE DEF data
      <3> QED BY DEF Unexpired, ExpiredRows
    <2> QED BY <2>2, <2>3
  <1>2. TypeOK /\ [Next]_vars =>
          [\A t \in Tasks : (pc[t] = "decode" /\ pc'[t] \in {"after", "iter", "sweep"}) =>
             \A i \in DOMAIN rows'[t] : rows'[t][i] # None => ~Expired(rows'[t][i].env, now)]_vars
    BY <1>1
  <1> QED BY <1>2, TypeCorrect, PTL DEF Spec, ReadsUnexpired

\* A bounded non-empty set of positions has a last one.
LEMMA LastPosition ==
    ASSUME NEW n \in Nat, NEW J, J \subseteq 1..n, J # {}
    PROVE  \E j \in J : \A m \in J : m <= j
  <1> DEFINE K == {k \in Nat : \A m \in J : m <= k}
             R == {p \in Nat \X Nat : p[1] < p[2]}
  <1>1. n \in K /\ K \subseteq Nat
    OBVIOUS
  <1>2. IsWellFoundedOn(R, Nat)
    BY NatLessThanWellFounded DEF OpToRel
  <1>3. \A x, y \in Nat : <<y, x>> \in R <=> y < x
    OBVIOUS
  <1>4. PICK k \in K : \A l \in K : <<l, k>> \notin R
    <2> HIDE DEF K, R
    <2> QED BY <1>1, <1>2, WFMin
  <1>5. k \in Nat /\ (\A m \in J : m <= k) /\ \A l \in K : ~(l < k)
    BY <1>3, <1>4
  <1>6. ASSUME k \notin J PROVE FALSE
    <2>1. \A m \in J : m \in Nat /\ m >= 1 /\ m <= k /\ m # k
      BY <1>5, <1>6
    <2>2. PICK m \in J : m >= 1 /\ m <= k
      BY <2>1
    <2>3. k - 1 \in Nat
      BY <1>5, <2>1, <2>2
    <2>4. k - 1 \in Nat /\ \A l \in J : l <= k - 1
      <3>1. \A l \in Nat : (l <= k /\ l # k) => l <= k - 1
        BY <1>5
      <3> QED BY <2>1, <2>3, <3>1
    <2>5. k - 1 \in K
      BY <2>4
    <2> HIDE DEF K
    <2> QED BY <1>5, <2>3, <2>5
  <1> QED BY <1>5, <1>6

---------------------------------------------------------------------------
(* A batch of writes.                                                      *)

\* The entries a write hands to the adapter are those of its arguments.
Aligned(t) ==
    pc[t] = "encode" =>
        /\ DOMAIN enc[t] = Index(t)
        /\ \A i \in Index(t) : enc[t][i] # None =>
              enc[t][i].key = KeyAt(t, i) /\ enc[t][i].val = Args(t)[i].val

AlignInv == TypeOK /\ \A t \in Tasks : Aligned(t)

\* Only EncodeAll fills the batch a write hands to the adapter.
LEMMA AlignOwn ==
    ASSUME TypeOK, NEW t \in Tasks, NewCall(t) \/ Step(t)
    PROVE  Aligned(t)'
  <1>1. CASE EncodeAll(t)
    <2>1. \A i \in Index(t) :
             Encoded(t, Args(t)[i]).key = KeyAt(t, i) /\ Encoded(t, Args(t)[i]).val = Args(t)[i].val
      BY DEF Encoded, SetEntry, RawEntry, KeyAt
    <2>2. UNCHANGED call
          /\ enc'[t] = [i \in Index(t) |-> IF i \in Bad(t) THEN None ELSE Encoded(t, Args(t)[i])]
      BY <1>1 DEF EncodeAll, Set, TypeOK
    <2>3. Index(t)' = Index(t) /\ Args(t)' = Args(t) /\ \A i : KeyAt(t, i)' = KeyAt(t, i)
      BY <2>2 DEF Index, Args, KeyAt
    <2> QED BY <2>1, <2>2, <2>3 DEF Aligned
  <1>2. CASE ~EncodeAll(t)
    <2>1. pc'[t] # "encode"
      <3> USE DEF Goto, EmitError, TypeOK
      <3>1. CASE NewCall(t)
        BY <3>1 DEF NewCall, Begin, FastGet, FastSet, FastDelete, FastHas, FastReject,
                    FastReturn, FastError
      <3>2. CASE Step(t)
        BY <1>2, <3>2 DEF Step, ReadStore, ReadRejected, Decode, Sweep, SweepRejected, StoreSet,
             StoreSetRejected, StoreDelete, StoreDeleteRejected, StoreHas, StoreClear,
             StoreDisconnect, IterNext, IterEnd, Return, AfterSweep
      <3> QED BY <3>1, <3>2
    <2> QED BY <2>1 DEF Aligned
  <1> QED BY <1>1, <1>2

LEMMA AlignStep == ASSUME AlignInv, [Next]_vars PROVE AlignInv'
  <1>1. TypeOK'
    BY NextType DEF AlignInv
  <1>2. ASSUME NEW t \in Tasks, NewCall(t) \/ Step(t), NEW u \in Tasks PROVE Aligned(u)'
    <2>1. CASE u = t
      BY <1>2, <2>1, AlignOwn DEF AlignInv
    <2>2. CASE u # t
      <3>1. pc'[u] = pc[u] /\ call'[u] = call[u] /\ enc'[u] = enc[u]
        BY <1>2, <2>2, OthersKeep DEF AlignInv
      <3>2. Aligned(u)
        BY DEF AlignInv
      <3> QED BY <3>1, <3>2 DEF Aligned, Index, Args, KeyAt
    <2> QED BY <2>1, <2>2
  <1>3. CASE (\E k \in Keys : AdapterExpires(k)) \/ Tick \/ UNCHANGED vars
    <2>1. UNCHANGED <<pc, call, enc>>
      BY <1>3 DEF AdapterExpires, Tick, vars
    <2> QED BY <1>1, <2>1 DEF AlignInv, Aligned, Index, Args, KeyAt
  <1> QED BY <1>1, <1>2, <1>3 DEF Next, AlignInv

\* What one key holds after the entries of a write at the positions W were written in order.
LEMMA WrittenLast ==
    ASSUME TypeOK, NEW t \in Tasks, NEW W \in SUBSET Survivors(t), NEW k \in Keys, NEW i \in W,
           enc[t][i].key = k, \A j \in W : Stamp(enc[t][j], now) # None
    PROVE  \E j \in W : /\ i <= j /\ enc[t][j].key = k
                        /\ Written(enc[t], W)[k] # None /\ Written(enc[t], W)[k].val = enc[t][j].val
  <1> DEFINE J == {j \in W : enc[t][j].key = k}
             Last == {j \in W : enc[t][j].key = k /\ \A m \in W : enc[t][m].key = k => m <= j}
  <1>1. PICK j \in J : \A m \in J : m <= j
    <2>1. PICK n \in Nat : DOMAIN enc[t] = 1..n
      BY DEF TypeOK
    <2>2. J \subseteq 1..n /\ J # {}
      BY <2>1 DEF Survivors
    <2> HIDE DEF J
    <2> QED BY <2>2, LastPosition
  <1>2. j \in Last
    BY <1>1
  <1>3. Written(enc[t], W)[k] = Stamp(enc[t][CHOOSE l \in Last : TRUE], now)
    BY <1>2 DEF Written
  <1>4. PICK l \in Last : Written(enc[t], W)[k] = Stamp(enc[t][l], now)
    <2> HIDE DEF Last
    <2> QED BY <1>2, <1>3
  <1>5. l \in W /\ i <= l /\ enc[t][l].key = k
    OBVIOUS
  <1>6. Stamp(enc[t][l], now).val = enc[t][l].val /\ Stamp(enc[t][l], now) # None
    BY <1>5 DEF Stamp
  <1> QED BY <1>4, <1>5, <1>6

\* What StoreSet answers and stores, in the positions of the caller.
LEMMA AlignAnswer ==
    ASSUME AlignInv, NEW t \in Tasks, StoreSet(t)
    PROVE  /\ \A i \in Index(t) : oks'[t][i] =>
                 \E j \in Index(t) : /\ i <= j /\ oks'[t][j] /\ KeyAt(t, j) = KeyAt(t, i)
                                     /\ store'[KeyAt(t, i)] # None
                                     /\ store'[KeyAt(t, i)].val = Args(t)[j].val
           /\ \A k \in Keys : (\A i \in Index(t) : oks'[t][i] => KeyAt(t, i) # k)
                                => store'[k] = store[k]
  <1>a. TypeOK /\ pc[t] = "encode" /\ DOMAIN enc[t] = Index(t)
    BY DEF AlignInv, StoreSet, Aligned
  <1>1. PICK storeResults :
          /\ store' = Written(enc[t], {i \in Survivors(t) : storeResults[Rank(t, i)]})
          /\ oks' = Set(oks, t, Scatter(t, storeResults))
    BY DEF StoreSet
  <1> DEFINE W == {i \in Survivors(t) : storeResults[Rank(t, i)]}
  <1>2. Survivors(t) \subseteq Index(t) /\ W \subseteq Index(t)
    BY <1>a DEF Survivors
  <1>3. \A i \in Index(t) : oks'[t][i] <=> i \in W
    BY <1>a, <1>1, <1>2 DEF Set, Scatter, TypeOK
  <1>4. \A i \in W : enc[t][i] # None /\ enc[t][i].key = KeyAt(t, i) /\ enc[t][i].val = Args(t)[i].val
    BY <1>a, <1>2 DEF AlignInv, Aligned, Survivors
  <1>5. store' = Written(enc[t], W)
    BY <1>1
  <1>6. \A j \in W : Stamp(enc[t][j], now) # None
    <2>1. \A j \in W : Stamp(enc[t][j], now) \in Entry
      BY <1>a, SurvivorsFinite, DataAssumption DEF TypeOK, Stamp, Entry, EncEntry, Times, CalculateExpires
    <2>2. None \notin Entry
      BY NoneAssumption DEF Entry, Times
    <2> QED BY <2>1, <2>2
  <1> HIDE DEF W
  <1>7. ASSUME NEW i \in Index(t), oks'[t][i]
        PROVE  \E j \in Index(t) : /\ i <= j /\ oks'[t][j] /\ KeyAt(t, j) = KeyAt(t, i)
                                   /\ store'[KeyAt(t, i)] # None
                                   /\ store'[KeyAt(t, i)].val = Args(t)[j].val
    <2>1. i \in W /\ KeyAt(t, i) \in Keys
      BY <1>a, <1>3, <1>7, ArgFacts
    <2>2. PICK j \in W : /\ i <= j /\ enc[t][j].key = KeyAt(t, i)
                         /\ store'[KeyAt(t, i)] # None
                         /\ store'[KeyAt(t, i)].val = enc[t][j].val
      <3>1. enc[t][i].key = KeyAt(t, i) /\ W \in SUBSET Survivors(t)
        BY <1>4, <2>1 DEF W
      <3> QED BY <1>a, <1>5, <1>6, <2>1, <3>1, WrittenLast
    <2> QED BY <1>2, <1>3, <1>4, <2>2
  <1>8. ASSUME NEW k \in Keys, \A i \in Index(t) : oks'[t][i] => KeyAt(t, i) # k
        PROVE  store'[k] = store[k]
    <2>1. \A j \in W : enc[t][j].key # k
      BY <1>2, <1>3, <1>4, <1>8
    <2> QED BY <1>5, <2>1 DEF Written
  <1> QED BY <1>7, <1>8

\* A write that is answered left what it acknowledges and nothing else: the
\* store's answers are mapped back past the entries that could not be encoded.
THEOREM WritesStayAligned == Spec => WritesAligned
  <1> DEFINE Answered(t) == pc[t] = "encode" /\ pc'[t] = "after" /\ ~failed'[t]
             Kept(t) ==
          /\ \A i \in Index(t) : oks'[t][i] =>
                \E j \in Index(t) : /\ i <= j /\ oks'[t][j] /\ KeyAt(t, j) = KeyAt(t, i)
                                    /\ store'[KeyAt(t, i)] # None
                                    /\ store'[KeyAt(t, i)].val = Args(t)[j].val
          /\ \A k \in Keys : (\A i \in Index(t) : oks'[t][i] => KeyAt(t, i) # k)
                                => store'[k] = store[k]
  <1>1. ASSUME AlignInv, [Next]_vars, NEW t \in Tasks, Answered(t) PROVE Kept(t)
    <2>1. StoreSet(t) \/ StoreSetRejected(t)
      BY <1>1, LeavesEncode DEF AlignInv
    <2>2. ~StoreSetRejected(t)
      BY <1>1 DEF StoreSetRejected, Fault, AlignInv, TypeOK
    <2> QED BY <1>1, <2>1, <2>2, AlignAnswer
  <1>2. AlignInv /\ [Next]_vars => [\A t \in Tasks : Answered(t) => Kept(t)]_vars
    BY <1>1
  <1>3. Init => AlignInv
    BY InitType DEF Init, AlignInv, Aligned
  <1>4. AlignInv /\ [Next]_vars => AlignInv'
    BY AlignStep
  <1>5. Spec => [][\A t \in Tasks : Answered(t) => Kept(t)]_vars
    BY <1>2, <1>3, <1>4, PTL DEF Spec
  <1> QED BY <1>5 DEF WritesAligned
=============================================================================
