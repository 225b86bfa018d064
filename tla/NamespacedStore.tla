--------------------------- MODULE NamespacedStore ---------------------------
(***************************************************************************)
(* What a storage adapter promises the Storely facade: one key-value store *)
(* per namespace.  An operation on a namespace reads and changes that      *)
(* namespace only, an entry is there until it is deleted, cleared or its   *)
(* TTL is over, and an expired entry is never seen again.  How expired     *)
(* entries are found and dropped is not part of the promise.               *)
(***************************************************************************)
EXTENDS Integers, Sequences

CONSTANTS Namespaces, Keys, Values, None, Ttls,
          MaxBatch    \* bound of the model: length of a batch

VARIABLES
    clock,  \* Date.now()
    data,   \* data[ns][k]: the live entry of key k in namespace ns, or None
    reply   \* the last operation, with what it answered

vars == <<clock, data, reply>>

Answer(op, ns, keys, res) ==
    reply' = [op |-> op, ns |-> ns, keys |-> keys, res |-> res]

ValueAt(ns, k) == IF data[ns][k] = None THEN None ELSE data[ns][k].val

Get(ns, ks) ==
    /\ Answer("get", ns, ks, [i \in 1..Len(ks) |-> ValueAt(ns, ks[i])])
    /\ UNCHANGED <<clock, data>>

Has(ns, k) ==
    /\ Answer("has", ns, <<k>>, <<data[ns][k] # None>>)
    /\ UNCHANGED <<clock, data>>

\* The entries are written in order: of two with the same key the later stays.
Same(es, k) == {j \in 1..Len(es) : es[j].key = k}
LastOf(J)   == CHOOSE j \in J : \A m \in J : m <= j
Expires(ttl) == IF ttl = 0 THEN None ELSE clock + ttl

Put(ns, es) ==
    /\ data' = [data EXCEPT ![ns] =
         [k \in Keys |-> IF Same(es, k) = {} THEN data[ns][k]
                         ELSE [val |-> es[LastOf(Same(es, k))].val,
                               exp |-> Expires(es[LastOf(Same(es, k))].ttl)]]]
    /\ Answer("set", ns, [i \in 1..Len(es) |-> es[i].key], [i \in 1..Len(es) |-> TRUE])
    /\ UNCHANGED clock

\* Deleting answers true for an entry that was there; what it answers for the
\* leftovers of an expired entry is left open.
Remove(ns, ks) ==
    /\ \E res \in [1..Len(ks) -> BOOLEAN] :
          /\ \A i \in 1..Len(ks) :
                (data[ns][ks[i]] # None /\ \A j \in 1..(i - 1) : ks[j] # ks[i]) => res[i]
          /\ Answer("delete", ns, ks, res)
    /\ data' = [data EXCEPT ![ns] =
         [k \in Keys |-> IF \E i \in 1..Len(ks) : ks[i] = k THEN None ELSE data[ns][k]]]
    /\ UNCHANGED clock

Clear(ns) ==
    /\ data' = [data EXCEPT ![ns] = [k \in Keys |-> None]]
    /\ Answer("clear", ns, <<>>, <<>>)
    /\ UNCHANGED clock

\* An iterator yields an entry that is there.
Yield(ns, k) ==
    /\ data[ns][k] # None
    /\ Answer("iterator", ns, <<k>>, <<data[ns][k].val>>)
    /\ UNCHANGED <<clock, data>>

Pass ==
    /\ clock' = clock + 1
    /\ data' = [ns \in Namespaces |-> [k \in Keys |->
         IF data[ns][k] # None /\ data[ns][k].exp # None /\ clock' > data[ns][k].exp
         THEN None ELSE data[ns][k]]]
    /\ UNCHANGED reply

PutEntry == [key : Keys, val : Values, ttl : Ttls]
Lists(S) == UNION {[1..n -> S] : n \in 0..MaxBatch}

Init ==
    /\ clock = 0
    /\ data = [ns \in Namespaces |-> [k \in Keys |-> None]]
    /\ reply = None

Next ==
    \/ \E ns \in Namespaces :
          \/ \E ks \in Lists(Keys) : Get(ns, ks) \/ Remove(ns, ks)
          \/ \E k \in Keys : Has(ns, k) \/ Yield(ns, k)
          \/ \E es \in Lists(PutEntry) : Put(ns, es)
          \/ Clear(ns)
    \/ Pass

Spec == Init /\ [][Next]_vars
=============================================================================
