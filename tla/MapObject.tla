------------------------------- MODULE MapObject -------------------------------
(***************************************************************************)
(* What the Map interface promises (MapInterface in core/bigmap/src/       *)
(* index.ts): one value for each key, and walks (entries, keys, values,    *)
(* forEach) that yield what is there, an entry once, and pass nothing that *)
(* was there from their beginning to their end.                            *)
(***************************************************************************)
EXTENDS FiniteSets

CONSTANTS Keys, Values, None, Walks

VARIABLES
    map,     \* the value of each key, or None
    walk,    \* each walk: what it yielded, and what it must yield; or None
    answer   \* what the last call that answers answered, by its name

vars == <<map, walk, answer>>

There == {k \in Keys : map[k] # None}

Get(k) == answer' = <<"get", map[k]>> /\ UNCHANGED <<map, walk>>
Has(k) == answer' = <<"has", map[k] # None>> /\ UNCHANGED <<map, walk>>
Size   == answer' = <<"size", Cardinality(There)>> /\ UNCHANGED <<map, walk>>

Set(k, v) ==
    /\ map' = [map EXCEPT ![k] = v]
    /\ UNCHANGED <<walk, answer>>

\* What is deleted is no longer to be yielded; if it comes again it is another entry.
Gone(K) ==
    walk' = [w \in Walks |-> IF walk[w] = None THEN None
                             ELSE [must |-> walk[w].must \ K, done |-> walk[w].done \ K]]

Delete(k) ==
    /\ answer' = <<"delete", map[k] # None>>
    /\ map' = [map EXCEPT ![k] = None]
    /\ Gone({k})

Clear ==
    /\ map' = [k \in Keys |-> None]
    /\ Gone(Keys)
    /\ UNCHANGED answer

Start(w) ==
    /\ walk[w] = None
    /\ walk' = [walk EXCEPT ![w] = [must |-> There, done |-> {}]]
    /\ UNCHANGED <<map, answer>>

Yield(w, k) ==
    /\ walk[w] # None /\ map[k] # None /\ k \notin walk[w].done
    /\ walk' = [walk EXCEPT ![w] = [must |-> walk[w].must, done |-> walk[w].done \cup {k}]]
    /\ answer' = <<"yield", k, map[k]>>
    /\ UNCHANGED map

End(w) ==
    /\ walk[w] # None /\ walk[w].must \subseteq walk[w].done
    /\ walk' = [walk EXCEPT ![w] = None]
    /\ UNCHANGED <<map, answer>>

Init ==
    /\ map = [k \in Keys |-> None]
    /\ walk = [w \in Walks |-> None]
    /\ answer = <<>>

Next ==
    \/ \E k \in Keys : \/ Get(k) \/ Has(k) \/ Delete(k)
                       \/ \E v \in Values : Set(k, v)
    \/ Size \/ Clear
    \/ \E w \in Walks : Start(w) \/ End(w) \/ \E k \in Keys : Yield(w, k)

Spec == Init /\ [][Next]_vars
=============================================================================
