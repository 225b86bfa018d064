----------------------------- MODULE StorelyStats -----------------------------
(***************************************************************************)
(* StorelyStats (core/storely/src/stats.ts) and the stats setter of the    *)
(* facade: statistics objects that subscribe to the telemetry of Storely   *)
(* instances.  Everything is synchronous, so an action is one call; what   *)
(* goes wrong here is an order of legal calls.                             *)
(*                                                                         *)
(* The five kinds of events are subscribed, unsubscribed and reset         *)
(* together and counted alike, so the model has one kind.  A listener is a *)
(* fresh closure of each subscribe, so an emitter may hold several of one  *)
(* object; an LRU map is a sequence of [key, n] in insertion order.        *)
(***************************************************************************)
EXTENDS Integers, Sequences, FiniteSets

CONSTANTS
    Stats,      \* the statistics objects
    Emitters,   \* the Storely instances
    Keys,       \* composite keys of events, as buildKeyEventName returns them
    NoKey,      \* the composite key "" of an event without a key
    None,
    Limits,     \* values of maxEntries
    Direct,     \* subscribe and unsubscribe are also called directly
    MaxEvents   \* bound of the model

ASSUME StatsAssumption ==
    /\ NoKey \notin Keys /\ None \notin Emitters /\ Limits \subseteq Int /\ Limits # {}
    /\ Direct \in BOOLEAN /\ MaxEvents \in Nat

VARIABLES
    enabled, maxEntries, emitter,   \* _enabled, _maxEntries, _emitter
    active,     \* _listeners is not empty
    attached,   \* how many listeners of s emitter e holds
    count,      \* _hits (or _misses, ...)
    lru,        \* hitKeysMap (or missKeysMap, ...)
    stats,      \* _stats of each Storely instance
    log,        \* history: the composite keys counted since the last reset
    events      \* how many events were emitted

vars == <<enabled, maxEntries, emitter, active, attached, count, lru, stats, log, events>>

---------------------------------------------------------------------------
(* One object; a step names the object's fields it changes *)

Fields(s) == [enabled |-> enabled[s], emitter |-> emitter[s], active |-> active[s],
              at |-> [e \in Emitters |-> attached[e][s]]]

\* off() removes this object's current listeners; without an emitter nothing happens.
Unsubscribed(o) ==
    IF o.emitter = None THEN o
    ELSE [o EXCEPT !.at[o.emitter] = IF o.active THEN @ - 1 ELSE @,
                   !.active = FALSE, !.emitter = None]

Subscribed(o, e) ==
    [Unsubscribed(o) EXCEPT !.emitter = e, !.active = TRUE, !.at[e] = @ + 1]

\* Mutant of Enabled: enabling does not look whether it is subscribed.
EnabledAgain(o, b) ==
    LET p == [o EXCEPT !.enabled = b]
    IN  IF ~b /\ p.active THEN [Unsubscribed(p) EXCEPT !.emitter = p.emitter]
        ELSE IF b /\ p.emitter # None THEN [p EXCEPT !.active = TRUE, !.at[p.emitter] = @ + 1] ELSE p

\* The enabled setter: disabling keeps the emitter for a later enabling.
Enabled(o, b) ==
    LET p == [o EXCEPT !.enabled = b]
    IN  IF ~b /\ p.active THEN [Unsubscribed(p) EXCEPT !.emitter = p.emitter]
        ELSE IF b /\ ~p.active /\ p.emitter # None THEN Subscribed(p, p.emitter) ELSE p

\* Every object s becomes what o[s] says.
Become(o) ==
    /\ enabled'  = [s \in Stats |-> o[s].enabled]
    /\ emitter'  = [s \in Stats |-> o[s].emitter]
    /\ active'   = [s \in Stats |-> o[s].active]
    /\ attached' = [e \in Emitters |-> [s \in Stats |-> o[s].at[e]]]
    /\ UNCHANGED <<maxEntries, count, lru, log, events>>

Now == [s \in Stats |-> Fields(s)]

---------------------------------------------------------------------------
(* Operations *)

SetEnabled(s, b)   == Become([Now EXCEPT ![s] = Enabled(@, b)]) /\ UNCHANGED stats
Subscribe(s, e)    == Direct /\ Become([Now EXCEPT ![s] = Subscribed(@, e)]) /\ UNCHANGED stats
Unsubscribe(s)     == Direct /\ Become([Now EXCEPT ![s] = Unsubscribed(@)]) /\ UNCHANGED stats

\* storely.stats = s: the old object is unsubscribed, the new one subscribed,
\* enabled or not.
SetStats(e, s) ==
    /\ Become([[Now EXCEPT ![stats[e]] = Unsubscribed(@)] EXCEPT ![s] = Subscribed(@, e)])
    /\ stats' = [stats EXCEPT ![e] = s]

SetMaxEntries(s, n) ==
    /\ maxEntries' = [maxEntries EXCEPT ![s] = n]
    /\ UNCHANGED <<enabled, emitter, active, attached, count, lru, stats, log, events>>

Reset(s) ==
    /\ count' = [count EXCEPT ![s] = 0]
    /\ lru' = [lru EXCEPT ![s] = <<>>]
    /\ log' = [log EXCEPT ![s] = <<>>]
    /\ UNCHANGED <<enabled, maxEntries, emitter, active, attached, stats, events>>

\* incrementKeys: delete and re-insert, then evict the oldest entry if there
\* are too many.
Places(m, k) == {i \in DOMAIN m : m[i].key = k}
Place(m, k)  == CHOOSE i \in Places(m, k) : TRUE
Others(m, k) == IF Places(m, k) = {} THEN m
                ELSE SubSeq(m, 1, Place(m, k) - 1) \o SubSeq(m, Place(m, k) + 1, Len(m))
Times(m, k)  == IF Places(m, k) = {} THEN 0 ELSE m[Place(m, k)].n

\* Mutant of Incremented: a counted key keeps its place.
IncrementedInPlace(m, k, max) ==
    IF max <= 0 \/ k = NoKey THEN m
    ELSE LET n == IF Times(m, k) = 0 THEN Append(m, [key |-> k, n |-> 1])
                  ELSE [i \in DOMAIN m |-> IF m[i].key = k THEN [m[i] EXCEPT !.n = @ + 1] ELSE m[i]]
         IN  IF Len(n) > max THEN Tail(n) ELSE n

Incremented(m, k, max) ==
    IF max <= 0 \/ k = NoKey THEN m
    ELSE LET n == Append(Others(m, k), [key |-> k, n |-> Times(m, k) + 1])
         IN  IF Len(n) > max THEN Tail(n) ELSE n

\* A telemetry event reaches every listener the emitter holds; no object has
\* more than one there (OneListener), so one increment is enough.
Emit(e, k) ==
    /\ events < MaxEvents /\ events' = events + 1
    /\ count' = [s \in Stats |-> count[s] + attached[e][s]]
    /\ lru' = [s \in Stats |-> IF attached[e][s] > 0 THEN Incremented(lru[s], k, maxEntries[s])
                                                ELSE lru[s]]
    /\ log' = [s \in Stats |-> IF attached[e][s] > 0 THEN Append(log[s], k) ELSE log[s]]
    /\ UNCHANGED <<enabled, maxEntries, emitter, active, attached, stats>>

---------------------------------------------------------------------------
\* initStats: each instance has an object of its own, subscribed if the stats
\* option is set; the other objects are built without an emitter.
Init ==
    /\ stats \in {f \in [Emitters -> Stats] : \A d, e \in Emitters : f[d] = f[e] => d = e}
    /\ enabled \in [Stats -> BOOLEAN] /\ maxEntries \in [Stats -> Limits]
    /\ emitter = [s \in Stats |-> IF \E e \in Emitters : stats[e] = s
                                  THEN CHOOSE e \in Emitters : stats[e] = s ELSE None]
    /\ active = [s \in Stats |-> enabled[s] /\ emitter[s] # None]
    /\ attached = [e \in Emitters |-> [s \in Stats |->
                      IF enabled[s] /\ emitter[s] = e THEN 1 ELSE 0]]
    /\ count = [s \in Stats |-> 0] /\ events = 0
    /\ lru = [s \in Stats |-> <<>>] /\ log = [s \in Stats |-> <<>>]

Next ==
    \/ \E s \in Stats :
          \/ \E b \in BOOLEAN : SetEnabled(s, b)
          \/ \E e \in Emitters : Subscribe(s, e) \/ SetStats(e, s)
          \/ \E n \in Limits : SetMaxEntries(s, n)
          \/ Unsubscribe(s) \/ Reset(s)
    \/ \E e \in Emitters : \E k \in Keys \cup {NoKey} : Emit(e, k)

Spec == Init /\ [][Next]_vars

---------------------------------------------------------------------------
(* Properties *)

\* Whatever the order of enabling, disabling, subscribing and unsubscribing,
\* an object has at most one listener, its emitter is the one that holds it,
\* and the object knows that it has one: no event is counted twice, and
\* unsubscribe always finds what subscribe registered.
OneListener ==
    \A s \in Stats : \A e \in Emitters :
        attached[e][s] = IF active[s] /\ emitter[s] = e THEN 1 ELSE 0

\* Under that limit an LRU map holds the most recently counted keys, the least
\* recent first, and a key that was never evicted is counted exactly
\* (incrementKeys); the counter counts every event since the last reset.
Counted(s)   == {log[s][i] : i \in DOMAIN log[s]} \ {NoKey}
LastAt(s, k) == CHOOSE i \in DOMAIN log[s] :
                    log[s][i] = k /\ \A j \in DOMAIN log[s] : log[s][j] = k => j <= i
Later(s, k)  == {c \in Counted(s) : LastAt(s, c) > LastAt(s, k)}
Occurrences(s, k) == Cardinality({i \in DOMAIN log[s] : log[s][i] = k})

LruKeepsRecent ==
    \A s \in Stats :
        /\ count[s] = Len(log[s])
        /\ Limits = {maxEntries[s]} /\ maxEntries[s] > 0 =>
              /\ {lru[s][i].key : i \in DOMAIN lru[s]} =
                    {k \in Counted(s) : Cardinality(Later(s, k)) < maxEntries[s]}
              /\ \A i, j \in DOMAIN lru[s] : i < j => LastAt(s, lru[s][i].key) < LastAt(s, lru[s][j].key)
              /\ Cardinality(Counted(s)) <= maxEntries[s] =>
                    \A i \in DOMAIN lru[s] : lru[s][i].n = Occurrences(s, lru[s][i].key)

\* An object that is not enabled listens to nothing.
DisabledIsSilent == \A s \in Stats : ~enabled[s] => \A e \in Emitters : attached[e][s] = 0

\* No map has more entries than maxEntries.
MapsBounded == \A s \in Stats : maxEntries[s] >= 0 => Len(lru[s]) <= maxEntries[s]
=============================================================================
