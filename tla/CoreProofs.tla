------------------------------ MODULE CoreProofs ------------------------------
(***************************************************************************)
(* What StorelyStats, StorelySanitize and StorelyConfig promise, for any   *)
(* number of objects, instances, keys, events and settings: an object has  *)
(* at most one listener, whatever the order of enabling and subscribing;   *)
(* an LRU map of a fixed limit holds the keys counted last, with their     *)
(* counts while none was evicted; the caches of the sanitizer hold the     *)
(* strings cleaned last, and their results are those of the patterns of    *)
(* the moment; the adapter of an instance works in the namespace the       *)
(* instance reports, and its fast path is decided by its settings.  The    *)
(* three specifications share no variable: each theorem is about one.      *)
(***************************************************************************)
EXTENDS StorelyStats, StorelySanitize, StorelyConfig, FiniteSetTheorems, WellFoundedInduction, TLAPS

---------------------------------------------------------------------------
(* Objects and their listeners *)

Object == [enabled : BOOLEAN, emitter : Emitters \cup {None}, active : BOOLEAN,
           at : [Emitters -> {0, 1}]]

\* It knows whether it listens, and to whom.
Sound(o) ==
    /\ o.active => o.emitter # None
    /\ \A e \in Emitters : o.at[e] = IF o.active /\ o.emitter = e THEN 1 ELSE 0

ListenersInv ==
    /\ \A s \in Stats : Fields(s) \in Object /\ Sound(Fields(s))
    /\ enabled \in [Stats -> BOOLEAN] /\ active \in [Stats -> BOOLEAN]
    /\ emitter \in [Stats -> Emitters \cup {None}]
    /\ attached \in [Emitters -> [Stats -> {0, 1}]]
    /\ stats \in [Emitters -> Stats] /\ maxEntries \in [Stats -> Limits]

LEMMA UnsubscribedSound ==
    ASSUME NEW o \in Object, Sound(o)
    PROVE  LET p == Unsubscribed(o)
           IN  p \in Object /\ Sound(p) /\ p.emitter = None /\ ~p.active /\ \A e \in Emitters : p.at[e] = 0
  <1>1. CASE o.emitter = None
    BY <1>1 DEF Unsubscribed, Sound
  <1>2. CASE o.emitter # None
    <2>1. o.emitter \in Emitters /\ o.emitter # None /\ None \notin Emitters
      BY <1>2, StatsAssumption DEF Object
    <2> DEFINE p == [o EXCEPT !.at[o.emitter] = IF o.active THEN @ - 1 ELSE @,
                              !.active = FALSE, !.emitter = None]
    <2>2. Unsubscribed(o) = p
      BY <1>2 DEF Unsubscribed
    <2> DEFINE at == [o.at EXCEPT ![o.emitter] = IF o.active THEN @ - 1 ELSE @]
    <2>3. \A e \in Emitters : at[e] = 0
      BY <2>1 DEF Object, Sound
    <2>4. at \in [Emitters -> {0, 1}]
      BY <2>1, <2>3 DEF Object
    <2>5. p = [o EXCEPT !.at = at, !.active = FALSE, !.emitter = None]
      BY <2>1 DEF Object
    <2> HIDE DEF p, at
    <2>6. p \in Object /\ p.emitter = None /\ p.active = FALSE /\ p.at = at
      BY <2>4, <2>5 DEF Object
    <2> QED BY <2>2, <2>3, <2>6 DEF Sound
  <1> QED BY <1>1, <1>2

LEMMA SubscribedSound ==
    ASSUME NEW o \in Object, Sound(o), NEW e \in Emitters
    PROVE  Subscribed(o, e) \in Object /\ Sound(Subscribed(o, e))
  <1> DEFINE u == Unsubscribed(o)
             p == [u EXCEPT !.emitter = e, !.active = TRUE, !.at[e] = @ + 1]
  <1>1. u \in Object /\ \A d \in Emitters : u.at[d] = 0
    BY UnsubscribedSound
  <1>2. Subscribed(o, e) = p
    BY DEF Subscribed
  <1> HIDE DEF u
  <1> DEFINE at == [u.at EXCEPT ![e] = @ + 1]
  <1>3. \A d \in Emitters : at[d] = IF d = e THEN 1 ELSE 0
    BY <1>1 DEF Object
  <1>4. at \in [Emitters -> {0, 1}]
    BY <1>1, <1>3 DEF Object
  <1>5. p = [u EXCEPT !.emitter = e, !.active = TRUE, !.at = at]
    BY <1>1 DEF Object
  <1>6. e # None
    BY StatsAssumption
  <1> HIDE DEF p, at
  <1>7. p \in Object /\ p.emitter = e /\ p.active = TRUE /\ p.at = at
    BY <1>1, <1>4, <1>5 DEF Object
  <1> QED BY <1>2, <1>3, <1>6, <1>7 DEF Sound

LEMMA EnabledSound ==
    ASSUME NEW o \in Object, Sound(o), NEW b \in BOOLEAN
    PROVE  Enabled(o, b) \in Object /\ Sound(Enabled(o, b))
  <1> DEFINE p == [o EXCEPT !.enabled = b]
  <1>1. p \in Object /\ p.emitter = o.emitter /\ p.active = o.active /\ p.at = o.at
    BY DEF Object
  <1>2. Sound(p)
    BY <1>1 DEF Sound
  <1>3. Enabled(o, b) = IF ~b /\ p.active THEN [Unsubscribed(p) EXCEPT !.emitter = p.emitter]
                        ELSE IF b /\ ~p.active /\ p.emitter # None THEN Subscribed(p, p.emitter) ELSE p
    BY DEF Enabled
  <1> HIDE DEF p
  <1>4. CASE ~b /\ p.active
    <2> DEFINE u == Unsubscribed(p)
               q == [u EXCEPT !.emitter = p.emitter]
    <2>1. u \in Object /\ ~u.active /\ \A e \in Emitters : u.at[e] = 0
      BY <1>1, <1>2, UnsubscribedSound
    <2> HIDE DEF u
    <2>2. q.active = u.active /\ q.at = u.at /\ q \in Object
      BY <1>1, <2>1 DEF Object
    <2> HIDE DEF q
    <2>3. Sound(q)
      BY <2>1, <2>2 DEF Sound
    <2> QED BY <1>3, <1>4, <2>2, <2>3 DEF q, u
  <1>5. CASE b /\ ~p.active /\ p.emitter # None
    <2>1. p.emitter \in Emitters
      BY <1>1, <1>5 DEF Object
    <2> QED BY <1>1, <1>2, <1>3, <1>5, <2>1, SubscribedSound
  <1>6. CASE ~(~b /\ p.active) /\ ~(b /\ ~p.active /\ p.emitter # None)
    BY <1>1, <1>2, <1>3, <1>6
  <1> QED BY <1>4, <1>5, <1>6

\* Objects that become sound ones stay so.
LEMMA BecomeSound ==
    ASSUME NEW o \in [Stats -> Object], \A s \in Stats : Sound(o[s]), Become(o)
    PROVE  /\ \A s \in Stats : (Fields(s) \in Object)' /\ Sound(Fields(s))'
           /\ enabled' \in [Stats -> BOOLEAN] /\ active' \in [Stats -> BOOLEAN]
           /\ emitter' \in [Stats -> Emitters \cup {None}]
           /\ attached' \in [Emitters -> [Stats -> {0, 1}]]
  <1>1. /\ enabled'  = [s \in Stats |-> o[s].enabled]
        /\ emitter'  = [s \in Stats |-> o[s].emitter]
        /\ active'   = [s \in Stats |-> o[s].active]
        /\ attached' = [e \in Emitters |-> [s \in Stats |-> o[s].at[e]]]
    BY DEF Become
  <1>2. \A s \in Stats : /\ o[s].enabled \in BOOLEAN /\ o[s].active \in BOOLEAN
                         /\ o[s].emitter \in Emitters \cup {None} /\ o[s].at \in [Emitters -> {0, 1}]
    BY DEF Object
  <1>3. ASSUME NEW s \in Stats PROVE (Fields(s) \in Object)' /\ Sound(Fields(s))'
    <2> DEFINE f == [enabled |-> enabled'[s], emitter |-> emitter'[s], active |-> active'[s],
                     at |-> [e \in Emitters |-> attached'[e][s]]]
    <2>1. f.enabled = o[s].enabled /\ f.emitter = o[s].emitter /\ f.active = o[s].active
      BY <1>1
    <2>2. f.at \in [Emitters -> {0, 1}] /\ \A e \in Emitters : f.at[e] = o[s].at[e]
      BY <1>1, <1>2
    <2>3. f \in Object
      BY <1>2, <2>1, <2>2 DEF Object
    <2>4. Fields(s)' = f
      BY DEF Fields
    <2> HIDE DEF f
    <2>5. Sound(f)
      BY <2>1, <2>2 DEF Sound
    <2> QED BY <2>3, <2>4, <2>5 DEF Sound
  <1> QED BY <1>1, <1>2, <1>3

LEMMA ListenersInit == Init => ListenersInv
  <1> SUFFICES ASSUME Init PROVE ListenersInv
    OBVIOUS
  <1>1. /\ stats \in [Emitters -> Stats] /\ maxEntries \in [Stats -> Limits] /\ enabled \in [Stats -> BOOLEAN]
        /\ \A s \in Stats : emitter[s] \in Emitters \cup {None}
        /\ \A s \in Stats : active[s] = (enabled[s] /\ emitter[s] # None)
    BY DEF Init
  <1>2. emitter \in [Stats -> Emitters \cup {None}] /\ active \in [Stats -> BOOLEAN]
    BY <1>1 DEF Init
  <1>3. attached = [e \in Emitters |-> [s \in Stats |-> IF enabled[s] /\ emitter[s] = e THEN 1 ELSE 0]]
    BY DEF Init
  <1>4. attached \in [Emitters -> [Stats -> {0, 1}]]
    BY <1>3
  <1>5. ASSUME NEW s \in Stats PROVE Fields(s) \in Object /\ Sound(Fields(s))
    <2>1. \A e \in Emitters : attached[e][s] = IF active[s] /\ emitter[s] = e THEN 1 ELSE 0
      BY <1>1, <1>3, StatsAssumption
    <2> QED BY <1>1, <1>2, <1>4, <2>1 DEF Fields, Object, Sound
  <1> QED BY <1>1, <1>2, <1>4, <1>5 DEF ListenersInv

LEMMA ListenersStep == ListenersInv /\ [Next]_vars => ListenersInv'
  <1> SUFFICES ASSUME ListenersInv, [Next]_vars PROVE ListenersInv'
    OBVIOUS
  <1>1. Now \in [Stats -> Object] /\ \A s \in Stats : Now[s] \in Object /\ Sound(Now[s])
    BY DEF ListenersInv, Now
  <1>2. ASSUME NEW s \in Stats, NEW p \in Object, Sound(p), Become([Now EXCEPT ![s] = p]), UNCHANGED stats
        PROVE  ListenersInv'
    <2> DEFINE o == [Now EXCEPT ![s] = p]
    <2>1. o \in [Stats -> Object] /\ \A r \in Stats : o[r] = IF r = s THEN p ELSE Now[r]
      BY <1>1
    <2>2. \A r \in Stats : Sound(o[r])
      BY <1>1, <1>2, <2>1
    <2>3. maxEntries' = maxEntries /\ Become(o)
      BY <1>2 DEF Become
    <2> HIDE DEF o
    <2> QED BY <1>2, <2>1, <2>2, <2>3, BecomeSound DEF ListenersInv
  <1>3. ASSUME NEW s \in Stats, NEW b \in BOOLEAN, SetEnabled(s, b) PROVE ListenersInv'
    <2>1. Become([Now EXCEPT ![s] = Enabled(Now[s], b)]) /\ UNCHANGED stats
      BY <1>1, <1>3 DEF SetEnabled
    <2> QED BY <1>1, <1>2, <2>1, EnabledSound
  <1>4. ASSUME NEW s \in Stats, NEW e \in Emitters, Subscribe(s, e) PROVE ListenersInv'
    <2>1. Become([Now EXCEPT ![s] = Subscribed(Now[s], e)]) /\ UNCHANGED stats
      BY <1>1, <1>4 DEF Subscribe
    <2> QED BY <1>1, <1>2, <2>1, SubscribedSound
  <1>5. ASSUME NEW s \in Stats, Unsubscribe(s) PROVE ListenersInv'
    <2>1. Become([Now EXCEPT ![s] = Unsubscribed(Now[s])]) /\ UNCHANGED stats
      BY <1>1, <1>5 DEF Unsubscribe
    <2> QED BY <1>1, <1>2, <2>1, UnsubscribedSound
  <1>6. ASSUME NEW s \in Stats, NEW e \in Emitters, SetStats(e, s) PROVE ListenersInv'
    <2> DEFINE was == stats[e]
               o == [Now EXCEPT ![was] = Unsubscribed(Now[was])]
               q == [o EXCEPT ![s] = Subscribed(o[s], e)]
    <2>1. was \in Stats /\ stats' \in [Emitters -> Stats]
      BY <1>6 DEF ListenersInv, SetStats
    <2> HIDE DEF was
    <2>2. o \in [Stats -> Object] /\ \A r \in Stats : o[r] = IF r = was THEN Unsubscribed(Now[was]) ELSE Now[r]
      BY <1>1, <2>1, UnsubscribedSound
    <2>3. \A r \in Stats : o[r] \in Object /\ Sound(o[r])
      BY <1>1, <2>1, <2>2, UnsubscribedSound
    <2>4. Become(q) /\ maxEntries' = maxEntries
      BY <1>1, <1>6, <2>2 DEF SetStats, Become, was
    <2> HIDE DEF o
    <2>5. q \in [Stats -> Object] /\ \A r \in Stats : q[r] = IF r = s THEN Subscribed(o[s], e) ELSE o[r]
      BY <2>2, <2>3, SubscribedSound
    <2>6. \A r \in Stats : Sound(q[r])
      BY <2>3, <2>5, SubscribedSound
    <2> HIDE DEF q
    <2> QED BY <2>1, <2>4, <2>5, <2>6, BecomeSound DEF ListenersInv
  <1>7. ASSUME UNCHANGED <<enabled, emitter, active, attached, stats>>, maxEntries' \in [Stats -> Limits]
        PROVE  ListenersInv'
    <2>1. \A s \in Stats : Fields(s)' = Fields(s)
      BY <1>7 DEF Fields
    <2>2. \A s \in Stats : (Fields(s) \in Object)' /\ Sound(Fields(s))'
      BY <2>1 DEF ListenersInv, Sound
    <2> QED BY <1>7, <2>2 DEF ListenersInv
  <1>8. ASSUME NEW s \in Stats, NEW n \in Limits, SetMaxEntries(s, n) PROVE ListenersInv'
    BY <1>7, <1>8 DEF SetMaxEntries, ListenersInv
  <1>9. ASSUME NEW s \in Stats, Reset(s) PROVE ListenersInv'
    BY <1>7, <1>9 DEF Reset, ListenersInv
  <1>10. ASSUME NEW e \in Emitters, NEW k \in Keys \cup {NoKey}, Emit(e, k) PROVE ListenersInv'
    BY <1>7, <1>10 DEF Emit, ListenersInv
  <1>11. CASE UNCHANGED vars
    BY <1>7, <1>11 DEF vars, ListenersInv
  <1> QED BY <1>3, <1>4, <1>5, <1>6, <1>8, <1>9, <1>10, <1>11 DEF Next

\* Whatever the order in which objects are enabled, disabled, subscribed,
\* unsubscribed and handed from one instance to another, each has at most one
\* listener, at its emitter, and knows of it.
THEOREM AtMostOneListener == Spec => []OneListener
  <1>1. ListenersInv => OneListener
    <2> SUFFICES ASSUME ListenersInv, NEW s \in Stats, NEW e \in Emitters
                 PROVE  attached[e][s] = IF active[s] /\ emitter[s] = e THEN 1 ELSE 0
      BY DEF OneListener
    <2>1. Fields(s).at[e] = attached[e][s] /\ Fields(s).active = active[s] /\ Fields(s).emitter = emitter[s]
      BY DEF Fields
    <2>2. Sound(Fields(s))
      BY DEF ListenersInv
    <2> QED BY <2>1, <2>2 DEF Sound
  <1> QED BY <1>1, ListenersInit, ListenersStep, PTL DEF Spec

---------------------------------------------------------------------------
(* Maps in insertion order that drop the oldest entry *)

Holds(m, k) == \E i \in 1..Len(m) : m[i].key = k

\* m holds the last of the keys in U by the places A, in that order, and all of
\* them as long as there is room.
Recent(m, U, A, max) ==
    /\ Len(m) <= max
    /\ \A i \in 1..Len(m) : m[i].key \in U
    /\ \A i, j \in 1..Len(m) : i < j => A[m[i].key] < A[m[j].key]
    /\ \A k \in U : Holds(m, k) \/ (Len(m) = max /\ A[k] < A[m[1].key])

LEMMA Joined ==
    ASSUME NEW S, NEW a \in Seq(S), NEW b \in Seq(S)
    PROVE  /\ a \o b \in Seq(S) /\ Len(a \o b) = Len(a) + Len(b)
           /\ \A i \in 1..Len(a) : (a \o b)[i] = a[i]
           /\ \A i \in 1..Len(b) : (a \o b)[Len(a) + i] = b[i]
  <1>1. a \o b \in Seq(S) /\ Len(a \o b) = Len(a) + Len(b) /\ \A i \in 1..Len(a) : (a \o b)[i] = a[i]
    OBVIOUS
  <1>2. \A i \in 1..Len(b) : (a \o b)[Len(a) + i] = b[i]
    OBVIOUS
  <1> QED BY <1>1, <1>2

Cut(m, p) == SubSeq(m, 1, p - 1) \o SubSeq(m, p + 1, Len(m))

LEMMA RemovedAt ==
    ASSUME NEW S, NEW m \in Seq(S), NEW p \in 1..Len(m)
    PROVE  /\ Cut(m, p) \in Seq(S) /\ Len(Cut(m, p)) = Len(m) - 1
           /\ \A i \in 1..(Len(m) - 1) : Cut(m, p)[i] = m[IF i < p THEN i ELSE i + 1]
  <1> DEFINE a == SubSeq(m, 1, p - 1)
             b == SubSeq(m, p + 1, Len(m))
             n == Len(m)
             r == Cut(m, p)
  <1>0. n \in Nat /\ p \in 1..n /\ Len(a) \in Nat /\ Len(b) \in Nat
    OBVIOUS
  <1>1. a \in Seq(S) /\ Len(a) = p - 1 /\ \A i \in 1..(p - 1) : a[i] = m[i]
    OBVIOUS
  <1>2. b \in Seq(S) /\ Len(b) = n - p /\ \A i \in 1..(n - p) : b[i] = m[p + i]
    OBVIOUS
  <1>3. r = a \o b
    BY DEF Cut
  <1> HIDE DEF a, b, n, r
  <1>4. r \in Seq(S) /\ Len(r) = n - 1
    <2>1. a \o b \in Seq(S) /\ Len(a \o b) = Len(a) + Len(b)
      BY <1>1, <1>2, Joined
    <2>2. Len(a) + Len(b) = n - 1
      BY <1>0, <1>1, <1>2
    <2> QED BY <1>3, <2>1, <2>2
  <1>5. ASSUME NEW i \in 1..(n - 1), i < p PROVE r[i] = m[i]
    <2>1. \A j \in 1..Len(a) : (a \o b)[j] = a[j]
      BY <1>1, <1>2, Joined
    <2>2. i \in 1..(p - 1)
      BY <1>0, <1>5
    <2> QED BY <1>1, <1>3, <2>1, <2>2
  <1>6. ASSUME NEW i \in 1..(n - 1), ~(i < p) PROVE r[i] = m[i + 1]
    <2>1. \A j \in 1..Len(b) : (a \o b)[Len(a) + j] = b[j]
      BY <1>1, <1>2, Joined
    <2> DEFINE j == i - (p - 1)
    <2>2. j \in 1..Len(b) /\ Len(a) + j = i /\ j \in 1..(n - p) /\ p + j = i + 1
      BY <1>0, <1>1, <1>2, <1>6
    <2> HIDE DEF j
    <2>3. (a \o b)[Len(a) + j] = b[j] /\ b[j] = m[p + j]
      BY <1>2, <2>1, <2>2
    <2> QED BY <1>3, <2>2, <2>3
  <1>7. \A i \in 1..(n - 1) : r[i] = m[IF i < p THEN i ELSE i + 1]
    BY <1>5, <1>6
  <1> QED BY <1>4, <1>7 DEF n, r

\* What is left when the entry of k is deleted, in its order.
LEMMA OthersLeft ==
    ASSUME NEW S, NEW m \in Seq(S), NEW k,
           \A i, j \in 1..Len(m) : i < j => m[i].key # m[j].key
    PROVE  /\ Others(m, k) \in Seq(S)
           /\ IF Holds(m, k)
              THEN \E p \in 1..Len(m) :
                      /\ m[p].key = k /\ p = Place(m, k) /\ Len(Others(m, k)) = Len(m) - 1
                      /\ \A i \in 1..(Len(m) - 1) : Others(m, k)[i] = m[IF i < p THEN i ELSE i + 1]
              ELSE Others(m, k) = m
  <1>1. CASE Holds(m, k)
    <2>1. Places(m, k) # {} /\ Place(m, k) \in Places(m, k)
      BY <1>1 DEF Holds, Places, Place
    <2> DEFINE p == Place(m, k)
    <2>2. p \in 1..Len(m) /\ m[p].key = k
      BY <2>1 DEF Places
    <2>3. Others(m, k) = SubSeq(m, 1, p - 1) \o SubSeq(m, p + 1, Len(m))
      BY <2>1 DEF Others
    <2> HIDE DEF p
    <2> DEFINE r == Others(m, k)
    <2>6. r = Cut(m, p)
      BY <2>3 DEF Cut
    <2> HIDE DEF r
    <2>4. r \in Seq(S) /\ Len(r) = Len(m) - 1
      BY <2>2, <2>6, RemovedAt
    <2>5. \A i \in 1..(Len(m) - 1) : r[i] = m[IF i < p THEN i ELSE i + 1]
      BY <2>2, <2>6, RemovedAt
    <2> QED BY <1>1, <2>2, <2>4, <2>5 DEF p, r
  <1>2. CASE ~Holds(m, k)
    <2>1. Others(m, k) = m
      BY <1>2 DEF Holds, Places, Others
    <2> QED BY <1>2, <2>1
  <1> QED BY <1>1, <1>2

\* Counting k again puts its entry last, and drops the first if there is no room.
Promoted(m, k, e, max) ==
    LET n == Append(Others(m, k), e) IN IF Len(n) > max THEN Tail(n) ELSE n

\* t is entries f of m and then e.
Chosen(m, k, e, max, t, n, f) ==
    /\ n \in 1..max /\ Len(t) = n /\ t[n] = e
    /\ f \in [1..(n - 1) -> 1..Len(m)]
    /\ \A i \in 1..(n - 1) : t[i] = m[f[i]] /\ m[f[i]].key # k
    /\ \A i, j \in 1..(n - 1) : i < j => f[i] < f[j]
    /\ \A j \in 1..Len(m) : \/ m[j].key = k
                            \/ \E i \in 1..(n - 1) : f[i] = j
                            \/ n = max /\ \A i \in 1..(n - 1) : j < f[i]
    /\ Len(m) = max => n = max

LEMMA StaysRecent ==
    ASSUME NEW U, NEW A \in [U -> Nat], NEW k, NEW B \in [U \cup {k} -> Nat],
           \A c \in U : c # k => B[c] = A[c] /\ A[c] < B[k],
           NEW max \in Nat \ {0}, NEW S, NEW m \in Seq(S), Recent(m, U, A, max),
           NEW e, e.key = k, NEW t, NEW n, NEW f, Chosen(m, k, e, max, t, n, f)
    PROVE  Recent(t, U \cup {k}, B, max)
  <1> DEFINE V == U \cup {k}
             L == Len(m)
  <1>0. /\ n \in 1..max /\ Len(t) = n /\ t[n].key = k
        /\ f \in [1..(n - 1) -> 1..L]
        /\ \A i \in 1..(n - 1) : t[i] = m[f[i]] /\ m[f[i]].key # k
        /\ \A i, j \in 1..(n - 1) : i < j => f[i] < f[j]
        /\ \A j \in 1..L : \/ m[j].key = k
                           \/ \E i \in 1..(n - 1) : f[i] = j
                           \/ n = max /\ \A i \in 1..(n - 1) : j < f[i]
        /\ L = max => n = max
    <2>1. n \in 1..max /\ Len(t) = n /\ t[n].key = k /\ f \in [1..(n - 1) -> 1..L] /\ (L = max => n = max)
      BY DEF Chosen
    <2>2. \A i \in 1..(n - 1) : t[i] = m[f[i]] /\ m[f[i]].key # k
      BY DEF Chosen
    <2>3. \A i, j \in 1..(n - 1) : i < j => f[i] < f[j]
      BY DEF Chosen
    <2>4. \A j \in 1..L : \/ m[j].key = k
                          \/ \E i \in 1..(n - 1) : f[i] = j
                          \/ n = max /\ \A i \in 1..(n - 1) : j < f[i]
      BY DEF Chosen
    <2> QED BY <2>1, <2>2, <2>3, <2>4
  <1>1. L \in Nat /\ L <= max /\ \A i \in 1..L : m[i].key \in U /\ A[m[i].key] \in Nat
    BY DEF Recent
  <1>2. \A i, j \in 1..L : i < j => A[m[i].key] < A[m[j].key]
    BY DEF Recent
  <1>3. \A c \in U : Holds(m, c) \/ (L = max /\ A[c] < A[m[1].key])
    BY DEF Recent
  <1>4. n \in Nat /\ n \in 1..n /\ 1 \in 1..n /\ n <= max /\ \A i \in 1..n : i = n \/ i \in 1..(n - 1)
    BY <1>0
  <1>5. \A c \in U : c # k => B[c] = A[c] /\ A[c] < B[k] /\ A[c] \in Nat /\ B[k] \in Nat
    OBVIOUS
  <1> HIDE DEF V, L
  <1>6. ASSUME NEW i \in 1..(n - 1)
        PROVE  f[i] \in 1..L /\ t[i] = m[f[i]] /\ t[i].key # k /\ t[i].key \in U /\ A[t[i].key] \in Nat
    BY <1>0, <1>1
  <1>7. ASSUME NEW i \in 1..n PROVE t[i].key \in V
    BY <1>0, <1>4, <1>6 DEF V
  <1>8. ASSUME NEW i \in 1..n, NEW j \in 1..n, i < j PROVE B[t[i].key] < B[t[j].key]
    <2>1. i \in 1..(n - 1)
      BY <1>4, <1>8
    <2>2. t[i].key # k /\ t[i].key \in U
      BY <1>6, <2>1
    <2>3. CASE j = n
      BY <1>0, <1>5, <2>2, <2>3
    <2>4. CASE j \in 1..(n - 1)
      <3>1. f[i] \in 1..L /\ f[j] \in 1..L /\ f[i] < f[j] /\ t[i] = m[f[i]] /\ t[j] = m[f[j]]
        BY <1>0, <1>6, <1>8, <2>1, <2>4
      <3>2. A[t[i].key] < A[t[j].key]
        BY <1>2, <3>1
      <3>3. t[j].key # k /\ t[j].key \in U
        BY <1>6, <2>4
      <3> QED BY <1>5, <2>2, <3>2, <3>3
    <2> QED BY <1>4, <2>3, <2>4
  <1>9. ASSUME NEW c \in V, ~Holds(t, c) PROVE n = max /\ B[c] < B[t[1].key]
    <2>1. c # k
      BY <1>0, <1>4, <1>9 DEF Holds
    <2>2. c \in U /\ B[c] = A[c] /\ A[c] < B[k] /\ A[c] \in Nat
      BY <1>5, <1>9, <2>1 DEF V
    <2>3. ASSUME NEW j \in 1..L, m[j].key = c PROVE n = max /\ \A i \in 1..(n - 1) : j < f[i]
      <3>1. ASSUME NEW i \in 1..(n - 1) PROVE f[i] # j
        <4>1. i \in 1..n /\ t[i] = m[f[i]]
          BY <1>4, <1>6, <3>1
        <4> QED BY <1>0, <1>9, <2>3, <4>1 DEF Holds
      <3> QED BY <1>0, <2>1, <2>3, <3>1
    <2>4. n = max
      <3>1. CASE Holds(m, c)
        BY <2>3, <3>1 DEF Holds, L
      <3>2. CASE ~Holds(m, c)
        BY <1>0, <1>3, <2>2, <3>2
      <3> QED BY <3>1, <3>2
    <2>5. CASE n = 1
      BY <1>0, <2>2, <2>4, <2>5
    <2>6. CASE n # 1
      <3>0. 1 \in 1..(n - 1)
        BY <1>4, <2>6
      <3>1. f[1] \in 1..L /\ t[1] = m[f[1]] /\ t[1].key # k /\ t[1].key \in U /\ A[t[1].key] \in Nat
        BY <1>6, <3>0
      <3>2. A[c] < A[t[1].key]
        <4>1. CASE Holds(m, c)
          <5>1. PICK j \in 1..L : m[j].key = c
            BY <4>1 DEF Holds, L
          <5>2. j < f[1]
            BY <2>3, <3>0, <5>1
          <5> QED BY <1>2, <3>1, <5>1, <5>2
        <4>2. CASE ~Holds(m, c)
          <5>1. A[c] < A[m[1].key]
            BY <1>3, <2>2, <4>2
          <5>2. 1 \in 1..L /\ A[m[1].key] \in Nat /\ (f[1] = 1 \/ 1 < f[1])
            BY <1>1, <3>1
          <5>3. A[m[1].key] < A[m[f[1]].key] \/ f[1] = 1
            BY <1>2, <3>1, <5>2
          <5> QED BY <2>2, <3>1, <5>1, <5>2, <5>3
        <4> QED BY <4>1, <4>2
      <3> QED BY <1>5, <2>2, <2>4, <3>1, <3>2
    <2> QED BY <2>5, <2>6
  <1>10. \A i \in 1..n : t[i].key \in V
    BY <1>7
  <1>11. \A i, j \in 1..n : i < j => B[t[i].key] < B[t[j].key]
    BY <1>8
  <1>12. \A c \in V : Holds(t, c) \/ (n = max /\ B[c] < B[t[1].key])
    BY <1>9
  <1> QED BY <1>0, <1>4, <1>10, <1>11, <1>12 DEF Recent, V

LEMMA Appended ==
    ASSUME NEW S, NEW m \in Seq(S), NEW e \in S
    PROVE  /\ Append(m, e) \in Seq(S) /\ Len(Append(m, e)) = Len(m) + 1
           /\ Append(m, e)[Len(m) + 1] = e
           /\ \A i \in 1..Len(m) : Append(m, e)[i] = m[i]
  OBVIOUS

LEMMA Dropped ==
    ASSUME NEW S, NEW m \in Seq(S), Len(m) # 0
    PROVE  /\ Tail(m) \in Seq(S) /\ Len(Tail(m)) = Len(m) - 1
           /\ \A i \in 1..(Len(m) - 1) : Tail(m)[i] = m[i + 1]
  OBVIOUS

LEMMA PromotedChosen ==
    ASSUME NEW S, NEW m \in Seq(S), NEW e \in S, NEW k, NEW max \in Nat \ {0}, Len(m) <= max,
           \A i, j \in 1..Len(m) : i < j => m[i].key # m[j].key
    PROVE  /\ Promoted(m, k, e, max) \in Seq(S)
           /\ \E n, f : Chosen(m, k, e, max, Promoted(m, k, e, max), n, f)
  <1> DEFINE L == Len(m)
             o == Others(m, k)
             a == Append(o, e)
             t == Promoted(m, k, e, max)
  <1>1. L \in Nat /\ L <= max /\ \A i, j \in 1..L : i < j => m[i].key # m[j].key
    OBVIOUS
  <1>2. o \in Seq(S)
    BY OthersLeft
  <1>3. a \in Seq(S) /\ Len(a) = Len(o) + 1 /\ a[Len(o) + 1] = e /\ \A i \in 1..Len(o) : a[i] = o[i]
    <2> HIDE DEF o
    <2> QED BY <1>2, Appended
  <1>4. t = IF Len(a) > max THEN Tail(a) ELSE a
    BY DEF Promoted
  <1>5. CASE Holds(m, k)
    <2>1. PICK p \in 1..L : /\ m[p].key = k /\ Len(o) = L - 1
                            /\ \A i \in 1..(L - 1) : o[i] = m[IF i < p THEN i ELSE i + 1]
      BY <1>5, OthersLeft
    <2> HIDE DEF o, a, t, L
    <2> DEFINE f == [i \in 1..(L - 1) |-> IF i < p THEN i ELSE i + 1]
    <2>2. Len(a) = L /\ t = a
      BY <1>1, <1>3, <1>4, <2>1
    <2>3. f \in [1..(L - 1) -> 1..L] /\ \A i \in 1..(L - 1) : f[i] = IF i < p THEN i ELSE i + 1
      BY <1>1
    <2>4. \A i, j \in 1..(L - 1) : i < j => f[i] < f[j]
      BY <1>1, <2>3
    <2>5. ASSUME NEW i \in 1..(L - 1) PROVE t[i] = m[f[i]] /\ m[f[i]].key # k
      <3>1. t[i] = m[f[i]]
        BY <1>1, <1>3, <2>1, <2>2, <2>3
      <3>2. f[i] \in 1..L /\ (f[i] < p \/ p < f[i])
        BY <1>1, <2>3
      <3> QED BY <1>1, <2>1, <3>1, <3>2
    <2>6. ASSUME NEW j \in 1..L PROVE m[j].key = k \/ \E i \in 1..(L - 1) : f[i] = j
      <3>1. CASE j = p
        BY <2>1, <3>1
      <3>2. CASE j < p
        <4>1. j \in 1..(L - 1) /\ (IF j < p THEN j ELSE j + 1) = j
          BY <1>1, <2>1, <3>2
        <4> QED BY <2>3, <4>1
      <3>3. CASE p < j
        <4>1. j - 1 \in 1..(L - 1) /\ ~(j - 1 < p) /\ (j - 1) + 1 = j
          BY <1>1, <2>1, <3>3
        <4> QED BY <2>3, <4>1
      <3> QED BY <1>1, <3>1, <3>2, <3>3
    <2>7. L \in 1..max /\ Len(t) = L /\ t[L] = e
      BY <1>1, <1>3, <2>1, <2>2
    <2> HIDE DEF f
    <2>8. Chosen(m, k, e, max, t, L, f)
      BY <1>1, <2>3, <2>4, <2>5, <2>6, <2>7 DEF Chosen, L
    <2> QED BY <1>3, <2>2, <2>8 DEF t
  <1>6. CASE ~Holds(m, k)
    <2>0. o = m
      BY <1>6, OthersLeft
    <2>1. Len(a) = L + 1 /\ a[L + 1] = e /\ (\A i \in 1..L : a[i] = m[i]) /\ \A i \in 1..L : m[i].key # k
      BY <1>3, <1>6, <2>0 DEF Holds
    <2> HIDE DEF o, a, t, L
    <2>2. CASE L < max
      <3> DEFINE f == [i \in 1..L |-> i]
                 n == L + 1
      <3>1. t = a
        BY <1>1, <1>4, <2>1, <2>2
      <3>2. n \in 1..max /\ n - 1 = L /\ f \in [1..L -> 1..L] /\ \A i \in 1..L : f[i] = i
        BY <1>1, <2>2
      <3> HIDE DEF f, n
      <3>3. Len(t) = n /\ t[n] = e
        BY <2>1, <3>1 DEF n
      <3>4. Chosen(m, k, e, max, t, n, f)
        BY <1>1, <2>1, <2>2, <3>1, <3>2, <3>3 DEF Chosen, L
      <3> QED BY <1>3, <3>1, <3>4 DEF t
    <2>3. CASE L = max
      <3> DEFINE f == [i \in 1..(L - 1) |-> i + 1]
      <3>1. t = Tail(a) /\ Len(a) # 0
        BY <1>1, <1>4, <2>1, <2>3
      <3>2. t \in Seq(S) /\ Len(t) = Len(a) - 1 /\ \A i \in 1..(Len(a) - 1) : t[i] = a[i + 1]
        BY <1>3, <3>1, Dropped
      <3>3. Len(a) - 1 = L /\ L \in 1..max
        BY <1>1, <2>1, <2>3
      <3>4. f \in [1..(L - 1) -> 1..L] /\ \A i \in 1..(L - 1) : f[i] = i + 1
        BY <1>1
      <3>5. Len(t) = L /\ t[L] = e
        BY <1>1, <2>1, <3>2, <3>3
      <3>6. ASSUME NEW i \in 1..(L - 1) PROVE t[i] = m[f[i]] /\ m[f[i]].key # k
        <4>1. i \in 1..L /\ i + 1 \in 1..L
          BY <1>1
        <4> QED BY <2>1, <3>2, <3>3, <3>4, <4>1
      <3>7. ASSUME NEW j \in 1..L
            PROVE  (\E i \in 1..(L - 1) : f[i] = j) \/ \A i \in 1..(L - 1) : j < f[i]
        <4>1. CASE j = 1
          BY <1>1, <3>4, <4>1
        <4>2. CASE j # 1
          <5>1. j - 1 \in 1..(L - 1) /\ (j - 1) + 1 = j
            BY <1>1, <4>2
          <5> QED BY <3>4, <5>1
        <4> QED BY <4>1, <4>2
      <3>8. \A i, j \in 1..(L - 1) : i < j => f[i] < f[j]
        BY <1>1, <3>4
      <3> HIDE DEF f
      <3>9. Chosen(m, k, e, max, t, L, f)
        BY <1>1, <2>3, <3>3, <3>4, <3>5, <3>6, <3>7, <3>8 DEF Chosen, L
      <3> QED BY <3>2, <3>9 DEF t
    <2> QED BY <1>1, <2>2, <2>3
  <1> QED BY <1>5, <1>6

\* B places the keys of U as A does, and k after them.
Promotes(A, B, U, k) ==
    /\ A \in [U -> Nat] /\ B \in [U \cup {k} -> Nat]
    /\ \A c \in U : c # k => B[c] = A[c] /\ A[c] < B[k]

Renews(t, m, e) ==
    \A i \in 1..Len(t) : t[i] = e \/ (t[i].key # e.key /\ \E j \in 1..Len(m) : t[i] = m[j])

\* A map that holds the last keys still does when k is counted again.
LEMMA PromotedRecent ==
    ASSUME NEW U, NEW A, NEW k, NEW B, Promotes(A, B, U, k),
           NEW max \in Nat \ {0}, NEW S, NEW m \in Seq(S), Recent(m, U, A, max),
           NEW e \in S, e.key = k, NEW t, t = Promoted(m, k, e, max)
    PROVE  /\ t \in Seq(S)
           /\ Recent(t, U \cup {k}, B, max)
           /\ Renews(t, m, e)
  <1>0. /\ A \in [U -> Nat] /\ B \in [U \cup {k} -> Nat]
        /\ \A c \in U : c # k => B[c] = A[c] /\ A[c] < B[k]
    BY DEF Promotes
  <1>1. Len(m) \in Nat /\ Len(m) <= max /\ \A i \in 1..Len(m) : m[i].key \in U /\ A[m[i].key] \in Nat
    BY <1>0 DEF Recent
  <1>2. \A i, j \in 1..Len(m) : i < j => A[m[i].key] < A[m[j].key]
    BY DEF Recent
  <1>3. \A i, j \in 1..Len(m) : i < j => m[i].key # m[j].key
    BY <1>1, <1>2
  <1>4. t \in Seq(S) /\ \E n, f : Chosen(m, k, e, max, t, n, f)
    BY <1>1, <1>3, PromotedChosen
  <1>5. PICK n, f : Chosen(m, k, e, max, t, n, f)
    BY <1>4
  <1>6. /\ n \in 1..max /\ Len(t) = n /\ t[n] = e
        /\ f \in [1..(n - 1) -> 1..Len(m)]
        /\ \A i \in 1..(n - 1) : t[i] = m[f[i]] /\ m[f[i]].key # k
    BY <1>5 DEF Chosen
  <1>7. Recent(t, U \cup {k}, B, max)
    BY <1>0, <1>5, StaysRecent
  <1>8. ASSUME NEW i \in 1..n PROVE t[i] = e \/ (t[i].key # k /\ \E j \in 1..Len(m) : t[i] = m[j])
    <2>1. i = n \/ i \in 1..(n - 1)
      BY <1>6
    <2>2. CASE i \in 1..(n - 1)
      BY <1>6, <2>2
    <2>3. CASE i = n
      <3>1. t[n] = e
        BY <1>6
      <3> QED BY <2>3, <3>1
    <2> QED BY <2>1, <2>2, <2>3
  <1> QED BY <1>4, <1>6, <1>7, <1>8 DEF Renews

---------------------------------------------------------------------------
(* The keys counted and their last places *)

LEMMA GreatestElement ==
    ASSUME NEW n \in Nat, NEW J, J \subseteq 0..n, J # {}
    PROVE  \E j \in J : \A m \in J : m <= j
  <1> DEFINE R == {p \in Nat \X Nat : p[1] < p[2]}
             K == {n - j : j \in J}
  <1>0. \A j \in J : j \in 0..n /\ j \in Nat /\ n - j \in Nat
    <2> SUFFICES ASSUME NEW j \in J PROVE j \in 0..n /\ j \in Nat /\ n - j \in Nat
      OBVIOUS
    <2>1. j \in 0..n
      OBVIOUS
    <2> QED BY <2>1
  <1>1. IsWellFoundedOn(R, Nat)
    BY NatLessThanWellFounded DEF OpToRel
  <1>2. \A x, y \in Nat : <<y, x>> \in R <=> y < x
    OBVIOUS
  <1>3. K \subseteq Nat /\ K # {}
    BY <1>0
  <1>4. PICK k \in K : \A m \in K : ~ (<<m, k>> \in R)
    <2> HIDE DEF K, R
    <2> QED BY <1>1, <1>3, WFMin
  <1>5. PICK j \in J : k = n - j
    OBVIOUS
  <1>6. \A m \in J : n - m \in K /\ n - m \in Nat /\ n - j \in Nat /\ m \in Nat /\ j \in Nat
    BY <1>0
  <1> HIDE DEF R, K
  <1>7. \A m \in J : ~ (n - m < n - j)
    BY <1>2, <1>4, <1>5, <1>6
  <1>8. \A m \in J : m <= j
    BY <1>6, <1>7
  <1> QED BY <1>8

FinalUse(u, k) == CHOOSE i \in DOMAIN u : u[i] = k /\ \A j \in DOMAIN u : u[j] = k => j <= i
Used(u)        == {u[i] : i \in DOMAIN u}
Lasts(u, U)    == [k \in U |-> FinalUse(u, k)]
Occ(u, k)      == Cardinality({i \in DOMAIN u : u[i] = k})

LEMMA LastOnly ==
    ASSUME NEW S, NEW u \in Seq(S), NEW k, NEW i \in 1..Len(u), u[i] = k,
           \A j \in 1..Len(u) : u[j] = k => j <= i
    PROVE  FinalUse(u, k) = i
  <1> DEFINE P(p) == u[p] = k /\ \A j \in DOMAIN u : u[j] = k => j <= p
  <1>1. DOMAIN u = 1..Len(u) /\ Len(u) \in Nat
    OBVIOUS
  <1>2. FinalUse(u, k) = CHOOSE p \in DOMAIN u : P(p)
    BY DEF FinalUse
  <1>3. i \in DOMAIN u /\ P(i)
    BY <1>1
  <1>4. ASSUME NEW p \in DOMAIN u, P(p) PROVE p = i
    <2>1. p <= i /\ i <= p
      BY <1>1, <1>3, <1>4
    <2> QED BY <1>1, <2>1
  <1> HIDE DEF P
  <1> QED BY <1>2, <1>3, <1>4

LEMMA LastIs ==
    ASSUME NEW S, NEW u \in Seq(S), NEW k \in Used(u)
    PROVE  FinalUse(u, k) \in 1..Len(u) /\ u[FinalUse(u, k)] = k
  <1>1. DOMAIN u = 1..Len(u) /\ Len(u) \in Nat
    OBVIOUS
  <1> DEFINE J == {i \in 1..Len(u) : u[i] = k}
  <1>2. J \subseteq 0..Len(u) /\ J # {}
    BY <1>1 DEF Used
  <1>3. PICK i \in J : \A j \in J : j <= i
    BY <1>1, <1>2, GreatestElement
  <1>4. i \in 1..Len(u) /\ u[i] = k /\ \A j \in 1..Len(u) : u[j] = k => j <= i
    BY <1>3
  <1>5. FinalUse(u, k) = i
    BY <1>4, LastOnly
  <1> QED BY <1>4, <1>5

LEMMA LastAppended ==
    ASSUME NEW S, NEW u \in Seq(S), NEW x \in S
    PROVE  /\ Append(u, x) \in Seq(S) /\ Len(Append(u, x)) = Len(u) + 1
           /\ Used(Append(u, x)) = Used(u) \cup {x}
           /\ FinalUse(Append(u, x), x) = Len(u) + 1
           /\ \A k \in Used(u) : k # x => FinalUse(Append(u, x), k) = FinalUse(u, k)
  <1> DEFINE w == Append(u, x)
  <1> DEFINE n == Len(u)
  <1>1. n \in Nat /\ DOMAIN u = 1..n
    OBVIOUS
  <1>2. /\ w \in Seq(S) /\ Len(w) = n + 1 /\ w[n + 1] = x
        /\ \A i \in 1..n : w[i] = u[i]
    BY Appended
  <1>3. DOMAIN w = 1..(n + 1)
    BY <1>2
  <1> HIDE DEF n, w
  <1>4. \A i \in 1..(n + 1) : i \in 1..n \/ i = n + 1
    BY <1>1
  <1>5. \A i \in 1..n : i \in 1..(n + 1) /\ i < n + 1 /\ i <= n + 1
    BY <1>1
  <1>6. {w[i] : i \in 1..(n + 1)} = {u[i] : i \in 1..n} \cup {x}
    BY <1>1, <1>2, <1>4, <1>5
  <1>7. Used(w) = Used(u) \cup {x}
    BY <1>1, <1>3, <1>6 DEF Used
  <1>8. FinalUse(w, x) = n + 1
    <2>1. n + 1 \in 1..(n + 1) /\ \A j \in 1..(n + 1) : j <= n + 1
      BY <1>1
    <2> DEFINE q == n + 1
    <2>2. q \in 1..Len(w) /\ w[q] = x /\ \A j \in 1..Len(w) : w[j] = x => j <= q
      BY <1>2, <2>1
    <2> HIDE DEF q
    <2>3. FinalUse(w, x) = q
      BY <1>2, <2>2, LastOnly
    <2> QED BY <2>3 DEF q
  <1>9. ASSUME NEW k \in Used(u), k # x PROVE FinalUse(w, k) = FinalUse(u, k)
    <2> DEFINE i == FinalUse(u, k)
    <2>1. i \in 1..n /\ u[i] = k
      BY LastIs DEF n
    <2>2. \A j \in 1..n : u[j] = k => j <= i
      <3>1. \E p \in 1..n : u[p] = k /\ \A j \in 1..n : u[j] = k => j <= p
        <4> DEFINE J == {p \in 1..n : u[p] = k}
        <4>1. J \subseteq 0..n /\ J # {}
          BY <1>1, <2>1
        <4>2. PICK p \in J : \A j \in J : j <= p
          BY <1>1, <4>1, GreatestElement
        <4> QED BY <4>2
      <3> QED BY <1>1, <3>1 DEF FinalUse
    <2> HIDE DEF i
    <2>3. i \in 1..(n + 1) /\ w[i] = k
      BY <1>2, <1>5, <2>1
    <2>4. \A j \in 1..(n + 1) : w[j] = k => j <= i
      BY <1>2, <1>4, <1>9, <2>2
    <2>5. FinalUse(w, k) = i
      BY <1>2, <2>3, <2>4, LastOnly
    <2> QED BY <2>5 DEF i
  <1> QED BY <1>2, <1>7, <1>8, <1>9 DEF n, w

LEMMA OccAppended ==
    ASSUME NEW S, NEW u \in Seq(S), NEW x \in S, NEW k
    PROVE  /\ Occ(u, k) \in Nat
           /\ Occ(Append(u, x), k) = IF k = x THEN Occ(u, k) + 1 ELSE Occ(u, k)
           /\ k \notin Used(u) => Occ(u, k) = 0
  <1> DEFINE w == Append(u, x)
             n == Len(u)
             I == {i \in DOMAIN u : u[i] = k}
  <1>1. n \in Nat /\ DOMAIN u = 1..n
    OBVIOUS
  <1>2. Len(w) = n + 1 /\ w[n + 1] = x /\ (\A i \in 1..n : w[i] = u[i]) /\ DOMAIN w = 1..(n + 1)
    BY Appended
  <1> HIDE DEF n, w
  <1>3. \A i \in 1..(n + 1) : i \in 1..n \/ i = n + 1
    BY <1>1
  <1>4. \A i \in 1..n : i \in 1..(n + 1) /\ i # n + 1
    BY <1>1
  <1>5. n + 1 \in 1..(n + 1)
    BY <1>1
  <1>6. {i \in DOMAIN w : w[i] = k} = IF k = x THEN I \cup {n + 1} ELSE I
    BY <1>1, <1>2, <1>3, <1>4, <1>5
  <1>7. IsFiniteSet(I) /\ n + 1 \notin I
    <2>1. I \in SUBSET (1..n) /\ IsFiniteSet(1..n)
      BY <1>1, FS_Interval
    <2> QED BY <1>4, <2>1, FS_Subset
  <1>8. Cardinality(I) \in Nat /\ Cardinality(I \cup {n + 1}) = Cardinality(I) + 1
    BY <1>7, FS_CardinalityType, FS_AddElement
  <1>9. I = {} => Cardinality(I) = 0
    BY FS_EmptySet
  <1>10. k \notin Used(u) => I = {}
    BY DEF Used
  <1>11. Occ(u, k) = Cardinality(I) /\ Occ(w, k) = Cardinality({i \in DOMAIN w : w[i] = k})
    BY DEF Occ
  <1> HIDE DEF I
  <1> QED BY <1>6, <1>8, <1>9, <1>10, <1>11 DEF w

LEMMA AppendedPromotes ==
    ASSUME NEW S, NEW u \in Seq(S), NEW U \in SUBSET Used(u), NEW k \in S, NEW w, w = Append(u, k)
    PROVE  /\ Promotes(Lasts(u, U), Lasts(w, U \cup {k}), U, k)
           /\ \A c \in U : Lasts(u, U)[c] = FinalUse(u, c)
           /\ \A c \in U \cup {k} : Lasts(w, U \cup {k})[c] = FinalUse(w, c)
  <1> DEFINE n == Len(u)
             A == Lasts(u, U)
             V == U \cup {k}
             B == Lasts(w, V)
  <1>1. n \in Nat
    OBVIOUS
  <1>2. FinalUse(w, k) = n + 1
    BY LastAppended
  <1>3. \A c \in U : c \in Used(u) /\ FinalUse(u, c) \in 1..n
    BY LastIs
  <1>4. ASSUME NEW c \in U, c # k PROVE FinalUse(w, c) = FinalUse(u, c)
    BY <1>3, <1>4, LastAppended
  <1>5. (\A c \in U : A[c] = FinalUse(u, c)) /\ \A c \in V : B[c] = FinalUse(w, c)
    BY DEF Lasts
  <1> HIDE DEF n
  <1>6. A \in [U -> Nat]
    BY <1>1, <1>3 DEF Lasts
  <1>7. \A c \in V : FinalUse(w, c) \in Nat
    BY <1>1, <1>2, <1>3, <1>4
  <1>8. B \in [V -> Nat]
    BY <1>7 DEF Lasts
  <1> HIDE DEF A, B
  <1>9. ASSUME NEW c \in U, c # k PROVE B[c] = A[c] /\ A[c] < B[k]
    <2>1. B[c] = A[c] /\ A[c] \in 1..n /\ B[k] = n + 1
      BY <1>2, <1>3, <1>4, <1>5, <1>9
    <2> QED BY <1>1, <2>1
  <1> QED BY <1>5, <1>6, <1>8, <1>9 DEF Promotes, A, B

---------------------------------------------------------------------------
(* How many keys a map holds *)

KeysOf(m) == {m[i].key : i \in 1..Len(m)}

LEMMA KeysCounted ==
    ASSUME NEW n \in Nat, NEW m, Len(m) = n, \A i, j \in 1..n : i < j => m[i].key # m[j].key
    PROVE  IsFiniteSet(KeysOf(m)) /\ Cardinality(KeysOf(m)) = n
  <1> DEFINE f == [i \in 1..n |-> m[i].key]
             K == KeysOf(m)
  <1>1. K = {m[i].key : i \in 1..n}
    BY DEF KeysOf
  <1>2. f \in [1..n -> K] /\ \A i \in 1..n : f[i] = m[i].key
    BY <1>1
  <1>3. \A c \in K : \E i \in 1..n : f[i] = c
    BY <1>1
  <1>4. \A i, j \in 1..n : f[i] = f[j] => i = j
    <2> SUFFICES ASSUME NEW i \in 1..n, NEW j \in 1..n, i # j PROVE m[i].key # m[j].key
      OBVIOUS
    <2>1. i < j \/ j < i
      OBVIOUS
    <2> QED BY <2>1
  <1> HIDE DEF f, K
  <1>5. f \in Bijection(1..n, K)
    BY <1>2, <1>3, <1>4 DEF Bijection, Injection, Surjection, IsInjective
  <1>6. ExistsBijection(1..n, K)
    BY <1>5 DEF ExistsBijection
  <1>7. IsFiniteSet(1..n) /\ Cardinality(1..n) = n
    BY FS_Interval
  <1> QED BY <1>6, <1>7, FS_Bijection DEF K

MostRecent(U, A, max) == {c \in U : Cardinality({d \in U : A[d] > A[c]}) < max}

\* What Recent says of a map: its keys are those with fewer than max later ones.
LEMMA RecentKept ==
    ASSUME NEW U, IsFiniteSet(U), NEW A \in [U -> Nat], NEW max \in Nat \ {0},
           NEW S, NEW m \in Seq(S), Recent(m, U, A, max)
    PROVE  /\ KeysOf(m) = MostRecent(U, A, max)
           /\ \A c \in U : ~Holds(m, c) => Cardinality(U) > max
  <1> DEFINE L == Len(m)
             K == KeysOf(m)
             After(c) == {d \in U : A[d] > A[c]}
  <1>1. L \in Nat /\ L <= max /\ (\A i \in 1..L : m[i].key \in U) /\ \A c \in U : A[c] \in Nat
    BY DEF Recent
  <1>2. \A i, j \in 1..L : i < j => A[m[i].key] < A[m[j].key]
    BY DEF Recent
  <1>3. \A c \in U : Holds(m, c) \/ (L = max /\ A[c] < A[m[1].key])
    BY DEF Recent
  <1>4. \A i, j \in 1..L : i < j => m[i].key # m[j].key
    BY <1>1, <1>2
  <1>5. IsFiniteSet(K) /\ Cardinality(K) = L
    BY <1>1, <1>4, KeysCounted
  <1>6. K \subseteq U /\ \A c : c \in K <=> Holds(m, c)
    BY <1>1 DEF KeysOf, Holds
  <1>7. \A c \in K : 1 \in 1..L /\ A[m[1].key] <= A[c]
    <2> SUFFICES ASSUME NEW c \in K PROVE 1 \in 1..L /\ A[m[1].key] <= A[c]
      OBVIOUS
    <2>1. PICK i \in 1..L : m[i].key = c
      BY DEF KeysOf
    <2> HIDE DEF L
    <2>2. 1 \in 1..L /\ (i = 1 \/ 1 < i)
      BY <1>1
    <2>3. i = 1 \/ A[m[1].key] < A[c]
      BY <1>2, <2>1, <2>2
    <2>4. m[1].key \in U /\ c \in U
      BY <1>1, <2>1, <2>2
    <2>5. A[m[1].key] \in Nat /\ A[c] \in Nat
      BY <1>1, <2>4
    <2> QED BY <2>1, <2>2, <2>3, <2>5
  <1> HIDE DEF L, K
  <1>8. ASSUME NEW c \in U PROVE IsFiniteSet(After(c)) /\ Cardinality(After(c)) \in Nat
    <2>1. After(c) \in SUBSET U
      OBVIOUS
    <2> HIDE DEF After
    <2> QED BY <2>1, FS_Subset, FS_CardinalityType
  <1>9. ASSUME NEW c \in K PROVE Cardinality(After(c)) < max
    <2>1. After(c) \subseteq K \ {c}
      <3> SUFFICES ASSUME NEW d \in U, A[d] > A[c] PROVE d \in K \ {c}
        OBVIOUS
      <3>1. c \in U /\ A[c] \in Nat /\ A[d] \in Nat
        BY <1>1, <1>6
      <3>2. d # c
        BY <3>1
      <3>3. CASE d \notin K
        <4>1. A[d] < A[m[1].key] /\ A[m[1].key] <= A[c]
          BY <1>3, <1>6, <1>7, <3>3
        <4>2. m[1].key \in U
          BY <1>1, <1>7
        <4>3. A[m[1].key] \in Nat
          BY <1>1, <4>2
        <4> QED BY <3>1, <4>1, <4>3
      <3> QED BY <3>2, <3>3
    <2>2. IsFiniteSet(K \ {c}) /\ Cardinality(K \ {c}) = L - 1
      BY <1>5, FS_RemoveElement
    <2>3. Cardinality(After(c)) <= L - 1
      <3> HIDE DEF After
      <3> QED BY <2>1, <2>2, FS_Subset
    <2> DEFINE q == Cardinality(After(c))
    <2>4. q \in Nat
      BY <1>6, <1>8
    <2> HIDE DEF q
    <2>5. q <= L - 1
      BY <2>3 DEF q
    <2>6. q < max
      BY <1>1, <2>4, <2>5
    <2> QED BY <2>6 DEF q
  <1>10. ASSUME NEW c \in U, c \notin K
         PROVE  ~(Cardinality(After(c)) < max) /\ L = max
    <2>1. L = max /\ A[c] < A[m[1].key]
      BY <1>3, <1>6, <1>10
    <2>2. K \subseteq After(c)
      <3> SUFFICES ASSUME NEW d \in K PROVE d \in U /\ A[d] > A[c]
        OBVIOUS
      <3>1. d \in U /\ A[d] \in Nat /\ A[c] \in Nat /\ 1 \in 1..L /\ A[m[1].key] <= A[d]
        BY <1>1, <1>6, <1>7
      <3>2. m[1].key \in U
        BY <1>1, <3>1
      <3>3. A[m[1].key] \in Nat
        BY <1>1, <3>2
      <3> QED BY <2>1, <3>1, <3>3
    <2>3. IsFiniteSet(After(c)) /\ Cardinality(After(c)) \in Nat
      BY <1>8
    <2>4. Cardinality(K) <= Cardinality(After(c))
      <3> HIDE DEF After
      <3> QED BY <2>2, <2>3, FS_Subset
    <2> DEFINE q == Cardinality(After(c))
    <2> HIDE DEF q
    <2>5. q \in Nat /\ max <= q
      BY <1>5, <2>1, <2>3, <2>4 DEF q
    <2>6. ~(q < max)
      BY <2>5
    <2> QED BY <2>1, <2>6 DEF q
  <1>11. K = {c \in U : Cardinality(After(c)) < max}
    <2> HIDE DEF After
    <2> QED BY <1>6, <1>9, <1>10
  <1>12. ASSUME NEW c \in U, ~Holds(m, c) PROVE Cardinality(U) > max
    <2>1. c \notin K /\ L = max
      BY <1>6, <1>10, <1>12
    <2>2. K \subseteq U \ {c}
      BY <1>6, <2>1
    <2>3. IsFiniteSet(U \ {c}) /\ Cardinality(U \ {c}) = Cardinality(U) - 1 /\ Cardinality(U) \in Nat
      BY FS_RemoveElement, FS_CardinalityType
    <2>4. Cardinality(K) <= Cardinality(U \ {c})
      BY <2>2, <2>3, FS_Subset
    <2> DEFINE q == Cardinality(U)
    <2> HIDE DEF q
    <2>5. q \in Nat /\ max <= q - 1
      BY <1>5, <2>1, <2>3, <2>4 DEF q
    <2>6. q > max
      BY <2>5
    <2> QED BY <2>6 DEF q
  <1> QED BY <1>11, <1>12 DEF K, MostRecent

---------------------------------------------------------------------------
(* The maps of the objects *)

Entry  == [key : Keys, n : Nat]
Events == Keys \cup {NoKey}

Keep(u)   == Used(u) \ {NoKey}
LastOf(u) == Lasts(u, Keep(u))

\* Map m of limit max is what counting the events u makes of it.
MapSound(m, u, max) ==
    /\ m \in Seq(Entry)
    /\ Recent(m, Keep(u), LastOf(u), max)
    /\ Cardinality(Keep(u)) <= max => \A i \in 1..Len(m) : m[i].n = Occ(u, m[i].key)

LEMMA LastOfType ==
    ASSUME NEW u \in Seq(Events)
    PROVE  /\ LastOf(u) \in [Keep(u) -> Nat]
           /\ \A k \in Keep(u) : LastOf(u)[k] = FinalUse(u, k) /\ FinalUse(u, k) \in 1..Len(u)
  <1>1. Len(u) \in Nat
    OBVIOUS
  <1>2. \A k \in Keep(u) : FinalUse(u, k) \in 1..Len(u) /\ FinalUse(u, k) \in Nat
    BY <1>1, LastIs DEF Keep
  <1> QED BY <1>2 DEF LastOf, Lasts

LEMMA KeyCounted ==
    ASSUME NEW u \in Seq(Events), IsFiniteSet(Keep(u)), NEW max \in Nat \ {0}, NEW m,
           MapSound(m, u, max), NEW k \in Keys, NEW w, w = Append(u, k)
    PROVE  /\ w \in Seq(Events) /\ IsFiniteSet(Keep(w))
           /\ MapSound(Incremented(m, k, max), w, max)
  <1> DEFINE U == Keep(u)
             A == LastOf(u)
             B == LastOf(w)
             e == [key |-> k, n |-> Times(m, k) + 1]
             t == Promoted(m, k, e, max)
  <1>1. k # NoKey /\ k \in Events
    BY StatsAssumption DEF Events
  <1>2. w \in Seq(Events) /\ Keep(w) = U \cup {k}
    <2>1. w \in Seq(Events) /\ Used(w) = Used(u) \cup {k}
      BY <1>1, LastAppended
    <2> QED BY <1>1, <2>1 DEF Keep
  <1>3. IsFiniteSet(Keep(w)) /\ Cardinality(U) <= Cardinality(Keep(w))
    <2>1. IsFiniteSet(Keep(w))
      BY <1>2, FS_AddElement
    <2> QED BY <1>2, <2>1, FS_Subset
  <1>4. Promotes(A, B, U, k)
    <2>1. U \in SUBSET Used(u)
      BY DEF Keep
    <2>2. Promotes(Lasts(u, U), Lasts(w, U \cup {k}), U, k)
      <3> HIDE DEF U
      <3> QED BY <1>1, <2>1, AppendedPromotes
    <2> QED BY <1>2, <2>2 DEF LastOf
  <1>5. A \in [U -> Nat]
    BY <1>4 DEF Promotes
  <1>7. m \in Seq(Entry) /\ Recent(m, U, A, max) /\ (\A i \in 1..Len(m) : m[i] \in Entry)
    BY DEF MapSound
  <1>8. /\ Times(m, k) \in Nat
        /\ Cardinality(U) <= max => Times(m, k) = Occ(u, k)
    <2>1. CASE Holds(m, k)
      <3>1. Places(m, k) # {} /\ Place(m, k) \in Places(m, k)
        BY <2>1 DEF Holds, Places, Place
      <3> DEFINE p == Place(m, k)
      <3>2. p \in 1..Len(m) /\ m[p].key = k /\ Times(m, k) = m[p].n
        BY <1>7, <3>1 DEF Places, Times
      <3> HIDE DEF p
      <3>3. Cardinality(U) <= max => m[p].n = Occ(u, m[p].key)
        BY <3>2 DEF MapSound
      <3>4. m[p].n \in Nat
        BY <1>7, <3>2 DEF Entry
      <3> QED BY <3>2, <3>3, <3>4
    <2>2. CASE ~Holds(m, k)
      <3>1. Times(m, k) = 0
        BY <1>7, <2>2 DEF Holds, Places, Times
      <3>2. ASSUME Cardinality(U) <= max PROVE Occ(u, k) = 0
        <4>1. k \in U => Cardinality(U) > max
          BY <1>5, <1>7, <2>2, RecentKept
        <4>2. Cardinality(U) \in Nat
          BY FS_CardinalityType
        <4> DEFINE q == Cardinality(U)
        <4> HIDE DEF q
        <4>3. ~(q > max)
          BY <3>2, <4>2 DEF q
        <4>4. k \notin Used(u)
          BY <1>1, <4>1, <4>3 DEF Keep, q
        <4> QED BY <1>1, <4>4, OccAppended
      <3> QED BY <3>1, <3>2
    <2> QED BY <2>1, <2>2
  <1>9. e \in Entry /\ e.key = k /\ e.n = Times(m, k) + 1
    BY <1>8 DEF Entry
  <1>10. Incremented(m, k, max) = t
    <2>1. ~(max <= 0)
      OBVIOUS
    <2> QED BY <1>1, <2>1 DEF Incremented, Promoted
  <1> HIDE DEF U, A, B, e, t
  <1>11. /\ t \in Seq(Entry) /\ Recent(t, U \cup {k}, B, max)
         /\ \A i \in 1..Len(t) : t[i] = e \/ (t[i].key # k /\ \E j \in 1..Len(m) : t[i] = m[j])
    <2>1. t = Promoted(m, k, e, max)
      BY DEF t
    <2>2. t \in Seq(Entry)
      BY <1>4, <1>7, <1>9, <2>1, PromotedRecent
    <2>3. Recent(t, U \cup {k}, B, max)
      BY <1>4, <1>7, <1>9, <2>1, PromotedRecent
    <2>4. Renews(t, m, e)
      BY <1>4, <1>7, <1>9, <2>1, PromotedRecent
    <2> QED BY <1>9, <2>2, <2>3, <2>4 DEF Renews
  <1>12. ASSUME Cardinality(Keep(w)) <= max, NEW i \in 1..Len(t) PROVE t[i].n = Occ(w, t[i].key)
    <2>1. Cardinality(U) <= max
      <3> DEFINE q == Cardinality(U)
                 r == Cardinality(Keep(w))
      <3>1. q \in Nat /\ r \in Nat /\ q <= r /\ r <= max
        BY <1>3, <1>12, FS_CardinalityType DEF U
      <3> HIDE DEF q, r
      <3>2. q <= max
        BY <3>1
      <3> QED BY <3>2 DEF q
    <2>2. CASE t[i] = e
      <3>1. Occ(w, k) = Occ(u, k) + 1
        BY <1>1, OccAppended
      <3> QED BY <1>8, <1>9, <2>1, <2>2, <3>1
    <2>3. CASE t[i].key # k /\ \E j \in 1..Len(m) : t[i] = m[j]
      <3>1. PICK j \in 1..Len(m) : t[i] = m[j]
        BY <2>3
      <3>2. m[j].n = Occ(u, m[j].key)
        BY <2>1 DEF MapSound, U
      <3>3. Occ(w, t[i].key) = Occ(u, t[i].key)
        BY <1>1, <2>3, OccAppended
      <3> QED BY <3>1, <3>2, <3>3
    <2> QED BY <1>11, <2>2, <2>3
  <1>13. MapSound(t, w, max)
    BY <1>2, <1>11, <1>12 DEF MapSound, B
  <1> QED BY <1>2, <1>3, <1>10, <1>13

\* An event without a key leaves the maps alone.
LEMMA NoKeyCounted ==
    ASSUME NEW u \in Seq(Events), IsFiniteSet(Keep(u)), NEW max \in Nat \ {0}, NEW m,
           MapSound(m, u, max), NEW w, w = Append(u, NoKey)
    PROVE  /\ w \in Seq(Events) /\ IsFiniteSet(Keep(w))
           /\ MapSound(Incremented(m, NoKey, max), w, max)
  <1>1. NoKey \in Events /\ NoKey \notin Keep(u) /\ Keep(u) \subseteq Used(u)
    BY DEF Events, Keep
  <1>2. w \in Seq(Events) /\ Keep(w) = Keep(u) /\ \A c \in Keep(u) : FinalUse(w, c) = FinalUse(u, c)
    <2>1. w \in Seq(Events) /\ Used(w) = Used(u) \cup {NoKey}
      BY <1>1, LastAppended
    <2>2. ASSUME NEW c \in Keep(u) PROVE FinalUse(w, c) = FinalUse(u, c)
      <3>1. c # NoKey /\ c \in Used(u)
        BY <1>1
      <3> QED BY <1>1, <3>1, LastAppended
    <2> QED BY <2>1, <2>2 DEF Keep
  <1>3. LastOf(w) = LastOf(u)
    BY <1>2 DEF LastOf, Lasts
  <1>4. Incremented(m, NoKey, max) = m
    BY DEF Incremented
  <1>5. m \in Seq(Entry) /\ Recent(m, Keep(u), LastOf(u), max)
    BY DEF MapSound
  <1>6. ASSUME Cardinality(Keep(u)) <= max, NEW i \in 1..Len(m) PROVE m[i].n = Occ(w, m[i].key)
    <2>1. m[i].n = Occ(u, m[i].key)
      BY <1>6 DEF MapSound
    <2>2. m[i].key \in Keep(u)
      BY <1>5 DEF Recent
    <2>3. Occ(w, m[i].key) = Occ(u, m[i].key)
      BY <1>1, <2>2, OccAppended
    <2> QED BY <2>1, <2>3
  <1>7. MapSound(m, w, max)
    BY <1>2, <1>3, <1>5, <1>6 DEF MapSound
  <1> QED BY <1>2, <1>4, <1>7

LEMMA NothingCounted ==
    /\ << >> \in Seq(Events) /\ IsFiniteSet(Keep(<< >>)) /\ Len(<< >>) = 0
    /\ \A max \in Nat \ {0} : MapSound(<< >>, << >>, max)
  <1> DEFINE none == << >>
  <1>1. none \in Seq(Events) /\ none \in Seq(Entry) /\ Len(none) = 0 /\ DOMAIN none = {}
    OBVIOUS
  <1> HIDE DEF none
  <1>2. Keep(none) = {} /\ IsFiniteSet(Keep(none))
    BY <1>1, FS_EmptySet DEF Keep, Used
  <1>3. ASSUME NEW max \in Nat \ {0} PROVE MapSound(none, none, max)
    <2>1. Recent(none, Keep(none), LastOf(none), max)
      BY <1>1, <1>2 DEF Recent
    <2> QED BY <1>1, <2>1 DEF MapSound
  <1> QED BY <1>1, <1>2, <1>3 DEF none

\* The counter and the map of an object are what its events made of them.
StatSound(s) ==
    /\ log[s] \in Seq(Events) /\ IsFiniteSet(Keep(log[s]))
    /\ count[s] = Len(log[s])
    /\ Limits = {maxEntries[s]} /\ maxEntries[s] > 0 => MapSound(lru[s], log[s], maxEntries[s])

MapsInv ==
    /\ ListenersInv
    /\ \A s \in Stats : StatSound(s)
    /\ count \in [Stats -> Nat] /\ DOMAIN lru = Stats /\ DOMAIN log = Stats

LEMMA MapsInit == Init => MapsInv
  <1> SUFFICES ASSUME Init PROVE MapsInv
    OBVIOUS
  <1>1. /\ count = [s \in Stats |-> 0] /\ lru = [s \in Stats |-> << >>] /\ log = [s \in Stats |-> << >>]
        /\ maxEntries \in [Stats -> Limits]
    BY DEF Init
  <1>2. \A s \in Stats : count[s] = 0 /\ lru[s] = << >> /\ log[s] = << >> /\ maxEntries[s] \in Int
    BY <1>1, StatsAssumption
  <1>3. ASSUME NEW s \in Stats PROVE StatSound(s)
    <2>1. log[s] \in Seq(Events) /\ IsFiniteSet(Keep(log[s])) /\ Len(log[s]) = 0
      BY <1>2, NothingCounted
    <2>2. ASSUME maxEntries[s] > 0 PROVE MapSound(lru[s], log[s], maxEntries[s])
      <3>1. maxEntries[s] \in Nat \ {0}
        BY <1>2, <2>2
      <3> QED BY <1>2, <3>1, NothingCounted
    <2> QED BY <1>2, <2>1, <2>2 DEF StatSound
  <1> QED BY <1>1, <1>3, ListenersInit DEF MapsInv

LEMMA MapsStep == MapsInv /\ [Next]_vars => MapsInv'
  <1> SUFFICES ASSUME MapsInv, [Next]_vars PROVE MapsInv'
    OBVIOUS
  <1>1. ListenersInv /\ ListenersInv' /\ (\A s \in Stats : StatSound(s)) /\ count \in [Stats -> Nat]
        /\ DOMAIN lru = Stats /\ DOMAIN log = Stats
    BY ListenersStep DEF MapsInv
  <1>2. /\ \A s \in Stats : maxEntries[s] \in Int /\ maxEntries'[s] \in Int
        /\ \A s \in Stats : maxEntries[s] \in Limits /\ maxEntries'[s] \in Limits
        /\ \A e \in Emitters : \A s \in Stats : attached[e][s] \in {0, 1}
    <2>1. attached \in [Emitters -> [Stats -> {0, 1}]] /\ maxEntries \in [Stats -> Limits]
          /\ maxEntries' \in [Stats -> Limits]
      BY <1>1 DEF ListenersInv
    <2> QED BY <2>1, StatsAssumption
  \* A limit that is the only one never changes.
  <1>3. ASSUME NEW s \in Stats, Limits = {maxEntries'[s]} PROVE maxEntries'[s] = maxEntries[s]
    BY <1>2, <1>3
  <1>4. ASSUME UNCHANGED <<count, lru, log>> PROVE MapsInv'
    <2>1. ASSUME NEW s \in Stats PROVE StatSound(s)'
      BY <1>1, <1>3, <1>4 DEF StatSound
    <2> QED BY <1>1, <1>4, <2>1 DEF MapsInv
  <1>5. ASSUME NEW s \in Stats, Reset(s) PROVE MapsInv'
    <2>1. /\ count' = [count EXCEPT ![s] = 0] /\ lru' = [lru EXCEPT ![s] = << >>]
          /\ log' = [log EXCEPT ![s] = << >>] /\ maxEntries' = maxEntries
      BY <1>5 DEF Reset
    <2>2. ASSUME NEW r \in Stats PROVE StatSound(r)'
      <3>1. CASE r = s
        <4>1. count'[r] = 0 /\ lru'[r] = << >> /\ log'[r] = << >>
          BY <1>1, <2>1, <3>1
        <4>2. log'[r] \in Seq(Events) /\ IsFiniteSet(Keep(log'[r])) /\ Len(log'[r]) = 0
          BY <4>1, NothingCounted
        <4>3. ASSUME maxEntries'[r] > 0 PROVE MapSound(lru'[r], log'[r], maxEntries'[r])
          <5>1. maxEntries'[r] \in Nat \ {0}
            BY <1>2, <4>3
          <5> QED BY <4>1, <5>1, NothingCounted
        <4> QED BY <4>1, <4>2, <4>3 DEF StatSound
      <3>2. CASE r # s
        <4>1. count'[r] = count[r] /\ lru'[r] = lru[r] /\ log'[r] = log[r] /\ maxEntries'[r] = maxEntries[r]
          BY <1>1, <2>1, <3>2
        <4> QED BY <1>1, <4>1 DEF StatSound
      <3> QED BY <3>1, <3>2
    <2> QED BY <1>1, <2>1, <2>2 DEF MapsInv
  <1>6. ASSUME NEW e \in Emitters, NEW k \in Events, Emit(e, k) PROVE MapsInv'
    <2>1. /\ count' = [s \in Stats |-> count[s] + attached[e][s]]
          /\ lru' = [s \in Stats |-> IF attached[e][s] > 0 THEN Incremented(lru[s], k, maxEntries[s])
                                                           ELSE lru[s]]
          /\ log' = [s \in Stats |-> IF attached[e][s] > 0 THEN Append(log[s], k) ELSE log[s]]
          /\ maxEntries' = maxEntries
      BY <1>6 DEF Emit
    <2>2. ASSUME NEW s \in Stats PROVE StatSound(s)'
      <3>1. CASE attached[e][s] = 0
        <4>1. count'[s] = count[s] /\ lru'[s] = lru[s] /\ log'[s] = log[s] /\ maxEntries'[s] = maxEntries[s]
          BY <1>1, <2>1, <3>1
        <4> QED BY <1>1, <4>1 DEF StatSound
      <3>2. CASE attached[e][s] = 1
        <4> DEFINE u == log[s]
                   w == Append(u, k)
                   m == lru[s]
                   max == maxEntries[s]
        <4>1. count'[s] = count[s] + 1 /\ lru'[s] = Incremented(m, k, max) /\ log'[s] = w /\ maxEntries'[s] = max
          BY <2>1, <3>2
        <4>2. u \in Seq(Events) /\ IsFiniteSet(Keep(u)) /\ count[s] = Len(u)
          BY <1>1 DEF StatSound
        <4>3. w \in Seq(Events) /\ Len(w) = Len(u) + 1 /\ IsFiniteSet(Keep(w))
          <5> HIDE DEF u
          <5>0. w \in Seq(Events) /\ Len(w) = Len(u) + 1 /\ Used(w) = Used(u) \cup {k}
            BY <4>2, LastAppended
          <5>1. w \in Seq(Events) /\ Len(w) = Len(u) + 1
                /\ Keep(w) = IF k = NoKey THEN Keep(u) ELSE Keep(u) \cup {k}
            BY <5>0 DEF Keep
          <5> QED BY <4>2, <5>1, FS_AddElement
        <4>4. ASSUME Limits = {max}, max > 0 PROVE MapSound(Incremented(m, k, max), w, max)
          <5>1. max \in Nat \ {0} /\ MapSound(m, u, max)
            BY <1>1, <1>2, <4>4 DEF StatSound
          <5>2. CASE k \in Keys
            <6> HIDE DEF u, m, max
            <6> QED BY <4>2, <5>1, <5>2, KeyCounted
          <5>3. CASE k = NoKey
            <6> HIDE DEF u, m, max
            <6> QED BY <4>2, <5>1, <5>3, NoKeyCounted
          <5> QED BY <5>2, <5>3 DEF Events
        <4> QED BY <4>1, <4>2, <4>3, <4>4 DEF StatSound
      <3> QED BY <1>2, <3>1, <3>2
    <2>3. count' \in [Stats -> Nat] /\ DOMAIN lru' = Stats /\ DOMAIN log' = Stats
      <3>1. \A s \in Stats : count[s] + attached[e][s] \in Nat
        BY <1>1, <1>2
      <3> QED BY <2>1, <3>1
    <2> QED BY <1>1, <2>2, <2>3 DEF MapsInv
  <1>7. ASSUME NEW s \in Stats, NEW b \in BOOLEAN, SetEnabled(s, b) PROVE MapsInv'
    BY <1>4, <1>7 DEF SetEnabled, Become
  <1>8. ASSUME NEW s \in Stats, NEW e \in Emitters, Subscribe(s, e) PROVE MapsInv'
    BY <1>4, <1>8 DEF Subscribe, Become
  <1>9. ASSUME NEW s \in Stats, NEW e \in Emitters, SetStats(e, s) PROVE MapsInv'
    BY <1>4, <1>9 DEF SetStats, Become
  <1>10. ASSUME NEW s \in Stats, NEW n \in Limits, SetMaxEntries(s, n) PROVE MapsInv'
    BY <1>4, <1>10 DEF SetMaxEntries
  <1>11. ASSUME NEW s \in Stats, Unsubscribe(s) PROVE MapsInv'
    BY <1>4, <1>11 DEF Unsubscribe, Become
  <1>12. CASE UNCHANGED vars
    BY <1>4, <1>12 DEF vars
  <1> QED BY <1>5, <1>6, <1>7, <1>8, <1>9, <1>10, <1>11, <1>12 DEF Next, Events

\* Under a limit that never changes, a map holds the most recently counted
\* keys, the least recent first, and as long as the keys fit it counts each
\* exactly; the counter counts every event since the last reset.
THEOREM MapsKeepRecent == Spec => []LruKeepsRecent
  <1>1. MapsInv => LruKeepsRecent
    <2> SUFFICES ASSUME MapsInv, NEW s \in Stats
                 PROVE  /\ count[s] = Len(log[s])
                        /\ Limits = {maxEntries[s]} /\ maxEntries[s] > 0 =>
                              /\ {lru[s][i].key : i \in DOMAIN lru[s]} =
                                    {k \in Counted(s) : Cardinality(Later(s, k)) < maxEntries[s]}
                              /\ \A i, j \in DOMAIN lru[s] :
                                    i < j => LastAt(s, lru[s][i].key) < LastAt(s, lru[s][j].key)
                              /\ Cardinality(Counted(s)) <= maxEntries[s] =>
                                    \A i \in DOMAIN lru[s] : lru[s][i].n = Occurrences(s, lru[s][i].key)
      BY DEF LruKeepsRecent
    <2> DEFINE u == log[s]
               m == lru[s]
               max == maxEntries[s]
               U == Keep(u)
               A == LastOf(u)
    <2>1. u \in Seq(Events) /\ IsFiniteSet(U) /\ count[s] = Len(u)
      BY DEF MapsInv, StatSound
    <2>2. Counted(s) = U
      BY DEF Counted, Keep, Used
    <2>3. \A k \in U : LastAt(s, k) = A[k]
      BY DEF LastAt, FinalUse, LastOf, Lasts
    <2>4. \A k \in U : Later(s, k) = {c \in U : A[c] > A[k]}
      BY <2>2, <2>3 DEF Later
    <2>5. \A k : Occurrences(s, k) = Occ(u, k)
      BY DEF Occurrences, Occ
    <2>6. ASSUME Limits = {max}, max > 0
          PROVE  /\ {m[i].key : i \in DOMAIN m} = {k \in Counted(s) : Cardinality(Later(s, k)) < max}
                 /\ \A i, j \in DOMAIN m : i < j => LastAt(s, m[i].key) < LastAt(s, m[j].key)
                 /\ Cardinality(Counted(s)) <= max => \A i \in DOMAIN m : m[i].n = Occurrences(s, m[i].key)
      <3>1. MapSound(m, u, max) /\ max \in Nat \ {0}
        BY <2>6, StatsAssumption DEF MapsInv, StatSound, ListenersInv
      <3>2. A \in [U -> Nat]
        BY <2>1, LastOfType
      <3> HIDE DEF u, m, max, U, A
      <3>3. m \in Seq(Entry) /\ DOMAIN m = 1..Len(m) /\ Recent(m, U, A, max)
        BY <3>1 DEF MapSound, U, A
      <3>4. KeysOf(m) = MostRecent(U, A, max)
        <4>1. m \in Seq(Entry) /\ Recent(m, U, A, max)
          BY <3>3
        <4> QED BY <2>1, <3>1, <3>2, <4>1, RecentKept
      <3>5. {m[i].key : i \in DOMAIN m} = {k \in Counted(s) : Cardinality(Later(s, k)) < max}
        BY <2>2, <2>4, <3>3, <3>4 DEF KeysOf, MostRecent
      <3>6. ASSUME NEW i \in DOMAIN m, NEW j \in DOMAIN m, i < j
            PROVE  LastAt(s, m[i].key) < LastAt(s, m[j].key)
        <4>1. m[i].key \in U /\ m[j].key \in U /\ A[m[i].key] < A[m[j].key]
          BY <3>3, <3>6 DEF Recent
        <4> QED BY <2>3, <4>1
      <3>7. ASSUME Cardinality(Counted(s)) <= max, NEW i \in DOMAIN m PROVE m[i].n = Occurrences(s, m[i].key)
        BY <2>2, <2>5, <3>1, <3>3, <3>7 DEF MapSound, U
      <3> QED BY <3>5, <3>6, <3>7
    <2> QED BY <2>1, <2>6
  <1> QED BY <1>1, MapsInit, MapsStep, PTL DEF Spec
---------------------------------------------------------------------------
(* The caches of the sanitizer *)

Result == [key : Strings, value : Strings]

\* Cache c holds what cleaning the strings u under the patterns of cs makes of it.
Cached(c, u, cs) ==
    /\ c \in Seq(Result) /\ u \in Seq(Strings) /\ IsFiniteSet(Used(u))
    /\ Recent(c, Used(u), Lasts(u, Used(u)), CacheMax)
    /\ \A i \in 1..Len(c) : c[i].value = Strip[cs][c[i].key]

LEMMA NothingCached ==
    ASSUME NEW cs, CacheMax \in Nat \ {0}
    PROVE  Cached(<< >>, << >>, cs)
  <1> DEFINE none == << >>
  <1>1. none \in Seq(Result) /\ none \in Seq(Strings) /\ Len(none) = 0 /\ DOMAIN none = {}
    OBVIOUS
  <1> HIDE DEF none
  <1>2. Used(none) = {} /\ IsFiniteSet(Used(none))
    BY <1>1, FS_EmptySet DEF Used
  <1>3. Recent(none, Used(none), Lasts(none, Used(none)), CacheMax)
    BY <1>1, <1>2 DEF Recent
  <1> QED BY <1>1, <1>2, <1>3 DEF Cached, none

\* Cleaning s once more, with its result put last.
LEMMA RenewedCached ==
    ASSUME NEW cs, CacheMax \in Nat \ {0}, NEW c, NEW u, Cached(c, u, cs), NEW s \in Strings,
           NEW e \in Result, e.key = s, e.value = Strip[cs][s]
    PROVE  Cached(Promoted(c, s, e, CacheMax), Append(u, s), cs)
  <1> DEFINE U == Used(u)
             w == Append(u, s)
             A == Lasts(u, U)
             B == Lasts(w, U \cup {s})
             t == Promoted(c, s, e, CacheMax)
  <1>1. /\ c \in Seq(Result) /\ u \in Seq(Strings) /\ IsFiniteSet(U) /\ Recent(c, U, A, CacheMax)
        /\ \A i \in 1..Len(c) : c[i].value = Strip[cs][c[i].key]
    BY DEF Cached
  <1>2. w \in Seq(Strings) /\ Used(w) = U \cup {s}
    BY <1>1, LastAppended
  <1>3. Promotes(A, B, U, s)
    <2>1. U \in SUBSET Used(u)
      OBVIOUS
    <2> HIDE DEF U
    <2> QED BY <1>1, <2>1, AppendedPromotes
  <1>4. IsFiniteSet(Used(w))
    <2> HIDE DEF U, w
    <2>1. IsFiniteSet(U \cup {s})
      BY <1>1, FS_AddElement
    <2> QED BY <1>2, <2>1
  <1> HIDE DEF U, A, B, w, t
  <1>5. t \in Seq(Result) /\ Recent(t, U \cup {s}, B, CacheMax) /\ Renews(t, c, e)
    <2>1. t = Promoted(c, s, e, CacheMax)
      BY DEF t
    <2> QED BY <1>1, <1>3, <2>1, PromotedRecent
  <1>6. ASSUME NEW i \in 1..Len(t) PROVE t[i].value = Strip[cs][t[i].key]
    BY <1>1, <1>5 DEF Renews
  <1>7. Recent(t, Used(w), Lasts(w, Used(w)), CacheMax)
    BY <1>2, <1>5 DEF B
  <1> QED BY <1>2, <1>4, <1>5, <1>6, <1>7 DEF Cached, w, t

\* A hit is deleted and set again, a miss set, and the first entry dropped if
\* there are too many.
LEMMA CacheRenewed ==
    ASSUME NEW cs, NEW c, NEW u, Cached(c, u, cs), NEW s \in Strings
    PROVE  /\ \A p \in At(c, s) :
                 /\ Renewed(c, p) = Promoted(c, s, c[p], CacheMax)
                 /\ c[p] \in Result /\ c[p].key = s /\ c[p].value = Strip[cs][s]
           /\ At(c, s) = {} =>
                 \A e : Evicted(Append(c, e)) = Promoted(c, s, e, CacheMax)
  <1>1. /\ c \in Seq(Result) /\ Len(c) \in Nat /\ DOMAIN c = 1..Len(c) /\ Recent(c, Used(u), Lasts(u, Used(u)), CacheMax)
        /\ \A i \in 1..Len(c) : c[i] \in Result /\ c[i].value = Strip[cs][c[i].key]
    BY DEF Cached
  <1>2. At(c, s) = Places(c, s)
    BY DEF At, Places
  <1>3. ASSUME NEW i \in 1..Len(c), NEW j \in 1..Len(c), i < j PROVE c[i].key # c[j].key
    <2> DEFINE A == Lasts(u, Used(u))
    <2>1. c[i].key \in Used(u) /\ A[c[i].key] < A[c[j].key]
      BY <1>1, <1>3 DEF Recent
    <2>2. A[c[i].key] = FinalUse(u, c[i].key) /\ FinalUse(u, c[i].key) \in 1..Len(u) /\ Len(u) \in Nat
      BY <2>1, LastIs DEF Lasts, Cached
    <2>3. A[c[i].key] \in Nat
      BY <2>2
    <2> HIDE DEF A
    <2> QED BY <2>1, <2>3
  <1>4. ASSUME NEW p \in Places(c, s)
        PROVE  /\ Renewed(c, p) = Promoted(c, s, c[p], CacheMax)
               /\ c[p] \in Result /\ c[p].key = s /\ c[p].value = Strip[cs][s]
    <2>1. p \in 1..Len(c) /\ c[p].key = s /\ Places(c, s) # {} /\ Place(c, s) \in Places(c, s)
      BY <1>1 DEF Places, Place
    <2>2. Place(c, s) = p
      <3>1. Place(c, s) \in 1..Len(c) /\ c[Place(c, s)].key = s
        BY <1>1, <2>1 DEF Places
      <3> DEFINE q == Place(c, s)
      <3> HIDE DEF q
      <3>2. ~(q < p) /\ ~(p < q)
        BY <1>3, <2>1, <3>1 DEF q
      <3>3. q = p
        BY <1>1, <2>1, <3>1, <3>2 DEF q
      <3> QED BY <3>3 DEF q
    <2>3. Others(c, s) = Cut(c, p)
      BY <2>1, <2>2 DEF Others, Cut
    <2>4. Renewed(c, p) = Append(Others(c, s), c[p])
      BY <2>3 DEF Renewed, Cut
    <2> DEFINE n == Append(Others(c, s), c[p])
    <2>5. Len(n) = Len(c) /\ Len(c) <= CacheMax
      <3>1. Cut(c, p) \in Seq(Result) /\ Len(Cut(c, p)) = Len(c) - 1 /\ c[p] \in Result
        BY <1>1, <2>1, RemovedAt
      <3> DEFINE o == Cut(c, p)
                 k == Len(o)
                 l == Len(c)
      <3>2. Len(Append(o, c[p])) = k + 1
        <4> HIDE DEF o
        <4> QED BY <3>1, Appended DEF o
      <3>3. k = l - 1 /\ l \in Nat
        BY <1>1, <3>1
      <3> HIDE DEF k, l
      <3>4. k + 1 = l
        BY <3>3
      <3>5. l <= CacheMax
        BY <1>1 DEF Recent, l
      <3> QED BY <2>3, <3>2, <3>4, <3>5 DEF l
    <2>6. ~(Len(n) > CacheMax)
      <3> DEFINE l == Len(c)
      <3> HIDE DEF l, n
      <3>1. l \in Nat /\ CacheMax \in Nat /\ l <= CacheMax /\ Len(n) = l
        BY <1>1, <2>5, SanitizeAssumption DEF l
      <3> QED BY <3>1
    <2>7. Promoted(c, s, c[p], CacheMax) = n
      BY <2>6 DEF Promoted
    <2> QED BY <1>1, <2>1, <2>4, <2>7
  <1>5. ASSUME Places(c, s) = {}, NEW e PROVE Evicted(Append(c, e)) = Promoted(c, s, e, CacheMax)
    BY <1>5 DEF Evicted, Promoted, Others
  <1> QED BY <1>2, <1>4, <1>5

CachesInv ==
    /\ on \in [Scopes -> SUBSET Categories]
    /\ cache \in [Scopes -> Seq(Result)] /\ uses \in [Scopes -> Seq(Strings)]
    /\ DOMAIN answer = Scopes
    /\ \A sc \in Scopes : Cached(cache[sc], uses[sc], on[sc])

LEMMA CachesInit ==
  SanitizeInit => CachesInv
  <1> SUFFICES ASSUME SanitizeInit PROVE CachesInv
    OBVIOUS
  <1>1. /\ on = [sc \in Scopes |-> {}] /\ cache = [sc \in Scopes |-> << >>]
        /\ uses = [sc \in Scopes |-> << >>] /\ answer = [sc \in Scopes |-> << >>]
    BY DEF SanitizeInit, Empty
  <1>2. \A cs : Cached(<< >>, << >>, cs)
    BY NothingCached, SanitizeAssumption
  <1>3. \A sc \in Scopes : Cached(cache[sc], uses[sc], on[sc])
    BY <1>1, <1>2
  <1> QED BY <1>1, <1>3 DEF CachesInv

\* What a call of cleanKey or cleanNamespace leaves, and what it answers.
LEMMA CleanedOnce ==
    ASSUME CachesInv, NEW sc \in Scopes, NEW s \in Strings,
           Clean(sc, s)
    PROVE  CachesInv' /\ answer'[sc] = <<s, Strip[on[sc]][s]>>
  <1> DEFINE c  == cache[sc]
             u  == uses[sc]
             cs == on[sc]
             fresh == Strip[cs][s]
  <1>1. /\ cs \in SUBSET Categories /\ Cached(c, u, cs) /\ on' = on
        /\ cache \in [Scopes -> Seq(Result)] /\ uses \in [Scopes -> Seq(Strings)]
        /\ DOMAIN answer = Scopes /\ fresh \in Strings /\ CacheMax \in Nat \ {0}
    <2>1. cs \in SUBSET Categories /\ Cached(c, u, cs) /\ DOMAIN answer = Scopes
      BY DEF CachesInv
    <2>2. cache \in [Scopes -> Seq(Result)] /\ uses \in [Scopes -> Seq(Strings)]
      BY DEF CachesInv
    <2>3. on' = on
      BY DEF Clean
    <2>4. fresh \in Strings /\ CacheMax \in Nat \ {0}
      BY <2>1, SanitizeAssumption
    <2> QED BY <2>1, <2>2, <2>3, <2>4
  <1>2. CASE cs = {} /\ UNCHANGED <<cache, uses>> /\ answer' = [answer EXCEPT ![sc] = <<s, s>>]
    <2>1. Strip[cs][s] = s
      BY <1>2, SanitizeAssumption
    <2> QED BY <1>1, <1>2, <2>1 DEF CachesInv
  <1>3. ASSUME NEW e \in Result, e.key = s, e.value = fresh,
               cache' = [cache EXCEPT ![sc] = Promoted(c, s, e, CacheMax)],
               uses' = [uses EXCEPT ![sc] = Append(u, s)],
               answer' = [answer EXCEPT ![sc] = <<s, fresh>>]
        PROVE  CachesInv' /\ answer'[sc] = <<s, fresh>>
    <2> DEFINE t == Promoted(c, s, e, CacheMax)
               w == Append(u, s)
    <2>1. Cached(t, w, cs)
      <3> HIDE DEF c, u, cs
      <3> QED BY <1>1, <1>3, RenewedCached DEF fresh
    <2>2. t \in Seq(Result) /\ w \in Seq(Strings)
      BY <2>1 DEF Cached
    <2> HIDE DEF t, w
    <2>3. cache' = [cache EXCEPT ![sc] = t] /\ uses' = [uses EXCEPT ![sc] = w]
      BY <1>3 DEF t, w
    <2>4. cache' \in [Scopes -> Seq(Result)] /\ uses' \in [Scopes -> Seq(Strings)]
      BY <1>1, <2>2, <2>3
    <2>5. DOMAIN answer' = Scopes /\ answer'[sc] = <<s, fresh>>
      BY <1>1, <1>3
    <2>6. ASSUME NEW d \in Scopes PROVE Cached(cache'[d], uses'[d], on'[d])
      <3>1. CASE d = sc
        BY <1>1, <2>1, <2>3, <3>1
      <3>2. CASE d # sc
        BY <1>1, <2>3, <3>2 DEF CachesInv
      <3> QED BY <3>1, <3>2
    <2> QED BY <1>1, <2>4, <2>5, <2>6 DEF CachesInv
  <1>4. CASE /\ uses' = [uses EXCEPT ![sc] = Append(u, s)]
             /\ \E p \in At(c, s) :
                   /\ cache' = [cache EXCEPT ![sc] = Renewed(c, p)]
                   /\ answer' = [answer EXCEPT ![sc] = <<s, c[p].value>>]
    <2>1. PICK p \in At(c, s) :
             /\ cache' = [cache EXCEPT ![sc] = Renewed(c, p)]
             /\ answer' = [answer EXCEPT ![sc] = <<s, c[p].value>>]
      BY <1>4
    <2>2. /\ Renewed(c, p) = Promoted(c, s, c[p], CacheMax)
          /\ c[p] \in Result /\ c[p].key = s /\ c[p].value = fresh
      <3> HIDE DEF c, u, cs
      <3> QED BY <1>1, CacheRenewed DEF fresh
    <2> HIDE DEF c, u, cs, fresh
    <2>3. CachesInv' /\ answer'[sc] = <<s, fresh>>
      BY <1>3, <1>4, <2>1, <2>2
    <2> QED BY <2>3 DEF fresh, cs
  <1>5. CASE /\ uses' = [uses EXCEPT ![sc] = Append(u, s)] /\ At(c, s) = {}
             /\ cache' = [cache EXCEPT ![sc] = Evicted(Append(c, [key |-> s, value |-> fresh]))]
             /\ answer' = [answer EXCEPT ![sc] = <<s, fresh>>]
    <2> DEFINE e == [key |-> s, value |-> fresh]
    <2>1. e \in Result /\ e.key = s /\ e.value = fresh
      BY <1>1 DEF Result
    <2> HIDE DEF c, u, cs, fresh, e
    <2>2. Evicted(Append(c, e)) = Promoted(c, s, e, CacheMax)
      BY <1>1, <1>5, CacheRenewed
    <2>3. CachesInv' /\ answer'[sc] = <<s, fresh>>
      BY <1>3, <1>5, <2>1, <2>2 DEF e
    <2> QED BY <2>3 DEF fresh, cs
  <1>6. \/ cs = {} /\ UNCHANGED <<cache, uses>> /\ answer' = [answer EXCEPT ![sc] = <<s, s>>]
        \/ /\ uses' = [uses EXCEPT ![sc] = Append(u, s)]
           /\ \/ \E p \in At(c, s) :
                    /\ cache' = [cache EXCEPT ![sc] = Renewed(c, p)]
                    /\ answer' = [answer EXCEPT ![sc] = <<s, c[p].value>>]
              \/ /\ At(c, s) = {}
                 /\ cache' = [cache EXCEPT ![sc] = Evicted(Append(c, [key |-> s, value |-> fresh]))]
                 /\ answer' = [answer EXCEPT ![sc] = <<s, fresh>>]
    BY DEF Clean
  <1> QED BY <1>2, <1>4, <1>5, <1>6

LEMMA CachesStep ==
  CachesInv /\ [SanitizeNext]_sanitizeVars => CachesInv'
  <1> SUFFICES ASSUME CachesInv, [SanitizeNext]_sanitizeVars PROVE CachesInv'
    OBVIOUS
  <1>1. ASSUME NEW sc \in Scopes, NEW s \in Strings, Clean(sc, s) PROVE CachesInv'
    BY <1>1, CleanedOnce
  <1>2. ASSUME cache' = Empty, uses' = Empty, UNCHANGED answer,
               on' \in [Scopes -> SUBSET Categories]
        PROVE  CachesInv'
    <2>1. cache' = [sc \in Scopes |-> << >>] /\ uses' = [sc \in Scopes |-> << >>]
      BY <1>2 DEF Empty
    <2>2. \A cs : Cached(<< >>, << >>, cs)
      BY NothingCached, SanitizeAssumption
    <2>3. \A sc \in Scopes : Cached(cache'[sc], uses'[sc], on'[sc])
      BY <2>1, <2>2
    <2> QED BY <1>2, <2>1, <2>3 DEF CachesInv
  <1>3. ASSUME NEW k \in SUBSET Categories, NEW n \in SUBSET Categories, UpdateOptions(k, n)
        PROVE  CachesInv'
    BY <1>2, <1>3 DEF UpdateOptions, CachesInv
  <1>4. CASE ClearCache
    BY <1>2, <1>4 DEF ClearCache, CachesInv
  <1>5. CASE UNCHANGED sanitizeVars
    BY <1>5 DEF sanitizeVars, CachesInv
  <1> QED BY <1>1, <1>3, <1>4, <1>5 DEF SanitizeNext

\* cleanKey and cleanNamespace answer what the patterns of this moment make of
\* the string, whatever was cleaned and however the options changed before.
THEOREM AnswersStayCurrent ==
  SanitizeSpec => AnswersCurrent
  <1>1. CachesInv /\ [SanitizeNext]_sanitizeVars =>
           [\A sc \in Scopes, s \in Strings :
               Clean(sc, s) => answer'[sc] = <<s, Strip[on[sc]][s]>>]_sanitizeVars
    BY CleanedOnce
  <1> QED BY <1>1, CachesInit, CachesStep, PTL DEF SanitizeSpec, AnswersCurrent

\* A cache holds the CacheMax most recently cleaned strings, in the order of
\* their last uses, each once.
THEOREM CachesStayRecent ==
  SanitizeSpec => []CacheKeepsRecent
  <1>1. CachesInv => CacheKeepsRecent
    <2> SUFFICES ASSUME CachesInv, NEW sc \in Scopes
                 PROVE  LET u == uses[sc]
                            c == cache[sc]
                            used == ToSet(u)
                            older(s) == {r \in used : LastUse(u, r) < LastUse(u, s)}
                            newer(s) == {r \in used : LastUse(u, r) > LastUse(u, s)}
                            kept == {s \in used : Cardinality(newer(s)) < CacheMax}
                        IN  /\ {entry.key : entry \in ToSet(c)} = kept
                            /\ Len(c) = Cardinality(kept)
                            /\ \A m, n \in 1..Len(c) : m < n => c[m].key \in older(c[n].key)
      BY DEF CacheKeepsRecent
    <2> DEFINE u == uses[sc]
               c == cache[sc]
               U == Used(u)
               A == Lasts(u, U)
               newer(s) == {r \in U : A[r] > A[s]}
               kept == {s \in U : Cardinality(newer(s)) < CacheMax}
    <2>1. /\ c \in Seq(Result) /\ u \in Seq(Strings) /\ IsFiniteSet(U) /\ Recent(c, U, A, CacheMax)
          /\ DOMAIN c = 1..Len(c) /\ Len(c) \in Nat
      BY DEF CachesInv, Cached
    <2>2. CacheMax \in Nat \ {0}
      BY SanitizeAssumption
    <2>3. ToSet(u) = U
      BY DEF ToSet, Used
    <2>4. \A s \in U : A[s] = FinalUse(u, s) /\ FinalUse(u, s) \in 1..Len(u)
      BY <2>1, LastIs DEF Lasts
    <2>5. Len(u) \in Nat
      BY <2>1
    <2>6. A \in [U -> Nat]
      BY <2>4, <2>5 DEF Lasts
    <2>7. ASSUME NEW s \in U PROVE LastUse(u, s) = A[s]
      <3> DEFINE n == Len(u)
                 P(i) == u[i] = s /\ \A m \in i + 1..n : u[m] # s
                 a == A[s]
      <3>1. LastUse(u, s) = CHOOSE i \in 1..n : P(i)
        BY DEF LastUse
      <3>2. n \in Nat /\ a \in 1..n /\ u[a] = s
        BY <2>1, <2>4, <2>5, LastIs
      <3>3. \A j \in 1..n : u[j] = s => j <= a
        <4> DEFINE J == {j \in 1..n : u[j] = s}
        <4>1. J \subseteq 0..n /\ J # {}
          BY <3>2
        <4>2. PICK j \in J : \A m \in J : m <= j
          <5> HIDE DEF n, J
          <5> QED BY <3>2, <4>1, GreatestElement
        <4>3. FinalUse(u, s) = j
          BY <2>1, <4>2, LastOnly
        <4> QED BY <2>4, <4>2, <4>3
      <3> HIDE DEF n, a
      <3>4. P(a)
        <4>1. ASSUME NEW m \in a + 1..n PROVE u[m] # s
          <5>1. m \in 1..n /\ ~(m <= a)
            BY <3>2, <4>1
          <5> QED BY <3>3, <5>1
        <4> QED BY <3>2, <4>1
      <3>5. ASSUME NEW i \in 1..n, P(i) PROVE i = a
        <4>1. i <= a /\ ~(a \in i + 1..n)
          BY <3>2, <3>3, <3>5
        <4> QED BY <3>2, <4>1
      <3> HIDE DEF P
      <3> QED BY <3>1, <3>2, <3>4, <3>5 DEF a
    <2> HIDE DEF u, c, U, A
    <2>8. KeysOf(c) = MostRecent(U, A, CacheMax)
      BY <2>1, <2>2, <2>6, RecentKept
    <2>9. {entry.key : entry \in ToSet(c)} = KeysOf(c)
      BY <2>1 DEF ToSet, KeysOf
    <2>10. MostRecent(U, A, CacheMax) = kept
      BY DEF MostRecent
    <2>11. \A i, j \in 1..Len(c) : i < j => A[c[i].key] < A[c[j].key]
      BY <2>1 DEF Recent
    <2>12. \A i \in 1..Len(c) : c[i].key \in U /\ A[c[i].key] \in Nat
      BY <2>1, <2>6 DEF Recent
    <2>13. Cardinality(KeysOf(c)) = Len(c)
      <3> DEFINE n == Len(c)
      <3>1. \A i, j \in 1..n : i < j => c[i].key # c[j].key
        BY <2>11, <2>12
      <3> QED BY <2>1, <3>1, KeysCounted
    <2>14. {s \in U : Cardinality({r \in U : LastUse(u, r) > LastUse(u, s)}) < CacheMax} = kept
      <3>1. \A s \in U : {r \in U : LastUse(u, r) > LastUse(u, s)} = newer(s)
        BY <2>7
      <3> QED BY <3>1
    <2>15. \A m, n \in 1..Len(c) :
              m < n => c[m].key \in {r \in U : LastUse(u, r) < LastUse(u, c[n].key)}
      BY <2>7, <2>11, <2>12
    <2> HIDE DEF kept
    <2> QED BY <2>3, <2>8, <2>9, <2>10, <2>13, <2>14, <2>15 DEF u, c
  <1> QED BY <1>1, CachesInit, CachesStep, PTL DEF SanitizeSpec

---------------------------------------------------------------------------
(* The settings of an instance *)

ConfigTypeOK ==
    /\ store \in [Instances -> Adapters \cup {Unbuilt}]
    /\ namespace \in [Instances -> Namespaces] /\ sanitize \in [Instances -> Sanitizers]
    /\ stages \in [Instances -> SUBSET Stages]
    /\ fastPath \in [Instances -> BOOLEAN]
    /\ held \in [Adapters -> Namespaces] /\ cleaning \subseteq Sanitizers

LEMMA CleanedType ==
    ASSUME NEW ns \in Namespaces, NEW z
    PROVE  Cleaned(ns, z) \in Namespaces
  BY ConfigAssumption DEF Cleaned

LEMMA ConfigInitType == ConfigInit => ConfigTypeOK
  BY DEF ConfigInit, ConfigTypeOK

LEMMA BuildType ==
    ASSUME ConfigTypeOK, NEW i \in Instances, NEW a \in Adapters, NEW ns \in Namespaces, NEW z \in Sanitizers,
           NEW ser, NEW others \in SUBSET {"compression", "encryption"}, Build(i, a, ns, z, ser, others)
    PROVE  ConfigTypeOK'
  <1>1. Cleaned(ns, z) \in Namespaces
    BY CleanedType
  <1>2. others \cup (IF Serializes(a, ser) THEN {"serialization"} ELSE {}) \in SUBSET Stages
    BY DEF Stages
  <1>3. \A st : Trivial(a, st, z) \in BOOLEAN
    BY DEF Trivial
  <1> QED BY <1>1, <1>2, <1>3 DEF Build, ConfigTypeOK

LEMMA ConfigStepType == ASSUME ConfigTypeOK, [ConfigNext]_configVars PROVE ConfigTypeOK'
  <1>1. \A a, st, z : Trivial(a, st, z) \in BOOLEAN
    BY DEF Trivial
  <1>2. ASSUME NEW i \in Instances, NEW a \in Adapters, SetStore(i, a) PROVE ConfigTypeOK'
    BY <1>1, <1>2 DEF SetStore, ConfigTypeOK
  <1>3. ASSUME NEW i \in Instances, NEW ns \in Namespaces, SetNamespace(i, ns) PROVE ConfigTypeOK'
    <2>1. Cleaned(ns, sanitize[i]) \in Namespaces
      BY CleanedType
    <2> QED BY <1>3, <2>1 DEF SetNamespace, ConfigTypeOK
  <1>4. ASSUME NEW i \in Instances, NEW p \in Stages, NEW b \in BOOLEAN, SetStage(i, p, b) PROVE ConfigTypeOK'
    BY <1>1, <1>4 DEF SetStage, ConfigTypeOK
  <1>5. ASSUME NEW i \in Instances, NEW z \in Sanitizers, SetSanitize(i, z) PROVE ConfigTypeOK'
    <2>1. Cleaned(namespace[i], z) \in Namespaces
      BY CleanedType DEF ConfigTypeOK
    <2> QED BY <1>1, <1>5, <2>1 DEF SetSanitize, ConfigTypeOK
  <1>6. ASSUME NEW z \in Sanitizers, NEW b \in BOOLEAN, SanitizerUpdateOptions(z, b) PROVE ConfigTypeOK'
    BY <1>6 DEF SanitizerUpdateOptions, ConfigTypeOK
  <1>7. CASE UNCHANGED configVars
    BY <1>7 DEF configVars, ConfigTypeOK
  <1> QED BY BuildType, <1>2, <1>3, <1>4, <1>5, <1>6, <1>7 DEF ConfigNext

---------------------------------------------------------------------------
(* Namespaces *)

\* No two instances have the same adapter object.
OwnStore == \A i, j \in Instances : (i # j /\ Built(i)) => store[i] # store[j]

SyncInv == ConfigTypeOK /\ OwnStore /\ NamespaceSynced

\* A step that gives instance i the adapter a, and a its namespace, keeps the others.
LEMMA GivenStore ==
    ASSUME ~Shared, SyncInv, NEW i \in Instances, NEW a \in Adapters, NEW ns,
           Usable(i, a), store' = [store EXCEPT ![i] = a],
           namespace' = [namespace EXCEPT ![i] = ns], held' = [held EXCEPT ![a] = ns]
    PROVE  OwnStore' /\ NamespaceSynced'
  <1>1. \A j \in Instances \ {i} : store[j] # a
    BY DEF Usable
  <1>2. store'[i] = a /\ namespace'[i] = ns /\ held'[a] = ns
    BY DEF SyncInv, ConfigTypeOK
  <1>3. \A j \in Instances \ {i} : store'[j] = store[j] /\ namespace'[j] = namespace[j]
    BY DEF SyncInv, ConfigTypeOK
  <1>4. OwnStore'
    BY <1>1, <1>2, <1>3 DEF SyncInv, OwnStore, Built
  <1>5. \A j \in Instances \ {i} : Built(j) => held'[store[j]] = held[store[j]]
    BY <1>1 DEF SyncInv, ConfigTypeOK, Built
  <1>6. NamespaceSynced'
    BY <1>2, <1>3, <1>5 DEF SyncInv, NamespaceSynced, Built
  <1> QED BY <1>4, <1>6

LEMMA SyncStep == ASSUME ~Shared, ~Sanitizing, SyncInv, [ConfigNext]_configVars PROVE SyncInv'
  <1>1. ConfigTypeOK'
    BY ConfigStepType DEF SyncInv
  <1>2. ASSUME NEW i \in Instances, NEW a \in Adapters, NEW ns \in Namespaces, NEW z \in Sanitizers,
               NEW ser, NEW others, Build(i, a, ns, z, ser, others)
        PROVE  OwnStore' /\ NamespaceSynced'
    BY <1>2, GivenStore DEF Build
  <1>3. ASSUME NEW i \in Instances, NEW a \in Adapters, SetStore(i, a) PROVE OwnStore' /\ NamespaceSynced'
    <2>1. namespace' = [namespace EXCEPT ![i] = namespace[i]]
      BY <1>3 DEF SetStore, SyncInv, ConfigTypeOK
    <2> QED BY <1>3, <2>1, GivenStore DEF SetStore
  <1>4. ASSUME NEW i \in Instances, NEW ns \in Namespaces, SetNamespace(i, ns)
        PROVE  OwnStore' /\ NamespaceSynced'
    <2>1. store[i] \in Adapters /\ store' = [store EXCEPT ![i] = store[i]]
      BY <1>4 DEF SetNamespace, Built, SyncInv, ConfigTypeOK
    <2>2. Usable(i, store[i])
      BY <1>4 DEF Usable, SyncInv, OwnStore, SetNamespace
    <2> QED BY <1>4, <2>1, <2>2, GivenStore DEF SetNamespace
  <1>5. ASSUME NEW i \in Instances, NEW z \in Sanitizers, SetSanitize(i, z)
        PROVE  OwnStore' /\ NamespaceSynced'
    <2>1. UNCHANGED <<store, held, namespace>>
      BY <1>5 DEF SetSanitize, SyncInv, ConfigTypeOK
    <2> QED BY <2>1 DEF SyncInv, OwnStore, NamespaceSynced, Built
  <1>6. ASSUME UNCHANGED <<store, held, namespace>> PROVE OwnStore' /\ NamespaceSynced'
    BY <1>6 DEF SyncInv, OwnStore, NamespaceSynced, Built
  <1>7. ASSUME NEW i \in Instances, NEW p, NEW b, SetStage(i, p, b) PROVE OwnStore' /\ NamespaceSynced'
    BY <1>6, <1>7 DEF SetStage
  <1>8. ASSUME NEW z, NEW b, SanitizerUpdateOptions(z, b) PROVE OwnStore' /\ NamespaceSynced'
    BY <1>6, <1>8 DEF SanitizerUpdateOptions
  <1>9. ASSUME UNCHANGED configVars PROVE OwnStore' /\ NamespaceSynced'
    BY <1>6, <1>9 DEF configVars
  <1>10. OwnStore' /\ NamespaceSynced'
    BY <1>2, <1>3, <1>4, <1>5, <1>7, <1>8, <1>9 DEF ConfigNext
  <1> QED BY <1>1, <1>10 DEF SyncInv

\* Unless instances share an adapter object or the sanitize setter changes a
\* namespace, the adapter of each instance works in the namespace the instance
\* reports, after any sequence of constructors and setters.
THEOREM NamespacesStaySynced == ASSUME ~Shared, ~Sanitizing PROVE ConfigSpec => []NamespaceSynced
  <1>1. ConfigInit => SyncInv
    BY ConfigInitType DEF ConfigInit, SyncInv, OwnStore, NamespaceSynced, Built
  <1>2. SyncInv /\ [ConfigNext]_configVars => SyncInv'
    BY SyncStep
  <1>3. SyncInv => NamespaceSynced
    BY DEF SyncInv
  <1> QED BY <1>1, <1>2, <1>3, PTL DEF ConfigSpec

---------------------------------------------------------------------------
(* The fast path *)

FastInv == ConfigTypeOK /\ FastPathCurrent

\* A step that decides the fast path of instance i from the settings it leaves, and
\* changes no other instance and no sanitizer.
LEMMA Recomputed ==
    ASSUME FastInv, NEW i \in Instances, NEW b, fastPath' = [fastPath EXCEPT ![i] = b],
           b = Trivial(store[i], stages[i], sanitize[i])', UNCHANGED cleaning,
           \A j \in Instances \ {i} : UNCHANGED <<store[j], stages[j], sanitize[j]>>
    PROVE  FastPathCurrent'
  <1>1. fastPath'[i] = b /\ \A j \in Instances \ {i} : fastPath'[j] = fastPath[j]
    BY DEF FastInv, ConfigTypeOK
  <1>2. ASSUME NEW j \in Instances \ {i}, Built(j)'
        PROVE  fastPath'[j] = Trivial(store[j], stages[j], sanitize[j])'
    BY <1>1, <1>2 DEF FastInv, FastPathCurrent, Built, Trivial
  <1> QED BY <1>1, <1>2 DEF FastPathCurrent

LEMMA FastStep == ASSUME ~Updating, FastInv, [ConfigNext]_configVars PROVE FastInv'
  <1>1. ConfigTypeOK'
    BY ConfigStepType DEF FastInv
  <1>2. ASSUME NEW i \in Instances, NEW a \in Adapters, NEW ns \in Namespaces, NEW z \in Sanitizers,
               NEW ser, NEW others, Build(i, a, ns, z, ser, others)
        PROVE  FastPathCurrent'
    <2> DEFINE st == others \cup IF Serializes(a, ser) THEN {"serialization"} ELSE {}
    <2>1. /\ store' = [store EXCEPT ![i] = a] /\ stages' = [stages EXCEPT ![i] = st]
          /\ sanitize' = [sanitize EXCEPT ![i] = z] /\ UNCHANGED cleaning
          /\ fastPath' = [fastPath EXCEPT ![i] = Trivial(a, st, z)]
      BY <1>2 DEF Build
    <2> HIDE DEF st
    <2>2. Trivial(a, st, z) = Trivial(store[i], stages[i], sanitize[i])'
      BY <2>1 DEF Trivial, FastInv, ConfigTypeOK
    <2>3. \A j \in Instances \ {i} : UNCHANGED <<store[j], stages[j], sanitize[j]>>
      BY <2>1 DEF FastInv, ConfigTypeOK
    <2> QED BY <2>1, <2>2, <2>3, Recomputed
  <1>3. ASSUME NEW i \in Instances, NEW a \in Adapters, SetStore(i, a) PROVE FastPathCurrent'
    <2>1. Trivial(a, stages[i], sanitize[i]) = Trivial(store[i], stages[i], sanitize[i])'
      BY <1>3 DEF SetStore, Trivial, FastInv, ConfigTypeOK
    <2>2. \A j \in Instances \ {i} : UNCHANGED <<store[j], stages[j], sanitize[j]>>
      BY <1>3 DEF SetStore, FastInv, ConfigTypeOK
    <2> QED BY <1>3, <2>1, <2>2, Recomputed DEF SetStore
  <1>4. ASSUME NEW i \in Instances, NEW p \in Stages, NEW b \in BOOLEAN, SetStage(i, p, b)
        PROVE  FastPathCurrent'
    <2> DEFINE st == IF b THEN stages[i] \cup {p} ELSE stages[i] \ {p}
    <2>1. /\ stages' = [stages EXCEPT ![i] = st] /\ UNCHANGED <<store, sanitize, cleaning>>
          /\ fastPath' = [fastPath EXCEPT ![i] = Trivial(store[i], st, sanitize[i])]
      BY <1>4 DEF SetStage
    <2> HIDE DEF st
    <2>2. Trivial(store[i], st, sanitize[i]) = Trivial(store[i], stages[i], sanitize[i])'
      BY <2>1 DEF Trivial, FastInv, ConfigTypeOK
    <2>3. \A j \in Instances \ {i} : UNCHANGED <<store[j], stages[j], sanitize[j]>>
      BY <2>1 DEF FastInv, ConfigTypeOK
    <2> QED BY <2>1, <2>2, <2>3, Recomputed
  <1>5. ASSUME NEW i \in Instances, NEW z \in Sanitizers, SetSanitize(i, z) PROVE FastPathCurrent'
    <2>1. Trivial(store[i], stages[i], z) = Trivial(store[i], stages[i], sanitize[i])'
      BY <1>5 DEF SetSanitize, Trivial, FastInv, ConfigTypeOK
    <2>2. \A j \in Instances \ {i} : UNCHANGED <<store[j], stages[j], sanitize[j]>>
      BY <1>5 DEF SetSanitize, FastInv, ConfigTypeOK
    <2> QED BY <1>5, <2>1, <2>2, Recomputed DEF SetSanitize
  <1>6. ASSUME NEW z \in Sanitizers, NEW b \in BOOLEAN, SanitizerUpdateOptions(z, b) PROVE FastPathCurrent'
    <2>1. \A i \in Instances : Built(i) => (sanitize[i] \in cleaning' <=> sanitize[i] \in cleaning)
      BY <1>6 DEF SanitizerUpdateOptions
    <2>2. UNCHANGED <<store, sanitize, stages, fastPath>>
      BY <1>6 DEF SanitizerUpdateOptions
    <2> QED BY <2>1, <2>2 DEF FastInv, FastPathCurrent, Built, Trivial
  <1>7. ASSUME UNCHANGED <<store, sanitize, stages, fastPath, cleaning>> PROVE FastPathCurrent'
    BY <1>7 DEF FastInv, FastPathCurrent, Built, Trivial
  <1>8. ASSUME NEW i, NEW ns, SetNamespace(i, ns) PROVE FastPathCurrent'
    BY <1>7, <1>8 DEF SetNamespace
  <1>9. ASSUME UNCHANGED configVars PROVE FastPathCurrent'
    BY <1>7, <1>9 DEF configVars
  <1>10. FastPathCurrent'
    BY <1>2, <1>3, <1>4, <1>5, <1>6, <1>8, <1>9 DEF ConfigNext
  <1> QED BY <1>1, <1>10 DEF FastInv

\* Unless updateOptions is called b a sanitizer in use, the cached _fastPath of
\* every instance is what recomputeFastPath would make of its settings now.
THEOREM FastPathStaysCurrent == ASSUME ~Updating PROVE ConfigSpec => []FastPathCurrent
  <1>1. ConfigInit => FastInv
    BY ConfigInitType DEF ConfigInit, FastInv, FastPathCurrent, Built
  <1>2. FastInv /\ [ConfigNext]_configVars => FastInv'
    BY FastStep
  <1>3. FastInv => FastPathCurrent
    BY DEF FastInv
  <1> QED BY <1>1, <1>2, <1>3, PTL DEF ConfigSpec
=============================================================================
