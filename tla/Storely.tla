------------------------------ MODULE Storely ------------------------------
(***************************************************************************)
(* The Storely facade (core/storely/src/storely.ts) over one storage       *)
(* adapter.  JavaScript runs one task at a time and switches tasks only at *)
(* an await, so an action is the code between two awaits that another task *)
(* can be scheduled at: the BEFORE hook, the encode, the adapter call, the *)
(* decode, the sweep of expired keys and the AFTER hook.                   *)
(*                                                                         *)
(* The adapter is modelled by what the facade relies on: each of its calls *)
(* takes effect at one moment between call and answer, it hides and may    *)
(* drop an entry whose own TTL ran out, and it may reject, after applying  *)
(* any part of a batch.                                                    *)
(***************************************************************************)
EXTENDS Integers, FiniteSets, Sequences

CONSTANTS
    Keys,           \* cleaned and uncleaned key strings
    EmptyKey,       \* the key ""
    CleanKey,       \* what _sanitize.cleanKey does to a key (identity when disabled)
    Values,         \* values a caller may store
    Undefined,      \* the value `undefined`
    Symbols,        \* values with typeof "symbol"
    Unserializable, \* values the serializer throws on
    None,           \* no entry, no TTL, no expiry
    Ttls,           \* TTL arguments (may be zero or negative)
    Expiries,       \* `expires` fields a caller puts in a raw envelope
    DefaultTtl,     \* this._ttl
    Tasks,          \* concurrent callers
    Ops,            \* the operations the callers use
    CheckExpired, ThrowOnErrors, Serialization,
    FastPath,       \* _fastPath, and no hook or stat listener is registered
    Faults,         \* the adapter may reject, refuse or return corrupt rows
    MaxTime, MaxBatch, MaxCalls    \* bounds of the model

SingleOps == {"get", "getRaw", "set", "setRaw", "delete", "has"}
GetOps    == {"get", "getMany", "getRaw", "getManyRaw"}
HasOps    == {"has", "hasMany"}
SetOps    == {"set", "setMany"}
RawOps    == {"setRaw", "setManyRaw"}
DeleteOps == {"delete", "deleteMany"}
FastOps   == {"get", "set", "delete", "has"}
OtherOps  == {"clear", "disconnect", "iterator"}
AllOps    == GetOps \cup HasOps \cup SetOps \cup RawOps \cup DeleteOps \cup OtherOps

ASSUME ConfigAssumption ==
    /\ Ops \subseteq AllOps
    /\ {CheckExpired, ThrowOnErrors, Serialization, FastPath, Faults} \subseteq BOOLEAN
    /\ FastPath => ~CheckExpired /\ ~Serialization /\ (\A k \in Keys : CleanKey[k] = k)

ASSUME DataAssumption ==
    /\ EmptyKey \in Keys /\ CleanKey \in [Keys -> Keys] /\ CleanKey[EmptyKey] = EmptyKey
    /\ Undefined \in Values /\ Symbols \subseteq Values /\ Unserializable \subseteq Values
    /\ Ttls \subseteq Int /\ Expiries \subseteq Nat /\ DefaultTtl \in Int \cup {None}
    /\ None \notin Values /\ None \notin Int
    /\ {MaxTime, MaxBatch, MaxCalls} \subseteq Nat

\* "No entry" is told apart from every entry an adapter can keep.
ASSUME NoneAssumption ==
    None \notin [val : Values, env : Nat \cup {None}, exp : Nat \cup {None}]

VARIABLES
    now,      \* Date.now()
    store,    \* the adapter's entries
    calls,    \* how many calls were made
    pc,       \* where each task's call stands
    call,     \* its operation and its (cleaned) arguments
    enc,      \* the encoded entries of a write, None where encoding failed
    rows,     \* the rows a read got and then decoded
    doomed,   \* the positions of the rows found expired
    oks,      \* the booleans the call will return
    todo,     \* the keys an iterator has not visited
    tele,     \* telemetry and error events the call emitted
    failed,   \* history: an adapter call of this call rejected
    racy      \* history: keys written since this task's last read of the adapter

vars == <<now, store, calls, pc, call, enc, rows, doomed, oks, todo, tele, failed, racy>>

---------------------------------------------------------------------------
(* utils.ts *)

\* isDataExpired, and the same test in the adapters
Expired(exp, n) == exp # None /\ n > exp

ResolveTtl(ttl) ==
    LET resolved == IF ttl = None THEN DefaultTtl ELSE ttl
    IN  IF resolved = None THEN None ELSE IF resolved <= 0 THEN None ELSE resolved

CalculateExpires(ttl, n) == IF ttl = None THEN None ELSE n + ttl

\* Mutants of TtlFromExpires: an expiry that is due now gives a TTL of zero;
\* the TTL is one short.
TtlFromExpiresZero(exp, n) ==
    IF exp = None THEN None ELSE IF exp - n >= 0 THEN exp - n ELSE None
TtlFromExpiresShort(exp, n) ==
    IF exp = None THEN None ELSE IF exp - n > 1 THEN exp - n - 1 ELSE None

TtlFromExpires(exp, n) ==
    IF exp = None THEN None ELSE IF exp - n > 0 THEN exp - n ELSE None

---------------------------------------------------------------------------
(* The adapter, as the facade sees it *)

Visible(k) == store[k] # None /\ ~Expired(store[k].exp, now)
Fetch(k)   == IF Visible(k) THEN store[k] ELSE None

\* What the adapter keeps for an encoded entry written at time n: it stamps
\* its own expiry from the TTL it is given, beside the envelope's.
Stamp(e, n) == [val |-> e.val, env |-> e.env, exp |-> CalculateExpires(e.ttl, n)]

\* The store after the entries es[j], j \in W, are written in order.
Written(es, W) ==
    [k \in Keys |->
        LET Last == {j \in W : es[j].key = k /\ \A m \in W : es[m].key = k => m <= j}
        IN  IF Last = {} THEN store[k] ELSE Stamp(es[CHOOSE j \in Last : TRUE], now)]

Without(K) == [k \in Keys |-> IF k \in K THEN None ELSE store[k]]

---------------------------------------------------------------------------
(* Calls and their bookkeeping *)

KeyArg    == [key : Keys, val : {None}, lim : {None}]
WriteArg  == [key : Keys, val : Values, lim : Ttls \cup {None}]
RawArg    == [key : Keys, val : Values, lim : Expiries \cup {None}]
ArgOf(op) == IF op \in SetOps THEN WriteArg ELSE IF op \in RawOps THEN RawArg ELSE KeyArg
Lengths(op) == IF op \in SingleOps THEN {1} ELSE IF op \in OtherOps THEN {0} ELSE 0..MaxBatch
Inputs(op)  == UNION {[1..n -> ArgOf(op)] : n \in Lengths(op)}

Args(t)  == call[t].args
Op(t)    == call[t].op
Index(t) == 1..Len(Args(t))
KeyAt(t, i) == Args(t)[i].key
KeysOf(t)   == {KeyAt(t, i) : i \in Index(t)}

Finished == {"idle", "resolved", "rejected"}
Busy     == {"before", "encode", "decode", "sweep", "iter", "after"}
Idle(t)  == pc[t] \in Finished /\ calls < MaxCalls

NoTele == [hit |-> 0, miss |-> 0, set |-> 0, delete |-> 0, error |-> 0, raised |-> FALSE]
All(t, b) == [i \in Index(t) |-> b]

\* emitTelemetry(event, keys): one event per key
Count(t, f, n) == tele' = [tele EXCEPT ![t][f] = @ + n]
Goto(t, p)     == pc' = [pc EXCEPT ![t] = p]

\* Mutants of EmitError: no error event; the throwing emit is swallowed.
EmitErrorSilent(t, n, p) ==
    /\ Count(t, "error", n)
    /\ Goto(t, IF ThrowOnErrors THEN "rejected" ELSE p)
EmitErrorSwallowed(t, n, p) ==
    /\ tele' = [tele EXCEPT ![t].raised = TRUE, ![t].error = @ + n]
    /\ Goto(t, p)

\* emit("error", e) in a catch block that then counts n STAT_ERRORs and goes on
\* at p; with throwOnErrors the emit itself throws and the call rejects.
EmitError(t, n, p) ==
    /\ tele' = [tele EXCEPT ![t].raised = TRUE,
                            ![t].error = IF ThrowOnErrors THEN @ ELSE @ + n]
    /\ Goto(t, IF ThrowOnErrors THEN "rejected" ELSE p)

Fault(t) == Faults /\ failed' = [failed EXCEPT ![t] = TRUE]

\* Every write of the keys K makes them racy for all tasks with a read in flight.
NoteWrites(K) == racy' = [u \in Tasks |-> racy[u] \cup K]

Set(f, t, x) == [f EXCEPT ![t] = x]

---------------------------------------------------------------------------
(* What the facade hands to the adapter for one entry *)

\* set, setMany: the TTL is resolved and the envelope stamped from it.
SetEntry(a) ==
    LET ttl == ResolveTtl(a.lim)
    IN  [key |-> a.key, val |-> a.val, env |-> CalculateExpires(ttl, now), ttl |-> ttl]

\* setRaw, setManyRaw: the TTL is derived from the caller's envelope.
RawEntry(a) ==
    [key |-> a.key, val |-> a.val, env |-> a.lim, ttl |-> TtlFromExpires(a.lim, now)]

---------------------------------------------------------------------------
(* Entering a call *)

Clean(args) == [i \in DOMAIN args |-> [args[i] EXCEPT !.key = CleanKey[@]]]

Enter(t, op, args) ==
    /\ Idle(t) /\ calls' = calls + 1
    /\ call' = Set(call, t, [op |-> op, args |-> args])
    /\ enc' = Set(enc, t, <<>>)
    /\ doomed' = Set(doomed, t, {})
    /\ todo' = Set(todo, t, IF op = "iterator" THEN Keys ELSE {})
    /\ UNCHANGED now

TakesFastPath(op, args) == FastPath /\ op \in FastOps /\ args[1].key # EmptyKey

\* The slow path up to its BEFORE hook; a single-key call on "" returns at once.
Begin(t) ==
    \E op \in Ops : \E raw \in Inputs(op) :
        LET args  == Clean(raw)
            empty == op \in SingleOps /\ args[1].key = EmptyKey
        IN  /\ ~TakesFastPath(op, args)
            /\ Enter(t, op, args)
            /\ Goto(t, IF empty THEN "resolved" ELSE IF op = "iterator" THEN "iter" ELSE "before")
            /\ rows' = Set(rows, t, [i \in DOMAIN args |-> None])
            /\ oks' = Set(oks, t, [i \in DOMAIN args |-> FALSE])
            /\ tele' = Set(tele, t, NoTele)
            /\ failed' = Set(failed, t, FALSE)
            /\ UNCHANGED <<store, racy>>

---------------------------------------------------------------------------
(* The fast path: the adapter is called in the step that makes the call, and *)
(* no hook runs and no telemetry is emitted.                                 *)

FastCall(t, op, args) == op \in Ops /\ TakesFastPath(op, args) /\ Enter(t, op, args)

FastReturn(t, row, ok) ==
    /\ rows' = Set(rows, t, <<row>>) /\ oks' = Set(oks, t, <<ok>>)
    /\ tele' = Set(tele, t, NoTele) /\ failed' = Set(failed, t, FALSE)
    /\ Goto(t, "resolved")

FastError(t, fault) ==
    /\ rows' = Set(rows, t, <<None>>) /\ oks' = Set(oks, t, <<FALSE>>)
    /\ tele' = Set(tele, t, [NoTele EXCEPT !.raised = TRUE])
    /\ failed' = Set(failed, t, fault)
    /\ Goto(t, IF ThrowOnErrors THEN "rejected" ELSE "resolved")

FastReject(t) == Faults /\ FastError(t, TRUE)

FastGet(t) ==
    \E args \in Inputs("get") :
        /\ FastCall(t, "get", args)
        /\ FastReturn(t, Fetch(args[1].key), FALSE) \/ FastReject(t)
        /\ UNCHANGED <<store, racy>>

FastSet(t) ==
    \E args \in Inputs("set") :
        LET a == args[1]
        IN  /\ FastCall(t, "set", args)
            /\ \/ /\ a.val \in Symbols
                  /\ FastError(t, FALSE)
                  /\ UNCHANGED <<store, racy>>
               \/ /\ a.val \notin Symbols
                  /\ FastReturn(t, None, TRUE)
                  /\ store' = Written(<<SetEntry(a)>>, {1})
                  /\ NoteWrites({a.key})
               \/ /\ a.val \notin Symbols
                  /\ FastReject(t)
                  /\ UNCHANGED <<store, racy>>

FastDelete(t) ==
    \E args \in Inputs("delete") :
        LET k == args[1].key
        IN  /\ FastCall(t, "delete", args)
            /\ \/ FastReturn(t, None, store[k] # None) /\ store' = Without({k})
               \/ FastReject(t) /\ UNCHANGED store
            /\ UNCHANGED racy

FastHas(t) ==
    \E args \in Inputs("has") :
        /\ FastCall(t, "has", args)
        /\ FastReturn(t, None, Visible(args[1].key)) \/ FastReject(t)
        /\ UNCHANGED <<store, racy>>

---------------------------------------------------------------------------
(* Reads: get, getMany, getRaw, getManyRaw, and has, hasMany under checkExpired *)

Reads(t) == pc[t] = "before" /\ (Op(t) \in GetOps \/ (CheckExpired /\ Op(t) \in HasOps))

ReadStore(t) ==
    /\ Reads(t)
    /\ rows' = Set(rows, t, [i \in Index(t) |-> Fetch(KeyAt(t, i))])
    /\ racy' = Set(racy, t, {})
    /\ Goto(t, IF Op(t) = "getManyRaw" /\ Args(t) = <<>> THEN "after" ELSE "decode")
    /\ UNCHANGED <<now, store, calls, call, enc, doomed, oks, todo, tele, failed>>

\* get counts an error and goes on with an undefined row; has and hasMany
\* return false; the other reads have no try block and reject.
ReadRejected(t) ==
    /\ Reads(t) /\ ~(Op(t) = "getManyRaw" /\ Args(t) = <<>>) /\ Fault(t)
    /\ \/ Op(t) = "get" /\ EmitError(t, 1, "decode")
       \/ Op(t) \in HasOps /\ EmitError(t, Len(Args(t)), "after")
       \/ Op(t) \notin HasOps \cup {"get"} /\ Goto(t, "rejected") /\ UNCHANGED tele
    /\ rows' = Set(rows, t, [i \in Index(t) |-> None])
    /\ UNCHANGED <<now, store, calls, call, enc, doomed, oks, todo, racy>>

\* decode(): the rows in bad cannot be decoded and become undefined.
Decoded(t, bad) == [i \in DOMAIN rows[t] |-> IF i \in bad THEN None ELSE rows[t][i]]

\* Mutant of ExpiredRows: an entry expires a millisecond early.
ExpiredRowsEarly(data) ==
    {i \in DOMAIN data : CheckExpired /\ data[i] # None /\ data[i].env # None /\ now >= data[i].env}

\* deleteExpiredKeys(): expired rows become undefined and their keys are deleted.
ExpiredRows(data) ==
    {i \in DOMAIN data : CheckExpired /\ data[i] # None /\ Expired(data[i].env, now)}
\* Mutant of Unexpired: expired rows are deleted but still handed on.
UnexpiredKept(data) == data
Unexpired(data) == [i \in DOMAIN data |-> IF i \in ExpiredRows(data) THEN None ELSE data[i]]

AfterSweep(t) == IF Op(t) = "iterator" THEN "iter" ELSE "after"

Decode(t) ==
    /\ pc[t] = "decode"
    /\ \E bad \in SUBSET {i \in DOMAIN rows[t] : rows[t][i] # None} :
        LET data == Decoded(t, bad)
            next == IF ExpiredRows(data) # {} THEN "sweep" ELSE AfterSweep(t)
        IN  /\ bad # {} => Faults /\ Serialization
            /\ rows' = Set(rows, t, Unexpired(data))
            /\ oks' = Set(oks, t, [i \in DOMAIN data |-> Unexpired(data)[i] # None])
            /\ doomed' = Set(doomed, t, ExpiredRows(data))
            /\ \/ bad # {} /\ EmitError(t, 0, next)
               \/ bad = {} /\ Goto(t, next) /\ UNCHANGED tele
    /\ UNCHANGED <<now, store, calls, call, enc, todo, failed, racy>>

\* The deleteMany of a sweep, and an iterator's delete, clean the keys again.
Swept(t) == {CleanKey[KeyAt(t, i)] : i \in doomed[t]}
            \ (IF Op(t) = "iterator" THEN {EmptyKey} ELSE {})

Sweep(t) ==
    /\ pc[t] = "sweep"
    /\ store' = Without(Swept(t))
    /\ Count(t, "delete", IF Swept(t) = {} THEN 0 ELSE Cardinality(doomed[t]))
    /\ Goto(t, AfterSweep(t))
    /\ doomed' = Set(doomed, t, {})
    /\ UNCHANGED <<now, calls, call, enc, rows, oks, todo, failed, racy>>

SweepRejected(t) ==
    /\ pc[t] = "sweep" /\ Swept(t) # {} /\ Fault(t)
    /\ \E part \in SUBSET Swept(t) : store' = Without(part)
    /\ tele' = [tele EXCEPT ![t].raised = TRUE,
                   ![t].error  = IF ThrowOnErrors THEN @ ELSE @ + Cardinality(doomed[t]),
                   ![t].delete = IF ThrowOnErrors \/ Op(t) # "iterator" THEN @ ELSE @ + 1]
    /\ Goto(t, IF ThrowOnErrors THEN "rejected" ELSE AfterSweep(t))
    /\ doomed' = Set(doomed, t, {})
    /\ UNCHANGED <<now, calls, call, enc, rows, oks, todo, racy>>

---------------------------------------------------------------------------
(* Writes: set, setMany, setRaw, setManyRaw *)

Encoded(t, a) == IF Op(t) \in SetOps THEN SetEntry(a) ELSE RawEntry(a)

CannotEncode(t, a) == \/ Serialization /\ a.val \in Unserializable
                      \/ Op(t) \in SetOps /\ a.val \in Symbols

Bad(t) == {i \in Index(t) : CannotEncode(t, Args(t)[i])}

\* set returns early on a symbol: no AFTER_SET hook.
SymbolSet(t) == Op(t) = "set" /\ Args(t)[1].val \in Symbols

EncodeAll(t) ==
    /\ pc[t] = "before" /\ Op(t) \in SetOps \cup RawOps
    /\ enc' = Set(enc, t, [i \in Index(t) |-> IF i \in Bad(t) THEN None ELSE Encoded(t, Args(t)[i])])
    /\ \/ Bad(t) = {} /\ Goto(t, "encode") /\ UNCHANGED tele
       \/ Bad(t) # {} /\ Op(t) = "setMany" /\ EmitError(t, Cardinality(Bad(t)), "encode")
       \/ Bad(t) # {} /\ Op(t) = "setManyRaw" /\ EmitError(t, Len(Args(t)), "after")
       \/ Bad(t) # {} /\ SymbolSet(t) /\ EmitError(t, 1, "resolved")
       \/ /\ Bad(t) # {} /\ Op(t) \in {"set", "setRaw"} /\ ~SymbolSet(t)
          /\ EmitError(t, 1, "after")
    /\ UNCHANGED <<now, store, calls, call, rows, doomed, oks, todo, failed, racy>>

\* The positions that survived encoding: the store is given only these, in
\* order, so position i is at place Rank(t, i) of its batch.
Survivors(t) == {i \in DOMAIN enc[t] : enc[t][i] # None}
Rank(t, i)   == Cardinality({j \in Survivors(t) : j <= i})
EncKeys(t, W) == {enc[t][i].key : i \in W}

\* Mutant of Scatter: the store's answers are taken as the caller's positions.
ScatterUnmapped(t, storeResults) ==
    [i \in Index(t) |-> i \in DOMAIN storeResults /\ storeResults[i]]

\* results[surviving[j].originalIndex] = storeResults[j]; false elsewhere
Scatter(t, storeResults) ==
    [i \in Index(t) |-> i \in Survivors(t) /\ storeResults[Rank(t, i)]]

\* The adapter answers one boolean per entry it was given and keeps those it
\* answers true for.  setMany counts the successes, setManyRaw every entry;
\* set and setRaw count at their end.
StoreSet(t) ==
    /\ pc[t] = "encode"
    /\ \E storeResults \in [1..Cardinality(Survivors(t)) -> BOOLEAN] :
        LET accepted == {i \in Survivors(t) : storeResults[Rank(t, i)]}
            results  == Scatter(t, storeResults)
        IN  /\ Faults \/ accepted = Survivors(t)
            /\ store' = Written(enc[t], accepted)
            /\ NoteWrites(EncKeys(t, accepted))
            /\ oks' = Set(oks, t, results)
            /\ \/ /\ Op(t) = "setMany"
                  /\ Count(t, "set", Cardinality({i \in Index(t) : results[i]}))
               \/ Op(t) = "setManyRaw" /\ Count(t, "set", Len(Args(t)))
               \/ Op(t) \in {"set", "setRaw"} /\ UNCHANGED tele
    /\ Goto(t, "after")
    /\ UNCHANGED <<now, calls, call, enc, rows, doomed, todo, failed>>

StoreSetRejected(t) ==
    /\ pc[t] = "encode" /\ (Survivors(t) # {} \/ Op(t) = "setManyRaw") /\ Fault(t)
    /\ \E part \in SUBSET Survivors(t) :
          /\ store' = Written(enc[t], part)
          /\ NoteWrites(EncKeys(t, part))
    /\ oks' = Set(oks, t, All(t, FALSE))
    /\ EmitError(t, Cardinality(Survivors(t)), "after")
    /\ UNCHANGED <<now, calls, call, enc, rows, doomed, todo>>

---------------------------------------------------------------------------
(* delete, deleteMany, has and hasMany without checkExpired, clear, disconnect *)

StoreDelete(t) ==
    /\ pc[t] = "before" /\ Op(t) \in DeleteOps
    /\ oks' = Set(oks, t, [i \in Index(t) |-> store[KeyAt(t, i)] # None])
    /\ store' = Without(KeysOf(t))
    /\ \/ Op(t) = "deleteMany" /\ Count(t, "delete", Len(Args(t)))
       \/ Op(t) = "delete" /\ UNCHANGED tele
    /\ Goto(t, "after")
    /\ UNCHANGED <<now, calls, call, enc, rows, doomed, todo, failed, racy>>

StoreDeleteRejected(t) ==
    /\ pc[t] = "before" /\ Op(t) \in DeleteOps /\ Fault(t)
    /\ \E part \in SUBSET KeysOf(t) : store' = Without(part)
    /\ oks' = Set(oks, t, All(t, FALSE))
    /\ EmitError(t, Len(Args(t)), "after")
    /\ UNCHANGED <<now, calls, call, enc, rows, doomed, todo, racy>>

StoreHas(t) ==
    /\ pc[t] = "before" /\ Op(t) \in HasOps /\ ~CheckExpired
    /\ \/ /\ oks' = Set(oks, t, [i \in Index(t) |-> Visible(KeyAt(t, i))])
          /\ Goto(t, "after")
          /\ UNCHANGED <<tele, failed>>
       \/ /\ Fault(t)
          /\ EmitError(t, Len(Args(t)), "after")
          /\ UNCHANGED oks
    /\ UNCHANGED <<now, store, calls, call, enc, rows, doomed, todo, racy>>

StoreClear(t) ==
    /\ pc[t] = "before" /\ Op(t) = "clear"
    /\ \/ /\ store' = Without(Keys)
          /\ Goto(t, "after")
          /\ UNCHANGED <<tele, failed>>
       \/ /\ Fault(t)
          /\ \E part \in SUBSET Keys : store' = Without(part)
          /\ EmitError(t, 1, "after")
    /\ UNCHANGED <<now, calls, call, enc, rows, doomed, oks, todo, racy>>

StoreDisconnect(t) ==
    /\ pc[t] = "before" /\ Op(t) = "disconnect"
    /\ \/ Goto(t, "after") /\ UNCHANGED <<tele, failed>>
       \/ Fault(t) /\ EmitError(t, 0, "after")
    /\ UNCHANGED <<now, store, calls, call, enc, rows, doomed, oks, todo, racy>>

---------------------------------------------------------------------------
(* iterator(): the adapter's iterator yields raw rows one by one; each is  *)
(* decoded, and either yielded or, under checkExpired, deleted if expired. *)

IterCall(k) == [op |-> "iterator", args |-> <<[key |-> k, val |-> None, lim |-> None]>>]

IterNext(t) ==
    /\ pc[t] = "iter"
    /\ \E k \in {k \in todo[t] : Visible(k)} :
          /\ call' = Set(call, t, IterCall(k))
          /\ rows' = Set(rows, t, <<store[k]>>)
          /\ todo' = [todo EXCEPT ![t] = @ \ {k}]
    /\ racy' = Set(racy, t, {})
    /\ Goto(t, "decode")
    /\ UNCHANGED <<now, store, calls, enc, doomed, oks, tele, failed>>

\* Mutant of IterEnd: the iterator waits for keys that are no longer there.
IterEndWaits(t) ==
    /\ pc[t] = "iter"
    /\ \/ todo[t] = {} /\ Goto(t, "resolved") /\ UNCHANGED failed
       \/ Fault(t) /\ Goto(t, "rejected")
    /\ UNCHANGED <<now, store, calls, call, enc, rows, doomed, oks, todo, tele, racy>>

IterEnd(t) ==
    /\ pc[t] = "iter"
    /\ \/ (\A k \in todo[t] : ~Visible(k)) /\ Goto(t, "resolved") /\ UNCHANGED failed
       \/ Fault(t) /\ Goto(t, "rejected")
    /\ UNCHANGED <<now, store, calls, call, enc, rows, doomed, oks, todo, tele, racy>>

---------------------------------------------------------------------------
(* The AFTER hook, the telemetry that follows it, and the return *)

Hit(t, i) == rows[t][i] # None /\ (Op(t) = "getMany" => rows[t][i].val # Undefined)
\* Mutant of Hits: every key of a batch counts as a hit once one was found.
HitsBatch(t) == IF \E i \in Index(t) : Hit(t, i) THEN Len(Args(t)) ELSE 0
Hits(t)   == Cardinality({i \in Index(t) : Hit(t, i)})
Misses(t) == Cardinality({i \in Index(t) : ~Hit(t, i)})

Return(t) ==
    /\ pc[t] = "after"
    /\ Goto(t, "resolved")
    /\ \/ /\ Op(t) \in GetOps
          /\ tele' = [tele EXCEPT ![t].hit = @ + Hits(t), ![t].miss = @ + Misses(t)]
       \/ Op(t) \in {"set", "setRaw"} /\ oks[t][1] /\ Count(t, "set", 1)
       \/ Op(t) = "delete" /\ Count(t, "delete", 1)
       \/ /\ Op(t) \notin GetOps \cup {"delete"}
          /\ ~(Op(t) \in {"set", "setRaw"} /\ oks[t][1])
          /\ UNCHANGED tele
    /\ UNCHANGED <<now, store, calls, call, enc, rows, doomed, oks, todo, failed, racy>>

---------------------------------------------------------------------------
(* The environment: time passes, and the adapter drops what its TTL ended *)

Tick == now < MaxTime /\ now' = now + 1
        /\ UNCHANGED <<store, calls, pc, call, enc, rows, doomed, oks, todo, tele, failed, racy>>

AdapterExpires(k) ==
    /\ store[k] # None /\ Expired(store[k].exp, now)
    /\ store' = Without({k})
    /\ UNCHANGED <<now, calls, pc, call, enc, rows, doomed, oks, todo, tele, failed, racy>>

---------------------------------------------------------------------------
Step(t) ==
    \/ ReadStore(t) \/ ReadRejected(t) \/ Decode(t) \/ Sweep(t) \/ SweepRejected(t)
    \/ EncodeAll(t) \/ StoreSet(t) \/ StoreSetRejected(t)
    \/ StoreDelete(t) \/ StoreDeleteRejected(t) \/ StoreHas(t)
    \/ StoreClear(t) \/ StoreDisconnect(t)
    \/ IterNext(t) \/ IterEnd(t) \/ Return(t)

NewCall(t) == Begin(t) \/ FastGet(t) \/ FastSet(t) \/ FastDelete(t) \/ FastHas(t)

Init ==
    /\ now = 0 /\ calls = 0
    /\ store = [k \in Keys |-> None]
    /\ pc = [t \in Tasks |-> "idle"]
    /\ call = [t \in Tasks |-> [op |-> "clear", args |-> <<>>]]
    /\ enc = [t \in Tasks |-> <<>>] /\ rows = [t \in Tasks |-> <<>>]
    /\ oks = [t \in Tasks |-> <<>>] /\ doomed = [t \in Tasks |-> {}]
    /\ todo = [t \in Tasks |-> {}] /\ tele = [t \in Tasks |-> NoTele]
    /\ failed = [t \in Tasks |-> FALSE] /\ racy = [t \in Tasks |-> {}]

Next == \/ \E t \in Tasks : NewCall(t) \/ Step(t)
        \/ \E k \in Keys : AdapterExpires(k)
        \/ Tick

Spec == Init /\ [][Next]_vars

\* Every await of a call is eventually resumed: hooks return and the adapter answers.
FairSpec == Spec /\ \A t \in Tasks : WF_vars(Step(t))

---------------------------------------------------------------------------
(* Properties *)

Times    == Nat \cup {None}
Entry    == [val : Values, env : Times, exp : Times]
EncEntry == [key : Keys, val : Values, env : Times, ttl : (Nat \ {0}) \cup {None}]
Arg      == [key : Keys, val : Values \cup {None}, lim : Int \cup {None}]
Call     == {c \in [op : AllOps, args : Seq(Arg)] : c.args \in Seq(ArgOf(c.op))}
Tele     == [hit : Nat, miss : Nat, set : Nat, delete : Nat, error : Nat, raised : BOOLEAN]

\* Every variable stays in its type: timestamps are natural numbers or absent,
\* a stored entry carries the envelope's and the adapter's expiry, and a
\* derived TTL is positive (resolveTtl, ttlFromExpires never yield 0 or less).
TypeOK ==
    /\ now \in Nat /\ calls \in Nat
    /\ store \in [Keys -> Entry \cup {None}]
    /\ pc \in [Tasks -> Finished \cup Busy]
    /\ call \in [Tasks -> Call]
    /\ enc \in [Tasks -> Seq(EncEntry \cup {None})]
    /\ rows \in [Tasks -> Seq(Entry \cup {None})]
    /\ oks \in [Tasks -> Seq(BOOLEAN)]
    /\ doomed \in [Tasks -> SUBSET Nat] /\ \A t \in Tasks : IsFiniteSet(doomed[t])
    /\ todo \in [Tasks -> SUBSET Keys]
    /\ tele \in [Tasks -> Tele]
    /\ failed \in [Tasks -> BOOLEAN] /\ racy \in [Tasks -> SUBSET Keys]

\* The adapter never drops an entry before its envelope expires, however long
\* the encode between stamping the envelope and handing the adapter the TTL
\* took (set, setMany, setRaw, setManyRaw): the adapter's own expiry is no
\* earlier than the envelope's.  An envelope that was already over when a raw
\* write derived its TTL has no adapter expiry at all.
StoreOutlivesEnvelope ==
    \A k \in Keys : (store[k] # None /\ store[k].exp # None) =>
        (store[k].env # None /\ store[k].env <= store[k].exp)

\* What decodeWithExpire is about to delete is gone or expired, unless the key
\* was written between the read and the deletion: a sweep can only lose a
\* write that raced with its own read.
SweepSafe ==
    \A t \in Tasks : pc[t] = "sweep" =>
        \A k \in Swept(t) : \/ k \in racy[t]
                            \/ store[k] = None
                            \/ Expired(store[k].env, now)

\* A sweep (decodeWithExpire, iterator) removes expired entries only.
SweepRemovesOnlyExpired ==
    [][\A t \in Tasks : (pc[t] = "sweep" /\ pc'[t] # "sweep") =>
          \A k \in Keys : (store[k] # None /\ store'[k] = None) => Expired(store[k].env, now)]_vars

\* No read hands on an envelope that was already expired when it was decoded,
\* whether or not there is something to sweep first.
ReadsUnexpired ==
    [][\A t \in Tasks : (pc[t] = "decode" /\ pc'[t] \in {"after", "iter", "sweep"}) =>
          \A i \in DOMAIN rows'[t] : rows'[t][i] # None => ~Expired(rows'[t][i].env, now)]_vars

\* A write that answers true for entry i left that entry, or a later accepted
\* entry of the batch with the same key, in the store, and a write that was
\* answered left every key it did not acknowledge as it was: the store's
\* answers are mapped back to the caller's positions past dropped entries.
WritesAligned ==
    [][\A t \in Tasks : (pc[t] = "encode" /\ pc'[t] = "after" /\ ~failed'[t]) =>
          /\ \A i \in Index(t) : oks'[t][i] =>
                \E j \in Index(t) : /\ i <= j /\ oks'[t][j] /\ KeyAt(t, j) = KeyAt(t, i)
                                    /\ store'[KeyAt(t, i)] # None
                                    /\ store'[KeyAt(t, i)].val = Args(t)[j].val
          /\ \A k \in Keys : (\A i \in Index(t) : oks'[t][i] => KeyAt(t, i) # k)
                                => store'[k] = store[k]]_vars

\* A call during which the adapter rejected never looks successful: it rejects,
\* or (only without throwOnErrors) it raised an error event, and then a write
\* or a delete answers false for every entry.
NoSilentFailure ==
    \A t \in Tasks : (pc[t] \in Finished /\ failed[t]) =>
        \/ pc[t] = "rejected"
        \/ /\ ~ThrowOnErrors /\ tele[t].raised
           /\ Op(t) \in SetOps \cup RawOps \cup DeleteOps => \A i \in DOMAIN oks[t] : ~oks[t][i]

Acknowledged(t) == Cardinality({i \in DOMAIN oks[t] : oks[t][i]})
EarlyReturn(t)  == Op(t) \in SingleOps /\ KeyAt(t, 1) = EmptyKey
SlowResolved(t) == pc[t] = "resolved" /\ ~FastPath /\ ~EarlyReturn(t)

\* A read that resolves has counted every key it was asked for exactly once,
\* as a hit or as a miss, and get, getRaw and getManyRaw count as hits exactly
\* the keys they return an envelope for; set, setMany and setRaw count exactly
\* the writes they acknowledge.
TelemetryMatchesResult ==
    \A t \in Tasks : SlowResolved(t) =>
        /\ Op(t) \in GetOps => tele[t].hit + tele[t].miss = Len(Args(t))
        /\ Op(t) \in GetOps \ {"getMany"} =>
              tele[t].hit = Cardinality({i \in Index(t) : rows[t][i] # None})
        /\ Op(t) \in {"set", "setMany", "setRaw"} => tele[t].set = Acknowledged(t)

\* One "value set" event for every value setManyRaw reports as set.
RawBatchEventsMatchSets ==
    \A t \in Tasks : (SlowResolved(t) /\ Op(t) = "setManyRaw") => tele[t].set = Acknowledged(t)

\* Every call returns or rejects; in particular an iterator terminates although
\* entries come and go while it runs.
CallsComplete == \A t \in Tasks : pc[t] \in Busy ~> pc[t] \in Finished
=============================================================================
