----------------------------- MODULE StorelyConfig -----------------------------
(***************************************************************************)
(* Building and reconfiguring Storely instances (core/storely/src/         *)
(* storely.ts: the constructor and the property setters).  Each is         *)
(* synchronous; what can go wrong is that one of the places that depend on *)
(* a setting is not brought up to date: the namespace the adapter object   *)
(* holds, the cached _fastPath, the default serialization.                 *)
(***************************************************************************)
EXTENDS Naturals, FiniteSets

CONSTANTS
    Instances,   \* Storely instances
    Adapters,    \* storage adapter objects
    InMemory,    \* those with capabilities.inMemory
    Namespaces,
    CleanNs,     \* what an enabled sanitizer's cleanNamespace does
    Sanitizers,  \* sanitize adapter objects
    Unbuilt,     \* the _store of an instance not yet built
    Shared,      \* several instances may be given the same adapter object
    Sanitizing,  \* the sanitize setter is used where it changes the namespace
    Updating,    \* updateOptions is called on a sanitizer in use
    MaxChanges   \* bound of the model: calls of setters and operations

Stages == {"serialization", "compression", "encryption"}

ASSUME ConfigAssumption ==
    /\ InMemory \subseteq Adapters /\ CleanNs \in [Namespaces -> Namespaces]
    /\ {Shared, Sanitizing, Updating} \subseteq BOOLEAN /\ MaxChanges \in Nat
    /\ Unbuilt \notin Adapters \cup Namespaces

VARIABLES
    store,      \* _store, Unbuilt before the constructor
    namespace,  \* _namespace
    sanitize,   \* _sanitize
    stages,     \* which of _serialization, _compression, _encryption are set
    plain,      \* the instance was told not to serialize
    fastPath,   \* _fastPath
    held,       \* the namespace property of each adapter
    cleaning,   \* the sanitizers that are enabled
    changes

configVars == <<store, namespace, sanitize, stages, plain, fastPath, held, cleaning, changes>>

Built(i) == store[i] # Unbuilt
Change   == changes < MaxChanges /\ changes' = changes + 1

\* recomputeFastPath; checkExpired cannot change once the instance is built
Trivial(a, st, z) == st = {} /\ z \notin cleaning /\ a \in InMemory

\* _namespace after cleaning by sanitizer z
Cleaned(ns, z) == IF z \in cleaning THEN CleanNs[ns] ELSE ns

\* An adapter object the instance may be given.
Usable(i, a) == Shared \/ \A j \in Instances \ {i} : store[j] # a

\* initSerialization: the default depends on the store there is then.
Serializes(a, ser) == ser = "given" \/ (ser = "default" /\ a \notin InMemory)

\* The constructor makes its own sanitizer.
Fresh(i, z) == \A j \in Instances \ {i} : Built(j) => sanitize[j] # z

\* new Storely({store, namespace, sanitize, serialization, compression, encryption})
Build(i, a, ns, z, ser, others) ==
    LET st == others \cup IF Serializes(a, ser) THEN {"serialization"} ELSE {}
    IN  /\ Change /\ ~Built(i) /\ Usable(i, a) /\ Fresh(i, z)
        /\ store' = [store EXCEPT ![i] = a]
        /\ sanitize' = [sanitize EXCEPT ![i] = z]
        /\ namespace' = [namespace EXCEPT ![i] = Cleaned(ns, z)]
        /\ stages' = [stages EXCEPT ![i] = st]
        /\ plain' = [plain EXCEPT ![i] = ser = "false"]
        /\ fastPath' = [fastPath EXCEPT ![i] = Trivial(a, st, z)]
        /\ held' = [held EXCEPT ![a] = Cleaned(ns, z)]
        /\ UNCHANGED cleaning

\* Mutant of SetStore: the new adapter is not told the namespace.
SetStoreOnly(i, a) ==
    /\ Change /\ Built(i) /\ Usable(i, a)
    /\ store' = [store EXCEPT ![i] = a]
    /\ fastPath' = [fastPath EXCEPT ![i] = Trivial(a, stages[i], sanitize[i])]
    /\ UNCHANGED <<namespace, sanitize, stages, plain, held, cleaning>>

\* The store setter: the serialization stays what it was.
SetStore(i, a) ==
    /\ Change /\ Built(i) /\ Usable(i, a)
    /\ store' = [store EXCEPT ![i] = a]
    /\ held' = [held EXCEPT ![a] = namespace[i]]
    /\ fastPath' = [fastPath EXCEPT ![i] = Trivial(a, stages[i], sanitize[i])]
    /\ UNCHANGED <<namespace, sanitize, stages, plain, cleaning>>

SetNamespace(i, ns) ==
    /\ Change /\ Built(i)
    /\ namespace' = [namespace EXCEPT ![i] = Cleaned(ns, sanitize[i])]
    /\ held' = [held EXCEPT ![store[i]] = Cleaned(ns, sanitize[i])]
    /\ UNCHANGED <<store, sanitize, stages, plain, fastPath, cleaning>>

\* Mutant of SetStage: the fast path is not recomputed.
SetStageOnly(i, p, on) ==
    /\ Change /\ Built(i)
    /\ stages' = [stages EXCEPT ![i] = IF on THEN @ \cup {p} ELSE @ \ {p}]
    /\ plain' = [plain EXCEPT ![i] = IF p = "serialization" THEN ~on ELSE @]
    /\ UNCHANGED <<store, namespace, sanitize, fastPath, held, cleaning>>

\* The serialization, compression and encryption setters.
SetStage(i, p, on) ==
    LET st == IF on THEN stages[i] \cup {p} ELSE stages[i] \ {p}
    IN  /\ Change /\ Built(i)
        /\ stages' = [stages EXCEPT ![i] = st]
        /\ plain' = [plain EXCEPT ![i] = IF p = "serialization" THEN ~on ELSE @]
        /\ fastPath' = [fastPath EXCEPT ![i] = Trivial(store[i], st, sanitize[i])]
        /\ UNCHANGED <<store, namespace, sanitize, held, cleaning>>

\* The sanitize setter cleans _namespace and does not tell the adapter.
SetSanitize(i, z) ==
    /\ Change /\ Built(i) /\ (Sanitizing \/ Cleaned(namespace[i], z) = namespace[i])
    /\ sanitize' = [sanitize EXCEPT ![i] = z]
    /\ namespace' = [namespace EXCEPT ![i] = Cleaned(@, z)]
    /\ fastPath' = [fastPath EXCEPT ![i] = Trivial(store[i], stages[i], z)]
    /\ UNCHANGED <<store, stages, plain, held, cleaning>>

\* updateOptions of a sanitizer; the instances that use it are not told.
SanitizerUpdateOptions(z, on) ==
    /\ Change /\ (Updating \/ \A i \in Instances : Built(i) => sanitize[i] # z)
    /\ cleaning' = IF on THEN cleaning \cup {z} ELSE cleaning \ {z}
    /\ UNCHANGED <<store, namespace, sanitize, stages, plain, fastPath, held>>

ConfigInit ==
    /\ store = [i \in Instances |-> Unbuilt] /\ changes = 0
    /\ namespace \in [Instances -> Namespaces] /\ sanitize \in [Instances -> Sanitizers]
    /\ \A i, j \in Instances : namespace[i] = namespace[j] /\ sanitize[i] = sanitize[j]
    /\ stages = [i \in Instances |-> {}] /\ plain = [i \in Instances |-> FALSE]
    /\ fastPath = [i \in Instances |-> FALSE]
    /\ \E ns \in Namespaces : held = [a \in Adapters |-> ns]
    /\ cleaning = {}

ConfigNext ==
    \/ \E i \in Instances :
          \/ \E a \in Adapters, ns \in Namespaces, z \in Sanitizers :
                \E ser \in {"default", "given", "false"}, others \in SUBSET {"compression", "encryption"} :
                    Build(i, a, ns, z, ser, others)
          \/ \E a \in Adapters : SetStore(i, a)
          \/ \E ns \in Namespaces : SetNamespace(i, ns)
          \/ \E p \in Stages, on \in BOOLEAN : SetStage(i, p, on)
          \/ \E z \in Sanitizers : SetSanitize(i, z)
    \/ \E z \in Sanitizers, on \in BOOLEAN : SanitizerUpdateOptions(z, on)

ConfigSpec == ConfigInit /\ [][ConfigNext]_configVars

---------------------------------------------------------------------------
(* Properties *)

\* The namespace an instance reports is the one its adapter works in, after
\* any sequence of setters: the instance finds what it stored under its own
\* namespace, and other namespaces are out of its reach.
NamespaceSynced == \A i \in Instances : Built(i) => held[store[i]] = namespace[i]

\* The cached decision of the fast path is the one the current settings give.
FastPathCurrent ==
    \A i \in Instances : Built(i) => fastPath[i] = Trivial(store[i], stages[i], sanitize[i])

\* An instance over a store that is not in memory serializes, unless it was
\* told not to.
RemoteSerialized ==
    \A i \in Instances : (Built(i) /\ store[i] \notin InMemory /\ ~plain[i]) =>
        "serialization" \in stages[i]
=============================================================================
