---------------------------- MODULE StorelySanitize ----------------------------
(***************************************************************************)
(* The sanitizer (core/storely/src/sanitize.ts): two result caches, for    *)
(* keys and for namespaces, over patterns that updateOptions replaces.     *)
(* Every method is synchronous.  A cache is the sequence of its entries in *)
(* the order of its Map, the least recently used first.  What the patterns *)
(* of a set of categories make of a string is the constant Strip.          *)
(***************************************************************************)
EXTENDS Naturals, Sequences, FiniteSets, SequencesExt

CONSTANTS
    Strings,     \* keys and namespaces, dirty and clean
    Categories,  \* of patterns: sql, mongo, escape, path
    Strip,       \* the result of one pass of the patterns of some categories
    CacheMax,    \* _cacheMax
    MaxSteps     \* bound of the model: calls

Scopes == {"keys", "namespace"}

ASSUME SanitizeAssumption ==
    /\ Strip \in [SUBSET Categories -> [Strings -> Strings]]
    /\ \A s \in Strings : Strip[{}][s] = s
    /\ CacheMax \in Nat \ {0} /\ MaxSteps \in Nat

VARIABLES
    on,      \* _keys and _namespace: the categories that are enabled
    cache,   \* _cacheKeys and _cacheNamespaces
    answer,  \* history: the last string cleaned and the result, per scope
    uses,    \* history: what was cleaned since the caches were cleared
    steps

sanitizeVars == <<on, cache, answer, uses, steps>>

Step  == steps < MaxSteps /\ steps' = steps + 1
Empty == [sc \in Scopes |-> <<>>]

At(c, s) == {p \in DOMAIN c : c[p].key = s}

Evicted(c) == IF Len(c) > CacheMax THEN Tail(c) ELSE c

\* Mutant of Renewed: a hit keeps its place.
RenewedInPlace(c, p) == c

\* A hit, at p, is deleted and set again.
Renewed(c, p) == Append(SubSeq(c, 1, p - 1) \o SubSeq(c, p + 1, Len(c)), c[p])

\* cleanKey and cleanNamespace
Clean(sc, s) ==
    LET c     == cache[sc]
        fresh == Strip[on[sc]][s]
    IN  /\ Step
        /\ \/ /\ on[sc] = {} /\ UNCHANGED <<cache, uses>>
              /\ answer' = [answer EXCEPT ![sc] = <<s, s>>]
           \/ /\ on[sc] # {}
              /\ uses' = [uses EXCEPT ![sc] = Append(@, s)]
              /\ \/ \E p \in At(c, s) :
                      /\ cache' = [cache EXCEPT ![sc] = Renewed(c, p)]
                      /\ answer' = [answer EXCEPT ![sc] = <<s, c[p].value>>]
                 \/ /\ At(c, s) = {}
                    /\ cache' = [cache EXCEPT ![sc] = Evicted(Append(c, [key |-> s, value |-> fresh]))]
                    /\ answer' = [answer EXCEPT ![sc] = <<s, fresh>>]
        /\ UNCHANGED on

\* Mutant of UpdateOptions: only the cache of the keys is cleared.
UpdateOptionsKeysOnly(k, n) ==
    /\ Step
    /\ on' = [on EXCEPT !["keys"] = k, !["namespace"] = n]
    /\ cache' = [cache EXCEPT !["keys"] = <<>>] /\ uses' = [uses EXCEPT !["keys"] = <<>>]
    /\ UNCHANGED answer

UpdateOptions(k, n) ==
    /\ Step
    /\ on' = [on EXCEPT !["keys"] = k, !["namespace"] = n]
    /\ cache' = Empty /\ uses' = Empty
    /\ UNCHANGED answer

ClearCache == Step /\ cache' = Empty /\ uses' = Empty /\ UNCHANGED <<on, answer>>

SanitizeInit ==
    /\ on = [sc \in Scopes |-> {}] /\ cache = Empty /\ uses = Empty
    /\ answer = Empty /\ steps = 0

SanitizeNext ==
    \/ \E sc \in Scopes, s \in Strings : Clean(sc, s)
    \/ \E k, n \in SUBSET Categories : UpdateOptions(k, n)
    \/ ClearCache

SanitizeSpec == SanitizeInit /\ [][SanitizeNext]_sanitizeVars

---------------------------------------------------------------------------
(* Properties *)

\* cleanKey and cleanNamespace answer what the patterns of this moment make of
\* the string, whichever options a cached result was computed under.
AnswersCurrent ==
    [][\A sc \in Scopes, s \in Strings :
          Clean(sc, s) => answer'[sc] = <<s, Strip[on[sc]][s]>>]_sanitizeVars

\* The last place at which s was used.
LastUse(u, s) == CHOOSE n \in 1..Len(u) : u[n] = s /\ \A m \in n + 1..Len(u) : u[m] # s

\* A cache holds the CacheMax most recently used strings, in the order of their
\* last uses, each once.
CacheKeepsRecent ==
    \A sc \in Scopes :
        LET u == uses[sc]
            c == cache[sc]
            used == ToSet(u)
            older(s) == {r \in used : LastUse(u, r) < LastUse(u, s)}
            newer(s) == {r \in used : LastUse(u, r) > LastUse(u, s)}
            kept == {s \in used : Cardinality(newer(s)) < CacheMax}
        IN  /\ {entry.key : entry \in ToSet(c)} = kept /\ Len(c) = Cardinality(kept)
            /\ \A m, n \in 1..Len(c) : m < n => c[m].key \in older(c[n].key)
=============================================================================
