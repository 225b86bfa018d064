------------------------------ MODULE KeyPrefix ------------------------------
(***************************************************************************)
(* How the memory and the bridge adapter put several namespaces into one   *)
(* key space: `${namespace}${keySeparator}${key}`.  A string is a sequence *)
(* of letters, so that it matters where a separator can occur; the         *)
(* namespace <<>> is a falsy one (undefined or "").                        *)
(***************************************************************************)
EXTENDS Naturals, Sequences

CONSTANT Separator

GetKeyPrefix(key, ns) == IF ns = <<>> THEN key ELSE ns \o <<Separator>> \o key

StartsWith(s, p) == Len(p) <= Len(s) /\ \A i \in 1..Len(p) : s[i] = p[i]

\* The prefix test of clear() and iterator(); without a namespace every key passes.
InNamespace(full, ns) == ns = <<>> \/ StartsWith(full, GetKeyPrefix(<<>>, ns))

\* key.slice(namespace.length + keySeparator.length)
StripPrefix(full, ns) ==
    IF ns = <<>> THEN full ELSE SubSeq(full, Len(ns) + 2, Len(full))

\* The namespaces of NS do not reach into each other's part of the key space,
\* whatever the keys K.
Separated(NS, K) ==
    \A n1, n2 \in NS : n1 # n2 => \A k \in K : ~InNamespace(GetKeyPrefix(k, n1), n2)
=============================================================================
