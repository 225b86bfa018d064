----------------------------- MODULE MCStorely -----------------------------
(* Small instances of Storely for TLC. *)
EXTENDS Storely, TLC

CONSTANTS k1, k2, v1, undef, sym, circ, t1, t2

\* Key "": the empty key the single-key operations return early on.
MCKeys        == {"", k1, k2}
MCKeysTwo     == {"", k1}
CleanIdentityTwo == [k \in {"", k1} |-> k]
\* Sanitization strips k2 down to nothing ("..//" patterns, "$"): idempotent.
CleanToEmpty  == [k \in {"", k1, k2} |-> IF k = k2 THEN "" ELSE k]
\* "$$a" -> "$a" -> "a": the patterns are applied once, so cleaning a cleaned
\* key changes it again.  k2 stands for "$a", k1 for "a".
CleanNotIdempotent == [k \in {"", "$$a", k1, k2} |->
                          IF k = "$$a" THEN k2 ELSE IF k = k2 THEN k1 ELSE k]
MCKeysDollar  == {"", "$$a", k1, k2}

Values1 == {v1, undef}
ValuesUndef == {undef}
ValuesBad == {v1, undef, sym, circ}
ValuesSym  == {undef, sym}

TaskSymmetry == Permutations({t1, t2})
=============================================================================
