-------------------------------- MODULE MCBigMap --------------------------------
(* A small instance of BigMap for TLC: three keys, two with one text, and hash *)
(* functions that agree nowhere, one with negative results.                    *)
EXTENDS BigMap

CONSTANTS k1, k2, k3, h1, h2, v1, w1

MCText == [k \in {k1, k2, k3} |-> IF k = k3 THEN "b" ELSE "a"]
MCRaw  == [h \in {h1, h2} |-> [n \in 1..3 |-> [x \in {"a", "b"} |->
              IF h = h1 THEN (IF x = "a" THEN 0 ELSE 1) ELSE (IF x = "a" THEN -1 ELSE -2)]]]
=============================================================================
