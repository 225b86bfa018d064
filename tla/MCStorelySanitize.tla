--------------------------- MODULE MCStorelySanitize ---------------------------
(* A small instance of StorelySanitize for TLC: one clean string and one that *)
(* each category changes; both categories together leave nothing of "mixed".  *)
EXTENDS StorelySanitize

CONSTANTS sql, mongo, plain, quoted, dollar, mixed

StripToPlain ==
    [cs \in SUBSET {sql, mongo} |->
        [s \in {plain, quoted, dollar, mixed} |->
            CASE s = quoted /\ sql \in cs   -> plain
              [] s = dollar /\ mongo \in cs -> plain
              [] s = mixed /\ cs = {sql}    -> dollar
              [] s = mixed /\ cs = {mongo}  -> quoted
              [] s = mixed /\ cs = {sql, mongo} -> plain
              [] OTHER -> s]]
=============================================================================
