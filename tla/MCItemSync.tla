----------------------------- MODULE MCItemSync -----------------------------
(* Small instances of ItemSync for TLC.                                      *)
EXTENDS ItemSync, TLC

CONSTANTS i1, c1, c2, a1, a2, h1, h2, h3, t1, t2

Symmetries == Permutations({h1, h2}) \cup Permutations({t1, t2})
                  \cup Permutations({c1, c2}) \cup Permutations({a1, a2})
=============================================================================
