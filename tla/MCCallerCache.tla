--------------------------- MODULE MCCallerCache ---------------------------
(* An instance of CallerCache: two requests at once, which are alike. *)
EXTENDS CallerCache, TLC

CONSTANTS k1, k2, k3, q1, q2

MCKey == {k1, k2, k3}
MCRequest == {q1, q2}
Alike == Permutations(MCKey) \cup Permutations(MCRequest)
=============================================================================
