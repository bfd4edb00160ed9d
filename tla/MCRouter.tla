------------------------------ MODULE MCRouter ------------------------------
(* An instance of Router: three candidates in two tiers, one without adapter. *)
EXTENDS Router

CONSTANTS c1, c2, c3

MCCandidate == {c1, c2, c3}
MCTier == {"fast", "deep"}
MCCandidatesOf == [t \in MCTier |-> IF t = "fast" THEN {c1, c2, c3} ELSE {c2}]
MCEquipped == {c1, c2}
=============================================================================
