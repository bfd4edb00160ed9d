----------------------------- MODULE MCWeights -----------------------------
(* Configurations for Weights: two tiers that share a candidate, whose limits *)
(* agree or disagree; c3's provider has no adapter.                           *)
EXTENDS Weights

E1 == [cand |-> "c1", weight |-> 2, rpm |-> 2, tpm |-> 1]
E2 == [cand |-> "c2", weight |-> 1, rpm |-> 1, tpm |-> 2]
E2Other == [cand |-> "c2", weight |-> 3, rpm |-> 3, tpm |-> 6]
E3 == [cand |-> "c3", weight |-> 1, rpm |-> 1, tpm |-> 1]

MCAgree == <<<<E1, E2, E3, E1>>, <<E2>>>>
MCDisagree == <<<<E1, E2>>, <<E2Other>>>>
MCAvailable == Candidate \ {"c3"}
MCRates == {<<0, 1>>, <<1, 2>>}
=============================================================================
