----------------------------- MODULE MCBreaker -----------------------------
(* Instances of Breaker: r2's clock is ahead of r1's by Lead ticks, r3's by one
   tick more. *)
EXTENDS Breaker, TLC

CONSTANTS r1, r2, r3, t1, Lead

MCTwoReplicas == {r1, r2}
MCReplica == {r1, r2, r3}
MCReader == {r1}
MCTask == {t1}
MCLead == [r \in Replica |-> IF r = r1 THEN 0 ELSE IF r = r2 THEN Lead ELSE Lead + 1]
=============================================================================
