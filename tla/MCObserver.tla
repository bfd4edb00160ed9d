----------------------------- MODULE MCObserver -----------------------------
(***************************************************************************)
(* An instance of Observer: two replicas whose clocks differ by a second.  *)
(***************************************************************************)
EXTENDS Observer, TLC

CONSTANTS p1, p2, t1

MCReplica == {p1, p2}
MCLead == (p1 :> 0) @@ (p2 :> 1)
MCTask == {t1}
MCLatency == {1}
=============================================================================
