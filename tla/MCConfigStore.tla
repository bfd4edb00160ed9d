--------------------------- MODULE MCConfigStore ---------------------------
(***************************************************************************)
(* An instance of ConfigStore: two replicas and two loads that may run at  *)
(* once, on one of them or on both.  Replicas are alike, and so are loads. *)
(***************************************************************************)
EXTENDS ConfigStore, TLC

CONSTANTS p1, p2, t1, t2

MCReplica == {p1, p2}
MCTask == {t1, t2}
MCContents == {Row, Row \ {"google"}}
MCFull == {Row}
Alike == Permutations(MCReplica) \cup Permutations(MCTask)
=============================================================================
