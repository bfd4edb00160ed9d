-------------------------------- MODULE Sums --------------------------------
(***************************************************************************)
(* Sums of natural numbers over a set, as a number of units: the sum of    *)
(* f[s] for the s of a set is how many units there are when every s has    *)
(* f[s] of them.  No recursion, hence sums that can be reasoned about.     *)
(***************************************************************************)
EXTENDS Integers, FiniteSets

UnitsOf(f, S) == UNION {{s} \X (1 .. f[s]) : s \in S}
TotalOf(f, S) == Cardinality(UnitsOf(f, S))
=============================================================================
