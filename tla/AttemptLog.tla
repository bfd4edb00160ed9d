----------------------------- MODULE AttemptLog -----------------------------
(***************************************************************************)
(* What the accounting path of the gateway promises, without its queue,    *)
(* its timer and its background task: an attempt record that was submitted *)
(* is pending until one batch settles it, for good, and a record that does *)
(* not become durable is counted.                                          *)
(***************************************************************************)
EXTENDS Integers, FiniteSets

VARIABLES
    submitted,  \* how many records were submitted; they are 1 .. submitted
    pending,    \* records not settled yet
    durable,    \* records in the requests table
    counted     \* how many records were reported as dropped

vars == <<submitted, pending, durable, counted>>

Init ==
    /\ submitted = 0
    /\ pending = {}
    /\ durable = {}
    /\ counted = 0

\* Submitting a record may cost one pending record, which is counted at that
\* very moment; it never costs the record submitted.
Submit ==
    \E lost \in SUBSET pending :
        /\ Cardinality(lost) <= 1
        /\ submitted' = submitted + 1
        /\ pending' = (pending \ lost) \cup {submitted + 1}
        /\ counted' = counted + Cardinality(lost)
        /\ UNCHANGED durable

\* One INSERT settles a set of pending records: it commits, it fails and they
\* are counted, or it commits although its caller sees an error.
Settle ==
    \E batch \in (SUBSET pending) \ {{}} :
        /\ pending' = pending \ batch
        /\ \/ durable' = durable \cup batch /\ counted' = counted
           \/ durable' = durable /\ counted' = counted + Cardinality(batch)
           \/ durable' = durable \cup batch /\ counted' = counted + Cardinality(batch)
        /\ UNCHANGED submitted

Next == Submit \/ Settle

Spec == Init /\ [][Next]_vars
=============================================================================
