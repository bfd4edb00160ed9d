------------------------------ MODULE Observer ------------------------------
(***************************************************************************)
(* The health of one candidate, and the loop it closes.  Observer of       *)
(* src/gateway/routing/observe.py: attempts record how they ended in a     *)
(* Redis hash per second, the refresh task sums the hashes of the last     *)
(* window_s seconds, the weight engine makes a weight of the sums, and     *)
(* only a candidate of positive weight is attempted.                       *)
(*                                                                         *)
(* The pipelines are not transactions: one action is one command of one of *)
(* them.  Time is in seconds, which is all that int(time.time()) keeps.    *)
(* The other factors of the weight, budget and breaker, are at their best. *)
(***************************************************************************)
EXTENDS Sums, Sequences

CONSTANTS
    Replica,
    Task,          \* attempts that may run at once in the fleet
    Lead,          \* Lead[p]: how far p's wall clock is ahead
    Spread,        \* the largest of these
    Window,        \* window_s
    Latency,       \* what a success may take
    Base,          \* weight of the candidate in its tier
    Floor,         \* min_weight_floor
    Target,        \* target_latency_s
    MaxAttempt,    \* bound on the time of an attempt
    MaxPipeline,   \* bound on the time its record takes
    MaxTick,       \* bound on the time between two ticks that succeed
    MaxSamples,    \* bound on the attempts made
    MaxTime        \* bound on the time

ASSUME WindowAssumption == Window \in Nat \ {0}
ASSUME TaskAssumption == IsFiniteSet(Task)
ASSUME LeadAssumption ==
    /\ Lead \in [Replica -> Nat]
    /\ Spread \in {Lead[p] : p \in Replica}
    /\ \A p \in Replica : Lead[p] <= Spread
ASSUME WeightAssumption ==
    {Base, Floor, Target} \subseteq Nat \ {0} /\ Latency \subseteq Nat /\ Floor <= Base
ASSUME BoundAssumption == {MaxAttempt, MaxPipeline, MaxTick, MaxSamples, MaxTime} \subseteq Nat
\* A tick that succeeds ends before the keys it reads expire, and a pipeline
\* before its own key does.
ASSUME KeyAssumption ==
    Spread + MaxTick < 3 * Window /\ Spread + MaxPipeline < 4 * Window

Ttl == Window * 4
Second == -Window .. MaxTime + Spread
Field == {"successes", "failures", "latency_sum_ms", "latency_count"}
Zero == [f \in Field |-> 0]
Never == MaxTime + Ttl + 1     \* the key has no expiry
NotShut == -1
NoReplica == "no_replica"

VARIABLES
    now,
    hash,       \* hash[s]: the hash of second s, Zero when there is no such key
    expires,    \* expires[s]: when Redis drops it
    pc,         \* where each attempt is
    on,         \* on[t]: the replica that makes it
    since,      \* since[t]: when it, or its record, began
    stamp,      \* stamp[t]: the second it is recorded under
    todo,       \* todo[t]: commands of its pipeline not yet executed
    reading,    \* reading[p]: is p's refresh task in a tick?
    asof,       \* asof[p]: the last second its aggregate reads
    unread,     \* unread[p]: the next one, beyond asof[p] when all are read
    sums,       \* sums[p]: what it has read
    published,  \* published[p]: when p's weight cache was last replaced
    weighed,    \* weighed[p]: does the cache give the candidate a weight?
    samples,    \* attempts made
    recorded,   \* history: outcomes ever counted under each second
    due,        \* history: due[p]: those counted when p's aggregate began
    broken,     \* history: seconds with a pipeline that ended half-way
    shut        \* history: since when no replica gives a weight, or NotShut

attempt == <<pc, on, since, stamp, todo, samples>>
redis == <<hash, expires, recorded>>
reader == <<reading, asof, unread, sums, due, published, weighed, shut>>
vars == <<now, redis, attempt, reader, broken>>

Clock(p) == now + Lead[p]

Init ==
    /\ now = 0
    /\ hash = [s \in Second |-> Zero]
    /\ expires = [s \in Second |-> Never]
    /\ recorded = [s \in Second |-> 0]
    /\ pc = [t \in Task |-> "idle"]
    /\ on = [t \in Task |-> NoReplica]
    /\ since = [t \in Task |-> 0]
    /\ stamp = [t \in Task |-> 0]
    /\ todo = [t \in Task |-> <<>>]
    /\ samples = 0
    /\ reading = [p \in Replica |-> FALSE]
    /\ asof = [p \in Replica |-> 0]
    /\ unread = [p \in Replica |-> 0]
    /\ sums = [p \in Replica |-> Zero]
    /\ due = [p \in Replica |-> 0]
    /\ published = [p \in Replica |-> 0]
    /\ weighed = [p \in Replica |-> TRUE]
    /\ broken = {}
    /\ shut = NotShut

-----------------------------------------------------------------------------
\* The pipelines of record_success and record_failure: HINCRBYs and an EXPIRE.
\* The counter per kind of error, which nothing reads, is left out.
Increment(field, by) == [field |-> field, by |-> by]
\* Mutant of Expire: the key lives for one window.
ExpireEarly == [field |-> "expire", by |-> Window]
Expire == [field |-> "expire", by |-> Ttl]

\* Mutants: the count before the sum; EXPIRE before there is a key.
RecordSuccessCountFirst(latency) ==
    <<Increment("successes", 1), Increment("latency_count", 1),
      Increment("latency_sum_ms", latency), Expire>>
RecordFailureExpireFirst == <<Expire, Increment("failures", 1)>>

RecordSuccess(latency) ==
    <<Increment("successes", 1), Increment("latency_sum_ms", latency),
      Increment("latency_count", 1), Expire>>

RecordFailure == <<Increment("failures", 1), Expire>>

\* The engine picks the candidate; a weight of 0 is never picked.
Attempts(t, p) ==
    /\ pc[t] = "idle"
    /\ samples < MaxSamples
    /\ weighed[p]
    /\ on' = [on EXCEPT ![t] = p]
    /\ pc' = [pc EXCEPT ![t] = "calling"]
    /\ since' = [since EXCEPT ![t] = now]
    /\ samples' = samples + 1
    /\ UNCHANGED <<now, redis, stamp, todo, reader, broken>>

\* The vendor answers or fails, and the outcome is sent under this second.
Records(t) ==
    /\ pc[t] = "calling"
    /\ pc' = [pc EXCEPT ![t] = "recording"]
    /\ since' = [since EXCEPT ![t] = now]
    /\ stamp' = [stamp EXCEPT ![t] = Clock(on[t])]
    /\ \E commands \in {RecordFailure} \cup {RecordSuccess(l) : l \in Latency} :
          todo' = [todo EXCEPT ![t] = commands]
    /\ UNCHANGED <<now, redis, on, samples, reader, broken>>

Ends(t) ==
    /\ pc' = [pc EXCEPT ![t] = "idle"]
    /\ on' = [on EXCEPT ![t] = NoReplica]
    /\ since' = [since EXCEPT ![t] = 0]
    /\ stamp' = [stamp EXCEPT ![t] = 0]
    /\ todo' = [todo EXCEPT ![t] = <<>>]

\* Redis executes the next command.  EXPIRE of a missing key does nothing.
Executes(t) ==
    /\ pc[t] = "recording"
    /\ LET s == stamp[t]
           command == Head(todo[t])
       IN IF command.field = "expire"
          THEN /\ expires' = IF hash[s] = Zero THEN expires
                             ELSE [expires EXCEPT ![s] = now + command.by]
               /\ UNCHANGED <<hash, recorded>>
          ELSE /\ hash' = [hash EXCEPT ![s][command.field] = @ + command.by]
               /\ recorded' = [recorded EXCEPT ![s] =
                     IF command.field \in {"successes", "failures"} THEN @ + 1 ELSE @]
               /\ UNCHANGED expires
    /\ IF Len(todo[t]) = 1
       THEN Ends(t)
       ELSE todo' = [todo EXCEPT ![t] = Tail(@)] /\ UNCHANGED <<pc, on, since, stamp>>
    /\ UNCHANGED <<now, samples, reader, broken>>

\* The connection breaks, or the process ends: the rest is never executed.
Breaks(t) ==
    /\ pc[t] = "recording"
    /\ broken' = broken \cup {stamp[t]}
    /\ Ends(t)
    /\ UNCHANGED <<now, redis, samples, reader>>

-----------------------------------------------------------------------------
InWindow(p) == asof[p] - Window .. asof[p]

Plus(agg, h) == [f \in Field |-> agg[f] + h[f]]

\* aggregate: the clock is read once, before the pipeline of Reads: each second
\* of the window, oldest first.
AggregateBegins(p) ==
    /\ ~reading[p]
    /\ reading' = [reading EXCEPT ![p] = TRUE]
    /\ asof' = [asof EXCEPT ![p] = Clock(p)]
    /\ unread' = [unread EXCEPT ![p] = Clock(p) - Window]
    /\ sums' = [sums EXCEPT ![p] = Zero]
    /\ due' = [due EXCEPT ![p] = TotalOf(recorded, Clock(p) - Window .. Clock(p))]
    /\ UNCHANGED <<now, redis, attempt, published, weighed, shut, broken>>

Reads(p) ==
    /\ reading[p]
    /\ unread[p] <= asof[p]
    /\ sums' = [sums EXCEPT ![p] = Plus(@, hash[unread[p]])]
    /\ unread' = [unread EXCEPT ![p] = @ + 1]
    /\ UNCHANGED <<now, redis, attempt, reading, asof, due, published, weighed, shut, broken>>

AggregateEnds(p) ==
    /\ reading' = [reading EXCEPT ![p] = FALSE]
    /\ asof' = [asof EXCEPT ![p] = 0]
    /\ unread' = [unread EXCEPT ![p] = 0]
    /\ sums' = [sums EXCEPT ![p] = Zero]
    /\ due' = [due EXCEPT ![p] = 0]

\* Mutant of HasWeight: without traffic the error rate is 1.
HasWeightInTraffic(agg) ==
    LET total == agg.successes + agg.failures
        known == IF agg.latency_count = 0 THEN 1 ELSE agg.latency_count
    IN Base * agg.successes * Target * known
          >= Floor * (IF total = 0 THEN 1 ELSE total) * (Target * known + (IF agg.latency_count = 0 THEN 0 ELSE agg.latency_sum_ms))

\* base_weight * (1 - error_rate) * target / (target + mean) >= floor, with
\* no errors when there is no traffic and a mean of 0 when no latency is known.
HasWeight(agg) ==
    LET total == agg.successes + agg.failures
        healthy == IF total = 0 THEN 1 ELSE agg.successes
        known == IF agg.latency_count = 0 THEN 1 ELSE agg.latency_count
    IN Base * healthy * Target * known
          >= Floor * (IF total = 0 THEN 1 ELSE total) * (Target * known + (IF agg.latency_count = 0 THEN 0 ELSE agg.latency_sum_ms))

\* The tick has all signals and replaces the cache.
Publishes(p) ==
    /\ reading[p]
    /\ unread[p] > asof[p]
    /\ weighed' = [weighed EXCEPT ![p] = HasWeight(sums[p])]
    /\ published' = [published EXCEPT ![p] = now]
    /\ shut' = IF \E q \in Replica : weighed'[q] THEN NotShut
               ELSE IF shut = NotShut THEN now ELSE shut
    /\ AggregateEnds(p)
    /\ UNCHANGED <<now, redis, attempt, broken>>

\* A call of the tick raises; the loop begins another one.
TickFails(p) ==
    /\ reading[p]
    /\ AggregateEnds(p)
    /\ UNCHANGED <<now, redis, attempt, published, weighed, shut, broken>>

-----------------------------------------------------------------------------
\* Time passes, but not beyond the bounds on attempts and ticks.  Redis drops
\* the hashes whose time has come.
Tick ==
    /\ now < MaxTime
    /\ \A t \in Task : /\ pc[t] = "calling" => now < since[t] + MaxAttempt
                       /\ pc[t] = "recording" => now < since[t] + MaxPipeline
    /\ \A p \in Replica : now < published[p] + MaxTick
    /\ now' = now + 1
    /\ LET gone == {s \in Second : expires[s] <= now + 1}
       IN /\ hash' = [s \in Second |-> IF s \in gone THEN Zero ELSE hash[s]]
          /\ expires' = [s \in Second |-> IF s \in gone THEN Never ELSE expires[s]]
    /\ UNCHANGED <<recorded, attempt, reader, broken>>

Next ==
    \/ \E t \in Task, p \in Replica : Attempts(t, p)
    \/ \E t \in Task : Records(t) \/ Executes(t) \/ Breaks(t)
    \/ \E p \in Replica : AggregateBegins(p) \/ Reads(p) \/ Publishes(p) \/ TickFails(p)
    \/ Tick

Spec == Init /\ [][Next]_vars

-----------------------------------------------------------------------------
TypeOK ==
    /\ now \in 0 .. MaxTime
    /\ hash \in [Second -> [Field -> Nat]]
    /\ expires \in [Second -> 0 .. Never]
    /\ pc \in [Task -> {"idle", "calling", "recording"}]
    /\ on \in [Task -> Replica \cup {NoReplica}]
    /\ since \in [Task -> 0 .. now]
    /\ stamp \in [Task -> Second]
    /\ \A t \in Task : todo[t] # <<>> <=> pc[t] = "recording"
    /\ reading \in [Replica -> BOOLEAN]
    /\ asof \in [Replica -> Second]
    /\ unread \in [Replica -> -Window .. MaxTime + Spread + 1]
    /\ sums \in [Replica -> [Field -> Nat]]
    /\ published \in [Replica -> 0 .. now]
    /\ weighed \in [Replica -> BOOLEAN]
    /\ samples \in 0 .. MaxSamples
    /\ recorded \in [Second -> Nat]
    /\ due \in [Replica -> Nat]
    /\ broken \subseteq Second
    /\ shut \in {NotShut} \cup 0 .. now

\* An aggregate is not a snapshot: samples arrive, and keys expire, between
\* its HMGETs.  Still it lies between the outcomes its window had when it began
\* and those it has when it ends: no outcome of the window is missed because its
\* key expired or its second was skipped, and none is counted twice.
AggregateBracketed ==
    \A p \in Replica : reading[p] /\ unread[p] > asof[p] =>
        LET total == sums[p].successes + sums[p].failures
        IN due[p] <= total /\ total <= TotalOf(recorded, InWindow(p))

\* A sample is a sum and a count written by two commands, between which any
\* aggregate may read and after the first of which the connection may break.
\* The mean is never lower than what the attempts counted took: a torn sample
\* may make a candidate look slower, never faster.
MeanNotFlattered ==
    \A fast \in Latency : (\A l \in Latency : fast <= l) =>
        \A p \in Replica : sums[p].latency_sum_ms >= sums[p].latency_count * fast

\* A hash that Redis would keep for ever is one whose pipeline has not come to
\* its EXPIRE, or never did.
HashesExpire ==
    \A s \in Second : hash[s] # Zero /\ expires[s] = Never =>
        \/ s \in broken
        \/ \E t \in Task : pc[t] = "recording" /\ stamp[t] = s

\* A candidate whose failures cost it its weight everywhere gets no attempts,
\* hence no successes to redeem it: only the window can.  It does: however many
\* attempts were under way, and whatever the clocks say, some replica weighs it
\* again after the last of them, a window and two ticks.
ExclusionEnds ==
    shut # NotShut => now <= shut + MaxAttempt + Window + 2 * MaxTick
=============================================================================
