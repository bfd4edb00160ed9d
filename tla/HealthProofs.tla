---------------------------- MODULE HealthProofs ----------------------------
(***************************************************************************)
(* From the health of a candidate to its weight, and from the weights to a *)
(* draw: the observer for every fleet, window and pace of its tasks, and   *)
(* the weight engine for every configuration and all signals.              *)
(***************************************************************************)
EXTENDS Observer, Weights, FiniteSetTheorems, FunctionTheorems, WellFoundedInduction,
    TLAPS

-----------------------------------------------------------------------------
(* Sums: a number of units, hence what the library says of cardinalities.  *)

LEMMA TotalNat ==
    ASSUME NEW S, IsFiniteSet(S), NEW f, \A s \in S : f[s] \in Nat
    PROVE  IsFiniteSet(UnitsOf(f, S)) /\ TotalOf(f, S) \in Nat
<1> DEFINE Of(s) == {s} \X (1 .. f[s])
           T == {Of(s) : s \in S}
           of == [s \in S |-> Of(s)]
<1>1. \A s \in S : IsFiniteSet(Of(s))
  <2> TAKE s \in S
  <2>1. IsFiniteSet({s})
    BY FS_Singleton
  <2>2. IsFiniteSet(1 .. f[s])
    BY FS_Interval
  <2> QED
    BY <2>1, <2>2, FS_Product
<1>2. UnitsOf(f, S) = UNION T
  BY DEF UnitsOf
<1>3. of \in Surjection(S, T)
  BY DEF Surjection
<1>4. \A u \in T : IsFiniteSet(u)
  BY <1>1
<1> HIDE DEF T, of
<1>5. IsFiniteSet(T)
  BY <1>3, FS_Surjection
<1>6. IsFiniteSet(UNION T)
  BY <1>4, <1>5, FS_UNION
<1> QED
  BY <1>2, <1>6, FS_CardinalityType DEF TotalOf

LEMMA TotalMonotonic ==
    ASSUME NEW S, NEW T, IsFiniteSet(T), S \subseteq T, NEW f, NEW g,
           \A s \in T : g[s] \in Nat, \A s \in S : f[s] \in Nat /\ f[s] <= g[s]
    PROVE  TotalOf(f, S) <= TotalOf(g, T)
<1>1. ASSUME NEW u \in UnitsOf(f, S)
      PROVE  u \in UnitsOf(g, T)
  <2>1. PICK s \in S : u \in {s} \X (1 .. f[s])
    BY DEF UnitsOf
  <2>2. s \in T /\ 1 .. f[s] \subseteq 1 .. g[s]
    OBVIOUS
  <2>3. u \in {s} \X (1 .. g[s])
    BY <2>1, <2>2
  <2> QED
    BY <2>2, <2>3 DEF UnitsOf
<1>2. IsFiniteSet(UnitsOf(g, T))
  BY TotalNat
<1> QED
  BY <1>1, <1>2, FS_Subset DEF TotalOf

LEMMA TotalSame ==
    ASSUME NEW S, NEW f, NEW g, \A s \in S : f[s] = g[s]
    PROVE  TotalOf(f, S) = TotalOf(g, S)
<1>1. UnitsOf(f, S) = UnitsOf(g, S)
  BY DEF UnitsOf
<1> QED
  BY <1>1 DEF TotalOf

LEMMA TotalEmpty == ASSUME NEW f PROVE TotalOf(f, {}) = 0
<1>1. UnitsOf(f, {}) = {}
  BY DEF UnitsOf
<1> QED
  BY <1>1, FS_EmptySet DEF TotalOf

LEMMA TotalAdds ==
    ASSUME NEW S, IsFiniteSet(S), NEW x, x \notin S,
           NEW f, \A s \in S \cup {x} : f[s] \in Nat
    PROVE  TotalOf(f, S \cup {x}) = TotalOf(f, S) + f[x]
<1> DEFINE A == UnitsOf(f, S)
           B == {x} \X (1 .. f[x])
<1>1. UnitsOf(f, S \cup {x}) = A \cup B
  BY DEF UnitsOf
<1>2. A \cap B = {}
  BY DEF UnitsOf
<1>3. IsFiniteSet(A) /\ Cardinality(A) \in Nat
  BY TotalNat DEF TotalOf
<1>4. IsFiniteSet(B) /\ Cardinality(B) = f[x]
  <2>1. IsFiniteSet({x}) /\ Cardinality({x}) = 1
    BY FS_Singleton
  <2>2. IsFiniteSet(1 .. f[x]) /\ Cardinality(1 .. f[x]) = f[x]
    BY FS_Interval
  <2>3. IsFiniteSet(B) /\ Cardinality(B) = 1 * f[x]
    BY <2>1, <2>2, FS_Product
  <2> QED
    BY <2>3
<1> HIDE DEF A, B
<1>5. Cardinality(A \cup B) = Cardinality(A) + Cardinality(B) - Cardinality(A \cap B)
  BY <1>3, <1>4, FS_Union
<1>6. Cardinality(A \cap B) = 0
  BY <1>2, FS_EmptySet
<1>7. Cardinality(A \cup B) = Cardinality(A) + f[x]
  BY <1>3, <1>4, <1>5, <1>6
<1> QED
  BY <1>1, <1>7 DEF TotalOf, A

\* A sum over an interval grows by its last second, and by its first.
LEMMA TotalLast ==
    ASSUME NEW a \in Int, NEW b \in Int, a <= b, NEW f, \A s \in a .. b : f[s] \in Nat
    PROVE  TotalOf(f, a .. b) = TotalOf(f, a .. b - 1) + f[b]
<1>1. IsFiniteSet(a .. b - 1)
  BY FS_Interval
<1>2. a .. b = (a .. b - 1) \cup {b} /\ b \notin a .. b - 1
  OBVIOUS
<1>3. \A s \in (a .. b - 1) \cup {b} : f[s] \in Nat
  BY <1>2
<1> QED
  BY <1>1, <1>2, <1>3, TotalAdds

LEMMA TotalFirst ==
    ASSUME NEW a \in Int, NEW b \in Int, a <= b, NEW f, \A s \in a .. b : f[s] \in Nat
    PROVE  TotalOf(f, a .. b) = f[a] + TotalOf(f, a + 1 .. b)
<1>1. IsFiniteSet(a + 1 .. b)
  BY FS_Interval
<1>2. a .. b = (a + 1 .. b) \cup {a} /\ a \notin a + 1 .. b
  OBVIOUS
<1>3. \A s \in (a + 1 .. b) \cup {a} : f[s] \in Nat
  BY <1>2
<1>4. TotalOf(f, a .. b) = TotalOf(f, a + 1 .. b) + f[a]
  BY <1>1, <1>2, <1>3, TotalAdds
<1>5. TotalOf(f, a + 1 .. b) \in Nat /\ f[a] \in Nat
  BY <1>1, <1>3, TotalNat
<1> QED
  BY <1>4, <1>5

-----------------------------------------------------------------------------
(* The observer.                                                           *)

\* What is left of a pipeline.
Unmatched == <<Increment("latency_count", 1), Expire>>
Unsummed(l) == <<Increment("latency_sum_ms", l), Increment("latency_count", 1), Expire>>
Pipeline ==
    {<<Expire>>, Unmatched, RecordFailure}
    \cup {Unsummed(l) : l \in Latency}
    \cup {RecordSuccess(l) : l \in Latency}

\* What the steps need of the types.
Types ==
    /\ now \in Nat /\ now <= MaxTime
    /\ hash \in [Second -> [Field -> Nat]]
    /\ expires \in [Second -> 0 .. Never]
    /\ recorded \in [Second -> Nat]
    /\ pc \in [Task -> {"idle", "calling", "recording"}]
    /\ on \in [Task -> Replica \cup {NoReplica}]
    /\ since \in [Task -> Nat]
    /\ stamp \in [Task -> Second]
    /\ todo \in [Task -> Pipeline \cup {<<>>}]
    /\ samples \in Nat
    /\ reading \in [Replica -> BOOLEAN]
    /\ asof \in [Replica -> Second]
    /\ unread \in [Replica -> Int]
    /\ sums \in [Replica -> [Field -> Nat]]
    /\ due \in [Replica -> Nat]
    /\ published \in [Replica -> Nat]
    /\ weighed \in [Replica -> BOOLEAN]
    /\ shut \in Nat \cup {NotShut}
    /\ broken \subseteq Second
    /\ samples <= MaxSamples

\* Attempts, pipelines and ticks are within their bounds.
Pacing ==
    /\ \A t \in Task : pc[t] # "idle" => on[t] \in Replica
    /\ \A t \in Task : pc[t] = "recording" <=> todo[t] # <<>>
    /\ \A t \in Task : since[t] <= now
    /\ \A t \in Task : pc[t] = "calling" => now <= since[t] + MaxAttempt
    /\ \A t \in Task : pc[t] = "recording" =>
          now <= since[t] + MaxPipeline /\ since[t] <= stamp[t] /\ stamp[t] <= since[t] + Spread
    /\ \A p \in Replica : published[p] <= now /\ now <= published[p] + MaxTick
    /\ \A p \in Replica : reading[p] =>
          /\ published[p] + Lead[p] <= asof[p] /\ asof[p] <= now + Lead[p]
          /\ asof[p] - Window <= unread[p] /\ unread[p] <= asof[p] + 1
    /\ \A p \in Replica : ~reading[p] => unread[p] = 0

\* The first time at which Redis may drop the hash of a second.
Dies(s) == s - Spread + Ttl

\* Until then nothing of it is lost.
Outcomes(h) == h.successes + h.failures
Alive ==
    /\ \A s \in Second : expires[s] # Never => Dies(s) <= expires[s]
    /\ \A s \in Second : now < Dies(s) => Outcomes(hash[s]) = recorded[s]

\* An aggregate that is being read has at most what was ever counted in the
\* seconds it has read, and with the rest of them at least what was due.
Bracketed ==
    \A p \in Replica : reading[p] =>
        /\ Outcomes(sums[p]) <= TotalOf(recorded, asof[p] - Window .. unread[p] - 1)
        /\ due[p] <= Outcomes(sums[p]) + TotalOf(recorded, unread[p] .. asof[p])

\* The samples of a second whose sum is written and whose count is not.
Torn(s) == {t \in Task : pc[t] = "recording" /\ stamp[t] = s /\ todo[t] = Unmatched}
Covers(fast, h, n) == h.latency_sum_ms >= fast * (h.latency_count + n)
\* No hash makes a success faster than fast, not even once the count follows a
\* sum that is written, and no aggregate does.
NotFlattered(fast) ==
    /\ \A s \in Second : Covers(fast, hash[s], Cardinality(Torn(s)))
    /\ \A p \in Replica : sums[p].latency_sum_ms >= fast * sums[p].latency_count
Fair == \A fast \in Latency : (\A l \in Latency : fast <= l) => NotFlattered(fast)

\* The last second that may have an outcome, and the last publication, once no
\* replica gives a weight.
LastSecond == shut + MaxAttempt + Spread
Closing ==
    /\ \A s \in Second : hash[s] # Zero => s <= now + Spread
    /\ shut # NotShut =>
          /\ shut <= now
          /\ \A p \in Replica : ~weighed[p]
          /\ \A t \in Task : pc[t] = "calling" => since[t] <= shut
          /\ \A t \in Task : pc[t] = "recording" => stamp[t] <= LastSecond
          /\ \A s \in Second : hash[s] # Zero => s <= LastSecond
          /\ \A p \in Replica : Lead[p] = Spread =>
                /\ reading[p] /\ asof[p] > LastSecond + Window => sums[p] = Zero
                /\ published[p] <= shut + MaxAttempt + Window + MaxTick

\* The invariant that is inductive.
IInv == Types /\ Pacing /\ Alive /\ Bracketed /\ Fair /\ HashesExpire /\ Closing

-----------------------------------------------------------------------------
LEMMA ConstantFacts ==
    /\ Window \in Nat /\ Window > 0 /\ Ttl \in Nat /\ Ttl = 4 * Window
    /\ Spread \in Nat
    /\ \A p \in Replica : Lead[p] \in Nat /\ Lead[p] <= Spread
    /\ \E p \in Replica : Lead[p] = Spread
    /\ MaxAttempt \in Nat /\ MaxPipeline \in Nat /\ MaxTick \in Nat /\ MaxTime \in Nat
    /\ MaxSamples \in Nat
    /\ Spread + MaxTick < 3 * Window /\ Spread + MaxPipeline < 4 * Window
    /\ Second \subseteq Int
    /\ Latency \subseteq Nat
    /\ Never \in Nat
  BY WindowAssumption, LeadAssumption, WeightAssumption, BoundAssumption, KeyAssumption
     DEF Ttl, Second, Never

\* What is left of a pipeline, and what its next command is.
LEMMA PipelineFacts ==
    ASSUME NEW q \in Pipeline
    PROVE  /\ q # <<>>
           /\ Len(q) = 1 => q = <<Expire>>
           /\ Head(q).field = "expire" => q = <<Expire>>
           /\ Head(q).field = "expire" => Len(q) = 1
           /\ Head(q).field # "expire" =>
                 /\ Len(q) # 1 /\ Tail(q) \in Pipeline
                 /\ Head(q).field \in Field /\ Head(q).by \in Nat
           /\ Head(q).field \in {"successes", "failures", "latency_count"} => Head(q).by = 1
           /\ Head(q).field = "latency_count" <=> q = Unmatched
           /\ Head(q).field = "latency_sum_ms" <=> Tail(q) = Unmatched
           /\ Head(q).field = "latency_sum_ms" => Head(q).by \in Latency
<1> USE DEF Unmatched, Unsummed, Increment, Expire, RecordSuccess, RecordFailure, Field
<1>1. CASE q = <<Expire>>
  BY <1>1, ConstantFacts
<1>2. CASE q = Unmatched
  <2>1. Tail(q) = <<Expire>> /\ Head(q) = Increment("latency_count", 1) /\ Len(q) = 2
    BY <1>2
  <2> QED
    BY <1>2, <2>1 DEF Pipeline
<1>3. CASE q = RecordFailure
  <2>1. Tail(q) = <<Expire>> /\ Head(q) = Increment("failures", 1) /\ Len(q) = 2
    BY <1>3
  <2> QED
    BY <1>3, <2>1 DEF Pipeline
<1>4. ASSUME NEW l \in Latency, q = Unsummed(l)
      PROVE  /\ Tail(q) = Unmatched /\ Head(q) = Increment("latency_sum_ms", l) /\ Len(q) = 3
  BY <1>4
<1>5. ASSUME NEW l \in Latency, q = RecordSuccess(l)
      PROVE  /\ Tail(q) = Unsummed(l)
             /\ Head(q) = Increment("successes", 1) /\ Len(q) = 4
  BY <1>5
<1>6. CASE \E l \in Latency : q = Unsummed(l)
  BY <1>4, <1>6, ConstantFacts DEF Pipeline
<1>7. CASE \E l \in Latency : q = RecordSuccess(l)
  <2>1. PICK l \in Latency : q = RecordSuccess(l)
    BY <1>7
  <2>2. /\ Tail(q) = Unsummed(l) /\ Tail(q) # Unmatched
        /\ Head(q) = Increment("successes", 1) /\ Len(q) = 4
    BY <1>5, <2>1
  <2>3. Tail(q) \in Pipeline
    BY <2>2 DEF Pipeline
  <2> QED
    BY <2>1, <2>2, <2>3
<1> QED
  BY <1>1, <1>2, <1>3, <1>6, <1>7 DEF Pipeline

\* Totals of what was recorded, over any seconds the model has.
LEMMA RecordedFacts ==
    ASSUME Types, NEW a \in Int, NEW b \in Int, a .. b \subseteq Second
    PROVE  /\ \A s \in a .. b : recorded[s] \in Nat
           /\ TotalOf(recorded, a .. b) \in Nat
<1>1. \A s \in a .. b : recorded[s] \in Nat
  BY DEF Types
<1>2. IsFiniteSet(a .. b)
  BY FS_Interval
<1> QED
  BY <1>1, <1>2, TotalNat

LEMMA InitHolds == Init => IInv
<1> SUFFICES ASSUME Init PROVE IInv
  OBVIOUS
<1> USE DEF Init
<1>1. \A s \in Second : hash[s] = Zero /\ expires[s] = Never /\ recorded[s] = 0
  OBVIOUS
<1>2. 0 \in Second /\ Zero \in [Field -> Nat] /\ Never \in 0 .. Never
  BY ConstantFacts DEF Second, Zero
<1>3. Types
  BY <1>2, ConstantFacts DEF Types
<1>4. Pacing
  BY ConstantFacts DEF Pacing
<1>5. Alive
  BY <1>1, ConstantFacts DEF Alive, Zero, Field, Outcomes
<1>6. Bracketed
  BY DEF Bracketed
<1>7. Fair
  <2> SUFFICES ASSUME NEW fast \in Latency PROVE NotFlattered(fast)
    BY DEF Fair
  <2>1. \A s \in Second : Torn(s) = {}
    BY DEF Torn
  <2>2. \A s \in Second : Cardinality(Torn(s)) = 0
    BY <2>1, FS_EmptySet
  <2>3. Zero.latency_sum_ms = 0 /\ Zero.latency_count = 0
    BY DEF Zero, Field
  <2>4. fast * (0 + 0) = 0 /\ fast * 0 = 0
    BY ConstantFacts
  <2> QED
    BY <1>1, <2>2, <2>3, <2>4 DEF NotFlattered, Covers
<1>8. HashesExpire
  BY <1>1 DEF HashesExpire
<1>9. Closing
  BY <1>1 DEF Closing
<1> QED
  BY <1>3, <1>4, <1>5, <1>6, <1>7, <1>8, <1>9 DEF IInv

-----------------------------------------------------------------------------
LEMMA ClockFacts ==
    ASSUME Types, NEW p \in Replica
    PROVE  /\ Clock(p) \in Second /\ Clock(p) - Window \in Second
           /\ Clock(p) = now + Lead[p]
           /\ Clock(p) - Window .. Clock(p) \subseteq Second
           /\ Clock(p) \in Nat
<1>1. Lead[p] \in Nat /\ Lead[p] <= Spread /\ now \in Nat /\ now <= MaxTime
  BY ConstantFacts DEF Types
<1>2. Window \in Nat /\ Spread \in Nat /\ MaxTime \in Nat
  BY ConstantFacts
<1> QED
  BY <1>1, <1>2 DEF Second, Clock

LEMMA EndsTypes ==
    ASSUME Types, NEW t \in Task, Ends(t)
    PROVE  /\ pc' \in [Task -> {"idle", "calling", "recording"}]
           /\ on' \in [Task -> Replica \cup {NoReplica}]
           /\ since' \in [Task -> Nat]
           /\ stamp' \in [Task -> Second]
           /\ todo' \in [Task -> Pipeline \cup {<<>>}]
<1>1. 0 \in Second
  BY ConstantFacts DEF Second
<1> QED
  BY <1>1 DEF Types, Ends

LEMMA AggregateEndsTypes ==
    ASSUME Types, NEW p \in Replica, AggregateEnds(p)
    PROVE  /\ reading' \in [Replica -> BOOLEAN]
           /\ asof' \in [Replica -> Second]
           /\ unread' \in [Replica -> Int]
           /\ sums' \in [Replica -> [Field -> Nat]]
           /\ due' \in [Replica -> Nat]
<1>1. 0 \in Second /\ Zero \in [Field -> Nat]
  BY ConstantFacts DEF Second, Zero
<1> QED
  BY <1>1 DEF Types, AggregateEnds

\* What a command changes of the hash of its second.
LEMMA ExecutesFacts ==
    ASSUME Types, Pacing, NEW t \in Task, Executes(t)
    PROVE  /\ pc[t] = "recording" /\ todo[t] \in Pipeline /\ stamp[t] \in Second
           /\ \/ /\ todo[t] = <<Expire>> /\ Ends(t)
                 /\ \/ hash[stamp[t]] = Zero /\ UNCHANGED expires
                    \/ /\ hash[stamp[t]] # Zero
                       /\ expires' = [expires EXCEPT ![stamp[t]] = now + Ttl]
                 /\ UNCHANGED <<hash, recorded>>
              \/ /\ Head(todo[t]).field \in Field /\ Head(todo[t]).by \in Nat
                 /\ Tail(todo[t]) \in Pipeline
                 /\ hash' = [hash EXCEPT ![stamp[t]][Head(todo[t]).field] = @ + Head(todo[t]).by]
                 /\ recorded' = [recorded EXCEPT ![stamp[t]] =
                       IF Head(todo[t]).field \in {"successes", "failures"} THEN @ + 1 ELSE @]
                 /\ todo' = [todo EXCEPT ![t] = Tail(@)]
                 /\ UNCHANGED <<expires, pc, on, since, stamp>>
           /\ UNCHANGED <<now, samples, reader, broken>>
<1> DEFINE q == todo[t]
<1>1. pc[t] = "recording" /\ q # <<>> /\ stamp[t] \in Second /\ q \in Pipeline \cup {<<>>}
  BY DEF Executes, Types, Pacing
<1>2. q \in Pipeline
  BY <1>1
<1> HIDE DEF q
<1>3. CASE Head(q).field = "expire"
  <2>1. q = <<Expire>> /\ Len(q) = 1 /\ Head(q).by = Ttl
    BY <1>2, <1>3, PipelineFacts DEF Expire
  <2> QED
    BY <1>1, <1>2, <1>3, <2>1 DEF Executes, q
<1>4. CASE Head(q).field # "expire"
  <2>1. Len(q) # 1 /\ Tail(q) \in Pipeline /\ Head(q).field \in Field /\ Head(q).by \in Nat
    BY <1>2, <1>4, PipelineFacts
  <2> QED
    BY <1>1, <1>2, <1>4, <2>1 DEF Executes, q
<1> QED
  BY <1>3, <1>4

\* The hash of a second that is counted up.
LEMMA CountsUp ==
    ASSUME Types, NEW s \in Second, NEW f \in Field, NEW n \in Nat,
           hash' = [hash EXCEPT ![s][f] = @ + n]
    PROVE  /\ hash' \in [Second -> [Field -> Nat]]
           /\ \A x \in Second : x # s => hash'[x] = hash[x]
           /\ hash'[s][f] = hash[s][f] + n
           /\ \A g \in Field : g # f => hash'[s][g] = hash[s][g]
<1>1. hash[s] \in [Field -> Nat]
  BY DEF Types
<1>2. hash' = [hash EXCEPT ![s] = [hash[s] EXCEPT ![f] = hash[s][f] + n]]
  OBVIOUS
<1>3. [hash[s] EXCEPT ![f] = hash[s][f] + n] \in [Field -> Nat]
  BY <1>1
<1>4. /\ [hash[s] EXCEPT ![f] = hash[s][f] + n][f] = hash[s][f] + n
      /\ \A g \in Field : g # f => [hash[s] EXCEPT ![f] = hash[s][f] + n][g] = hash[s][g]
  BY <1>1
<1>5. hash \in [Second -> [Field -> Nat]]
  BY DEF Types
<1> HIDE DEF Field
<1>6. hash' \in [Second -> [Field -> Nat]]
  BY <1>2, <1>3, <1>5
<1>7. hash'[s] = [hash[s] EXCEPT ![f] = hash[s][f] + n]
  BY <1>2, <1>5
<1> QED
  BY <1>2, <1>4, <1>5, <1>6, <1>7

-----------------------------------------------------------------------------
LEMMA TypesStep == IInv /\ [Next]_vars => Types'
<1> SUFFICES ASSUME IInv, [Next]_vars PROVE Types'
  OBVIOUS
<1>0. Types /\ Pacing
  BY DEF IInv
<1> USE DEF attempt, redis, reader
<1>1. ASSUME NEW t \in Task, NEW p \in Replica, Attempts(t, p)
      PROVE  Types'
  <2>1. /\ pc' \in [Task -> {"idle", "calling", "recording"}]
        /\ on' \in [Task -> Replica \cup {NoReplica}]
        /\ since' \in [Task -> Nat]
        /\ samples' \in Nat /\ samples' <= MaxSamples
    BY <1>0, <1>1, ConstantFacts DEF Types, Attempts
  <2> QED
    BY <1>0, <1>1, <2>1 DEF Types, Attempts
<1>2. ASSUME NEW t \in Task, Records(t)
      PROVE  Types'
  <2>1. Clock(on[t]) \in Second
    BY <1>0, <1>2, ClockFacts DEF Records, Pacing
  <2>2. \A commands \in {RecordFailure} \cup {RecordSuccess(l) : l \in Latency} :
            commands \in Pipeline
    BY DEF Pipeline
  <2>3. /\ pc' \in [Task -> {"idle", "calling", "recording"}]
        /\ since' \in [Task -> Nat]
        /\ stamp' \in [Task -> Second]
    BY <1>0, <1>2, <2>1 DEF Types, Records
  <2>4. todo' \in [Task -> Pipeline \cup {<<>>}]
    <3>1. PICK commands \in Pipeline : todo' = [todo EXCEPT ![t] = commands]
      BY <1>2, <2>2 DEF Records
    <3> QED
      BY <1>0, <3>1 DEF Types
  <2> QED
    BY <1>0, <1>2, <2>3, <2>4 DEF Types, Records
<1>3. ASSUME NEW t \in Task, Executes(t)
      PROVE  Types'
  <2> DEFINE s == stamp[t]
             f == Head(todo[t]).field
             n == Head(todo[t]).by
  <2>1. s \in Second
    BY <1>0, <1>3, ExecutesFacts
  <2> HIDE DEF s, f, n
  <2>2. CASE Ends(t) /\ UNCHANGED <<hash, recorded>>
             /\ \/ hash[s] = Zero /\ UNCHANGED expires
                \/ hash[s] # Zero /\ expires' = [expires EXCEPT ![s] = now + Ttl]
             /\ UNCHANGED <<now, samples, reader, broken>>
    <3>1. now + Ttl \in 0 .. Never
      BY <1>0, ConstantFacts DEF Types, Never
    <3>2. expires' \in [Second -> 0 .. Never]
      <4>1. expires \in [Second -> 0 .. Never]
        BY <1>0 DEF Types
      <4> HIDE DEF Never
      <4> QED
        BY <2>1, <2>2, <3>1, <4>1
    <3> QED
      BY <1>0, <2>2, <3>2, EndsTypes DEF Types
  <2>3. CASE /\ f \in Field /\ n \in Nat /\ Tail(todo[t]) \in Pipeline
             /\ hash' = [hash EXCEPT ![s][f] = @ + n]
             /\ recorded' = [recorded EXCEPT ![s] =
                    IF f \in {"successes", "failures"} THEN @ + 1 ELSE @]
             /\ todo' = [todo EXCEPT ![t] = Tail(@)]
             /\ UNCHANGED <<expires, pc, on, since, stamp>>
             /\ UNCHANGED <<now, samples, reader, broken>>
    <3>1. hash' \in [Second -> [Field -> Nat]]
      BY <1>0, <2>1, <2>3, CountsUp
    <3>2. recorded' \in [Second -> Nat]
      BY <1>0, <2>1, <2>3 DEF Types
    <3>3. todo' \in [Task -> Pipeline \cup {<<>>}]
      BY <1>0, <2>3 DEF Types
    <3> QED
      BY <1>0, <2>3, <3>1, <3>2, <3>3 DEF Types
  <2> QED
    BY <1>0, <1>3, <2>2, <2>3, ExecutesFacts DEF s, f, n
<1>4. ASSUME NEW t \in Task, Breaks(t)
      PROVE  Types'
  <2>1. broken' \subseteq Second
    BY <1>0, <1>4 DEF Types, Breaks
  <2> QED
    BY <1>0, <1>4, <2>1, EndsTypes DEF Types, Breaks
<1>5. ASSUME NEW p \in Replica, AggregateBegins(p)
      PROVE  Types'
  <2>1. /\ Clock(p) \in Second /\ Clock(p) - Window \in Second
        /\ Clock(p) \in Int /\ Clock(p) - Window \in Int
        /\ Clock(p) - Window .. Clock(p) \subseteq Second
    BY <1>0, ClockFacts, ConstantFacts
  <2>2. TotalOf(recorded, Clock(p) - Window .. Clock(p)) \in Nat
    BY <1>0, <2>1, RecordedFacts
  <2>3. Zero \in [Field -> Nat]
    BY DEF Zero
  <2>4. /\ reading' \in [Replica -> BOOLEAN]
        /\ asof' \in [Replica -> Second]
        /\ unread' \in [Replica -> Int]
        /\ sums' \in [Replica -> [Field -> Nat]]
        /\ due' \in [Replica -> Nat]
    BY <1>0, <1>5, <2>1, <2>2, <2>3 DEF Types, AggregateBegins
  <2> QED
    BY <1>0, <1>5, <2>4 DEF Types, AggregateBegins
<1>6. ASSUME NEW p \in Replica, Reads(p)
      PROVE  Types'
  <2>1. unread[p] \in Second
    <3>1. /\ asof[p] - Window <= unread[p] /\ unread[p] <= asof[p] /\ unread[p] \in Int
          /\ asof[p] \in Second /\ published[p] + Lead[p] <= asof[p] /\ published[p] \in Nat
      BY <1>0, <1>6 DEF Reads, Pacing, Types
    <3> QED
      BY <3>1, ConstantFacts DEF Second
  <2>2. Plus(sums[p], hash[unread[p]]) \in [Field -> Nat]
    <3>1. sums[p] \in [Field -> Nat] /\ hash[unread[p]] \in [Field -> Nat]
      BY <1>0, <2>1 DEF Types
    <3> QED
      BY <3>1 DEF Plus
  <2>3. unread' \in [Replica -> Int] /\ sums' \in [Replica -> [Field -> Nat]]
    BY <1>0, <1>6, <2>2 DEF Types, Reads
  <2> QED
    BY <1>0, <1>6, <2>3 DEF Types, Reads
<1>7. ASSUME NEW p \in Replica, Publishes(p)
      PROVE  Types'
  <2>1. weighed' \in [Replica -> BOOLEAN]
    <3>1. HasWeight(sums[p]) \in BOOLEAN
      BY DEF HasWeight
    <3> QED
      BY <1>0, <1>7, <3>1 DEF Types, Publishes
  <2>2. published' \in [Replica -> Nat] /\ shut' \in Nat \cup {NotShut}
    BY <1>0, <1>7 DEF Types, Publishes
  <2> QED
    BY <1>0, <1>7, <2>1, <2>2, AggregateEndsTypes DEF Types, Publishes
<1>8. ASSUME NEW p \in Replica, TickFails(p)
      PROVE  Types'
  BY <1>0, <1>8, AggregateEndsTypes DEF Types, TickFails
<1>9. CASE Tick
  <2>1. now' \in Nat /\ now' <= MaxTime
    BY <1>0, <1>9, ConstantFacts DEF Types, Tick
  <2>2. Zero \in [Field -> Nat] /\ Never \in 0 .. Never
    BY ConstantFacts DEF Zero
  <2>3. hash' \in [Second -> [Field -> Nat]] /\ expires' \in [Second -> 0 .. Never]
    BY <1>0, <1>9, <2>2 DEF Types, Tick
  <2> QED
    BY <1>0, <1>9, <2>1, <2>3 DEF Types, Tick
<1>10. CASE UNCHANGED vars
  BY <1>0, <1>10 DEF Types, vars
<1> QED
  BY <1>1, <1>2, <1>3, <1>4, <1>5, <1>6, <1>7, <1>8, <1>9, <1>10 DEF Next

LEMMA EndsPacing ==
    ASSUME Types, Pacing, NEW t \in Task, Ends(t), now' = now
    PROVE  /\ \A u \in Task : pc'[u] # "idle" => on'[u] \in Replica
           /\ \A u \in Task : pc'[u] = "recording" <=> todo'[u] # <<>>
           /\ \A u \in Task : since'[u] <= now'
           /\ \A u \in Task : pc'[u] = "calling" => now' <= since'[u] + MaxAttempt
           /\ \A u \in Task : pc'[u] = "recording" =>
                 /\ now' <= since'[u] + MaxPipeline
                 /\ since'[u] <= stamp'[u] /\ stamp'[u] <= since'[u] + Spread
<1>1. /\ pc'[t] = "idle" /\ on'[t] = NoReplica /\ todo'[t] = <<>> /\ since'[t] = 0
      /\ \A u \in Task : u # t => /\ pc'[u] = pc[u] /\ on'[u] = on[u] /\ todo'[u] = todo[u]
                                  /\ since'[u] = since[u] /\ stamp'[u] = stamp[u]
  BY DEF Ends, Types
<1>2. 0 <= now /\ pc'[t] # "recording" /\ pc'[t] # "calling"
  BY <1>1 DEF Types
<1> QED
  BY <1>1, <1>2 DEF Pacing

LEMMA PacingStep == IInv /\ [Next]_vars => Pacing'
<1> SUFFICES ASSUME IInv, [Next]_vars PROVE Pacing'
  OBVIOUS
<1>0. Types /\ Pacing
  BY DEF IInv
<1> USE DEF attempt, redis, reader
<1>1. ASSUME NEW t \in Task, NEW p \in Replica, Attempts(t, p)
      PROVE  Pacing'
  <2>1. /\ pc'[t] = "calling" /\ on'[t] = p /\ since'[t] = now /\ todo[t] = <<>>
        /\ \A u \in Task : u # t => pc'[u] = pc[u] /\ on'[u] = on[u] /\ since'[u] = since[u]
        /\ UNCHANGED <<now, todo, stamp, published, reading, asof, unread>>
        /\ now \in Nat
    BY <1>0, <1>1 DEF Attempts, Types, Pacing
  <2> QED
    BY <1>0, <2>1, ConstantFacts DEF Pacing
<1>2. ASSUME NEW t \in Task, Records(t)
      PROVE  Pacing'
  <2>1. on[t] \in Replica
    BY <1>0, <1>2 DEF Records, Pacing
  <2>2. now <= Clock(on[t]) /\ Clock(on[t]) <= now + Spread /\ now \in Nat
    BY <1>0, <2>1, ConstantFacts DEF Clock, Types
  <2>3. \A commands \in {RecordFailure} \cup {RecordSuccess(l) : l \in Latency} :
            commands # <<>>
    BY DEF RecordFailure, RecordSuccess
  <2>4. /\ pc'[t] = "recording" /\ since'[t] = now /\ stamp'[t] = Clock(on[t])
        /\ todo'[t] # <<>>
        /\ \A u \in Task : u # t => /\ pc'[u] = pc[u] /\ todo'[u] = todo[u]
                                    /\ since'[u] = since[u] /\ stamp'[u] = stamp[u]
        /\ UNCHANGED <<now, on, published, reading, asof, unread>>
    BY <1>0, <1>2, <2>3 DEF Records, Types
  <2>5. /\ now' <= since'[t] + MaxPipeline /\ since'[t] <= stamp'[t]
        /\ stamp'[t] <= since'[t] + Spread /\ since'[t] <= now'
    BY <2>2, <2>4, ConstantFacts
  <2> QED
    BY <1>0, <2>1, <2>4, <2>5 DEF Pacing
<1>3. ASSUME NEW t \in Task, Executes(t)
      PROVE  Pacing'
  <2>1. UNCHANGED <<now, published, reading, asof, unread>>
    BY <1>3 DEF Executes
  <2>2. CASE Ends(t)
    BY <1>0, <2>1, <2>2, EndsPacing DEF Pacing
  <2>3. CASE /\ Tail(todo[t]) \in Pipeline
             /\ todo' = [todo EXCEPT ![t] = Tail(@)]
             /\ UNCHANGED <<pc, on, since, stamp>>
    <3>1. /\ todo'[t] # <<>> /\ pc[t] = "recording"
          /\ \A u \in Task : u # t => todo'[u] = todo[u]
      BY <1>0, <1>3, <2>3, PipelineFacts DEF Types, Executes
    <3> QED
      BY <1>0, <2>1, <2>3, <3>1 DEF Pacing
  <2> QED
    BY <1>0, <1>3, <2>2, <2>3, ExecutesFacts
<1>4. ASSUME NEW t \in Task, Breaks(t)
      PROVE  Pacing'
  BY <1>0, <1>4, EndsPacing DEF Pacing, Breaks
<1>5. ASSUME NEW p \in Replica, AggregateBegins(p)
      PROVE  Pacing'
  <2>1. /\ asof'[p] = now + Lead[p] /\ unread'[p] = now + Lead[p] - Window /\ reading'[p]
        /\ now \in Nat /\ Lead[p] \in Nat /\ Window \in Nat /\ Window > 0
        /\ \A q \in Replica : q # p => /\ reading'[q] = reading[q] /\ asof'[q] = asof[q]
                                       /\ unread'[q] = unread[q]
        /\ UNCHANGED <<now, pc, on, since, stamp, todo, published>>
    BY <1>0, <1>5, ConstantFacts DEF Types, AggregateBegins, Clock
  <2>2. published[p] \in Nat /\ published[p] <= now
    BY <1>0 DEF Types, Pacing
  <2>3. /\ published'[p] + Lead[p] <= asof'[p] /\ asof'[p] <= now' + Lead[p]
        /\ asof'[p] - Window <= unread'[p] /\ unread'[p] <= asof'[p] + 1
    BY <2>1, <2>2
  <2> QED
    BY <1>0, <2>1, <2>3 DEF Pacing
<1>6. ASSUME NEW p \in Replica, Reads(p)
      PROVE  Pacing'
  <2>1. /\ unread'[p] = unread[p] + 1 /\ unread[p] <= asof[p] /\ reading[p]
        /\ unread[p] \in Int /\ asof[p] \in Int
        /\ \A q \in Replica : q # p => unread'[q] = unread[q]
        /\ UNCHANGED <<now, pc, on, since, stamp, todo, published, reading, asof>>
    BY <1>0, <1>6, ConstantFacts DEF Types, Reads
  <2>2. asof[p] - Window <= unread'[p] /\ unread'[p] <= asof[p] + 1
    BY <1>0, <2>1, ConstantFacts DEF Pacing
  <2> QED
    BY <1>0, <2>1, <2>2 DEF Pacing
<1>7. ASSUME NEW p \in Replica, Publishes(p)
      PROVE  Pacing'
  <2>1. /\ reading'[p] = FALSE /\ unread'[p] = 0 /\ published'[p] = now /\ now \in Nat
        /\ \A q \in Replica : q # p => /\ reading'[q] = reading[q] /\ asof'[q] = asof[q]
                                       /\ unread'[q] = unread[q] /\ published'[q] = published[q]
        /\ UNCHANGED <<now, pc, on, since, stamp, todo>>
    BY <1>0, <1>7 DEF Types, Publishes, AggregateEnds
  <2> QED
    BY <1>0, <2>1, ConstantFacts DEF Pacing
<1>8. ASSUME NEW p \in Replica, TickFails(p)
      PROVE  Pacing'
  <2>1. /\ reading'[p] = FALSE /\ unread'[p] = 0
        /\ \A q \in Replica : q # p => /\ reading'[q] = reading[q] /\ asof'[q] = asof[q]
                                       /\ unread'[q] = unread[q]
        /\ UNCHANGED <<now, pc, on, since, stamp, todo, published>>
    BY <1>0, <1>8 DEF Types, TickFails, AggregateEnds
  <2> QED
    BY <1>0, <2>1 DEF Pacing
<1>9. CASE Tick
  <2>1. /\ now' = now + 1 /\ now \in Nat
        /\ \A t \in Task : /\ pc[t] = "calling" => now < since[t] + MaxAttempt
                           /\ pc[t] = "recording" => now < since[t] + MaxPipeline
        /\ \A p \in Replica : now < published[p] + MaxTick
        /\ UNCHANGED <<pc, on, since, stamp, todo, published, reading, asof, unread>>
    BY <1>0, <1>9 DEF Types, Tick
  <2>2. /\ \A t \in Task : since[t] \in Nat
        /\ \A p \in Replica : published[p] \in Nat /\ asof[p] \in Int /\ Lead[p] \in Nat
        /\ MaxAttempt \in Nat /\ MaxPipeline \in Nat /\ MaxTick \in Nat
    BY <1>0, ConstantFacts DEF Types
  <2> QED
    BY <1>0, <2>1, <2>2 DEF Pacing
<1>10. CASE UNCHANGED vars
  BY <1>0, <1>10 DEF Pacing, vars
<1> QED
  BY <1>1, <1>2, <1>3, <1>4, <1>5, <1>6, <1>7, <1>8, <1>9, <1>10 DEF Next

-----------------------------------------------------------------------------
LEMMA DiesFacts ==
    ASSUME Types, NEW s \in Second
    PROVE  Dies(s) \in Int /\ Dies(s) = s - Spread + 4 * Window /\ s \in Int
  BY ConstantFacts DEF Dies

\* Only the commands of the pipelines and the expiry of keys touch the hashes.
LEMMA AliveStep == IInv /\ [Next]_vars => Alive'
<1> SUFFICES ASSUME IInv, [Next]_vars PROVE Alive'
  OBVIOUS
<1>0. Types /\ Pacing /\ Alive
  BY DEF IInv
<1>1. CASE UNCHANGED <<now, hash, expires, recorded>>
  BY <1>0, <1>1 DEF Alive, Dies
<1>2. ASSUME NEW t \in Task, Executes(t)
      PROVE  Alive'
  <2> DEFINE s == stamp[t]
             f == Head(todo[t]).field
             n == Head(todo[t]).by
  <2>1. /\ s \in Second /\ pc[t] = "recording" /\ now' = now
        /\ todo[t] \in Pipeline
    BY <1>0, <1>2, ExecutesFacts
  <2>2. s <= since[t] + Spread /\ since[t] <= now /\ since[t] \in Nat /\ now \in Nat
    BY <1>0, <2>1 DEF Pacing, Types
  <2>3. Dies(s) <= now + Ttl
    <3>1. s \in Int /\ Dies(s) = s - Spread + 4 * Window
      BY <1>0, <2>1, DiesFacts
    <3>2. Ttl = 4 * Window /\ Window \in Nat /\ Spread \in Nat
      BY ConstantFacts
    <3> HIDE DEF s
    <3> QED
      BY <2>2, <3>1, <3>2
  <2>4. f \in {"successes", "failures", "latency_count"} => n = 1
    BY <2>1, PipelineFacts
  <2> HIDE DEF s, f, n
  <2>5. CASE /\ UNCHANGED <<hash, recorded>>
             /\ \/ UNCHANGED expires
                \/ expires' = [expires EXCEPT ![s] = now + Ttl]
    <3>1. \A x \in Second : expires'[x] # Never => Dies(x) <= expires'[x]
      BY <1>0, <2>1, <2>3, <2>5 DEF Types, Alive
    <3> QED
      BY <1>0, <2>1, <2>5, <3>1 DEF Alive, Dies
  <2>6. CASE /\ f \in Field /\ n \in Nat
             /\ hash' = [hash EXCEPT ![s][f] = @ + n]
             /\ recorded' = [recorded EXCEPT ![s] =
                    IF f \in {"successes", "failures"} THEN @ + 1 ELSE @]
             /\ UNCHANGED expires
    <3>1. \A x \in Second : x # s => hash'[x] = hash[x] /\ recorded'[x] = recorded[x]
      BY <1>0, <2>1, <2>6, CountsUp DEF Types
    <3>2. /\ hash'[s][f] = hash[s][f] + n
          /\ \A g \in Field : g # f => hash'[s][g] = hash[s][g]
      BY <1>0, <2>1, <2>6, CountsUp
    <3>3. recorded'[s] = IF f \in {"successes", "failures"} THEN recorded[s] + 1 ELSE recorded[s]
      BY <1>0, <2>1, <2>6 DEF Types
    <3>4. /\ hash[s].successes \in Nat /\ hash[s].failures \in Nat
          /\ "successes" \in Field /\ "failures" \in Field
      BY <1>0, <2>1 DEF Types, Field
    <3>5. Outcomes(hash[s]) = recorded[s] => Outcomes(hash'[s]) = recorded'[s]
      <4>1. CASE f = "successes"
        BY <2>4, <3>2, <3>3, <3>4, <4>1 DEF Outcomes
      <4>2. CASE f = "failures"
        BY <2>4, <3>2, <3>3, <3>4, <4>2 DEF Outcomes
      <4>3. CASE f \notin {"successes", "failures"}
        BY <3>2, <3>3, <3>4, <4>3 DEF Outcomes
      <4> QED
        BY <4>1, <4>2, <4>3
    <3>6. \A x \in Second : now < Dies(x) => Outcomes(hash'[x]) = recorded'[x]
      BY <1>0, <3>1, <3>5 DEF Alive
    <3> QED
      BY <1>0, <2>1, <2>6, <3>6 DEF Alive, Dies
  <2> QED
    BY <1>0, <1>2, <2>5, <2>6, ExecutesFacts DEF s, f, n
<1>3. CASE Tick
  <2>1. /\ now' = now + 1 /\ now \in Nat /\ UNCHANGED recorded /\ now + 1 <= MaxTime
        /\ \A s \in Second :
              \/ expires[s] <= now + 1 /\ expires'[s] = Never
              \/ /\ ~(expires[s] <= now + 1)
                 /\ hash'[s] = hash[s] /\ expires'[s] = expires[s]
    BY <1>0, <1>3, ConstantFacts DEF Types, Tick
  <2>2. \A s \in Second : expires[s] <= now + 1 => expires[s] # Never
    BY <2>1, ConstantFacts DEF Never
  <2>3. \A s \in Second : expires[s] <= now + 1 => Dies(s) <= now + 1
    <3> SUFFICES ASSUME NEW s \in Second, expires[s] <= now + 1 PROVE Dies(s) <= now + 1
      OBVIOUS
    <3>1. Dies(s) <= expires[s] /\ Dies(s) \in Int /\ expires[s] \in Nat
      BY <1>0, <2>2, DiesFacts DEF Alive, Types
    <3> QED
      BY <2>1, <3>1
  <2>4. \A s \in Second : expires'[s] # Never => Dies(s) <= expires'[s]
    BY <1>0, <2>1 DEF Alive
  <2>5. \A s \in Second : now' < Dies(s) => Outcomes(hash'[s]) = recorded'[s]
    <3> SUFFICES ASSUME NEW s \in Second, now' < Dies(s)
                 PROVE  Outcomes(hash'[s]) = recorded'[s]
      OBVIOUS
    <3>1. Dies(s) \in Int
      BY <1>0, DiesFacts
    <3>2. ~(Dies(s) <= now + 1) /\ now < Dies(s)
      BY <2>1, <3>1
    <3> QED
      BY <1>0, <2>1, <2>3, <3>2 DEF Alive
  <2> QED
    BY <2>4, <2>5 DEF Alive, Dies
<1> QED
  <2>1. CASE \E t \in Task : Executes(t)
    BY <1>2, <2>1
  <2>2. CASE ~(\E t \in Task : Executes(t)) /\ ~Tick
    <3>1. UNCHANGED <<now, hash, expires, recorded>>
      BY <2>2 DEF Next, vars, attempt, redis, reader, Attempts, Records, Breaks,
                  AggregateBegins, Reads, Publishes, TickFails
    <3> QED
      BY <1>1, <3>1
  <2> QED
    BY <1>3, <2>1, <2>2

-----------------------------------------------------------------------------
\* The window of an aggregate, and what of it is read and unread.
LEMMA WindowFacts ==
    ASSUME Types, Pacing, NEW p \in Replica, reading[p]
    PROVE  /\ asof[p] \in Int /\ unread[p] \in Int
           /\ asof[p] - Window <= unread[p] /\ unread[p] <= asof[p] + 1
           /\ asof[p] - Window .. asof[p] \subseteq Second
           /\ asof[p] - Window .. unread[p] - 1 \subseteq Second
           /\ unread[p] .. asof[p] \subseteq Second
           /\ now + Lead[p] <= asof[p] + MaxTick
<1>1. /\ asof[p] \in Int /\ unread[p] \in Int /\ published[p] \in Nat /\ now \in Nat
      /\ now <= MaxTime
      /\ Lead[p] \in Nat /\ Lead[p] <= Spread /\ Spread \in Nat /\ MaxTick \in Nat
      /\ Window \in Nat /\ MaxTime \in Nat
  BY ConstantFacts DEF Types
<1>2. /\ published[p] + Lead[p] <= asof[p] /\ asof[p] <= now + Lead[p]
      /\ asof[p] - Window <= unread[p] /\ unread[p] <= asof[p] + 1
      /\ now <= published[p] + MaxTick
  BY DEF Pacing
<1>3. 0 <= asof[p] /\ asof[p] <= MaxTime + Spread
  BY <1>1, <1>2
<1> QED
  BY <1>1, <1>2, <1>3 DEF Second

\* The hash of a second of the window is complete when the aggregate reads it.
LEMMA ReadInTime ==
    ASSUME Types, Pacing, Alive, NEW p \in Replica, reading[p], unread[p] <= asof[p]
    PROVE  Outcomes(hash[unread[p]]) = recorded[unread[p]]
<1>1. unread[p] \in Second /\ unread[p] \in Int /\ asof[p] \in Int
  BY WindowFacts
<1>2. asof[p] - Window <= unread[p] /\ now + Lead[p] <= asof[p] + MaxTick
  BY WindowFacts
<1>3. now < Dies(unread[p])
  <2>1. Dies(unread[p]) = unread[p] - Spread + 4 * Window
    BY <1>1, DiesFacts
  <2>2. /\ Lead[p] \in Nat /\ Spread \in Nat /\ MaxTick \in Nat /\ Window \in Nat /\ now \in Nat
        /\ Spread + MaxTick < 3 * Window
    BY ConstantFacts DEF Types
  <2> QED
    BY <1>1, <1>2, <2>1, <2>2
<1> QED
  BY <1>1, <1>3 DEF Alive

LEMMA BracketedBegins ==
    ASSUME Types, NEW p \in Replica, AggregateBegins(p)
    PROVE  /\ Outcomes(sums'[p]) <= TotalOf(recorded', asof'[p] - Window .. unread'[p] - 1)
           /\ due'[p] <= Outcomes(sums'[p]) + TotalOf(recorded', unread'[p] .. asof'[p])
<1> DEFINE a == Clock(p) - Window
           b == Clock(p)
<1>1. a \in Int /\ b \in Int /\ a .. b \subseteq Second
  BY ClockFacts, ConstantFacts
<1>2. /\ sums'[p] = Zero /\ asof'[p] = b /\ unread'[p] = a /\ recorded' = recorded
      /\ due'[p] = TotalOf(recorded, a .. b)
  BY ClockFacts DEF AggregateBegins, Types, redis
<1>3. asof'[p] - Window = a
  BY <1>2
<1> HIDE DEF a, b
<1>4. TotalOf(recorded', asof'[p] - Window .. unread'[p] - 1) = 0
  <2>1. asof'[p] - Window .. unread'[p] - 1 = {}
    BY <1>1, <1>2, <1>3
  <2> QED
    BY <2>1, TotalEmpty
<1>5. Outcomes(sums'[p]) = 0
  BY <1>2 DEF Outcomes, Zero, Field
<1>6. TotalOf(recorded, a .. b) \in Nat
  BY <1>1, RecordedFacts
<1> QED
  BY <1>2, <1>4, <1>5, <1>6

LEMMA BracketedReads ==
    ASSUME Types, Pacing, Alive, Bracketed, NEW p \in Replica, Reads(p)
    PROVE  /\ Outcomes(sums'[p]) <= TotalOf(recorded', asof'[p] - Window .. unread'[p] - 1)
           /\ due'[p] <= Outcomes(sums'[p]) + TotalOf(recorded', unread'[p] .. asof'[p])
<1> DEFINE a == asof[p] - Window
           u == unread[p]
           b == asof[p]
<1>1. /\ a \in Int /\ u \in Int /\ b \in Int /\ a <= u /\ u <= b
      /\ a .. b \subseteq Second /\ reading[p]
  BY WindowFacts, ConstantFacts DEF Reads
<1>2. Outcomes(hash[u]) = recorded[u]
  BY <1>1, ReadInTime
<1>3. /\ sums'[p] = Plus(sums[p], hash[u]) /\ asof'[p] = b /\ unread'[p] = u + 1
      /\ recorded' = recorded /\ due'[p] = due[p]
  BY DEF Reads, Types, redis
<1>4. Outcomes(sums'[p]) = Outcomes(sums[p]) + recorded[u]
  <2>1. u \in Second
    BY <1>1
  <2>2. /\ sums[p].successes \in Nat /\ sums[p].failures \in Nat
        /\ hash[u].successes \in Nat /\ hash[u].failures \in Nat
    BY <2>1 DEF Types, Field
  <2>3. /\ Plus(sums[p], hash[u]).successes = sums[p].successes + hash[u].successes
        /\ Plus(sums[p], hash[u]).failures = sums[p].failures + hash[u].failures
    BY DEF Plus, Field
  <2> HIDE DEF u
  <2> QED
    BY <1>2, <1>3, <2>2, <2>3 DEF Outcomes
<1>5. /\ Outcomes(sums[p]) <= TotalOf(recorded, a .. u - 1)
      /\ due[p] <= Outcomes(sums[p]) + TotalOf(recorded, u .. b)
  BY <1>1 DEF Bracketed
<1>6. Outcomes(sums[p]) \in Nat /\ due[p] \in Nat
  BY DEF Types, Field, Outcomes
<1>7. asof'[p] - Window = a
  BY <1>3
<1> HIDE DEF a, u, b
<1>8. \A s \in a .. b : recorded[s] \in Nat
  BY <1>1, RecordedFacts
<1>9. TotalOf(recorded, u .. b) = recorded[u] + TotalOf(recorded, u + 1 .. b)
  BY <1>1, <1>8, TotalFirst
<1>10. TotalOf(recorded, a .. u) = TotalOf(recorded, a .. u - 1) + recorded[u]
  BY <1>1, <1>8, TotalLast
<1>11. u + 1 - 1 = u /\ recorded[u] \in Nat
  BY <1>1, <1>8
<1>12. /\ TotalOf(recorded, a .. u - 1) \in Nat /\ TotalOf(recorded, u + 1 .. b) \in Nat
  <2>1. a .. u - 1 \subseteq Second /\ u + 1 .. b \subseteq Second /\ u - 1 \in Int /\ u + 1 \in Int
    BY <1>1
  <2> QED
    BY <1>1, <2>1, RecordedFacts
<1>13. /\ TotalOf(recorded', asof'[p] - Window .. unread'[p] - 1) = TotalOf(recorded, a .. u)
       /\ TotalOf(recorded', unread'[p] .. asof'[p]) = TotalOf(recorded, u + 1 .. b)
  <2>1. unread'[p] - 1 = u
    BY <1>1, <1>3
  <2>2. asof'[p] - Window .. unread'[p] - 1 = a .. u
    BY <1>7, <2>1
  <2> QED
    BY <1>3, <2>2
<1>14. Outcomes(sums'[p]) <= TotalOf(recorded, a .. u)
  BY <1>4, <1>5, <1>6, <1>10, <1>11, <1>12
<1>15. due'[p] <= Outcomes(sums'[p]) + TotalOf(recorded, u + 1 .. b)
  BY <1>3, <1>4, <1>5, <1>6, <1>9, <1>11, <1>12
<1> QED
  BY <1>13, <1>14, <1>15

LEMMA RecordedGrows ==
    ASSUME Types, Pacing, NEW t \in Task, Executes(t)
    PROVE  \A s \in Second : recorded[s] \in Nat /\ recorded'[s] \in Nat /\ recorded[s] <= recorded'[s]
<1> DEFINE x == stamp[t]
           c == Head(todo[t]).field
<1>1. x \in Second /\ recorded \in [Second -> Nat]
  BY ExecutesFacts DEF Types
<1>2. \/ recorded' = recorded
      \/ recorded' = [recorded EXCEPT ![x] =
             IF c \in {"successes", "failures"} THEN @ + 1 ELSE @]
  BY ExecutesFacts
<1> HIDE DEF x, c
<1> QED
  BY <1>1, <1>2

LEMMA BracketedStep == IInv /\ [Next]_vars => Bracketed'
<1> SUFFICES ASSUME IInv, [Next]_vars PROVE Bracketed'
  OBVIOUS
<1>0. Types /\ Pacing /\ Alive /\ Bracketed
  BY DEF IInv
<1> USE DEF attempt, redis, reader
<1>1. CASE UNCHANGED <<reading, asof, unread, sums, due, recorded>>
  BY <1>0, <1>1 DEF Bracketed
<1>2. ASSUME NEW t \in Task, Executes(t)
      PROVE  Bracketed'
  <2>1. UNCHANGED <<reading, asof, unread, sums, due>>
    BY <1>2 DEF Executes
  <2>2. ASSUME NEW p \in Replica, reading[p]
        PROVE  /\ Outcomes(sums[p]) <= TotalOf(recorded', asof[p] - Window .. unread[p] - 1)
               /\ due[p] <= Outcomes(sums[p]) + TotalOf(recorded', unread[p] .. asof[p])
    <3> DEFINE S == asof[p] - Window .. unread[p] - 1
               T == unread[p] .. asof[p]
    <3>1. /\ asof[p] \in Int /\ unread[p] \in Int /\ asof[p] - Window \in Int
          /\ unread[p] - 1 \in Int
      BY <1>0, <2>2, WindowFacts, ConstantFacts
    <3>2. S \subseteq Second /\ T \subseteq Second
      BY <1>0, <2>2, WindowFacts
    <3>3. IsFiniteSet(S) /\ IsFiniteSet(T)
      BY <3>1, FS_Interval
    <3>4. TotalOf(recorded, S) \in Nat /\ TotalOf(recorded, T) \in Nat
      BY <1>0, <3>1, <3>2, RecordedFacts
    <3> HIDE DEF S, T
    <3>5. \A s \in Second : recorded[s] \in Nat /\ recorded'[s] \in Nat /\ recorded[s] <= recorded'[s]
      BY <1>0, <1>2, RecordedGrows
    <3>6. TotalOf(recorded', S) \in Nat /\ TotalOf(recorded', T) \in Nat
      BY <3>2, <3>3, <3>5, TotalNat
    <3>7. TotalOf(recorded, S) <= TotalOf(recorded', S) /\ TotalOf(recorded, T) <= TotalOf(recorded', T)
      BY <3>2, <3>3, <3>5, TotalMonotonic
    <3>8. Outcomes(sums[p]) \in Nat /\ due[p] \in Nat
      <4>1. sums[p] \in [Field -> Nat] /\ due[p] \in Nat
        BY <1>0 DEF Types
      <4> QED
        BY ONLY <4>1 DEF Field, Outcomes
    <3>9. Outcomes(sums[p]) <= TotalOf(recorded, S) /\ due[p] <= Outcomes(sums[p]) + TotalOf(recorded, T)
      BY <1>0, <2>2 DEF Bracketed, S, T
    <3> QED
      BY <3>4, <3>6, <3>7, <3>8, <3>9 DEF S, T
  <2> QED
    BY <2>1, <2>2 DEF Bracketed
<1>3. ASSUME NEW p \in Replica, AggregateBegins(p)
      PROVE  Bracketed'
  <2>1. /\ \A q \in Replica : q # p => /\ reading'[q] = reading[q] /\ asof'[q] = asof[q]
                                       /\ unread'[q] = unread[q] /\ sums'[q] = sums[q]
                                       /\ due'[q] = due[q]
        /\ recorded' = recorded
    BY <1>0, <1>3 DEF Types, AggregateBegins
  <2> QED
    BY <1>0, <1>3, <2>1, BracketedBegins DEF Bracketed
<1>4. ASSUME NEW p \in Replica, Reads(p)
      PROVE  Bracketed'
  <2>1. /\ \A q \in Replica : q # p => unread'[q] = unread[q] /\ sums'[q] = sums[q]
        /\ UNCHANGED <<recorded, reading, asof, due>>
    BY <1>0, <1>4 DEF Types, Reads
  <2> QED
    BY <1>0, <1>4, <2>1, BracketedReads DEF Bracketed
<1>5. ASSUME NEW p \in Replica, Publishes(p) \/ TickFails(p)
      PROVE  Bracketed'
  <2>1. /\ ~reading'[p] /\ recorded' = recorded
        /\ \A q \in Replica : q # p => /\ reading'[q] = reading[q] /\ asof'[q] = asof[q]
                                       /\ unread'[q] = unread[q] /\ sums'[q] = sums[q]
                                       /\ due'[q] = due[q]
    BY <1>0, <1>5 DEF Types, Publishes, TickFails, AggregateEnds
  <2> QED
    BY <1>0, <2>1 DEF Bracketed
<1> QED
  <2>1. CASE \E t \in Task : Executes(t)
    BY <1>2, <2>1
  <2>2. CASE \E p \in Replica : AggregateBegins(p) \/ Reads(p) \/ Publishes(p) \/ TickFails(p)
    BY <1>3, <1>4, <1>5, <2>2
  <2>3. CASE /\ ~(\E t \in Task : Executes(t))
             /\ ~(\E p \in Replica : AggregateBegins(p) \/ Reads(p) \/ Publishes(p) \/ TickFails(p))
    <3>1. UNCHANGED <<reading, asof, unread, sums, due, recorded>>
      BY <2>3 DEF Next, vars, Attempts, Records, Breaks, Tick
    <3> QED
      BY <1>1, <3>1
  <2> QED
    BY <2>1, <2>2, <2>3

-----------------------------------------------------------------------------
LEMMA ExpiringStep == IInv /\ [Next]_vars => HashesExpire'
<1> SUFFICES ASSUME IInv, [Next]_vars PROVE HashesExpire'
  OBVIOUS
<1>0. Types /\ Pacing /\ HashesExpire
  BY DEF IInv
<1> USE DEF attempt, redis, reader
<1>1. ASSUME UNCHANGED <<hash, expires, broken>>,
             \A u \in Task : pc[u] = "recording" => pc'[u] = "recording" /\ stamp'[u] = stamp[u]
      PROVE  HashesExpire'
  BY <1>0, <1>1 DEF HashesExpire
<1>2. ASSUME NEW t \in Task, NEW p \in Replica, Attempts(t, p)
      PROVE  HashesExpire'
  <2>1. \A u \in Task : pc[u] = "recording" => pc'[u] = "recording" /\ stamp'[u] = stamp[u]
    BY <1>0, <1>2 DEF Attempts, Types
  <2> QED
    BY <1>1, <1>2, <2>1 DEF Attempts
<1>3. ASSUME NEW t \in Task, Records(t)
      PROVE  HashesExpire'
  <2>1. \A u \in Task : pc[u] = "recording" => pc'[u] = "recording" /\ stamp'[u] = stamp[u]
    BY <1>0, <1>3 DEF Records, Types
  <2> QED
    BY <1>1, <1>3, <2>1 DEF Records
<1>4. ASSUME NEW t \in Task, Executes(t)
      PROVE  HashesExpire'
  <2> DEFINE s == stamp[t]
             f == Head(todo[t]).field
             n == Head(todo[t]).by
  <2>1. s \in Second /\ pc[t] = "recording" /\ UNCHANGED <<now, broken>>
    BY <1>0, <1>4, ExecutesFacts
  <2>2. CASE /\ Ends(t) /\ UNCHANGED hash
             /\ \/ hash[s] = Zero /\ UNCHANGED expires
                \/ hash[s] # Zero /\ expires' = [expires EXCEPT ![s] = now + Ttl]
    <3>1. now + Ttl # Never
      BY <1>0, ConstantFacts DEF Types, Never
    <3>2. /\ \A x \in Second : x # s => expires'[x] = expires[x]
          /\ hash[s] # Zero => expires'[s] # Never
      BY <1>0, <2>1, <2>2, <3>1 DEF Types
    <3>3. \A u \in Task : u # t => pc'[u] = pc[u] /\ stamp'[u] = stamp[u]
      BY <1>0, <2>2 DEF Ends, Types
    <3>4. ASSUME NEW x \in Second, hash'[x] # Zero, expires'[x] = Never
          PROVE  x \in broken' \/ \E u \in Task : pc'[u] = "recording" /\ stamp'[u] = x
      <4>1. x # s /\ hash[x] # Zero /\ expires[x] = Never
        BY <2>2, <3>2, <3>4
      <4> QED
        BY <1>0, <2>1, <3>3, <4>1 DEF HashesExpire
    <3> QED
      BY <3>4 DEF HashesExpire
  <2>3. CASE /\ f \in Field /\ n \in Nat /\ hash' = [hash EXCEPT ![s][f] = @ + n]
             /\ UNCHANGED <<expires, pc, stamp>>
    <3>1. \A x \in Second : x # s => hash'[x] = hash[x]
      BY <1>0, <2>1, <2>3, CountsUp
    <3> QED
      BY <1>0, <2>1, <2>3, <3>1 DEF HashesExpire
  <2> QED
    BY <1>0, <1>4, <2>2, <2>3, ExecutesFacts
<1>5. ASSUME NEW t \in Task, Breaks(t)
      PROVE  HashesExpire'
  <2>1. /\ broken' = broken \cup {stamp[t]} /\ UNCHANGED <<hash, expires>>
        /\ \A u \in Task : u # t => pc'[u] = pc[u] /\ stamp'[u] = stamp[u]
    BY <1>0, <1>5 DEF Breaks, Ends, Types
  <2> QED
    BY <1>0, <2>1 DEF HashesExpire
<1>6. ASSUME NEW p \in Replica, AggregateBegins(p) \/ Reads(p) \/ Publishes(p) \/ TickFails(p)
      PROVE  HashesExpire'
  BY <1>1, <1>6 DEF AggregateBegins, Reads, Publishes, TickFails
<1>7. CASE Tick
  <2>1. UNCHANGED <<pc, stamp, broken>>
    BY <1>7 DEF Tick
  <2>2. \A s \in Second :
            hash'[s] = Zero \/ (hash'[s] = hash[s] /\ expires'[s] = expires[s])
    BY <1>7 DEF Tick
  <2> QED
    BY <1>0, <2>1, <2>2 DEF HashesExpire
<1>8. CASE UNCHANGED vars
  BY <1>1, <1>8 DEF vars
<1> QED
  BY <1>2, <1>3, <1>4, <1>5, <1>6, <1>7, <1>8 DEF Next

-----------------------------------------------------------------------------
\* A candidate without traffic has its full weight.
LEMMA Products ==
    /\ \A a, b, c \in Nat : a * (b + c) = a * b + a * c
    /\ \A a, b \in Nat : a * b \in Nat
    /\ \A a \in Nat : a * 1 = a /\ a * 0 = 0
    /\ \A a, b, c \in Nat : b <= c => a * b <= a * c
  OBVIOUS

LEMMA IdleHasWeight == HasWeight(Zero)
<1>1. /\ Zero.successes = 0 /\ Zero.failures = 0
      /\ Zero.latency_count = 0 /\ Zero.latency_sum_ms = 0
  BY DEF Zero, Field
<1>2. Base \in Nat /\ Floor \in Nat /\ Target \in Nat /\ Floor <= Base
  BY WeightAssumption
<1>3. HasWeight(Zero) <=> Base * 1 * Target * 1 >= Floor * 1 * (Target * 1 + 0)
  BY <1>1, <1>2 DEF HasWeight
<1>4. /\ Target * 1 = Target /\ Floor * 1 = Floor /\ Base * 1 = Base
      /\ Target * 1 + 0 = Target
      /\ Base * Target \in Nat /\ (Base * Target) * 1 = Base * Target
  BY <1>2, Products
<1>5. Floor * Target <= Base * Target
  <2>1. Floor * Target = Target * Floor /\ Base * Target = Target * Base
    BY <1>2
  <2> QED
    BY <1>2, <2>1, Products
<1> QED
  BY <1>3, <1>4, <1>5

\* Nothing that is read of a time without samples is anything.
LEMMA ZeroPlus == Plus(Zero, Zero) = Zero
  BY DEF Plus, Zero, Field

LEMMA ClosingStep == IInv /\ [Next]_vars => Closing'
<1> SUFFICES ASSUME IInv, [Next]_vars PROVE Closing'
  OBVIOUS
<1>0. Types /\ Pacing /\ Closing
  BY DEF IInv
<1>t. /\ now \in Nat /\ Spread \in Nat /\ MaxAttempt \in Nat /\ Window \in Nat /\ MaxTick \in Nat
      /\ shut \in Nat \cup {NotShut} /\ Second \subseteq Int
  BY <1>0, ConstantFacts DEF Types
<1> USE DEF attempt, redis, reader
<1>1. ASSUME NEW t \in Task, NEW p \in Replica, Attempts(t, p)
      PROVE  Closing'
  <2>1. shut = NotShut
    BY <1>0, <1>1 DEF Attempts, Closing
  <2> QED
    BY <1>0, <1>1, <2>1 DEF Attempts, Closing
<1>2. ASSUME NEW t \in Task, Records(t)
      PROVE  Closing'
  <2>1. on[t] \in Replica
    BY <1>0, <1>2 DEF Records, Pacing
  <2>2. /\ pc'[t] = "recording" /\ stamp'[t] = now + Lead[on[t]] /\ pc[t] = "calling"
        /\ \A u \in Task : u # t => pc'[u] = pc[u] /\ since'[u] = since[u] /\ stamp'[u] = stamp[u]
        /\ UNCHANGED <<now, hash, reading, asof, sums, published, weighed, shut>>
    BY <1>0, <1>2 DEF Records, Types, Clock
  <2>3. Lead[on[t]] \in Nat /\ Lead[on[t]] <= Spread /\ since[t] \in Nat
    BY <1>0, <2>1, ConstantFacts DEF Types
  <2>4. now <= since[t] + MaxAttempt
    BY <1>0, <2>2 DEF Pacing
  <2>5. shut # NotShut => stamp'[t] <= LastSecond
    <3> SUFFICES ASSUME shut # NotShut PROVE stamp'[t] <= LastSecond
      OBVIOUS
    <3>1. since[t] <= shut /\ shut \in Nat
      BY <1>0, <1>t, <2>2 DEF Closing
    <3> QED
      BY <1>t, <2>2, <2>3, <2>4, <3>1 DEF LastSecond
  <2> QED
    BY <1>0, <2>2, <2>5 DEF Closing, LastSecond
<1>3. ASSUME NEW t \in Task, Executes(t)
      PROVE  Closing'
  <2> DEFINE s == stamp[t]
             f == Head(todo[t]).field
             n == Head(todo[t]).by
  <2>1. /\ s \in Second /\ pc[t] = "recording"
        /\ UNCHANGED <<now, reading, asof, sums, published, weighed, shut>>
    BY <1>0, <1>3, ExecutesFacts
  <2>2. CASE Ends(t) /\ UNCHANGED hash
    <3>1. /\ pc'[t] = "idle"
          /\ \A u \in Task : u # t => pc'[u] = pc[u] /\ since'[u] = since[u] /\ stamp'[u] = stamp[u]
      BY <1>0, <2>2 DEF Ends, Types
    <3>2. pc'[t] # "recording" /\ pc'[t] # "calling"
      BY <3>1
    <3> QED
      BY <1>0, <2>1, <2>2, <3>1, <3>2 DEF Closing, LastSecond
  <2>3. CASE /\ f \in Field /\ n \in Nat /\ hash' = [hash EXCEPT ![s][f] = @ + n]
             /\ UNCHANGED <<pc, since, stamp>>
    <3>1. \A x \in Second : x # s => hash'[x] = hash[x]
      BY <1>0, <2>1, <2>3, CountsUp
    <3>2. s <= now + Spread
      <4>1. s <= since[t] + Spread /\ since[t] <= now /\ since[t] \in Nat
        BY <1>0, <2>1 DEF Pacing, Types
      <4>2. s \in Int
        BY <1>t, <2>1
      <4> HIDE DEF s
      <4> QED
        BY <1>t, <4>1, <4>2
    <3>3. shut # NotShut => s <= LastSecond
      BY <1>0, <2>1 DEF Closing
    <3> HIDE DEF s, f, n
    <3> QED
      BY <1>0, <2>1, <2>3, <3>1, <3>2, <3>3 DEF Closing, LastSecond
  <2> QED
    BY <1>0, <1>3, <2>2, <2>3, ExecutesFacts
<1>4. ASSUME NEW t \in Task, Breaks(t)
      PROVE  Closing'
  <2>1. /\ pc'[t] = "idle"
        /\ \A u \in Task : u # t => pc'[u] = pc[u] /\ since'[u] = since[u] /\ stamp'[u] = stamp[u]
        /\ UNCHANGED <<now, hash, reading, asof, sums, published, weighed, shut>>
    BY <1>0, <1>4 DEF Breaks, Ends, Types
  <2>2. pc'[t] # "recording" /\ pc'[t] # "calling"
    BY <2>1
  <2> QED
    BY <1>0, <2>1, <2>2 DEF Closing, LastSecond
<1>5. ASSUME NEW p \in Replica, AggregateBegins(p)
      PROVE  Closing'
  <2>1. /\ sums'[p] = Zero
        /\ \A q \in Replica : q # p => /\ reading'[q] = reading[q] /\ asof'[q] = asof[q]
                                       /\ sums'[q] = sums[q]
        /\ UNCHANGED <<now, hash, pc, since, stamp, published, weighed, shut>>
    BY <1>0, <1>5 DEF AggregateBegins, Types, Clock
  <2> QED
    BY <1>0, <2>1 DEF Closing, LastSecond
<1>6. ASSUME NEW p \in Replica, Reads(p)
      PROVE  Closing'
  <2>1. /\ sums'[p] = Plus(sums[p], hash[unread[p]]) /\ reading[p] /\ unread[p] <= asof[p]
        /\ \A q \in Replica : q # p => sums'[q] = sums[q]
        /\ UNCHANGED <<now, hash, pc, since, stamp, reading, asof, published, weighed, shut>>
    BY <1>0, <1>6 DEF Reads, Types
  <2>2. /\ asof[p] - Window <= unread[p] /\ unread[p] \in Int /\ asof[p] \in Int
        /\ unread[p] \in Second
    BY <1>0, <2>1, WindowFacts
  <2>3. ASSUME shut # NotShut, Lead[p] = Spread, asof[p] > LastSecond + Window
        PROVE  sums'[p] = Zero
    <3>1. ~(unread[p] <= LastSecond)
      BY <1>t, <2>2, <2>3 DEF LastSecond
    <3>2. hash[unread[p]] = Zero /\ sums[p] = Zero
      BY <1>0, <2>1, <2>2, <2>3, <3>1 DEF Closing
    <3> QED
      BY <2>1, <3>2, ZeroPlus
  <2> QED
    BY <1>0, <2>1, <2>3 DEF Closing, LastSecond
<1>7. ASSUME NEW p \in Replica, TickFails(p)
      PROVE  Closing'
  <2>1. /\ ~reading'[p]
        /\ \A q \in Replica : q # p => /\ reading'[q] = reading[q] /\ asof'[q] = asof[q]
                                       /\ sums'[q] = sums[q]
        /\ UNCHANGED <<now, hash, pc, since, stamp, published, weighed, shut>>
    BY <1>0, <1>7 DEF TickFails, AggregateEnds, Types
  <2> QED
    BY <1>0, <2>1 DEF Closing, LastSecond
<1>8. ASSUME NEW p \in Replica, Publishes(p)
      PROVE  Closing'
  <2>1. /\ ~reading'[p] /\ published'[p] = now /\ reading[p]
        /\ \A q \in Replica : q # p => /\ reading'[q] = reading[q] /\ asof'[q] = asof[q]
                                       /\ sums'[q] = sums[q] /\ published'[q] = published[q]
                                       /\ weighed'[q] = weighed[q]
        /\ UNCHANGED <<now, hash, pc, since, stamp>>
        /\ weighed'[p] = HasWeight(sums[p])
    BY <1>0, <1>8 DEF Publishes, AggregateEnds, Types
  <2>2. CASE \E q \in Replica : weighed'[q]
    <3>1. shut' = NotShut
      BY <1>8, <2>2 DEF Publishes
    <3> QED
      BY <1>0, <2>1, <3>1 DEF Closing
  <2>3. CASE (\A q \in Replica : ~weighed'[q]) /\ shut = NotShut
    <3>1. shut' = now /\ shut' \in Nat
      BY <1>t, <1>8, <2>3 DEF Publishes
    <3>2. /\ \A u \in Task : since[u] \in Nat /\ stamp[u] \in Int
          /\ \A s \in Second : s \in Int
          /\ \A q \in Replica : asof[q] \in Int
      BY <1>0, <1>t DEF Types
    <3>3. \A u \in Task : pc'[u] = "calling" => since'[u] <= shut'
      BY <1>0, <2>1, <3>1 DEF Pacing
    <3>4. \A u \in Task : pc'[u] = "recording" => stamp'[u] <= LastSecond'
      BY <1>0, <1>t, <2>1, <3>1, <3>2 DEF Pacing, LastSecond
    <3>5. \A s \in Second : hash'[s] # Zero => s <= now' + Spread /\ s <= LastSecond'
      <4>1. \A s \in Second : hash[s] # Zero => s <= now + Spread
        BY <1>0 DEF Closing
      <4>2. LastSecond' = now + MaxAttempt + Spread
        BY <3>1 DEF LastSecond
      <4>3. \A s \in Second : s <= now + Spread => s <= now + MaxAttempt + Spread
        BY <1>t, <3>2
      <4> QED
        BY <2>1, <4>1, <4>2, <4>3
    <3>6. ASSUME NEW q \in Replica, Lead[q] = Spread
          PROVE  /\ reading'[q] => ~(asof'[q] > LastSecond' + Window)
                 /\ published'[q] <= shut' + MaxAttempt + Window + MaxTick
      <4>1. published'[q] <= shut' + MaxAttempt + Window + MaxTick
        <5>1. published[q] \in Nat /\ published[q] <= now
          BY <1>0 DEF Types, Pacing
        <5>2. published'[q] \in Nat /\ published'[q] <= now
          BY <1>t, <2>1, <5>1
        <5> QED
          BY <1>t, <3>1, <5>2
      <4>2. reading'[q] => asof'[q] <= now + Lead[q] /\ asof'[q] \in Int
        BY <1>0, <2>1, <3>2 DEF Pacing
      <4>3. LastSecond' = now + MaxAttempt + Spread
        BY <3>1 DEF LastSecond
      <4> QED
        BY <1>t, <3>6, <4>1, <4>2, <4>3
    <3>7. shut' <= now'
      BY <1>t, <2>1, <3>1
    <3> QED
      BY <2>3, <3>3, <3>4, <3>5, <3>6, <3>7 DEF Closing
  <2>4. CASE (\A q \in Replica : ~weighed'[q]) /\ shut # NotShut
    <3>1. shut' = shut /\ shut \in Nat
      BY <1>t, <1>8, <2>4 DEF Publishes
    <3>2. Lead[p] = Spread => now <= shut + MaxAttempt + Window + MaxTick
      <4> SUFFICES ASSUME Lead[p] = Spread, ~(now <= shut + MaxAttempt + Window + MaxTick)
                   PROVE  FALSE
        OBVIOUS
      <4>1. now + Lead[p] <= asof[p] + MaxTick /\ asof[p] \in Int
        BY <1>0, <2>1, WindowFacts
      <4>2. asof[p] > LastSecond + Window
        BY <1>t, <3>1, <4>1 DEF LastSecond
      <4>3. sums[p] = Zero
        BY <1>0, <2>1, <2>4, <4>2 DEF Closing
      <4> QED
        BY <2>1, <2>4, <4>3, IdleHasWeight
    <3>3. LastSecond' = LastSecond
      BY <3>1 DEF LastSecond
    <3> QED
      BY <1>0, <2>1, <2>4, <3>1, <3>2, <3>3 DEF Closing
  <2> QED
    BY <2>2, <2>3, <2>4
<1>9. CASE Tick
  <2>1. /\ now' = now + 1
        /\ \A s \in Second : hash'[s] = Zero \/ hash'[s] = hash[s]
        /\ UNCHANGED <<pc, since, stamp, reading, asof, sums, published, weighed, shut>>
    BY <1>9 DEF Tick
  <2>2. \A s \in Second : hash'[s] # Zero => s <= now' + Spread
    BY <1>0, <1>t, <2>1 DEF Closing
  <2>3. shut # NotShut => shut <= now'
    BY <1>0, <1>t, <2>1 DEF Closing
  <2> QED
    BY <1>0, <2>1, <2>2, <2>3 DEF Closing, LastSecond
<1>10. CASE UNCHANGED vars
  BY <1>0, <1>10 DEF Closing, LastSecond, vars
<1> QED
  BY <1>1, <1>2, <1>3, <1>4, <1>5, <1>6, <1>7, <1>8, <1>9, <1>10 DEF Next

-----------------------------------------------------------------------------
LEMMA TornFacts ==
    /\ \A s : IsFiniteSet(Torn(s)) /\ Cardinality(Torn(s)) \in Nat
    /\ \A s : IsFiniteSet(Torn(s)') /\ Cardinality(Torn(s)') \in Nat
<1>1. ASSUME NEW S, S \subseteq Task
      PROVE  IsFiniteSet(S) /\ Cardinality(S) \in Nat
  BY <1>1, TaskAssumption, FS_Subset, FS_CardinalityType
<1>2. \A s : Torn(s) \subseteq Task
  BY DEF Torn
<1>3. \A s : Torn(s)' \subseteq Task
  BY DEF Torn
<1> QED
  BY <1>1, <1>2, <1>3

\* A sum that covers more than it must, and two that cover their own.
LEMMA CoverFacts ==
    /\ \A fast, l, m, n \in Nat : m <= n /\ l >= fast * n => l >= fast * m
    /\ \A fast, l, n, d \in Nat : l >= fast * n /\ d >= fast => l + d >= fast * (n + 1)
    /\ \A fast, l, n, k, m \in Nat :
          l >= fast * n /\ k >= fast * m => l + k >= fast * (n + m)
    /\ \A fast \in Nat : 0 >= fast * 0
<1>1. ASSUME NEW fast \in Nat, NEW l \in Nat, NEW m \in Nat, NEW n \in Nat, m <= n,
             l >= fast * n
      PROVE  l >= fast * m
  <2>1. fast * m <= fast * n /\ fast * m \in Nat /\ fast * n \in Nat
    BY <1>1, Products
  <2> QED
    BY <1>1, <2>1
<1>2. ASSUME NEW fast \in Nat, NEW l \in Nat, NEW n \in Nat, NEW d \in Nat,
             l >= fast * n, d >= fast
      PROVE  l + d >= fast * (n + 1)
  <2>1. fast * (n + 1) = fast * n + fast * 1 /\ fast * 1 = fast /\ fast * n \in Nat
    BY Products
  <2> QED
    BY <1>2, <2>1
<1>3. ASSUME NEW fast \in Nat, NEW l \in Nat, NEW n \in Nat, NEW k \in Nat, NEW m \in Nat,
             l >= fast * n, k >= fast * m
      PROVE  l + k >= fast * (n + m)
  <2>1. fast * (n + m) = fast * n + fast * m /\ fast * n \in Nat /\ fast * m \in Nat
    BY Products
  <2> QED
    BY <1>3, <2>1
<1> QED
  BY <1>1, <1>2, <1>3, Products

LEMMA HashNumbers ==
    ASSUME Types, NEW s \in Second
    PROVE  hash[s].latency_sum_ms \in Nat /\ hash[s].latency_count \in Nat
<1>1. hash[s] \in [Field -> Nat]
  BY DEF Types
<1> QED
  BY ONLY <1>1 DEF Field

LEMMA CoverShrinks ==
    ASSUME Types, NEW fast \in Nat, NEW s \in Second, hash'[s] = hash[s], Torn(s)' \subseteq Torn(s),
           Covers(fast, hash[s], Cardinality(Torn(s)))
    PROVE  Covers(fast, hash'[s], Cardinality(Torn(s)'))
<1>1. /\ Cardinality(Torn(s)') <= Cardinality(Torn(s))
      /\ Cardinality(Torn(s)') \in Nat /\ Cardinality(Torn(s)) \in Nat
  BY TornFacts, FS_Subset
<1>2. hash[s].latency_sum_ms \in Nat /\ hash[s].latency_count \in Nat
  BY HashNumbers
<1>3. /\ hash[s].latency_count + Cardinality(Torn(s)') <= hash[s].latency_count + Cardinality(Torn(s))
      /\ hash[s].latency_count + Cardinality(Torn(s)') \in Nat
      /\ hash[s].latency_count + Cardinality(Torn(s)) \in Nat
  BY <1>1, <1>2
<1> QED
  BY <1>2, <1>3, CoverFacts DEF Covers

LEMMA CoverExecutes ==
    ASSUME Types, Pacing, NEW fast \in Nat, \A l \in Latency : fast <= l,
           NEW t \in Task, Executes(t),
           \A s \in Second : Covers(fast, hash[s], Cardinality(Torn(s)))
    PROVE  \A s \in Second : Covers(fast, hash'[s], Cardinality(Torn(s)'))
<1>0. stamp[t] \in Second /\ pc[t] = "recording" /\ todo[t] \in Pipeline
  BY ExecutesFacts
<1>s. PICK s \in Second : s = stamp[t]
  BY <1>0
<1>f. PICK f : f = Head(todo[t]).field
  OBVIOUS
<1>n. PICK n : n = Head(todo[t]).by
  OBVIOUS
<1>c. PICK c : c = Cardinality(Torn(s))
  OBVIOUS
<1>1. s \in Second /\ stamp[t] = s /\ pc[t] = "recording" /\ todo[t] \in Pipeline
  BY <1>0, <1>s
<1>2. CASE Ends(t) /\ UNCHANGED hash
  <2>1. pc'[t] = "idle" /\ \A u \in Task : u # t => /\ pc'[u] = pc[u] /\ todo'[u] = todo[u]
                                                    /\ stamp'[u] = stamp[u]
    BY <1>2 DEF Ends, Types
  <2>2. \A x \in Second : Torn(x)' \subseteq Torn(x)
    BY <2>1 DEF Torn
  <2> QED
    BY <1>2, <2>2, CoverShrinks
<1>3. CASE /\ f \in Field /\ n \in Nat /\ hash' = [hash EXCEPT ![s][f] = @ + n]
           /\ todo' = [todo EXCEPT ![t] = Tail(@)]
           /\ UNCHANGED <<pc, stamp>>
  <2>1. /\ \A x \in Second : x # s => hash'[x] = hash[x]
        /\ hash'[s][f] = hash[s][f] + n
        /\ \A g \in Field : g # f => hash'[s][g] = hash[s][g]
    <3>1. f \in Field /\ n \in Nat /\ hash' = [hash EXCEPT ![s][f] = @ + n]
      BY <1>3
    <3>2. \A x \in Second : x # s => hash'[x] = hash[x]
      BY <1>1, <3>1, CountsUp
    <3>3. hash'[s][f] = hash[s][f] + n
      BY <1>1, <3>1, CountsUp
    <3>4. \A g \in Field : g # f => hash'[s][g] = hash[s][g]
      BY <1>1, <3>1, CountsUp
    <3> QED
      BY <3>2, <3>3, <3>4
  <2>2. todo'[t] = Tail(todo[t]) /\ \A u \in Task : u # t => todo'[u] = todo[u]
    BY <1>3 DEF Types
  <2>3. ASSUME NEW x \in Second, x # s
        PROVE  Torn(x)' = Torn(x)
    <3>1. \A u \in Task : stamp[u] = x => u # t
      BY <1>1, <2>3
    <3>2. \A u \in Task : stamp[u] = x => todo'[u] = todo[u]
      BY <2>2, <3>1
    <3> QED
      BY <1>3, <3>2 DEF Torn
  <2>4. \A x \in Second : x # s => Covers(fast, hash'[x], Cardinality(Torn(x)'))
    BY <2>1, <2>3, CoverShrinks
  <2>5. /\ hash[s].latency_sum_ms \in Nat /\ hash[s].latency_count \in Nat
        /\ c \in Nat /\ hash[s].latency_sum_ms >= fast * (hash[s].latency_count + c)
    BY <1>1, <1>c, HashNumbers, TornFacts DEF Covers
  <2>6. "latency_sum_ms" \in Field /\ "latency_count" \in Field
    BY DEF Field
  <2>7. CASE f = "latency_sum_ms"
    <3>1. Tail(todo[t]) = Unmatched /\ todo[t] # Unmatched /\ n \in Latency
      BY <1>1, <1>f, <1>n, <2>7, PipelineFacts
    <3>2. Torn(s)' = Torn(s) \cup {t} /\ t \notin Torn(s)
      BY <1>1, <1>3, <2>2, <3>1 DEF Torn
    <3>3. Cardinality(Torn(s)') = c + 1
      BY <1>c, <3>2, TornFacts, FS_AddElement
    <3>4. /\ hash'[s].latency_sum_ms = hash[s].latency_sum_ms + n
          /\ hash'[s].latency_count = hash[s].latency_count
      BY <2>1, <2>6, <2>7
    <3>5. n \in Nat /\ n >= fast
      BY <3>1, ConstantFacts
    <3>6. hash[s].latency_count + c \in Nat
      BY <2>5
    <3>7. hash[s].latency_sum_ms + n >= fast * ((hash[s].latency_count + c) + 1)
      BY <2>5, <3>5, <3>6, CoverFacts
    <3>8. (hash[s].latency_count + c) + 1 = hash[s].latency_count + (c + 1)
      BY <2>5
    <3>9. Covers(fast, hash'[s], Cardinality(Torn(s)'))
      BY <3>3, <3>4, <3>7, <3>8 DEF Covers
    <3> QED
      BY <2>4, <3>9
  <2>8. CASE f = "latency_count"
    <3>1. todo[t] = Unmatched /\ n = 1 /\ Tail(todo[t]) # Unmatched
      BY <1>1, <1>f, <1>n, <2>8, PipelineFacts
    <3>2. Torn(s)' = Torn(s) \ {t} /\ t \in Torn(s)
      BY <1>1, <1>3, <2>2, <3>1 DEF Torn
    <3>3. Cardinality(Torn(s)') = c - 1 /\ Cardinality(Torn(s)') \in Nat
      BY <1>c, <3>2, TornFacts, FS_RemoveElement
    <3>4. /\ hash'[s].latency_sum_ms = hash[s].latency_sum_ms
          /\ hash'[s].latency_count = hash[s].latency_count + 1
      BY <2>1, <2>6, <2>8, <3>1
    <3>5. (hash[s].latency_count + 1) + (c - 1) = hash[s].latency_count + c
      BY <2>5
    <3>6. Covers(fast, hash'[s], Cardinality(Torn(s)'))
      BY <2>5, <3>3, <3>4, <3>5 DEF Covers
    <3> QED
      BY <2>4, <3>6
  <2>9. CASE f \notin {"latency_sum_ms", "latency_count"}
    <3>1. Tail(todo[t]) # Unmatched /\ todo[t] # Unmatched
      BY <1>1, <1>f, <2>9, PipelineFacts
    <3>2. Torn(s)' = Torn(s)
      BY <1>3, <2>2, <3>1 DEF Torn
    <3>3. /\ hash'[s].latency_sum_ms = hash[s].latency_sum_ms
          /\ hash'[s].latency_count = hash[s].latency_count
      BY <2>1, <2>6, <2>9
    <3>4. Covers(fast, hash'[s], Cardinality(Torn(s)'))
      BY <1>c, <2>5, <3>2, <3>3 DEF Covers
    <3> QED
      BY <2>4, <3>4
  <2> QED
    BY <2>7, <2>8, <2>9
<1> QED
  BY <1>1, <1>2, <1>3, <1>f, <1>n, ExecutesFacts

\* A hash that Redis drops has no sample half-way.
LEMMA CoverExpires ==
    ASSUME Types, Pacing, Alive, Tick, NEW s \in Second, expires[s] <= now + 1
    PROVE  Torn(s)' = {}
<1> SUFFICES ASSUME NEW t \in Task, pc[t] = "recording", stamp[t] = s PROVE FALSE
  BY DEF Torn, Tick, attempt
<1>1. now < since[t] + MaxPipeline
  BY DEF Tick
<1>2. since[t] <= s
  BY DEF Pacing
<1>3. expires[s] # Never
  BY ConstantFacts DEF Never, Types, Tick
<1>4. Dies(s) <= expires[s] /\ expires[s] \in Nat
  BY <1>3 DEF Alive, Types
<1>5. Dies(s) = s - Spread + 4 * Window /\ s \in Int
  BY DiesFacts
<1>6. now \in Nat /\ since[t] \in Nat
  BY DEF Types
<1> QED
  BY <1>1, <1>2, <1>4, <1>5, <1>6, ConstantFacts

LEMMA HashesCovered ==
    ASSUME IInv, [Next]_vars, NEW fast \in Latency, \A l \in Latency : fast <= l
    PROVE  \A s \in Second : Covers(fast, hash'[s], Cardinality(Torn(s)'))
<1>0. Types /\ Pacing /\ Alive /\ fast \in Nat
  BY ConstantFacts DEF IInv
<1>c. \A s \in Second : Covers(fast, hash[s], Cardinality(Torn(s)))
  BY DEF IInv, Fair, NotFlattered
<1> USE DEF attempt, redis, reader
<1>1. CASE hash' = hash /\ \A s \in Second : Torn(s)' \subseteq Torn(s)
  BY <1>0, <1>c, <1>1, CoverShrinks
<1>2. ASSUME NEW t \in Task, NEW p \in Replica, Attempts(t, p)
      PROVE  hash' = hash /\ \A s \in Second : Torn(s)' \subseteq Torn(s)
  <2>1. /\ pc'[t] = "calling" /\ \A u \in Task : u # t => pc'[u] = pc[u]
        /\ UNCHANGED <<hash, todo, stamp>>
    BY <1>0, <1>2 DEF Attempts, Types
  <2> QED
    BY <2>1 DEF Torn
<1>3. ASSUME NEW t \in Task, Records(t)
      PROVE  hash' = hash /\ \A s \in Second : Torn(s)' \subseteq Torn(s)
  <2>1. \A commands \in {RecordFailure} \cup {RecordSuccess(l) : l \in Latency} :
            commands # Unmatched
    BY DEF RecordFailure, RecordSuccess, Unmatched, Increment, Expire
  <2>2. /\ todo'[t] # Unmatched /\ hash' = hash
        /\ \A u \in Task : u # t => /\ pc'[u] = pc[u] /\ todo'[u] = todo[u]
                                    /\ stamp'[u] = stamp[u]
    BY <1>0, <1>3, <2>1 DEF Records, Types
  <2> QED
    BY <2>2 DEF Torn
<1>4. ASSUME NEW t \in Task, Breaks(t)
      PROVE  hash' = hash /\ \A s \in Second : Torn(s)' \subseteq Torn(s)
  <2>1. /\ pc'[t] = "idle" /\ hash' = hash
        /\ \A u \in Task : u # t => /\ pc'[u] = pc[u] /\ todo'[u] = todo[u]
                                    /\ stamp'[u] = stamp[u]
    BY <1>0, <1>4 DEF Breaks, Ends, Types
  <2> QED
    BY <2>1 DEF Torn
<1>5. ASSUME NEW p \in Replica, AggregateBegins(p) \/ Reads(p) \/ Publishes(p) \/ TickFails(p)
      PROVE  hash' = hash /\ \A s \in Second : Torn(s)' \subseteq Torn(s)
  BY <1>5 DEF AggregateBegins, Reads, Publishes, TickFails, Torn
<1>6. CASE Tick
  <2>1. \A s \in Second : \/ expires[s] <= now + 1 /\ hash'[s] = Zero
                          \/ ~(expires[s] <= now + 1) /\ hash'[s] = hash[s]
    BY <1>6 DEF Tick
  <2>2. \A s : Torn(s)' = Torn(s)
    BY <1>6 DEF Tick, Torn
  <2>3. ASSUME NEW s \in Second, expires[s] <= now + 1, hash'[s] = Zero
        PROVE  Covers(fast, hash'[s], Cardinality(Torn(s)'))
    <3>1. Cardinality(Torn(s)') = 0
      BY <1>0, <1>6, <2>3, CoverExpires, FS_EmptySet
    <3>2. Zero.latency_sum_ms = 0 /\ Zero.latency_count = 0
      BY DEF Zero, Field
    <3>3. 0 >= fast * (0 + 0)
      BY <1>0, CoverFacts
    <3> QED
      BY <2>3, <3>1, <3>2, <3>3 DEF Covers
  <2>4. ASSUME NEW s \in Second, hash'[s] = hash[s]
        PROVE  Covers(fast, hash'[s], Cardinality(Torn(s)'))
    BY <1>c, <2>2, <2>4
  <2> QED
    BY <2>1, <2>3, <2>4
<1>7. CASE \E t \in Task : Executes(t)
  BY <1>0, <1>c, <1>7, CoverExecutes
<1>8. CASE UNCHANGED vars
  BY <1>1, <1>8 DEF vars, Torn
<1> QED
  BY <1>1, <1>2, <1>3, <1>4, <1>5, <1>6, <1>7, <1>8 DEF Next

LEMMA SumsCovered ==
    ASSUME IInv, [Next]_vars, NEW fast \in Latency, \A l \in Latency : fast <= l
    PROVE  \A p \in Replica : sums'[p].latency_sum_ms >= fast * sums'[p].latency_count
<1>0. Types /\ Pacing /\ fast \in Nat
  BY ConstantFacts DEF IInv
<1>c. /\ \A s \in Second : Covers(fast, hash[s], Cardinality(Torn(s)))
      /\ \A p \in Replica : sums[p].latency_sum_ms >= fast * sums[p].latency_count
  BY DEF IInv, Fair, NotFlattered
<1>h. ASSUME NEW s \in Second
      PROVE  hash[s].latency_sum_ms >= fast * hash[s].latency_count
  <2>1. /\ hash[s].latency_sum_ms \in Nat /\ hash[s].latency_count \in Nat
        /\ Cardinality(Torn(s)) \in Nat
    BY <1>0, HashNumbers, TornFacts
  <2>2. /\ hash[s].latency_count + Cardinality(Torn(s)) \in Nat
        /\ hash[s].latency_count <= hash[s].latency_count + Cardinality(Torn(s))
    BY <2>1
  <2> QED
    BY <1>0, <1>c, <2>1, <2>2, CoverFacts DEF Covers
<1> USE DEF attempt, redis, reader
<1>1. ASSUME NEW p \in Replica, AggregateBegins(p)
      PROVE  \A q \in Replica : sums'[q].latency_sum_ms >= fast * sums'[q].latency_count
  <2>1. sums'[p] = Zero /\ \A q \in Replica : q # p => sums'[q] = sums[q]
    BY <1>0, <1>1 DEF AggregateBegins, Types
  <2>2. Zero.latency_sum_ms = 0 /\ Zero.latency_count = 0
    BY DEF Zero, Field
  <2> QED
    BY <1>0, <1>c, <2>1, <2>2, CoverFacts
<1>2. ASSUME NEW p \in Replica, Reads(p)
      PROVE  \A q \in Replica : sums'[q].latency_sum_ms >= fast * sums'[q].latency_count
  <2>0. unread[p] \in Second
    BY <1>0, <1>2, WindowFacts DEF Reads
  <2>s. PICK s \in Second : s = unread[p]
    BY <2>0
  <2>1. /\ sums'[p] = Plus(sums[p], hash[s])
        /\ \A q \in Replica : q # p => sums'[q] = sums[q]
    BY <1>0, <1>2, <2>s DEF Reads, Types
  <2>2. /\ Plus(sums[p], hash[s]).latency_sum_ms = sums[p].latency_sum_ms + hash[s].latency_sum_ms
        /\ Plus(sums[p], hash[s]).latency_count = sums[p].latency_count + hash[s].latency_count
    BY DEF Plus, Field
  <2>3. sums[p].latency_sum_ms \in Nat /\ sums[p].latency_count \in Nat
    BY <1>0 DEF Types, Field
  <2>4. hash[s].latency_sum_ms \in Nat /\ hash[s].latency_count \in Nat
    BY <1>0, HashNumbers
  <2>5. sums[p].latency_sum_ms + hash[s].latency_sum_ms
            >= fast * (sums[p].latency_count + hash[s].latency_count)
    BY <1>0, <1>c, <1>h, <2>3, <2>4, CoverFacts
  <2> QED
    BY <1>c, <2>1, <2>2, <2>5
<1>3. ASSUME NEW p \in Replica, Publishes(p) \/ TickFails(p)
      PROVE  \A q \in Replica : sums'[q].latency_sum_ms >= fast * sums'[q].latency_count
  <2>1. sums'[p] = Zero /\ \A q \in Replica : q # p => sums'[q] = sums[q]
    BY <1>0, <1>3 DEF Publishes, TickFails, AggregateEnds, Types
  <2>2. Zero.latency_sum_ms = 0 /\ Zero.latency_count = 0
    BY DEF Zero, Field
  <2> QED
    BY <1>0, <1>c, <2>1, <2>2, CoverFacts
<1>4. CASE sums' = sums
  BY <1>c, <1>4
<1>5. CASE ~(\E p \in Replica : AggregateBegins(p) \/ Reads(p) \/ Publishes(p) \/ TickFails(p))
  <2>1. sums' = sums
    BY <1>5 DEF Next, vars, Attempts, Records, Executes, Breaks, Tick
  <2> QED
    BY <1>4, <2>1
<1> QED
  BY <1>1, <1>2, <1>3, <1>5

LEMMA FairStep == IInv /\ [Next]_vars => Fair'
  BY HashesCovered, SumsCovered DEF Fair, NotFlattered

-----------------------------------------------------------------------------
LEMMA Consequences ==
    ASSUME IInv
    PROVE  TypeOK /\ AggregateBracketed /\ MeanNotFlattered /\ HashesExpire /\ ExclusionEnds
<1>0. Types /\ Pacing /\ Bracketed /\ Fair /\ HashesExpire /\ Closing
  BY DEF IInv
<1>1. TypeOK
  <2>1. \A t \in Task : since[t] \in 0 .. now
    BY <1>0 DEF Types, Pacing
  <2>2. \A p \in Replica : published[p] \in 0 .. now
    BY <1>0 DEF Types, Pacing
  <2>3. ASSUME NEW p \in Replica
        PROVE  unread[p] \in -Window .. MaxTime + Spread + 1
    <3>2. CASE ~reading[p]
      <4>1. unread[p] = 0
        BY <1>0, <3>2 DEF Pacing
      <4> QED
        BY <4>1, ConstantFacts
    <3>3. CASE reading[p]
      <4>1. /\ asof[p] \in Int /\ unread[p] \in Int /\ published[p] \in Nat
            /\ Lead[p] \in Nat /\ Lead[p] <= Spread /\ now \in Nat /\ now <= MaxTime
            /\ Window \in Nat /\ MaxTime \in Nat /\ Spread \in Nat
        BY <1>0, ConstantFacts DEF Types
      <4>2. /\ published[p] + Lead[p] <= asof[p] /\ asof[p] <= now + Lead[p]
            /\ asof[p] - Window <= unread[p] /\ unread[p] <= asof[p] + 1
        BY <1>0, <3>3 DEF Pacing
      <4> QED
        BY <4>1, <4>2
    <3> QED
      BY <3>2, <3>3
  <2>4. shut \in {NotShut} \cup 0 .. now
    BY <1>0 DEF Types, Closing
  <2> QED
    BY <1>0, <2>1, <2>2, <2>3, <2>4 DEF TypeOK, Types, Pacing
<1>2. AggregateBracketed
  <2> SUFFICES ASSUME NEW p \in Replica, reading[p], unread[p] > asof[p]
               PROVE  /\ due[p] <= Outcomes(sums[p])
                      /\ Outcomes(sums[p]) <= TotalOf(recorded, asof[p] - Window .. asof[p])
    BY DEF AggregateBracketed, InWindow, Outcomes
  <2>1. asof[p] \in Int /\ unread[p] \in Int /\ unread[p] <= asof[p] + 1
    BY <1>0, WindowFacts
  <2>2. unread[p] - 1 = asof[p] /\ unread[p] .. asof[p] = {}
    BY <2>1
  <2>3. TotalOf(recorded, unread[p] .. asof[p]) = 0
    BY <2>2, TotalEmpty
  <2>4. Outcomes(sums[p]) \in Nat /\ due[p] \in Nat
    <3>1. sums[p] \in [Field -> Nat] /\ due[p] \in Nat
      BY <1>0 DEF Types
    <3> QED
      BY ONLY <3>1 DEF Field, Outcomes
  <2>5. /\ Outcomes(sums[p]) <= TotalOf(recorded, asof[p] - Window .. unread[p] - 1)
        /\ due[p] <= Outcomes(sums[p]) + TotalOf(recorded, unread[p] .. asof[p])
    BY <1>0 DEF Bracketed
  <2> QED
    BY <2>2, <2>3, <2>4, <2>5
<1>3. MeanNotFlattered
  <2> SUFFICES ASSUME NEW fast \in Latency, \A l \in Latency : fast <= l, NEW p \in Replica
               PROVE  sums[p].latency_sum_ms >= sums[p].latency_count * fast
    BY DEF MeanNotFlattered
  <2>1. sums[p].latency_sum_ms >= fast * sums[p].latency_count
    BY <1>0 DEF Fair, NotFlattered
  <2>2. sums[p].latency_count \in Nat /\ fast \in Nat
    BY <1>0, ConstantFacts DEF Types, Field
  <2>3. fast * sums[p].latency_count = sums[p].latency_count * fast
    BY <2>2
  <2> QED
    BY <2>1, <2>3
<1>4. ExclusionEnds
  <2> SUFFICES ASSUME shut # NotShut PROVE now <= shut + MaxAttempt + Window + 2 * MaxTick
    BY DEF ExclusionEnds
  <2>1. PICK p \in Replica : Lead[p] = Spread
    BY ConstantFacts
  <2>2. published[p] <= shut + MaxAttempt + Window + MaxTick
    BY <1>0, <2>1 DEF Closing
  <2>3. now <= published[p] + MaxTick
    BY <1>0 DEF Pacing
  <2>4. /\ published[p] \in Nat /\ now \in Nat /\ shut \in Nat
        /\ MaxAttempt \in Nat /\ Window \in Nat /\ MaxTick \in Nat
    BY <1>0, ConstantFacts DEF Types
  <2> QED
    BY <2>2, <2>3, <2>4
<1> QED
  BY <1>0, <1>1, <1>2, <1>3, <1>4

\* The inductive invariant of the observer: types, pacing, what the hashes still
\* hold, what the aggregates have read of them, and how an exclusion ends.
THEOREM Invariance == Spec => []IInv
<1>1. IInv /\ [Next]_vars => IInv'
  BY TypesStep, PacingStep, AliveStep, BracketedStep, FairStep, ExpiringStep, ClosingStep
     DEF IInv
<1> QED
  BY <1>1, InitHolds, PTL DEF Spec

\* Type correctness: every count of a hash and of an aggregate is a natural number,
\* and every pipeline is at one of its commands.
THEOREM ObserverTypes == Spec => []TypeOK
  BY Invariance, Consequences, PTL

\* Observer.aggregate, whose reads are not atomic, counts no outcome that was not
\* recorded in its window, and misses none that was there when it began.
THEOREM AggregatesAreBracketed == Spec => []AggregateBracketed
  BY Invariance, Consequences, PTL

\* A mean latency is never below what a success really took: record_success
\* writes the sum before the count, and a reader may come in between.
THEOREM MeansAreNotFlattered == Spec => []MeanNotFlattered
  BY Invariance, Consequences, PTL

\* A hash without an expiry has a pipeline of record_success or record_failure
\* that has not come to its EXPIRE yet, or one that broke off before it.
THEOREM HashesDoExpire == Spec => []HashesExpire
  BY Invariance, Consequences, PTL

\* A candidate that no replica gives a weight is not attempted, so its failures
\* leave the window of Observer.aggregate and some replica weighs it again.
THEOREM ExclusionsEnd == Spec => []ExclusionEnds
  BY Invariance, Consequences, PTL

-----------------------------------------------------------------------------
(* The weight engine.                                                      *)

LEMMA Least ==
    ASSUME NEW S, S \subseteq Nat, S # {}
    PROVE  \E m \in S : \A k \in S : m <= k
<1> DEFINE R == OpToRel(<, Nat)
<1>1. IsWellFoundedOn(R, Nat)
  BY NatLessThanWellFounded
<1>2. \A x \in Nat, y \in Nat : x < y => <<x, y>> \in R
  BY DEF OpToRel
<1> HIDE DEF R
<1>3. PICK m \in S : \A k \in S : ~ (<<k, m>> \in R)
  BY <1>1, WFMin
<1>4. ASSUME NEW k \in S PROVE m <= k
  <2>1. k \in Nat /\ m \in Nat
    OBVIOUS
  <2>2. ~ (k < m)
    BY <1>2, <1>3, <2>1
  <2> QED
    BY <2>1, <2>2
<1> QED
  BY <1>4

LEMMA Largest ==
    ASSUME NEW n \in Nat, NEW S, S \subseteq 0 .. n, S # {}
    PROVE  \E m \in S : \A k \in S : k <= m
<1> DEFINE T == {n - k : k \in S}
<1>0. \A k \in S : k \in Nat /\ k <= n /\ n - k \in Nat
  OBVIOUS
<1>1. T \subseteq Nat /\ T # {}
  BY <1>0
<1>2. PICK t \in T : \A u \in T : t <= u
  BY <1>1, Least
<1>3. PICK m \in S : t = n - m
  BY <1>2
<1>4. ASSUME NEW k \in S PROVE k <= m
  <2>1. n - k \in T
    OBVIOUS
  <2>2. n - m <= n - k
    BY <1>2, <1>3, <2>1
  <2>3. k \in Nat /\ m \in Nat
    BY <1>0
  <2> QED
    BY <2>2, <2>3
<1> QED
  BY <1>4

\* Where a candidate stands in the configuration.
LEMMA PlacesAreEntries ==
    /\ \A t \in Tiers : /\ Config[t] \in Seq(AllEntries)
                        /\ t \in Nat /\ DOMAIN Config[t] = 1 .. Len(Config[t])
                        /\ Len(Config[t]) \in Nat
    /\ \A t \in Tiers : \A i \in DOMAIN Config[t] : Config[t][i] \in AllEntries
    /\ Tiers = 1 .. Len(Config) /\ Len(Config) \in Nat
<1>1. Config \in Seq(Seq(AllEntries))
  BY ConfigAssumption DEF ConfigAssumption
<1>2. Tiers = 1 .. Len(Config) /\ Len(Config) \in Nat
  BY <1>1 DEF Tiers
<1>3. ASSUME NEW t \in Tiers
      PROVE  /\ Config[t] \in Seq(AllEntries)
             /\ t \in Nat /\ DOMAIN Config[t] = 1 .. Len(Config[t])
             /\ Len(Config[t]) \in Nat
             /\ \A i \in DOMAIN Config[t] : Config[t][i] \in AllEntries
  <2>1. Config[t] \in Seq(AllEntries) /\ t \in Nat
    BY <1>1, <1>2
  <2>2. DOMAIN Config[t] = 1 .. Len(Config[t]) /\ Len(Config[t]) \in Nat
    BY <2>1
  <2>3. \A i \in 1 .. Len(Config[t]) : Config[t][i] \in AllEntries
    BY <2>1
  <2> QED
    BY <2>1, <2>2, <2>3
<1> QED
  BY <1>2, <1>3

LEMMA PlacesOfCandidate ==
    ASSUME NEW c \in Candidate
    PROVE  /\ Places(c) # {}
           /\ \A p \in Places(c) : /\ p \in Nat \X Nat
                                   /\ p[1] \in 0 .. Len(Config)
                                   /\ p[2] \in 0 .. Len(Config[p[1]])
                                   /\ Len(Config[p[1]]) \in Nat
                                   /\ At(p) \in AllEntries
<1>1. PICK e \in AllEntries : c = e.cand
  BY DEF Candidate
<1>2. PICK t \in Tiers : e \in EntriesOf(t)
  BY <1>1 DEF AllEntries
<1>3. PICK i \in DOMAIN Config[t] : e = Config[t][i]
  BY <1>2 DEF EntriesOf
<1>4. <<t, i>> \in Places(c)
  BY <1>1, <1>2, <1>3 DEF Places
<1>5. ASSUME NEW p \in Places(c)
      PROVE  /\ p \in Nat \X Nat
             /\ p[1] \in 0 .. Len(Config)
             /\ p[2] \in 0 .. Len(Config[p[1]])
             /\ Len(Config[p[1]]) \in Nat
             /\ At(p) \in AllEntries
  <2>1. PICK u \in Tiers : p \in {u} \X DOMAIN Config[u]
    BY DEF Places
  <2>2. p = <<u, p[2]>> /\ p[1] = u /\ p[2] \in DOMAIN Config[u]
    BY <2>1
  <2>3. /\ Config[u][p[2]] \in AllEntries
        /\ u \in 1 .. Len(Config) /\ Len(Config) \in Nat
        /\ p[2] \in 1 .. Len(Config[u]) /\ Len(Config[u]) \in Nat
    BY <2>2, PlacesAreEntries
  <2> QED
    BY <2>2, <2>3 DEF At
<1> QED
  BY <1>4, <1>5

\* A candidate has a first entry and a last one.
LEMMA FirstEntryExists ==
    ASSUME NEW c \in Candidate
    PROVE  FirstEntry(c) \in AllEntries
<1> DEFINE T == {p[1] : p \in Places(c)}
<1>1. T \subseteq Nat /\ T # {}
  BY PlacesOfCandidate
<1>2. PICK t \in T : \A u \in T : t <= u
  BY <1>1, Least
<1> DEFINE I == {p[2] : p \in {q \in Places(c) : q[1] = t}}
<1>3. I \subseteq Nat /\ I # {}
  BY <1>2, PlacesOfCandidate
<1>4. PICK i \in I : \A j \in I : i <= j
  BY <1>3, Least
<1>5. PICK p \in Places(c) : p[1] = t /\ p[2] = i
  BY <1>4
<1>6. ASSUME NEW q \in Places(c) PROVE p = q \/ Before(p, q)
  <2>1. p \in Nat \X Nat /\ q \in Nat \X Nat
    BY PlacesOfCandidate
  <2>2. t <= q[1]
    BY <1>2
  <2>3. q[1] = t => i <= q[2]
    BY <1>4
  <2>4. CASE t < q[1]
    BY <1>5, <2>4 DEF Before
  <2>5. CASE t = q[1] /\ i < q[2]
    BY <1>5, <2>5 DEF Before
  <2>6. CASE t = q[1] /\ i = q[2]
    BY <1>5, <2>1, <2>6
  <2>7. t \in Nat /\ i \in Nat /\ q[1] \in Nat /\ q[2] \in Nat
    BY <1>5, <2>1
  <2> QED
    BY <2>2, <2>3, <2>4, <2>5, <2>6, <2>7
<1> DEFINE Q(r) == \A q \in Places(c) : r = q \/ Before(r, q)
<1>7. \E r \in Places(c) : Q(r)
  BY <1>6
<1> HIDE DEF Q
<1>8. (CHOOSE r \in Places(c) : Q(r)) \in Places(c)
  BY <1>7
<1>9. FirstEntry(c) = At(CHOOSE r \in Places(c) : Q(r))
  BY DEF FirstEntry, Q
<1> QED
  BY <1>8, <1>9, PlacesOfCandidate

LEMMA LastEntryExists ==
    ASSUME NEW c \in Candidate
    PROVE  LastEntry(c) \in AllEntries
<1> DEFINE T == {p[1] : p \in Places(c)}
<1>1. T \subseteq 0 .. Len(Config) /\ T # {} /\ Len(Config) \in Nat
  BY PlacesOfCandidate, PlacesAreEntries
<1>2. PICK t \in T : \A u \in T : u <= t
  BY <1>1, Largest
<1> DEFINE I == {p[2] : p \in {q \in Places(c) : q[1] = t}}
<1>3. I \subseteq 0 .. Len(Config[t]) /\ I # {} /\ Len(Config[t]) \in Nat
  BY <1>2, PlacesOfCandidate
<1>4. PICK i \in I : \A j \in I : j <= i
  BY <1>3, Largest
<1>5. PICK p \in Places(c) : p[1] = t /\ p[2] = i
  BY <1>4
<1>6. ASSUME NEW q \in Places(c) PROVE p = q \/ Before(q, p)
  <2>1. p \in Nat \X Nat /\ q \in Nat \X Nat
    BY PlacesOfCandidate
  <2>2. q[1] <= t
    BY <1>2
  <2>3. q[1] = t => q[2] <= i
    BY <1>4
  <2>4. CASE q[1] < t
    BY <1>5, <2>4 DEF Before
  <2>5. CASE t = q[1] /\ q[2] < i
    BY <1>5, <2>5 DEF Before
  <2>6. CASE t = q[1] /\ i = q[2]
    BY <1>5, <2>1, <2>6
  <2>7. t \in Nat /\ i \in Nat /\ q[1] \in Nat /\ q[2] \in Nat
    BY <1>5, <2>1
  <2> QED
    BY <2>2, <2>3, <2>4, <2>5, <2>6, <2>7
<1> DEFINE Q(r) == \A q \in Places(c) : r = q \/ Before(q, r)
<1>7. \E r \in Places(c) : Q(r)
  BY <1>6
<1> HIDE DEF Q
<1>8. (CHOOSE r \in Places(c) : Q(r)) \in Places(c)
  BY <1>7
<1>9. LastEntry(c) = At(CHOOSE r \in Places(c) : Q(r))
  BY DEF LastEntry, Q
<1> QED
  BY <1>8, <1>9, PlacesOfCandidate

\* Weights are natural numbers, and what has one is neither OPEN nor spent.
LEMMA ProductFacts ==
    ASSUME NEW a \in Nat, NEW b \in Nat \ {0}
    PROVE  a \div b \in Nat /\ 0 \div b = 0
OBVIOUS

LEMMA MulNat == ASSUME NEW a \in Nat, NEW b \in Nat PROVE a * b \in Nat /\ a * 0 = 0
OBVIOUS

LEMMA MulPos == ASSUME NEW a \in Nat \ {0}, NEW b \in Nat \ {0} PROVE a * b \in Nat \ {0}
OBVIOUS

LEMMA ZeroTimes == ASSUME NEW b \in Nat PROVE 0 * b = 0
OBVIOUS

LEMMA BudgetFacts ==
    ASSUME NEW c \in Candidate, NEW s \in Signals(c)
    PROVE  /\ Budget(s)[1] \in Nat /\ Budget(s)[2] \in Nat \ {0}
           /\ Budget(s)[1] # 0 => s.rpm_remaining > 0 /\ s.tpm_remaining > 0
<1>1. {FirstEntry(c).rpm, FirstEntry(c).tpm} \subseteq Nat \ {0}
  BY FirstEntryExists, ConfigAssumption DEF ConfigAssumption
<1>2. {LastEntry(c).rpm, LastEntry(c).tpm} \subseteq Nat \ {0}
  BY LastEntryExists, ConfigAssumption DEF ConfigAssumption
<1>3. /\ s.rpm_cap \in Nat \ {0} /\ s.rpm_remaining \in 0 .. LastEntry(c).rpm
      /\ s.tpm_cap \in Nat \ {0} /\ s.tpm_remaining \in 0 .. LastEntry(c).tpm
  BY <1>1 DEF Signals
<1>4. s.rpm_remaining \in Nat /\ s.tpm_remaining \in Nat
  BY <1>2, <1>3
<1> DEFINE x == s.rpm_remaining * s.tpm_cap
           y == s.tpm_remaining * s.rpm_cap
<1>5. /\ x \in Nat /\ (s.rpm_remaining = 0 => x = 0) /\ (s.rpm_remaining # 0 => x # 0)
      /\ y \in Nat /\ (s.tpm_remaining = 0 => y = 0) /\ (s.tpm_remaining # 0 => y # 0)
  BY <1>3, <1>4, MulNat, MulPos, ZeroTimes
<1>6. Budget(s) = IF x <= y THEN <<s.rpm_remaining, s.rpm_cap>>
                            ELSE <<s.tpm_remaining, s.tpm_cap>>
  BY DEF Budget
<1> HIDE DEF x, y
<1>7. CASE x <= y
  <2>1. s.tpm_remaining = 0 => s.rpm_remaining = 0
    BY <1>5, <1>7
  <2> QED
    BY <1>3, <1>4, <1>6, <1>7, <2>1
<1>8. CASE ~ (x <= y)
  <2>1. s.rpm_remaining # 0
    BY <1>5, <1>8
  <2> QED
    BY <1>3, <1>4, <1>6, <1>8, <2>1
<1> QED
  BY <1>7, <1>8

LEMMA ProductOfSignals ==
    ASSUME NEW c \in Candidate, NEW s \in Signals(c)
    PROVE  /\ Product(s) \in Nat
           /\ Product(s) # 0 => s.rpm_remaining > 0 /\ s.tpm_remaining > 0
<1>1. FirstEntry(c).weight \in Nat
  BY FirstEntryExists, ConfigAssumption DEF ConfigAssumption
<1>2. /\ Budget(s)[1] \in Nat /\ Budget(s)[2] \in Nat \ {0}
      /\ Budget(s)[1] # 0 => s.rpm_remaining > 0 /\ s.tpm_remaining > 0
  BY BudgetFacts
<1>3. s.base_weight \in Nat /\ s.rate \in Rates /\ s.mean_latency \in Latencies
  BY <1>1 DEF Signals
<1>5. s.rate[2] \in Nat \ {0} /\ s.rate[1] \in 0 .. s.rate[2]
  BY <1>3, SignalAssumption DEF SignalAssumption
<1>6. s.rate[2] - s.rate[1] \in Nat
  BY <1>5
<1>7. TargetLatency \in Nat \ {0} /\ Scale \in Nat \ {0} /\ s.mean_latency \in Nat
  BY <1>3, SignalAssumption DEF SignalAssumption
<1> DEFINE A == Scale * s.base_weight * (s.rate[2] - s.rate[1]) * TargetLatency
           B == s.rate[2] * (TargetLatency + s.mean_latency) * Budget(s)[2]
<1>8. A \in Nat
  <2>1. Scale * s.base_weight \in Nat
    BY <1>3, <1>7, MulNat
  <2>2. Scale * s.base_weight * (s.rate[2] - s.rate[1]) \in Nat
    BY <1>6, <2>1, MulNat
  <2> QED
    BY <1>7, <2>2, MulNat
<1>9. B \in Nat \ {0}
  <2>1. TargetLatency + s.mean_latency \in Nat \ {0}
    BY <1>7
  <2>2. s.rate[2] * (TargetLatency + s.mean_latency) \in Nat \ {0}
    BY <1>5, <2>1, MulPos
  <2> QED
    BY <1>2, <2>2, MulPos
<1>10. Product(s) = (A * Budget(s)[1]) \div B
  BY DEF Product
<1> HIDE DEF A, B
<1>11. A * Budget(s)[1] \in Nat
  BY <1>2, <1>8, MulNat
<1>12. Product(s) \in Nat
  BY <1>9, <1>10, <1>11, ProductFacts
<1>13. Budget(s)[1] = 0 => Product(s) = 0
  <2> SUFFICES ASSUME Budget(s)[1] = 0 PROVE Product(s) = 0
    OBVIOUS
  <2>1. A * Budget(s)[1] = 0
    BY <1>8, MulNat
  <2> QED
    BY <1>9, <1>10, <2>1, ProductFacts
<1> QED
  BY <1>2, <1>12, <1>13

\* What a tick has put into the cache.
Cached == /\ DOMAIN cache \subseteq Available
          /\ \A c \in DOMAIN cache : cache[c] \in Signals(c)

LEMMA WeightFacts ==
    ASSUME Cached, NEW c
    PROVE  /\ Weight(c) \in Nat
           /\ Weight(c) > 0 => /\ c \in DOMAIN cache
                               /\ cache[c].breaker # "open"
                               /\ cache[c].rpm_remaining > 0 /\ cache[c].tpm_remaining > 0
<1>1. CASE c \notin DOMAIN cache
  BY <1>1 DEF Weight
<1>2. CASE c \in DOMAIN cache
  <2>1. c \in Candidate /\ cache[c] \in Signals(c)
    BY <1>2, SignalAssumption DEF Cached, SignalAssumption
  <2>2. /\ Product(cache[c]) \in Nat
        /\ Product(cache[c]) # 0 =>
               cache[c].rpm_remaining > 0 /\ cache[c].tpm_remaining > 0
    BY <2>1, ProductOfSignals
  <2>3. Weight(c) = IF cache[c].breaker = "open" \/ Product(cache[c]) < WeightFloor
                    THEN 0 ELSE Product(cache[c])
    BY <1>2 DEF Weight, EffectiveWeight
  <2>4. Weight(c) \in Nat
    BY <2>2, <2>3
  <2>5. Weight(c) > 0 => cache[c].breaker # "open" /\ Product(cache[c]) # 0
    BY <2>2, <2>3
  <2> QED
    BY <1>2, <2>2, <2>4, <2>5
<1> QED
  BY <1>1, <1>2

\* The cache holds what some tick has read.
LEMMA CachedHolds == WeightSpec => []Cached
<1>1. WeightInit => Cached
  BY DEF WeightInit, Cached
<1>2. Cached /\ [WeightNext]_cache => Cached'
  <2> SUFFICES ASSUME Cached, [WeightNext]_cache PROVE Cached'
    OBVIOUS
  <2>1. CASE UpdateCache
    <3>1. DOMAIN cache' = Available /\ \A c \in Available : cache'[c] \in Signals(c)
      BY <2>1 DEF UpdateCache
    <3> QED
      BY <3>1 DEF Cached
  <2>2. CASE UNCHANGED cache
    BY <2>2 DEF Cached
  <2> QED
    BY <2>1, <2>2 DEF WeightNext
<1> QED
  BY <1>1, <1>2, PTL DEF WeightSpec

\* Type correctness: whatever the signals are, WeightEngine gives every candidate a
\* weight that is a natural number of units.
THEOREM WeightTypes == WeightSpec => []WeightTypeOK
<1>1. Cached => WeightTypeOK
  BY WeightFacts DEF WeightTypeOK, Cached
<1> QED
  BY <1>1, CachedHolds, PTL

\* The first and the last place of a set of places of a tier.
LEMMA FirstLast ==
    ASSUME NEW n \in Nat, NEW S, S \subseteq 1 .. n, S # {}
    PROVE  /\ First(S) \in S /\ \A j \in S : First(S) <= j
           /\ Last(S) \in S /\ \A j \in S : j <= Last(S)
<1>1. S \subseteq Nat /\ S \subseteq 0 .. n
  OBVIOUS
<1>2. \E i \in S : \A j \in S : i <= j
  BY <1>1, Least
<1>3. \E i \in S : \A j \in S : j <= i
  BY <1>1, Largest
<1>4. First(S) \in S /\ \A j \in S : First(S) <= j
  BY <1>2 DEF First
<1>5. Last(S) \in S /\ \A j \in S : j <= Last(S)
  BY <1>3 DEF Last
<1> QED
  BY <1>4, <1>5

LEMMA EligiblePlaces ==
    ASSUME NEW tier \in Tiers, NEW exclude
    PROVE  /\ Len(Config[tier]) \in Nat
           /\ DOMAIN Config[tier] = 1 .. Len(Config[tier])
           /\ Eligible(tier, exclude) \subseteq 1 .. Len(Config[tier])
BY PlacesAreEntries DEF Eligible

\* WeightEngine.pick never gives an excluded, OPEN or spent candidate, also when
\* rounding puts the draw beyond the sum, and gives None only when nothing is left.
THEOREM PicksAreSound == WeightSpec => []PickIsSound
<1>1. Cached => PickIsSound
  <2> SUFFICES ASSUME Cached, NEW rq \in Requests, NEW draw
               PROVE  LET c == Pick(rq[1], rq[2], draw)
                      IN  IF c = None
                          THEN \A e \in EntriesOf(rq[1]) : e.cand \in rq[2] \/ Weight(e.cand) = 0
                          ELSE /\ c \in {e.cand : e \in EntriesOf(rq[1])} \cap DOMAIN cache
                               /\ c \notin rq[2]
                               /\ cache[c].breaker # "open"
                               /\ cache[c].rpm_remaining > 0 /\ cache[c].tpm_remaining > 0
    BY DEF PickIsSound
  <2>1. PICK tier \in Tiers, exclude \in SUBSET Candidate : rq[1] = tier /\ rq[2] = exclude
    BY DEF Requests
  <2> DEFINE places == Eligible(tier, exclude)
             hits == {i \in places : Reaches(tier, exclude, i, draw)}
             chosen == IF hits = {} THEN Last(places) ELSE First(hits)
             c == Pick(tier, exclude, draw)
  <2>2. c = IF places = {} THEN None ELSE Config[tier][chosen].cand
    BY DEF Pick
  <2>3. CASE places = {}
    <3>1. c = None
      BY <2>2, <2>3
    <3>2. ASSUME NEW e \in EntriesOf(tier) PROVE e.cand \in exclude \/ Weight(e.cand) = 0
      <4>1. PICK i \in DOMAIN Config[tier] : e = Config[tier][i]
        BY DEF EntriesOf
      <4>2. e.cand \in exclude \/ ~ (Weight(e.cand) > 0)
        BY <2>3, <4>1 DEF Eligible
      <4>3. Weight(e.cand) \in Nat
        BY WeightFacts
      <4> QED
        BY <4>2, <4>3
    <3> QED
      BY <2>1, <3>1, <3>2
  <2>4. CASE places # {}
    <3>1. chosen \in places
      <4>1. /\ Len(Config[tier]) \in Nat
            /\ places \subseteq 1 .. Len(Config[tier])
            /\ hits \subseteq 1 .. Len(Config[tier])
        BY EligiblePlaces
      <4>2. Last(places) \in places
        BY <2>4, <4>1, FirstLast
      <4>3. hits # {} => First(hits) \in hits
        BY <4>1, FirstLast
      <4> QED
        BY <4>2, <4>3
    <3> HIDE DEF chosen
    <3>2. /\ chosen \in DOMAIN Config[tier]
          /\ Config[tier][chosen].cand \notin exclude
          /\ Weight(Config[tier][chosen].cand) > 0
      BY <3>1 DEF Eligible
    <3>3. c = Config[tier][chosen].cand
      BY <2>2, <2>4
    <3>4. Config[tier][chosen] \in EntriesOf(tier)
      BY <3>2 DEF EntriesOf
    <3>5. Config[tier][chosen] \in AllEntries
      BY <3>2, PlacesAreEntries
    <3>6. c # None
      BY <3>3, <3>5, ConfigAssumption DEF ConfigAssumption, Candidate
    <3>7. /\ c \in DOMAIN cache /\ cache[c].breaker # "open"
          /\ cache[c].rpm_remaining > 0 /\ cache[c].tpm_remaining > 0
      BY <3>2, <3>3, WeightFacts
    <3> HIDE DEF c
    <3>8. c \in {e.cand : e \in EntriesOf(tier)} /\ c \notin exclude
      BY <3>2, <3>3, <3>4
    <3>9. Pick(rq[1], rq[2], draw) = c
      BY <2>1 DEF c
    <3> QED
      BY <2>1, <3>6, <3>7, <3>8, <3>9
  <2> QED
    BY <2>3, <2>4
<1> QED
  BY <1>1, CachedHolds, PTL

-----------------------------------------------------------------------------
(* The draw over one tier: n places with weights w, of which P take part. *)
Below(w, P, i) == TotalOf(w, {j \in P : j < i})
UpTo(w, P, i) == TotalOf(w, {j \in P : j <= i})

LEMMA UpToAdds ==
    ASSUME NEW n \in Nat, NEW w, \A i \in 1 .. n : w[i] \in Nat,
           NEW P, P \subseteq 1 .. n, NEW i \in P
    PROVE  /\ Below(w, P, i) \in Nat
           /\ UpTo(w, P, i) = Below(w, P, i) + w[i]
           /\ UpTo(w, P, i) <= TotalOf(w, P)
           /\ TotalOf(w, P) \in Nat
<1> DEFINE S == {j \in P : j < i}
           T == {j \in P : j <= i}
<1>1. IsFiniteSet(1 .. n)
  BY FS_Interval
<1>2. IsFiniteSet(P) /\ IsFiniteSet(S)
  BY <1>1, FS_Subset
<1>3. i \in Nat /\ \A j \in P : j \in Nat /\ w[j] \in Nat
  OBVIOUS
<1>4. T = S \cup {i} /\ i \notin S
  <2>1. \A j \in P : j <= i <=> j < i \/ j = i
    BY <1>3
  <2>2. i \notin S
    BY <1>3
  <2> QED
    BY <2>1, <2>2
<1>5. T \subseteq P
  OBVIOUS
<1>6. \A j \in S \cup {i} : w[j] \in Nat
  BY <1>3
<1> HIDE DEF S, T
<1>7. TotalOf(w, S \cup {i}) = TotalOf(w, S) + w[i]
  BY <1>2, <1>4, <1>6, TotalAdds
<1>8. TotalOf(w, S) \in Nat
  BY <1>2, <1>6, TotalNat
<1>9. TotalOf(w, P) \in Nat
  BY <1>2, <1>3, TotalNat
<1>10. \A j \in T : w[j] \in Nat /\ w[j] <= w[j]
  BY <1>3, <1>5
<1>11. TotalOf(w, T) <= TotalOf(w, P)
  BY <1>2, <1>3, <1>5, <1>10, TotalMonotonic
<1> QED
  BY <1>4, <1>7, <1>8, <1>9, <1>11 DEF Below, UpTo, S, T

LEMMA UpToFacts ==
    ASSUME NEW n \in Nat, NEW w, \A i \in 1 .. n : w[i] \in Nat,
           NEW P, P \subseteq 1 .. n
    PROVE  \A i \in P : /\ Below(w, P, i) \in Nat
                        /\ UpTo(w, P, i) = Below(w, P, i) + w[i]
                        /\ UpTo(w, P, i) <= TotalOf(w, P)
                        /\ TotalOf(w, P) \in Nat
<1> TAKE i \in P
<1> QED
  BY UpToAdds

\* What is above the sum below a place is above every earlier place's sum.
LEMMA EarlierIsBelow ==
    ASSUME NEW n \in Nat, NEW w, \A i \in 1 .. n : w[i] \in Nat,
           NEW P, P \subseteq 1 .. n, NEW i \in P, NEW j \in P, j < i
    PROVE  UpTo(w, P, j) <= Below(w, P, i)
<1> DEFINE S == {k \in P : k < i}
           T == {k \in P : k <= j}
<1>1. IsFiniteSet(1 .. n)
  BY FS_Interval
<1>2. IsFiniteSet(S)
  BY <1>1, FS_Subset
<1>3. i \in Nat /\ j \in Nat /\ \A k \in P : k \in Nat /\ w[k] \in Nat
  OBVIOUS
<1>4. T \subseteq S
  <2>1. \A k \in P : k <= j => k < i
    BY <1>3
  <2> QED
    BY <2>1
<1>5. \A k \in S : w[k] \in Nat
  BY <1>3
<1> HIDE DEF S, T
<1>6. \A k \in T : w[k] \in Nat /\ w[k] <= w[k]
  BY <1>4, <1>5
<1>7. TotalOf(w, T) <= TotalOf(w, S)
  BY <1>2, <1>4, <1>5, <1>6, TotalMonotonic
<1> QED
  BY <1>7 DEF Below, UpTo, S, T

\* A draw in the slices of a place has that place for its first hit.
LEMMA SliceHits ==
    ASSUME NEW n \in Nat, NEW w, \A i \in 1 .. n : w[i] \in Nat,
           NEW P, P \subseteq 1 .. n, NEW i \in P, NEW d \in Nat,
           Below(w, P, i) < d, d <= UpTo(w, P, i)
    PROVE  /\ {j \in P : d <= UpTo(w, P, j)} # {}
           /\ First({j \in P : d <= UpTo(w, P, j)}) = i
<1>0. \A k \in P : /\ Below(w, P, k) \in Nat
                   /\ UpTo(w, P, k) = Below(w, P, k) + w[k]
                   /\ UpTo(w, P, k) <= TotalOf(w, P)
                   /\ TotalOf(w, P) \in Nat
  BY UpToFacts
<1> DEFINE H == {j \in P : d <= UpTo(w, P, j)}
<1>1. i \in H
  OBVIOUS
<1>2. ASSUME NEW j \in H PROVE i <= j
  <2>1. i \in Nat /\ j \in Nat /\ j \in P /\ d <= UpTo(w, P, j)
    OBVIOUS
  <2>2. ASSUME j < i PROVE FALSE
    <3>1. UpTo(w, P, j) <= Below(w, P, i)
      BY <2>1, <2>2, EarlierIsBelow
    <3>2. Below(w, P, i) \in Nat
      BY UpToAdds
    <3>3. Below(w, P, j) \in Nat /\ UpTo(w, P, j) = Below(w, P, j) + w[j]
      BY <1>0, <2>1
    <3>4. w[j] \in Nat
      BY <2>1
    <3> QED
      BY <2>1, <3>1, <3>2, <3>3, <3>4
  <2> QED
    BY <2>1, <2>2
<1>3. H \subseteq 1 .. n
  OBVIOUS
<1> HIDE DEF H
<1>4. First(H) \in H /\ \A j \in H : First(H) <= j
  BY <1>1, <1>3, FirstLast
<1>5. First(H) \in Nat /\ i \in Nat
  <2>1. First(H) \in 1 .. n /\ i \in 1 .. n
    BY <1>3, <1>4
  <2> QED
    BY <2>1
<1>6. First(H) = i
  BY <1>1, <1>2, <1>4, <1>5
<1> QED
  BY <1>1, <1>6 DEF H

\* A draw within the total falls in the slices of its first hit.
LEMMA HitSlices ==
    ASSUME NEW n \in Nat, NEW w, \A i \in 1 .. n : w[i] \in Nat,
           NEW P, P \subseteq 1 .. n, NEW d \in Nat, 0 < d, d <= TotalOf(w, P)
    PROVE  LET H == {j \in P : d <= UpTo(w, P, j)}
           IN  /\ H # {} /\ First(H) \in P
               /\ Below(w, P, First(H)) < d /\ d <= UpTo(w, P, First(H))
<1> DEFINE H == {j \in P : d <= UpTo(w, P, j)}
<1>0. \A j \in P : j \in Nat /\ j \in 1 .. n
  OBVIOUS
<1>1. P # {}
  <2> SUFFICES ASSUME P = {} PROVE FALSE
    OBVIOUS
  <2>1. TotalOf(w, P) = 0
    BY TotalEmpty
  <2> QED
    BY <2>1
<1>2. Last(P) \in P /\ \A j \in P : j <= Last(P)
  BY <1>1, FirstLast
<1>3. {j \in P : j <= Last(P)} = P
  BY <1>2
<1>4. Last(P) \in H
  BY <1>2, <1>3 DEF UpTo
<1>5. H \subseteq 1 .. n
  OBVIOUS
<1>6. First(H) \in H /\ \A j \in H : First(H) <= j
  <2> HIDE DEF H
  <2> QED
    BY <1>4, <1>5, FirstLast
<1> DEFINE i == First(H)
<1>7. i \in P /\ i \in Nat /\ d <= UpTo(w, P, i)
  BY <1>0, <1>6
<1>8. Below(w, P, i) < d
  <2> DEFINE S == {j \in P : j < i}
  <2> HIDE DEF i
  <2>1. CASE S = {}
    <3>1. Below(w, P, i) = 0
      BY <2>1, TotalEmpty DEF Below
    <3> QED
      BY <3>1
  <2>2. CASE S # {}
    <3>1. S \subseteq 1 .. n
      OBVIOUS
    <3>2. Last(S) \in S /\ \A j \in S : j <= Last(S)
      <4> HIDE DEF S
      <4> QED
        BY <2>2, <3>1, FirstLast
    <3> DEFINE m == Last(S)
    <3>3. m \in P /\ m < i /\ m \in Nat
      BY <1>0, <3>2
    <3>4. S = {j \in P : j <= m}
      <4>1. \A j \in P : j < i => j <= m
        BY <3>2
      <4>2. \A j \in P : j <= m => j < i
        BY <1>0, <1>7, <3>3
      <4> HIDE DEF m
      <4> QED
        BY <4>1, <4>2
    <3>5. Below(w, P, i) = UpTo(w, P, m)
      BY <3>4 DEF Below, UpTo
    <3>6. m \notin H
      <4>1. \A j \in H : i <= j
        BY <1>6 DEF i
      <4> HIDE DEF H, m
      <4> QED
        BY <1>7, <3>3, <4>1
    <3>7. ~ (d <= UpTo(w, P, m))
      BY <3>3, <3>6
    <3>8. Below(w, P, i) \in Nat
      BY <1>7, UpToAdds
    <3> QED
      BY <3>5, <3>7, <3>8
  <2> QED
    BY <2>1, <2>2
<1> QED
  BY <1>4, <1>7, <1>8

LEMMA Cancel == ASSUME NEW a \in Nat, NEW b \in Nat, NEW c \in Nat, a + b = a + c PROVE b = c
OBVIOUS

Slices(w, P, C) ==
    {d \in 1 .. TotalOf(w, P) : First({j \in P : d <= UpTo(w, P, j)}) \in C}

\* As many draws fall on the places C as these have weight.
LEMMA FairDraw ==
    ASSUME NEW n \in Nat, NEW w, \A i \in 1 .. n : w[i] \in Nat,
           NEW P, P \subseteq 1 .. n, NEW C, C \subseteq 1 .. n,
           \A i \in C : w[i] > 0 => i \in P
    PROVE  Cardinality(Slices(w, P, C)) = TotalOf(w, C)
<1> DEFINE H(d) == {j \in P : d <= UpTo(w, P, j)}
           D == {d \in 1 .. TotalOf(w, P) : First(H(d)) \in C}
           U == UnitsOf(w, C)
           f == [u \in U |-> Below(w, P, u[1]) + u[2]]
<1>0. \A k \in P : /\ Below(w, P, k) \in Nat /\ UpTo(w, P, k) = Below(w, P, k) + w[k]
                   /\ UpTo(w, P, k) <= TotalOf(w, P) /\ TotalOf(w, P) \in Nat
  BY UpToFacts
<1>1. ASSUME NEW u \in U
      PROVE  /\ u = <<u[1], u[2]>> /\ u[1] \in C /\ u[1] \in P /\ u[2] \in 1 .. w[u[1]]
             /\ u[2] \in Nat /\ 0 < u[2] /\ u[2] <= w[u[1]] /\ w[u[1]] \in Nat
  <2>1. PICK i \in C : u \in {i} \X (1 .. w[i])
    BY DEF UnitsOf
  <2>2. u = <<u[1], u[2]>> /\ u[1] = i /\ u[2] \in 1 .. w[i]
    BY <2>1
  <2>3. i \in 1 .. n
    OBVIOUS
  <2>4. w[i] \in Nat
    BY <2>3
  <2>5. u[2] \in Nat /\ 0 < u[2] /\ u[2] <= w[i]
    BY <2>2, <2>4
  <2>6. w[i] > 0
    BY <2>4, <2>5
  <2> QED
    BY <2>2, <2>4, <2>5, <2>6
<1> HIDE DEF U
<1>2. ASSUME NEW u \in U
      PROVE  f[u] \in D /\ First(H(f[u])) = u[1] /\ f[u] = Below(w, P, u[1]) + u[2]
  <2>1. f[u] = Below(w, P, u[1]) + u[2]
    OBVIOUS
  <2> HIDE DEF f
  <2>2. /\ f[u] \in Nat /\ Below(w, P, u[1]) < f[u] /\ f[u] <= UpTo(w, P, u[1])
        /\ f[u] \in 1 .. TotalOf(w, P)
    BY <1>0, <1>1, <2>1
  <2>3. First(H(f[u])) = u[1]
    BY <1>1, <2>2, SliceHits
  <2> QED
    BY <1>1, <2>1, <2>2, <2>3
<1>3. f \in [U -> D]
  BY <1>2
<1> HIDE DEF D, H, f
<1>4. ASSUME NEW u \in U, NEW v \in U, f[u] = f[v] PROVE u = v
  <2>1. u[1] = v[1]
    BY <1>2, <1>4
  <2>2. f[u] = Below(w, P, u[1]) + u[2] /\ f[v] = Below(w, P, u[1]) + v[2]
    BY <1>2, <2>1
  <2>3. u[2] \in Nat /\ v[2] \in Nat /\ Below(w, P, u[1]) \in Nat
    BY <1>0, <1>1
  <2>4. Below(w, P, u[1]) + u[2] = Below(w, P, u[1]) + v[2]
    BY <1>4, <2>2
  <2>5. u[2] = v[2]
    BY <2>3, <2>4, Cancel
  <2> QED
    BY <1>1, <2>1, <2>5
<1>5. ASSUME NEW d \in D PROVE \E u \in U : f[u] = d
  <2> DEFINE i == First(H(d))
             u == <<i, d - Below(w, P, i)>>
  <2>0. TotalOf(w, P) \in Nat
    <3>1. IsFiniteSet(1 .. n)
      BY FS_Interval
    <3>2. IsFiniteSet(P) /\ \A k \in P : w[k] \in Nat
      BY <3>1, FS_Subset
    <3> QED
      BY <3>2, TotalNat
  <2>1. d \in Nat /\ 0 < d /\ d <= TotalOf(w, P) /\ i \in C
    BY <2>0 DEF D
  <2>2. i \in P /\ Below(w, P, i) < d /\ d <= UpTo(w, P, i)
    BY <2>1, HitSlices DEF H
  <2> HIDE DEF i
  <2>3. d - Below(w, P, i) \in 1 .. w[i]
    <3>1. Below(w, P, i) \in Nat /\ UpTo(w, P, i) = Below(w, P, i) + w[i]
      BY <1>0, <2>2
    <3>2. i \in 1 .. n
      BY <2>2
    <3>3. w[i] \in Nat
      BY <3>2
    <3> QED
      BY <2>1, <2>2, <3>1, <3>3
  <2>4. u \in U
    <3>1. u \in {i} \X (1 .. w[i])
      BY <2>3
    <3> HIDE DEF u
    <3> QED
      BY <2>1, <3>1 DEF U, UnitsOf
  <2>5. Below(w, P, i) \in Nat
    BY <1>0, <2>2
  <2>6. f[u] = Below(w, P, i) + (d - Below(w, P, i))
    BY <1>2, <2>4
  <2>7. f[u] = d
    BY <2>1, <2>5, <2>6
  <2> QED
    BY <2>4, <2>7
<1>6. f \in Bijection(U, D)
  <2>1. f \in Injection(U, D)
    BY <1>3, <1>4, Fun_IsInj
  <2>2. f \in Surjection(U, D)
    BY <1>3, <1>5, Fun_IsSurj
  <2> QED
    BY <2>1, <2>2 DEF Bijection
<1>7. ExistsBijection(U, D)
  BY <1>6 DEF ExistsBijection
<1>8. IsFiniteSet(U)
  <2>1. IsFiniteSet(1 .. n)
    BY FS_Interval
  <2>2. IsFiniteSet(C) /\ \A k \in C : w[k] \in Nat
    BY <2>1, FS_Subset
  <2> QED
    BY <2>2, TotalNat DEF U
<1>9. Cardinality(D) = Cardinality(U)
  BY <1>7, <1>8, FS_Bijection
<1> QED
  BY <1>9 DEF D, H, U, TotalOf, Slices

LEMMA FairDraws ==
    \A n \in Nat : \A w, P, C :
        /\ \A i \in 1 .. n : w[i] \in Nat
        /\ P \subseteq 1 .. n /\ C \subseteq 1 .. n
        /\ \A i \in C : w[i] > 0 => i \in P
        => Cardinality(Slices(w, P, C)) = TotalOf(w, C)
<1> SUFFICES ASSUME NEW n \in Nat, NEW w, NEW P, NEW C,
                    \A i \in 1 .. n : w[i] \in Nat,
                    P \subseteq 1 .. n, C \subseteq 1 .. n,
                    \A i \in C : w[i] > 0 => i \in P
             PROVE  Cardinality(Slices(w, P, C)) = TotalOf(w, C)
  OBVIOUS
<1> QED
  BY FairDraw

\* The accumulating loop of WeightEngine.pick gives every candidate a share of the
\* draws that is its share of the weight, for every tier and every exclusion.
THEOREM PicksAreFair == WeightSpec => []PickIsFair
<1>1. Cached => PickIsFair
  <2> SUFFICES ASSUME Cached, NEW rq \in Requests, NEW c \in Candidate \ rq[2]
               PROVE  Cardinality({draw \in 1 .. Total(rq[1], rq[2]) : Pick(rq[1], rq[2], draw) = c})
                          = WeightsOf(rq[1], {i \in DOMAIN Config[rq[1]] :
                                                  Config[rq[1]][i].cand = c})
    BY DEF PickIsFair
  <2>1. PICK tier \in Tiers, exclude \in SUBSET Candidate : rq[1] = tier /\ rq[2] = exclude
    BY DEF Requests
  <2> DEFINE n == Len(Config[tier])
             w == [i \in DOMAIN Config[tier] |-> Weight(Config[tier][i].cand)]
             P == Eligible(tier, exclude)
             C == {i \in DOMAIN Config[tier] : Config[tier][i].cand = c}
             H(d) == {j \in P : d <= UpTo(w, P, j)}
  <2>2. n \in Nat /\ DOMAIN Config[tier] = 1 .. n /\ P \subseteq 1 .. n /\ C \subseteq 1 .. n
    BY EligiblePlaces
  <2>3. \A i \in 1 .. n : w[i] = Weight(Config[tier][i].cand) /\ w[i] \in Nat
    BY <2>2, WeightFacts
  <2>4. \A i \in C : w[i] > 0 => i \in P
    BY <2>1, <2>2 DEF Eligible
  <2>5. \A S : WeightsOf(tier, S) = TotalOf(w, S)
    BY DEF WeightsOf
  <2> HIDE DEF w, n
  <2>6. Total(tier, exclude) = TotalOf(w, P)
    BY <2>5 DEF Total
  <2>7. ASSUME NEW d \in 1 .. TotalOf(w, P)
        PROVE  Pick(tier, exclude, d) = c <=> First(H(d)) \in C
    <3>0. TotalOf(w, P) \in Nat
      <4>1. IsFiniteSet(1 .. n)
        BY <2>2, FS_Interval
      <4>2. IsFiniteSet(P) /\ \A k \in P : w[k] \in Nat
        BY <2>2, <2>3, <4>1, FS_Subset
      <4> QED
        BY <4>2, TotalNat
    <3>1. d \in Nat /\ 0 < d /\ d <= TotalOf(w, P)
      BY <3>0
    <3> HIDE DEF P
    <3>2. H(d) # {} /\ First(H(d)) \in P
      BY <2>2, <2>3, <3>1, HitSlices
    <3>3. {i \in P : Reaches(tier, exclude, i, d)} = H(d)
      <4>1. \A i \in P : Reaches(tier, exclude, i, d) <=> d <= UpTo(w, P, i)
        BY <2>5 DEF Reaches, UpTo, P
      <4> QED
        BY <4>1
    <3>4. P # {}
      BY <3>2
    <3> HIDE DEF H
    <3>5. Pick(tier, exclude, d) = Config[tier][First(H(d))].cand
      BY <3>2, <3>3, <3>4 DEF Pick, P
    <3>6. First(H(d)) \in DOMAIN Config[tier]
      BY <2>2, <3>2
    <3> QED
      BY <3>5, <3>6
  <2> HIDE DEF P, C, H
  <2>8. Cardinality({d \in 1 .. TotalOf(w, P) : First(H(d)) \in C}) = TotalOf(w, C)
    <3>1. C \subseteq 1 .. n /\ P \subseteq 1 .. n /\ n \in Nat /\ \A i \in 1 .. n : w[i] \in Nat
      BY <2>2, <2>3
    <3>2. Cardinality(Slices(w, P, C)) = TotalOf(w, C)
      BY <2>4, <3>1, FairDraws
    <3> QED
      BY <3>2 DEF H, Slices
  <2>9. {d \in 1 .. Total(tier, exclude) : Pick(tier, exclude, d) = c}
            = {d \in 1 .. TotalOf(w, P) : First(H(d)) \in C}
    BY <2>6, <2>7
  <2> QED
    BY <2>1, <2>5, <2>8, <2>9 DEF C
<1> QED
  BY <1>1, CachedHolds, PTL
=============================================================================
