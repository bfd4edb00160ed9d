---------------------------- MODULE RouterProofs ----------------------------
(***************************************************************************)
(* Safety of one call of route, for every configuration of tiers and every *)
(* choice of the durations that DurationAssumption allows.                 *)
(***************************************************************************)
EXTENDS Router, SequenceTheorems, TLAPS

Entry == Candidate \X (FailureStatus \cup SkipStatus)
Attempt == Candidate \X (FailureStatus \cup {"ok"})

LEMMA Durations ==
    /\ TotalBudget \in Nat /\ PerAttemptMax \in Nat /\ Buffer \in Nat
    /\ MinRemaining \in Nat /\ MinAttempt \in Nat /\ Grace \in Nat
    /\ MaxRedisDelay \in Nat
    /\ MinAttempt + Buffer <= MinRemaining
    /\ MinRemaining <= TotalBudget
  BY DurationAssumption

-----------------------------------------------------------------------------
\* While the coroutine awaits anything, it holds a candidate of a known tier
\* that it has not given up.
Holds ==
    /\ pc = "start" => tier = UnknownTier
    /\ pc \in {"loop"} \cup Awaiting => tier \in Tier
    /\ pc \in Awaiting => cand \in CandidatesOf[tier] /\ cand \notin exclude
    /\ pc = "record" =>
          attempts # <<>> /\ attempts[Len(attempts)][2] \in FailureStatus

Core == TypeOK /\ Holds

LEMMA CandidatesTyped == \A t \in Tier : CandidatesOf[t] \subseteq Candidate
  BY TierAssumption

\* What giving a candidate up does, for each status it is given up with.
LEMMA GiveUpTyped ==
    ASSUME Core, pc \in Awaiting, NEW status \in FailureStatus \cup SkipStatus, GiveUpOn(status)
    PROVE  /\ tried' \in Seq(Entry)
           /\ exclude' \in SUBSET Candidate
           /\ pc' = "loop"
           /\ outcome' = outcome
<1>1. cand \in Candidate
  BY CandidatesTyped DEF Core, Holds, Awaiting
<1>2. tried \in Seq(Entry) /\ exclude \in SUBSET Candidate
  BY DEF Core, TypeOK, Entry
<1>3. <<cand, status>> \in Entry
  BY <1>1 DEF Entry
<1> QED
  BY <1>1, <1>2, <1>3 DEF GiveUpOn

LEMMA AttemptTimeoutTyped ==
    ASSUME Core
    PROVE  AttemptTimeout \in Nat
  BY Durations DEF Core, TypeOK, AttemptTimeout

LEMMA Appended ==
    ASSUME NEW q \in Seq(Attempt), NEW a \in Attempt
    PROVE  /\ Append(q, a) \in Seq(Attempt)
           /\ Append(q, a) # <<>>
           /\ Len(Append(q, a)) = Len(q) + 1
           /\ Append(q, a)[Len(q) + 1] = a
           /\ \A i \in 1 .. Len(q) : Append(q, a)[i] = q[i]
  BY AppendProperties

LEMMA AppendedAttempt ==
    ASSUME Core, pc \in Awaiting, NEW status \in FailureStatus \cup {"ok"}
    PROVE  LET longer == Append(attempts, <<cand, status>>)
           IN  /\ longer \in Seq(Attempt)
               /\ longer # <<>>
               /\ Len(longer) = Len(attempts) + 1
               /\ longer[Len(longer)] = <<cand, status>>
               /\ \A i \in 1 .. Len(attempts) : longer[i] = attempts[i]
<1>1. cand \in Candidate
  BY CandidatesTyped DEF Core, Holds
<1>2. attempts \in Seq(Attempt)
  BY DEF Core, TypeOK, Attempt
<1>3. <<cand, status>> \in Attempt
  BY <1>1 DEF Attempt
<1> QED
  BY <1>2, <1>3, Appended

LEMMA CoreInit == Init => Core
  BY DEF Init, Core, TypeOK, Holds, Awaiting, Outcome

LEMMA CoreStep == Core /\ [Next]_vars => Core'
<1> SUFFICES ASSUME Core, [Next]_vars
             PROVE  Core'
  OBVIOUS
<1> USE DEF Awaiting
<1>1. CASE Begin
  BY <1>1, Durations DEF Begin, Core, TypeOK, Holds, clock, Outcome
<1>2. CASE BeginUnknownTier
  BY <1>2 DEF BeginUnknownTier, Finish, Core, TypeOK, Holds, clock, locals, Outcome, ErrorKind
<1>3. CASE LoopOutOfBudget
  BY <1>3 DEF LoopOutOfBudget, Finish, Core, TypeOK, Holds, clock, locals, Outcome, ErrorKind
<1>4. CASE LoopNothingToPick
  BY <1>4 DEF LoopNothingToPick, Finish, Core, TypeOK, Holds, clock, locals, Outcome, ErrorKind
<1>5. CASE LoopPicks
  <2>1. /\ pc = "loop" /\ pc' = "acquire" /\ since' = now
        /\ cand' \in CandidatesOf[tier] /\ cand' \notin exclude
        /\ UNCHANGED <<now, routable, outcome, tier, deadline, attempt_timeout, exclude, tried, attempts>>
    BY <1>5 DEF LoopPicks, Await, Pickable, clock
  <2>2. remaining' = deadline - now /\ deadline - now >= MinRemaining
    BY <1>5 DEF LoopPicks, BudgetLeft
  <2>3. cand' \in Candidate
    BY <2>1, CandidatesTyped DEF Core, Holds
  <2>4. remaining' \in Nat
    <3>1. deadline \in Nat /\ now \in Nat
      BY DEF Core, TypeOK
    <3> QED
      BY <2>2, <3>1, Durations
  <2> QED
    BY <2>1, <2>3, <2>4 DEF Core, TypeOK, Holds, Outcome
<1>6. CASE BucketEmpty
  <2>1. GiveUpOn("bucket_empty") /\ "bucket_empty" \in FailureStatus \cup SkipStatus
    BY <1>6 DEF BucketEmpty, SkipStatus
  <2> QED
    BY <1>6, <2>1, GiveUpTyped DEF BucketEmpty, Core, TypeOK, Holds, clock, Entry
<1>7. CASE BucketGrantsNoVendor
  <2>1. GiveUpOn("vendor_missing") /\ "vendor_missing" \in FailureStatus \cup SkipStatus
    BY <1>7 DEF BucketGrantsNoVendor, SkipStatus
  <2> QED
    BY <1>7, <2>1, GiveUpTyped, AttemptTimeoutTyped
    DEF BucketGrantsNoVendor, Core, TypeOK, Holds, clock, Entry
<1>8. CASE BucketGrants
  BY <1>8, AttemptTimeoutTyped DEF BucketGrants, Await, Core, TypeOK, Holds, clock
<1>9. CASE VendorFails
  <2>1. PICK status \in FailureStatus : attempts' = Append(attempts, <<cand, status>>)
    BY <1>9 DEF VendorFails
  <2>2. /\ pc = "call" /\ pc' = "record" /\ since' = now
        /\ UNCHANGED <<now, routable, outcome, tier, deadline, remaining, cand, attempt_timeout,
                       exclude, tried>>
    BY <1>9 DEF VendorFails, Await, clock
  <2>3. /\ attempts' \in Seq(Attempt) /\ attempts' # <<>>
        /\ attempts'[Len(attempts')][2] = status
    BY <2>1, <2>2, AppendedAttempt
  <2> QED
    BY <2>2, <2>3 DEF Core, TypeOK, Holds, Attempt
<1>10. CASE VendorAnswers
  BY <1>10 DEF VendorAnswers, Await, Core, TypeOK, Holds, clock, locals
<1>11. CASE RecordedRetryable
  <2>1. GiveUpOn(LastStatus) /\ LastStatus \in FailureStatus \cup SkipStatus
    BY <1>11 DEF RecordedRetryable, FailureStatus
  <2> QED
    BY <1>11, <2>1, GiveUpTyped DEF RecordedRetryable, Core, TypeOK, Holds, clock, Entry
<1>12. CASE RecordedFatal
  <2>1. LastStatus \in FailureStatus \cup SkipStatus /\ cand \in Candidate
    BY <1>12, CandidatesTyped DEF RecordedFatal, FailureStatus, Core, Holds
  <2>2. tried \in Seq(Entry) /\ <<cand, LastStatus>> \in Entry
    BY <2>1 DEF Core, TypeOK, Entry
  <2>3. tried' \in Seq(Entry)
    BY <1>12, <2>2 DEF RecordedFatal
  <2> QED
    BY <1>12, <2>3
    DEF RecordedFatal, Finish, Core, TypeOK, Holds, clock, Entry, Outcome, ErrorKind
<1>13. CASE RecordedOk
  <2>1. attempts' \in Seq(Attempt)
    BY <1>13, AppendedAttempt DEF RecordedOk
  <2> QED
    BY <1>13, <2>1 DEF RecordedOk, Finish, Core, TypeOK, Holds, clock, Attempt, Outcome
<1>14. CASE Breaks
  BY <1>14 DEF Breaks, Finish, Core, TypeOK, Holds, clock, locals, Outcome
<1>15. CASE Refresh
  BY <1>15 DEF Refresh, Core, TypeOK, Holds, locals
<1>16. CASE Tick
  <2>1. UNCHANGED <<routable, pc, since, locals, outcome>>
    BY <1>16 DEF Tick
  <2>2. now' = now + 1 /\ now \in Nat
    BY <1>16 DEF Tick, Core, TypeOK
  <2>3. now' \in Nat
    BY <2>2
  <2> QED
    BY <2>1, <2>3 DEF Core, TypeOK, Holds, locals
<1>17. CASE UNCHANGED vars
  BY <1>17 DEF vars, clock, locals, Core, TypeOK, Holds
<1> QED
  BY <1>1, <1>2, <1>3, <1>4, <1>5, <1>6, <1>7, <1>8, <1>9, <1>10, <1>11, <1>12, <1>13, <1>14,
     <1>15, <1>16, <1>17 DEF Next, RouteStep

LEMMA CoreHolds == Spec => []Core
  BY CoreInit, CoreStep, PTL DEF Spec

\* The variables keep their types, and route has an outcome exactly when it is
\* done.
THEOREM TypeCorrect == Spec => []TypeOK
<1>1. Core => TypeOK
  BY DEF Core
<1> QED
  BY <1>1, CoreHolds, PTL

-----------------------------------------------------------------------------
\* EachRoundExcludes needs no more than that the candidate at hand is one of
\* the tier and not excluded yet.
LEMMA RoundStep == Core /\ [Next]_vars => [(pc' = "loop" /\ pc # "start") =>
          /\ exclude \subseteq exclude'
          /\ exclude' \cap CandidatesOf[tier] # exclude \cap CandidatesOf[tier]]_vars
<1> SUFFICES ASSUME Core, Next, pc' = "loop", pc # "start"
             PROVE  /\ exclude \subseteq exclude'
                    /\ exclude' \cap CandidatesOf[tier] # exclude \cap CandidatesOf[tier]
  OBVIOUS
<1>1. pc \in Awaiting /\ exclude' = exclude \cup {cand}
  <2>1. CASE BucketEmpty
    BY <2>1 DEF BucketEmpty, GiveUpOn, Awaiting
  <2>2. CASE BucketGrantsNoVendor
    BY <2>2 DEF BucketGrantsNoVendor, GiveUpOn, Awaiting
  <2>3. CASE RecordedRetryable
    BY <2>3 DEF RecordedRetryable, GiveUpOn, Awaiting
  <2>4. CASE Refresh \/ Tick
    BY <2>4 DEF Refresh, Tick, Awaiting
  <2> QED
    BY <2>1, <2>2, <2>3, <2>4
    DEF Next, RouteStep, Begin, BeginUnknownTier, LoopOutOfBudget, LoopNothingToPick, LoopPicks,
        BucketGrants, VendorFails, VendorAnswers, RecordedFatal, RecordedOk, Breaks, Finish, Await
<1>2. cand \in CandidatesOf[tier] /\ cand \notin exclude
  BY <1>1 DEF Core, Holds
<1> QED
  BY <1>1, <1>2

\* The failover cannot go round in circles.
THEOREM RoundsExclude == Spec => EachRoundExcludes
  BY CoreHolds, RoundStep, PTL DEF Spec, EachRoundExcludes

-----------------------------------------------------------------------------
\* What is known of the clock at each place: how late the current await began,
\* and that it is not longer than it may be.
Late == deadline + MaxRedisDelay + Grace - Buffer

Timing ==
    /\ pc \in {"loop", "done"} /\ tier # UnknownTier => now <= Late + MaxRedisDelay
    /\ pc = "acquire" =>
          /\ since <= deadline - remaining
          /\ remaining >= MinRemaining
          /\ now <= since + MaxRedisDelay
    /\ pc = "call" =>
          /\ since + attempt_timeout <= deadline - Buffer + MaxRedisDelay
          /\ now <= since + attempt_timeout + Grace
          /\ attempt_timeout >= MinAttempt \/ attempt_timeout >= PerAttemptMax
    /\ pc \in {"record", "record_ok"} =>
          /\ since <= Late
          /\ now <= since + MaxRedisDelay

LEMMA Numbers ==
    ASSUME Core
    PROVE  /\ now \in Nat /\ since \in Nat /\ deadline \in Nat
           /\ remaining \in Nat /\ attempt_timeout \in Nat
  BY DEF Core, TypeOK

LEMMA TimeoutFits ==
    ASSUME Core, remaining >= MinRemaining
    PROVE  /\ AttemptTimeout \in Nat
           /\ AttemptTimeout <= remaining - Buffer
           /\ AttemptTimeout >= MinAttempt \/ AttemptTimeout >= PerAttemptMax
  BY Durations, Numbers DEF AttemptTimeout

\* The clock at each place, as numbers.
LEMMA SumsOfDelays ==
    ASSUME NEW n \in Int, NEW s \in Int, NEW d \in Int, NEW a \in Int, NEW r \in Int,
           NEW delay \in Nat, NEW grace \in Nat, NEW buffer \in Nat, NEW least \in Nat,
           NEW m \in Nat, m + buffer <= least
    PROVE  /\ s <= d - r /\ r >= least /\ n <= s + delay => n <= d + delay + grace - buffer
           /\ s + a <= d - buffer + delay /\ n <= s + a + grace => n <= d + delay + grace - buffer
           /\ s <= d + delay + grace - buffer /\ n <= s + delay
                => n <= d + delay + grace - buffer + delay
           /\ n <= d + delay + grace - buffer => n <= d + delay + grace - buffer + delay
           /\ d + delay + grace - buffer + delay = d + 2 * delay + grace - buffer
  OBVIOUS

LEMMA OneTickLater ==
    ASSUME NEW n \in Int, NEW s \in Int, NEW patience \in Int, n - s < patience
    PROVE  n + 1 <= s + patience
  OBVIOUS

LEMMA ClockAtPlaces ==
    ASSUME Core, Timing
    PROVE  /\ Late \in Int
           /\ pc \in {"acquire", "call"} => now <= Late
           /\ pc \in Awaiting => now <= Late + MaxRedisDelay
           /\ Late + MaxRedisDelay = deadline + 2 * MaxRedisDelay + Grace - Buffer
<1>1. Late \in Int
  BY Durations, Numbers DEF Late
<1>2. pc = "acquire" => now <= Late
  BY Durations, Numbers, SumsOfDelays DEF Timing, Late
<1>3. pc = "call" => now <= Late
  BY Durations, Numbers, SumsOfDelays DEF Timing, Late
<1>4. pc \in {"record", "record_ok"} => now <= Late + MaxRedisDelay
  <2>1. SUFFICES ASSUME since <= Late, now <= since + MaxRedisDelay
                 PROVE  now <= Late + MaxRedisDelay
    BY DEF Timing
  <2> QED
    BY <1>1, <2>1, Durations, Numbers
<1>5. now <= Late => now <= Late + MaxRedisDelay
  BY <1>1, Durations, Numbers
<1>6. Late + MaxRedisDelay = deadline + 2 * MaxRedisDelay + Grace - Buffer
  BY Durations, Numbers, SumsOfDelays DEF Late
<1> QED
  BY <1>1, <1>2, <1>3, <1>4, <1>5, <1>6 DEF Awaiting

LEMMA TimingStep == Core /\ Timing /\ [Next]_vars => Timing'
<1> SUFFICES ASSUME Core, Timing, [Next]_vars
             PROVE  Timing'
  OBVIOUS
<1> USE Durations, Numbers DEF Timing, Late
<1>1. CASE Begin
  BY <1>1 DEF Begin, clock
<1>2. CASE BeginUnknownTier
  BY <1>2 DEF BeginUnknownTier, Finish, clock, locals, Core, Holds
<1>3. CASE LoopOutOfBudget
  BY <1>3 DEF LoopOutOfBudget, Finish, clock, locals
<1>4. CASE LoopNothingToPick
  BY <1>4 DEF LoopNothingToPick, Finish, clock, locals
<1>5. CASE LoopPicks
  BY <1>5 DEF LoopPicks, Await, BudgetLeft, clock
<1>6. CASE BucketEmpty
  BY <1>6 DEF BucketEmpty, GiveUpOn, clock
<1>7. CASE BucketGrantsNoVendor
  BY <1>7 DEF BucketGrantsNoVendor, GiveUpOn, clock
<1>8. CASE BucketGrants
  BY <1>8, TimeoutFits DEF BucketGrants, Await, clock
<1>9. CASE VendorFails
  <2>1. pc = "call" /\ pc' = "record"
    BY <1>9 DEF VendorFails, Await
  <2>2. since' = now /\ UNCHANGED <<now, deadline, remaining, attempt_timeout, tier>>
    BY <1>9 DEF VendorFails, Await, clock
  <2>3. now <= Late /\ now' <= since' + MaxRedisDelay
    BY <2>1, <2>2, ClockAtPlaces, Durations, Numbers
  <2> QED
    BY ONLY <2>1, <2>2, <2>3 DEF Timing, Late
<1>10. CASE VendorAnswers
  <2>1. pc = "call" /\ pc' = "record_ok"
    BY <1>10 DEF VendorAnswers, Await
  <2>2. since' = now /\ now' = now /\ deadline' = deadline
    BY <1>10 DEF VendorAnswers, Await, clock, locals
  <2>3. since' <= Late'
    BY <2>1, <2>2, ClockAtPlaces
  <2>4. now' <= since' + MaxRedisDelay
    BY ONLY <2>2, Numbers, Durations, Core
  <2> QED
    BY <2>1, <2>3, <2>4
<1>11. CASE RecordedRetryable
  BY <1>11 DEF RecordedRetryable, GiveUpOn, clock
<1>12. CASE RecordedFatal
  BY <1>12 DEF RecordedFatal, Finish, clock
<1>13. CASE RecordedOk
  <2>1. pc \in Awaiting /\ pc' = "done" /\ now' = now /\ deadline' = deadline
    BY <1>13 DEF RecordedOk, Finish, clock, Awaiting
  <2> QED
    BY <2>1, ClockAtPlaces
<1>14. CASE Breaks
  <2>1. pc \in Awaiting /\ pc' = "done" /\ now' = now /\ deadline' = deadline
    BY <1>14 DEF Breaks, Finish, clock, locals
  <2> QED
    BY <2>1, ClockAtPlaces
<1>15. CASE Refresh
  BY <1>15 DEF Refresh, locals
<1>16. CASE Tick
  <2>1. /\ pc \in Awaiting /\ now - since < Patience /\ now' = now + 1
        /\ UNCHANGED <<pc, since, deadline, remaining, attempt_timeout, tier>>
    BY <1>16 DEF Tick, locals
  <2>2. now + 1 <= since + Patience
    <3>1. Patience \in Nat
      <4>1. attempt_timeout + Grace \in Nat
        BY ONLY Numbers, Durations, Core
      <4> QED
        BY ONLY <4>1, Durations DEF Patience
    <3> QED
      BY ONLY <2>1, <3>1, Numbers, Core, OneTickLater
  <2>3. now' <= since' + Patience
    BY ONLY <2>1, <2>2
  <2>4. CASE pc = "call"
    <3>1. Patience = attempt_timeout + Grace
      BY <2>4 DEF Patience
    <3>2. now' <= since' + attempt_timeout' + Grace
      BY ONLY <2>1, <2>3, <3>1, Numbers, Durations, Core
    <3> QED
      BY <2>1, <2>4, <3>2
  <2>5. CASE pc # "call"
    <3>1. Patience = MaxRedisDelay
      BY <2>5 DEF Patience
    <3> QED
      BY <2>1, <2>3, <2>5, <3>1 DEF Awaiting
  <2> QED
    BY <2>4, <2>5
<1>17. CASE UNCHANGED vars
  BY <1>17 DEF vars, clock, locals
<1> QED
  BY <1>1, <1>2, <1>3, <1>4, <1>5, <1>6, <1>7, <1>8, <1>9, <1>10, <1>11, <1>12, <1>13, <1>14,
     <1>15, <1>16, <1>17 DEF Next, RouteStep

LEMMA TimingHolds == Spec => []Timing
<1>1. Init => Timing
  BY DEF Init, Timing
<1> QED
  BY <1>1, CoreHolds, TimingStep, PTL DEF Spec

LEMMA TimingImplies == Core /\ Timing => OverrunBounded /\ CallFitsBudget
<1> SUFFICES ASSUME Core, Timing
             PROVE  OverrunBounded /\ CallFitsBudget
  OBVIOUS
<1> USE Durations, Numbers DEF Timing, Late
<1>1. CallFitsBudget
  BY DEF CallFitsBudget
<1>2. ASSUME tier # UnknownTier
      PROVE  now <= deadline + 2 * MaxRedisDelay + Grace - Buffer
  <2>1. pc \in {"loop", "done"} \cup Awaiting
    BY <1>2 DEF Core, TypeOK, Holds
  <2>2. now <= Late + MaxRedisDelay
    BY <1>2, <2>1, ClockAtPlaces
  <2> QED
    BY <2>2, ClockAtPlaces
<1> QED
  BY <1>1, <1>2 DEF OverrunBounded

\* The deadline is overrun by two Redis round trips at most, and by what the
\* adapter adds beyond the buffer.
THEOREM OverrunIsBounded == Spec => []OverrunBounded
  BY CoreHolds, TimingHolds, TimingImplies, PTL

\* Every vendor call fits the budget that was left when its candidate was
\* picked, and is given the least timeout.
THEOREM CallsFitBudget == Spec => []CallFitsBudget
  BY CoreHolds, TimingHolds, TimingImplies, PTL

-----------------------------------------------------------------------------
\* Where the candidates of `tried` and `attempts` went: into `exclude`, but for
\* the one at hand.
Excluded ==
    /\ Distinct(attempts) /\ Distinct(tried)
    /\ pc # "done" => \A i \in 1 .. Len(tried) : tried[i][1] \in exclude
    /\ pc \notin {"record", "done"} => \A i \in 1 .. Len(attempts) : attempts[i][1] \in exclude
    /\ pc = "record" =>
          \A i \in 1 .. Len(attempts) : attempts[i][1] \in exclude \cup {cand}

LEMMA AppendDistinct ==
    ASSUME NEW S, NEW q \in Seq(S), NEW c, NEW status, <<c, status>> \in S, NEW E,
           Distinct(q), \A i \in 1 .. Len(q) : q[i][1] \in E, c \notin E
    PROVE  /\ Distinct(Append(q, <<c, status>>))
           /\ \A i \in 1 .. Len(Append(q, <<c, status>>)) :
                 Append(q, <<c, status>>)[i][1] \in E \cup {c}
<1> PICK a \in S : a = <<c, status>> /\ a[1] = c
  OBVIOUS
<1>1. /\ Len(Append(q, a)) = Len(q) + 1
      /\ \A i \in 1 .. Len(q) : Append(q, a)[i] = q[i]
      /\ Append(q, a)[Len(q) + 1] = a
  BY AppendProperties
<1>2. \A i \in 1 .. Len(q) + 1 : i \in 1 .. Len(q) \/ i = Len(q) + 1
  OBVIOUS
<1>3. Distinct(Append(q, a))
  BY <1>1, <1>2 DEF Distinct
<1>4. \A i \in 1 .. Len(Append(q, a)) : Append(q, a)[i][1] \in E \cup {c}
  BY <1>1, <1>2
<1> QED
  BY <1>3, <1>4

\* Giving the candidate at hand up keeps `tried` distinct and inside `exclude`.
LEMMA GiveUpExcluded ==
    ASSUME Core, Excluded, pc \in Awaiting, NEW status \in FailureStatus \cup SkipStatus,
           GiveUpOn(status), attempts' = attempts, cand' = cand
    PROVE  Excluded'
<1>1. cand \in Candidate /\ cand \notin exclude
  BY CandidatesTyped DEF Core, Holds
<1>2. tried \in Seq(Entry) /\ <<cand, status>> \in Entry
  BY <1>1 DEF Core, TypeOK, Entry
<1>3. pc # "done" /\ pc' = "loop"
  BY DEF Awaiting, GiveUpOn
<1>4. tried' = Append(tried, <<cand, status>>) /\ exclude' = exclude \cup {cand}
  BY DEF GiveUpOn
<1>5. Distinct(tried) /\ \A i \in 1 .. Len(tried) : tried[i][1] \in exclude
  BY <1>3 DEF Excluded
<1>6. PICK q \in Seq(Entry), c \in Candidate, E \in SUBSET Candidate : q = tried /\ c = cand /\ E = exclude
  BY <1>1, <1>2 DEF Core, TypeOK
<1>7. /\ Distinct(Append(q, <<c, status>>))
      /\ \A i \in 1 .. Len(Append(q, <<c, status>>)) :
            Append(q, <<c, status>>)[i][1] \in E \cup {c}
  BY <1>1, <1>2, <1>5, <1>6, AppendDistinct
<1>8. Distinct(tried') /\ \A i \in 1 .. Len(tried') : tried'[i][1] \in exclude'
  BY <1>4, <1>6, <1>7
<1>9. \A i \in 1 .. Len(attempts') : attempts'[i][1] \in exclude'
  BY <1>3, <1>4 DEF Excluded, Awaiting
<1>10. Distinct(attempts')
  BY DEF Excluded
<1> QED
  BY <1>3, <1>8, <1>9, <1>10 DEF Excluded

LEMMA AttemptExcluded ==
    ASSUME Core, Excluded, pc \in {"call", "record_ok"}, NEW status \in FailureStatus \cup {"ok"},
           attempts' = Append(attempts, <<cand, status>>), pc' \in {"record", "done"},
           UNCHANGED <<cand, exclude, tried>>
    PROVE  Excluded'
<1>1. cand \in Candidate /\ cand \notin exclude
  BY CandidatesTyped DEF Core, Holds, Awaiting
<1>2. attempts \in Seq(Attempt) /\ <<cand, status>> \in Attempt
  BY <1>1 DEF Core, TypeOK, Attempt
<1>3. Distinct(attempts) /\ \A i \in 1 .. Len(attempts) : attempts[i][1] \in exclude
  BY DEF Excluded
<1>4. PICK q \in Seq(Attempt), c \in Candidate, E \in SUBSET Candidate : q = attempts /\ c = cand /\ E = exclude
  BY <1>1, <1>2 DEF Core, TypeOK
<1>5. /\ Distinct(Append(q, <<c, status>>))
      /\ \A i \in 1 .. Len(Append(q, <<c, status>>)) :
            Append(q, <<c, status>>)[i][1] \in E \cup {c}
  BY <1>1, <1>2, <1>3, <1>4, AppendDistinct
<1>6. Distinct(attempts') /\ \A i \in 1 .. Len(attempts') : attempts'[i][1] \in exclude \cup {cand}
  BY <1>4, <1>5
<1>7. Distinct(tried') /\ (pc' # "done" => \A i \in 1 .. Len(tried') : tried'[i][1] \in exclude')
  BY DEF Excluded
<1> QED
  BY <1>6, <1>7 DEF Excluded

LEMMA ExcludedStep == Core /\ Excluded /\ [Next]_vars => Excluded'
<1> SUFFICES ASSUME Core, Excluded, [Next]_vars
             PROVE  Excluded'
  OBVIOUS
<1>1. CASE Begin
  BY <1>1 DEF Begin, Excluded
<1>2. CASE BeginUnknownTier \/ LoopOutOfBudget \/ LoopNothingToPick \/ Breaks
  BY <1>2 DEF BeginUnknownTier, LoopOutOfBudget, LoopNothingToPick, Breaks, Finish, locals, Excluded
<1>3. CASE LoopPicks
  BY <1>3 DEF LoopPicks, Await, Excluded
<1>4. CASE BucketEmpty
  BY <1>4, GiveUpExcluded DEF BucketEmpty, SkipStatus, Awaiting
<1>5. CASE BucketGrantsNoVendor
  BY <1>5, GiveUpExcluded DEF BucketGrantsNoVendor, SkipStatus, Awaiting
<1>6. CASE BucketGrants
  BY <1>6 DEF BucketGrants, Await, Excluded
<1>7. CASE VendorFails
  BY <1>7, AttemptExcluded DEF VendorFails, Await
<1>8. CASE VendorAnswers
  BY <1>8 DEF VendorAnswers, Await, locals, Excluded
<1>9. CASE RecordedRetryable
  BY <1>9, GiveUpExcluded DEF RecordedRetryable, FailureStatus, Awaiting
<1>10. CASE RecordedFatal
  <2>1. LastStatus \in FailureStatus \cup SkipStatus /\ cand \in Candidate /\ cand \notin exclude
    BY <1>10, CandidatesTyped DEF RecordedFatal, FailureStatus, Core, Holds, Awaiting
  <2>2. tried \in Seq(Entry) /\ <<cand, LastStatus>> \in Entry
    BY <2>1 DEF Core, TypeOK, Entry
  <2>3. tried' = Append(tried, <<cand, LastStatus>>) /\ pc' = "done" /\ attempts' = attempts
    BY <1>10 DEF RecordedFatal, Finish
  <2>4. Distinct(tried) /\ \A i \in 1 .. Len(tried) : tried[i][1] \in exclude
    BY <1>10 DEF RecordedFatal, Excluded
  <2>5. PICK q \in Seq(Entry), c \in Candidate, E \in SUBSET Candidate,
             status \in FailureStatus \cup SkipStatus :
            q = tried /\ c = cand /\ E = exclude /\ status = LastStatus
    BY <2>1, <2>2 DEF Core, TypeOK
  <2>6. Distinct(Append(q, <<c, status>>))
    BY <2>1, <2>2, <2>4, <2>5, AppendDistinct
  <2>7. Distinct(tried')
    BY <2>3, <2>5, <2>6
  <2> QED
    BY <2>3, <2>7 DEF Excluded
<1>11. CASE RecordedOk
  BY <1>11, AttemptExcluded DEF RecordedOk, Finish
<1>12. CASE Refresh \/ Tick
  BY <1>12 DEF Refresh, Tick, locals, Excluded
<1>13. CASE UNCHANGED vars
  BY <1>13 DEF vars, locals, Excluded
<1> QED
  BY <1>1, <1>2, <1>3, <1>4, <1>5, <1>6, <1>7, <1>8, <1>9, <1>10, <1>11, <1>12, <1>13
  DEF Next, RouteStep

LEMMA ExcludedHolds == Spec => []Excluded
<1>1. Init => Excluded
  BY DEF Init, Excluded, Distinct
<1> QED
  BY <1>1, CoreHolds, ExcludedStep, PTL DEF Spec

\* No vendor is asked twice for one request and no candidate is given up twice.
THEOREM CandidatesAreDistinct == Spec => []NoCandidateTwice
<1>1. Excluded => NoCandidateTwice
  BY DEF Excluded, NoCandidateTwice
<1> QED
  BY <1>1, ExcludedHolds, PTL

-----------------------------------------------------------------------------
\* The failures in `tried` and in `attempts` stay the same sequence: the attempt
\* that is being recorded is the one difference, and it is of the candidate at
\* hand, which is in neither.
Told ==
    /\ pc = "record" => attempts[Len(attempts)][1] = cand
    /\ TriedIsTruthful

LEMMA AppendFailures ==
    ASSUME NEW S, NEW q \in Seq(S), NEW e \in S
    PROVE  /\ Failures(Append(q, e), Len(q)) = Failures(q, Len(q))
           /\ Len(Append(q, e)) = Len(q) + 1
           /\ e[2] \in FailureStatus =>
                 Failures(Append(q, e), Len(q) + 1) = Failures(q, Len(q)) \cup {e}
           /\ e[2] \notin FailureStatus =>
                 Failures(Append(q, e), Len(q) + 1) = Failures(q, Len(q))
<1>1. /\ Len(Append(q, e)) = Len(q) + 1
      /\ \A i \in 1 .. Len(q) : Append(q, e)[i] = q[i]
      /\ Append(q, e)[Len(q) + 1] = e
  BY AppendProperties
<1>2. PICK n \in Nat : n = Len(q)
  OBVIOUS
<1>3. \A i : i \in 1 .. n + 1 <=> i \in 1 .. n \/ i = n + 1
  BY <1>2
<1>4. Failures(Append(q, e), n) = Failures(q, n)
  BY <1>1, <1>2 DEF Failures
<1>5. ASSUME e[2] \in FailureStatus
      PROVE  Failures(Append(q, e), n + 1) = Failures(q, n) \cup {e}
  BY <1>1, <1>2, <1>3, <1>5 DEF Failures
<1>6. ASSUME e[2] \notin FailureStatus
      PROVE  Failures(Append(q, e), n + 1) = Failures(q, n)
  BY <1>1, <1>2, <1>3, <1>6 DEF Failures
<1> QED
  BY <1>1, <1>2, <1>4, <1>5, <1>6

\* The entries of the two sequences, as the steps below use them.
LEMMA Entries ==
    ASSUME Core
    PROVE  /\ tried \in Seq(Entry) /\ attempts \in Seq(Attempt)
           /\ \A i \in 1 .. Len(tried) : tried[i] \in Entry /\ tried[i][2] # "ok"
           /\ \A k \in 1 .. Len(attempts) :
                 attempts[k] \in Attempt /\ attempts[k][2] \notin SkipStatus
<1>1. tried \in Seq(Entry) /\ attempts \in Seq(Attempt)
  BY DEF Core, TypeOK, Entry, Attempt
<1>2. \A i \in 1 .. Len(tried) : tried[i] \in Entry
  BY <1>1
<1>3. \A k \in 1 .. Len(attempts) : attempts[k] \in Attempt
  BY <1>1
<1>4. \A e \in Entry : e[2] # "ok"
  BY DEF Entry, FailureStatus, SkipStatus, Retryable, Fatal, BadInput
<1>5. \A a \in Attempt : a[2] \notin SkipStatus
  BY DEF Attempt, FailureStatus, SkipStatus, Retryable, Fatal, BadInput
<1> QED
  BY <1>1, <1>2, <1>3, <1>4, <1>5

\* A candidate given up without a call adds no failure.
LEMMA SkipTold ==
    ASSUME Core, Told, pc = "acquire", NEW status \in SkipStatus, GiveUpOn(status),
           attempts' = attempts, cand' = cand
    PROVE  Told'
<1> DEFINE e == <<cand, status>>
<1>1. cand \in Candidate
  BY CandidatesTyped DEF Core, Holds, Awaiting
<1>2. e \in Entry /\ e[2] = status /\ status \notin FailureStatus
  BY <1>1 DEF Entry, SkipStatus, FailureStatus, Retryable, Fatal, BadInput
<1>3. tried' = Append(tried, e) /\ pc' = "loop" /\ outcome' = outcome
  BY DEF GiveUpOn
<1>4. outcome # "internal_error"
  BY DEF Core, TypeOK
<1>5. Decided = Len(attempts) /\ Decided' = Decided
  BY <1>3 DEF Decided
<1>6. Failures(tried, Len(tried)) = Failures(attempts, Len(attempts))
  BY <1>4, <1>5 DEF Told, TriedIsTruthful
<1>7. Failures(tried', Len(tried')) = Failures(tried, Len(tried))
  BY <1>2, <1>3, Entries, AppendFailures
<1> HIDE DEF e
<1>8. ASSUME NEW i \in 1 .. Len(tried'), NEW j \in 1 .. Len(tried'),
             NEW k \in 1 .. Len(attempts), NEW l \in 1 .. Len(attempts),
             i < j, tried'[i] = attempts[k], tried'[j] = attempts[l]
      PROVE  k < l
  <2>1. /\ Len(tried') = Len(tried) + 1 /\ tried'[Len(tried) + 1] = e
        /\ \A m \in 1 .. Len(tried) : tried'[m] = tried[m]
    BY <1>2, <1>3, Entries, AppendProperties
  <2>2. e # attempts[l]
    BY <1>2, Entries
  <2>3. PICK m \in Nat : m = Len(tried)
    BY Entries
  <2>4. j \in 1 .. m + 1 /\ i \in 1 .. m + 1 /\ j # m + 1
    BY <1>8, <2>1, <2>2, <2>3
  <2>5. j \in 1 .. m /\ i \in 1 .. m
    BY <1>8, <2>4
  <2> QED
    BY <1>4, <1>5, <1>8, <2>1, <2>3, <2>5 DEF Told, TriedIsTruthful
<1> QED
  BY <1>3, <1>5, <1>6, <1>7, <1>8 DEF Told, TriedIsTruthful

\* A failed attempt that has been recorded is entered in `tried` as it is in
\* `attempts`, last in both.
LEMMA DecideTold ==
    ASSUME Core, Excluded, Told, pc = "record", pc' # "record",
           tried' = Append(tried, <<cand, LastStatus>>),
           attempts' = attempts
    PROVE  Told'
<1>1. cand \in Candidate /\ cand \notin exclude
  BY CandidatesTyped DEF Core, Holds, Awaiting
<1>2. PICK n \in Nat : n + 1 = Len(attempts)
  <2>1. Len(attempts) \in Nat /\ Len(attempts) # 0
    BY Entries, EmptySeq DEF Core, Holds
  <2>2. Len(attempts) - 1 \in Nat /\ (Len(attempts) - 1) + 1 = Len(attempts)
    BY <2>1
  <2> QED
    BY <2>2
<1>3. PICK e \in Attempt : e = attempts[n + 1] /\ e[1] = cand /\ e[2] = LastStatus /\ e[2] \in FailureStatus
  BY <1>2, Entries DEF Core, Holds, Told, LastStatus
<1>4. e = <<cand, LastStatus>> /\ e \in Entry
  BY <1>1, <1>3 DEF Attempt, Entry
<1>5. tried' = Append(tried, e)
  BY <1>4
<1>6. outcome # "internal_error"
  BY DEF Core, TypeOK
<1>7. Decided = n /\ Decided' = n + 1
  BY <1>2 DEF Decided
<1>8. Failures(tried', Len(tried')) = Failures(tried, Len(tried)) \cup {e}
  <2>1. PICK q \in Seq(Entry) : q = tried
    BY Entries
  <2>2. Len(Append(q, e)) = Len(q) + 1 /\ Failures(Append(q, e), Len(q) + 1) = Failures(q, Len(q)) \cup {e}
    BY <1>3, <1>4, <2>1, AppendFailures
  <2> QED
    BY <1>5, <2>1, <2>2
<1>9. Failures(attempts, n + 1) = Failures(attempts, n) \cup {e}
  <2>1. \A i : i \in 1 .. n + 1 <=> i \in 1 .. n \/ i = n + 1
    OBVIOUS
  <2> QED
    BY <1>3, <2>1 DEF Failures
<1>10. Failures(tried, Len(tried)) = Failures(attempts, n)
  BY <1>6, <1>7 DEF Told, TriedIsTruthful
<1>11. /\ Len(tried') = Len(tried) + 1 /\ tried'[Len(tried) + 1] = e
       /\ \A m \in 1 .. Len(tried) : tried'[m] = tried[m] /\ tried[m][1] # cand
  <2>1. \A m \in 1 .. Len(tried) : tried[m][1] \in exclude
    BY DEF Excluded
  <2> QED
    BY <1>1, <1>4, <1>5, <2>1, Entries, AppendProperties
<1>12. \A k \in 1 .. n : attempts[k][1] # cand
  BY <1>2, <1>3, Entries DEF Excluded, Distinct
<1>13. ASSUME NEW i \in 1 .. Len(tried'), NEW j \in 1 .. Len(tried'),
              NEW k \in 1 .. n + 1, NEW l \in 1 .. n + 1,
              i < j, tried'[i] = attempts[k], tried'[j] = attempts[l]
       PROVE  k < l
  <2>1. i \in 1 .. Len(tried) /\ (j \in 1 .. Len(tried) \/ j = Len(tried) + 1)
    <3>1. PICK m \in Nat : m = Len(tried)
      BY Entries
    <3>2. j \in 1 .. m + 1 /\ i \in 1 .. m + 1 /\ i < j
      BY <1>11, <1>13, <3>1
    <3>3. i \in 1 .. m /\ (j \in 1 .. m \/ j = m + 1)
      BY <3>2
    <3> QED
      BY <3>1, <3>3
  <2>2. k \in 1 .. n
    BY <1>3, <1>11, <1>13, <2>1
  <2>3. CASE j = Len(tried) + 1
    <3>1. attempts[l][1] = cand
      BY <1>3, <1>11, <1>13, <2>3
    <3>2. l = n + 1
      BY <1>12, <1>13, <3>1
    <3> QED
      BY <2>2, <3>2
  <2>4. CASE j \in 1 .. Len(tried)
    <3>1. l \in 1 .. n
      BY <1>3, <1>11, <1>13, <2>4
    <3> QED
      BY <1>6, <1>7, <1>11, <1>13, <2>1, <2>2, <2>4, <3>1 DEF Told, TriedIsTruthful
  <2> QED
    BY <2>1, <2>3, <2>4
<1>14. Failures(attempts', Decided') = Failures(attempts, n + 1)
  BY <1>7
<1>15. TriedIsTruthful'
  <2>1. Failures(tried', Len(tried')) = Failures(attempts', Decided')
    BY ONLY <1>8, <1>9, <1>10, <1>14
  <2> HIDE DEF Failures
  <2> QED
    BY ONLY <1>7, <1>13, <2>1, attempts' = attempts DEF TriedIsTruthful
<1> QED
  BY <1>15 DEF Told

\* A new attempt is entered in `tried` only once it is recorded, an answer never.
LEMMA AttemptTold ==
    ASSUME Core, Told, pc \in {"call", "record_ok"}, NEW status \in FailureStatus \cup {"ok"},
           attempts' = Append(attempts, <<cand, status>>),
           status = "ok" <=> pc' # "record",
           UNCHANGED <<cand, tried>>
    PROVE  Told'
<1>1. cand \in Candidate
  BY CandidatesTyped DEF Core, Holds, Awaiting
<1>2. PICK e \in Attempt : e = <<cand, status>> /\ e[1] = cand /\ e[2] = status
  <2>1. <<cand, status>> \in Attempt
    BY <1>1 DEF Attempt
  <2>2. <<cand, status>>[1] = cand /\ <<cand, status>>[2] = status
    OBVIOUS
  <2> QED
    BY <2>1, <2>2, Zenon
<1>3. PICK n \in Nat : n = Len(attempts)
  BY Entries
<1>4. /\ Len(attempts') = n + 1 /\ attempts'[n + 1] = e
      /\ \A k \in 1 .. n : attempts'[k] = attempts[k]
  BY <1>2, <1>3, Entries, AppendProperties
<1>5. outcome # "internal_error" /\ Decided = n
  BY <1>3 DEF Core, TypeOK, Decided
<1>6. Decided' = IF status = "ok" THEN n + 1 ELSE n
  BY <1>4 DEF Decided
<1>7. Failures(attempts', Decided') = Failures(attempts, n)
  <2>1. status # "ok" => status \in FailureStatus
    OBVIOUS
  <2>2. "ok" \notin FailureStatus
    BY DEF FailureStatus, Retryable, Fatal, BadInput
  <2> QED
    BY <1>2, <1>3, <1>6, <2>1, <2>2, Entries, AppendFailures
<1>8. ASSUME NEW i \in 1 .. Len(tried), NEW j \in 1 .. Len(tried),
             NEW k \in 1 .. Decided', NEW l \in 1 .. Decided',
             i < j, tried[i] = attempts'[k], tried[j] = attempts'[l]
      PROVE  k < l
  <2>1. status = "ok" => tried[i] # e /\ tried[j] # e
    BY <1>2, Entries
  <2>2. k \in 1 .. n /\ l \in 1 .. n
    BY <1>4, <1>6, <1>8, <2>1
  <2> QED
    BY <1>4, <1>5, <1>8, <2>2 DEF Told, TriedIsTruthful
<1>9. attempts'[Len(attempts')][1] = cand'
  BY <1>2, <1>4
<1> QED
  BY <1>5, <1>7, <1>8, <1>9 DEF Told, TriedIsTruthful

LEMMA ToldStep == Core /\ Excluded /\ Told /\ [Next]_vars => Told'
<1> SUFFICES ASSUME Core, Excluded, Told, [Next]_vars
             PROVE  Told'
  OBVIOUS
<1>1. CASE Begin
  BY <1>1 DEF Begin, Told, TriedIsTruthful, Decided
<1>2. CASE BeginUnknownTier \/ LoopOutOfBudget \/ LoopNothingToPick
  <2>1. pc # "record" /\ pc' = "done" /\ UNCHANGED <<tried, attempts>> /\ outcome # "internal_error"
    BY <1>2 DEF BeginUnknownTier, LoopOutOfBudget, LoopNothingToPick, Finish, locals, Core, TypeOK
  <2> QED
    BY <2>1 DEF Told, TriedIsTruthful, Decided
<1>3. CASE LoopPicks
  BY <1>3 DEF LoopPicks, Await, Told, TriedIsTruthful, Decided
<1>4. CASE BucketEmpty
  BY <1>4, SkipTold DEF BucketEmpty, SkipStatus
<1>5. CASE BucketGrantsNoVendor
  BY <1>5, SkipTold DEF BucketGrantsNoVendor, SkipStatus
<1>6. CASE BucketGrants
  BY <1>6 DEF BucketGrants, Await, Told, TriedIsTruthful, Decided
<1>7. CASE VendorFails
  <2>1. "ok" \notin FailureStatus
    BY DEF FailureStatus, Retryable, Fatal, BadInput
  <2> QED
    BY <1>7, <2>1, AttemptTold DEF VendorFails, Await
<1>8. CASE VendorAnswers
  BY <1>8 DEF VendorAnswers, Await, locals, Told, TriedIsTruthful, Decided
<1>9. CASE RecordedRetryable
  BY <1>9, DecideTold DEF RecordedRetryable, GiveUpOn
<1>10. CASE RecordedFatal
  BY <1>10, DecideTold DEF RecordedFatal, Finish
<1>11. CASE RecordedOk
  BY <1>11, AttemptTold DEF RecordedOk, Finish
<1>12. CASE Breaks
  BY <1>12 DEF Breaks, Finish, Told, TriedIsTruthful
<1>13. CASE Refresh \/ Tick
  BY <1>13 DEF Refresh, Tick, locals, Told, TriedIsTruthful, Decided
<1>14. CASE UNCHANGED vars
  BY <1>14 DEF vars, locals, Told, TriedIsTruthful, Decided
<1> QED
  BY <1>1, <1>2, <1>3, <1>4, <1>5, <1>6, <1>7, <1>8, <1>9, <1>10, <1>11, <1>12, <1>13, <1>14
  DEF Next, RouteStep

\* What a RouterError tells about the vendors is what happened, in its order.
THEOREM ErrorsTellTheTruth == Spec => []TriedIsTruthful
<1>1. Init => Told
  BY DEF Init, Told, TriedIsTruthful, Failures, Decided
<1>2. Told => TriedIsTruthful
  BY DEF Told
<1> QED
  BY <1>1, <1>2, CoreHolds, ExcludedHolds, ToldStep, PTL DEF Spec

-----------------------------------------------------------------------------
\* While the failover goes on, every attempt so far may be retried and every
\* candidate excluded is reported: what OutcomeIsEarned needs at the loop's head.
Deciding ==
    /\ exclude \subseteq Candidates(tried)
    /\ pc = "start" => attempts = <<>>
    /\ \A i \in 1 .. Len(attempts) - 1 : attempts[i][2] \in Retryable
    /\ pc \notin {"record", "done"} => \A i \in 1 .. Len(attempts) : attempts[i][2] \in Retryable
    /\ OutcomeIsEarned

LEMMA StatusesDiffer ==
    /\ "ok" \notin FailureStatus /\ "auth" \notin BadInput
    /\ \A status \in Retryable : status # "ok" /\ status # "auth" /\ status \notin BadInput
    /\ \A status \in BadInput : status # "ok" /\ status # "auth"
  BY DEF FailureStatus, Retryable, Fatal, BadInput

LEMMA AppendCandidates ==
    ASSUME NEW S, NEW q \in Seq(S), NEW c, NEW status, <<c, status>> \in S
    PROVE  Candidates(Append(q, <<c, status>>)) = Candidates(q) \cup {c}
<1>1. PICK e \in S : e = <<c, status>> /\ e[1] = c
  OBVIOUS
<1>2. /\ Len(Append(q, e)) = Len(q) + 1
      /\ \A i \in 1 .. Len(q) : Append(q, e)[i] = q[i]
      /\ Append(q, e)[Len(q) + 1] = e
  BY AppendProperties
<1>3. PICK n \in Nat : n = Len(q)
  OBVIOUS
<1>4. \A i : i \in 1 .. n + 1 <=> i \in 1 .. n \/ i = n + 1
  BY <1>3
<1>5. Candidates(Append(q, e)) = Candidates(q) \cup {c}
  BY <1>1, <1>2, <1>3, <1>4 DEF Candidates
<1> QED
  BY <1>1, <1>5

\* The last attempt, when there is one, is retryable as long as the loop runs.
LEMMA LastIsRetryable ==
    ASSUME Core, Deciding, pc \notin {"record", "done"}, attempts # <<>>
    PROVE  LastStatus \in Retryable
<1>1. Len(attempts) \in Nat \ {0}
  BY Entries, EmptySeq
<1>2. Len(attempts) \in 1 .. Len(attempts)
  BY <1>1
<1> QED
  BY <1>2 DEF Deciding, LastStatus

LEMMA GiveUpDecides ==
    ASSUME Core, Deciding, pc \in {"acquire", "record"}, NEW status \in FailureStatus \cup SkipStatus,
           GiveUpOn(status), attempts' = attempts, pc = "record" => LastStatus \in Retryable,
           UNCHANGED <<now, deadline, tier, routable>>
    PROVE  Deciding'
<1>1. cand \in Candidate
  BY CandidatesTyped DEF Core, Holds, Awaiting
<1>2. tried' = Append(tried, <<cand, status>>) /\ exclude' = exclude \cup {cand} /\ pc' = "loop"
      /\ outcome' = outcome
  BY DEF GiveUpOn
<1>3. tried \in Seq(Entry) /\ <<cand, status>> \in Entry
  BY <1>1, Entries DEF Entry
<1>4. exclude' \subseteq Candidates(tried')
  BY <1>2, <1>3, AppendCandidates DEF Deciding
<1>5. outcome = "none"
  BY DEF Core, TypeOK
<1>6. \A i \in 1 .. Len(attempts) : attempts[i][2] \in Retryable
  <2>1. PICK n \in Nat : n = Len(attempts)
    BY Entries
  <2>2. \A i \in 1 .. n : i \in 1 .. n - 1 \/ i = n
    OBVIOUS
  <2> QED
    BY <2>1, <2>2 DEF Deciding, LastStatus
<1>7. OutcomeIsEarned'
  BY <1>2, <1>5 DEF Deciding, OutcomeIsEarned, LastAttemptDecides, GatewayErrorsAreEarned
<1> QED
  BY <1>2, <1>4, <1>6, <1>7 DEF Deciding

\* A new attempt is the last one, and the ones before it were retryable.
LEMMA AttemptDecides ==
    ASSUME Core, Deciding, pc \in {"call", "record_ok"}, NEW status \in FailureStatus \cup {"ok"},
           attempts' = Append(attempts, <<cand, status>>), UNCHANGED <<exclude, tried>>,
           \/ pc' = "record" /\ outcome' = outcome
           \/ pc' = "done" /\ outcome' = "ok" /\ status = "ok"
    PROVE  Deciding'
<1>1. cand \in Candidate
  BY CandidatesTyped DEF Core, Holds, Awaiting
<1>2. PICK e \in Attempt : e = <<cand, status>> /\ e[2] = status
  <2>1. <<cand, status>> \in Attempt
    BY <1>1 DEF Attempt
  <2>2. <<cand, status>>[2] = status
    OBVIOUS
  <2> QED
    BY <2>1, <2>2, Zenon
<1>3. PICK n \in Nat : n = Len(attempts)
  BY Entries
<1>4. /\ Len(attempts') = n + 1 /\ attempts'[n + 1] = e
      /\ \A k \in 1 .. n : attempts'[k] = attempts[k]
  BY <1>2, <1>3, Entries, AppendProperties
<1>5. LastStatus' = status
  BY <1>2, <1>4 DEF LastStatus
<1>6. \A i \in 1 .. Len(attempts') - 1 : attempts'[i][2] \in Retryable
  BY <1>3, <1>4 DEF Deciding
<1>7. outcome = "none"
  BY DEF Core, TypeOK
<1>8. LastAttemptDecides'
  BY <1>5, <1>6, <1>7, StatusesDiffer DEF LastAttemptDecides
<1>9. GatewayErrorsAreEarned'
  BY <1>7 DEF GatewayErrorsAreEarned
<1> QED
  BY <1>6, <1>8, <1>9 DEF Deciding, OutcomeIsEarned

LEMMA DecidingStep == Core /\ Deciding /\ [Next]_vars => Deciding'
<1> SUFFICES ASSUME Core, Deciding, [Next]_vars
             PROVE  Deciding'
  OBVIOUS
<1> USE DEF OutcomeIsEarned
<1>1. pc # "done" => outcome = "none"
  BY DEF Core, TypeOK
\* A step that ends no await with a decision leaves all of it as it is.
<1>2. ASSUME pc # "done", pc' \notin {"start", "record", "done"}, pc # "record", outcome' = outcome,
             UNCHANGED <<exclude, tried, attempts>>
      PROVE  Deciding'
  BY <1>1, <1>2 DEF Deciding, LastAttemptDecides, GatewayErrorsAreEarned
<1>3. CASE Begin
  BY <1>2, <1>3 DEF Begin
<1>4. CASE BeginUnknownTier
  <2>1. /\ pc = "start" /\ pc' = "done" /\ outcome' = "invalid_request"
        /\ UNCHANGED <<exclude, tried, attempts>>
    BY <1>4 DEF BeginUnknownTier, Finish, locals
  <2>2. attempts = <<>>
    BY <2>1 DEF Deciding
  <2> QED
    BY <2>1, <2>2 DEF Deciding, LastAttemptDecides, GatewayErrorsAreEarned
<1>5. CASE LoopOutOfBudget
  <2>1. /\ pc = "loop" /\ pc' = "done" /\ ~(deadline - now >= MinRemaining)
        /\ outcome' = (IF attempts = <<>> THEN "upstream_unavailable" ELSE "deadline_exceeded")
        /\ UNCHANGED <<now, deadline, exclude, tried, attempts>>
    BY <1>5 DEF LoopOutOfBudget, BudgetLeft, Finish, clock, locals
  <2>2. LastStatus' = LastStatus /\ (attempts # <<>> => LastStatus \in Retryable)
    BY <2>1, LastIsRetryable DEF LastStatus
  <2>3. deadline - now < MinRemaining
    BY <2>1, Durations, Numbers
  <2>4. LastAttemptDecides'
    BY <2>1, <2>2, StatusesDiffer DEF Deciding, LastAttemptDecides
  <2>5. GatewayErrorsAreEarned'
    BY <2>1, <2>2, <2>3 DEF GatewayErrorsAreEarned
  <2> QED
    BY <2>1, <2>4, <2>5 DEF Deciding
<1>6. CASE LoopNothingToPick
  <2>1. /\ pc = "loop" /\ pc' = "done" /\ Pickable = {} /\ outcome' = "upstream_unavailable"
        /\ UNCHANGED <<tier, routable, exclude, tried, attempts>>
    BY <1>6 DEF LoopNothingToPick, Finish, clock, locals
  <2>2. LastStatus' = LastStatus /\ (attempts # <<>> => LastStatus \in Retryable)
    BY <2>1, LastIsRetryable DEF LastStatus
  <2>3. (CandidatesOf[tier] \cap routable) \subseteq Candidates(tried)
    BY <2>1 DEF Pickable, Deciding
  <2>4. LastAttemptDecides'
    BY <2>1, <2>2, StatusesDiffer DEF Deciding, LastAttemptDecides
  <2>5. GatewayErrorsAreEarned'
    BY <2>1, <2>3 DEF GatewayErrorsAreEarned
  <2> QED
    BY <2>1, <2>4, <2>5 DEF Deciding
<1>7. CASE LoopPicks
  BY <1>2, <1>7 DEF LoopPicks, Await
<1>8. CASE BucketEmpty
  BY <1>8, GiveUpDecides DEF BucketEmpty, SkipStatus, clock
<1>9. CASE BucketGrantsNoVendor
  BY <1>9, GiveUpDecides DEF BucketGrantsNoVendor, SkipStatus, clock
<1>10. CASE BucketGrants
  BY <1>2, <1>10 DEF BucketGrants, Await
<1>11. CASE VendorFails
  BY <1>11, AttemptDecides DEF VendorFails, Await
<1>12. CASE VendorAnswers
  BY <1>2, <1>12 DEF VendorAnswers, Await, locals
<1>13. CASE RecordedRetryable
  BY <1>13, GiveUpDecides DEF RecordedRetryable, FailureStatus, clock
<1>14. CASE RecordedFatal
  <2>1. /\ pc = "record" /\ pc' = "done" /\ LastStatus \in Fatal
        /\ outcome' = (IF LastStatus \in BadInput THEN "invalid_request" ELSE "auth")
        /\ tried' = Append(tried, <<cand, LastStatus>>)
        /\ UNCHANGED <<exclude, attempts>>
    BY <1>14 DEF RecordedFatal, Finish
  <2>2. LastStatus' = LastStatus
    BY <2>1 DEF LastStatus
  <2>3. cand \in Candidate /\ LastStatus \in FailureStatus
    BY <2>1, CandidatesTyped DEF FailureStatus, Core, Holds, Awaiting
  <2>4. tried \in Seq(Entry) /\ <<cand, LastStatus>> \in Entry
    BY <2>3, Entries DEF Entry
  <2>5. exclude' \subseteq Candidates(tried')
    BY <2>1, <2>4, AppendCandidates DEF Deciding
  <2>6. LastStatus \in BadInput \/ LastStatus = "auth"
    BY <2>1 DEF Fatal
  <2>7. LastAttemptDecides'
    BY <2>1, <2>2, <2>6, StatusesDiffer DEF Deciding, LastAttemptDecides
  <2>8. GatewayErrorsAreEarned'
    BY <2>1 DEF GatewayErrorsAreEarned
  <2> QED
    BY <2>1, <2>5, <2>7, <2>8 DEF Deciding
<1>15. CASE RecordedOk
  BY <1>15, AttemptDecides DEF RecordedOk, Finish
<1>16. CASE Breaks
  BY <1>16 DEF Breaks, Finish, locals, Deciding, LastAttemptDecides, GatewayErrorsAreEarned
<1>17. CASE Refresh \/ Tick
  <2>1. /\ pc \in Awaiting /\ pc' = pc /\ outcome' = outcome /\ UNCHANGED <<exclude, tried, attempts>>
    BY <1>17 DEF Refresh, Tick, locals
  <2> QED
    BY <1>1, <2>1 DEF Awaiting, Deciding, LastAttemptDecides, GatewayErrorsAreEarned
<1>18. CASE UNCHANGED vars
  BY <1>18 DEF vars, clock, locals, Deciding, LastAttemptDecides, GatewayErrorsAreEarned, LastStatus
<1> QED
  BY <1>3, <1>4, <1>5, <1>6, <1>7, <1>8, <1>9, <1>10, <1>11, <1>12, <1>13, <1>14, <1>15, <1>16,
     <1>17, <1>18 DEF Next, RouteStep

\* The status code the caller sees is what the vendors' answers, the budget and
\* the candidates left make it.
THEOREM OutcomesAreEarned == Spec => []OutcomeIsEarned
<1>1. Init => Deciding
  BY DEF Init, Deciding, OutcomeIsEarned, LastAttemptDecides, GatewayErrorsAreEarned
<1>2. Deciding => OutcomeIsEarned
  BY DEF Deciding
<1> QED
  BY <1>1, <1>2, CoreHolds, DecidingStep, PTL DEF Spec
=============================================================================
