------------------------------- MODULE Router -------------------------------
(***************************************************************************)
(* One call of Router.route, src/gateway/router.py: the failover loop that *)
(* spends a time budget on the candidates of a tier.                       *)
(*                                                                         *)
(* The coroutine switches only at an await, so one action is the code      *)
(* between two awaits.  During an await time passes and the refresh task   *)
(* may replace the weight engine's cache.  The loop's head has no await:   *)
(* at "loop" neither may happen.  Durations are in the unit of the         *)
(* constants; the code's are 10 s, 8 s, 1.5 s, 0.5 s, 0.1 s and 0.5 s.     *)
(***************************************************************************)
EXTENDS Integers, Sequences

CONSTANTS
    Candidate,       \* CandidateRef values of the configuration
    Tier,            \* tier names of the configuration
    CandidatesOf,    \* CandidatesOf[t]: cfg.tiers[t].candidates
    Equipped,        \* candidates whose provider has a vendor adapter
    TotalBudget,     \* Router(total_budget_s=...)
    PerAttemptMax,   \* Router(per_attempt_max_s=...)
    Buffer,          \* Router(deadline_buffer_s=...)
    MinRemaining,    \* the loop stops below this remaining budget
    MinAttempt,      \* the least timeout given to a vendor
    Grace,           \* what the adapters' wait_for adds to the timeout
    MaxRedisDelay    \* bound on the time one Redis round trip takes

UnknownTier == "unknown_tier"

ASSUME TierAssumption ==
    /\ CandidatesOf \in [Tier -> SUBSET Candidate]
    /\ Equipped \subseteq Candidate
    /\ UnknownTier \notin Tier

ASSUME DurationAssumption ==
    /\ {TotalBudget, PerAttemptMax, Buffer, MinRemaining, MinAttempt, Grace,
        MaxRedisDelay} \subseteq Nat
    /\ MinAttempt + Buffer <= MinRemaining
    /\ MinRemaining <= TotalBudget

\* The statuses of _STATUS_FOR_ERROR_KIND, by what the loop does with them.
Retryable == {"rate_limited", "transient_5xx", "timeout"}
BadInput == {"bad_request", "content_filtered"}
Fatal == BadInput \cup {"auth"}
FailureStatus == Retryable \cup Fatal
SkipStatus == {"bucket_empty", "vendor_missing"}

\* RouterErrorKind, the answer, and an exception that is no RouterError.
ErrorKind == {"invalid_request", "auth", "upstream_unavailable", "deadline_exceeded"}
Outcome == ErrorKind \cup {"none", "ok", "internal_error"}

VARIABLES
    now,              \* the deadline clock
    routable,         \* candidates with a positive weight in the engine's cache
    pc,               \* where the coroutine is
    since,            \* when its current await began
    tier, deadline, remaining, cand, attempt_timeout, exclude, tried, attempts,
                      \* the local variables of route
    outcome           \* what route returned or raised

clock == <<now, routable>>
locals == <<tier, deadline, remaining, cand, attempt_timeout, exclude, tried, attempts>>
vars == <<clock, pc, since, locals, outcome>>

NoCandidate == "no_candidate"
Awaiting == {"acquire", "call", "record", "record_ok"}
Candidates(seq) == {seq[i][1] : i \in 1 .. Len(seq)}

Init ==
    /\ now = 0
    /\ routable \in SUBSET Candidate
    /\ pc = "start"
    /\ since = 0
    /\ tier = UnknownTier
    /\ deadline = 0
    /\ remaining = 0
    /\ cand = NoCandidate
    /\ attempt_timeout = 0
    /\ exclude = {}
    /\ tried = <<>>
    /\ attempts = <<>>
    /\ outcome = "none"

-----------------------------------------------------------------------------
\* Mutant of Finish: the raise after the loop is missing and route returns None.
FinishSilently(kind) ==
    /\ pc' = "done"
    /\ UNCHANGED outcome

\* route returns or raises: its locals stay as the last step left them.
Finish(kind) ==
    /\ pc' = "done"
    /\ outcome' = kind

Await(place) ==
    /\ pc' = place
    /\ since' = now
    /\ UNCHANGED outcome

\* Mutants of GiveUpOn: the candidate is not excluded; it is not reported.
GiveUpWithoutExclude(status) ==
    /\ tried' = Append(tried, <<cand, status>>)
    /\ pc' = "loop"
    /\ UNCHANGED <<exclude, outcome>>

GiveUpWithoutTried(status) ==
    /\ exclude' = exclude \cup {cand}
    /\ pc' = "loop"
    /\ UNCHANGED <<tried, outcome>>

\* `tried.append(...); exclude.add(cand); continue`
GiveUpOn(status) ==
    /\ tried' = Append(tried, <<cand, status>>)
    /\ exclude' = exclude \cup {cand}
    /\ pc' = "loop"
    /\ UNCHANGED outcome

Begin ==
    /\ pc = "start"
    /\ \E t \in Tier :
          /\ tier' = t
          /\ deadline' = now + TotalBudget
          /\ pc' = "loop"
    /\ UNCHANGED <<clock, since, remaining, cand, attempt_timeout, exclude, tried,
                   attempts, outcome>>

BeginUnknownTier ==
    /\ pc = "start"
    /\ Finish("invalid_request")
    /\ UNCHANGED <<clock, since, locals>>

\* The head of `while True`: the budget is spent, no candidate has weight, or
\* the engine picks one and the bucket is asked.
BudgetLeft == deadline - now >= MinRemaining
Pickable == (CandidatesOf[tier] \cap routable) \ exclude

\* Mutant of LoopOutOfBudget: `if tried` instead of `if attempts`.
LoopOutOfBudgetTried ==
    /\ pc = "loop"
    /\ ~BudgetLeft
    /\ Finish(IF tried = <<>> THEN "upstream_unavailable" ELSE "deadline_exceeded")
    /\ UNCHANGED <<clock, since, locals>>

LoopOutOfBudget ==
    /\ pc = "loop"
    /\ ~BudgetLeft
    /\ Finish(IF attempts = <<>> THEN "upstream_unavailable" ELSE "deadline_exceeded")
    /\ UNCHANGED <<clock, since, locals>>

LoopNothingToPick ==
    /\ pc = "loop"
    /\ BudgetLeft
    /\ Pickable = {}
    /\ Finish("upstream_unavailable")
    /\ UNCHANGED <<clock, since, locals>>

LoopPicks ==
    /\ pc = "loop"
    /\ BudgetLeft
    /\ cand' \in Pickable
    /\ remaining' = deadline - now
    /\ Await("acquire")
    /\ UNCHANGED <<clock, tier, deadline, attempt_timeout, exclude, tried, attempts>>

\* Mutant of BucketEmpty: a bare `continue`, hoping for a refill.
BucketEmptyRetries ==
    /\ pc = "acquire"
    /\ pc' = "loop"
    /\ UNCHANGED <<clock, since, locals, outcome>>

BucketEmpty ==
    /\ pc = "acquire"
    /\ GiveUpOn("bucket_empty")
    /\ UNCHANGED <<clock, since, tier, deadline, remaining, cand, attempt_timeout, attempts>>

\* Mutant of AttemptTimeout: the remaining budget is forgotten.
AttemptTimeoutFixed == PerAttemptMax

\* attempt_timeout is computed from the `remaining` read before the await.
AttemptTimeout ==
    LET wanted == remaining - Buffer
        atLeast == IF wanted < MinAttempt THEN MinAttempt ELSE wanted
    IN  IF atLeast > PerAttemptMax THEN PerAttemptMax ELSE atLeast

BucketGrantsNoVendor ==
    /\ pc = "acquire"
    /\ cand \notin Equipped
    /\ attempt_timeout' = AttemptTimeout
    /\ GiveUpOn("vendor_missing")
    /\ UNCHANGED <<clock, since, tier, deadline, remaining, cand, attempts>>

BucketGrants ==
    /\ pc = "acquire"
    /\ cand \in Equipped
    /\ attempt_timeout' = AttemptTimeout
    /\ Await("call")
    /\ UNCHANGED <<clock, tier, deadline, remaining, cand, exclude, tried, attempts>>

\* The adapter raises a ProviderError: the attempt is appended, then the
\* observer is awaited before anything else is decided.
VendorFails ==
    /\ pc = "call"
    /\ \E status \in FailureStatus : attempts' = Append(attempts, <<cand, status>>)
    /\ Await("record")
    /\ UNCHANGED <<clock, tier, deadline, remaining, cand, attempt_timeout, exclude, tried>>

\* The adapter answers: here the observer is awaited first.
VendorAnswers ==
    /\ pc = "call"
    /\ Await("record_ok")
    /\ UNCHANGED <<clock, locals>>

LastStatus == attempts[Len(attempts)][2]

RecordedRetryable ==
    /\ pc = "record"
    /\ LastStatus \in Retryable
    /\ GiveUpOn(LastStatus)
    /\ UNCHANGED <<clock, since, tier, deadline, remaining, cand, attempt_timeout, attempts>>

\* The error carries tried + [(cand, status)].
RecordedFatal ==
    /\ pc = "record"
    /\ LastStatus \in Fatal
    /\ tried' = Append(tried, <<cand, LastStatus>>)
    /\ Finish(IF LastStatus \in BadInput THEN "invalid_request" ELSE "auth")
    /\ UNCHANGED <<clock, since, tier, deadline, remaining, cand, attempt_timeout,
                   exclude, attempts>>

RecordedOk ==
    /\ pc = "record_ok"
    /\ attempts' = Append(attempts, <<cand, "ok">>)
    /\ Finish("ok")
    /\ UNCHANGED <<clock, since, tier, deadline, remaining, cand, attempt_timeout,
                   exclude, tried>>

\* Redis fails, or an adapter lets another exception through: nothing in route
\* catches it and the caller sees a 500.
Breaks ==
    /\ pc \in Awaiting
    /\ Finish("internal_error")
    /\ UNCHANGED <<clock, since, locals>>

\* RefreshTask.tick replaces the cache.
Refresh ==
    /\ pc \in Awaiting
    /\ routable' \in SUBSET Candidate
    /\ UNCHANGED <<now, pc, since, locals, outcome>>

\* An await ends in time: Redis by assumption, the vendor by wait_for.
Patience == IF pc = "call" THEN attempt_timeout + Grace ELSE MaxRedisDelay

Tick ==
    /\ pc \in Awaiting
    /\ now - since < Patience
    /\ now' = now + 1
    /\ UNCHANGED <<routable, pc, since, locals, outcome>>

RouteStep ==
    \/ Begin \/ BeginUnknownTier
    \/ LoopOutOfBudget \/ LoopNothingToPick \/ LoopPicks
    \/ BucketEmpty \/ BucketGrantsNoVendor \/ BucketGrants
    \/ VendorFails \/ VendorAnswers
    \/ RecordedRetryable \/ RecordedFatal \/ RecordedOk
    \/ Breaks

Next == RouteStep \/ Refresh \/ Tick

Spec == Init /\ [][Next]_vars

\* The event loop resumes the coroutine when its await ends, and every await
\* ends (Patience).
FairSpec == Spec /\ WF_vars(RouteStep)

-----------------------------------------------------------------------------
TypeOK ==
    /\ now \in Nat
    /\ routable \subseteq Candidate
    /\ pc \in {"start", "loop", "done"} \cup Awaiting
    /\ since \in Nat
    /\ tier \in Tier \cup {UnknownTier}
    /\ deadline \in Nat
    /\ remaining \in Nat
    /\ cand \in Candidate \cup {NoCandidate}
    /\ attempt_timeout \in Nat
    /\ exclude \in SUBSET Candidate
    /\ tried \in Seq(Candidate \X (FailureStatus \cup SkipStatus))
    /\ attempts \in Seq(Candidate \X (FailureStatus \cup {"ok"}))
    /\ outcome \in Outcome
    /\ (outcome # "none") <=> (pc = "done")

\* No vendor is asked twice for one request, and no candidate is given up
\* twice, however often the engine's cache changes during the failover.
Distinct(seq) == \A i, j \in 1 .. Len(seq) : seq[i][1] = seq[j][1] => i = j
NoCandidateTwice == Distinct(attempts) /\ Distinct(tried)

\* What a RouterError tells about the vendors is what happened: the failures
\* in `tried` are the failed attempts, in their order.  (No entry occurs twice.)
Decided == IF pc = "record" THEN Len(attempts) - 1 ELSE Len(attempts)
Failures(seq, n) == {seq[i] : i \in {j \in 1 .. n : seq[j][2] \in FailureStatus}}
TriedIsTruthful ==
    outcome # "internal_error" =>
        /\ Failures(tried, Len(tried)) = Failures(attempts, Decided)
        /\ \A i, j \in 1 .. Len(tried), k, l \in 1 .. Decided :
              i < j /\ tried[i] = attempts[k] /\ tried[j] = attempts[l] => k < l

\* A fatal failure or a success is the last attempt and decides the outcome;
\* every earlier attempt failed in a way that may be retried.
LastAttemptDecides ==
    /\ \A i \in 1 .. Len(attempts) - 1 : attempts[i][2] \in Retryable
    /\ (pc = "done" /\ attempts # <<>> /\ outcome # "internal_error") =>
          /\ LastStatus = "ok" <=> outcome = "ok"
          /\ LastStatus = "auth" <=> outcome = "auth"
          /\ LastStatus \in BadInput <=> outcome = "invalid_request"

\* 504 means that a vendor was asked, that all who were failed retryably, and
\* that too little of the budget is left; 503 never hides an attempt cut short
\* by the deadline: then no candidate of the tier is left, or none was asked.
GatewayErrorsAreEarned ==
    /\ outcome = "deadline_exceeded" =>
          /\ attempts # <<>> /\ LastStatus \in Retryable
          /\ deadline - now < MinRemaining
    /\ outcome = "upstream_unavailable" =>
          \/ (CandidatesOf[tier] \cap routable) \subseteq Candidates(tried)
          \/ attempts = <<>>

\* The caller's status code is what the vendors' answers, the budget and the
\* candidates left make it, whatever the order in which they run out.
OutcomeIsEarned == LastAttemptDecides /\ GatewayErrorsAreEarned

\* No vendor call starts with more than what was left of the budget when the
\* candidate was picked, and none with so little that it could only time out.
CallFitsBudget ==
    pc = "call" =>
        /\ since + attempt_timeout <= deadline - Buffer + MaxRedisDelay
        /\ attempt_timeout >= (IF MinAttempt < PerAttemptMax THEN MinAttempt ELSE PerAttemptMax)

\* The deadline is overrun by at most two Redis round trips, the one before
\* the vendor call and the one after it, and by what the adapter adds beyond
\* the buffer.
OverrunBounded ==
    tier # UnknownTier => now <= deadline + 2 * MaxRedisDelay + Grace - Buffer

\* docs/system/modules/router.md: total_budget_s is the "wall-clock deadline
\* for the whole call".
DeadlineKept == tier # UnknownTier => now <= deadline

\* Every round of the loop that does not end the request excludes a candidate
\* of the tier: the failover cannot go round in circles.
EachRoundExcludes ==
    [][(pc' = "loop" /\ pc # "start") =>
          /\ exclude \subseteq exclude'
          /\ exclude' \cap CandidatesOf[tier] # exclude \cap CandidatesOf[tier]]_vars

\* Every request gets an answer.
Terminates == <>(pc = "done")
=============================================================================
