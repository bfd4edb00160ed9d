------------------------------ MODULE Gateway ------------------------------
(***************************************************************************)
(* One replica from boot to shutdown, and the requests of one caller that  *)
(* has a daily token cap: lifespan and chat_completions of                 *)
(* src/gateway/app.py.                                                     *)
(*                                                                         *)
(* What the parts do is taken from their own modules: Router (a retryable  *)
(* failure of a vendor is followed by another attempt or by giving up, any *)
(* other one ends the request), Vendors (which failures are which),        *)
(* Accounting (what was enqueued is settled by an INSERT, or lost),        *)
(* Refresh (its task may end with an exception), CallerCache (the caller   *)
(* is resolved before the cap is looked at).  All attempt records of one   *)
(* request are enqueued without an await in between and move together      *)
(* here.                                                                   *)
(***************************************************************************)
EXTENDS Integers, FiniteSets, Vendors

CONSTANTS
    Request,         \* calls of chat_completions, each made once
    Cap,             \* the caller's daily_token_cap
    MaxTokens,       \* the most tokens that one answer costs
    MaxMidnights,    \* bound on the changes of day
    RefreshMayRaise  \* Redis may be away for so long that the refresh task ends

ASSUME GatewayAssumption ==
    /\ IsFiniteSet(Request)
    /\ Cap \in Nat \ {0} /\ MaxTokens \in Nat \ {0}
    /\ MaxMidnights \in Nat
    /\ RefreshMayRaise \in BOOLEAN

VARIABLES
    life,        \* where the lifespan is
    refresh,     \* the refresh task: "none", "running" or "raised"
    stage,       \* stage[q]: how far request q and its records are
    outcome,     \* outcome[q]: the class of the response that the observer is told of
    seen,        \* seen[q]: what the vendors' failures came to, a rejection foremost
    reply,       \* reply[q]: the HTTP status its caller gets, or None
    tokens,      \* tokens[q]: what its answer cost, while its records are queued
    used_today,  \* caller_tokens_used_today: the sum over the rows of this day
    exposed,     \* the most requests unsettled at one admission of this day
    midnights

request == <<stage, outcome, seen, reply, tokens>>
vars == <<life, refresh, request, used_today, exposed, midnights>>

Life == {"booting", "failed", "serving", "refresh.stop", "accounting.stop", "down", "killed"}
None == 0
Unrecorded == "unrecorded"     \* the observer is told of nothing
Outcome == ErrorClass \cup {NoError, Unrecorded}
Seen == {"nothing", "faults", "unclear", "rejection"}
Stage == {"none", "refused", "routing", "failed", "queued", "durable", "lost"}

Init ==
    /\ life = "booting"
    /\ refresh = "none"
    /\ stage = [q \in Request |-> "none"]
    /\ outcome = [q \in Request |-> Unrecorded]
    /\ seen = [q \in Request |-> "nothing"]
    /\ reply = [q \in Request |-> None]
    /\ tokens = [q \in Request |-> 0]
    /\ used_today = 0
    /\ exposed = 0
    /\ midnights = 0

At(s) == {q \in Request : stage[q] = s}
Move(q, s) == stage' = [stage EXCEPT ![q] = s]

\* Admitted, but what they cost is not in the table: they still run, or their
\* records wait in the queue.
Unsettled == At("routing") \cup At("queued")

\* What the answers of a set of requests cost together: their tokens, counted.
Cost(batch) == Cardinality({token \in batch \X (1 .. MaxTokens) : token[2] <= tokens[token[1]]})

-----------------------------------------------------------------------------
\* The lifespan up to its yield: Redis, Postgres and the configuration are
\* there and the first tick succeeds, or the process ends.
Boots ==
    /\ life = "booting"
    /\ \/ life' = "serving" /\ refresh' = "running"
       \/ life' = "failed" /\ refresh' = refresh
    /\ UNCHANGED <<request, used_today, exposed, midnights>>

\* Mutant of Admits: `used > cap`.
AdmitsAtCap(q) ==
    /\ life = "serving"
    /\ stage[q] = "none"
    /\ used_today <= Cap
    /\ Move(q, "routing")
    /\ exposed' = IF Cardinality(Unsettled) + 1 > exposed THEN Cardinality(Unsettled) + 1 ELSE exposed
    /\ UNCHANGED <<life, refresh, outcome, seen, reply, tokens, used_today, midnights>>

\* chat_completions reads the sum of the rows and goes on to the router.
Admits(q) ==
    /\ life = "serving"
    /\ stage[q] = "none"
    /\ used_today < Cap
    /\ Move(q, "routing")
    /\ exposed' = IF Cardinality(Unsettled) + 1 > exposed THEN Cardinality(Unsettled) + 1 ELSE exposed
    /\ UNCHANGED <<life, refresh, outcome, seen, reply, tokens, used_today, midnights>>

Replies(q, s, status) ==
    /\ Move(q, s)
    /\ reply' = [reply EXCEPT ![q] = status]

\* 429: the daily cap is reached.
Refuses(q) ==
    /\ life = "serving"
    /\ stage[q] = "none"
    /\ used_today >= Cap
    /\ Replies(q, "refused", 429)
    /\ UNCHANGED <<life, refresh, outcome, seen, tokens, used_today, exposed, midnights>>

\* Before the router has done anything: the query for the cap raises, or no tier
\* has the name asked for.
TurnsAway(q) ==
    /\ life = "serving"
    /\ stage[q] = "none"
    /\ \/ Replies(q, "refused", 500)
       \/ used_today < Cap /\ Replies(q, "refused", 400)
    /\ UNCHANGED <<life, refresh, outcome, seen, tokens, used_today, exposed, midnights>>

\* What a failure says of the request; a rejection is remembered over the others.
Sees(q, response) ==
    LET what == CASE response \in Rejection -> "rejection"
                  [] response \in VendorFault -> "faults"
                  [] response \in Unclear -> "unclear"
    IN  seen' = [seen EXCEPT ![q] = IF @ = "rejection" THEN @ ELSE what]

\* A candidate is picked and admitted, or the router is about to give up.
Deciding(q) == stage[q] = "routing" /\ outcome[q] = Unrecorded

\* vendor.chat() returns, or raises an error that the router catches: the observer
\* is told.
Responds(q, v, response) ==
    /\ Deciding(q)
    /\ Adapter(v, response) # Uncaught
    /\ outcome' = [outcome EXCEPT ![q] = Adapter(v, response)]
    /\ IF Adapter(v, response) = NoError THEN seen' = seen ELSE Sees(q, response)
    /\ UNCHANGED <<life, refresh, stage, reply, tokens, used_today, exposed, midnights>>

\* The adapter lets an exception through that the router does not catch.
Slips(q, v, response) ==
    /\ Deciding(q)
    /\ Adapter(v, response) = Uncaught
    /\ Sees(q, response)
    /\ Replies(q, "failed", 500)
    /\ UNCHANGED <<life, refresh, outcome, tokens, used_today, exposed, midnights>>

\* The observer's call returns, and what the router does next depends on the class.
Recorded(q, class) ==
    /\ stage[q] = "routing"
    /\ outcome[q] = class
    /\ outcome' = [outcome EXCEPT ![q] = Unrecorded]

\* It goes on, or gives up next.
FailsOver(q) ==
    /\ \E class \in Retryable : Recorded(q, class)
    /\ UNCHANGED <<life, refresh, stage, seen, reply, tokens, used_today, exposed, midnights>>

\* It raises a RouterError for good.
IsRejected(q) ==
    /\ \E class \in NonRetryable :
          Recorded(q, class) /\ Replies(q, "failed", RejectionStatus(class))
    /\ UNCHANGED <<life, refresh, seen, tokens, used_today, exposed, midnights>>

\* It returns: every attempt is enqueued, and the answer sent.
Answers(q) ==
    /\ Recorded(q, NoError)
    /\ Replies(q, "queued", 200)
    /\ \E n \in 0 .. MaxTokens : tokens' = [tokens EXCEPT ![q] = n]
    /\ UNCHANGED <<life, refresh, seen, used_today, exposed, midnights>>

\* RouterError without a rejection, also before any attempt.
GivesUp(q) ==
    /\ Deciding(q)
    /\ \E status \in GaveUpStatus : Replies(q, "failed", status)
    /\ UNCHANGED <<life, refresh, outcome, seen, tokens, used_today, exposed, midnights>>

\* A call to Redis raises: the bucket's, or the observer's after any response.
Breaks(q) ==
    /\ stage[q] = "routing"
    /\ Replies(q, "failed", 500)
    /\ outcome' = [outcome EXCEPT ![q] = Unrecorded]
    /\ UNCHANGED <<life, refresh, seen, tokens, used_today, exposed, midnights>>

\* The accounting queue runs until its stop() is over.
Flushing == life \in {"serving", "refresh.stop", "accounting.stop"}
Leave(batch, s) ==
    /\ stage' = [q \in Request |-> IF q \in batch THEN s ELSE stage[q]]
    /\ tokens' = [q \in Request |-> IF q \in batch THEN 0 ELSE tokens[q]]

\* write_batch: the rows are of the day on which they are inserted.
Commits(batch) ==
    /\ Flushing
    /\ batch # {} /\ batch \subseteq At("queued")
    /\ Leave(batch, "durable")
    /\ used_today' = used_today + Cost(batch)
    /\ UNCHANGED <<life, refresh, outcome, seen, reply, exposed, midnights>>

\* The deque drops them, or write_batch raises.
Loses(batch) ==
    /\ Flushing
    /\ batch # {} /\ batch \subseteq At("queued")
    /\ Leave(batch, "lost")
    /\ UNCHANGED <<life, refresh, outcome, seen, reply, used_today, exposed, midnights>>

\* Midnight, UTC.
NewDay ==
    /\ midnights < MaxMidnights
    /\ midnights' = midnights + 1
    /\ used_today' = 0
    /\ exposed' = Cardinality(Unsettled)
    /\ UNCHANGED <<life, refresh, request>>

-----------------------------------------------------------------------------
RefreshRaises ==
    /\ RefreshMayRaise
    /\ refresh = "running"
    /\ refresh' = "raised"
    /\ UNCHANGED <<life, request, used_today, exposed, midnights>>

\* SIGTERM: the server lets running requests end, then resumes the lifespan.
ShutdownBegins ==
    /\ life = "serving"
    /\ At("routing") = {}
    /\ life' = "refresh.stop"
    /\ UNCHANGED <<refresh, request, used_today, exposed, midnights>>

\* refresh.stop() awaits the task; what that raised leaves the lifespan, and
\* nothing after it is called.
RefreshStops ==
    /\ life = "refresh.stop"
    /\ life' = IF refresh = "raised" THEN "down" ELSE "accounting.stop"
    /\ refresh' = IF refresh = "raised" THEN refresh ELSE "none"
    /\ UNCHANGED <<request, used_today, exposed, midnights>>

\* Mutant of AccountingStops: stop() ends the task without a last flush.
AccountingStopsAtOnce ==
    /\ life = "accounting.stop"
    /\ life' = "down"
    /\ UNCHANGED <<refresh, request, used_today, exposed, midnights>>

\* accounting.stop() returns with an empty queue; then db.close().
AccountingStops ==
    /\ life = "accounting.stop"
    /\ At("queued") = {}
    /\ life' = "down"
    /\ UNCHANGED <<refresh, request, used_today, exposed, midnights>>

\* SIGKILL.
Killed ==
    /\ life \notin {"failed", "down", "killed"}
    /\ life' = "killed"
    /\ refresh' = "none"
    /\ Leave(Unsettled, "lost")
    /\ outcome' = [q \in Request |-> Unrecorded]
    /\ UNCHANGED <<seen, reply, used_today, exposed, midnights>>

Settles == \E batch \in SUBSET At("queued") : Commits(batch) \/ Loses(batch)

Next ==
    \/ Boots
    \/ \E q \in Request : Admits(q) \/ Refuses(q) \/ TurnsAway(q)
    \/ \E q \in Request, v \in Provider, response \in Response :
          Responds(q, v, response) \/ Slips(q, v, response)
    \/ \E q \in Request : FailsOver(q) \/ IsRejected(q) \/ Answers(q) \/ GivesUp(q) \/ Breaks(q)
    \/ Settles
    \/ NewDay
    \/ RefreshRaises \/ ShutdownBegins \/ RefreshStops \/ AccountingStops \/ Killed

Spec == Init /\ [][Next]_vars

\* The queue's task runs every flush_interval_ms, and the awaits of the
\* shutdown return (Accounting and Refresh show that they do).
FairSpec == Spec /\ WF_vars(Settles) /\ WF_vars(RefreshStops) /\ WF_vars(AccountingStops)

-----------------------------------------------------------------------------
TypeOK ==
    /\ life \in Life
    /\ refresh \in {"none", "running", "raised"}
    /\ stage \in [Request -> Stage]
    /\ outcome \in [Request -> Outcome]
    /\ seen \in [Request -> Seen]
    /\ reply \in [Request -> {None, 200, 400, 401, 429, 500} \cup GaveUpStatus]
    /\ tokens \in [Request -> 0 .. MaxTokens]
    /\ used_today \in 0 .. MaxTokens * Cardinality(Request)
    /\ exposed \in 0 .. Cardinality(Request)
    /\ midnights \in 0 .. MaxMidnights
    \* Only a serving replica has requests in the router.
    /\ At("routing") # {} => life = "serving"

\* What the caller may yet be found to have used today, when nothing that is
\* unsettled is lost.
Pending == Cost(At("queued")) + MaxTokens * Cardinality(At("routing"))

\* The daily cap, as far as the code keeps it.  It is checked against the rows
\* in the table, so everything admitted and not yet flushed is invisible: the
\* caller can exceed it by the answers of as many requests as were unsettled at
\* one admission, and never by more, also when records queued before midnight
\* are inserted after it.
SpendBounded ==
    \/ used_today + Pending = 0
    \/ used_today + Pending <= Cap - 1 + MaxTokens * exposed

\* Across adapters, observer, router and handler, the status says whose fault it
\* was, whatever other vendors did before.  A caller is told that the request, or its
\* credentials, were rejected only when a vendor rejected it or answered with what
\* no class is for; and once a vendor did reject it, the caller gets no answer of
\* another one and is not told that the vendors are unavailable or too slow.  (When
\* the observer's call raises, the status is 500.)
BlameIsEarned ==
    \A q \in Request :
        /\ stage[q] = "failed" /\ reply[q] \in {400, 401} => seen[q] \in {"rejection", "unclear"}
        /\ seen[q] = "rejection" => reply[q] \in {None, 400, 401, 500}

\* docs: at the attempt level the error says that "this vendor rejected this call".
RejectionIsReal ==
    \A q \in At("failed") : reply[q] \in {400, 401} => seen[q] = "rejection"

\* docs: "every exception out of Vendor.chat() is a ProviderError."
ContractIsKept == \A v \in Provider, response \in Response : Adapter(v, response) # Uncaught

\* docs: "A burst can therefore overshoot by one request's worth of tokens."
OvershootIsOneRequest == used_today <= Cap - 1 + MaxTokens

\* docs: the "requests table contains every attempt (not just the successful
\* one)": a request that is over had its attempts enqueued.
EveryAttemptIsEnqueued == \A q \in At("failed") : seen[q] = "nothing"

\* docs: the shutdown stops accounting, which "drains pending rows".
ShutdownDrains == life = "down" => At("queued") = {}

\* An answered request's records reach an end, also when the replica is told to
\* stop right after the answer, unless the shutdown breaks off because the
\* refresh task had ended with an exception.
BrokenOff == life = "down" /\ refresh = "raised"
AnsweredIsSettled ==
    \A q \in Request :
        stage[q] = "queued" ~> (stage[q] \in {"durable", "lost"} \/ BrokenOff)
=============================================================================
