---------------------------- MODULE TokenBucket ----------------------------
(***************************************************************************)
(* The token bucket of one (provider, model): RATELIMIT_LUA and CLAMP_LUA  *)
(* of src/gateway/redis_state.py, called through src/gateway/ratelimit.py. *)
(*                                                                         *)
(* Redis runs a script atomically, so one action is one script.  The time  *)
(* a script sees is not Redis's: now_ms was read on the caller's host,     *)
(* whose clock may be ahead of another's, some time before the script ran. *)
(* Only differences of readings matter, so a reading is at most Spread     *)
(* ahead of the time the script runs.                                      *)
(*                                                                         *)
(* Levels are exact: one request or token is Minute units, and a cap of n  *)
(* per minute refills n units per millisecond (n / 60_000 in the code).    *)
(***************************************************************************)
EXTENDS Integers

CONSTANTS
    Rpm, Tpm,    \* RateLimitEntry.rpm and .tpm
    Minute,      \* milliseconds in a minute (60_000)
    Ttl,         \* lifetime of an untouched key, milliseconds (600_000)
    Spread,      \* bound on how far two readings of the time may disagree
    Cost,        \* values of request_tokens: results of estimate_tokens
    Observed,    \* values a vendor's rate-limit headers may report to clamp
    MaxTime,     \* bound on the time
    MaxCalls     \* bound on the scripts run in one window

ASSUME LimitAssumption == Rpm \in Nat /\ Tpm \in Nat
ASSUME TimeAssumption ==
    /\ Minute \in Nat \ {0}
    /\ Ttl \in Nat
    /\ Spread \in Nat
    /\ MaxTime \in Nat
    /\ MaxCalls \in Nat
ASSUME TtlAssumption == Ttl >= Minute
ASSUME InputAssumption == Cost \subseteq Nat /\ Observed \subseteq Nat

Nil == -1          \* a hash field that is not set
Never == -1        \* a key without expiry

VARIABLES
    now,           \* Redis's time, milliseconds
    rpm,           \* rpm_remaining, in units of 1 / Minute
    tpm,           \* tpm_remaining, in units of 1 / Minute
    last,          \* last_refill_ms
    expires,       \* when Redis drops the key
    start,         \* begin of the window of time looked at
    calls,         \* acquire scripts run in the window
    requests,      \* RPM taken in the window
    tokens         \* TPM taken in the window

hash == <<rpm, tpm, last, expires>>
window == <<start, calls, requests, tokens>>
vars == <<now, hash, window>>

Init ==
    /\ now = 0
    /\ rpm = Nil
    /\ tpm = Nil
    /\ last = Nil
    /\ expires = Never
    /\ start = 0
    /\ calls = 0
    /\ requests = 0
    /\ tokens = 0

-----------------------------------------------------------------------------
\* Lazy refill of a field with capacity cap per minute, read at time t.
Elapsed(t) == IF last = Nil \/ t < last THEN 0 ELSE t - last

\* Mutant of Refill: the level is not capped.
RefillUncapped(level, cap, t) ==
    (IF level = Nil THEN cap * Minute ELSE level) + cap * Elapsed(t)

Refill(level, cap, t) ==
    LET held == (IF level = Nil THEN cap * Minute ELSE level) + cap * Elapsed(t)
    IN  IF held > cap * Minute THEN cap * Minute ELSE held

\* Mutant of Acquire: only the creation of the key sets its lifetime.
AcquireExpiresOnce(cost, t) ==
    /\ calls < MaxCalls
    /\ calls' = calls + 1
    /\ rpm' = Refill(rpm, Rpm, t) - Minute
    /\ tpm' = Refill(tpm, Tpm, t) - cost * Minute
    /\ rpm' >= 0 /\ tpm' >= 0
    /\ requests' = requests + 1
    /\ tokens' = tokens + cost
    /\ last' = t
    /\ expires' = IF expires = Never THEN now + Ttl ELSE expires
    /\ UNCHANGED <<now, start>>

\* RATELIMIT_LUA: a request and its tokens are taken together or not at all.
\* The refilled levels and the time are written back either way.
Acquire(cost, t) ==
    LET r == Refill(rpm, Rpm, t)
        k == Refill(tpm, Tpm, t)
        ok == r >= Minute /\ k >= cost * Minute
    IN  /\ calls < MaxCalls
        /\ calls' = calls + 1
        /\ rpm' = IF ok THEN r - Minute ELSE r
        /\ tpm' = IF ok THEN k - cost * Minute ELSE k
        /\ requests' = IF ok THEN requests + 1 ELSE requests
        /\ tokens' = IF ok THEN tokens + cost ELSE tokens
        /\ last' = t
        /\ expires' = now + Ttl
        /\ UNCHANGED <<now, start>>

Reading == now .. now + Spread

TryAcquire == \E cost \in Cost, t \in Reading : Acquire(cost, t)

\* remaining() asks for no tokens, and takes a request all the same.
Remaining == \E t \in Reading : Acquire(0, t)

\* CLAMP_LUA: an absent field takes the observed value; neither the time of
\* the last refill nor the expiry is touched.
Shrunk(level, observed) ==
    IF level = Nil \/ observed * Minute < level THEN observed * Minute ELSE level

Clamp ==
    /\ \E r, k \in Observed : rpm' = Shrunk(rpm, r) /\ tpm' = Shrunk(tpm, k)
    /\ UNCHANGED <<now, last, expires, window>>

\* Time passes, and Redis drops the key when its lifetime is over.
Tick ==
    /\ now < MaxTime
    /\ now' = now + 1
    /\ IF expires # Never /\ now + 1 >= expires
       THEN /\ rpm' = Nil /\ tpm' = Nil /\ last' = Nil
            /\ expires' = Never
       ELSE UNCHANGED hash
    /\ UNCHANGED window

\* The window of time that the bounds speak of may begin at any moment.
OpenWindow ==
    /\ start' = now
    /\ calls' = 0
    /\ requests' = 0
    /\ tokens' = 0
    /\ UNCHANGED <<now, hash>>

Next == TryAcquire \/ Remaining \/ Clamp \/ Tick \/ OpenWindow

Spec == Init /\ [][Next]_vars

-----------------------------------------------------------------------------
TypeOK ==
    /\ now \in 0 .. MaxTime
    /\ rpm \in Nat \cup {Nil}
    /\ tpm \in Nat \cup {Nil}
    /\ last \in Nat \cup {Nil}
    /\ expires \in Nat \cup {Never}
    /\ start \in 0 .. MaxTime
    /\ calls \in 0 .. MaxCalls
    /\ requests \in Nat
    /\ tokens \in Nat
    /\ start <= now
    /\ rpm = Nil <=> tpm = Nil
    /\ rpm = Nil => last = Nil
    /\ last = Nil <=> expires = Never

\* Fleet-wide rate limit: in any window of time, whenever it begins, no more
\* requests and tokens are admitted than the cap and what the window refills, and at most
\* Spread milliseconds of refill more for each script run.  With one exact
\* clock (Spread = 0) that is the token bucket's promise without any excess.
Bound(cap) == cap * Minute + cap * (now - start) + cap * (Spread * calls)

OverageBounded == Minute * requests <= Bound(Rpm) /\ Minute * tokens <= Bound(Tpm)

\* A key that Redis drops takes no information with it: at its last use it was
\* so long ago that the bucket would be full again.
ExpiryForgetsNothing ==
    [][(rpm # Nil /\ rpm' = Nil) =>
          /\ Refill(rpm, Rpm, now' + Spread) = Rpm * Minute
          /\ Refill(tpm, Tpm, now' + Spread) = Tpm * Minute]_vars

\* docs/system/modules/ratelimit.md: clock skew "degrades throughput but never
\* causes overage".
NoOverage == Minute * requests <= Rpm * Minute + Rpm * (now - start)

\* The docstring of remaining(): "without consuming".
RemainingConsumesNothing ==
    [][Remaining => (rpm = Nil \/ rpm' >= rpm)]_vars
=============================================================================
