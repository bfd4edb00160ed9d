------------------------------ MODULE Refresh ------------------------------
(***************************************************************************)
(* The refresh task of one replica, RefreshTask of                         *)
(* src/gateway/routing/refresh.py: a loop that reads every candidate's     *)
(* signals from Redis and replaces the weight engine's cache.              *)
(*                                                                         *)
(* A signal is represented by the time at which the tick that read it      *)
(* began: what the properties ask is how old the cache may be, and whether *)
(* it ever mixes ticks.  The lifespan has run the first tick before it     *)
(* starts the task.                                                        *)
(***************************************************************************)
EXTENDS Integers

CONSTANTS
    Candidate,       \* candidates whose provider has an adapter
    Base,            \* refresh_interval_ms, in units of time
    MaxBackoff,      \* max_backoff_s (30 s)
    ExponentLimit,   \* largest n for which base * 2 ** (n - 1) is a float (1024)
    MaxTick,         \* bound on the time Redis takes for one tick's reads
    MaxClock         \* bound on the time

ASSUME RefreshAssumption ==
    /\ Candidate # {}
    /\ Base \in Nat \ {0} /\ MaxBackoff \in Nat /\ Base <= MaxBackoff
    /\ ExponentLimit \in Nat /\ MaxTick \in Nat
    /\ MaxClock \in Nat

Nil == -1

VARIABLES
    clock,        \* time
    up_since,     \* when Redis became reachable, Nil while it is not
    loop,         \* where _loop is
    began,        \* when the current or last tick began
    out,          \* build_signals' local: the candidates read so far
    wakes_at,     \* when the wait between two ticks is over
    failures,     \* consecutive_failures
    weight_cache, \* weight_cache[c]: began of the tick that read c's signals
    asked,        \* when stop() set the event, Nil before
    stopped       \* what stop() ended with: "no", "returned" or "raised"

refresh_vars ==
    <<clock, up_since, loop, began, out, wakes_at, failures, weight_cache, asked, stopped>>

RefreshInit ==
    /\ clock = 0
    /\ up_since = 0
    /\ loop = "head"
    /\ began = 0
    /\ out = {}
    /\ wakes_at = 0
    /\ failures = 0
    /\ weight_cache = [c \in Candidate |-> 0]
    /\ asked = Nil
    /\ stopped = "no"

Up == up_since # Nil
Stopping == asked # Nil

-----------------------------------------------------------------------------
\* `while not self._stop.is_set()`, and tick() begins.
LoopBegins ==
    /\ loop = "head"
    /\ ~Stopping
    /\ loop' = "snapshot"
    /\ began' = clock
    /\ out' = {}
    /\ UNCHANGED <<clock, up_since, wakes_at, failures, weight_cache, asked, stopped>>

LoopEnds ==
    /\ loop = "head"
    /\ Stopping
    /\ loop' = "ended"
    /\ UNCHANGED <<clock, up_since, began, out, wakes_at, failures, weight_cache, asked, stopped>>

\* build_signals: breakers.refresh_snapshot() first.
RefreshesSnapshot ==
    /\ loop = "snapshot"
    /\ Up
    /\ loop' = "reading"
    /\ UNCHANGED <<clock, up_since, began, out, wakes_at, failures, weight_cache, asked, stopped>>

\* Mutant of Reads: each candidate's signals go straight to the cache.
ReadsIntoCache ==
    /\ loop = "reading"
    /\ Up
    /\ \E c \in Candidate \ out :
          /\ out' = out \cup {c}
          /\ weight_cache' = [weight_cache EXCEPT ![c] = began]
    /\ UNCHANGED <<clock, up_since, loop, began, wakes_at, failures, asked, stopped>>

\* build_signals: one candidate's aggregate, remaining and state.
Reads ==
    /\ loop = "reading"
    /\ Up
    /\ \E c \in Candidate \ out : out' = out \cup {c}
    /\ UNCHANGED <<clock, up_since, loop, began, wakes_at, failures, weight_cache, asked, stopped>>

\* Every candidate is read: update_cache, and the wait of the base interval.
TickSucceeds ==
    /\ loop = "reading"
    /\ out = Candidate
    /\ weight_cache' = [c \in Candidate |-> began]
    /\ failures' = 0
    /\ wakes_at' = clock + Base
    /\ loop' = "waiting"
    /\ UNCHANGED <<clock, up_since, began, out, asked, stopped>>

\* Mutant of Backoff: min() is forgotten.
BackoffUncapped(n) == Base * 2 ^ (n - 1)

\* min(max_backoff_s, base_interval_s * (2 ** (consecutive_failures - 1)))
Backoff(n) ==
    IF Base * 2 ^ (n - 1) <= MaxBackoff THEN Base * 2 ^ (n - 1) ELSE MaxBackoff

\* A read raises; the wait is 50 to 100 % of the backoff.  What was read is lost.
TickFails ==
    /\ loop \in {"snapshot", "reading"}
    /\ ~Up
    /\ failures < ExponentLimit
    /\ failures' = failures + 1
    /\ \E wait \in 1 .. Backoff(failures + 1) :
          /\ 2 * wait >= Backoff(failures + 1)
          /\ wakes_at' = clock + wait
    /\ loop' = "waiting"
    /\ UNCHANGED <<clock, up_since, began, out, weight_cache, asked, stopped>>

\* The product overflows a float: OverflowError out of the handler ends the task.
BackoffOverflows ==
    /\ loop \in {"snapshot", "reading"}
    /\ ~Up
    /\ failures >= ExponentLimit
    /\ failures' = failures + 1
    /\ loop' = "crashed"
    /\ UNCHANGED <<clock, up_since, began, out, wakes_at, weight_cache, asked, stopped>>

\* Mutant of WaitOver: a sleep instead of a wait for the event.
WaitOverByTime == clock >= wakes_at

\* wait_for(self._stop.wait(), timeout): the timeout or the event.
WaitOver == clock >= wakes_at \/ Stopping

WaitEnds ==
    /\ loop = "waiting"
    /\ WaitOver
    /\ loop' = "head"
    /\ UNCHANGED <<clock, up_since, began, out, wakes_at, failures, weight_cache, asked, stopped>>

\* stop(): sets the event and awaits the task, whose exception it raises.
StopBegins ==
    /\ ~Stopping
    /\ asked' = clock
    /\ UNCHANGED <<clock, up_since, loop, began, out, wakes_at, failures, weight_cache, stopped>>

StopEnds ==
    /\ Stopping
    /\ stopped = "no"
    /\ loop \in {"ended", "crashed"}
    /\ stopped' = IF loop = "ended" THEN "returned" ELSE "raised"
    /\ UNCHANGED <<clock, up_since, loop, began, out, wakes_at, failures, weight_cache, asked>>

RedisGoesDown ==
    /\ Up
    /\ up_since' = Nil
    /\ UNCHANGED <<clock, loop, began, out, wakes_at, failures, weight_cache, asked, stopped>>

RedisComesBack ==
    /\ ~Up
    /\ up_since' = clock
    /\ UNCHANGED <<clock, loop, began, out, wakes_at, failures, weight_cache, asked, stopped>>

\* Nothing of the task takes time but Redis, MaxTick at most for a tick, and
\* the wait.
LoopMayWait ==
    \/ loop \in {"ended", "crashed"}
    \/ loop \in {"snapshot", "reading"} /\ clock < began + MaxTick
    \/ loop = "waiting" /\ ~WaitOver

TimePasses ==
    /\ clock < MaxClock
    /\ LoopMayWait
    /\ clock' = clock + 1
    /\ UNCHANGED <<up_since, loop, began, out, wakes_at, failures, weight_cache, asked, stopped>>

TaskStep ==
    \/ LoopBegins \/ LoopEnds
    \/ RefreshesSnapshot \/ Reads \/ TickSucceeds \/ TickFails \/ BackoffOverflows
    \/ WaitEnds

RefreshNext ==
    \/ TaskStep
    \/ StopBegins \/ StopEnds
    \/ RedisGoesDown \/ RedisComesBack
    \/ TimePasses

RefreshSpec == RefreshInit /\ [][RefreshNext]_refresh_vars

-----------------------------------------------------------------------------
LoopPlaces == {"head", "snapshot", "reading", "waiting", "ended", "crashed"}

RefreshTypeOK ==
    /\ clock \in 0 .. MaxClock
    /\ up_since \in (0 .. MaxClock) \cup {Nil}
    /\ loop \in LoopPlaces
    /\ began \in 0 .. clock
    /\ out \subseteq Candidate
    /\ wakes_at \in Nat
    /\ loop = "waiting" => wakes_at <= clock + MaxBackoff
    /\ failures \in Nat
    /\ weight_cache \in [Candidate -> 0 .. began]
    /\ asked \in (0 .. clock) \cup {Nil}
    /\ stopped \in {"no", "returned", "raised"}

\* pick() never sees a mix of two ticks, however a tick is interrupted by
\* requests, fails half-way or is stopped.
CacheIsOneTick == \A c, d \in Candidate : weight_cache[c] = weight_cache[d]

\* An outage's effect is bounded: once Redis has been reachable for the longest
\* backoff and a tick, the router's view is one interval and two ticks old at
\* most, whatever the length of an outage that the task survived.
StalenessBounded ==
    (Up /\ ~Stopping /\ loop # "crashed" /\ clock > up_since + MaxBackoff + MaxTick) =>
        \A c \in Candidate : clock <= weight_cache[c] + Base + 2 * MaxTick

\* Shutdown is prompt: it waits for the reads of one tick at most, never for a
\* backoff.
StopIsPrompt ==
    (Stopping /\ stopped = "no") => (loop \in {"ended", "crashed"} \/ clock <= asked + MaxTick)

\* docs/system/modules/routing.md: a failed tick is retried with backoff until
\* the first success; the task does not end by itself.
TaskSurvives == loop # "crashed"
=============================================================================
