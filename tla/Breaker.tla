------------------------------ MODULE Breaker ------------------------------
(***************************************************************************)
(* The circuit breaker of one (provider, model), src/gateway/breaker.py:   *)
(* every replica derives its own state from sample counters that all       *)
(* replicas increment in Redis, one hash per second.                       *)
(*                                                                         *)
(* refresh_snapshot switches at its Redis calls; one action is the code    *)
(* between two of them, and samples may arrive in between.  Times are in   *)
(* ticks; a replica's clock is time.monotonic() of its host, which nothing *)
(* relates to the clock of another host: Offset is arbitrary.              *)
(***************************************************************************)
EXTENDS Sums

CONSTANTS
    Replica,
    Reader,          \* the replicas whose refreshes are followed: a refresh only
                     \* reads Redis, so those of the others do not matter to them
    Task,            \* attempts whose outcomes are recorded at the same time
    Offset,          \* Offset[r]: how far r's monotonic clock is ahead
    TicksPerSecond,
    Window,          \* window_s, in ticks
    OpenDuration,    \* open_duration_s, in ticks
    SampleTtl,       \* lifetime of a sample hash (4 * window_s), in ticks
    ProbeTtl,        \* ttl_s of the probe lock, in ticks
    MaxRefresh,      \* bound on the time one refresh takes, in ticks
    MinSamples,      \* min_samples
    ThresholdNum,    \* failure_threshold is ThresholdNum / ThresholdDen
    ThresholdDen,
    MaxClock,        \* bound on the time
    MaxSecond,       \* bound on the seconds samples are recorded for
    MaxSamples,      \* bound on the samples ever recorded
    MaxFailures      \* bound on the refreshes that fail

ASSUME ClockAssumption ==
    /\ Reader \subseteq Replica
    /\ Offset \in [Replica -> Nat]
    /\ TicksPerSecond \in Nat \ {0}
    /\ {Window, OpenDuration, SampleTtl, ProbeTtl} \subseteq Nat \ {0}
    /\ MaxRefresh \in Nat /\ SampleTtl >= Window + TicksPerSecond + MaxRefresh
    /\ MaxClock \in Nat /\ Window <= MaxClock /\ MaxSecond \in Nat
    /\ \A r \in Replica : (MaxClock + Offset[r]) \div TicksPerSecond <= MaxSecond
ASSUME ThresholdAssumption ==
    /\ MinSamples \in Nat \ {0}
    /\ ThresholdNum \in Nat /\ ThresholdDen \in Nat \ {0}
ASSUME BoundAssumption == MaxSamples \in Nat /\ MaxFailures \in Nat

Second == 0 .. MaxSecond
Epoch(t) == t \div TicksPerSecond
Unset == -1

VARIABLES
    clock,       \* true time; starts late enough for a whole window
    successes,   \* successes[s], failures[s]: the sample hash of second s
    failures,
    expire_at,   \* expire_at[s]: when Redis drops that hash, or Unset
    sending,     \* sending[t]: the sample whose pipeline is under way, or NoSample
    probe,       \* when Redis drops the fleet's probe lock, or Unset
    entry,       \* entry[r]: the _SnapshotEntry of replica r, or NoEntry
    pc,          \* pc[r]: where refresh_snapshot of replica r is
    read_at,     \* read_at[r]: its local variable `now`
    broken,      \* refreshes that failed
    recorded,    \* samples ever taken
    log,         \* history: log[kind][s]: samples ever counted under second s
    writers,     \* history: writers[s]: the replicas that counted them
    fresh        \* history: fresh[r]: samples counted since r became HALF_OPEN

samples == <<successes, failures, expire_at>>
redis == <<samples, probe>>
refresh == <<entry, pc, read_at, broken>>
history == <<log, writers, fresh>>
breaker_vars == <<clock, redis, sending, refresh, recorded, history>>

Entry == [state : {"closed", "half_open", "open"}, opened_at : Nat, half_opened_at : Nat]
NoEntry == [state |-> "absent", opened_at |-> 0, half_opened_at |-> 0]
Closed == [state |-> "closed", opened_at |-> 0, half_opened_at |-> 0]
Kind == {"success", "failure"}
Sample == [step : {"hincrby", "expire"}, by : Replica, kind : Kind, second : Second]
NoSample == [step |-> "none"]

Clock(r) == clock + Offset[r]

BreakerInit ==
    /\ clock = Window
    /\ successes = [s \in Second |-> 0]
    /\ failures = [s \in Second |-> 0]
    /\ expire_at = [s \in Second |-> Unset]
    /\ probe = Unset
    /\ sending = [t \in Task |-> NoSample]
    /\ entry = [r \in Replica |-> NoEntry]
    /\ pc = [r \in Replica |-> "idle"]
    /\ read_at = [r \in Replica |-> 0]
    /\ broken = 0
    /\ recorded = 0
    /\ log = [k \in Kind |-> [s \in Second |-> 0]]
    /\ writers = [s \in Second |-> {}]
    /\ fresh = [r \in Replica |-> [k \in Kind |-> 0]]

-----------------------------------------------------------------------------
\* _increment: the key is that of the current second of the recording replica,
\* read before the pipeline is sent.
Records(t, r, kind) ==
    /\ sending[t] = NoSample
    /\ recorded < MaxSamples
    /\ recorded' = recorded + 1
    /\ sending' = [sending EXCEPT ![t] =
                     [step |-> "hincrby", by |-> r, kind |-> kind, second |-> Epoch(Clock(r))]]
    /\ UNCHANGED <<clock, redis, refresh, history>>

\* The first command of the pipeline, which is not a transaction.
Increments(t) ==
    LET s == sending[t].second
        kind == sending[t].kind
    IN  /\ sending[t].step = "hincrby"
        /\ sending' = [sending EXCEPT ![t].step = "expire"]
        /\ IF kind = "success"
           THEN successes' = [successes EXCEPT ![s] = @ + 1] /\ UNCHANGED failures
           ELSE failures' = [failures EXCEPT ![s] = @ + 1] /\ UNCHANGED successes
        /\ log' = [log EXCEPT ![kind][s] = @ + 1]
        /\ writers' = [writers EXCEPT ![s] = @ \cup {sending[t].by}]
        /\ fresh' = [q \in Replica |-> [fresh[q] EXCEPT ![kind] = @ + 1]]
        /\ UNCHANGED <<clock, expire_at, probe, refresh, recorded>>

HashExists(s) == successes[s] + failures[s] > 0

\* Mutant of Expires: the hash lives for one window.
ExpiresEarly(t) ==
    LET s == sending[t].second
    IN  /\ sending[t].step = "expire"
        /\ sending' = [sending EXCEPT ![t] = NoSample]
        /\ expire_at' = IF HashExists(s) THEN [expire_at EXCEPT ![s] = clock + Window]
                        ELSE expire_at
        /\ UNCHANGED <<clock, successes, failures, probe, refresh, recorded, history>>

\* The second one.  EXPIRE of a missing key does nothing.
Expires(t) ==
    LET s == sending[t].second
    IN  /\ sending[t].step = "expire"
        /\ sending' = [sending EXCEPT ![t] = NoSample]
        /\ expire_at' = IF HashExists(s) THEN [expire_at EXCEPT ![s] = clock + SampleTtl]
                        ELSE expire_at
        /\ UNCHANGED <<clock, successes, failures, probe, refresh, recorded, history>>

\* The connection breaks, or the process ends: the rest is never executed.
BreaksOff(t) ==
    /\ sending[t] # NoSample
    /\ sending' = [sending EXCEPT ![t] = NoSample]
    /\ UNCHANGED <<clock, redis, refresh, recorded, history>>

\* _seed_snapshot_from_keys: a candidate with any sample hash gets an entry.
SomeKey == \E s \in Second : HashExists(s)
Seeded(r) == IF entry[r] = NoEntry /\ SomeKey THEN Closed ELSE entry[r]

\* state(), which build_signals calls after the refresh, seeds as well.
QueryState(r) ==
    /\ pc[r] = "idle"
    /\ Seeded(r) # entry[r]
    /\ entry' = [entry EXCEPT ![r] = Seeded(r)]
    /\ UNCHANGED <<clock, redis, sending, pc, read_at, broken, recorded, history>>

\* try_probe: SET NX EX, whatever the state of the breaker.  Without the lock it
\* changes nothing.
TryProbe ==
    /\ probe = Unset
    /\ probe' = clock + ProbeTtl
    /\ UNCHANGED <<clock, samples, sending, refresh, recorded, history>>

RefreshBegins(r) ==
    /\ pc[r] = "idle"
    /\ pc' = [pc EXCEPT ![r] = "scan"]
    /\ read_at' = [read_at EXCEPT ![r] = Clock(r)]
    /\ UNCHANGED <<clock, redis, sending, entry, broken, recorded, history>>

\* The SCAN ends.  Without an entry there is nothing to read or to change.
Scans(r) ==
    /\ pc[r] = "scan"
    /\ entry' = [entry EXCEPT ![r] = Seeded(r)]
    /\ pc' = [pc EXCEPT ![r] = IF Seeded(r) = NoEntry THEN "idle" ELSE "window"]
    /\ UNCHANGED <<clock, redis, sending, read_at, broken, recorded, history>>

\* _enumerate_sample_keys: the whole seconds that overlap the window.
WindowSeconds(t) == Epoch(t - Window) .. Epoch(t)
ProbeSeconds(e, t) == Epoch(e.half_opened_at) .. Epoch(t)

Trips(total, failed) ==
    /\ total >= MinSamples
    /\ failed * ThresholdDen >= ThresholdNum * total

\* Mutants of AfterWindow: an OPEN breaker whose window is quiet is closed; every
\* refresh of an OPEN breaker restarts its open duration.
AfterWindowForgets(e, t, succ, fail) ==
    IF e.state = "closed" /\ Trips(succ + fail, fail)
    THEN [state |-> "open", opened_at |-> t, half_opened_at |-> 0]
    ELSE IF Trips(succ + fail, fail) THEN e ELSE Closed

AfterWindowRestarts(e, t, succ, fail) ==
    IF e.state = "open" \/ Trips(succ + fail, fail)
    THEN [state |-> "open", opened_at |-> t, half_opened_at |-> 0]
    ELSE e

\* _compute_next_state for an entry that is not HALF_OPEN.
AfterWindow(e, t, succ, fail) ==
    IF e.state = "closed" /\ Trips(succ + fail, fail)
    THEN [state |-> "open", opened_at |-> t, half_opened_at |-> 0]
    ELSE e

\* _compute_next_state for a HALF_OPEN entry.
AfterProbe(e, t, succ, fail) ==
    IF fail > 0 THEN [state |-> "open", opened_at |-> t, half_opened_at |-> 0]
    ELSE IF succ > 0 THEN Closed
    ELSE e

\* _transition_after_window_into
AfterOpenDuration(e, t) ==
    IF e.state = "open" /\ t - e.opened_at >= OpenDuration
    THEN [e EXCEPT !.state = "half_open", !.half_opened_at = t]
    ELSE e

\* The swap of self._snapshot.  Becoming HALF_OPEN starts the history of what
\* is recorded from then on.
Commit(r, e) ==
    LET new == AfterOpenDuration(e, read_at[r])
    IN  /\ entry' = [entry EXCEPT ![r] = new]
        /\ pc' = [pc EXCEPT ![r] = "idle"]
        /\ fresh' = IF new.state = "half_open" /\ entry[r].state # "half_open"
                    THEN [fresh EXCEPT ![r] = [k \in Kind |-> 0]]
                    ELSE fresh
        /\ UNCHANGED <<clock, redis, sending, read_at, broken, recorded, log, writers>>

\* The first pipeline of HMGETs; a HALF_OPEN entry needs a second one.
ReadsWindow(r) ==
    LET seconds == WindowSeconds(read_at[r])
    IN  /\ pc[r] = "window"
        /\ entry[r].state # "half_open"
        /\ Commit(r, AfterWindow(entry[r], read_at[r],
                                 TotalOf(successes, seconds),
                                 TotalOf(failures, seconds)))

ReadsWindowHalfOpen(r) ==
    /\ pc[r] = "window"
    /\ entry[r].state = "half_open"
    /\ pc' = [pc EXCEPT ![r] = "probe"]
    /\ UNCHANGED <<clock, redis, sending, entry, read_at, broken, recorded, history>>

ReadsProbe(r) ==
    LET seconds == ProbeSeconds(entry[r], read_at[r])
    IN  /\ pc[r] = "probe"
        /\ Commit(r, AfterProbe(entry[r], read_at[r],
                                TotalOf(successes, seconds),
                                TotalOf(failures, seconds)))

\* A Redis call raises: the new snapshot, a local dict, is lost.
RefreshFails(r) ==
    /\ pc[r] # "idle"
    /\ broken < MaxFailures
    /\ broken' = broken + 1
    /\ pc' = [pc EXCEPT ![r] = "idle"]
    /\ UNCHANGED <<clock, redis, sending, entry, read_at, recorded, history>>

\* Time passes and Redis drops what has expired.  A refresh ends, or fails, in
\* time.
TimePasses ==
    LET dropped(s) == expire_at[s] # Unset /\ expire_at[s] <= clock + 1
        kept(counts) == [s \in Second |-> IF dropped(s) THEN 0 ELSE counts[s]]
    IN  /\ clock < MaxClock
        /\ \A r \in Replica : pc[r] # "idle" => Clock(r) - read_at[r] < MaxRefresh
        /\ clock' = clock + 1
        /\ successes' = kept(successes)
        /\ failures' = kept(failures)
        /\ expire_at' = [s \in Second |-> IF dropped(s) THEN Unset ELSE expire_at[s]]
        /\ probe' = IF probe <= clock + 1 THEN Unset ELSE probe
        /\ UNCHANGED <<sending, refresh, recorded, history>>

RefreshStep(r) ==
    \/ RefreshBegins(r) \/ Scans(r)
    \/ ReadsWindow(r) \/ ReadsWindowHalfOpen(r) \/ ReadsProbe(r)

BreakerNext ==
    \/ \E t \in Task, r \in Replica, kind \in Kind : Records(t, r, kind)
    \/ \E t \in Task : Increments(t) \/ Expires(t) \/ BreaksOff(t)
    \/ \E r \in Reader : QueryState(r) \/ RefreshStep(r) \/ RefreshFails(r)
    \/ TryProbe \/ TimePasses

BreakerSpec == BreakerInit /\ [][BreakerNext]_breaker_vars

\* RefreshTask runs one refresh after the other; Redis answers from some time on.
BreakerFairSpec ==
    /\ BreakerSpec
    /\ WF_breaker_vars(TimePasses)
    /\ \A r \in Reader : WF_breaker_vars(RefreshStep(r))

-----------------------------------------------------------------------------
BreakerTypeOK ==
    /\ clock \in Window .. MaxClock
    /\ successes \in [Second -> Nat]
    /\ failures \in [Second -> Nat]
    /\ expire_at \in [Second -> Nat \cup {Unset}]
    /\ probe \in Nat \cup {Unset}
    /\ sending \in [Task -> Sample \cup {NoSample}]
    /\ entry \in [Replica -> Entry \cup {NoEntry}]
    /\ pc \in [Replica -> {"idle", "scan", "window", "probe"}]
    /\ read_at \in [Replica -> Nat]
    /\ broken \in 0 .. MaxFailures
    /\ recorded \in 0 .. MaxSamples
    /\ log \in [Kind -> [Second -> Nat]]
    /\ writers \in [Second -> SUBSET Replica]
    /\ fresh \in [Replica -> [Kind -> Nat]]
    /\ \A r \in Replica :
          /\ pc[r] = "probe" => entry[r].state = "half_open"
          /\ entry[r].state = "half_open" =>
                entry[r].half_opened_at - entry[r].opened_at >= OpenDuration

State(r) == entry[r].state

\* The state diagram: OPEN is left for HALF_OPEN only, and only when the open
\* duration is over; HALF_OPEN is reached from OPEN only.
StateDiagram ==
    [][\A r \in Replica :
        State(r)' # State(r) =>
            /\ State(r) = "open" =>
                  /\ State(r)' = "half_open"
                  /\ Clock(r) - entry[r].opened_at >= OpenDuration
            /\ State(r)' = "half_open" => State(r) = "open"]_breaker_vars

\* A refresh of a CLOSED breaker ends, and what explains whether it opened it.
Decides(r) == pc[r] = "window" /\ State(r) = "closed" /\ pc'[r] = "idle" /\ broken' = broken
Explains(r, succ, fail) == State(r)' = "open" <=> Trips(succ + fail, fail)
SecondsOf(r) == {Epoch(t) : t \in read_at[r] - Window .. read_at[r]}

\* docs/system/modules/breaker.md: the hashes live "long enough that aggregation
\* always sees the full window even with clock jitter".  The decision counts what
\* all replicas recorded under the seconds of the window, no more and no less.
SeesFullWindow ==
    [][\A r \in Replica :
        Decides(r) => Explains(r, TotalOf(log["success"], SecondsOf(r)),
                                  TotalOf(log["failure"], SecondsOf(r)))]_breaker_vars

\* It is so until p's clock is ahead of r's by more than the lifetime of a hash
\* leaves beside the window, the second and the refresh.
Ahead(p, r) == Offset[p] - Offset[r] > SampleTtl - Window - TicksPerSecond - MaxRefresh

\* Whatever the clocks: the decision counts nothing that is not recorded under a
\* second of the window, and all that is, except under seconds to which a replica
\* too far ahead has written, whose hash may have gone.  No other hash goes too
\* early: not one that another clock created, not one whose pipeline was slow or
\* broke off before its EXPIRE.
DecidesOnFullWindow ==
    [][\A r \in Replica :
        Decides(r) =>
            LET kept == {s \in SecondsOf(r) : \A p \in writers[s] : ~Ahead(p, r)}
            IN  \E succ \in TotalOf(log["success"], kept)
                              .. TotalOf(log["success"], SecondsOf(r)),
                   fail \in TotalOf(log["failure"], kept)
                              .. TotalOf(log["failure"], SecondsOf(r)) :
                    Explains(r, succ, fail)]_breaker_vars

\* An OPEN breaker admits a probe at last: a vendor that recovered is not
\* excluded for good because nobody sends it requests.
OpenEnds ==
    \A r \in Reader :
        (State(r) = "open" /\ clock + OpenDuration <= MaxClock) ~> (State(r) # "open")

\* breaker.py and docs/system/modules/breaker.md: HALF_OPEN counts samples
\* "strictly after" the transition; what is older does not decide.
ProbeDecides ==
    [][\A r \in Replica :
        State(r) = "half_open" =>
            /\ State(r)' = "closed" => fresh[r]["success"] > 0
            /\ State(r)' = "open" => fresh[r]["failure"] > 0]_breaker_vars
=============================================================================
