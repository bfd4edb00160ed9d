# A verification development for librouter

librouter is an HTTP gateway in front of several LLM vendors. Replicas of one
asyncio process each share Redis (rate limits, health counters, breaker samples,
cached configuration) and Postgres (callers, configuration, one row per attempt).
This directory holds TLA+ models of the parts whose correctness depends on the
order of events, their TLC configurations, and machine-checked proofs. Sources are
named relative to `src/`.

Contents: [the system](#1-the-system), [the modules](#2-the-modules),
[runs and bounds](#3-the-runs), [disagreements](#4-where-code-and-documentation-disagree),
[fairness](#5-fairness), [proofs](#6-proofs), [what is left out](#7-what-is-not-modelled),
[plan](#8-plan).

## 1. The system

| Component | State | Operations | What is hard |
|---|---|---|---|
| Router `gateway/router.py` | locals of one request: deadline, `exclude`, `tried`, `attempts` | `route` | failover against a deadline, with awaits of Redis and vendors; the weight cache changes meanwhile |
| Accounting queue `gateway/accounting.py` | bounded deque, wakeup and stop events, drain task | `enqueue`, `start`, `stop`, `_drain_loop`, `_flush` | handlers, drain task and `stop()` interleave; an INSERT may fail or lose its answer |
| Token bucket `gateway/ratelimit.py`, `gateway/redis_state.py` | one Redis hash per candidate | `try_acquire`, `clamp`, `remaining` | fleet-wide, with each replica's own clock, and a key that expires |
| Circuit breaker `gateway/breaker.py` | per-second hashes in Redis, a snapshot per replica | `record_*`, `refresh_snapshot`, `state`, `try_probe` | a refresh has several awaits, a sample several commands; clocks of different hosts; expiring hashes |
| Weight engine `gateway/routing/weights.py` | cache of signals | `update_cache`, `pick` | proportional draw under exclusion, rounding |
| Refresh task `gateway/routing/refresh.py` | loop, failure count | `tick`, `start`, `stop` | outages, backoff, prompt shutdown |
| Observer `gateway/routing/observe.py` | per-second hashes in Redis | `record_*`, `aggregate` | pipelines that are not transactions; a candidate shut out by its samples gets no new ones |
| Caller resolver `gateway/auth.py` | bounded LRU cache with a ttl | `resolve_bearer` | lookups that overlap with each other and with a revocation |
| Config store and holder `gateway/config_store.py`, `gateway/config/__init__.py` | three tables, a cached copy in Redis, a holder per replica | `write`, `load_or_refresh`, `reload` | set-after-delete, partial writes, concurrent reloads |
| Lifespan and handlers `gateway/app.py` | one instance of everything above | boot, `chat_completions`, shutdown | the daily cap looks at flushed rows; a step of the shutdown may raise |
| Database `gateway/db.py`, `migrations/` | Postgres pool, schema | `write_batch`, queries, `run_migrations` | no command timeout; several processes migrate while others write |
| Operator scripts `scripts/` | none of their own | `apply_migrations`, `seed_config`, `seed_callers`, chained by `setup.sh` | killed half-way, started twice |
| Vendor adapters `gateway/providers/`, `gateway/errors.py` | none | `chat` | three SDKs' errors to one set of classes, and those to a status |

How they interact: `chat_completions` resolves the caller, compares the rows of
today with the caller's cap, calls `route`, and enqueues the attempts of a
successful result. `route` loops: the weight engine picks a candidate from its
cache (no I/O), the token bucket admits it (one Lua script in Redis), the adapter
calls the vendor, the observer records the outcome. Independently, the refresh task
reads observer, bucket and breaker for every candidate once per interval and
replaces the weight engine's cache in one assignment; the accounting task inserts
what was enqueued. The lifespan starts and stops both tasks.

asyncio switches coroutines at an await only. Therefore one action of these
models is the code between two awaits, with the one statement, script or command
it waits for when the effect of that command and the resumption need not be told
apart. Several replicas meet only in Redis and Postgres, each command of which is
atomic.

What makes the parts correct:

- Router: no vendor twice, each failover round makes progress, the error says what
  happened, the deadline is kept up to a known overrun.
- Accounting: bounded memory, every record settled or counted exactly, no lost wakeup,
  nothing left by `stop()`.
- Token bucket: over any window at most cap plus refill.
- Breaker: only the documented transitions, each decided on the samples it is about.
- Weights and refresh: only eligible candidates, in proportion; a cache of one tick,
  of bounded age.
- Observer: an aggregate misses no sample of its window, a torn sample never makes a
  candidate look faster, hashes expire, an exclusion ends.
- Caller resolver: bounded, one entry per key, a revocation in effect after the ttl.
- Config: readers catch up after a write, reloads never go backwards.
- Gateway: spend beyond the cap bounded, the status blames who failed, answered
  requests' records settled.
- Migrations: nobody sees a schema in between, no run breaks another, no replica's row
  is refused for its columns, a setup that succeeds leaves a bootable database.

## 2. The modules

| Module | Models | State | Actions and the code they stand for |
|---|---|---|---|
| `Router` | `Router.route`, one call | `route`'s locals, the clock, which candidates the engine can give | `Begin`, `LoopOutOfBudget`, `LoopNothingToPick`, `LoopPicks`: the head of the `while`, which has no await. `BucketEmpty`, `BucketGrants`, `BucketGrantsNoVendor`: after the await of the bucket. `VendorFails`, `VendorAnswers`: after the await of the adapter. `Recorded…`: after the await of the observer. `Breaks`: a Redis call raises. `Refresh`, `Tick`: what others do meanwhile |
| `AttemptLog` | the promise of the accounting path | submitted, pending, durable, counted | `Submit`, `Settle` |
| `Accounting` | `AccountingQueue` with `Database.write_batch` | deque, wakeup event, stop flag, counters, batch per flusher, table | `Enqueue`, `Start`, `Stop`; the loop's `LoopBegins`, `LoopWakes`, `LoopWrites`, `LoopWritesLast`; `stop()`'s `StopJoins`, `StopWrites`. An INSERT commits, is refused, or commits with its answer lost |
| `TokenBucket` | `RATELIMIT_LUA`, `CLAMP_LUA` through `RedisTokenBucket` | the hash and its expiry, and a window of observation | `TryAcquire`, `Remaining`, `Clamp`, `Tick` |
| `Breaker` | `BreakerSet`, one candidate | sample hashes and probe lock in Redis, the sample of each pipeline under way, snapshot entry and refresh progress per replica | `Records` (the clock is read and the pipeline sent), `Increments` (HINCRBY), `Expires` (EXPIRE), `BreaksOff`; `TryProbe`, `QueryState`; a refresh is `RefreshBegins`, `Scans`, `ReadsWindow` or `ReadsWindowHalfOpen` and `ReadsProbe`, or `RefreshFails`; `TimePasses` expires keys |
| `Weights` | `build_signals`, `WeightEngine.update_cache` and `pick` | the cache | `UpdateCache`; `Pick` is an operator, checked for every request and draw in each state |
| `Refresh` | `RefreshTask` | loop position, failures, wait, age of each cached signal | `LoopBegins`, `RefreshesSnapshot`, `Reads`, `TickSucceeds`, `TickFails`, `BackoffOverflows`, `WaitEnds`, `StopBegins`, `StopEnds`, `RedisGoesDown`, `RedisComesBack`, `TimePasses` |
| `Observer` | `Observer`, with the refresh tick and the pick that depend on it | the hashes of one candidate and their expiry; per attempt the commands of its pipeline not yet executed; per replica the progress of its aggregate and whether its cache gives the candidate a weight | `Attempts` (a pick), `Records`, `Executes` (one command of a pipeline), `Breaks`; `AggregateBegins` (the clock is read), `Reads` (one HMGET), `Publishes`, `TickFails`; `Tick` |
| `CallerCache` | `CallerResolver` | the ordered cache, the locals of each lookup, the table | `Hits`, `Misses`, `RowIsRead`, `LookupFails`, `Stores`, `RowChanges` |
| `ConfigStore` | `ConfigStore`, `ConfigHolder` | tables, cached value, lock and holder per replica, locals per load | `WriteBegins`, `Upserts`, `Invalidates`, `WriteFails`; `CallsUnforced`, `CallsForced`, `Locks`, `Selects`, `FindsNoRow`, `LoadFails`, `Stores`; `CacheIsSpoiled`: the value is evicted, or is no longer a `Config` |
| `Vendors` | the `except` clauses and the reading of a response in the three adapters, `errors.py`, `_http_status_for` | none | operators: `OpenAIError`, `AnthropicError`, `GoogleError` give the class of each response, `RejectionStatus` and `GaveUpStatus` the HTTP status |
| `Gateway` | `lifespan`, `chat_completions` | where the process is; of each request the stage, the outcome that the observer is being told of, the failures, the reply and the cost; today's sum | `Boots`; `Admits`, `Refuses`, `TurnsAway`; the router's `Responds` (after the await of the adapter) or `Slips`; after the await of the observer `FailsOver`, `IsRejected`, `Answers`; `GivesUp`; `Breaks`: a Redis call raises, the bucket's or the observer's; `Commits`, `Loses`, `NewDay`, `RefreshRaises`, the steps of the shutdown, `Killed` |
| `Migrations` | `run_migrations` with the files of `migrations/`, the scripts and `setup.sh`, a replica's boot and inserts | the committed schema, what each transaction has created and locked, the advisory lock, whether configuration is in tables and cache | `Starts`, `Locks`, `Looks`, `Creates`, `StatementEnds`, `Fails`; `SeedsConfig` (the last upsert) and `Invalidates` (the DEL), `SeedsCallers`, `LacksCallers`; `Boots`, `Inserts`, `InsertEnds`, `Stops`; `Expires` |

`MCRouter`, `MCBreaker`, `MCWeights`, `MCObserver`, `MCCallerCache` and `MCConfigStore` give the
constants values that a `.cfg` cannot write. `Sums` defines a sum over a set as a number of units,
without recursion; `Breaker`, `Weights` and `Observer` add with it.

| Proofs about | are in |
|---|---|
| `Accounting`, `Router`, `ConfigStore`, `Gateway`, `Migrations` | `AccountingProofs`, `RouterProofs`, `ConfigStoreProofs`, `GatewayProofs`, `MigrationsProofs` |
| `CallerCache` and `Refresh`, the two caches of a replica | `CachesProofs` |
| `TokenBucket` and `Breaker`, the two guards of a candidate in Redis | `GuardsProofs` |
| `Observer` and `Weights`, from samples to a draw | `HealthProofs` |

A module that extends two components proves theorems about each, not about the two together. `Refresh`,
`Breaker` and `Weights` therefore carry their name in what every module defines (`BreakerSpec`,
`BreakerTypeOK`), and the clock of the first two is `clock`.

Three modules compose. `Gateway` takes what `Router`, `Accounting` and `Refresh` show
of a request, the queue and the task (a request ends; what is enqueued is settled or
lost; the task may end with an exception), puts them in the order of
`gateway/app.py`, and takes the vendors' answers through the adapters of `Vendors`.
`Observer` closes the loop over router, observer, refresh task and weight engine.
`Migrations` puts database, scripts and a replica's boot side by side. `Accounting` is shown to implement `AttemptLog` with `pending`
mapped to what is in the deque or in a running batch, `durable` to the table and
`counted` to `dropped_total`.

What the models abstract: an attempt record is its number; a key is a model value
and a caller row a verdict; the contents of a configuration row are the number of
the write that wrote it; signals in `Refresh` are the time their tick began;
weights and levels are exact integers in a fixed unit; a vendor's response is a status
class or what came instead of one (`no_status` is an API error without a status, or with one below 400); the indexes of `requests`, and the three tables of
the configuration, are one schema object each. A definition whose comment
says "Mutant of" is a variant of the next one with a plausible mistake in it: with
it in place of the original, a property of a run fails. Nothing else uses it.

## 3. The runs

Each run is a `.cfg` for a module: `tlc -workers 2 -config Router.cfg MCRouter`.
All end within five minutes. Deadlock is not checked where the modelled part may
stop, as every request, process and bounded clock does; `TokenBucket` never stops,
for a window of observation may begin at any time.

| Run | Question | Bounds, and why they are enough |
|---|---|---|
| `accounting` | Can the deque, the events and the two flushers lose, repeat, reorder or forget a record? Does the queue implement `AttemptLog`, settle everything at last, and let `stop()` return? | Capacity 3, flush size 2, 5 records: the deque overflows during an INSERT, a batch is larger than the flush size, and records are left for `stop()` |
| `router` | Are errors, attempts and the deadline right in every order of failures, skips, delays and cache changes? | Three candidates, one without adapter, in two tiers that overlap; a budget of 6 with Redis delays up to 2: candidates and budget run out in either order |
| `token_bucket` | What can a window of time admit, whatever the window, also after a clamp; does expiry give anything away? | Caps 2 and 4, readings that disagree by 1, 5 scripts per window: the bucket empties, refills, expires (Ttl = Minute, the least the assumption allows) and is clamped below and above its level |
| `breaker` | Are transitions legal? What does a decision count when clocks differ? Does OPEN end? | Three replicas record samples: one whose refreshes are followed, one that is ahead of it by the most that a lifetime of four windows tolerates, and one further ahead (`Ahead`). A window of one second, two samples of which one trips, so that one lost or one too many decides; a failing refresh; time for trip, probe and re-opening, and for the hash of a sample to expire before its second has left the window of the replica that is behind. A pipeline may wait for any time between its commands, and break off after either. A tick is a second: the theorems of section 6 are about any number of ticks to a second. A refresh only reads Redis, so one replica's refreshes are all that matters to it (`Reader`) |
| `weights` | Is a pick eligible and proportional? | Two tiers that share a candidate, one candidate listed twice, one without adapter; caps for requests and for tokens that differ, so that either budget may be the smaller one or spent; all signal combinations at one latency; a draw beyond the sum stands for rounding |
| `observer` | Is an aggregate, read command by command while samples arrive and expire, what its window holds? Does an exclusion end? | Two replicas whose clocks differ by one second, a window of one, two attempts one after the other on either replica, five seconds: a hash is written by both replicas, read between any two commands, and expires; two failures in a row renew the exclusion. `ExclusionEnds` fails with a bound one second smaller |
| `refresh` | Is the cache one tick, its age bounded after any outage the task survives, and the stop prompt? | Backoff 1, 2, 3 (the cap), ticks of up to 2 and outages of any length up to 16, a sixth failure in a row ending the task |
| `caller_cache` | Do overlapping lookups and a revocation keep the cache bounded and fresh? | Three keys in a cache of two, two requests, a ttl of 2 and one change, with time for a lookup of either side of it to expire. The keys and the requests are interchangeable, hence symmetry |
| `config_store` | Does the lock protect a cold cache, do concurrent reloads keep the order, and does the cached value catch up although no lock spans replicas? | Two replicas, two coroutines on one of them or on both, a write that may fail half-way on tables that are empty or filled, all interleavings of SELECT, SETEX, DEL, expiry and eviction. Replicas and coroutines are interchangeable |
| `gateway` | By how much can a caller exceed the daily cap; does the status blame who failed; are answered requests settled? | Three requests, every vendor and response in any order, with the observer's answer or its failure between a response and what follows, a cap of 2, answers up to 2 tokens, midnight once, SIGKILL and a refresh task that may have ended at any time |
| `migrations` | Is the schema whole in every moment, and does no process break another? | Three shells, each running `setup.sh` or one script; a database of any earlier release, seeded or not, cached or not; one replica. Two shells contend for the lock while a third waits or seeds |
| `refresh_outage` | `TaskSurvives` fails (section 4) | the exponent limit is 4 instead of 1024 |

Each module also states `TypeOK` (`BreakerTypeOK`, `RefreshTypeOK`, `WeightTypeOK`), the ranges
of its variables. It is in the runs of `Router` and `Accounting`; in the others it says no more
than the declarations and no run spends its time on it. For each of the eleven a theorem proves it (`TypeCorrect`, `RefreshTypes`,
`BreakerTypes`, `ObserverTypes`, `WeightTypes`).

Named bounds: `MaxTime`, `MaxClock`, `MaxRecords`, `MaxSecond`, `MaxSamples`, `MaxFailures`,
`MaxChanges`, `MaxWrites`, `MaxMidnights` and `MaxCalls` only cut
behaviours off; `MaxRedisDelay`, `MaxRefresh`, `MaxTick`, `MaxPipeline`, `MaxLoad`, `MaxAttempt`,
`Spread` and `Lead` are assumptions on Redis, on Postgres, on vendors or on clocks, and the
properties that depend on one name it, except that `DecidesOnFullWindow` holds for every `Lead`. Two modules relate them to the code's own times, since a sample
hash lives for four windows: in `Breaker` a refresh ends before the hashes of its window
expire (`ClockAssumption`), in `Observer` so do a tick and a pipeline (`KeyAssumption`: with
`window_s` 60, no tick for three minutes or no answer to a pipeline for four would break it).

## 4. Where code and documentation disagree

One disagreement has a run of its own:

- **A long outage ends the refresh task** (`TaskSurvives`, run `refresh_outage`).
  `base_interval_s * (2 ** (consecutive_failures - 1))` raises OverflowError in the
  except clause once the power exceeds a float, after some six hours without
  Redis. `docs/system/modules/routing.md:182` says an outage does not kill the task.

The others are stated as properties in the modules, next to those that hold, with
the sentence they come from. None of them is in a run; to see one fail, put it
alone into the configuration named here:

| Property, module | What the code does | To see it |
|---|---|---|
| `MetricCountsDrops`, Accounting | a record dropped by a full deque is in `dropped_total` but not in the metric, against `docs/system/architecture.md:158` | `Accounting.cfg` |
| `DeadlineKept`, Router | `remaining` is read before the await of the bucket and nothing bounds Redis, so a request ends after `total_budget_s` ("wall-clock deadline", `docs/system/modules/router.md:31`); `OverrunBounded` is what holds | `Router.cfg` |
| `NoOverage`, TokenBucket | an older `now_ms` is written back and the time refilled twice, against `docs/system/modules/ratelimit.md:172` | `TokenBucket.cfg`, `Spread = 2` |
| `RemainingConsumesNothing`, TokenBucket | `remaining()` takes a request, against its docstring | `TokenBucket.cfg` |
| `SeesFullWindow`, Breaker | a sample is stored under the second of the recording host's `time.monotonic()`, which no other host's is related to. A replica whose clock is behind reaches that second later, when the hash may have expired, and misses samples of its window, against `docs/system/modules/breaker.md:7` ("always sees the full window even with clock jitter"). Jitter of up to three windows less one second and a refresh is tolerated (`JitterIsTolerated`; `Replica <- MCTwoReplicas` in the same configuration), more is not; `DecidesOnFullWindow` is what holds then | `Breaker.cfg` |
| `ProbeDecides`, Breaker | samples of the second of the half-open transition, older than it, decide the probe; the comment at `gateway/breaker.py:134` says "strictly after" | `Breaker.cfg` |
| `ScoresInUnit`, Weights | a candidate in two tiers takes its limits from the first in the engine, from the last in the bucket; the budget score can exceed 1, against `docs/system/architecture.md:120` | `Weights.cfg`, `Config <- MCDisagree` |
| `ConfigIsWhole`, ConfigStore | `write` upserts in separate transactions, its docstring says "atomically" | `ConfigStore.cfg`, `Contents <- MCContents` |
| `NextLoadIsFresh`, ConfigStore | a SETEX after the DEL brings the old configuration back for one ttl, against the comment in `write` | the same |
| `WriteReplacesConfig`, ConfigStore | rows the new configuration lacks stay, against `tests/test_config_store.py:143` | the same |
| `ReplicasPickUp`, ConfigStore | only a SIGHUP reloads, against `gateway/config_store.py:5` | the same |
| `OvershootIsOneRequest`, Gateway | the cap is compared with flushed rows: several requests can be admitted above it, against `docs/system/data-plane.md:70`; `SpendBounded` is what holds | `Gateway.cfg` |
| `RejectionIsReal`, Gateway | an API error without a status, or with one below 400, becomes `BadRequest` (`gateway/providers/google.py:81`, `gateway/providers/openai.py:82`): there is no failover, and the caller gets a 400 that reads "request rejected by upstream provider", against `docs/system/modules/observability.md:171` ("this vendor rejected this call"). `BlameIsEarned` allows for it | `Gateway.cfg` |
| `EveryAttemptIsEnqueued`, Gateway | attempts are enqueued only when `route` returned; those of a request that fails are discarded, the paid one too after which the observer's call raises, against `docs/system/architecture.md:195` ("every attempt") | `Gateway.cfg` |
| `ContractIsKept`, Vendors | reading `resp.choices[0]` (`gateway/providers/openai.py:89`) and what the SDKs raise beyond their own classes is outside every `except`, against `docs/system/modules/providers.md:714`; the caller gets a 500 and there is no failover | `Gateway.cfg` |
| `ShutdownDrains`, Gateway | `refresh.stop()` raises what ended its task and `accounting.stop()` never runs, against `docs/system/modules/app.md:111` | `Gateway.cfg` |

One has no property, for there is no code to model: nothing in `src/gateway` calls
`BreakerSet.record_success`, `record_failure` or `try_probe`, while
`docs/system/architecture.md:152` says that "per-attempt failures fill breaker samples" and
that one replica wins the probe lock. In the running gateway every breaker stays closed; it
is the observer's error rate that takes a failing candidate's weight, and `ExclusionEnds`
that bounds for how long.

Each property in the table fails because the code and a sentence of its documentation differ; which of
the two should change is left to their authors.

## 5. Fairness

- `Accounting`: weak fairness of the start, of the drain loop and of `stop()`. The event
  loop runs every ready coroutine, and the wait of the loop has a timeout. That an
  INSERT ends is an assumption about Postgres: the pool sets no command timeout.
- `Router`: weak fairness of the request's steps. No await lasts for ever: the
  adapters' calls have a timeout, Redis answers within `MaxRedisDelay` or raises.
- `Breaker`: weak fairness of time and of the refresh steps; the refresh task calls
  `refresh_snapshot` in each tick, and failures are finitely many.
- `Gateway`: weak fairness of the flush and of the two awaits of the shutdown, as
  `Accounting` shows for its own and `Refresh` (`StopIsPrompt`) for the other. Requests,
  signals and failures have none: a client, an operator or an outage owes nothing.

The other specifications state no fairness and check safety only. `StalenessBounded`,
`StopIsPrompt` and `ExclusionEnds` are bounds on time, which say more than that something happens
at last; time stands still in those models only while the code has something to
do at once. In `Migrations` a shell that hangs keeps its lock and every other one waits:
nothing in the code ends that, so it has no liveness to state.

## 6. Proofs

`tlapm XProofs.tla` checks every step of the theorems in that module, for all values of the
constants that the `ASSUME`s of the modelling module admit. Each of these modules has the same parts: a state
predicate that is inductive, a lemma that each step preserves it with one case per action, and a
theorem per property. That predicate is called `IInv` (`RefreshInv`, `BreakerInv` and `Cached` where
two modules share a file), except in `AccountingProofs` and `RouterProofs`, where each property adds
its own strengthening to type correctness. What follows
names the parts of the predicates and why the property does not hold up alone.

**Accounting**, from `Capacity` and `FlushSize` being positive and `MaxRecords` a natural
number:

- `TypeCorrect`: `TypeOK`, inductive as it stands; it contains that a batch is non-empty
  exactly while its flusher writes.
- `BufferIsBounded`: the deque keeps `BufferBounded`, because a full one loses its head first.
- `WakeupNotLost`: `NoLostWakeup` speaks of the sleeping loop only. `Announced` extends it to the
  places from which the loop goes to sleep without looking at the deque again.
- `RowsAreConserved`: `RowsConserved` is inductive with `TypeOK`; each action moves lengths from one
  term of the sum to another (`Balance`).
- `StopHasDrained`: `Drained` says that no record is owed beyond those enqueued, and that once
  `stop()` is past its await of the task, the task has ended and the deque holds only
  records enqueued after that end.
- `RowsStayInOrder`: table, running batches and deque, read in this order, are one increasing
  sequence of numbers, none beyond the last record enqueued. The lemmas `JoinedInOrder` and
  `PiecesInOrder` put two increasing sequences together and take one apart.
- `WriterImplementsLog`: `ImplementsAttemptLog`, step by step. The actions that only move
  records between deque, batch and events stutter; `Enqueue` submits a record, and settles one
  as counted when the deque is full; the end of an INSERT settles its batch as a whole. Order
  makes the sequences sets of distinct numbers, so that what a batch loses is what `pending` loses.

**Router**, from `TierAssumption` and `DurationAssumption`:

- `TypeCorrect`: needs `Holds`, that the coroutine at an await holds a candidate of a known
  tier that it has not given up. `Core` is both.
- `RoundsExclude`: each round adds the candidate it holds to `exclude`, which is new by `Holds`.
  A round more than the tier has candidates is impossible.
- `CandidatesAreDistinct`: `Excluded` says that the candidates in `tried` and in `attempts`
  are excluded already, but for the one at hand.
- `CallsFitBudget`, `OverrunIsBounded`: `Timing` bounds the clock at each await by `deadline`,
  the time since the await began and what it may still last.
- `ErrorsTellTheTruth`: `Told` adds that the attempt being recorded is of the candidate at hand. With
  `Excluded` that candidate is in neither list yet, so what is appended comes last in both.
- `OutcomesAreEarned`: `Deciding` says of every place of the loop what the property says of the
  end: all attempts so far may be retried, and every excluded candidate is in `tried`.

**TokenBucket**, from `Rpm`, `Tpm`, `Spread` natural numbers and `Ttl >= Minute`: `OverageIsBounded` needs
`Covered`, that what a window was granted and what a caller could take now are together within
the bound. That does not survive the expiry of the key, which fills the bucket. `Paid` does: what was granted
was within the bound when the key was last used, a `Ttl` ago, and `Ttl >= Minute` of refill pays for a full
bucket. `Timely` says when that was, and how far the last reading of the time may be ahead of it. The
same `Timely` gives `NothingForgotten`, an action property: the expired bucket was full.

**Refresh**, from `Base <= MaxBackoff`, both positive, and a non-empty set of candidates:
`CacheIsWhole` is inductive, for update_cache takes the whole tick at once. `ViewIsFresh` needs to
know when the next tick begins: `Paced` bounds a wait and a tick, `AfterSuccess` says that while nothing
failed the next tick begins an interval after the last one ended, `AfterFailure` that after a
failure it begins within `MaxBackoff` of the moment Redis came back. `ShutdownIsPrompt` needs `Stops`: the tick
that stop() waits for began before it was called. The backoff `Base * 2^(failures - 1)` is never
computed in the proof: it is an integer, and capped.

**CallerCache**, from `Ttl` and `MaxSize` positive: `SizeBounded` needs `OneEntry`, one entry for a key,
since storing replaces or evicts. `ChangeTakesEffect` needs that an entry stamped after the last
change of its row is true (`EntriesTrue`), and hence that an answer which waits to be stored, with the
time its request began, is so as well (`AnswersTrue`): that is the window the overlapping lookups race in.

**ConfigStore**, from `ContentsAssumption`, `BoundAssumption` and `NameAssumption` (the marks for "no task" and "no
replica" are not among the tasks and replicas):

- `Locking` is asyncio.Lock: a task inside is the one its replica's lock names. Everything else
  speaks of tasks inside and rests on it.
- `OneRefill`: `Filling`, an unforced load past its second GET is the first one since the cache lost its
  value; without the lock two could be.
- `StaleValueLeaves`: `Aging`. A load whose rows are no longer those of the tables took the lock
  before the last change, so it stores within `MaxLoad` of that change, and what it stores lives for `Ttl`.
- `HoldersMoveForward`: an action property. `Holding` says that a forced load has read nothing older
  than the holder it will replace: rows only grow (`Bounded`), and the lock keeps a
  second reload of the replica out between the read and the assignment.

**Gateway**, from `Request` finite, `Cap` and `MaxTokens` positive: the tokens of a set of answers are
counted as a set of pairs, whose cardinality the library's theorems on finite sets add up
(`CostSplits`). `SpendBounded` speaks of what is unsettled now and of `exposed`, the most
requests unsettled at one admission, and is inductive with `Counted`: a request is paid for once. A midnight
with answers in the queue is the case that decides the form of the bound. `BlamesTheRightOne` needs `Earned`:
while the observer is told of a failure, the class of that failure decides what `seen` can be, which is what
connects the reply, an await later, with the response. The lemmas on the classes are about every
adapter and response of `Vendors`. `Breaks` in that await is a 500, which the property admits for every request.

**Migrations**, from `OperatorAssumption` (the mark for "nobody" is no operator): the advisory lock is
held exactly while a script migrates (`OneMigrates`), which excludes a clash (`NoMigrationClashes`). The transaction
sees what its statements so far were to create (`Progress`), so that what it commits is complete
(`SchemaStaysWhole`). Configuration exists, and a replica serves, only where the tables of the last migration are
(`ConfigHasTables`), so rows fit (`RowsAlwaysFit`). `SetupSteps` says what each
place in `setup.sh` has behind it (`SetupHasBootstrapped`).

**Breaker**, from `ClockAssumption` and `BoundAssumption`, for every fleet, window and threshold. `BreakerInv`
is the types and `Dated`: a refresh has read its own clock, and a half-open breaker was open for
`open_duration_s` then. Nothing is assumed of one clock's relation to another.

- `BreakersFollowTheDiagram`: an action property. Only the end of a refresh changes a state, and what it makes of
  an entry is one of few cases (`NextEntry`); `Dated` is what is known of the entry it began with.
- `BreakersDecideOnFullWindows` needs `Kept`, which has four parts. `Stamped`: a sample under way is of a
  second that its replica had begun. `Lasting`: an expiry that is set was set for a replica that wrote to the hash, so
  the hash lasts, by that replica's clock, until `SampleTtl` after its second began; a hash whose pipelines all
  broke off before their EXPIRE lasts for ever. `Counted`: a hash never holds more
  than was recorded under its second, and all of it as long as a replica may read it for a window, unless a
  replica that is `Ahead` of the reader wrote to it. `Prompt`: a refresh under way is `MaxRefresh` old at most.
  The seconds of the window are then the hashes read (`EpochFacts`: division rounds down and keeps the order of times).
- `JitterIsTolerated`: when no replica is ahead of another by more than `Ahead` allows, no hash is exempt, and the
  first theorem becomes the documented claim, `SeesFullWindow`. Its hypothesis is about deployments, not code: hosts
  that booted days apart do not meet it.

**Observer**, from all its assumptions, for every fleet, window and number of attempts. What makes it hard is
that neither a pipeline nor an aggregate is atomic, and that hashes expire under both.

- `Pacing` bounds attempts, pipelines and ticks; `Alive` says that until `Dies(s)` nothing of the hash of `s` is
  lost, where a replica whose clock is behind may have been the last to set its expiry. `KeyAssumption` makes
  every hash outlive the read of it (`ReadInTime`).
- `AggregatesAreBracketed`: `Bracketed` splits the window at the next second to read. What was read so far is
  at most what was ever recorded in the seconds before it, and with all that is recorded
  from there on at least what was due. The sums are cardinalities (`Sums`), so the library's theorems
  on finite sets move a second from one side to the other (`TotalFirst`, `TotalLast`).
- `MeansAreNotFlattered`: `NotFlattered` gives every hash the counts that its torn pipelines still owe. Its sum is
  large enough even with those, so it is in every state in between; the same for what an aggregate took of it.
- `HashesDoExpire`: the property is inductive once `Alive` and the form of what is left of a pipeline are known.
- `ExclusionsEnd`: `Closing`. While no replica gives a weight no attempt begins, so the last outcome is
  recorded under a second of `LastSecond` at most; the replica whose clock is ahead by `Spread` leaves that second
  behind first, reads nothing, and an idle candidate has a weight (`IdleHasWeight`).

**Weights**, from `ConfigAssumption` and `SignalAssumption`, for every configuration, exclusion and all signals:

- `PicksAreSound`: whatever place the loop stops at, it is one of the eligible ones. That it has
  both budgets left is arithmetic: the smaller fraction is a factor of the product (`BudgetFacts`), and only positive weights take part.
  A candidate's first and last entry exist because places are finitely many.
- `PicksAreFair`: of the draws above the weights of the earlier places and up to its own, each has a place for
  its first hit (`SliceHits`), and every draw within the total falls between two such bounds (`HitSlices`).
  So draws and units of weight are in bijection, and there are as many of the one as of the other (`FairDraw`).

`BufferBounded`, `EachRoundExcludes` and `CallFitsBudget` are proved and therefore in no run. Every
invariant and every safety property of the passing runs is proved.

What stays with TLC:

- Liveness (`EventuallySettled`, `ShutdownEnds`, `Terminates`, `AnsweredIsSettled`, `OpenEnds`): the
  prover has no rules for ENABLED, on which fairness rests.
- The `violation` run and the properties of section 4, which are false.

## 7. What is not modelled

- The adapters' building of a request, and the retries that two of the SDKs make by themselves
  within its timeout; models, pricing, secrets, logging and metrics but one counter;
  `/v1/usage`, `/metrics`, `/healthz`, `/readyz`, which only read. None of
  them keeps state that another step depends on.
- `AnsweredIsSettled` and `HashesExpire` exempt a shutdown that broke off and a pipeline that broke off: in both
  cases the code leaves something behind (`ShutdownDrains` in section 4; a hash without expiry). The two say that nothing
  else does.
- That the breaker's samples have no source in the gateway (section 4); the model takes the class by its
  interface.
- The reading of YAML and JSON by the scripts; two writes of a configuration at once; the
  environment overrides of the boot. `docker-compose` may also create the whole schema before anything
  runs, which is one of the databases `migrations` starts from.
- In `Observer` budget and breaker are at their best: they could only lower the weight, which delays
  attempts. Its mean is 0 when the only sample of the window is torn before its count; weight and
  `MeanNotFlattered` agree, since no time is claimed for a success that has no count yet.
- The sizes that `estimate_tokens` computes; hashing and header parsing in the resolver.
- Redis persistence and failover: a command that was answered stays done.

## 8. Plan

1. `Lifespan`: `Refresh` and `Accounting` composed in full under the shutdown sequence.
2. Two candidates in `Observer`, whose exclusions shift traffic to each other.
