----------------------------- MODULE Accounting -----------------------------
(***************************************************************************)
(* The asynchronous accounting writer, src/gateway/accounting.py.          *)
(*                                                                         *)
(* Request handlers enqueue attempt records in a bounded deque; a          *)
(* background task drains it every flush_interval_ms, or earlier when      *)
(* flush_size records are queued and the wakeup event is set; stop() ends  *)
(* the task and drains what is left.  asyncio runs one coroutine at a time *)
(* and switches only at an await, so one action is the code between two    *)
(* awaits.  Records are numbered in the order of their enqueue.            *)
(***************************************************************************)
EXTENDS Integers, Sequences, FiniteSets

CONSTANTS
    Capacity,    \* AccountingQueue(capacity=...)
    FlushSize,   \* AccountingQueue(flush_size=...)
    MaxRecords   \* bound on the number of records ever enqueued

ASSUME CapacityAssumption == Capacity \in Nat \ {0}
ASSUME FlushSizeAssumption == FlushSize \in Nat \ {0}
ASSUME MaxRecordsAssumption == MaxRecords \in Nat

VARIABLES
    enqueued,       \* number of records enqueued so far
    buffer,         \* self._buffer
    wakeup,         \* self._wakeup.is_set()
    stopping,       \* self._stop.is_set()
    dropped_total,  \* self._dropped_total
    metric,         \* the ACCOUNTING_DROPPED counter
    loop,           \* where _drain_loop is
    closer,         \* where stop() is
    batch,          \* the local variable of each coroutine's _flush
    durable,        \* rows of the requests table, in commit order
    unknown,        \* rows committed by an INSERT whose caller saw an error
    owed            \* records enqueued while the drain task was running

vars == <<enqueued, buffer, wakeup, stopping, dropped_total, metric, loop,
          closer, batch, durable, unknown, owed>>

Flusher == {"loop", "stop"}
LoopState == {"none", "created", "waiting", "writing", "final", "ended"}
CloserState == {"serving", "joining", "writing", "closed"}

Init ==
    /\ enqueued = 0
    /\ buffer = <<>>
    /\ wakeup = FALSE
    /\ stopping = FALSE
    /\ dropped_total = 0
    /\ metric = 0
    /\ loop = "none"
    /\ closer = "serving"
    /\ batch = [f \in Flusher |-> <<>>]
    /\ durable = <<>>
    /\ unknown = 0
    /\ owed = 0

-----------------------------------------------------------------------------
\* The head of _flush, up to its await: an empty buffer returns at once,
\* otherwise the whole buffer becomes the batch.
Take(f) ==
    /\ buffer' = <<>>
    /\ batch' = [batch EXCEPT ![f] = buffer]

\* Mutant of Enqueue: the drop is not counted.
EnqueueUncounted ==
    LET kept == IF Len(buffer) >= Capacity THEN Tail(buffer) ELSE buffer
    IN  /\ loop # "none"
        /\ enqueued < MaxRecords
        /\ enqueued' = enqueued + 1
        /\ buffer' = Append(kept, enqueued + 1)
        /\ wakeup' = (wakeup \/ Len(kept) + 1 >= FlushSize)
        /\ owed' = IF loop = "ended" THEN owed ELSE enqueued + 1
        /\ UNCHANGED <<stopping, dropped_total, metric, loop, closer, batch, durable, unknown>>

\* enqueue: a full deque loses its oldest record, which is counted.
Enqueue ==
    LET kept == IF Len(buffer) >= Capacity THEN Tail(buffer) ELSE buffer
    IN  /\ loop # "none"
        /\ enqueued < MaxRecords
        /\ enqueued' = enqueued + 1
        /\ buffer' = Append(kept, enqueued + 1)
        /\ dropped_total' = dropped_total + (Len(buffer) - Len(kept))
        /\ wakeup' = (wakeup \/ Len(kept) + 1 >= FlushSize)
        /\ owed' = IF loop = "ended" THEN owed ELSE enqueued + 1
        /\ UNCHANGED <<stopping, metric, loop, closer, batch, durable, unknown>>

Start ==
    /\ loop = "none"
    /\ loop' = "created"
    /\ stopping' = FALSE
    /\ UNCHANGED <<enqueued, buffer, wakeup, dropped_total, metric, closer, batch,
                   durable, unknown, owed>>

\* The loop's test and, once stop is set, its last _flush.
LoopHead(to) ==
    IF ~stopping THEN to = "waiting"
    ELSE to = IF buffer = <<>> THEN "ended" ELSE "final"

LoopBegins ==
    /\ loop = "created"
    /\ LoopHead(loop')
    /\ IF stopping THEN Take("loop") ELSE UNCHANGED <<buffer, batch>>
    /\ UNCHANGED <<enqueued, wakeup, stopping, dropped_total, metric, closer,
                   durable, unknown, owed>>

\* Mutant of LoopWakes: `await self._wakeup.wait()` without the interval.
LoopWakesNoTimeout ==
    /\ loop = "waiting"
    /\ wakeup
    /\ wakeup' = FALSE
    /\ IF buffer = <<>> THEN LoopHead(loop') ELSE loop' = "writing"
    /\ Take("loop")
    /\ UNCHANGED <<enqueued, stopping, dropped_total, metric, closer, durable,
                   unknown, owed>>

\* wait_for returns because wakeup is set or because the interval is over;
\* either may happen at any time, the interval being short.  Clearing the
\* event and taking the buffer is one step: there is no await between them.
LoopWakes ==
    /\ loop = "waiting"
    /\ wakeup' = FALSE
    /\ IF buffer = <<>> THEN LoopHead(loop') ELSE loop' = "writing"
    /\ Take("loop")
    /\ UNCHANGED <<enqueued, stopping, dropped_total, metric, closer, durable,
                   unknown, owed>>

\* The three ends of await write_batch(batch): committed, refused, or
\* committed with the answer lost, which the code cannot tell from a refusal.
Committed(f) ==
    /\ durable' = durable \o batch[f]
    /\ UNCHANGED <<dropped_total, metric, unknown>>

Refused(f) ==
    /\ dropped_total' = dropped_total + Len(batch[f])
    /\ metric' = metric + Len(batch[f])
    /\ UNCHANGED <<durable, unknown>>

AnswerLost(f) ==
    /\ durable' = durable \o batch[f]
    /\ unknown' = unknown + Len(batch[f])
    /\ dropped_total' = dropped_total + Len(batch[f])
    /\ metric' = metric + Len(batch[f])

WriteEnds(f) == Committed(f) \/ Refused(f) \/ AnswerLost(f)

\* Mutants of LoopWrites: the event is cleared after the flush, not before it;
\* the deque is cleared after the write, not before it.
LoopWritesThenClears ==
    /\ loop = "writing"
    /\ WriteEnds("loop")
    /\ wakeup' = FALSE
    /\ LoopHead(loop')
    /\ IF stopping
       THEN Take("loop")
       ELSE /\ batch' = [batch EXCEPT !["loop"] = <<>>]
            /\ UNCHANGED buffer
    /\ UNCHANGED <<enqueued, stopping, closer, owed>>

LoopWritesThenEmpties ==
    /\ loop = "writing"
    /\ WriteEnds("loop")
    /\ buffer' = <<>>
    /\ loop' = IF stopping THEN "ended" ELSE "waiting"
    /\ batch' = [batch EXCEPT !["loop"] = <<>>]
    /\ UNCHANGED <<enqueued, wakeup, stopping, closer, owed>>

\* After the write the loop is back at its test in the same step.
LoopWrites ==
    /\ loop = "writing"
    /\ WriteEnds("loop")
    /\ LoopHead(loop')
    /\ IF stopping
       THEN Take("loop")
       ELSE /\ batch' = [batch EXCEPT !["loop"] = <<>>]
            /\ UNCHANGED buffer
    /\ UNCHANGED <<enqueued, wakeup, stopping, closer, owed>>

\* Mutant of LoopWritesLast: the batch is kept for another attempt nobody makes.
LoopWritesLastKeepsBatch ==
    /\ loop = "final"
    /\ WriteEnds("loop")
    /\ loop' = "ended"
    /\ UNCHANGED <<enqueued, buffer, batch, wakeup, stopping, closer, owed>>

LoopWritesLast ==
    /\ loop = "final"
    /\ WriteEnds("loop")
    /\ loop' = "ended"
    /\ batch' = [batch EXCEPT !["loop"] = <<>>]
    /\ UNCHANGED <<enqueued, buffer, wakeup, stopping, closer, owed>>

\* Mutant of Stop: the loop is woken but not told to end.
StopWakesOnly ==
    /\ closer = "serving"
    /\ loop # "none"
    /\ closer' = "joining"
    /\ wakeup' = TRUE
    /\ UNCHANGED <<enqueued, buffer, stopping, dropped_total, metric, loop, batch,
                   durable, unknown, owed>>

\* stop() up to `await self._task`.
Stop ==
    /\ closer = "serving"
    /\ loop # "none"
    /\ closer' = "joining"
    /\ stopping' = TRUE
    /\ wakeup' = TRUE
    /\ UNCHANGED <<enqueued, buffer, dropped_total, metric, loop, batch, durable,
                   unknown, owed>>

\* Mutants of StopJoins: stop() does not wait for the task; stop() does not
\* flush after it.
StopDoesNotJoin ==
    /\ closer = "joining"
    /\ closer' = IF buffer = <<>> THEN "closed" ELSE "writing"
    /\ Take("stop")
    /\ UNCHANGED <<enqueued, wakeup, stopping, dropped_total, metric, loop,
                   durable, unknown, owed>>

StopOnlyJoins ==
    /\ closer = "joining"
    /\ loop = "ended"
    /\ closer' = "closed"
    /\ UNCHANGED <<enqueued, buffer, wakeup, stopping, dropped_total, metric, loop,
                   batch, durable, unknown, owed>>

\* The task has ended: stop() takes what was enqueued since its last flush.
StopJoins ==
    /\ closer = "joining"
    /\ loop = "ended"
    /\ closer' = IF buffer = <<>> THEN "closed" ELSE "writing"
    /\ Take("stop")
    /\ UNCHANGED <<enqueued, wakeup, stopping, dropped_total, metric, loop,
                   durable, unknown, owed>>

StopWrites ==
    /\ closer = "writing"
    /\ WriteEnds("stop")
    /\ closer' = "closed"
    /\ batch' = [batch EXCEPT !["stop"] = <<>>]
    /\ UNCHANGED <<enqueued, buffer, wakeup, stopping, loop, owed>>

LoopStep == LoopBegins \/ LoopWakes \/ LoopWrites \/ LoopWritesLast

Next == Enqueue \/ Start \/ LoopStep \/ Stop \/ StopJoins \/ StopWrites

Spec == Init /\ [][Next]_vars

\* lifespan() starts the task and asyncio runs every ready coroutine and every
\* due timer.  That an INSERT ends at all is an assumption about Postgres: the
\* pool of db.py sets no command timeout.
Fairness ==
    /\ WF_vars(Start)
    /\ WF_vars(LoopStep)
    /\ WF_vars(StopJoins \/ StopWrites)

FairSpec == Spec /\ Fairness

-----------------------------------------------------------------------------
\* Types, and the local batch of a coroutine exists exactly while it awaits
\* write_batch: a _flush never leaves records behind in a dead local variable.
TypeOK ==
    /\ enqueued \in 0 .. MaxRecords
    /\ buffer \in Seq(1 .. MaxRecords)
    /\ wakeup \in BOOLEAN
    /\ stopping \in BOOLEAN
    /\ dropped_total \in Nat
    /\ metric \in Nat
    /\ loop \in LoopState
    /\ closer \in CloserState
    /\ batch \in [Flusher -> Seq(1 .. MaxRecords)]
    /\ durable \in Seq(1 .. MaxRecords)
    /\ unknown \in Nat
    /\ owed \in 0 .. MaxRecords
    /\ batch["loop"] # <<>> <=> loop \in {"writing", "final"}
    /\ batch["stop"] # <<>> <=> closer = "writing"

\* The deque never holds more than capacity records, whatever the handlers and
\* a slow Postgres do.
BufferBounded == Len(buffer) <= Capacity

\* dropped_total is exact: every record enqueued is in the deque, in a running
\* batch, in the table or counted once, except that an INSERT whose answer was
\* lost is both in the table and counted.
RowsConserved ==
    enqueued + unknown =
        Len(durable) + Len(batch["loop"]) + Len(batch["stop"]) + Len(buffer) + dropped_total

\* Records reach the table in the order of their enqueue and at most once: the
\* drain task and stop() never flush at the same time.
InOrder == durable \o batch["loop"] \o batch["stop"] \o buffer
RowsInOrder == \A i, j \in 1 .. Len(InOrder) : i < j => InOrder[i] < InOrder[j]

\* No lost wakeup: when the loop goes to sleep while flush_size records are
\* queued, the event is set, so the flush does not wait for the interval.
NoLostWakeup == loop = "waiting" /\ Len(buffer) >= FlushSize => wakeup

\* When stop() has returned, every record enqueued while the task was running
\* is settled, those enqueued during the task's last INSERT included.
StopDrains ==
    closer = "closed" => \A i \in 1 .. Len(buffer) : buffer[i] > owed

\* The write-behind promise of AttemptLog.
ToSet(s) == {s[i] : i \in 1 .. Len(s)}
Pending == ToSet(buffer) \cup ToSet(batch["loop"]) \cup ToSet(batch["stop"])

Log == INSTANCE AttemptLog WITH
    submitted <- enqueued,
    pending <- Pending,
    durable <- ToSet(durable),
    counted <- dropped_total

ImplementsAttemptLog == Log!Spec

\* A record enqueued while the gateway serves is settled at last, also when
\* fewer than flush_size records are queued and nobody enqueues again.
EventuallySettled ==
    \A id \in 1 .. MaxRecords :
        (closer = "serving" /\ id \in Pending) ~> (id \notin Pending)

\* stop() returns, whatever the loop was doing when it was called.
ShutdownEnds == (closer = "joining") ~> (closer = "closed")

\* The counter operators alert on equals dropped_total: the comment of
\* metrics.ACCOUNTING_DROPPED promises drops by backpressure and by failure.
MetricCountsDrops == metric = dropped_total
=============================================================================
