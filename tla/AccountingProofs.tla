-------------------------- MODULE AccountingProofs --------------------------
(***************************************************************************)
(* Safety of the accounting writer for every capacity, flush size and      *)
(* number of records.                                                      *)
(***************************************************************************)
EXTENDS Accounting, FiniteSetTheorems, TLAPS

LEMMA Regrouped == \A a, b, c, n \in Nat : a + (b + n) + c = a + b + c + n
  OBVIOUS

\* What one end of an INSERT does to the counters and the table.
LEMMA WriteEndsTypes ==
    ASSUME TypeOK, NEW f \in Flusher, WriteEnds(f)
    PROVE  /\ durable' \in Seq(1 .. MaxRecords)
           /\ dropped_total' \in Nat
           /\ metric' \in Nat
           /\ unknown' \in Nat
           /\ Len(durable') + dropped_total' + unknown
                = Len(durable) + dropped_total + unknown' + Len(batch[f])
<1>1. batch[f] \in Seq(1 .. MaxRecords) /\ durable \in Seq(1 .. MaxRecords)
  BY DEF TypeOK
<1>2. PICK n \in Nat : n = Len(batch[f])
  BY <1>1
<1>3. durable \o batch[f] \in Seq(1 .. MaxRecords) /\ Len(durable \o batch[f]) = Len(durable) + n
  BY <1>1, <1>2
<1>4. Len(durable) \in Nat /\ dropped_total \in Nat /\ metric \in Nat /\ unknown \in Nat
  BY <1>1 DEF TypeOK
<1>5. /\ durable' \in Seq(1 .. MaxRecords)
      /\ dropped_total' \in Nat
      /\ metric' \in Nat
      /\ unknown' \in Nat
      /\ Len(durable') + dropped_total' + unknown = Len(durable) + dropped_total + unknown' + n
  <2>1. CASE Committed(f)
    <3>1. durable' \in Seq(1 .. MaxRecords) /\ Len(durable') = Len(durable) + n
      BY <1>3, <2>1 DEF Committed
    <3>2. dropped_total' = dropped_total /\ metric' = metric /\ unknown' = unknown
      BY <2>1 DEF Committed
    <3> QED
      BY <1>4, <3>1, <3>2
  <2>2. CASE Refused(f)
    <3>1. dropped_total' = dropped_total + n /\ metric' = metric + n
      BY <1>2, <2>2 DEF Refused
    <3>2. durable' = durable /\ unknown' = unknown
      BY <2>2 DEF Refused
    <3>3. dropped_total + n \in Nat /\ metric + n \in Nat
      BY ONLY <1>2, <1>4
    <3>4. durable' \in Seq(1 .. MaxRecords) /\ Len(durable') = Len(durable)
      BY ONLY <1>1, <3>2
    <3>5. PICK d \in Nat : d = Len(durable) /\ d = Len(durable')
      BY ONLY <1>4, <3>4
    <3>6. d + (dropped_total + n) + unknown = d + dropped_total + unknown + n
      BY ONLY <1>4, <3>5, n \in Nat, Regrouped
    <3> QED
      BY ONLY <1>4, <3>1, <3>2, <3>3, <3>4, <3>5, <3>6
  <2>3. CASE AnswerLost(f)
    <3>1. /\ dropped_total' = dropped_total + n /\ metric' = metric + n
          /\ unknown' = unknown + n
      BY <1>2, <2>3 DEF AnswerLost
    <3>2. durable' \in Seq(1 .. MaxRecords) /\ Len(durable') = Len(durable) + n
      BY <1>3, <2>3 DEF AnswerLost
    <3> QED
      BY <1>4, <3>1, <3>2
  <2> QED
    BY <2>1, <2>2, <2>3 DEF WriteEnds
<1> QED
  BY <1>2, <1>5

\* What enqueue leaves in the deque: popleft only ever shortens it by one.
Kept == IF Len(buffer) >= Capacity THEN Tail(buffer) ELSE buffer

LEMMA KeptFacts ==
    ASSUME TypeOK
    PROVE  /\ Kept \in Seq(1 .. MaxRecords)
           /\ Len(Kept) \in Nat
           /\ Len(Kept) = IF Len(buffer) >= Capacity THEN Len(buffer) - 1 ELSE Len(buffer)
           /\ \A i \in 1 .. Len(Kept) : \E j \in 1 .. Len(buffer) : Kept[i] = buffer[j]
<1>1. buffer \in Seq(1 .. MaxRecords)
  BY DEF TypeOK
<1>2. CASE Len(buffer) >= Capacity
  <2>1. buffer # <<>>
    BY <1>1, <1>2, CapacityAssumption
  <2>2. /\ Tail(buffer) \in Seq(1 .. MaxRecords)
        /\ Len(Tail(buffer)) = Len(buffer) - 1
        /\ \A i \in 1 .. Len(buffer) - 1 : Tail(buffer)[i] = buffer[i + 1]
    BY <1>1, <2>1
  <2>3. Len(buffer) \in Nat /\ Len(buffer) # 0
    BY <1>1, <2>1
  <2>4. \A i \in 1 .. Len(buffer) - 1 : i + 1 \in 1 .. Len(buffer)
    BY <2>3
  <2> QED
    BY <1>2, <2>2, <2>3, <2>4 DEF Kept
<1>3. CASE ~(Len(buffer) >= Capacity)
  BY <1>1, <1>3 DEF Kept
<1> QED
  BY <1>2, <1>3

-----------------------------------------------------------------------------
LEMMA EmptyIsRows == <<>> \in Seq(1 .. MaxRecords)
  OBVIOUS

LEMMA TypeInit == Init => TypeOK
<1> SUFFICES ASSUME Init PROVE TypeOK
  OBVIOUS
<1>1. [f \in Flusher |-> <<>>] \in [Flusher -> Seq(1 .. MaxRecords)]
  BY EmptyIsRows
<1>2. batch \in [Flusher -> Seq(1 .. MaxRecords)] /\ batch["loop"] = <<>> /\ batch["stop"] = <<>>
  BY <1>1 DEF Init, Flusher
<1>3. buffer \in Seq(1 .. MaxRecords) /\ durable \in Seq(1 .. MaxRecords)
  BY EmptyIsRows DEF Init
<1>4. /\ enqueued \in 0 .. MaxRecords /\ owed \in 0 .. MaxRecords
      /\ dropped_total \in Nat /\ metric \in Nat /\ unknown \in Nat
  BY MaxRecordsAssumption DEF Init
<1>5. wakeup \in BOOLEAN /\ stopping \in BOOLEAN /\ loop = "none" /\ closer = "serving"
  BY DEF Init
<1> QED
  BY <1>2, <1>3, <1>4, <1>5 DEF TypeOK, LoopState, CloserState

LEMMA TypeStep == TypeOK /\ [Next]_vars => TypeOK'
<1> SUFFICES ASSUME TypeOK, [Next]_vars
             PROVE  TypeOK'
  OBVIOUS
<1> USE DEF Flusher, LoopState, CloserState
<1>1. CASE Enqueue
  <2>1. /\ enqueued' = enqueued + 1
        /\ enqueued < MaxRecords
        /\ buffer' = Append(Kept, enqueued + 1)
        /\ dropped_total' = dropped_total + (Len(buffer) - Len(Kept))
        /\ wakeup' = (wakeup \/ Len(Kept) + 1 >= FlushSize)
        /\ owed' = IF loop = "ended" THEN owed ELSE enqueued + 1
        /\ UNCHANGED <<stopping, metric, loop, closer, batch, durable, unknown>>
    BY <1>1 DEF Enqueue, Kept
  <2>2. enqueued + 1 \in 1 .. MaxRecords
    BY <2>1, MaxRecordsAssumption DEF TypeOK
  <2>3. buffer' \in Seq(1 .. MaxRecords)
    BY <2>1, <2>2, KeptFacts
  <2>4. dropped_total' \in Nat
    BY <2>1, KeptFacts, CapacityAssumption DEF TypeOK
  <2>5. wakeup' \in BOOLEAN
    BY <2>1 DEF TypeOK
  <2> QED
    BY <2>1, <2>2, <2>3, <2>4, <2>5 DEF TypeOK
<1>2. CASE Start
  BY <1>2 DEF Start, TypeOK
<1>3. CASE LoopBegins
  <2>1. loop = "created" /\ LoopHead(loop')
    BY <1>3 DEF LoopBegins
  <2>2. CASE stopping
    BY <1>3, <2>1, <2>2 DEF LoopBegins, LoopHead, Take, TypeOK
  <2>3. CASE ~stopping
    BY <1>3, <2>1, <2>3 DEF LoopBegins, LoopHead, TypeOK
  <2> QED
    BY <2>2, <2>3
<1>4. CASE LoopWakes
  <2>1. CASE buffer = <<>>
    BY <1>4, <2>1 DEF LoopWakes, LoopHead, Take, TypeOK
  <2>2. CASE buffer # <<>>
    BY <1>4, <2>2 DEF LoopWakes, Take, TypeOK
  <2> QED
    BY <2>1, <2>2
<1>5. CASE LoopWrites
  <2>1. WriteEnds("loop")
    BY <1>5 DEF LoopWrites
  <2>2. CASE stopping
    BY <1>5, <2>1, <2>2, WriteEndsTypes DEF LoopWrites, LoopHead, Take, TypeOK
  <2>3. CASE ~stopping
    <3>1. /\ loop = "writing" /\ loop' = "waiting"
          /\ batch' = [batch EXCEPT !["loop"] = <<>>]
          /\ UNCHANGED <<buffer, enqueued, wakeup, stopping, closer, owed>>
      BY <1>5, <2>3 DEF LoopWrites, LoopHead
    <3>2. /\ batch' \in [Flusher -> Seq(1 .. MaxRecords)]
          /\ batch'["loop"] = <<>> /\ batch'["stop"] = batch["stop"]
      BY <3>1, EmptyIsRows DEF TypeOK
    <3> QED
      BY <3>1, <3>2, <2>1, WriteEndsTypes DEF TypeOK
  <2> QED
    BY <2>2, <2>3
<1>6. CASE LoopWritesLast
  BY <1>6, WriteEndsTypes DEF LoopWritesLast, TypeOK
<1>7. CASE Stop
  BY <1>7 DEF Stop, TypeOK
<1>8. CASE StopJoins
  BY <1>8 DEF StopJoins, Take, TypeOK
<1>9. CASE StopWrites
  BY <1>9, WriteEndsTypes DEF StopWrites, TypeOK
<1>10. CASE UNCHANGED vars
  BY <1>10 DEF vars, TypeOK
<1> QED
  BY <1>1, <1>2, <1>3, <1>4, <1>5, <1>6, <1>7, <1>8, <1>9, <1>10 DEF Next, LoopStep

\* The variables keep their types, and a local batch exists exactly while its
\* coroutine awaits write_batch.
THEOREM TypeCorrect == Spec => []TypeOK
  BY TypeInit, TypeStep, PTL DEF Spec

-----------------------------------------------------------------------------
\* Enqueue with its LET named.
LEMMA EnqueueFacts ==
    ASSUME TypeOK, Enqueue
    PROVE  /\ enqueued' = enqueued + 1
           /\ buffer' = Append(Kept, enqueued + 1)
           /\ \A i \in 1 .. Len(buffer') :
                 buffer'[i] = enqueued + 1 \/ \E j \in 1 .. Len(buffer) : buffer'[i] = buffer[j]
           /\ Len(buffer') = Len(Kept) + 1
           /\ dropped_total' = dropped_total + (Len(buffer) - Len(Kept))
           /\ wakeup' = (wakeup \/ Len(Kept) + 1 >= FlushSize)
           /\ owed' = IF loop = "ended" THEN owed ELSE enqueued + 1
           /\ UNCHANGED <<stopping, metric, loop, closer, batch, durable, unknown>>
<1>1. /\ enqueued' = enqueued + 1
      /\ buffer' = Append(Kept, enqueued + 1)
      /\ dropped_total' = dropped_total + (Len(buffer) - Len(Kept))
      /\ wakeup' = (wakeup \/ Len(Kept) + 1 >= FlushSize)
      /\ owed' = IF loop = "ended" THEN owed ELSE enqueued + 1
      /\ UNCHANGED <<stopping, metric, loop, closer, batch, durable, unknown>>
  BY DEF Enqueue, Kept
<1>2. Kept \in Seq(1 .. MaxRecords) /\ Len(Kept) \in Nat
  BY KeptFacts
<1>3. enqueued + 1 \in 1 .. MaxRecords
  BY MaxRecordsAssumption DEF TypeOK, Enqueue
<1>4. /\ Len(Append(Kept, enqueued + 1)) = Len(Kept) + 1
      /\ Append(Kept, enqueued + 1)[Len(Kept) + 1] = enqueued + 1
      /\ \A i \in 1 .. Len(Kept) : Append(Kept, enqueued + 1)[i] = Kept[i]
  BY <1>2, <1>3
<1>5. \A i \in 1 .. Len(Kept) + 1 : i = Len(Kept) + 1 \/ i \in 1 .. Len(Kept)
  BY <1>2
<1> QED
  BY <1>1, <1>4, <1>5, KeptFacts

\* Every step but Enqueue leaves the deque as it is or takes all of it.
LEMMA OtherStepsOnBuffer ==
    ASSUME [Next]_vars, ~Enqueue
    PROVE  buffer' = buffer \/ buffer' = <<>>
  BY DEF Next, LoopStep, vars, Start, LoopBegins, LoopWakes, LoopWrites, LoopWritesLast,
         Stop, StopJoins, StopWrites, Take

LEMMA BoundedStep == TypeOK /\ BufferBounded /\ [Next]_vars => BufferBounded'
<1> SUFFICES ASSUME TypeOK, BufferBounded, [Next]_vars
             PROVE  BufferBounded'
  OBVIOUS
<1>1. Len(buffer) \in Nat
  BY DEF TypeOK
<1>2. CASE Enqueue
  BY <1>1, <1>2, EnqueueFacts, KeptFacts, CapacityAssumption DEF BufferBounded
<1>3. CASE ~Enqueue
  BY <1>3, OtherStepsOnBuffer, CapacityAssumption DEF BufferBounded
<1> QED
  BY <1>2, <1>3

\* The deque never exceeds its capacity.
THEOREM BufferIsBounded == Spec => []BufferBounded
<1>1. Init => BufferBounded
  BY CapacityAssumption DEF Init, BufferBounded
<1> QED
  BY <1>1, BoundedStep, TypeCorrect, PTL DEF Spec

-----------------------------------------------------------------------------
\* The event, before the loop sleeps: what has been queued in the meantime and
\* would let it flush at once is still announced when it goes to sleep.
Announced ==
    loop \in {"none", "created", "waiting", "writing"} /\ Len(buffer) >= FlushSize => wakeup

LEMMA AnnouncedStep == TypeOK /\ Announced /\ [Next]_vars => Announced'
<1> SUFFICES ASSUME TypeOK, Announced, [Next]_vars,
                    loop' \in {"none", "created", "waiting", "writing"},
                    Len(buffer') >= FlushSize
             PROVE  wakeup'
  BY DEF Announced
<1>1. buffer' # <<>>
  BY FlushSizeAssumption
<1>2. CASE Enqueue
  BY <1>2, EnqueueFacts
<1>3. CASE Start
  BY <1>3 DEF Start, Announced
<1>4. CASE LoopBegins
  BY <1>1, <1>4 DEF LoopBegins, Take, Announced
<1>5. CASE LoopWakes
  BY <1>1, <1>5 DEF LoopWakes, Take
<1>6. CASE LoopWrites
  BY <1>1, <1>6 DEF LoopWrites, Take, Announced
<1>7. CASE LoopWritesLast
  BY <1>7 DEF LoopWritesLast
<1>8. CASE Stop
  BY <1>8 DEF Stop
<1>9. CASE StopJoins
  BY <1>1, <1>9 DEF StopJoins, Take
<1>10. CASE StopWrites
  BY <1>10 DEF StopWrites, Announced
<1>11. CASE UNCHANGED vars
  BY <1>11 DEF vars, Announced
<1> QED
  BY <1>2, <1>3, <1>4, <1>5, <1>6, <1>7, <1>8, <1>9, <1>10, <1>11 DEF Next, LoopStep

\* No wakeup is lost between a flush and the next sleep of the drain loop.
THEOREM WakeupNotLost == Spec => []NoLostWakeup
<1>1. Init => Announced
  BY FlushSizeAssumption DEF Init, Announced
<1>2. Announced => NoLostWakeup
  BY DEF Announced, NoLostWakeup
<1> QED
  BY <1>1, <1>2, AnnouncedStep, TypeCorrect, PTL DEF Spec

-----------------------------------------------------------------------------
\* Where the records of a coroutine's finished and next batch are.
LEMMA TakeFacts ==
    ASSUME TypeOK, NEW f \in Flusher, Take(f)
    PROVE  /\ Len(buffer') = 0
           /\ Len(batch'[f]) = Len(buffer)
           /\ \A g \in Flusher \ {f} : batch'[g] = batch[g]
  BY DEF Take, TypeOK

\* The sum over an INSERT's end, as arithmetic.
LEMMA Balance ==
    ASSUME NEW e \in Nat, NEW u \in Nat, NEW x \in Nat, NEW d \in Nat, NEW l \in Nat,
           NEW s \in Nat, NEW b \in Nat, NEW n \in Nat, NEW u2 \in Nat, NEW x2 \in Nat,
           NEW d2 \in Nat, NEW l2 \in Nat, NEW s2 \in Nat, NEW b2 \in Nat,
           e + u = d + l + s + b + x,
           d2 + x2 + u = d + x + u2 + n,
           b2 + l2 + s2 + n = b + l + s
    PROVE  e + u2 = d2 + l2 + s2 + b2 + x2
  OBVIOUS

LEMMA ConservedStep == TypeOK /\ RowsConserved /\ [Next]_vars => RowsConserved'
<1> SUFFICES ASSUME TypeOK, RowsConserved, [Next]_vars
             PROVE  RowsConserved'
  OBVIOUS
<1>1. PICK l \in Nat : l = Len(batch["loop"])
  BY DEF TypeOK, Flusher
<1>2. PICK s \in Nat : s = Len(batch["stop"])
  BY DEF TypeOK, Flusher
<1>3. PICK d \in Nat : d = Len(durable)
  BY DEF TypeOK
<1>4. PICK b \in Nat : b = Len(buffer)
  BY DEF TypeOK
<1>5. enqueued \in Nat /\ unknown \in Nat /\ dropped_total \in Nat
  BY MaxRecordsAssumption DEF TypeOK
<1>6. enqueued + unknown = d + l + s + b + dropped_total
  BY <1>1, <1>2, <1>3, <1>4 DEF RowsConserved
<1>7. loop \notin {"writing", "final"} => l = 0
  BY <1>1 DEF TypeOK
<1>8. closer # "writing" => s = 0
  BY <1>2 DEF TypeOK
<1>9. CASE Enqueue
  <2>1. PICK k \in Nat : k = Len(Kept)
    BY KeptFacts
  <2>2. enqueued' = enqueued + 1 /\ Len(buffer') = k + 1 /\ dropped_total' = dropped_total + (b - k)
    BY <1>4, <1>9, <2>1, EnqueueFacts
  <2>3. UNCHANGED <<batch, durable, unknown>>
    BY <1>9, EnqueueFacts
  <2>4. /\ Len(durable') = d /\ Len(batch'["loop"]) = l /\ Len(batch'["stop"]) = s
        /\ unknown' = unknown
    BY <1>1, <1>2, <1>3, <2>3
  <2>5. enqueued' + unknown' = d + l + s + (k + 1) + dropped_total'
    BY <1>5, <1>6, <2>1, <2>2, <2>4
  <2> QED
    BY <2>2, <2>4, <2>5 DEF RowsConserved
<1>10. ASSUME NEW f \in Flusher, Take(f),
              f = "loop" => l = 0, f = "stop" => s = 0,
              UNCHANGED <<enqueued, durable, unknown, dropped_total>>
       PROVE  RowsConserved'
  <2>1. Len(durable') = d /\ Len(buffer') = 0
    BY <1>3, <1>10, TakeFacts
  <2>2. CASE f = "loop"
    <3>1. Len(batch'["loop"]) = b /\ Len(batch'["stop"]) = s
      BY <1>2, <1>4, <1>10, <2>2, TakeFacts DEF Flusher
    <3>2. enqueued' + unknown' = d + b + s + 0 + dropped_total'
      BY <1>5, <1>6, <1>10, <2>2
    <3> QED
      BY <2>1, <3>1, <3>2 DEF RowsConserved
  <2>3. CASE f = "stop"
    <3>1. Len(batch'["loop"]) = l /\ Len(batch'["stop"]) = b
      BY <1>1, <1>4, <1>10, <2>3, TakeFacts DEF Flusher
    <3>2. enqueued' + unknown' = d + l + b + 0 + dropped_total'
      BY <1>5, <1>6, <1>10, <2>3
    <3> QED
      BY <2>1, <3>1, <3>2 DEF RowsConserved
  <2> QED
    BY <1>10, <2>2, <2>3 DEF Flusher
<1>11. CASE UNCHANGED <<enqueued, buffer, batch, durable, unknown, dropped_total>>
  BY <1>11 DEF RowsConserved
<1>12. CASE Start
  BY <1>11, <1>12 DEF Start
<1>13. CASE LoopBegins
  <2>1. CASE stopping
    BY <1>7, <1>10, <1>13, <2>1 DEF LoopBegins, Flusher
  <2>2. CASE ~stopping
    BY <1>11, <1>13, <2>2 DEF LoopBegins
  <2> QED
    BY <2>1, <2>2
<1>14. CASE LoopWakes
  BY <1>7, <1>10, <1>14 DEF LoopWakes, Flusher
<1>15. ASSUME NEW f \in Flusher, WriteEnds(f), enqueued' = enqueued,
              NEW n \in Nat, n = Len(batch[f]), NEW b2 \in Nat, b2 = Len(buffer'),
              NEW l2 \in Nat, l2 = Len(batch'["loop"]), NEW s2 \in Nat, s2 = Len(batch'["stop"]),
              b2 + l2 + s2 + n = b + l + s
       PROVE  RowsConserved'
  <2>1. PICK d2 \in Nat : d2 = Len(durable')
    BY <1>15, WriteEndsTypes
  <2>2. PICK u2 \in Nat : u2 = unknown'
    BY <1>15, WriteEndsTypes
  <2>3. PICK x2 \in Nat : x2 = dropped_total'
    BY <1>15, WriteEndsTypes
  <2>4. PICK e \in Nat, u \in Nat, x \in Nat : e = enqueued /\ u = unknown /\ x = dropped_total
    BY <1>5
  <2>5. d2 + x2 + u = d + x + u2 + n
    BY <1>3, <1>15, <2>1, <2>2, <2>3, <2>4, WriteEndsTypes
  <2>6. e + u = d + l + s + b + x
    BY <1>6, <2>4
  <2>7. b2 + l2 + s2 + n = b + l + s
    BY <1>15
  <2>8. e + u2 = d2 + l2 + s2 + b2 + x2
    BY <2>5, <2>6, <2>7, Balance
  <2> QED
    BY <1>15, <2>1, <2>2, <2>3, <2>4, <2>8 DEF RowsConserved
<1>16. CASE LoopWrites
  <2>1. WriteEnds("loop") /\ enqueued' = enqueued
    BY <1>16 DEF LoopWrites
  <2>2. CASE stopping
    <3>1. Take("loop")
      BY <1>16, <2>2 DEF LoopWrites
    <3>2. Len(buffer') = 0 /\ Len(batch'["loop"]) = b /\ Len(batch'["stop"]) = s
      BY <1>2, <1>4, <3>1, TakeFacts DEF Flusher
    <3> QED
      BY <1>1, <1>15, <2>1, <3>2 DEF Flusher
  <2>3. CASE ~stopping
    <3>1. buffer' = buffer /\ batch' = [batch EXCEPT !["loop"] = <<>>]
      BY <1>16, <2>3 DEF LoopWrites
    <3>2. Len(buffer') = b /\ Len(batch'["loop"]) = 0 /\ Len(batch'["stop"]) = s
      BY <1>2, <1>4, <3>1 DEF TypeOK, Flusher
    <3> QED
      BY <1>1, <1>15, <2>1, <3>2 DEF Flusher
  <2> QED
    BY <2>2, <2>3
<1>17. CASE LoopWritesLast
  <2>1. /\ WriteEnds("loop") /\ enqueued' = enqueued /\ buffer' = buffer
        /\ batch' = [batch EXCEPT !["loop"] = <<>>]
    BY <1>17 DEF LoopWritesLast
  <2>2. Len(buffer') = b /\ Len(batch'["loop"]) = 0 /\ Len(batch'["stop"]) = s
    BY <1>2, <1>4, <2>1 DEF TypeOK, Flusher
  <2> QED
    BY <1>1, <1>15, <2>1, <2>2 DEF Flusher
<1>18. CASE Stop
  BY <1>11, <1>18 DEF Stop
<1>19. CASE StopJoins
  BY <1>8, <1>10, <1>19 DEF StopJoins, Flusher
<1>20. CASE StopWrites
  <2>1. /\ WriteEnds("stop") /\ enqueued' = enqueued /\ buffer' = buffer
        /\ batch' = [batch EXCEPT !["stop"] = <<>>]
    BY <1>20 DEF StopWrites
  <2>2. Len(buffer') = b /\ Len(batch'["loop"]) = l /\ Len(batch'["stop"]) = 0
    BY <1>1, <1>4, <2>1 DEF TypeOK, Flusher
  <2>3. PICK z \in Nat : z = Len(batch'["stop"]) /\ z = 0
    BY <2>2
  <2>4. WriteEnds("stop") /\ enqueued' = enqueued /\ s = Len(batch["stop"])
    BY <1>2, <2>1
  <2>5. "stop" \in Flusher /\ b = Len(buffer') /\ l = Len(batch'["loop"])
    BY <2>2 DEF Flusher
  <2>6. b + l + z + s = b + l + s
    BY <2>3
  <2> QED
    BY <1>15, <2>2, <2>3, <2>4, <2>5, <2>6
<1>21. CASE UNCHANGED vars
  BY <1>11, <1>21 DEF vars
<1> QED
  BY <1>9, <1>12, <1>13, <1>14, <1>16, <1>17, <1>18, <1>19, <1>20, <1>21 DEF Next, LoopStep

\* dropped_total is exact, up to the rows whose INSERT committed unheard.
THEOREM RowsAreConserved == Spec => []RowsConserved
<1>1. Init => RowsConserved
  BY DEF Init, RowsConserved, Flusher
<1> QED
  BY <1>1, ConservedStep, TypeCorrect, PTL DEF Spec

-----------------------------------------------------------------------------
\* Once stop() is past its await of the task, the task has ended and the deque
\* holds only records enqueued after its end.
Drained ==
    /\ owed <= enqueued
    /\ closer \in {"writing", "closed"} =>
          /\ loop = "ended"
          /\ \A i \in 1 .. Len(buffer) : buffer[i] > owed

LEMMA DrainedStep == TypeOK /\ Drained /\ [Next]_vars => Drained'
<1> SUFFICES ASSUME TypeOK, Drained, [Next]_vars
             PROVE  Drained'
  OBVIOUS
<1>1. enqueued \in Nat /\ owed \in Nat
  BY MaxRecordsAssumption DEF TypeOK
<1>2. CASE Enqueue
  <2>1. owed' <= enqueued'
    BY <1>1, <1>2, EnqueueFacts DEF Drained
  <2>2. ASSUME closer' \in {"writing", "closed"}
        PROVE  loop' = "ended" /\ \A i \in 1 .. Len(buffer') : buffer'[i] > owed'
    <3>1. loop = "ended" /\ loop' = loop /\ closer' = closer /\ owed' = owed
      BY <1>2, <2>2, EnqueueFacts DEF Drained
    <3>2. enqueued + 1 > owed /\ \A j \in 1 .. Len(buffer) : buffer[j] > owed
      BY <1>1, <2>2, <3>1 DEF Drained
    <3> QED
      BY <1>2, <3>1, <3>2, EnqueueFacts
  <2> QED
    BY <2>1, <2>2 DEF Drained
<1>3. CASE StopJoins
  <2>1. loop' = "ended" /\ buffer' = <<>> /\ UNCHANGED <<owed, enqueued>>
    BY <1>3 DEF StopJoins, Take
  <2> QED
    BY <2>1 DEF Drained
<1>4. CASE LoopStep \/ Start
  <2>1. loop # "ended" /\ UNCHANGED <<owed, enqueued, closer>>
    BY <1>4 DEF LoopStep, LoopBegins, LoopWakes, LoopWrites, LoopWritesLast, Start
  <2> QED
    BY <2>1 DEF Drained
<1>5. CASE Stop
  BY <1>5 DEF Stop, Drained
<1>6. CASE StopWrites
  BY <1>6 DEF StopWrites, Drained
<1>7. CASE UNCHANGED vars
  BY <1>7 DEF vars, Drained
<1> QED
  BY <1>2, <1>3, <1>4, <1>5, <1>6, <1>7 DEF Next

\* stop() leaves nothing behind that was enqueued while the task was running.
THEOREM StopHasDrained == Spec => []StopDrains
<1>1. Init => Drained
  BY DEF Init, Drained
<1>2. Drained => StopDrains
  BY DEF Drained, StopDrains
<1> QED
  BY <1>1, <1>2, DrainedStep, TypeCorrect, PTL DEF Spec
-----------------------------------------------------------------------------
\* RowsInOrder, piece by piece: each sequence is ascending, and everything in an
\* earlier one is older than everything in a later one.
Ascending(s) == \A i, j \in 1 .. Len(s) : i < j => s[i] < s[j]
Before(s, t) == \A i \in 1 .. Len(s), j \in 1 .. Len(t) : s[i] < t[j]
UpTo(s, n) == \A i \in 1 .. Len(s) : s[i] <= n

PiecesInOrder ==
    /\ Ascending(durable) /\ Ascending(buffer)
    /\ Before(durable, buffer)
    /\ UpTo(durable, enqueued) /\ UpTo(buffer, enqueued)
    /\ \A f \in Flusher : /\ Ascending(batch[f])
                          /\ UpTo(batch[f], enqueued)
                          /\ Before(durable, batch[f])
                          /\ Before(batch[f], buffer)

\* The drain task and stop() do not flush at the same time.
OneFlush == batch["loop"] = <<>> \/ batch["stop"] = <<>>

LEMMA JoinedInOrder ==
    ASSUME NEW S \in SUBSET Int, NEW s \in Seq(S), NEW t \in Seq(S)
    PROVE  /\ s \o t \in Seq(S)
           /\ Ascending(s) /\ Ascending(t) /\ Before(s, t) => Ascending(s \o t)
           /\ \A u \in Seq(S) : Before(s, u) /\ Before(t, u) => Before(s \o t, u)
           /\ \A n \in Int : UpTo(s, n) /\ UpTo(t, n) => UpTo(s \o t, n)
<1>1. PICK n \in Nat : n = Len(s)
  OBVIOUS
<1>2. PICK m \in Nat : m = Len(t)
  OBVIOUS
<1> DEFINE r == s \o t
<1>3. /\ r \in Seq(S) /\ Len(r) = n + m
      /\ \A i \in 1 .. n : r[i] = s[i]
      /\ \A i \in 1 .. n + m : i > n => r[i] = t[i - n]
  BY <1>1, <1>2
<1>4. \A i \in 1 .. n + m : i \in 1 .. n \/ (i > n /\ i - n \in 1 .. m)
  OBVIOUS
<1> HIDE DEF r
<1>5. /\ \A i \in 1 .. n : s[i] \in Int
      /\ \A i \in 1 .. m : t[i] \in Int
  <2>1. (\A i \in 1 .. n : s[i] \in S) /\ (\A i \in 1 .. m : t[i] \in S)
    BY <1>1, <1>2
  <2> QED
    BY <2>1
<1>6. Ascending(s) /\ Ascending(t) /\ Before(s, t) => Ascending(r)
  <2> SUFFICES ASSUME Ascending(s), Ascending(t), Before(s, t),
                      NEW i \in 1 .. n + m, NEW j \in 1 .. n + m, i < j
               PROVE  r[i] < r[j]
    BY <1>3 DEF Ascending
  <2>1. CASE j <= n
    BY <1>1, <1>3, <2>1 DEF Ascending
  <2>2. CASE i > n
    <3>1. i - n \in 1 .. m /\ j - n \in 1 .. m /\ i - n < j - n
      BY <2>2
    <3>2. r[i] = t[i - n] /\ r[j] = t[j - n]
      BY <1>3, <2>2
    <3>3. t[i - n] < t[j - n]
      BY <1>2, <3>1 DEF Ascending
    <3> QED
      BY <3>2, <3>3
  <2>3. CASE i <= n /\ j > n
    <3>1. i \in 1 .. n /\ j - n \in 1 .. m /\ r[i] = s[i] /\ r[j] = t[j - n]
      BY <1>3, <2>3
    <3> QED
      BY <1>1, <1>2, <3>1 DEF Before
  <2> QED
    BY <2>1, <2>2, <2>3
<1>7. \A u \in Seq(S) : Before(s, u) /\ Before(t, u) => Before(r, u)
  <2> SUFFICES ASSUME NEW u \in Seq(S), Before(s, u), Before(t, u),
                      NEW i \in 1 .. n + m, NEW j \in 1 .. Len(u)
               PROVE  r[i] < u[j]
    BY <1>3 DEF Before
  <2>1. CASE i \in 1 .. n
    BY <1>1, <1>3, <2>1 DEF Before
  <2>2. CASE i > n /\ i - n \in 1 .. m
    BY <1>2, <1>3, <2>2 DEF Before
  <2> QED
    BY <1>4, <2>1, <2>2
<1>8. \A k \in Int : UpTo(s, k) /\ UpTo(t, k) => UpTo(r, k)
  BY <1>1, <1>2, <1>3, <1>4 DEF UpTo
<1> QED
  BY <1>3, <1>6, <1>7, <1>8 DEF r

\* An INSERT leaves the table as it is or puts the batch behind it.
LEMMA TableInOrder ==
    ASSUME TypeOK, PiecesInOrder, NEW f \in Flusher, WriteEnds(f)
    PROVE  /\ durable' \in Seq(1 .. MaxRecords)
           /\ Ascending(durable') /\ UpTo(durable', enqueued) /\ Before(durable', buffer)
           /\ \A g \in Flusher : batch[g] = <<>> => Before(durable', batch[g])
<1>1. durable' = durable \/ durable' = durable \o batch[f]
  BY DEF WriteEnds, Committed, Refused, AnswerLost
<1>2. /\ durable \in Seq(1 .. MaxRecords) /\ batch[f] \in Seq(1 .. MaxRecords)
      /\ buffer \in Seq(1 .. MaxRecords) /\ enqueued \in Int
  BY MaxRecordsAssumption DEF TypeOK
<1>3. (1 .. MaxRecords) \in SUBSET Int
  BY MaxRecordsAssumption
<1>4. /\ Ascending(durable) /\ Ascending(batch[f]) /\ Before(durable, batch[f])
      /\ Before(durable, buffer) /\ Before(batch[f], buffer)
      /\ UpTo(durable, enqueued) /\ UpTo(batch[f], enqueued)
  BY DEF PiecesInOrder
<1>5. /\ durable' \in Seq(1 .. MaxRecords)
      /\ Ascending(durable') /\ UpTo(durable', enqueued) /\ Before(durable', buffer)
  <2>1. CASE durable' = durable
    BY <1>2, <1>4, <2>1, Zenon
  <2>2. CASE durable' = durable \o batch[f]
    BY <1>2, <1>3, <1>4, <2>2, JoinedInOrder, Zenon
  <2> QED
    BY <1>1, <2>1, <2>2
<1>6. Before(durable', <<>>)
  BY DEF Before
<1> QED
  BY <1>5, <1>6, Zenon

LEMMA NothingInOrder ==
    /\ Ascending(<<>>)
    /\ \A s : Before(<<>>, s) /\ Before(s, <<>>)
    /\ \A n \in Nat : UpTo(<<>>, n)
  BY DEF Ascending, Before, UpTo

LEMMA OneFlushInv == TypeOK /\ Drained => OneFlush
  BY DEF TypeOK, Drained, OneFlush

LEMMA InOrderStep == TypeOK /\ Drained /\ PiecesInOrder /\ [Next]_vars => PiecesInOrder'
<1> SUFFICES ASSUME TypeOK, Drained, PiecesInOrder, [Next]_vars
             PROVE  PiecesInOrder'
  OBVIOUS
<1>1. enqueued \in Nat
  BY MaxRecordsAssumption DEF TypeOK
<1>2. CASE Enqueue
  <2>1. /\ enqueued' = enqueued + 1 /\ buffer' = Append(Kept, enqueued + 1)
        /\ UNCHANGED <<durable, batch>>
    BY <1>2, EnqueueFacts
  <2>2. Ascending(Kept)
    <3>1. buffer \in Seq(1 .. MaxRecords) /\ Ascending(buffer)
      BY DEF TypeOK, PiecesInOrder
    <3>2. CASE Len(buffer) >= Capacity
      <4>1. PICK n \in Nat : n = Len(buffer)
        BY <3>1
      <4>2. buffer # <<>> /\ Kept = Tail(buffer)
        BY <3>1, <3>2, CapacityAssumption DEF Kept
      <4>3. Len(Kept) = n - 1 /\ \A i \in 1 .. n - 1 : Kept[i] = buffer[i + 1]
        BY <3>1, <4>1, <4>2
      <4>4. \A i \in 1 .. n - 1 : i + 1 \in 1 .. n
        BY <4>1
      <4>5. \A i, j \in 1 .. n - 1 : i < j => i + 1 < j + 1
        OBVIOUS
      <4> QED
        BY <3>1, <4>1, <4>3, <4>4, <4>5 DEF Ascending
    <3>3. CASE ~(Len(buffer) >= Capacity)
      BY <3>1, <3>3 DEF Kept
    <3> QED
      BY <3>2, <3>3
  <2>3. PICK k \in Nat : k = Len(Kept)
    BY KeptFacts
  <2>4. \A i \in 1 .. k : Kept[i] \in Nat /\ Kept[i] <= enqueued
    <3>0. Kept \in Seq(1 .. MaxRecords)
      BY KeptFacts
    <3>1. \A i \in 1 .. k : Kept[i] \in 1 .. MaxRecords
      BY <2>3, <3>0, MaxRecordsAssumption
    <3>2. \A j \in 1 .. Len(buffer) : buffer[j] <= enqueued
      BY DEF PiecesInOrder, UpTo
    <3>3. \A i \in 1 .. k : \E j \in 1 .. Len(buffer) : Kept[i] = buffer[j]
      BY <2>3, KeptFacts
    <3>4. \A i \in 1 .. k : Kept[i] \in Nat
      BY <3>1, MaxRecordsAssumption
    <3> QED
      BY <3>2, <3>3, <3>4
  <2>5. /\ Len(buffer') = k + 1 /\ buffer'[k + 1] = enqueued + 1
        /\ \A i \in 1 .. k : buffer'[i] = Kept[i]
    BY <1>1, <2>1, <2>3, KeptFacts
  <2>6. \A i \in 1 .. k + 1 : i \in 1 .. k \/ i = k + 1
    BY <2>3
  <2>7. Ascending(buffer')
    BY <1>1, <2>2, <2>3, <2>4, <2>5, <2>6 DEF Ascending
  <2>8. UpTo(buffer', enqueued')
    BY <1>1, <2>1, <2>4, <2>5, <2>6 DEF UpTo
  <2>9. ASSUME NEW s \in Seq(1 .. MaxRecords), UpTo(s, enqueued), Before(s, buffer)
        PROVE  UpTo(s, enqueued') /\ Before(s, buffer')
    <3>1. \A i \in 1 .. Len(s) : s[i] \in Nat /\ s[i] <= enqueued
      BY <2>9, MaxRecordsAssumption DEF UpTo
    <3>2. UpTo(s, enqueued')
      BY <1>1, <2>1, <3>1 DEF UpTo
    <3>3. \A j \in 1 .. Len(buffer') :
              buffer'[j] = enqueued + 1 \/ \E i \in 1 .. Len(buffer) : buffer'[j] = buffer[i]
      BY <1>2, EnqueueFacts
    <3>4. Before(s, buffer')
      BY <1>1, <2>9, <3>1, <3>3 DEF Before
    <3> QED
      BY <3>2, <3>4
  <2> QED
    BY <2>1, <2>7, <2>8, <2>9 DEF PiecesInOrder, TypeOK
<1>3. ASSUME NEW f \in Flusher, Take(f), batch[f] = <<>>, UNCHANGED <<enqueued, durable>>
      PROVE  PiecesInOrder'
  <2>1. /\ buffer' = <<>> /\ batch'[f] = buffer
        /\ \A g \in Flusher : g # f => batch'[g] = batch[g]
    BY <1>3 DEF Take, TypeOK
  <2> QED
    BY <1>1, <1>3, <2>1, NothingInOrder DEF PiecesInOrder
<1>4. CASE UNCHANGED <<enqueued, buffer, batch, durable>>
  BY <1>4 DEF PiecesInOrder, Ascending, Before, UpTo
<1>5. CASE Start
  BY <1>4, <1>5 DEF Start
<1>6. CASE LoopBegins
  <2>1. batch["loop"] = <<>>
    BY <1>6 DEF LoopBegins, TypeOK
  <2> QED
    BY <1>3, <1>4, <1>6, <2>1 DEF LoopBegins, Flusher
<1>7. CASE LoopWakes
  <2>1. batch["loop"] = <<>>
    BY <1>7 DEF LoopWakes, TypeOK
  <2> QED
    BY <1>3, <1>7, <2>1 DEF LoopWakes, Flusher
<1>8. ASSUME NEW f \in Flusher, WriteEnds(f), batch[f] # <<>>, batch'[f] = <<>>,
             \A g \in Flusher : g # f => batch'[g] = batch[g],
             UNCHANGED <<enqueued, buffer>>
      PROVE  PiecesInOrder'
  <2>1. \A g \in Flusher : batch'[g] = <<>>
    BY <1>8, OneFlushInv DEF OneFlush, Flusher
  <2>2. Ascending(durable') /\ UpTo(durable', enqueued) /\ Before(durable', buffer)
    BY <1>8, TableInOrder
  <2> QED
    BY <1>1, <1>8, <2>1, <2>2, NothingInOrder DEF PiecesInOrder
<1>9. CASE LoopWrites
  <2>1. WriteEnds("loop") /\ UNCHANGED enqueued /\ batch["loop"] # <<>>
    BY <1>9 DEF LoopWrites, TypeOK
  <2>2. CASE stopping
    <3>1. buffer' = <<>> /\ batch'["loop"] = buffer /\ batch'["stop"] = batch["stop"]
      BY <1>9, <2>2 DEF LoopWrites, Take, TypeOK, Flusher
    <3>2. batch["stop"] = <<>>
      BY <2>1, OneFlushInv DEF OneFlush
    <3>3. Ascending(durable') /\ UpTo(durable', enqueued) /\ Before(durable', buffer)
      BY <2>1, TableInOrder DEF Flusher
    <3> QED
      BY <1>1, <2>1, <3>1, <3>2, <3>3, NothingInOrder DEF PiecesInOrder, Flusher
  <2>3. CASE ~stopping
    <3>1. buffer' = buffer /\ batch'["loop"] = <<>> /\ batch'["stop"] = batch["stop"]
      BY <1>9, <2>3 DEF LoopWrites, TypeOK, Flusher
    <3> QED
      BY <1>8, <2>1, <3>1 DEF Flusher
  <2> QED
    BY <2>2, <2>3
<1>10. CASE LoopWritesLast
  <2>1. WriteEnds("loop") /\ UNCHANGED <<enqueued, buffer>> /\ batch["loop"] # <<>>
    BY <1>10 DEF LoopWritesLast, TypeOK
  <2>2. batch'["loop"] = <<>> /\ batch'["stop"] = batch["stop"]
    BY <1>10 DEF LoopWritesLast, TypeOK, Flusher
  <2> QED
    BY <1>8, <2>1, <2>2 DEF Flusher
<1>11. CASE Stop
  BY <1>4, <1>11 DEF Stop
<1>12. CASE StopJoins
  <2>1. batch["stop"] = <<>>
    BY <1>12 DEF StopJoins, TypeOK
  <2> QED
    BY <1>3, <1>12, <2>1 DEF StopJoins, Flusher
<1>13. CASE StopWrites
  <2>1. WriteEnds("stop") /\ UNCHANGED <<enqueued, buffer>> /\ batch["stop"] # <<>>
    BY <1>13 DEF StopWrites, TypeOK
  <2>2. batch'["stop"] = <<>> /\ batch'["loop"] = batch["loop"]
    BY <1>13 DEF StopWrites, TypeOK, Flusher
  <2> QED
    BY <1>8, <2>1, <2>2 DEF Flusher
<1>14. CASE UNCHANGED vars
  BY <1>4, <1>14 DEF vars
<1> QED
  BY <1>2, <1>5, <1>6, <1>7, <1>9, <1>10, <1>11, <1>12, <1>13, <1>14 DEF Next, LoopStep

LEMMA InOrderInit == Init => PiecesInOrder
<1> SUFFICES ASSUME Init PROVE PiecesInOrder
  OBVIOUS
<1>1. durable = <<>> /\ buffer = <<>> /\ enqueued \in Nat /\ \A f \in Flusher : batch[f] = <<>>
  BY DEF Init
<1> QED
  BY <1>1, NothingInOrder DEF PiecesInOrder

LEMMA DrainedInit == Init => Drained
  BY DEF Init, Drained

LEMMA InOrderInductive == Spec => [](TypeOK /\ Drained /\ PiecesInOrder)
  BY InOrderInit, InOrderStep, DrainedInit, DrainedStep, TypeInit, TypeStep, PTL DEF Spec

\* Records reach the requests table in the order of their enqueue, each at most
\* once, whichever coroutine writes them and whichever INSERTs fail.
THEOREM RowsStayInOrder == Spec => []RowsInOrder
<1>1. TypeOK /\ Drained /\ PiecesInOrder => RowsInOrder
  <2> SUFFICES ASSUME TypeOK, Drained, PiecesInOrder
               PROVE  RowsInOrder
    OBVIOUS
  <2> DEFINE R == 1 .. MaxRecords
             b1 == batch["loop"]
             b2 == batch["stop"]
  <2>1. R \in SUBSET Int /\ durable \in Seq(R) /\ b1 \in Seq(R) /\ b2 \in Seq(R) /\ buffer \in Seq(R)
    BY MaxRecordsAssumption DEF TypeOK, Flusher
  <2>2. /\ Ascending(durable) /\ Ascending(b1) /\ Ascending(b2) /\ Ascending(buffer)
        /\ Before(durable, b1) /\ Before(durable, b2) /\ Before(durable, buffer)
        /\ Before(b1, buffer) /\ Before(b2, buffer)
    BY DEF PiecesInOrder, Flusher
  <2>3. Before(b1, b2)
    BY OneFlushInv, NothingInOrder DEF OneFlush
  <2> HIDE DEF R, b1, b2
  <2>4. durable \o b1 \in Seq(R) /\ Ascending(durable \o b1)
    BY <2>1, <2>2, JoinedInOrder, Zenon
  <2>5. Before(durable \o b1, b2) /\ Before(durable \o b1, buffer)
    BY <2>1, <2>2, <2>3, JoinedInOrder, Zenon
  <2>6. (durable \o b1) \o b2 \in Seq(R) /\ Ascending((durable \o b1) \o b2)
    BY <2>1, <2>2, <2>4, <2>5, JoinedInOrder, Zenon
  <2>7. Before((durable \o b1) \o b2, buffer)
    BY <2>1, <2>2, <2>4, <2>5, JoinedInOrder, Zenon
  <2>8. Ascending(((durable \o b1) \o b2) \o buffer)
    BY <2>1, <2>2, <2>6, <2>7, JoinedInOrder, Zenon
  <2> QED
    BY <2>8 DEF RowsInOrder, InOrder, Ascending, b1, b2
<1> QED
  BY <1>1, InOrderInductive, PTL
-----------------------------------------------------------------------------
\* The mapping to AttemptLog.  An ascending sequence is its set, counted.
LEMMA SetOfAscending ==
    ASSUME NEW S \in SUBSET Int, NEW s \in Seq(S), Ascending(s)
    PROVE  IsFiniteSet(ToSet(s)) /\ Cardinality(ToSet(s)) = Len(s)
<1>1. PICK n \in Nat : n = Len(s)
  OBVIOUS
<1> DEFINE f == [i \in 1 .. n |-> s[i]]
<1>2. \A i \in 1 .. n : s[i] \in S
  BY <1>1
<1>3. \A i \in 1 .. n : s[i] \in Int
  BY <1>2
<1>4. \A i, j \in 1 .. n : s[i] = s[j] => i = j
  BY <1>1, <1>3 DEF Ascending
<1>5. f \in Bijection(1 .. n, ToSet(s))
  <2>1. f \in [1 .. n -> ToSet(s)]
    BY <1>1 DEF ToSet
  <2>2. \A t \in ToSet(s) : \E i \in 1 .. n : f[i] = t
    BY <1>1 DEF ToSet
  <2> QED
    BY <1>4, <2>1, <2>2 DEF Bijection, Injection, Surjection, IsInjective
<1>6. ExistsBijection(1 .. n, ToSet(s))
  BY <1>5 DEF ExistsBijection
<1>7. IsFiniteSet(ToSet(s))
  BY <1>6, FS_NatBijection
<1>8. Cardinality(ToSet(s)) = n
  BY <1>6, FS_CountingElements
<1> QED
  BY <1>1, <1>7, <1>8

LEMMA SetOfJoined ==
    ASSUME NEW S \in SUBSET Int, NEW s \in Seq(S), NEW t \in Seq(S)
    PROVE  ToSet(s \o t) = ToSet(s) \cup ToSet(t)
<1>1. PICK n \in Nat : n = Len(s)
  OBVIOUS
<1>2. PICK m \in Nat : m = Len(t)
  OBVIOUS
<1> DEFINE r == s \o t
<1>3. /\ Len(r) = n + m
      /\ \A i \in 1 .. n : r[i] = s[i]
      /\ \A i \in 1 .. n + m : i > n => r[i] = t[i - n]
  BY <1>1, <1>2
<1> HIDE DEF r
<1>4. \A i \in 1 .. n + m : i \in 1 .. n \/ (i > n /\ i - n \in 1 .. m)
  OBVIOUS
<1>5. \A i \in 1 .. m : i + n \in 1 .. n + m /\ i + n > n /\ (i + n) - n = i
  OBVIOUS
<1>6. \A i \in 1 .. n : i \in 1 .. n + m
  OBVIOUS
<1>7. ToSet(r) \subseteq ToSet(s) \cup ToSet(t)
  BY <1>1, <1>2, <1>3, <1>4 DEF ToSet
<1>8. ToSet(s) \subseteq ToSet(r)
  BY <1>1, <1>3, <1>6 DEF ToSet
<1>9. ToSet(t) \subseteq ToSet(r)
  <2> SUFFICES ASSUME NEW i \in 1 .. m PROVE \E j \in 1 .. n + m : t[i] = r[j]
    BY <1>2, <1>3 DEF ToSet
  <2>1. r[i + n] = t[i]
    BY <1>3, <1>5
  <2> QED
    BY <1>5, <2>1
<1> QED
  BY <1>7, <1>8, <1>9 DEF r

LEMMA SetsApart ==
    ASSUME NEW S \in SUBSET Int, NEW s \in Seq(S), NEW t \in Seq(S), Before(s, t)
    PROVE  ToSet(s) \cap ToSet(t) = {}
<1>1. /\ \A i \in 1 .. Len(s) : s[i] \in S
      /\ \A i \in 1 .. Len(t) : t[i] \in S
  OBVIOUS
<1>2. /\ \A i \in 1 .. Len(s) : s[i] \in Int
      /\ \A i \in 1 .. Len(t) : t[i] \in Int
  BY <1>1
<1>3. ASSUME NEW i \in 1 .. Len(s), NEW j \in 1 .. Len(t), s[i] = t[j]
      PROVE  FALSE
  BY <1>2, <1>3 DEF Before
<1> QED
  BY ONLY <1>3 DEF ToSet

LEMMA SetOfNothing == ToSet(<<>>) = {}
  BY DEF ToSet

LEMMA LogCounts == \A S : Log!Cardinality(S) = Cardinality(S)
  BY DEF Log!Cardinality, Cardinality, Log!IsFiniteSet, IsFiniteSet

\* What an INSERT's end is in AttemptLog: it settles the records of the batch.
LEMMA WriteSettles ==
    ASSUME TypeOK, PiecesInOrder, NEW f \in Flusher, WriteEnds(f), batch[f] # <<>>,
           enqueued' = enqueued, Pending' = Pending \ ToSet(batch[f])
    PROVE  Log!Settle
<1> DEFINE done == ToSet(batch[f])
<1>1. /\ batch[f] \in Seq(1 .. MaxRecords) /\ durable \in Seq(1 .. MaxRecords)
      /\ Ascending(batch[f])
  BY DEF TypeOK, PiecesInOrder
<1>2. (1 .. MaxRecords) \in SUBSET Int
  BY MaxRecordsAssumption
<1>3. Cardinality(done) = Len(batch[f])
  BY <1>1, <1>2, SetOfAscending
<1>4. ToSet(durable \o batch[f]) = ToSet(durable) \cup done
  BY <1>1, <1>2, SetOfJoined
<1>5. done # {} /\ done \in SUBSET Pending
  <2>1. 1 \in 1 .. Len(batch[f])
    BY <1>1
  <2>2. done # {}
    BY <2>1 DEF ToSet
  <2>3. done \in SUBSET Pending
    BY DEF Pending, Flusher
  <2> QED
    BY <2>2, <2>3
<1> HIDE DEF done
<1>6. Pending' = Pending \ done
  BY DEF done
<1>7. \/ ToSet(durable)' = ToSet(durable) \cup done /\ dropped_total' = dropped_total
      \/ ToSet(durable)' = ToSet(durable) /\ dropped_total' = dropped_total + Cardinality(done)
      \/ ToSet(durable)' = ToSet(durable) \cup done
            /\ dropped_total' = dropped_total + Cardinality(done)
  BY <1>3, <1>4 DEF WriteEnds, Committed, Refused, AnswerLost, ToSet
<1> QED
  BY <1>5, <1>6, <1>7, LogCounts DEF Log!Settle

\* Taking the deque is not a step of AttemptLog, and neither is anything that
\* leaves the queue, the batches and the counter alone.
LEMMA TakeStutters ==
    ASSUME TypeOK, NEW f \in Flusher, batch[f] = <<>>, Take(f)
    PROVE  Pending' = Pending
<1>1. batch' = [batch EXCEPT ![f] = buffer] /\ buffer' = <<>> /\ ToSet(<<>>) = {}
  BY SetOfNothing DEF Take
<1>2. CASE f = "loop"
  <2>1. batch'["loop"] = buffer /\ batch'["stop"] = batch["stop"]
    BY <1>1, <1>2 DEF TypeOK, Flusher
  <2> QED
    BY <1>1, <1>2, <2>1 DEF Pending, ToSet
<1>3. CASE f = "stop"
  <2>1. batch'["stop"] = buffer /\ batch'["loop"] = batch["loop"]
    BY <1>1, <1>3 DEF TypeOK, Flusher
  <2> QED
    BY <1>1, <1>3, <2>1 DEF Pending, ToSet
<1> QED
  BY <1>2, <1>3 DEF Flusher

\* enqueue is Submit: what a full deque loses is its head, which is pending and
\* in no batch.
LEMMA EnqueueSubmits ==
    ASSUME TypeOK, PiecesInOrder, Enqueue
    PROVE  Log!Submit
<1>1. /\ enqueued' = enqueued + 1 /\ buffer' = Append(Kept, enqueued + 1)
      /\ dropped_total' = dropped_total + (Len(buffer) - Len(Kept))
      /\ UNCHANGED <<batch, durable>>
  BY EnqueueFacts
<1> DEFINE R == 1 .. MaxRecords
           others == ToSet(batch["loop"]) \cup ToSet(batch["stop"])
<1>2. /\ R \in SUBSET Int /\ buffer \in Seq(R) /\ Kept \in Seq(R)
      /\ batch["loop"] \in Seq(R) /\ batch["stop"] \in Seq(R)
  BY KeptFacts, MaxRecordsAssumption DEF TypeOK, Flusher
<1>3. PICK k \in Nat : k = Len(Kept)
  BY <1>2
<1>4. ToSet(buffer') = ToSet(Kept) \cup {enqueued + 1}
  <2>1. Len(buffer') = k + 1 /\ buffer'[k + 1] = enqueued + 1 /\ \A i \in 1 .. k : buffer'[i] = Kept[i]
    BY <1>1, <1>2, <1>3
  <2>2. \A i \in 1 .. k + 1 : i \in 1 .. k \/ i = k + 1
    OBVIOUS
  <2>3. (\A i \in 1 .. k : i \in 1 .. k + 1) /\ k + 1 \in 1 .. k + 1
    OBVIOUS
  <2> QED
    BY <1>3, <2>1, <2>2, <2>3 DEF ToSet
<1>5. others \cap ToSet(buffer) = {}
  <2>1. Before(batch["loop"], buffer) /\ Before(batch["stop"], buffer)
    BY DEF PiecesInOrder, Flusher
  <2> HIDE DEF R
  <2>2. ToSet(batch["loop"]) \cap ToSet(buffer) = {}
    BY <1>2, <2>1, SetsApart
  <2>3. ToSet(batch["stop"]) \cap ToSet(buffer) = {}
    BY <1>2, <2>1, SetsApart
  <2> QED
    BY <2>2, <2>3
<1>6. Pending = ToSet(buffer) \cup others /\ Pending' = ToSet(buffer') \cup others
  BY <1>1 DEF Pending, ToSet
<1> DEFINE lost == ToSet(buffer) \ ToSet(Kept)
<1>7. /\ ToSet(buffer) = ToSet(Kept) \cup lost
      /\ Cardinality(lost) = Len(buffer) - Len(Kept)
      /\ Cardinality(lost) <= 1
  <2>1. CASE Len(buffer) >= Capacity
    <3>1. PICK n \in Nat : n = Len(buffer)
      BY <1>2
    <3>2. buffer # <<>> /\ Kept = Tail(buffer)
      BY <1>2, <2>1, CapacityAssumption DEF Kept
    <3>3. n # 0 /\ Len(Kept) = n - 1 /\ \A i \in 1 .. n - 1 : Kept[i] = buffer[i + 1]
      BY <1>2, <3>1, <3>2
    <3>4. \A i \in 1 .. n : i = 1 \/ (i - 1 \in 1 .. n - 1 /\ (i - 1) + 1 = i)
      BY <3>3
    <3>5. \A i \in 1 .. n - 1 : i + 1 \in 1 .. n
      OBVIOUS
    <3>6. ToSet(buffer) \subseteq ToSet(Kept) \cup {buffer[1]}
      <4>1. \A i \in 1 .. n : i = 1 \/ \E j \in 1 .. n - 1 : buffer[i] = Kept[j]
        BY <3>3, <3>4
      <4>2. ToSet(buffer) = {buffer[i] : i \in 1 .. n}
        BY <3>1 DEF ToSet
      <4>3. ToSet(Kept) = {Kept[j] : j \in 1 .. n - 1}
        BY <3>3 DEF ToSet
      <4> HIDE DEF ToSet
      <4> QED
        BY <4>1, <4>2, <4>3
    <3>7. ToSet(Kept) \subseteq ToSet(buffer) /\ buffer[1] \in ToSet(buffer)
      BY <3>1, <3>3, <3>5 DEF ToSet
    <3>8. buffer[1] \notin ToSet(Kept)
      <4>1. \A i \in 1 .. n : buffer[i] \in R
        BY <1>2, <3>1, MaxRecordsAssumption
      <4>2. \A i \in 1 .. n - 1 : buffer[1] < buffer[i + 1]
        BY <3>1, <3>5 DEF PiecesInOrder, Ascending
      <4>3. \A i \in 1 .. n - 1 : buffer[1] # buffer[i + 1]
        BY <3>5, <4>1, <4>2, MaxRecordsAssumption
      <4> QED
        BY <3>3, <4>3 DEF ToSet
    <3>9. lost = {buffer[1]}
      BY <3>6, <3>7, <3>8
    <3>10. Cardinality(lost) = 1
      BY <3>9, FS_Singleton
    <3> HIDE DEF lost
    <3>11. Len(buffer) - Len(Kept) = 1
      BY <3>1, <3>3
    <3> QED
      BY <3>7, <3>10, <3>11 DEF lost
  <2>2. CASE ~(Len(buffer) >= Capacity)
    <3>1. Kept = buffer
      BY <2>2 DEF Kept
    <3>2. lost = {} /\ Cardinality({}) = 0
      BY <3>1, FS_EmptySet
    <3>3. Len(buffer) - Len(Kept) = 0
      BY <1>2, <3>1
    <3> QED
      BY <3>1, <3>2, <3>3
  <2> QED
    BY <2>1, <2>2
<1>8. lost \in SUBSET Pending
  BY <1>6
<1>9. Pending' = (Pending \ lost) \cup {enqueued + 1}
  BY <1>4, <1>5, <1>6, <1>7
<1>10. dropped_total' = dropped_total + Cardinality(lost)
  BY <1>1, <1>7
<1>11. ToSet(durable)' = ToSet(durable)
  BY <1>1 DEF ToSet
<1> HIDE DEF lost
<1> QED
  BY <1>1, <1>7, <1>8, <1>9, <1>10, <1>11, LogCounts DEF Log!Submit

LEMMA StepMaps == TypeOK /\ Drained /\ PiecesInOrder /\ [Next]_vars => [Log!Next]_(Log!vars)
<1> SUFFICES ASSUME TypeOK, Drained, PiecesInOrder, [Next]_vars
             PROVE  [Log!Next]_(Log!vars)
  OBVIOUS
<1>1. CASE Enqueue
  BY <1>1, EnqueueSubmits DEF Log!Next
<1>2. ASSUME Pending' = Pending, UNCHANGED <<enqueued, durable, dropped_total>>
      PROVE  Log!vars' = Log!vars
  BY <1>2 DEF Log!vars, ToSet
<1>3. CASE UNCHANGED <<enqueued, buffer, batch, durable, dropped_total>>
  <2>1. Pending' = Pending
    BY <1>3 DEF Pending, ToSet
  <2> QED
    BY <1>2, <1>3, <2>1
<1>4. CASE Start \/ Stop \/ UNCHANGED vars
  BY <1>3, <1>4 DEF Start, Stop, vars
<1>5. CASE LoopBegins
  <2>1. batch["loop"] = <<>> /\ UNCHANGED <<enqueued, durable, dropped_total>>
    BY <1>5 DEF LoopBegins, TypeOK
  <2>2. CASE stopping
    BY <1>2, <1>5, <2>1, <2>2, TakeStutters DEF LoopBegins, Flusher
  <2>3. CASE ~stopping
    BY <1>3, <1>5, <2>1, <2>3 DEF LoopBegins
  <2> QED
    BY <2>2, <2>3
<1>6. CASE LoopWakes
  <2>1. batch["loop"] = <<>> /\ Take("loop") /\ UNCHANGED <<enqueued, durable, dropped_total>>
    BY <1>6 DEF LoopWakes, TypeOK
  <2> QED
    BY <1>2, <2>1, TakeStutters DEF Flusher
<1>7. CASE StopJoins
  <2>1. batch["stop"] = <<>> /\ Take("stop") /\ UNCHANGED <<enqueued, durable, dropped_total>>
    BY <1>7 DEF StopJoins, TypeOK
  <2> QED
    BY <1>2, <2>1, TakeStutters DEF Flusher
<1>8. ASSUME NEW f \in Flusher, WriteEnds(f), batch[f] # <<>>, enqueued' = enqueued,
             ToSet(buffer') \cup ToSet(batch'[f]) = ToSet(buffer),
             \A g \in Flusher : g # f => batch'[g] = batch[g]
      PROVE  Log!Next
  <2>1. \A g \in Flusher : g # f => batch[g] = <<>>
    BY <1>8, OneFlushInv DEF OneFlush, Flusher
  <2>2. Before(batch[f], buffer) /\ batch[f] \in Seq(1 .. MaxRecords) /\ buffer \in Seq(1 .. MaxRecords)
    BY DEF PiecesInOrder, TypeOK
  <2>3. (1 .. MaxRecords) \in SUBSET Int
    BY MaxRecordsAssumption
  <2>4. ToSet(batch[f]) \cap ToSet(buffer) = {}
    BY <2>2, <2>3, SetsApart
  <2>5. Pending = ToSet(buffer) \cup ToSet(batch[f])
    BY <2>1, SetOfNothing DEF Pending, Flusher
  <2>6. Pending' = ToSet(buffer') \cup ToSet(batch'[f])
    <3>1. \A g \in Flusher : g # f => ToSet(batch'[g]) = {}
      BY <1>8, <2>1, SetOfNothing
    <3>2. Pending' = ToSet(buffer') \cup ToSet(batch'["loop"]) \cup ToSet(batch'["stop"])
      BY DEF Pending, ToSet
    <3> QED
      BY <3>1, <3>2 DEF Flusher
  <2>7. Pending' = Pending \ ToSet(batch[f])
    BY <1>8, <2>4, <2>5, <2>6
  <2> QED
    BY <1>8, <2>7, WriteSettles DEF Log!Next
<1>9. CASE LoopWrites
  <2>1. WriteEnds("loop") /\ enqueued' = enqueued /\ batch["loop"] # <<>>
    BY <1>9 DEF LoopWrites, TypeOK
  <2>2. CASE stopping
    <3>1. buffer' = <<>> /\ batch'["loop"] = buffer /\ batch'["stop"] = batch["stop"]
      BY <1>9, <2>2 DEF LoopWrites, Take, TypeOK, Flusher
    <3> QED
      BY <1>8, <2>1, <3>1, SetOfNothing DEF Flusher
  <2>3. CASE ~stopping
    <3>1. buffer' = buffer /\ batch'["loop"] = <<>> /\ batch'["stop"] = batch["stop"]
      BY <1>9, <2>3 DEF LoopWrites, TypeOK, Flusher
    <3> QED
      BY <1>8, <2>1, <3>1, SetOfNothing DEF Flusher
  <2> QED
    BY <2>2, <2>3
<1>10. CASE LoopWritesLast
  <2>1. WriteEnds("loop") /\ enqueued' = enqueued /\ batch["loop"] # <<>>
    BY <1>10 DEF LoopWritesLast, TypeOK
  <2>2. buffer' = buffer /\ batch'["loop"] = <<>> /\ batch'["stop"] = batch["stop"]
    BY <1>10 DEF LoopWritesLast, TypeOK, Flusher
  <2> QED
    BY <1>8, <2>1, <2>2, SetOfNothing DEF Flusher
<1>11. CASE StopWrites
  <2>1. WriteEnds("stop") /\ enqueued' = enqueued /\ batch["stop"] # <<>>
    BY <1>11 DEF StopWrites, TypeOK
  <2>2. buffer' = buffer /\ batch'["stop"] = <<>> /\ batch'["loop"] = batch["loop"]
    BY <1>11 DEF StopWrites, TypeOK, Flusher
  <2> QED
    BY <1>8, <2>1, <2>2, SetOfNothing DEF Flusher
<1> QED
  BY <1>1, <1>4, <1>5, <1>6, <1>7, <1>9, <1>10, <1>11 DEF Next, LoopStep

\* The writer implements AttemptLog: a record once submitted is pending until one
\* batch settles it, and what does not become durable is counted, once.
THEOREM WriterImplementsLog == Spec => ImplementsAttemptLog
<1>1. Init => Log!Init
  <2> SUFFICES ASSUME Init PROVE Log!Init
    OBVIOUS
  <2>1. /\ enqueued = 0 /\ dropped_total = 0 /\ durable = <<>> /\ buffer = <<>>
        /\ batch["loop"] = <<>> /\ batch["stop"] = <<>>
    BY DEF Init, Flusher
  <2> QED
    BY <2>1, SetOfNothing DEF Log!Init, Pending
<1> QED
  BY <1>1, StepMaps, InOrderInductive, PTL DEF Spec, ImplementsAttemptLog, Log!Spec
=============================================================================
