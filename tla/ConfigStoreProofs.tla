------------------------- MODULE ConfigStoreProofs -------------------------
(***************************************************************************)
(* Safety of the configuration path for every fleet, every number of       *)
(* loads at once, every cache lifetime and every series of writes.         *)
(***************************************************************************)
EXTENDS ConfigStore, TLAPS

Inside(t) == pc[t] \notin {"idle", "locking"}

\* What load_from_db has read when it is at a query.
Seen(t, r) ==
    \/ pc[t] = "storing"
    \/ pc[t] = "tier_models" /\ r \in {"routing", "tier"}
    \/ pc[t] = "tiers" /\ r = "routing"

\* What the steps need of the types.
ConfigRows == [Row -> Int]
Types ==
    /\ now \in Nat /\ now <= MaxTime
    /\ db \in ConfigRows /\ cache \in ConfigRows
    /\ expires \in Nat
    /\ writes \in Nat /\ writes <= MaxWrites
    /\ done \in Nat /\ done <= writes
    /\ writing \in {<<>>, Rows, <<"tier", "openai", "routing">>}
    /\ next \in Nat \ {0} /\ next <= Len(writing) + 1
    /\ changed \in Nat /\ changed <= now
    /\ pc \in [Task -> {"idle", "locking", "routing_config", "tiers", "tier_models", "storing"}]
    /\ on \in [Task -> Replica \cup {NoReplica}]
    /\ force \in [Task -> BOOLEAN]
    /\ cfg \in [Task -> ConfigRows]
    /\ lock \in [Replica -> Task \cup {NoTask}]
    /\ locked_at \in [Replica -> Nat]
    /\ \A p \in Replica : locked_at[p] <= now
    /\ holder \in [Replica -> ConfigRows]
    /\ refills \in [Replica -> Nat]

\* asyncio.Lock: the task inside is the one that holds its replica's lock.
Locking ==
    /\ \A t \in Task : pc[t] # "idle" => on[t] \in Replica
    /\ \A t \in Task : Inside(t) => lock[on[t]] = t
    /\ \A p \in Replica : lock[p] # NoTask => Inside(lock[p]) /\ on[lock[p]] = p

\* Nobody has read a row newer than the one in the tables.
Bounded ==
    \A r \in Row :
        /\ Absent <= db[r] /\ db[r] <= writes
        /\ Absent <= cache[r] /\ cache[r] <= db[r]
        /\ \A t \in Task : Absent <= cfg[t][r] /\ cfg[t][r] <= db[r]
        /\ \A p \in Replica : Absent <= holder[p][r] /\ holder[p][r] <= db[r]

\* An unforced load that is past the second GET is the first since the cache
\* lost its value.
Filling ==
    /\ \A p \in Replica : refills[p] <= 1
    /\ cache = Nothing => \A p \in Replica : refills[p] = 0
    /\ \A t \in Task : Inside(t) /\ ~force[t] => refills[on[t]] = 0

\* What is cached or held has a routing row, and a forced load reads nothing
\* older than what it will replace.
Whole(config) == config["routing"] # Absent
Holding ==
    /\ cache = Nothing \/ Whole(cache)
    /\ \A p \in Replica : holder[p] = Nothing \/ Whole(holder[p])
    /\ \A t \in Task : pc[t] \in {"tiers", "tier_models", "storing"} => Whole(cfg[t])
    /\ \A t \in Task : force[t] => pc[t] # "idle" /\ holder[on[t]] # Nothing
    /\ \A t \in Task : Inside(t) /\ force[t] =>
          \A r \in Row : Seen(t, r) => holder[on[t]][r] <= cfg[t][r]

\* A load that reads rows while they change stores within MaxLoad of a change.
Aging ==
    /\ expires <= now + Ttl
    /\ cache # Nothing => now < expires
    /\ cache = Nothing \/ cache = db \/ expires <= changed + MaxLoad + Ttl
    /\ \A p \in Replica : lock[p] # NoTask => now <= locked_at[p] + MaxLoad
    /\ \A t \in Task : Inside(t) =>
          locked_at[on[t]] <= changed \/ \A r \in Row : Seen(t, r) => cfg[t][r] = db[r]

IInv == Types /\ Locking /\ Bounded /\ Filling /\ Holding /\ Aging

-----------------------------------------------------------------------------
LEMMA RowFacts ==
    /\ Row = {"tier", "openai", "google", "routing"}
    /\ Len(Rows) = 4 /\ \A i \in 1 .. 4 : Rows[i] \in Row
<1>1. DOMAIN Rows = 1 .. 4 /\ Len(Rows) = 4
  BY DEF Rows
<1>2. Rows[1] = "tier" /\ Rows[2] = "openai" /\ Rows[3] = "google" /\ Rows[4] = "routing"
  BY DEF Rows
<1>3. \A i \in 1 .. 4 : i = 1 \/ i = 2 \/ i = 3 \/ i = 4
  OBVIOUS
<1>4. Row = {"tier", "openai", "google", "routing"}
  BY <1>1, <1>2, <1>3 DEF Row
<1> QED
  BY <1>1, <1>2, <1>3, <1>4

LEMMA NothingFacts == Nothing \in ConfigRows /\ \A r \in Row : Nothing[r] = -1
  BY DEF Nothing, ConfigRows, Absent

LEMMA ShortFacts == Len(<<"tier", "openai", "routing">>) = 3 /\ Len(<<>>) = 0
  OBVIOUS

LEMMA QueryFacts ==
    /\ {Queries[i] : i \in DOMAIN Queries} = {"routing_config", "tiers", "tier_models"}
    /\ Queries[1] = "routing_config" /\ Queries[2] = "tiers" /\ Queries[3] = "tier_models"
    /\ Len(Queries) = 3
    /\ \A t \in Task : pc[t] = "routing_config" => Query(t) = 1
    /\ \A t \in Task : pc[t] = "tiers" => Query(t) = 2
    /\ \A t \in Task : pc[t] = "tier_models" => Query(t) = 3
<1>1. DOMAIN Queries = 1 .. 3 /\ Len(Queries) = 3
  BY DEF Queries
<1>2. Queries[1] = "routing_config" /\ Queries[2] = "tiers" /\ Queries[3] = "tier_models"
  BY DEF Queries
<1>3. \A i \in 1 .. 3 : i = 1 \/ i = 2 \/ i = 3
  OBVIOUS
<1>4. {Queries[i] : i \in DOMAIN Queries} = {"routing_config", "tiers", "tier_models"}
  BY <1>1, <1>2, <1>3
<1>5. ASSUME NEW t \in Task, NEW n \in 1 .. 3, pc[t] = Queries[n]
      PROVE  Query(t) = n
  BY <1>1, <1>2, <1>3, <1>5 DEF Query
<1> QED
  BY <1>1, <1>2, <1>4, <1>5

-----------------------------------------------------------------------------
LEMMA InitHolds == Init => IInv
<1> SUFFICES ASSUME Init PROVE IInv
  OBVIOUS
<1>1. db \in ConfigRows /\ \A r \in Row : Absent <= db[r] /\ db[r] <= 0
  <2>1. PICK rows : db = [r \in Row |-> IF r \in rows THEN 0 ELSE Absent]
    BY DEF Init
  <2> QED
    BY <2>1 DEF ConfigRows, Absent
<1>2. Types
  BY <1>1, NothingFacts, ShortFacts, BoundAssumption DEF Init, Types
<1>3. Locking /\ Filling
  BY DEF Init, Locking, Filling, Inside
<1>4. Bounded
  BY <1>1, NothingFacts DEF Init, Bounded, Absent
<1>5. Holding
  BY DEF Init, Holding, Inside
<1>6. Aging
  BY BoundAssumption DEF Init, Aging, Inside
<1> QED
  BY <1>2, <1>3, <1>4, <1>5, <1>6 DEF IInv

LEMMA WriteBeginsStep ==
    ASSUME IInv, WriteBegins
    PROVE  IInv'
<1>1. Types'
  BY NothingFacts, BoundAssumption, NameAssumption
  DEF IInv, Types, ConfigRows, Locking, Inside, WriteBegins, cached, loader
<1>2. Locking'
  BY NothingFacts, BoundAssumption, NameAssumption
  DEF IInv, Types, Locking, Inside, WriteBegins, cached, loader
<1>3. Bounded'
  BY NothingFacts, BoundAssumption, NameAssumption
  DEF IInv, Types, Bounded, ConfigRows, Absent, Inside, WriteBegins, cached, loader
<1>4. Filling'
  BY NothingFacts, BoundAssumption, NameAssumption
  DEF IInv, Types, Locking, Filling, Holding, Inside, WriteBegins, cached, loader
<1>5. Holding'
  BY NothingFacts, BoundAssumption, NameAssumption
  DEF IInv, Types, Locking, Holding, Whole, Seen, Absent, Inside, WriteBegins, cached, loader
<1>6. Aging'
  BY NothingFacts, BoundAssumption, NameAssumption
  DEF IInv, Types, Locking, Aging, Seen, Holding, Inside, WriteBegins, cached, loader
<1> QED
  BY <1>1, <1>2, <1>3, <1>4, <1>5, <1>6 DEF IInv

\* A row written now is newer than anything read before, and whoever stores what
\* was read before does so within MaxLoad of now.
LEMMA UpsertsStep ==
    ASSUME IInv, Upserts
    PROVE  IInv'
<1>1. PICK row \in Row : db' = [db EXCEPT ![row] = writes]
  <2>1. writing[next] \in Row
    <3>1. CASE writing = Rows
      BY <3>1, RowFacts DEF Upserts, IInv, Types
    <3>2. CASE writing = <<"tier", "openai", "routing">>
      <4>1. next \in 1 .. 3
        BY <3>2, ShortFacts DEF Upserts, IInv, Types
      <4>2. writing[1] = "tier" /\ writing[2] = "openai" /\ writing[3] = "routing"
        BY <3>2
      <4>3. next = 1 \/ next = 2 \/ next = 3
        BY <4>1
      <4> QED
        BY <4>2, <4>3, RowFacts
    <3> QED
      BY <3>1, <3>2, ShortFacts DEF Upserts, IInv, Types
  <2> QED
    BY <2>1 DEF Upserts
<1>2. /\ next <= Len(writing) /\ next' = next + 1 /\ changed' = now
      /\ UNCHANGED <<now, cache, expires, refills, writes, done, writing, pc, on, force, cfg,
                     lock, locked_at, holder>>
  BY DEF Upserts, cached, loader
<1>3. Len(writing) \in Nat
  BY RowFacts, ShortFacts DEF IInv, Types
<1>4. \A r \in Row : db'[r] \in Int /\ db[r] \in Int /\ db[r] <= db'[r] /\ Absent <= db'[r] /\ db'[r] <= writes
  BY <1>1 DEF IInv, Types, Bounded, ConfigRows, Absent
<1>5. db' \in ConfigRows
  BY <1>1, <1>4 DEF IInv, Types, ConfigRows
<1>6. \A r \in Row : /\ cache[r] \in Int
                     /\ \A t \in Task : cfg[t][r] \in Int
                     /\ \A p \in Replica : holder[p][r] \in Int
  BY DEF IInv, Types, ConfigRows
<1>7. Types'
  BY <1>2, <1>3, <1>5 DEF IInv, Types
<1>8. Locking'
  BY <1>2, <1>3, <1>4, <1>5, <1>6, NothingFacts, BoundAssumption, NameAssumption
  DEF IInv, Types, Locking, Inside
<1>9. Bounded'
  BY <1>2, <1>4, <1>6 DEF IInv, Bounded, Absent
<1>10. Filling'
  BY <1>2, <1>3, <1>4, <1>5, <1>6, NothingFacts, BoundAssumption, NameAssumption
  DEF IInv, Types, Locking, Filling, Holding, Inside
<1>11. Holding'
  BY <1>2, <1>3, <1>4, <1>5, <1>6, NothingFacts, BoundAssumption, NameAssumption
  DEF IInv, Types, Locking, Holding, Whole, Seen, Absent, Inside
<1>12. Aging'
  BY <1>2, <1>3, <1>4, <1>5, <1>6, NothingFacts, BoundAssumption, NameAssumption
  DEF IInv, Types, Locking, Aging, Seen, Holding, Inside
<1> QED
  BY <1>7, <1>8, <1>9, <1>10, <1>11, <1>12 DEF IInv

LEMMA InvalidatesStep ==
    ASSUME IInv, Invalidates
    PROVE  IInv'
<1>1. Types'
  BY NothingFacts, BoundAssumption, NameAssumption
  DEF IInv, Types, ConfigRows, Locking, Inside, Invalidates, CacheIsLost, loader
<1>2. Locking'
  BY NothingFacts, BoundAssumption, NameAssumption
  DEF IInv, Types, Locking, Inside, Invalidates, CacheIsLost, loader
<1>3. Bounded'
  BY NothingFacts, BoundAssumption, NameAssumption
  DEF IInv, Types, Bounded, ConfigRows, Absent, Inside, Invalidates, CacheIsLost, loader
<1>4. Filling'
  BY NothingFacts, BoundAssumption, NameAssumption
  DEF IInv, Types, Locking, Filling, Holding, Inside, Invalidates, CacheIsLost, loader
<1>5. Holding'
  BY NothingFacts, BoundAssumption, NameAssumption
  DEF IInv, Types, Locking, Holding, Whole, Seen, Absent, Inside, Invalidates, CacheIsLost, loader
<1>6. Aging'
  BY NothingFacts, BoundAssumption, NameAssumption
  DEF IInv, Types, Locking, Aging, Seen, Holding, Inside, Invalidates, CacheIsLost, loader
<1> QED
  BY <1>1, <1>2, <1>3, <1>4, <1>5, <1>6 DEF IInv

LEMMA WriteFailsStep ==
    ASSUME IInv, WriteFails
    PROVE  IInv'
<1>1. Types'
  BY NothingFacts, BoundAssumption, NameAssumption
  DEF IInv, Types, ConfigRows, Locking, Inside, WriteFails, cached, loader
<1>2. Locking'
  BY NothingFacts, BoundAssumption, NameAssumption
  DEF IInv, Types, Locking, Inside, WriteFails, cached, loader
<1>3. Bounded'
  BY NothingFacts, BoundAssumption, NameAssumption
  DEF IInv, Types, Bounded, ConfigRows, Absent, Inside, WriteFails, cached, loader
<1>4. Filling'
  BY NothingFacts, BoundAssumption, NameAssumption
  DEF IInv, Types, Locking, Filling, Holding, Inside, WriteFails, cached, loader
<1>5. Holding'
  BY NothingFacts, BoundAssumption, NameAssumption
  DEF IInv, Types, Locking, Holding, Whole, Seen, Absent, Inside, WriteFails, cached, loader
<1>6. Aging'
  BY NothingFacts, BoundAssumption, NameAssumption
  DEF IInv, Types, Locking, Aging, Seen, Holding, Inside, WriteFails, cached, loader
<1> QED
  BY <1>1, <1>2, <1>3, <1>4, <1>5, <1>6 DEF IInv

LEMMA CallsUnforcedStep ==
    ASSUME IInv, NEW t \in Task, NEW p \in Replica, CallsUnforced(t, p)
    PROVE  IInv'
<1>1. /\ pc[t] = "idle"
      /\ UNCHANGED <<now, db, cache, expires, refills, writes, done, writing, next, changed,
                     force, cfg, lock, locked_at>>
  BY DEF CallsUnforced, cached, writer
<1>2. CASE cache # Nothing
  <2>1. /\ \A q \in Replica : \/ holder'[q] = holder[q]
                              \/ holder[q] = Nothing /\ holder'[q] = cache
        /\ holder' \in [Replica -> ConfigRows]
        /\ UNCHANGED <<pc, on>>
    BY <1>2 DEF CallsUnforced, IInv, Types
  <2>2. Types'
    BY <1>1, <1>2, <2>1, NothingFacts, BoundAssumption, NameAssumption
    DEF IInv, Types, ConfigRows, Locking, Inside
  <2>3. Locking'
    BY <1>1, <1>2, <2>1, NothingFacts, BoundAssumption, NameAssumption
    DEF IInv, Types, Locking, Inside
  <2>4. Bounded'
    BY <1>1, <1>2, <2>1, NothingFacts, BoundAssumption, NameAssumption
    DEF IInv, Types, Bounded, ConfigRows, Absent, Inside
  <2>5. Filling'
    BY <1>1, <1>2, <2>1, NothingFacts, BoundAssumption, NameAssumption
    DEF IInv, Types, Locking, Filling, Holding, Inside
  <2>6. Holding'
    BY <1>1, <1>2, <2>1, NothingFacts, BoundAssumption, NameAssumption
    DEF IInv, Types, Locking, Holding, Whole, Seen, Absent, Inside
  <2>7. Aging'
    BY <1>1, <1>2, <2>1, NothingFacts, BoundAssumption, NameAssumption
    DEF IInv, Types, Locking, Aging, Seen, Holding, Inside
  <2> QED
    BY <2>2, <2>3, <2>4, <2>5, <2>6, <2>7 DEF IInv
<1>3. CASE cache = Nothing
  <2>1. /\ pc' = [pc EXCEPT ![t] = "locking"]
        /\ on' = [on EXCEPT ![t] = p]
        /\ UNCHANGED holder
    BY <1>3 DEF CallsUnforced
  <2>2. Types'
    BY <1>1, <1>3, <2>1, NothingFacts, BoundAssumption, NameAssumption
    DEF IInv, Types, ConfigRows, Locking, Inside
  <2>3. Locking'
    BY <1>1, <1>3, <2>1, NothingFacts, BoundAssumption, NameAssumption
    DEF IInv, Types, Locking, Inside
  <2>4. Bounded'
    BY <1>1, <1>3, <2>1, NothingFacts, BoundAssumption, NameAssumption
    DEF IInv, Types, Bounded, ConfigRows, Absent, Inside
  <2>5. Filling'
    BY <1>1, <1>3, <2>1, NothingFacts, BoundAssumption, NameAssumption
    DEF IInv, Types, Locking, Filling, Holding, Inside
  <2>6. Holding'
    BY <1>1, <1>3, <2>1, NothingFacts, BoundAssumption, NameAssumption
    DEF IInv, Types, Locking, Holding, Whole, Seen, Absent, Inside
  <2>7. Aging'
    BY <1>1, <1>3, <2>1, NothingFacts, BoundAssumption, NameAssumption
    DEF IInv, Types, Locking, Aging, Seen, Holding, Inside
  <2> QED
    BY <2>2, <2>3, <2>4, <2>5, <2>6, <2>7 DEF IInv
<1> QED
  BY <1>2, <1>3

LEMMA CallsForcedStep ==
    ASSUME IInv, NEW t \in Task, NEW p \in Replica, CallsForced(t, p)
    PROVE  IInv'
<1>1. Types'
  BY NothingFacts, BoundAssumption, NameAssumption
  DEF IInv, Types, ConfigRows, Locking, Inside, CallsForced, cached, writer
<1>2. Locking'
  BY NothingFacts, BoundAssumption, NameAssumption
  DEF IInv, Types, Locking, Inside, CallsForced, cached, writer
<1>3. Bounded'
  BY NothingFacts, BoundAssumption, NameAssumption
  DEF IInv, Types, Bounded, ConfigRows, Absent, Inside, CallsForced, cached, writer
<1>4. Filling'
  BY NothingFacts, BoundAssumption, NameAssumption
  DEF IInv, Types, Locking, Filling, Holding, Inside, CallsForced, cached, writer
<1>5. Holding'
  BY NothingFacts, BoundAssumption, NameAssumption
  DEF IInv, Types, Locking, Holding, Whole, Seen, Absent, Inside, CallsForced, cached, writer
<1>6. Aging'
  BY NothingFacts, BoundAssumption, NameAssumption
  DEF IInv, Types, Locking, Aging, Seen, Holding, Inside, CallsForced, cached, writer
<1> QED
  BY <1>1, <1>2, <1>3, <1>4, <1>5, <1>6 DEF IInv

\* Nobody is inside while the lock is free.
LEMMA LocksStep ==
    ASSUME IInv, NEW t \in Task, Locks(t)
    PROVE  IInv'
<1>1. /\ pc[t] = "locking" /\ lock[on[t]] = NoTask /\ on[t] \in Replica
      /\ UNCHANGED <<now, db, cache, expires, refills, writes, done, writing, next, changed>>
  BY DEF Locks, cached, writer, IInv, Locking
<1>2. CASE ~force[t] /\ cache # Nothing
  <2>1. /\ pc' = [pc EXCEPT ![t] = "idle"] /\ on' = [on EXCEPT ![t] = NoReplica]
        /\ cfg' = [cfg EXCEPT ![t] = Nothing] /\ force' = [force EXCEPT ![t] = FALSE]
        /\ UNCHANGED <<lock, locked_at>>
    BY <1>2 DEF Locks, Returns, Ends
  <2>2. /\ \A q \in Replica : \/ holder'[q] = holder[q]
                              \/ holder[q] = Nothing /\ holder'[q] = cache
        /\ holder' \in [Replica -> ConfigRows]
    BY <1>1, <1>2 DEF Locks, Returns, IInv, Types
  <2>3. Types'
    BY <1>1, <1>2, <2>1, <2>2, NothingFacts, BoundAssumption, NameAssumption
    DEF IInv, Types, ConfigRows, Locking, Inside
  <2>4. Locking'
    BY <1>1, <1>2, <2>1, <2>2, NothingFacts, BoundAssumption, NameAssumption
    DEF IInv, Types, Locking, Inside
  <2>5. Bounded'
    <3>1. \A u \in Task : cfg'[u] = cfg[u] \/ cfg'[u] = Nothing
      BY <2>1 DEF IInv, Types
    <3>2. \A r \in Row : db[r] \in Int /\ cache[r] \in Int
      BY DEF IInv, Types, ConfigRows
    <3> QED
      BY <1>1, <2>2, <3>1, <3>2, NothingFacts DEF IInv, Bounded, Absent
  <2>6. Filling'
    BY <1>1, <1>2, <2>1, <2>2, NothingFacts, BoundAssumption, NameAssumption
    DEF IInv, Types, Locking, Filling, Holding, Inside
  <2>7. Holding'
    BY <1>1, <1>2, <2>1, <2>2, NothingFacts, BoundAssumption, NameAssumption
    DEF IInv, Types, Locking, Holding, Whole, Seen, Absent, Inside
  <2>8. Aging'
    BY <1>1, <1>2, <2>1, <2>2, NothingFacts, BoundAssumption, NameAssumption
    DEF IInv, Types, Locking, Aging, Seen, Holding, Inside
  <2> QED
    BY <2>3, <2>4, <2>5, <2>6, <2>7, <2>8 DEF IInv
<1>3. CASE force[t] \/ cache = Nothing
  <2>1. /\ pc' = [pc EXCEPT ![t] = "routing_config"]
        /\ lock' = [lock EXCEPT ![on[t]] = t]
        /\ locked_at' = [locked_at EXCEPT ![on[t]] = now]
        /\ UNCHANGED <<on, force, cfg, holder>>
    BY <1>3, QueryFacts DEF Locks, Hold
  <2>2. Types'
    BY <1>1, <1>3, <2>1, NothingFacts, BoundAssumption, NameAssumption
    DEF IInv, Types, ConfigRows, Locking, Inside
  <2>3. Locking'
    BY <1>1, <1>3, <2>1, NothingFacts, BoundAssumption, NameAssumption
    DEF IInv, Types, Locking, Inside
  <2>4. Bounded'
    BY <1>1, <1>3, <2>1, NothingFacts, BoundAssumption, NameAssumption
    DEF IInv, Types, Bounded, ConfigRows, Absent, Inside
  <2>5. Filling'
    BY <1>1, <1>3, <2>1, NothingFacts, BoundAssumption, NameAssumption
    DEF IInv, Types, Locking, Filling, Holding, Inside
  <2>6. Holding'
    BY <1>1, <1>3, <2>1, NothingFacts, BoundAssumption, NameAssumption
    DEF IInv, Types, Locking, Holding, Whole, Seen, Absent, Inside
  <2>7. Aging'
    BY <1>1, <1>3, <2>1, NothingFacts, BoundAssumption, NameAssumption
    DEF IInv, Types, Locking, Aging, Seen, Holding, Inside
  <2> QED
    BY <2>2, <2>3, <2>4, <2>5, <2>6, <2>7 DEF IInv
<1> QED
  BY <1>2, <1>3 DEF IInv, Types

LEMMA SelectsStep ==
    ASSUME IInv, NEW t \in Task, Selects(t)
    PROVE  IInv'
<1> DEFINE read == [r \in Row |-> IF r \in RowsOf[pc[t]] THEN db[r] ELSE cfg[t][r]]
<1>1. /\ pc[t] \in {"routing_config", "tiers", "tier_models"}
      /\ pc[t] = "routing_config" => db["routing"] # Absent
      /\ cfg' = [cfg EXCEPT ![t] = read]
      /\ UNCHANGED <<now, db, cache, expires, refills, writes, done, writing, next, changed,
                     on, force, lock, locked_at, holder>>
  BY QueryFacts DEF Selects, cached, writer
<1>2. PICK after \in {"tiers", "tier_models", "storing"} :
          /\ pc' = [pc EXCEPT ![t] = after]
          /\ pc[t] = "routing_config" => after = "tiers"
          /\ pc[t] = "tiers" => after = "tier_models"
          /\ pc[t] = "tier_models" => after = "storing"
  <2>1. pc' = [pc EXCEPT ![t] = IF Query(t) < Len(Queries) THEN Queries[Query(t) + 1] ELSE "storing"]
    BY DEF Selects
  <2>2. CASE pc[t] = "routing_config"
    <3>1. Query(t) = 1 /\ Query(t) < Len(Queries) /\ Queries[Query(t) + 1] = "tiers"
      BY <2>2, QueryFacts
    <3> QED
      BY <2>1, <2>2, <3>1
  <2>3. CASE pc[t] = "tiers"
    <3>1. Query(t) = 2 /\ Query(t) < Len(Queries) /\ Queries[Query(t) + 1] = "tier_models"
      BY <2>3, QueryFacts
    <3> QED
      BY <2>1, <2>3, <3>1
  <2>4. CASE pc[t] = "tier_models"
    <3>1. Query(t) = 3 /\ ~(Query(t) < Len(Queries))
      BY <2>4, QueryFacts
    <3> QED
      BY <2>1, <2>4, <3>1
  <2> QED
    BY <1>1, <2>2, <2>3, <2>4
<1>3. /\ RowsOf["routing_config"] = {"routing"} /\ RowsOf["tiers"] = {"tier"}
      /\ RowsOf["tier_models"] = {"openai", "google"}
  BY DEF RowsOf
<1>4. read \in ConfigRows /\ \A r \in Row : read[r] = db[r] \/ read[r] = cfg[t][r]
  BY DEF IInv, Types, ConfigRows
<1>5. Seen(t, "routing") \/ pc[t] = "routing_config"
  BY <1>1 DEF Seen
<1>6. \A r \in Row : Seen(t, r)' => read[r] = db[r] \/ (Seen(t, r) /\ read[r] = cfg[t][r])
  <2>1. pc'[t] = after
    BY <1>2 DEF IInv, Types
  <2>2. CASE pc[t] = "routing_config"
    BY <1>2, <1>3, <2>1, <2>2 DEF Seen
  <2>3. CASE pc[t] = "tiers"
    BY <1>2, <1>3, <2>1, <2>3 DEF Seen
  <2>4. CASE pc[t] = "tier_models"
    BY <1>2, <1>3, <2>1, <2>4, RowFacts DEF Seen
  <2> QED
    BY <1>1, <2>2, <2>3, <2>4
<1>7. Whole(read)
  <2>1. CASE pc[t] = "routing_config"
    BY <1>1, <1>3, <2>1, RowFacts DEF Whole
  <2>2. CASE pc[t] \in {"tiers", "tier_models"}
    BY <1>3, <2>2, RowFacts DEF Whole, IInv, Holding
  <2> QED
    BY <1>1, <2>1, <2>2
<1> HIDE DEF read
<1>8. \A u \in Task : u # t => pc'[u] = pc[u] /\ cfg'[u] = cfg[u] /\ \A r : Seen(u, r)' <=> Seen(u, r)
  BY <1>1, <1>2 DEF Seen, IInv, Types
<1>9. pc'[t] = after /\ cfg'[t] = read
  BY <1>1, <1>2 DEF IInv, Types
<1>10. Types'
  BY <1>1, <1>2, <1>4 DEF IInv, Types
<1>11. Locking'
  BY <1>1, <1>8, <1>9 DEF IInv, Types, Locking, Inside
<1>12. Bounded'
  <2>1. \A r \in Row : Absent <= read[r] /\ read[r] <= db[r]
    <3>1. \A r \in Row : /\ Absent <= db[r] /\ db[r] <= db[r]
                         /\ Absent <= cfg[t][r] /\ cfg[t][r] <= db[r]
      BY DEF IInv, Types, Bounded, ConfigRows
    <3> QED
      BY <1>4, <3>1, Zenon
  <2>2. \A u \in Task, r \in Row : Absent <= cfg'[u][r] /\ cfg'[u][r] <= db[r]
    BY <1>8, <1>9, <2>1 DEF IInv, Bounded
  <2> QED
    BY <1>1, <2>2 DEF IInv, Bounded
<1>13. Filling'
  BY <1>1, <1>8, <1>9 DEF IInv, Types, Filling, Inside
<1>14. Holding'
  <2>1. \A r \in Row : holder[on[t]][r] <= db[r]
    BY <1>1 DEF IInv, Bounded, Locking
  <2>2. ASSUME force[t], NEW r \in Row, Seen(t, r)'
        PROVE  holder[on[t]][r] <= read[r]
    BY <1>1, <1>6, <2>1, <2>2 DEF IInv, Holding, Inside
  <2> QED
    BY <1>1, <1>7, <1>8, <1>9, <2>2 DEF IInv, Holding, Inside
<1>15. Aging'
  <2>1. locked_at[on[t]] <= changed \/ \A r \in Row : Seen(t, r)' => read[r] = db[r]
    BY <1>1, <1>6 DEF IInv, Aging, Inside
  <2> QED
    BY <1>1, <1>8, <1>9, <2>1 DEF IInv, Aging, Inside
<1> QED
  BY <1>10, <1>11, <1>12, <1>13, <1>14, <1>15 DEF IInv

LEMMA FindsNoRowStep ==
    ASSUME IInv, NEW t \in Task, FindsNoRow(t)
    PROVE  IInv'
<1>1. Types'
  BY NothingFacts, BoundAssumption, NameAssumption
  DEF IInv, Types, ConfigRows, Locking, Inside, FindsNoRow, Gives, Ends, Release, cached, writer
<1>2. Locking'
  BY NothingFacts, BoundAssumption, NameAssumption
  DEF IInv, Types, Locking, Inside, FindsNoRow, Gives, Ends, Release, cached, writer
<1>3. Bounded'
  BY NothingFacts, BoundAssumption, NameAssumption
  DEF IInv, Types, Bounded, ConfigRows, Absent, Inside, FindsNoRow, Gives, Ends, Release, cached, writer
<1>4. Filling'
  BY NothingFacts, BoundAssumption, NameAssumption
  DEF IInv, Types, Locking, Filling, Holding, Inside, FindsNoRow, Gives, Ends, Release, cached, writer
<1>5. Holding'
  BY NothingFacts, BoundAssumption, NameAssumption
  DEF IInv, Types, Locking, Holding, Whole, Seen, Absent, Inside, FindsNoRow, Gives, Ends, Release, cached, writer
<1>6. Aging'
  BY NothingFacts, BoundAssumption, NameAssumption
  DEF IInv, Types, Locking, Aging, Seen, Holding, Inside, FindsNoRow, Gives, Ends, Release, cached, writer
<1> QED
  BY <1>1, <1>2, <1>3, <1>4, <1>5, <1>6 DEF IInv

LEMMA LoadFailsStep ==
    ASSUME IInv, NEW t \in Task, LoadFails(t)
    PROVE  IInv'
<1>1. Types'
  BY NothingFacts, BoundAssumption, NameAssumption
  DEF IInv, Types, ConfigRows, Locking, Inside, LoadFails, Gives, Ends, Release, cached, writer
<1>2. Locking'
  BY NothingFacts, BoundAssumption, NameAssumption
  DEF IInv, Types, Locking, Inside, LoadFails, Gives, Ends, Release, cached, writer
<1>3. Bounded'
  BY NothingFacts, BoundAssumption, NameAssumption
  DEF IInv, Types, Bounded, ConfigRows, Absent, Inside, LoadFails, Gives, Ends, Release, cached, writer
<1>4. Filling'
  BY NothingFacts, BoundAssumption, NameAssumption
  DEF IInv, Types, Locking, Filling, Holding, Inside, LoadFails, Gives, Ends, Release, cached, writer
<1>5. Holding'
  BY NothingFacts, BoundAssumption, NameAssumption
  DEF IInv, Types, Locking, Holding, Whole, Seen, Absent, Inside, LoadFails, Gives, Ends, Release, cached, writer
<1>6. Aging'
  <2>1. /\ pc' = [pc EXCEPT ![t] = "idle"] /\ on' = [on EXCEPT ![t] = NoReplica]
        /\ cfg' = [cfg EXCEPT ![t] = Nothing]
        /\ lock' = [lock EXCEPT ![on[t]] = NoTask] /\ locked_at' = [locked_at EXCEPT ![on[t]] = 0]
        /\ UNCHANGED <<now, db, cache, expires, changed>>
    BY DEF LoadFails, Gives, Ends, Release, cached, writer
  <2>2. lock[on[t]] \in {NoTask, t}
    BY DEF LoadFails, IInv, Types, Locking, Inside
  <2>3. \A u \in Task : Inside(u)' => /\ u # t /\ Inside(u) /\ on[u] # on[t]
                                     /\ on'[u] = on[u] /\ cfg'[u] = cfg[u] /\ pc'[u] = pc[u]
    BY <2>1, <2>2, NameAssumption DEF IInv, Types, Locking, Inside
  <2>4. \A u \in Task : Inside(u)' => locked_at'[on'[u]] = locked_at[on[u]]
    BY <2>1, <2>3 DEF IInv, Types, Locking, Inside
  <2>5. \A p \in Replica : lock'[p] # NoTask => now' <= locked_at'[p] + MaxLoad
    BY <2>1 DEF IInv, Types, Aging
  <2>6. ASSUME NEW u \in Task, Inside(u)'
        PROVE  locked_at'[on'[u]] <= changed' \/ \A r \in Row : Seen(u, r)' => cfg'[u][r] = db'[r]
    BY <2>1, <2>3, <2>4, <2>6 DEF IInv, Aging, Seen
  <2> QED
    BY <2>1, <2>5, <2>6 DEF IInv, Aging
<1> QED
  BY <1>1, <1>2, <1>3, <1>4, <1>5, <1>6 DEF IInv

\* The holder of the lock is the only one of its replica to store.
LEMMA StoresStep ==
    ASSUME IInv, NEW t \in Task, Stores(t)
    PROVE  IInv'
<1>1. /\ pc[t] = "storing" /\ on[t] \in Replica /\ lock[on[t]] = t
      /\ cache' = cfg[t] /\ expires' = now + Ttl
      /\ UNCHANGED <<now, db, writes, done, writing, next, changed>>
  BY DEF Stores, Expiry, writer, IInv, Locking, Inside
<1>2. /\ pc' = [pc EXCEPT ![t] = "idle"] /\ on' = [on EXCEPT ![t] = NoReplica]
      /\ cfg' = [cfg EXCEPT ![t] = Nothing] /\ force' = [force EXCEPT ![t] = FALSE]
      /\ lock' = [lock EXCEPT ![on[t]] = NoTask]
      /\ locked_at' = [locked_at EXCEPT ![on[t]] = 0]
  BY DEF Stores, Returns, Ends, Release
<1>3. /\ \A q \in Replica : \/ holder'[q] = holder[q]
                            \/ /\ q = on[t] /\ (force[t] \/ holder[q] = Nothing)
                               /\ holder'[q] = cfg[t]
      /\ holder' \in [Replica -> ConfigRows]
  BY <1>1 DEF Stores, Returns, IInv, Types
<1>4. /\ \A q \in Replica : \/ refills'[q] = refills[q]
                            \/ /\ q = on[t] /\ ~force[t]
                               /\ refills'[q] = refills[q] + 1
      /\ refills' \in [Replica -> Nat]
  BY <1>1 DEF Stores, IInv, Types
<1>5. cfg[t] \in ConfigRows /\ Whole(cfg[t])
  BY <1>1 DEF IInv, Types, Holding
<1>6. cfg[t] # Nothing
  BY <1>5, NothingFacts, RowFacts DEF Whole, Absent
<1>7. \A u \in Task : u # t => /\ pc'[u] = pc[u] /\ on'[u] = on[u] /\ cfg'[u] = cfg[u]
                               /\ force'[u] = force[u] /\ \A r : Seen(u, r)' <=> Seen(u, r)
  BY <1>2 DEF Seen, IInv, Types
<1>8. pc'[t] = "idle" /\ force'[t] = FALSE /\ cfg'[t] = Nothing
  BY <1>2 DEF IInv, Types
<1>9. \A u \in Task : u # t /\ Inside(u) => on[u] # on[t] /\ on[u] \in Replica
  BY <1>1 DEF IInv, Locking, Inside
<1>10. Types'
  <2>1. /\ pc' \in [Task -> {"idle", "locking", "routing_config", "tiers", "tier_models", "storing"}]
        /\ on' \in [Task -> Replica \cup {NoReplica}]
        /\ force' \in [Task -> BOOLEAN]
    BY <1>2 DEF IInv, Types
  <2>2. cfg' \in [Task -> ConfigRows]
    BY <1>2, NothingFacts DEF IInv, Types
  <2>3. lock' \in [Replica -> Task \cup {NoTask}]
    BY <1>2 DEF IInv, Types
  <2>4. locked_at' \in [Replica -> Nat] /\ \A q \in Replica : locked_at'[q] <= now
    <3>1. \A q \in Replica : locked_at'[q] = locked_at[q] \/ locked_at'[q] = 0
      BY <1>2 DEF IInv, Types
    <3>2. locked_at' \in [Replica -> Nat] /\ now \in Nat
      BY <1>2 DEF IInv, Types
    <3> QED
      BY <3>1, <3>2 DEF IInv, Types
  <2>5. expires' \in Nat
    BY <1>1, BoundAssumption DEF IInv, Types
  <2> QED
    BY <1>1, <1>3, <1>4, <1>5, <2>1, <2>2, <2>3, <2>4, <2>5 DEF IInv, Types
<1>11. Locking'
  BY <1>1, <1>2, NameAssumption DEF IInv, Types, Locking, Inside
<1>12. Bounded'
  BY <1>1, <1>3, <1>7, <1>8, NothingFacts DEF IInv, Bounded, Absent
<1>13. Filling'
  <2>1. \A q \in Replica : refills'[q] <= 1
    <3>1. ~force[t] => refills[on[t]] = 0
      BY <1>1 DEF IInv, Filling, Inside
    <3>2. \A q \in Replica : refills[q] \in Nat /\ refills[q] <= 1
      BY DEF IInv, Types, Filling
    <3> QED
      BY <1>1, <1>4, <3>1, <3>2
  <2>2. ASSUME NEW u \in Task, Inside(u)', ~force'[u]
        PROVE  refills'[on'[u]] = 0
    <3>1. u # t /\ Inside(u) /\ ~force[u] /\ on'[u] = on[u]
      BY <1>7, <1>8, <2>2 DEF Inside
    <3> QED
      BY <1>4, <1>9, <3>1 DEF IInv, Filling
  <2> QED
    BY <1>1, <1>6, <2>1, <2>2 DEF Filling
<1>14. Holding'
  <2>1. \A q \in Replica : holder'[q] = Nothing \/ Whole(holder'[q])
    BY <1>3, <1>5 DEF IInv, Holding
  <2>2. ASSUME NEW u \in Task, force'[u]
        PROVE  pc'[u] # "idle" /\ holder'[on'[u]] # Nothing
    <3>1. u # t /\ pc[u] # "idle" /\ on[u] \in Replica /\ holder[on[u]] # Nothing
      BY <1>7, <1>8, <2>2 DEF IInv, Holding, Locking
    <3> QED
      BY <1>3, <1>6, <1>7, <3>1
  <2>3. ASSUME NEW u \in Task, Inside(u)', force'[u], NEW r \in Row, Seen(u, r)'
        PROVE  holder'[on'[u]][r] <= cfg'[u][r]
    <3>1. u # t /\ Inside(u) /\ force[u] /\ Seen(u, r) /\ on'[u] = on[u] /\ cfg'[u] = cfg[u]
      BY <1>7, <1>8, <2>3 DEF Inside
    <3>2. holder'[on[u]] = holder[on[u]]
      BY <1>3, <1>9, <3>1 DEF IInv, Holding
    <3> QED
      BY <3>1, <3>2 DEF IInv, Holding
  <2>4. \A u \in Task : pc'[u] \in {"tiers", "tier_models", "storing"} => Whole(cfg'[u])
    BY <1>7, <1>8 DEF IInv, Holding
  <2> QED
    BY <1>1, <1>5, <2>1, <2>2, <2>3, <2>4 DEF Holding, Whole
<1>15. Aging'
  <2>1. cfg[t] = db \/ locked_at[on[t]] <= changed
    <3>1. locked_at[on[t]] <= changed \/ \A r \in Row : cfg[t][r] = db[r]
      BY <1>1 DEF IInv, Aging, Seen, Inside
    <3>2. (\A r \in Row : cfg[t][r] = db[r]) => cfg[t] = db
      BY <1>5 DEF IInv, Types, ConfigRows
    <3> QED
      BY <3>1, <3>2
  <2>2. now <= locked_at[on[t]] + MaxLoad
    BY <1>1, NameAssumption DEF IInv, Aging
  <2>3. now \in Nat /\ changed \in Nat /\ locked_at[on[t]] \in Nat /\ Ttl \in Nat \ {0} /\ MaxLoad \in Nat
    BY <1>1, BoundAssumption DEF IInv, Types
  <2>4. cfg[t] = db \/ expires' <= changed + MaxLoad + Ttl
    BY <1>1, <2>1, <2>2, <2>3
  <2>5. expires' <= now' + Ttl /\ now' < expires'
    BY <1>1, <2>3
  <2>6. \A p \in Replica : lock'[p] # NoTask => now' <= locked_at'[p] + MaxLoad
    BY <1>1, <1>2 DEF IInv, Types, Aging
  <2>7. ASSUME NEW u \in Task, Inside(u)'
        PROVE  locked_at'[on'[u]] <= changed' \/ \A r \in Row : Seen(u, r)' => cfg'[u][r] = db'[r]
    <3>1. u # t /\ Inside(u) /\ on'[u] = on[u] /\ cfg'[u] = cfg[u]
      BY <1>7, <1>8, <2>7 DEF Inside
    <3>2. locked_at'[on[u]] = locked_at[on[u]]
      BY <1>2, <1>9, <3>1 DEF IInv, Types
    <3> QED
      BY <1>1, <1>7, <3>1, <3>2 DEF IInv, Aging
  <2> QED
    BY <1>1, <2>4, <2>5, <2>6, <2>7 DEF Aging
<1> QED
  BY <1>10, <1>11, <1>12, <1>13, <1>14, <1>15 DEF IInv

LEMMA CacheIsSpoiledStep ==
    ASSUME IInv, CacheIsSpoiled
    PROVE  IInv'
<1>1. Types'
  BY NothingFacts, BoundAssumption, NameAssumption
  DEF IInv, Types, ConfigRows, Locking, Inside, CacheIsSpoiled, CacheIsLost, writer, loader
<1>2. Locking'
  BY NothingFacts, BoundAssumption, NameAssumption
  DEF IInv, Types, Locking, Inside, CacheIsSpoiled, CacheIsLost, writer, loader
<1>3. Bounded'
  BY NothingFacts, BoundAssumption, NameAssumption
  DEF IInv, Types, Bounded, ConfigRows, Absent, Inside, CacheIsSpoiled, CacheIsLost, writer, loader
<1>4. Filling'
  BY NothingFacts, BoundAssumption, NameAssumption
  DEF IInv, Types, Locking, Filling, Holding, Inside, CacheIsSpoiled, CacheIsLost, writer, loader
<1>5. Holding'
  BY NothingFacts, BoundAssumption, NameAssumption
  DEF IInv, Types, Locking, Holding, Whole, Seen, Absent, Inside, CacheIsSpoiled, CacheIsLost, writer, loader
<1>6. Aging'
  BY NothingFacts, BoundAssumption, NameAssumption
  DEF IInv, Types, Locking, Aging, Seen, Holding, Inside, CacheIsSpoiled, CacheIsLost, writer, loader
<1> QED
  BY <1>1, <1>2, <1>3, <1>4, <1>5, <1>6 DEF IInv

\* The cache is dropped at its expiry, and nobody holds the lock for longer.
LEMMA TickStep ==
    ASSUME IInv, Tick
    PROVE  IInv'
<1>1. /\ now' = now + 1 /\ now < MaxTime
      /\ \A p \in Replica : lock[p] = NoTask \/ now < locked_at[p] + MaxLoad
      /\ UNCHANGED <<db, writes, done, writing, next, changed, pc, on, force, cfg, lock, locked_at, holder>>
  BY DEF Tick, writer, loader
<1>2. \/ cache' = Nothing /\ expires' = 0 /\ refills' = [p \in Replica |-> 0]
      \/ now + 1 < expires /\ UNCHANGED <<cache, expires, refills>>
  BY BoundAssumption DEF Tick, CacheIsLost, cached, IInv, Types
<1>3. now \in Nat /\ now + 1 \in Nat /\ now + 1 <= MaxTime /\ expires \in Nat /\ MaxTime \in Nat
  BY <1>1, BoundAssumption DEF IInv, Types
<1>4. Types'
  <2>1. cache' \in ConfigRows /\ expires' \in Nat /\ refills' \in [Replica -> Nat]
    BY <1>2, NothingFacts DEF IInv, Types
  <2>2. now' \in Nat /\ now' <= MaxTime /\ changed' \in Nat /\ changed' <= now'
    BY <1>1, <1>3 DEF IInv, Types
  <2>3. \A p \in Replica : locked_at'[p] <= now'
    <3> SUFFICES ASSUME NEW p \in Replica PROVE locked_at[p] <= now + 1
      BY <1>1
    <3>1. locked_at[p] \in Nat /\ locked_at[p] <= now
      BY DEF IInv, Types
    <3> QED
      BY ONLY <1>3, <3>1
  <2> QED
    BY ONLY IInv, <1>1, <2>1, <2>2, <2>3 DEF IInv, Types
<1>5. Locking'
  BY <1>1 DEF IInv, Locking, Inside
<1>6. Bounded'
  <2>1. ASSUME NEW r \in Row PROVE Absent <= cache'[r] /\ cache'[r] <= db'[r]
    <3>1. db' = db /\ Absent <= db[r] /\ Absent <= cache[r] /\ cache[r] <= db[r] /\ Absent = -1
      BY <1>1 DEF IInv, Bounded, Absent
    <3>2. cache'[r] = -1 \/ cache'[r] = cache[r]
      BY <1>2, NothingFacts
    <3> QED
      BY ONLY <3>1, <3>2
  <2> QED
    BY ONLY IInv, <1>1, <2>1 DEF IInv, Bounded
<1>7. Filling'
  <2>1. ASSUME NEW p \in Replica PROVE refills'[p] = 0 \/ refills'[p] = refills[p]
    BY <1>2
  <2>2. \A p \in Replica : refills[p] <= 1 /\ (refills'[p] = 0 => refills'[p] <= 1)
    BY DEF IInv, Filling
  <2>3. cache' = Nothing => \A p \in Replica : refills'[p] = 0
    BY <1>2 DEF IInv, Filling
  <2>4. ASSUME NEW t \in Task, Inside(t)', ~force'[t] PROVE refills'[on'[t]] = 0
    <3>1. Inside(t) /\ ~force[t] /\ on'[t] = on[t]
      BY <1>1, <2>4 DEF Inside
    <3>2. refills[on[t]] = 0 /\ on[t] \in Replica
      BY <3>1 DEF IInv, Filling, Locking, Inside
    <3> QED
      BY ONLY <2>1, <3>1, <3>2
  <2>5. \A p \in Replica : refills'[p] <= 1
    BY <2>1, <2>2
  <2> QED
    BY ONLY <2>3, <2>4, <2>5 DEF Filling
<1>8. Holding'
  <2>1. cache' = Nothing \/ Whole(cache)'
    BY <1>2 DEF IInv, Holding, Whole
  <2> QED
    BY <1>1, <2>1 DEF IInv, Holding, Whole, Inside, Seen
<1>9. Aging'
  <2>1. expires' <= now' + Ttl
    BY <1>1, <1>2, <1>3, BoundAssumption DEF IInv, Aging
  <2>2. cache' # Nothing => now' < expires'
    BY <1>1, <1>2
  <2>3. cache' = Nothing \/ cache' = db' \/ expires' <= changed' + MaxLoad + Ttl
    BY <1>1, <1>2 DEF IInv, Aging
  <2>4. ASSUME NEW p \in Replica, lock'[p] # NoTask PROVE now' <= locked_at'[p] + MaxLoad
    <3>1. now < locked_at[p] + MaxLoad /\ locked_at[p] \in Nat /\ MaxLoad \in Nat
      BY <1>1, <2>4, BoundAssumption DEF IInv, Types
    <3> QED
      BY ONLY <1>1, <1>3, <3>1
  <2>5. \A t \in Task : Inside(t)' =>
          locked_at'[on'[t]] <= changed' \/ \A r \in Row : Seen(t, r)' => cfg'[t][r] = db'[r]
    BY <1>1 DEF IInv, Aging, Inside, Seen
  <2> QED
    BY ONLY <2>1, <2>2, <2>3, <2>4, <2>5 DEF Aging
<1> QED
  BY <1>4, <1>5, <1>6, <1>7, <1>8, <1>9 DEF IInv

-----------------------------------------------------------------------------
LEMMA Inductive == Spec => []IInv
<1>1. IInv /\ [Next]_vars => IInv'
  <2> SUFFICES ASSUME IInv, [Next]_vars PROVE IInv'
    OBVIOUS
  <2>1. CASE UNCHANGED vars
    <3>1. UNCHANGED <<now, db, cache, expires, refills, writes, done, writing, next, changed,
                      pc, on, force, cfg, lock, locked_at, holder>>
      BY <2>1 DEF vars, cached, writer, loader
    <3> QED
      BY <3>1 DEF IInv, Types, Locking, Bounded, Filling, Holding, Aging, Whole, Seen, Inside
  <2> QED
    BY <2>1, WriteBeginsStep, UpsertsStep, InvalidatesStep, WriteFailsStep, CallsUnforcedStep,
       CallsForcedStep, LocksStep, SelectsStep, FindsNoRowStep, LoadFailsStep, StoresStep,
       CacheIsSpoiledStep, TickStep DEF Next
<1> QED
  BY <1>1, InitHolds, PTL DEF Spec

-----------------------------------------------------------------------------
\* Type correctness: no config that is cached, held or being read has a row that
\* no write wrote, and none is served without its routing row.
THEOREM TypeCorrect == Spec => []TypeOK
<1>1. IInv => TypeOK
  <2> SUFFICES ASSUME IInv PROVE TypeOK
    OBVIOUS
  <2>1. \A x \in ConfigRows : (\A r \in Row : Absent <= x[r] /\ x[r] <= db[r]) => x \in ConfigRead
    <3> SUFFICES ASSUME NEW x \in ConfigRows, \A r \in Row : Absent <= x[r] /\ x[r] <= db[r],
                        NEW r \in Row
                 PROVE  x[r] \in Version \cup {Absent}
      BY DEF ConfigRows, ConfigRead
    <3>1. x[r] \in Int /\ db[r] \in Int /\ db[r] <= writes /\ -1 <= x[r] /\ x[r] <= db[r] /\ writes \in Nat
      BY DEF IInv, Types, Bounded, ConfigRows, Absent
    <3> QED
      BY <3>1 DEF Version, Absent
  <2>2. db \in ConfigRead /\ cache \in ConfigRead
    <3>1. \A r \in Row : db[r] <= db[r] /\ Absent <= db[r]
      BY DEF IInv, Types, Bounded, ConfigRows
    <3> QED
      BY <2>1, <3>1 DEF IInv, Types, Bounded
  <2>3. cfg \in [Task -> ConfigRead]
    BY <2>1 DEF IInv, Types, Bounded
  <2>4. holder \in [Replica -> ConfigRead]
    BY <2>1 DEF IInv, Types, Bounded
  <2>5. writing \in Seq(Row)
    <3>1. Rows \in Seq(Row)
      BY RowFacts DEF Rows
    <3>2. <<"tier", "openai", "routing">> \in Seq(Row)
      BY RowFacts
    <3>3. <<>> \in Seq(Row)
      OBVIOUS
    <3> QED
      BY <3>1, <3>2, <3>3 DEF IInv, Types
  <2>6. next \in 1 .. Len(Rows) + 1
    <3>1. CASE writing = Rows
      BY <3>1, RowFacts DEF IInv, Types
    <3>2. CASE writing # Rows
      <4>1. PICK n \in {0, 3} : n = Len(writing)
        <5>1. writing = <<>> \/ writing = <<"tier", "openai", "routing">>
          BY <3>2 DEF IInv, Types
        <5> QED
          BY <5>1, ShortFacts, Zenon
      <4>2. next \in Nat \ {0} /\ next <= n + 1
        BY <4>1 DEF IInv, Types
      <4>3. 1 <= next /\ next <= 4
        BY <4>1, <4>2
      <4> QED
        BY <4>2, <4>3, RowFacts
    <3> QED
      BY <3>1, <3>2
  <2>7. expires \in 0 .. MaxTime + Ttl
    BY BoundAssumption DEF IInv, Types, Aging
  <2>8. pc \in [Task -> {"idle", "locking", "storing"} \cup {Queries[i] : i \in DOMAIN Queries}]
    BY QueryFacts DEF IInv, Types
  <2>9. locked_at \in [Replica -> 0 .. now]
    BY DEF IInv, Types
  <2>10. \A config \in {cache} \cup {holder[p] : p \in Replica} :
             config = Nothing \/ config["routing"] # Absent
    BY DEF IInv, Holding, Whole
  <2>11. done \in Version /\ changed \in 0 .. now /\ writes \in 0 .. MaxWrites /\ now \in 0 .. MaxTime
    BY BoundAssumption DEF IInv, Types, Version
  <2> QED
    BY <2>2, <2>3, <2>4, <2>5, <2>6, <2>7, <2>8, <2>9, <2>10, <2>11 DEF IInv, Types, TypeOK
<1> QED
  BY <1>1, Inductive, PTL

\* The lock of load_or_refresh and its second GET: of all the loads of a replica
\* that miss at once, one refills the cache.
THEOREM OneRefill == Spec => []StampedeProtected
<1>1. IInv => StampedeProtected
  BY DEF IInv, Filling, StampedeProtected
<1> QED
  BY <1>1, Inductive, PTL

\* A stale value leaves the cache one load and one lifetime after the last write
\* of a row, however reads, writes and SETEX of several replicas interleave.
THEOREM StaleValueLeaves == Spec => []CacheCatchesUp
<1>1. IInv => CacheCatchesUp
  <2> SUFFICES ASSUME IInv, now >= changed + MaxLoad + Ttl, cache # Nothing
               PROVE  cache = db
    BY DEF CacheCatchesUp
  <2>1. now < expires /\ (cache = db \/ expires <= changed + MaxLoad + Ttl)
    BY DEF IInv, Aging
  <2> QED
    BY <2>1, BoundAssumption DEF IInv, Types
<1> QED
  BY <1>1, Inductive, PTL

\* ConfigHolder.value only moves forward, row by row, also when two SIGHUPs start
\* two reloads at once.
THEOREM HoldersMoveForward == Spec => HolderNeverGoesBack
<1>1. ASSUME IInv, [Next]_vars, NEW p \in Replica, NEW r \in Row
      PROVE  holder'[p][r] >= holder[p][r]
  <2>1. holder[p][r] \in Int /\ Nothing[r] = -1
    BY <1>1, NothingFacts DEF IInv, Types, ConfigRows
  <2>2. CASE holder' = holder
    BY <2>1, <2>2
  <2>3. ASSUME NEW config \in ConfigRows, Absent <= config[r],
               holder[p] = Nothing, holder'[p] = config
        PROVE  holder'[p][r] >= holder[p][r]
    <3>1. config[r] \in Int
      BY <2>3 DEF ConfigRows
    <3> QED
      BY <2>1, <2>3, <3>1 DEF Absent
  <2>4. cache \in ConfigRows /\ Absent <= cache[r]
    BY <1>1 DEF IInv, Types, Bounded
  <2>5. CASE \E t \in Task, q \in Replica : CallsUnforced(t, q)
    <3>1. holder'[p] = holder[p] \/ (holder[p] = Nothing /\ holder'[p] = cache)
      BY <1>1, <2>5 DEF CallsUnforced, IInv, Types
    <3> QED
      BY <2>1, <2>3, <2>4, <3>1
  <2>6. CASE \E t \in Task : Locks(t)
    <3>1. holder'[p] = holder[p] \/ (holder[p] = Nothing /\ holder'[p] = cache)
      BY <1>1, <2>6 DEF Locks, Returns, IInv, Types
    <3> QED
      BY <2>1, <2>3, <2>4, <3>1
  <2>7. ASSUME NEW t \in Task, Stores(t)
        PROVE  holder'[p][r] >= holder[p][r]
    <3>1. \/ holder'[p] = holder[p]
          \/ holder[p] = Nothing /\ holder'[p] = cfg[t]
          \/ force[t] /\ p = on[t] /\ holder'[p] = cfg[t]
      BY <1>1, <2>7 DEF Stores, Returns, IInv, Types
    <3>2. cfg[t] \in ConfigRows /\ Absent <= cfg[t][r] /\ cfg[t][r] \in Int
      BY <1>1 DEF IInv, Types, Bounded, ConfigRows
    <3>3. force[t] => holder[on[t]][r] <= cfg[t][r]
      BY <1>1, <2>7 DEF IInv, Holding, Stores, Inside, Seen
    <3> QED
      BY <2>1, <2>3, <3>1, <3>2, <3>3
  <2> QED
    BY <1>1, <2>2, <2>5, <2>6, <2>7
    DEF Next, vars, loader, WriteBegins, Upserts, Invalidates, WriteFails, CallsForced, Selects,
        FindsNoRow, LoadFails, Gives, CacheIsSpoiled, Tick
<1>2. IInv /\ [Next]_vars => [\A p \in Replica, r \in Row : holder'[p][r] >= holder[p][r]]_vars
  BY <1>1
<1> QED
  BY <1>2, Inductive, PTL DEF Spec, HolderNeverGoesBack
=============================================================================
