---------------------------- MODULE ConfigStore ----------------------------
(***************************************************************************)
(* The configuration: three Postgres tables that a script writes, a Redis  *)
(* key that caches the whole for cache_ttl_s, and the holder of each       *)
(* replica.  ConfigStore of src/gateway/config_store.py, ConfigHolder of   *)
(* src/gateway/config/__init__.py.                                         *)
(*                                                                         *)
(* A row's contents are represented by the number of the write that wrote  *)
(* them, 0 for what was there at first.  One action is the code between    *)
(* two awaits together with the statement or command it waits for.  One    *)
(* script writes at a time.                                                *)
(***************************************************************************)
EXTENDS Integers, Sequences

CONSTANTS
    Replica,
    Task,          \* calls of load_or_refresh that may run at once in the fleet
    Contents,      \* the sets of rows a written Config may consist of
    Ttl,           \* cache_ttl_s
    MaxLoad,       \* bound on the time one load_or_refresh holds the lock
    MaxTime,       \* bound on the time
    MaxWrites      \* bound on the configs written

\* The rows in the order in which _write_to_db upserts them: a tier, what two
\* providers serve, and the one row of routing_config.
Rows == <<"tier", "openai", "google", "routing">>
Row == {Rows[i] : i \in DOMAIN Rows}

\* The queries of load_from_db, in their order.
Queries == <<"routing_config", "tiers", "tier_models">>
RowsOf == [routing_config |-> {"routing"}, tiers |-> {"tier"}, tier_models |-> {"openai", "google"}]

ASSUME ContentsAssumption ==
    \A rows \in Contents : {"tier", "openai", "routing"} \subseteq rows /\ rows \subseteq Row
ASSUME BoundAssumption == Ttl \in Nat \ {0} /\ {MaxLoad, MaxTime, MaxWrites} \subseteq Nat

Absent == -1
Nothing == [r \in Row |-> Absent]   \* also stands for no config at all
NoTask == "no_task"
NoReplica == "no_replica"

ASSUME NameAssumption == NoTask \notin Task /\ NoReplica \notin Replica

VARIABLES
    now,
    db,           \* db[r]: the write that wrote row r last, or Absent
    cache,        \* the config under gw:config:current, or Nothing
    expires,      \* when Redis drops it
    writes,       \* writes begun
    done,         \* the last write() that returned
    writing,      \* rows of the current write(), <<>> when there is none
    next,         \* index in `writing` of its next statement; beyond it, the DEL
    changed,      \* when a row was last written
    pc,           \* where load_or_refresh of each task is
    on,           \* on[t]: the replica that runs it
    force,        \* its parameter
    cfg,          \* the rows it has read so far
    lock,         \* lock[p]: the task that holds p's _refill_lock
    locked_at,    \* locked_at[p]: since when
    holder,       \* holder[p]: ConfigHolder.value, Nothing before the boot
    refills       \* refills[p]: unforced loads of p since the cache lost its value

cached == <<cache, expires, refills>>
writer == <<writes, done, writing, next, changed>>
loader == <<pc, on, force, cfg, lock, locked_at>>
vars == <<now, db, cached, writer, loader, holder>>

Init ==
    /\ now = 0
    /\ \E rows \in Contents \cup {{}} : db = [r \in Row |-> IF r \in rows THEN 0 ELSE Absent]
    /\ cache = Nothing
    /\ expires = 0
    /\ writes = 0
    /\ done = 0
    /\ writing = <<>>
    /\ next = 1
    /\ changed = 0
    /\ pc = [t \in Task |-> "idle"]
    /\ on = [t \in Task |-> NoReplica]
    /\ force = [t \in Task |-> FALSE]
    /\ cfg = [t \in Task |-> Nothing]
    /\ lock = [p \in Replica |-> NoTask]
    /\ locked_at = [p \in Replica |-> 0]
    /\ holder = [p \in Replica |-> Nothing]
    /\ refills = [p \in Replica |-> 0]

-----------------------------------------------------------------------------
\* write(): one upsert per statement, each in a transaction of its own, and
\* then the DEL.  What the new Config lacks keeps its row.
WriteBegins ==
    /\ writing = <<>>
    /\ writes < MaxWrites
    /\ writes' = writes + 1
    /\ \E rows \in Contents :
          writing' = IF "google" \in rows THEN Rows ELSE <<"tier", "openai", "routing">>
    /\ UNCHANGED <<now, db, cached, done, next, changed, loader, holder>>

Upserts ==
    /\ next <= Len(writing)
    /\ db' = [db EXCEPT ![writing[next]] = writes]
    /\ next' = next + 1
    /\ changed' = now
    /\ UNCHANGED <<now, cached, writes, done, writing, loader, holder>>

CacheIsLost ==
    /\ cache' = Nothing
    /\ expires' = 0
    /\ refills' = [p \in Replica |-> 0]

Invalidates ==
    /\ writing # <<>>
    /\ next > Len(writing)
    /\ CacheIsLost
    /\ writing' = <<>>
    /\ done' = writes
    /\ next' = 1
    /\ UNCHANGED <<now, db, writes, changed, loader, holder>>

\* A statement or the DEL raises, or the script is killed.
WriteFails ==
    /\ writing # <<>>
    /\ writing' = <<>>
    /\ next' = 1
    /\ UNCHANGED <<now, db, cached, writes, done, changed, loader, holder>>

-----------------------------------------------------------------------------
\* The lifespan makes the holder of what its unforced load returned; later only
\* a forced load, ConfigHolder.reload, replaces the value.
Ends(t) ==
    /\ pc' = [pc EXCEPT ![t] = "idle"]
    /\ on' = [on EXCEPT ![t] = NoReplica]
    /\ cfg' = [cfg EXCEPT ![t] = Nothing]
    /\ force' = [force EXCEPT ![t] = FALSE]
Returns(t, config) ==
    /\ Ends(t)
    /\ holder' = IF force[t] \/ holder[on[t]] = Nothing
                 THEN [holder EXCEPT ![on[t]] = config]
                 ELSE holder

\* The first GET: a hit returns, a miss goes for the lock.
CallsUnforced(t, p) ==
    /\ pc[t] = "idle"
    /\ IF cache # Nothing
       THEN /\ holder' = IF holder[p] = Nothing THEN [holder EXCEPT ![p] = cache] ELSE holder
            /\ UNCHANGED <<pc, on>>
       ELSE /\ pc' = [pc EXCEPT ![t] = "locking"]
            /\ on' = [on EXCEPT ![t] = p]
            /\ UNCHANGED holder
    /\ UNCHANGED <<now, db, cached, writer, force, cfg, lock, locked_at>>

\* SIGHUP, whose handler is there once the holder is.
CallsForced(t, p) ==
    /\ pc[t] = "idle"
    /\ holder[p] # Nothing
    /\ force' = [force EXCEPT ![t] = TRUE]
    /\ pc' = [pc EXCEPT ![t] = "locking"]
    /\ on' = [on EXCEPT ![t] = p]
    /\ UNCHANGED <<now, db, cached, writer, cfg, lock, locked_at, holder>>

Query(t) == CHOOSE i \in DOMAIN Queries : Queries[i] = pc[t]
Hold(t) ==
    /\ lock' = [lock EXCEPT ![on[t]] = t]
    /\ locked_at' = [locked_at EXCEPT ![on[t]] = now]
    /\ pc' = [pc EXCEPT ![t] = Queries[1]]
Release(t) ==
    /\ lock' = [lock EXCEPT ![on[t]] = NoTask]
    /\ locked_at' = [locked_at EXCEPT ![on[t]] = 0]

\* Mutants of Locks: no lock; no second GET.
LocksNothing(t) ==
    /\ pc[t] = "locking"
    /\ Hold(t)
    /\ UNCHANGED <<now, db, cached, writer, on, force, cfg, holder>>

LocksUnchecked(t) ==
    /\ pc[t] = "locking"
    /\ lock[on[t]] = NoTask
    /\ Hold(t)
    /\ UNCHANGED <<now, db, cached, writer, on, force, cfg, holder>>

\* The second GET, unless forced, is the first thing done under the lock.
Locks(t) ==
    /\ pc[t] = "locking"
    /\ lock[on[t]] = NoTask
    /\ IF ~force[t] /\ cache # Nothing
       THEN Returns(t, cache) /\ UNCHANGED <<lock, locked_at>>
       ELSE Hold(t) /\ UNCHANGED <<on, force, cfg, holder>>
    /\ UNCHANGED <<now, db, cached, writer>>

\* One of the three queries; without a routing_config row load_from_db raises.
Selects(t) ==
    /\ pc[t] \in {Queries[i] : i \in DOMAIN Queries}
    /\ pc[t] = "routing_config" => db["routing"] # Absent
    /\ cfg' = [cfg EXCEPT ![t] = [r \in Row |-> IF r \in RowsOf[pc[t]] THEN db[r] ELSE @[r]]]
    /\ pc' = [pc EXCEPT ![t] = IF Query(t) < Len(Queries) THEN Queries[Query(t) + 1] ELSE "storing"]
    /\ UNCHANGED <<now, db, cached, writer, on, force, lock, locked_at, holder>>

Gives(t) ==
    /\ Release(t)
    /\ Ends(t)
    /\ UNCHANGED <<now, db, cached, writer, holder>>

\* ConfigStoreError: the boot ends, a reload keeps the old value.
FindsNoRow(t) ==
    /\ pc[t] = "routing_config"
    /\ db["routing"] = Absent
    /\ Gives(t)

\* The second GET, a query or the SETEX raises, with the same outcome.
LoadFails(t) ==
    /\ \/ pc[t] = "locking" /\ lock[on[t]] = NoTask /\ ~force[t]
       \/ pc[t] \notin {"idle", "locking"}
    /\ Gives(t)

\* Mutant of Expiry: SET without a lifetime for a config read by force.
ExpiryOf(t) == IF force[t] THEN MaxTime + 1 ELSE now + Ttl
Expiry(t) == now + Ttl

Stores(t) ==
    /\ pc[t] = "storing"
    /\ cache' = cfg[t]
    /\ expires' = Expiry(t)
    /\ Release(t)
    /\ Returns(t, cfg[t])
    /\ refills' = IF force[t] THEN refills ELSE [refills EXCEPT ![on[t]] = @ + 1]
    /\ UNCHANGED <<now, db, writer>>

\* Redis evicts the key, or its text is not a Config: a GET that finds such a
\* text counts as a miss.
CacheIsSpoiled ==
    /\ cache # Nothing
    /\ CacheIsLost
    /\ UNCHANGED <<now, db, writer, loader, holder>>

\* Time passes; no load holds the lock for longer than MaxLoad.
Tick ==
    /\ now < MaxTime
    /\ \A p \in Replica : lock[p] = NoTask \/ now < locked_at[p] + MaxLoad
    /\ now' = now + 1
    /\ IF now + 1 >= expires THEN CacheIsLost ELSE UNCHANGED cached
    /\ UNCHANGED <<db, writer, loader, holder>>

Next ==
    \/ WriteBegins \/ Upserts \/ Invalidates \/ WriteFails
    \/ \E t \in Task, p \in Replica : CallsUnforced(t, p) \/ CallsForced(t, p)
    \/ \E t \in Task : \/ Locks(t) \/ Selects(t)
                       \/ FindsNoRow(t) \/ LoadFails(t) \/ Stores(t)
    \/ CacheIsSpoiled
    \/ Tick

Spec == Init /\ [][Next]_vars

-----------------------------------------------------------------------------
Version == 0 .. writes
ConfigRead == [Row -> Version \cup {Absent}]

TypeOK ==
    /\ now \in 0 .. MaxTime
    /\ {db, cache} \subseteq ConfigRead
    /\ expires \in 0 .. MaxTime + Ttl
    /\ writes \in 0 .. MaxWrites
    /\ done \in Version
    /\ writing \in Seq(Row)
    /\ next \in 1 .. Len(Rows) + 1
    /\ changed \in 0 .. now
    /\ pc \in [Task -> {"idle", "locking", "storing"} \cup {Queries[i] : i \in DOMAIN Queries}]
    /\ on \in [Task -> Replica \cup {NoReplica}]
    /\ force \in [Task -> BOOLEAN]
    /\ cfg \in [Task -> ConfigRead]
    /\ lock \in [Replica -> Task \cup {NoTask}]
    /\ locked_at \in [Replica -> 0 .. now]
    /\ holder \in [Replica -> ConfigRead]
    \* What may be served was read from the database, routing row included.
    /\ \A config \in {cache} \cup {holder[p] : p \in Replica} :
          config = Nothing \/ config["routing"] # Absent
    /\ refills \in [Replica -> Nat]

\* However writes, loads on several replicas and their SETEX interleave, and
\* also when a write stops half way: once the tables have been left alone for
\* the time of one load and one cache lifetime, the cache, if there is one, is
\* what the tables say.  A stale value cannot be renewed.
CacheCatchesUp == now >= changed + MaxLoad + Ttl => cache \in {Nothing, db}

\* Two SIGHUPs in quick succession start two reloads at once.  They finish in
\* the order in which they read: no row a replica works with ever goes back to
\* an older write.
HolderNeverGoesBack ==
    [][\A p \in Replica, r \in Row : holder'[p][r] >= holder[p][r]]_vars

\* "Cold-cache stampede protection: only one coroutine at a time runs the DB
\* fetch": of all the coroutines of a replica that miss, one refills the cache;
\* no other one does before the value has expired or was deleted.
StampedeProtected == \A p \in Replica : refills[p] <= 1

\* docs: write() persists "all three DB tables atomically": no config that is
\* cached has rows of one write and rows of another.
ConfigIsWhole == cache # Nothing => cache["openai"] = cache["routing"]

\* Comment in write(): "Invalidate so the next load_or_refresh fetches the
\* fresh row."  What the next one would find is not older than the last write()
\* that returned.
NextLoadIsFresh == cache # Nothing => cache["routing"] >= done

\* tests/test_config_store.py: "write() followed by load_from_db() returns a
\* Config equal to the original."
WriteReplacesConfig == done = writes /\ writes > 0 => \A r \in Row : db[r] \in {Absent, writes}

\* Module comment: "individual replicas pick up updates on the next TTL expiry
\* without explicit push".
ReplicasPickUp ==
    now >= changed + MaxLoad + Ttl => \A p \in Replica : holder[p] \in {Nothing, db}
=============================================================================
