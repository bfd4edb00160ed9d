----------------------------- MODULE Migrations -----------------------------
(***************************************************************************)
(* The database schema while scripts and replicas come and go.             *)
(* Database.run_migrations of src/gateway/db.py, the scripts of            *)
(* src/scripts that an operator runs alone or through setup.sh, and a      *)
(* replica that boots and writes its rows meanwhile.                       *)
(*                                                                         *)
(* Postgres is modelled by what the code relies on: DDL that is undone     *)
(* with its transaction, an advisory lock that ends with it, table locks   *)
(* that last as long, and the errors of two transactions that create the   *)
(* same thing or wait for each other.  The indexes of `requests` are one   *)
(* object, the three tables of the configuration another.                  *)
(***************************************************************************)
EXTENDS Integers, Sequences

CONSTANTS
    Operator,      \* shells in which scripts are run
    Replica

None == "none"

ASSUME OperatorAssumption == None \notin Operator

\* The statements of migrations/*.sql, in the order of the files and in them:
\* what each creates if it does not exist, the table it needs, and the lock
\* on it that it takes before it looks.
Statement(creates, needs, lock) == [creates |-> creates, needs |-> needs, lock |-> lock]
Requests == Statement("requests", {}, None)
RequestsIndexes == Statement("indexes", {"requests"}, "share")
Callers == Statement("callers", {}, None)
ClientTraceId == Statement("client_trace_id", {"requests"}, "exclusive")
GatewayConfig == Statement("config_tables", {}, None)
Statements == <<Requests, RequestsIndexes, Callers, ClientTraceId, GatewayConfig>>

\* Mutant of CommitsAfter: a transaction per file.
CommitsAfterFile(i) == i \in {3, 4, 5}

CommitsAfter(i) == i = Len(Statements)

Object == {Statements[i].creates : i \in DOMAIN Statements}

\* What a database was made with: nothing, or an earlier release's files.
Schemas == {{}, {"requests", "indexes", "callers"}, Object \ {"config_tables"}, Object}

\* setup.sh, and the scripts on their own.
Setup == <<"apply_migrations", "seed_config", "seed_callers">>
Runs == {Setup} \cup {<<Setup[i]>> : i \in DOMAIN Setup}
Migrates == {"apply_migrations", "seed_config"}

VARIABLES
    schema,     \* objects committed
    initial,    \* those of the beginning
    seeded,     \* does routing_config have its row?
    cached,     \* is a config under gw:config:current?
    todo,       \* todo[o]: the scripts o has yet to run, the current one first
    setup,      \* setup[o]: is it setup.sh that runs them?
    pc,         \* pc[o]: where the current script is
    stmt,       \* stmt[o]: index of its next statement
    made,       \* made[o]: objects its transaction has created
    held,       \* held[o]: its lock on `requests`
    advisory,   \* who holds advisory lock 7331101, or None
    replica,    \* replica[p]: "down", "serving" or "inserting"
    rejected    \* has Postgres refused a row for its columns?

tables == <<schema, initial, seeded, cached>>
script == <<todo, setup, pc, stmt, made, held, advisory>>
vars == <<tables, script, replica, rejected>>

Init ==
    /\ schema \in Schemas
    /\ initial = schema
    /\ seeded \in BOOLEAN /\ (seeded => "config_tables" \in schema)
    /\ cached \in BOOLEAN /\ (cached => seeded)
    /\ todo = [o \in Operator |-> <<>>]
    /\ setup = [o \in Operator |-> FALSE]
    /\ pc = [o \in Operator |-> "ready"]
    /\ stmt = [o \in Operator |-> 1]
    /\ made = [o \in Operator |-> {}]
    /\ held = [o \in Operator |-> None]
    /\ advisory = None
    /\ replica = [p \in Replica |-> "down"]
    /\ rejected = FALSE

-----------------------------------------------------------------------------
\* An operator runs setup.sh or one script; pool and connection are made.
Starts(o) ==
    /\ pc[o] = "ready"
    /\ \E run \in Runs :
          /\ todo' = [todo EXCEPT ![o] = run]
          /\ setup' = [setup EXCEPT ![o] = run = Setup]
          /\ pc' = [pc EXCEPT ![o] = IF Head(run) \in Migrates THEN "locking" ELSE "seeding"]
    /\ UNCHANGED <<tables, stmt, made, held, advisory, replica, rejected>>

\* The script ends well; with `set -e` the next one runs only then.
NextScript(o) ==
    /\ todo' = [todo EXCEPT ![o] = Tail(@)]
    /\ pc' = [pc EXCEPT ![o] = IF Len(todo[o]) = 1 THEN "done"
                               ELSE IF todo[o][2] \in Migrates THEN "locking" ELSE "seeding"]

\* The transaction ends, and with it all its locks.
Unlocks(o) ==
    /\ made' = [made EXCEPT ![o] = {}]
    /\ held' = [held EXCEPT ![o] = None]
    /\ advisory' = IF advisory = o THEN None ELSE advisory

\* Mutant of Aborts: setup.sh without `set -e`.
AbortsGoesOn(o) ==
    /\ stmt' = [stmt EXCEPT ![o] = 1]
    /\ IF setup[o] /\ Len(todo[o]) > 1
       THEN NextScript(o)
       ELSE pc' = [pc EXCEPT ![o] = "failed"] /\ todo' = [todo EXCEPT ![o] = <<>>]
    /\ Unlocks(o)
    /\ UNCHANGED <<tables, setup, replica, rejected>>

\* It is rolled back: an error, a lost connection, a script that is killed.
Aborts(o) ==
    /\ pc' = [pc EXCEPT ![o] = "failed"]
    /\ todo' = [todo EXCEPT ![o] = <<>>]
    /\ stmt' = [stmt EXCEPT ![o] = 1]
    /\ Unlocks(o)
    /\ UNCHANGED <<tables, setup, replica, rejected>>

Fails(o) ==
    /\ pc[o] \notin {"ready", "done", "failed"}
    /\ Aborts(o)

\* Mutant of Locks: it takes nothing.
LocksNothing(o) ==
    /\ pc[o] = "locking"
    /\ pc' = [pc EXCEPT ![o] = "looking"]
    /\ UNCHANGED <<tables, todo, setup, stmt, made, held, advisory, replica, rejected>>

\* SELECT pg_advisory_xact_lock.
Locks(o) ==
    /\ pc[o] = "locking"
    /\ advisory = None
    /\ advisory' = o
    /\ pc' = [pc EXCEPT ![o] = "looking"]
    /\ UNCHANGED <<tables, todo, setup, stmt, made, held, replica, rejected>>

-----------------------------------------------------------------------------
Visible(o) == schema \cup made[o]
Others(o) == Operator \ {o}

\* Locks of others on `requests` that a statement or an INSERT has to wait for.
Inserting == \E p \in Replica : replica[p] = "inserting"
Blocked(o, lock) ==
    \/ lock = "share" /\ (Inserting \/ \E q \in Others(o) : held[q] = "exclusive")
    \/ lock = "exclusive" /\ (Inserting \/ \E q \in Others(o) : held[q] # None)

Current(o) == Statements[stmt[o]]

\* The statement finds its table, takes its lock on it and looks whether its
\* object exists.
Looks(o) ==
    /\ pc[o] = "looking"
    /\ Current(o).needs \subseteq Visible(o)
    /\ ~Blocked(o, Current(o).lock)
    /\ held' = [held EXCEPT ![o] = IF Current(o).lock = None THEN @ ELSE Current(o).lock]
    /\ pc' = [pc EXCEPT ![o] = IF Current(o).creates \in Visible(o) THEN "created" ELSE "creating"]
    /\ UNCHANGED <<tables, todo, setup, stmt, made, advisory, replica, rejected>>

\* It does not exist: the entry in the catalog, which waits for a transaction
\* that has made the same one.
Creates(o) ==
    /\ pc[o] = "creating"
    /\ Current(o).creates \notin schema
    /\ \A q \in Others(o) : Current(o).creates \notin made[q]
    /\ made' = [made EXCEPT ![o] = @ \cup {Current(o).creates}]
    /\ pc' = [pc EXCEPT ![o] = "created"]
    /\ UNCHANGED <<tables, todo, setup, stmt, held, advisory, replica, rejected>>

\* Postgres aborts the script for what another one does: the table is missing;
\* another transaction created the object since; or two transactions wait for
\* each other.
Clashes(o) ==
    \/ pc[o] = "looking" /\ ~(Current(o).needs \subseteq Visible(o))
    \/ pc[o] = "creating" /\ Current(o).creates \in schema
    \/ /\ pc[o] = "looking"
       /\ Current(o).lock = "exclusive"
       /\ held[o] = "share"
       /\ \E q \in Others(o) :
             held[q] = "share" /\ pc[q] = "looking" /\ Current(q).lock = "exclusive"

\* The statement is done; after the last one the transaction commits.
Commits(o) ==
    /\ schema' = schema \cup made[o]
    /\ Unlocks(o)

StatementEnds(o) ==
    /\ pc[o] = "created"
    /\ stmt' = [stmt EXCEPT ![o] = IF @ = Len(Statements) THEN 1 ELSE @ + 1]
    /\ IF CommitsAfter(stmt[o]) THEN Commits(o) ELSE UNCHANGED <<schema, made, held, advisory>>
    /\ IF stmt[o] < Len(Statements)
       THEN pc' = [pc EXCEPT ![o] = "looking"] /\ UNCHANGED todo
       ELSE IF todo[o][1] = "seed_config"
            THEN pc' = [pc EXCEPT ![o] = "seeding"] /\ UNCHANGED todo
            ELSE NextScript(o)
    /\ UNCHANGED <<initial, seeded, cached, setup, replica, rejected>>

\* seed_config: ConfigStore.write.  The upserts of tiers and of what the providers
\* serve come first, and no replica boots with these alone; the last one writes the
\* row of routing_config.
SeedsConfig(o) ==
    /\ pc[o] = "seeding"
    /\ todo[o][1] = "seed_config"
    /\ "config_tables" \in schema
    /\ seeded' = TRUE
    /\ pc' = [pc EXCEPT ![o] = "invalidating"]
    /\ UNCHANGED <<schema, initial, cached, todo, setup, stmt, made, held, advisory, replica, rejected>>

\* The DEL of the cached config.
Invalidates(o) ==
    /\ pc[o] = "invalidating"
    /\ cached' = FALSE
    /\ NextScript(o)
    /\ UNCHANGED <<schema, initial, seeded, setup, stmt, made, held, advisory, replica, rejected>>

\* seed_callers: its upserts, of the callers whose key is in the environment.
SeedsCallers(o) ==
    /\ pc[o] = "seeding"
    /\ todo[o][1] = "seed_callers"
    /\ "callers" \in schema
    /\ NextScript(o)
    /\ UNCHANGED <<schema, initial, seeded, cached, setup, stmt, made, held, advisory, replica, rejected>>

\* On its own it does not create its table.
LacksCallers(o) ==
    /\ pc[o] = "seeding"
    /\ todo[o][1] = "seed_callers"
    /\ "callers" \notin schema
    /\ Aborts(o)

-----------------------------------------------------------------------------
\* Mutant of Boots: a default configuration when there is none.
BootsAnyway(p) ==
    /\ replica[p] = "down"
    /\ replica' = [replica EXCEPT ![p] = "serving"]
    /\ UNCHANGED <<tables, script, rejected>>

\* The lifespan needs a configuration, from Redis or from the tables, where
\* load_or_refresh leaves it in Redis; otherwise the process exits.  The count
\* of callers is tolerated to fail.
Boots(p) ==
    /\ replica[p] = "down"
    /\ cached \/ ("config_tables" \in schema /\ seeded)
    /\ cached' = TRUE
    /\ replica' = [replica EXCEPT ![p] = "serving"]
    /\ UNCHANGED <<schema, initial, seeded, script, rejected>>

\* write_batch: the INSERT waits for the migrations that have locked its table,
\* and then finds a column missing, or not.
Inserts(p) ==
    /\ replica[p] = "serving"
    /\ \A o \in Operator : held[o] = None
    /\ IF {"requests", "client_trace_id"} \subseteq schema
       THEN /\ replica' = [replica EXCEPT ![p] = "inserting"]
            /\ UNCHANGED rejected
       ELSE /\ rejected' = TRUE
            /\ UNCHANGED replica
    /\ UNCHANGED <<tables, script>>

InsertEnds(p) ==
    /\ replica[p] = "inserting"
    /\ replica' = [replica EXCEPT ![p] = "serving"]
    /\ UNCHANGED <<tables, script, rejected>>

Stops(p) ==
    /\ replica[p] # "down"
    /\ replica' = [replica EXCEPT ![p] = "down"]
    /\ UNCHANGED <<tables, script, rejected>>

\* The cached config expires.
Expires ==
    /\ cached
    /\ cached' = FALSE
    /\ UNCHANGED <<schema, initial, seeded, script, replica, rejected>>

Next ==
    \/ \E o \in Operator :
          \/ Starts(o) \/ Locks(o) \/ Looks(o) \/ Creates(o) \/ StatementEnds(o)
          \/ SeedsConfig(o) \/ Invalidates(o) \/ SeedsCallers(o) \/ LacksCallers(o) \/ Fails(o)
    \/ \E p \in Replica : Boots(p) \/ Inserts(p) \/ InsertEnds(p) \/ Stops(p)
    \/ Expires

Spec == Init /\ [][Next]_vars

-----------------------------------------------------------------------------
TypeOK ==
    /\ {schema, initial} \subseteq SUBSET Object
    /\ {seeded, cached, rejected} \subseteq BOOLEAN
    /\ todo \in [Operator -> {<<>>} \cup {SubSeq(run, i, Len(run)) : run \in Runs, i \in 1 .. 3}]
    /\ setup \in [Operator -> BOOLEAN]
    /\ pc \in [Operator -> {"ready", "locking", "looking", "creating", "created",
                            "seeding", "invalidating", "done", "failed"}]
    /\ stmt \in [Operator -> DOMAIN Statements]
    /\ made \in [Operator -> SUBSET Object]
    /\ held \in [Operator -> {None, "share", "exclusive"}]
    /\ advisory \in Operator \cup {None}
    /\ replica \in [Replica -> {"down", "serving", "inserting"}]

\* Scripts are killed between any two statements, and others run meanwhile, but
\* no one ever sees a schema in between: it is what it was or what all the
\* files make of it.
SchemaIsWhole == schema \in {initial, Object}

\* tests/test_db.py: "Three concurrent run_migrations() calls must not crash."
\* From whatever release the database is of, and with replicas that write, no
\* run fails because of another: no object created twice, no table missing, and
\* no two that hold `requests` shared and both want it for themselves.
MigrationsNeverClash == \A o \in Operator : ~Clashes(o)

\* A replica inserts into columns that a migration later than the first one
\* adds, and never looks at the schema: it serves because it found a
\* configuration, in Redis perhaps.  Still no row of it is refused.
RowsFitSchema == ~rejected

\* setup.sh that reports success, alone or beside others, leaves a database on
\* which a replica boots.
SetupBootstraps ==
    \A o \in Operator : setup[o] /\ pc[o] = "done" => schema = Object /\ seeded
=============================================================================
