-------------------------- MODULE MigrationsProofs --------------------------
(***************************************************************************)
(* The database schema is safe for every set of operators and replicas,    *)
(* whatever scripts they run, and whenever those are killed.               *)
(*                                                                         *)
(* The invariant says what the advisory lock is for (OneMigrates), what a  *)
(* transaction has seen of the statements before its next one (Progress),  *)
(* and how far setup.sh must have come for the script it runs now          *)
(* (SetupSteps).                                                           *)
(***************************************************************************)
EXTENDS Migrations, SequenceTheorems, TLAPS

\* What setup.sh, or a script on its own, may have yet to run.
SeedsAfter == <<"seed_config", "seed_callers">>
Rests == {<<>>, Setup, SeedsAfter, <<"apply_migrations">>, <<"seed_config">>, <<"seed_callers">>}

Migrating(o) == pc[o] \in {"looking", "creating", "created"}
Over(o) == pc[o] \in {"ready", "done", "failed"}

\* The types that the steps rely on.
Types ==
    /\ todo \in [Operator -> Rests]
    /\ setup \in [Operator -> BOOLEAN]
    /\ pc \in [Operator -> {"ready", "locking", "looking", "creating", "created",
                            "seeding", "invalidating", "done", "failed"}]
    /\ stmt \in [Operator -> 1 .. 5]
    /\ made \in [Operator -> SUBSET Object]
    /\ held \in [Operator -> {None, "share", "exclusive"}]
    /\ advisory \in Operator \cup {None}
    /\ replica \in [Replica -> {"down", "serving", "inserting"}]
    /\ schema \in SUBSET Object /\ initial \in Schemas
    /\ seeded \in BOOLEAN /\ cached \in BOOLEAN /\ rejected \in BOOLEAN

\* The advisory lock is held exactly while a script migrates, and nothing of a
\* transaction outlives it.
OneMigrates ==
    \A o \in Operator :
        /\ Migrating(o) <=> advisory = o
        /\ ~Migrating(o) => made[o] = {} /\ held[o] = None /\ stmt[o] = 1

\* The transaction sees what its statements so far were to create.
Progress ==
    \A o \in Operator :
        /\ Migrating(o) => \A i \in 1 .. 5 : i < stmt[o] => Statements[i].creates \in Visible(o)
        /\ pc[o] = "created" => Current(o).creates \in Visible(o)
        /\ pc[o] = "creating" => Current(o).creates \notin schema

\* A script is over when nothing is left to run; only the two that migrate take
\* the lock, and only the two that seed write rows.
Scripts ==
    \A o \in Operator :
        /\ Over(o) <=> todo[o] = <<>>
        /\ pc[o] = "locking" \/ Migrating(o) => todo[o][1] \in Migrates
        /\ pc[o] = "seeding" => todo[o][1] # "apply_migrations"
        /\ pc[o] = "invalidating" => todo[o][1] = "seed_config"

\* With `set -e`, the script that setup.sh runs now follows those that ended well.
SetupSteps ==
    \A o \in Operator : setup[o] =>
        /\ todo[o] \in {Setup, SeedsAfter, <<"seed_callers">>, <<>>}
        /\ todo[o] \in {SeedsAfter, <<"seed_callers">>} \/ pc[o] = "done" => schema = Object
        /\ todo[o] = <<"seed_callers">> \/ pc[o] \in {"invalidating", "done"} => seeded

\* A configuration, in Redis or in the table, comes from a database that has the
\* tables of the last migration; so does a replica that serves.
ConfigHasTables ==
    /\ seeded \/ cached => "config_tables" \in schema
    /\ \A p \in Replica : replica[p] # "down" => "config_tables" \in schema

IInv ==
    /\ Types
    /\ SchemaIsWhole
    /\ OneMigrates
    /\ Progress
    /\ Scripts
    /\ SetupSteps
    /\ ConfigHasTables
    /\ RowsFitSchema

-----------------------------------------------------------------------------
\* The five statements of the migrations, in order.
LEMMA StatementFacts ==
    /\ Len(Statements) = 5 /\ DOMAIN Statements = 1 .. 5
    /\ Statements[1] = Requests /\ Statements[2] = RequestsIndexes /\ Statements[3] = Callers
    /\ Statements[4] = ClientTraceId /\ Statements[5] = GatewayConfig
  BY DEF Statements

\* What the migrations create.
LEMMA ObjectFacts == Object = {"requests", "indexes", "callers", "client_trace_id", "config_tables"}
  BY StatementFacts DEF Object, Statement, Requests, RequestsIndexes, Callers, ClientTraceId, GatewayConfig

\* Every object is created by one of the five statements.
LEMMA CreatesFacts ==
    /\ \A i \in 1 .. 5 : Statements[i].creates \in Object
    /\ Object = {Statements[i].creates : i \in 1 .. 5}
    /\ \A i \in 1 .. 5 : Statements[i].lock \in {None, "share", "exclusive"}
  BY StatementFacts DEF Object, Statement, Requests, RequestsIndexes, Callers, ClientTraceId, GatewayConfig

\* Head and tail of what setup.sh may have left to run.
LEMMA RestFacts ==
    /\ Len(Setup) = 3 /\ Setup[1] = "apply_migrations" /\ Setup[2] = "seed_config"
    /\ Tail(Setup) = SeedsAfter
    /\ Len(SeedsAfter) = 2 /\ SeedsAfter[1] = "seed_config" /\ SeedsAfter[2] = "seed_callers"
    /\ Tail(SeedsAfter) = <<"seed_callers">>
    /\ \A s \in {"apply_migrations", "seed_config", "seed_callers"} :
          Len(<<s>>) = 1 /\ <<s>>[1] = s /\ Tail(<<s>>) = <<>> /\ <<s>> # <<>>
    /\ Setup # <<>> /\ SeedsAfter # <<>> /\ Setup # SeedsAfter
    /\ \A s \in {"apply_migrations", "seed_config", "seed_callers"} : <<s>> # Setup /\ <<s>> # SeedsAfter
  BY DEF Setup, SeedsAfter

\* What an operator may start.
LEMMA RunFacts ==
    \A run \in Runs : /\ run \in Rests /\ run # <<>> /\ Head(run) = run[1]
                      /\ run[1] = "seed_callers" <=> Head(run) \notin Migrates
                      /\ run = Setup \/ Len(run) = 1
<1>1. Runs = {Setup, <<"apply_migrations">>, <<"seed_config">>, <<"seed_callers">>}
  BY DEF Setup, Runs
<1> QED
  BY <1>1 DEF Setup, Rests, Migrates

-----------------------------------------------------------------------------
\* A database of any release, with no script running, satisfies the invariant.
LEMMA InitStep == Init => IInv
<1> SUFFICES ASSUME Init PROVE IInv
  OBVIOUS
<1>0. /\ seeded \in BOOLEAN /\ cached \in BOOLEAN /\ rejected \in BOOLEAN
      /\ (seeded => "config_tables" \in schema) /\ (cached => seeded)
  BY DEF Init
<1> USE DEF Init
<1>1. Types
  <2>1. schema \in SUBSET Object /\ initial \in Schemas
    BY ObjectFacts DEF Schemas
  <2>2. todo \in [Operator -> Rests] /\ setup \in [Operator -> BOOLEAN]
    BY DEF Rests
  <2>3. stmt \in [Operator -> 1 .. 5] /\ made \in [Operator -> SUBSET Object]
    OBVIOUS
  <2> QED
    BY <1>0, <2>1, <2>2, <2>3 DEF Types
<1>2. SchemaIsWhole /\ OneMigrates /\ Scripts /\ SetupSteps /\ RowsFitSchema
  BY OperatorAssumption DEF SchemaIsWhole, OneMigrates, Migrating, Over, Scripts, SetupSteps, RowsFitSchema
<1>3. Progress
  BY DEF Progress, Migrating
<1>4. ConfigHasTables
  BY <1>0 DEF ConfigHasTables
<1> QED
  BY <1>1, <1>2, <1>3, <1>4 DEF IInv

\* What the end of a script leaves to run.
LEMMA NextFacts ==
    ASSUME IInv, NEW o \in Operator, NextScript(o), todo[o] # <<>>
    PROVE  /\ todo' = [todo EXCEPT ![o] = Tail(todo[o])]
           /\ todo[o] = Setup => todo'[o] = SeedsAfter /\ pc'[o] = "locking"
           /\ todo[o] = SeedsAfter => todo'[o] = <<"seed_callers">> /\ pc'[o] = "seeding"
           /\ todo[o] \notin {Setup, SeedsAfter} => todo'[o] = <<>> /\ pc'[o] = "done"
           /\ \E l \in {"done", "locking", "seeding"} : pc' = [pc EXCEPT ![o] = l]
           /\ todo' \in [Operator -> Rests]
<1>1. todo \in [Operator -> Rests] /\ DOMAIN pc = Operator /\ todo[o] \in Rests
  BY DEF IInv, Types
<1>2. todo' = [todo EXCEPT ![o] = Tail(todo[o])] /\ todo'[o] = Tail(todo[o])
  BY <1>1 DEF NextScript
<1>3. pc' = [pc EXCEPT ![o] = IF Len(todo[o]) = 1 THEN "done"
                             ELSE IF todo[o][2] \in Migrates THEN "locking" ELSE "seeding"]
  BY DEF NextScript
<1>4. CASE todo[o] = Setup
  BY <1>1, <1>2, <1>3, <1>4, RestFacts DEF Rests, Migrates
<1>5. CASE todo[o] = SeedsAfter
  BY <1>1, <1>2, <1>3, <1>5, RestFacts DEF Rests, Migrates
<1>6. CASE todo[o] \notin {Setup, SeedsAfter}
  <2>1. PICK s \in {"apply_migrations", "seed_config", "seed_callers"} : todo[o] = <<s>>
    BY <1>1, <1>6 DEF Rests
  <2>2. Len(todo[o]) = 1 /\ Tail(todo[o]) = <<>>
    BY <2>1, RestFacts
  <2> QED
    BY <1>1, <1>2, <1>3, <1>6, <2>2 DEF Rests
<1> QED
  BY <1>4, <1>5, <1>6

\* An operator starts setup.sh or a script.
LEMMA StartsStep == ASSUME IInv, NEW o \in Operator, Starts(o) PROVE IInv'
<1>1. PICK run \in Runs :
         /\ todo' = [todo EXCEPT ![o] = run]
         /\ setup' = [setup EXCEPT ![o] = run = Setup]
         /\ pc' = [pc EXCEPT ![o] = IF Head(run) \in Migrates THEN "locking" ELSE "seeding"]
  BY DEF Starts
<1>2. pc[o] = "ready" /\ UNCHANGED <<tables, stmt, made, held, advisory, replica, rejected>>
  BY DEF Starts
<1> USE <1>1, <1>2, RunFacts DEF tables
<1>3. Types'
  BY DEF IInv, Types
<1>4. OneMigrates'
  BY DEF IInv, Types, OneMigrates, Migrating
<1>5. Progress'
  BY DEF IInv, Types, OneMigrates, Progress, Migrating, Visible, Current
<1>6. Scripts'
  BY DEF IInv, Types, Scripts, Migrating, Over, Migrates
<1>7. SetupSteps'
  <2>1. \A q \in Operator : q # o =>
           setup'[q] = setup[q] /\ todo'[q] = todo[q] /\ pc'[q] = pc[q]
    BY DEF IInv, Types
  <2>2. /\ todo'[o] = run /\ (setup'[o] <=> run = Setup)
        /\ pc'[o] \in {"locking", "seeding"}
    BY DEF IInv, Types
  <2>3. Setup \notin {SeedsAfter, <<"seed_callers">>}
    BY RestFacts
  <2>4. schema' = schema /\ seeded' = seeded
    OBVIOUS
  <2>5. ASSUME NEW q \in Operator, setup'[q]
        PROVE  /\ todo'[q] \in {Setup, SeedsAfter, <<"seed_callers">>, <<>>}
               /\ todo'[q] \in {SeedsAfter, <<"seed_callers">>} \/ pc'[q] = "done" => schema' = Object
               /\ todo'[q] = <<"seed_callers">> \/ pc'[q] \in {"invalidating", "done"} => seeded'
    <3>1. CASE q = o
      BY ONLY <2>2, <2>3, <2>5, <3>1
    <3>2. CASE q # o
      BY ONLY <2>1, <2>4, <2>5, <3>2, IInv DEF IInv, SetupSteps
    <3> QED
      BY ONLY <3>1, <3>2
  <2> QED
    BY ONLY <2>5 DEF SetupSteps
<1>8. SchemaIsWhole' /\ ConfigHasTables' /\ RowsFitSchema'
  BY DEF IInv, Types, SchemaIsWhole, ConfigHasTables, RowsFitSchema
<1> QED
  BY <1>3, <1>4, <1>5, <1>6, <1>7, <1>8 DEF IInv

\* A migration takes the advisory lock, which nobody holds.
LEMMA LocksStep == ASSUME IInv, NEW o \in Operator, Locks(o) PROVE IInv'
<1> USE DEF Locks, tables
<1>3. Types'
  BY DEF IInv, Types
<1>4. OneMigrates'
  BY OperatorAssumption DEF IInv, Types, OneMigrates, Migrating
<1>5. Progress'
  BY DEF IInv, Types, OneMigrates, Progress, Migrating, Visible, Current
<1>6. Scripts'
  BY DEF IInv, Types, Scripts, Migrating, Over
<1>7. SetupSteps'
  BY DEF IInv, Types, SetupSteps
<1>8. SchemaIsWhole' /\ ConfigHasTables' /\ RowsFitSchema'
  BY DEF IInv, Types, SchemaIsWhole, ConfigHasTables, RowsFitSchema
<1> QED
  BY <1>3, <1>4, <1>5, <1>6, <1>7, <1>8 DEF IInv

\* A statement finds its table and locks it.
LEMMA LooksStep == ASSUME IInv, NEW o \in Operator, Looks(o) PROVE IInv'
<1> USE DEF Looks, tables
<1>3. Types'
  BY CreatesFacts DEF IInv, Types, Current
<1>4. OneMigrates'
  BY DEF IInv, Types, OneMigrates, Migrating
<1>5. Progress'
  BY DEF IInv, Types, OneMigrates, Progress, Migrating, Visible, Current
<1>6. Scripts'
  BY DEF IInv, Types, Scripts, Migrating, Over
<1>7. SetupSteps'
  BY DEF IInv, Types, SetupSteps
<1>8. SchemaIsWhole' /\ ConfigHasTables' /\ RowsFitSchema'
  BY DEF IInv, Types, SchemaIsWhole, ConfigHasTables, RowsFitSchema
<1> QED
  BY <1>3, <1>4, <1>5, <1>6, <1>7, <1>8 DEF IInv

\* A statement creates its object inside the transaction.
LEMMA CreatesStep == ASSUME IInv, NEW o \in Operator, Creates(o) PROVE IInv'
<1> USE DEF Creates, tables
<1>3. Types'
  BY CreatesFacts DEF IInv, Types, Current
<1>4. OneMigrates'
  BY DEF IInv, Types, OneMigrates, Migrating
<1>5. Progress'
  BY DEF IInv, Types, OneMigrates, Progress, Migrating, Visible, Current
<1>6. Scripts'
  BY DEF IInv, Types, Scripts, Migrating, Over
<1>7. SetupSteps'
  BY DEF IInv, Types, SetupSteps
<1>8. SchemaIsWhole' /\ ConfigHasTables' /\ RowsFitSchema'
  BY DEF IInv, Types, SchemaIsWhole, ConfigHasTables, RowsFitSchema
<1> QED
  BY <1>3, <1>4, <1>5, <1>6, <1>7, <1>8 DEF IInv

\* Whatever aborts a script leaves nothing of it.
LEMMA AbortsStep == ASSUME IInv, NEW o \in Operator, Aborts(o), todo[o] # <<>> PROVE IInv'
<1> USE DEF Aborts, Unlocks, tables
<1>3. Types'
  BY DEF IInv, Types, Rests
<1>4. OneMigrates'
  BY OperatorAssumption DEF IInv, Types, OneMigrates, Migrating
<1>5. Progress'
  BY DEF IInv, Types, OneMigrates, Progress, Migrating, Visible, Current
<1>6. Scripts'
  BY DEF IInv, Types, Scripts, Migrating, Over
<1>7. SetupSteps'
  BY RestFacts DEF IInv, Types, SetupSteps
<1>8. SchemaIsWhole' /\ ConfigHasTables' /\ RowsFitSchema'
  BY DEF IInv, Types, SchemaIsWhole, ConfigHasTables, RowsFitSchema
<1> QED
  BY <1>3, <1>4, <1>5, <1>6, <1>7, <1>8 DEF IInv

\* A statement ends; the last one commits, and the script goes on.
LEMMA StatementEndsStep == ASSUME IInv, NEW o \in Operator, StatementEnds(o) PROVE IInv'
<1>1. /\ pc[o] = "created" /\ advisory = o /\ stmt[o] \in 1 .. 5
      /\ todo[o] # <<>> /\ todo[o] \in Rests /\ todo[o][1] \in Migrates
      /\ UNCHANGED <<initial, seeded, cached, setup, replica, rejected>>
  BY DEF StatementEnds, IInv, Types, OneMigrates, Scripts, Migrating, Over
<1>2. CASE stmt[o] < 5
  <2>1. /\ stmt' = [stmt EXCEPT ![o] = stmt[o] + 1]
        /\ pc' = [pc EXCEPT ![o] = "looking"]
        /\ UNCHANGED <<schema, made, held, advisory, todo>>
    <3>1. stmt[o] # 5 /\ ~CommitsAfter(stmt[o]) /\ stmt[o] < Len(Statements) /\ stmt[o] # Len(Statements)
      BY <1>1, <1>2, StatementFacts DEF CommitsAfter
    <3> QED
      BY <3>1 DEF StatementEnds
  <2> USE <1>1, <1>2, <2>1
  <2>3. Types'
    BY DEF IInv, Types
  <2>4. OneMigrates'
    BY DEF IInv, Types, OneMigrates, Migrating
  <2>5. Progress'
    BY DEF IInv, Types, OneMigrates, Progress, Migrating, Visible, Current
  <2>6. Scripts'
    BY DEF IInv, Types, Scripts, Migrating, Over
  <2>7. SetupSteps'
    BY DEF IInv, Types, SetupSteps
  <2>8. SchemaIsWhole' /\ ConfigHasTables' /\ RowsFitSchema'
    BY DEF IInv, Types, SchemaIsWhole, ConfigHasTables, RowsFitSchema
  <2> QED
    BY <2>3, <2>4, <2>5, <2>6, <2>7, <2>8 DEF IInv
<1>3. CASE stmt[o] = 5
  <2>1. /\ stmt' = [stmt EXCEPT ![o] = 1]
        /\ schema' = schema \cup made[o]
        /\ made' = [made EXCEPT ![o] = {}]
        /\ held' = [held EXCEPT ![o] = None]
        /\ advisory' = None
        /\ IF todo[o][1] = "seed_config"
           THEN pc' = [pc EXCEPT ![o] = "seeding"] /\ UNCHANGED todo
           ELSE NextScript(o)
    BY <1>1, <1>3, StatementFacts DEF StatementEnds, CommitsAfter, Commits, Unlocks
  <2>2. schema' = Object
    <3>1. \A i \in 1 .. 5 : Statements[i].creates \in schema \cup made[o]
      BY <1>1, <1>3 DEF IInv, Progress, Migrating, Visible, Current
    <3>2. schema \cup made[o] \subseteq Object
      BY DEF IInv, Types
    <3> QED
      BY <2>1, <3>1, <3>2, CreatesFacts
  <2>3. /\ todo' \in [Operator -> Rests]
        /\ \E l \in {"done", "locking", "seeding"} : pc' = [pc EXCEPT ![o] = l]
        /\ \A q \in Operator \ {o} : todo'[q] = todo[q] /\ pc'[q] = pc[q]
        /\ todo'[o] = <<>> <=> pc'[o] = "done"
        /\ pc'[o] = "locking" => todo'[o][1] \in Migrates
        /\ pc'[o] = "seeding" => todo'[o][1] # "apply_migrations"
        /\ todo[o] = Setup => todo'[o] = SeedsAfter /\ pc'[o] = "locking"
        /\ todo[o] \in {SeedsAfter, <<"seed_config">>} => todo'[o] = todo[o] /\ pc'[o] = "seeding"
        /\ todo[o] # <<"seed_callers">>
    <3>0. todo \in [Operator -> Rests] /\ DOMAIN pc = Operator
      BY DEF IInv, Types
    <3>1. CASE todo[o][1] = "seed_config"
      BY <1>1, <2>1, <3>0, <3>1, RestFacts DEF Rests
    <3>2. CASE todo[o][1] # "seed_config"
      <4>1. todo[o] \in {Setup, <<"apply_migrations">>}
        BY <1>1, <3>2, RestFacts DEF Rests, Migrates
      <4>2. NextScript(o)
        BY <2>1, <3>2
      <4>3. /\ \E l \in {"done", "locking", "seeding"} : pc' = [pc EXCEPT ![o] = l]
            /\ todo' = [todo EXCEPT ![o] = Tail(todo[o])]
            /\ todo' \in [Operator -> Rests]
        BY <1>1, <4>2, NextFacts
      <4>4. CASE todo[o] = Setup
        <5>1. todo'[o] = SeedsAfter /\ pc'[o] = "locking"
          BY <1>1, <4>2, <4>4, NextFacts
        <5> QED
          BY <3>0, <4>3, <4>4, <5>1, RestFacts DEF Migrates
      <4>5. CASE todo[o] = <<"apply_migrations">>
        <5>1. todo'[o] = <<>> /\ pc'[o] = "done"
          BY <1>1, <4>2, <4>5, NextFacts, RestFacts
        <5> QED
          BY <3>0, <4>3, <4>5, <5>1, RestFacts
      <4> QED
        BY <4>1, <4>4, <4>5
    <3> QED
      BY <3>1, <3>2
  <2> USE <1>1, <1>3
  <2>4. Types'
    BY <2>1, <2>2, <2>3 DEF IInv, Types
  <2>5. OneMigrates'
    BY <2>1, <2>3, OperatorAssumption DEF IInv, Types, OneMigrates, Migrating
  <2>6. Progress'
    <3>1. \A q \in Operator : ~(pc'[q] \in {"looking", "creating", "created"})
      BY <2>1, <2>5, OperatorAssumption DEF OneMigrates, Migrating
    <3> QED
      BY <3>1 DEF Progress, Migrating
  <2>7. Scripts'
    BY <2>3 DEF IInv, Types, Scripts, Migrating, Over
  <2>8. SetupSteps'
    BY <2>2, <2>3, RestFacts DEF IInv, Types, SetupSteps, Rests
  <2>9. SchemaIsWhole' /\ ConfigHasTables' /\ RowsFitSchema'
    BY <2>2, ObjectFacts DEF IInv, Types, SchemaIsWhole, ConfigHasTables, RowsFitSchema
  <2> QED
    BY <2>4, <2>5, <2>6, <2>7, <2>8, <2>9 DEF IInv
<1> QED
  BY <1>1, <1>2, <1>3

\* A seeding script that ends well.
LEMMA SeedingStep ==
    ASSUME IInv, NEW o \in Operator, NextScript(o),
           UNCHANGED <<schema, initial, setup, stmt, made, held, advisory, replica, rejected>>,
           seeded' = seeded,
           \/ pc[o] = "invalidating" /\ todo[o][1] = "seed_config" /\ cached' = FALSE
           \/ pc[o] = "seeding" /\ todo[o][1] = "seed_callers" /\ cached' = cached
    PROVE  IInv'
<1>1. todo[o] # <<>> /\ todo[o] \in Rests
  BY DEF IInv, Types, Scripts, Over
<1>2. todo[o] \in {SeedsAfter, <<"seed_config">>, <<"seed_callers">>}
  BY <1>1, RestFacts DEF Rests
<1>3. /\ \E l \in {"done", "seeding"} : pc' = [pc EXCEPT ![o] = l]
      /\ todo' = [todo EXCEPT ![o] = Tail(todo[o])]
      /\ todo' \in [Operator -> Rests]
      /\ todo'[o] = <<>> <=> pc'[o] = "done"
      /\ todo'[o] \in {<<>>, <<"seed_callers">>}
      /\ todo'[o] = <<"seed_callers">> => todo[o] = SeedsAfter
  <2>0. DOMAIN pc = Operator
    BY DEF IInv, Types
  <2>1. CASE todo[o] = SeedsAfter
    <3>1. /\ todo' = [todo EXCEPT ![o] = Tail(todo[o])] /\ todo' \in [Operator -> Rests]
          /\ todo'[o] = <<"seed_callers">> /\ pc'[o] = "seeding"
          /\ \E l \in {"done", "locking", "seeding"} : pc' = [pc EXCEPT ![o] = l]
      BY <1>1, <2>1, NextFacts
    <3>2. pc' = [pc EXCEPT ![o] = "seeding"]
      BY <2>0, <3>1
    <3>3. <<"seed_callers">> # <<>>
      OBVIOUS
    <3> QED
      BY ONLY <2>1, <3>1, <3>2, <3>3
  <2>2. CASE todo[o] # SeedsAfter
    <3>1. todo[o] \notin {Setup, SeedsAfter}
      BY <1>2, <2>2, RestFacts
    <3>2. /\ todo' = [todo EXCEPT ![o] = Tail(todo[o])] /\ todo' \in [Operator -> Rests]
          /\ todo'[o] = <<>> /\ pc'[o] = "done"
          /\ \E l \in {"done", "locking", "seeding"} : pc' = [pc EXCEPT ![o] = l]
      BY <1>1, <3>1, NextFacts
    <3>3. pc' = [pc EXCEPT ![o] = "done"]
      BY <2>0, <3>2
    <3>4. <<"seed_callers">> # <<>>
      OBVIOUS
    <3> QED
      BY ONLY <3>2, <3>3, <3>4
  <2> QED
    BY <2>1, <2>2
<1>4. Types'
  <2>1. seeded' \in BOOLEAN /\ cached' \in BOOLEAN
    BY DEF IInv, Types
  <2> QED
    BY <1>3, <2>1 DEF IInv, Types
<1>5. OneMigrates'
  BY <1>3 DEF IInv, Types, OneMigrates, Migrating
<1>6. Progress'
  BY <1>3 DEF IInv, Types, OneMigrates, Progress, Migrating, Visible, Current
<1>7. Scripts'
  BY <1>3, RestFacts DEF IInv, Types, Scripts, Migrating, Over
<1>8. SetupSteps'
  <2>1. /\ \A q \in Operator : q # o => todo'[q] = todo[q] /\ pc'[q] = pc[q]
        /\ pc'[o] = "done" \/ pc'[o] = "seeding"
    BY <1>3 DEF IInv, Types
  <2>2. setup' = setup /\ schema' = schema /\ (seeded => seeded')
    OBVIOUS
  <2>3. <<"seed_callers">> # <<>> /\ SeedsAfter # <<>> /\ SeedsAfter # <<"seed_callers">>
    BY RestFacts
  <2>4. ASSUME NEW q \in Operator, setup'[q]
        PROVE  /\ todo'[q] \in {Setup, SeedsAfter, <<"seed_callers">>, <<>>}
               /\ todo'[q] \in {SeedsAfter, <<"seed_callers">>} \/ pc'[q] = "done" => schema' = Object
               /\ todo'[q] = <<"seed_callers">> \/ pc'[q] \in {"invalidating", "done"} => seeded'
    <3>1. CASE q # o
      BY ONLY <2>1, <2>2, <2>4, <3>1, IInv DEF IInv, SetupSteps
    <3>2. CASE q = o
      <4>1. setup[o] /\ todo[o] \in {SeedsAfter, <<"seed_callers">>}
        <5>1. setup[o] /\ todo[o] # <<"seed_config">>
          BY <2>2, <2>4, <3>2, RestFacts DEF IInv, SetupSteps
        <5> QED
          BY ONLY <5>1, <1>2
      <4>2. schema' = Object
        BY ONLY <2>2, <4>1, IInv DEF IInv, SetupSteps
      <4>3. seeded'
        <5>1. CASE todo[o] = SeedsAfter
          <6>1. pc[o] = "invalidating"
            BY <5>1, RestFacts
          <6> QED
            BY ONLY <2>2, <4>1, <6>1, IInv DEF IInv, SetupSteps
        <5>2. CASE todo[o] = <<"seed_callers">>
          BY ONLY <2>2, <4>1, <5>2, IInv DEF IInv, SetupSteps
        <5> QED
          BY ONLY <4>1, <5>1, <5>2
      <4> QED
        BY ONLY <1>3, <3>2, <4>2, <4>3
    <3> QED
      BY ONLY <3>1, <3>2
  <2> QED
    BY ONLY <2>4 DEF SetupSteps
<1>9. SchemaIsWhole' /\ ConfigHasTables' /\ RowsFitSchema'
  BY DEF IInv, Types, SchemaIsWhole, ConfigHasTables, RowsFitSchema
<1> QED
  BY <1>4, <1>5, <1>6, <1>7, <1>8, <1>9 DEF IInv

\* The row of routing_config is written; setup.sh came here after the migrations.
LEMMA SeedsConfigStep ==
    ASSUME IInv, NEW o \in Operator, SeedsConfig(o)
    PROVE  IInv'
<1>1. /\ pc[o] = "seeding" /\ todo[o][1] = "seed_config" /\ "config_tables" \in schema
      /\ seeded' = TRUE /\ pc' = [pc EXCEPT ![o] = "invalidating"]
      /\ UNCHANGED <<schema, initial, cached, todo, setup, stmt, made, held, advisory, replica, rejected>>
  BY DEF SeedsConfig
<1>2. /\ pc'[o] = "invalidating" /\ \A p \in Operator : p # o => pc'[p] = pc[p]
      /\ pc' \in [Operator -> {"ready", "locking", "looking", "creating", "created",
                               "seeding", "invalidating", "done", "failed"}]
  BY <1>1 DEF IInv, Types
<1>3. Types'
  BY <1>1, <1>2 DEF IInv, Types
<1>4. OneMigrates'
  BY <1>1, <1>2 DEF IInv, OneMigrates, Migrating
<1>5. Progress'
  BY <1>1, <1>2 DEF IInv, Progress, Migrating, Visible, Current
<1>6. Scripts'
  BY <1>1, <1>2 DEF IInv, Scripts, Migrating, Over
<1>7. SetupSteps'
  BY <1>1, <1>2 DEF IInv, SetupSteps
<1>8. SchemaIsWhole' /\ ConfigHasTables' /\ RowsFitSchema'
  BY <1>1 DEF IInv, SchemaIsWhole, ConfigHasTables, RowsFitSchema
<1> QED
  BY <1>3, <1>4, <1>5, <1>6, <1>7, <1>8 DEF IInv

\* Replicas and the cache touch no script.
LEMMA ReplicaStep ==
    ASSUME IInv, UNCHANGED <<script, schema, initial, seeded>>,
           replica' \in [Replica -> {"down", "serving", "inserting"}],
           cached' \in BOOLEAN, cached' => "config_tables" \in schema,
           \A p \in Replica : replica'[p] # "down" => "config_tables" \in schema,
           rejected' = FALSE
    PROVE  IInv'
<1> USE DEF script
<1>1. Types' /\ SchemaIsWhole' /\ ConfigHasTables' /\ RowsFitSchema'
  BY DEF IInv, Types, SchemaIsWhole, ConfigHasTables, RowsFitSchema
<1>2. OneMigrates' /\ Scripts' /\ SetupSteps'
  BY DEF IInv, OneMigrates, Scripts, SetupSteps, Migrating, Over
<1>3. Progress'
  BY DEF IInv, Progress, Migrating, Visible, Current
<1> QED
  BY <1>1, <1>2, <1>3 DEF IInv

-----------------------------------------------------------------------------
\* The invariant is inductive: one case per action.
LEMMA InvStep == IInv /\ [Next]_vars => IInv'
<1> SUFFICES ASSUME IInv, [Next]_vars PROVE IInv'
  OBVIOUS
<1>1. CASE \E o \in Operator :
              \/ Starts(o) \/ Locks(o) \/ Looks(o) \/ Creates(o) \/ StatementEnds(o)
              \/ SeedsConfig(o) \/ Invalidates(o) \/ SeedsCallers(o) \/ LacksCallers(o) \/ Fails(o)
  <2> SUFFICES ASSUME NEW o \in Operator,
                      \/ Starts(o) \/ Locks(o) \/ Looks(o) \/ Creates(o) \/ StatementEnds(o)
                      \/ SeedsConfig(o) \/ Invalidates(o) \/ SeedsCallers(o) \/ LacksCallers(o) \/ Fails(o)
               PROVE  IInv'
    BY <1>1
  <2>1. CASE Starts(o)
    BY <2>1, StartsStep
  <2>2. CASE Locks(o)
    BY <2>2, LocksStep
  <2>3. CASE Looks(o)
    BY <2>3, LooksStep
  <2>4. CASE Creates(o)
    BY <2>4, CreatesStep
  <2>5. CASE StatementEnds(o)
    BY <2>5, StatementEndsStep
  <2>6. CASE SeedsConfig(o)
    BY <2>6, SeedsConfigStep
  <2>7. CASE SeedsCallers(o)
    BY <2>7, SeedingStep DEF SeedsCallers
  <2>8. CASE Invalidates(o)
    <3>1. todo[o][1] = "seed_config"
      BY <2>8 DEF Invalidates, IInv, Scripts
    <3> QED
      BY <2>8, <3>1, SeedingStep DEF Invalidates
  <2>9. CASE LacksCallers(o)
    <3>1. todo[o] # <<>> /\ Aborts(o)
      BY <2>9 DEF LacksCallers, IInv, Types, Scripts, Over
    <3> QED
      BY <3>1, AbortsStep
  <2>10. CASE Fails(o)
    <3>1. todo[o] # <<>> /\ Aborts(o)
      BY <2>10 DEF Fails, IInv, Types, Scripts, Over
    <3> QED
      BY <3>1, AbortsStep
  <2> QED
    BY <2>1, <2>2, <2>3, <2>4, <2>5, <2>6, <2>7, <2>8, <2>9, <2>10
<1>2. CASE \E p \in Replica : Boots(p) \/ Inserts(p) \/ InsertEnds(p) \/ Stops(p)
  <2> SUFFICES ASSUME NEW p \in Replica, Boots(p) \/ Inserts(p) \/ InsertEnds(p) \/ Stops(p)
               PROVE  IInv'
    BY <1>2
  <2> USE DEF tables
  <2>1. CASE Boots(p)
    BY <2>1, ReplicaStep DEF Boots, IInv, Types, ConfigHasTables, RowsFitSchema
  <2>2. CASE Inserts(p)
    <3>1. schema = Object
      BY <2>2, ObjectFacts DEF Inserts, IInv, Types, Schemas, SchemaIsWhole, ConfigHasTables
    <3>2. replica' = [replica EXCEPT ![p] = "inserting"] /\ rejected' = rejected
      BY <2>2, <3>1, ObjectFacts DEF Inserts
    <3>3. UNCHANGED <<tables, script>> /\ "config_tables" \in schema
      BY <2>2, <3>1, ObjectFacts DEF Inserts
    <3> QED
      BY <3>2, <3>3, ReplicaStep DEF IInv, Types, RowsFitSchema
  <2>3. CASE InsertEnds(p)
    BY <2>3, ReplicaStep DEF InsertEnds, IInv, Types, ConfigHasTables, RowsFitSchema
  <2>4. CASE Stops(p)
    BY <2>4, ReplicaStep DEF Stops, IInv, Types, ConfigHasTables, RowsFitSchema
  <2> QED
    BY <2>1, <2>2, <2>3, <2>4
<1>3. CASE Expires
  BY <1>3, ReplicaStep DEF Expires, IInv, Types, ConfigHasTables, RowsFitSchema
<1>4. CASE UNCHANGED vars
  BY <1>4, ReplicaStep DEF vars, tables, IInv, Types, ConfigHasTables, RowsFitSchema
<1> QED
  BY <1>1, <1>2, <1>3, <1>4 DEF Next

\* So every reachable state satisfies it.
LEMMA Invariant == Spec => []IInv
  BY InitStep, InvStep, PTL DEF Spec

\* Under the invariant no statement lacks its table, finds its object made by
\* another transaction, or waits in a circle.
LEMMA NoClash == IInv => MigrationsNeverClash
<1> SUFFICES ASSUME IInv, NEW o \in Operator PROVE ~Clashes(o)
  BY DEF MigrationsNeverClash
<1>1. pc[o] = "looking" => Current(o).needs \subseteq Visible(o)
  <2> SUFFICES ASSUME pc[o] = "looking" PROVE Current(o).needs \subseteq Visible(o)
    OBVIOUS
  <2>1. stmt[o] \in 1 .. 5 /\ \A i \in 1 .. 5 : i < stmt[o] => Statements[i].creates \in Visible(o)
    BY DEF IInv, Types, Progress, Migrating
  <2>2. stmt[o] # 1 => "requests" \in Visible(o)
    BY <2>1, StatementFacts DEF Requests, Statement
  <2>3. stmt[o] = 1 => Current(o).needs = {}
    BY StatementFacts DEF Current, Requests, Statement
  <2>4. Current(o).needs \in {{}, {"requests"}}
    BY <2>1, StatementFacts DEF Current, Statement, Requests, RequestsIndexes, Callers, ClientTraceId, GatewayConfig
  <2> QED
    BY <2>2, <2>3, <2>4
<1>2. pc[o] = "creating" => Current(o).creates \notin schema
  BY DEF IInv, Progress
<1>3. pc[o] = "looking" => \A q \in Others(o) : held[q] # "share"
  BY DEF IInv, OneMigrates, Migrating, Others, None
<1> QED
  BY <1>1, <1>2, <1>3 DEF Clashes

\* What todo may hold, in the words of TypeOK.
LEMMA RestsAreSuffixes ==
    Rests \subseteq {<<>>} \cup {SubSeq(run, i, Len(run)) : run \in Runs, i \in 1 .. 3}
<1> DEFINE Script == {"apply_migrations", "seed_config", "seed_callers"}
<1>1. Runs = {Setup, <<"apply_migrations">>, <<"seed_config">>, <<"seed_callers">>}
  BY DEF Setup, Runs
<1>2. SubSeq(Setup, 1, Len(Setup)) = Setup /\ SubSeq(Setup, 2, Len(Setup)) = SeedsAfter
  <2>1. Setup \in Seq(Script)
    BY DEF Setup
  <2>2. Setup # <<>> /\ Tail(Setup) = SeedsAfter
    BY RestFacts
  <2> HIDE DEF Script
  <2> QED
    BY <2>1, <2>2, SubSeqFull, TailIsSubSeq, Zenon
<1>4. \A s \in Script : SubSeq(<<s>>, 1, Len(<<s>>)) = <<s>>
  <2> SUFFICES ASSUME NEW s \in Script
               PROVE  SubSeq(<<s>>, 1, Len(<<s>>)) = <<s>>
    OBVIOUS
  <2> HIDE DEF Script
  <2>1. <<s>> \in Seq(Script)
    OBVIOUS
  <2> QED
    BY <2>1, SubSeqFull, Zenon
<1>5. \A run \in Runs : SubSeq(run, 1, Len(run)) = run
  BY <1>1, <1>2, <1>4
<1>6. SeedsAfter \in {SubSeq(run, i, Len(run)) : run \in Runs, i \in 1 .. 3}
  <2>1. Setup \in Runs /\ 2 \in 1 .. 3 /\ SeedsAfter = SubSeq(Setup, 2, Len(Setup))
    BY <1>1, <1>2
  <2>2. \E run \in Runs, i \in 1 .. 3 : SeedsAfter = SubSeq(run, i, Len(run))
    BY <2>1
  <2> QED
    BY <2>2
<1>7. Runs \subseteq {SubSeq(run, i, Len(run)) : run \in Runs, i \in 1 .. 3}
  BY <1>5
<1> QED
  BY <1>1, <1>6, <1>7 DEF Rests

-----------------------------------------------------------------------------
\* Type correctness: scripts, locks and replicas are always in one of their states.
THEOREM TypeCorrect == Spec => []TypeOK
<1>1. IInv => TypeOK
  <2> SUFFICES ASSUME IInv PROVE TypeOK
    OBVIOUS
  <2>1. /\ {schema, initial} \subseteq SUBSET Object
        /\ {seeded, cached, rejected} \subseteq BOOLEAN
    BY ObjectFacts DEF IInv, Types, Schemas
  <2>2. todo \in [Operator -> {<<>>} \cup {SubSeq(run, i, Len(run)) : run \in Runs, i \in 1 .. 3}]
    <3>1. todo \in [Operator -> Rests]
      BY DEF IInv, Types
    <3> QED
      BY <3>1, RestsAreSuffixes
  <2>3. stmt \in [Operator -> DOMAIN Statements]
    BY StatementFacts DEF IInv, Types
  <2>4. /\ setup \in [Operator -> BOOLEAN]
        /\ pc \in [Operator -> {"ready", "locking", "looking", "creating", "created",
                                "seeding", "invalidating", "done", "failed"}]
        /\ made \in [Operator -> SUBSET Object]
        /\ held \in [Operator -> {None, "share", "exclusive"}]
        /\ advisory \in Operator \cup {None}
        /\ replica \in [Replica -> {"down", "serving", "inserting"}]
    BY DEF IInv, Types
  <2> QED
    <3> DEFINE Suffixes == {<<>>} \cup {SubSeq(run, i, Len(run)) : run \in Runs, i \in 1 .. 3}
    <3>1. TypeOK <=>
            /\ {schema, initial} \subseteq SUBSET Object
            /\ {seeded, cached, rejected} \subseteq BOOLEAN
            /\ todo \in [Operator -> Suffixes]
            /\ setup \in [Operator -> BOOLEAN]
            /\ pc \in [Operator -> {"ready", "locking", "looking", "creating", "created",
                                    "seeding", "invalidating", "done", "failed"}]
            /\ stmt \in [Operator -> DOMAIN Statements]
            /\ made \in [Operator -> SUBSET Object]
            /\ held \in [Operator -> {None, "share", "exclusive"}]
            /\ advisory \in Operator \cup {None}
            /\ replica \in [Replica -> {"down", "serving", "inserting"}]
      BY DEF TypeOK
    <3>2. todo \in [Operator -> Suffixes]
      BY <2>2
    <3> HIDE DEF Suffixes
    <3> QED
      BY <2>1, <2>3, <2>4, <3>1, <3>2
<1> QED
  BY <1>1, Invariant, PTL

\* run_migrations is all or nothing: whatever scripts run at once and wherever they
\* are killed, the schema is the initial one or the complete one.
THEOREM SchemaStaysWhole == Spec => []SchemaIsWhole
<1>1. IInv => SchemaIsWhole
  BY DEF IInv
<1> QED
  BY <1>1, Invariant, PTL

\* Because of the advisory lock no run of the migrations fails because of another:
\* no object created twice, no table missing, no deadlock on `requests`.
THEOREM NoMigrationClashes == Spec => []MigrationsNeverClash
  BY NoClash, Invariant, PTL

\* A replica that serves inserts rows with columns the schema has: no row of
\* write_batch is ever refused.
THEOREM RowsAlwaysFit == Spec => []RowsFitSchema
<1>1. IInv => RowsFitSchema
  BY DEF IInv
<1> QED
  BY <1>1, Invariant, PTL

\* setup.sh that ends well leaves the complete schema and a configuration.
THEOREM SetupHasBootstrapped == Spec => []SetupBootstraps
<1>1. IInv => SetupBootstraps
  BY DEF IInv, SetupSteps, SetupBootstraps
<1> QED
  BY <1>1, Invariant, PTL
=============================================================================
