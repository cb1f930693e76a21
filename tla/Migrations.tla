----------------------------- MODULE Migrations -----------------------------
(***************************************************************************)
(* The workers of running instances while an operator migrates the         *)
(* database under them: the SQL of migrations/, up and down, applied one   *)
(* version at a time by golang-migrate (make migrate-up, migrate-down, the *)
(* container migrate of compose.yaml), and GET /readyz.                    *)
(*                                                                         *)
(* golang-migrate records the target version as dirty, runs the file, and  *)
(* records it again as clean.  It holds an advisory lock meanwhile, which  *)
(* goes with its database session: when it dies with its file under way,   *)
(* the lock stays until PostgreSQL has executed or rolled back the file.   *)
(* ALTER TABLE waits for the transactions that use the table.              *)
(*                                                                         *)
(* A column that does not exist is represented by its value in a row that  *)
(* has never been touched: no statement can tell, for every one that names *)
(* it fails.  Versions below 2 (rate_date, the tables), the constraints on *)
(* pairs and the idempotency keys are left out, and so is time.            *)
(***************************************************************************)
EXTENDS QuoteUpdateWorkers

CONSTANTS
    LowestVersion,   \* the operator rolls back no further than this
    MaxMigrations    \* bound: migrations applied, up or down

ExpectedSchemaVersion == 7
ServingVersion == 6

ASSUME LowestVersionAssumption == LowestVersion \in 2..ExpectedSchemaVersion
ASSUME MaxMigrationsAssumption == MaxMigrations \in Nat

VARIABLES
    schema,      \* the version whose tables exist
    version,     \* schema_migrations.version
    dirty,       \* schema_migrations.dirty
    migrator,    \* what golang-migrate is at
    migrations,  \* number of migrations begun
    lowest,      \* history: the lowest schema so far
    taker,       \* history: the worker that took each update last
    seen         \* history: what GET quote-updates/{id} answered last

schemaVars == <<schema, version, dirty, migrator, migrations, lowest>>
migrationVars == <<vars, schemaVars, taker, seen>>

NoWorker == "none"
Unseen == [state |-> "none", quote |-> {}]
Version == LowestVersion..ExpectedSchemaVersion

\* The type invariant.
MigrationTypeOK ==
    /\ TypeOK
    /\ {schema, version, lowest} \subseteq Version
    /\ dirty \in BOOLEAN
    /\ migrator \in {"idle", "marked", "ran", "gone"}
    /\ migrations \in 0..MaxMigrations
    /\ taker \in [UpdateID -> Worker \union {NoWorker}]
    /\ seen \in [UpdateID -> Promise!Outcome]

MigrationInit ==
    /\ Init
    /\ schema = ExpectedSchemaVersion
    /\ version = schema /\ lowest = schema
    /\ dirty = FALSE /\ migrator = "idle" /\ migrations = 0
    /\ taker = [u \in UpdateID |-> NoWorker]
    /\ seen = [u \in UpdateID |-> Unseen]

-----------------------------------------------------------------------------
(* The migration files *)

\* 000005_add_processing_version.down.sql; .up.sql fills in DEFAULT 0.
WithoutVersion(row) == [row EXCEPT !.processing_version = 0]

\* 000006_add_failure_code.down.sql
WithoutCode(row) == [row EXCEPT !.failure_code = "NULL"]

\* (mutant) the failed rows that exist get no code
WithoutBackfill(row) == row

\* The UPDATE of 000006_add_failure_code.up.sql.
WithCode(row) ==
    IF row.status = "failed" THEN [row EXCEPT !.failure_code = "rate_provider_error"]
    ELSE row

\* What the file from version a to version b does to a row.
Migrated(row, a, b) ==
    CASE a = 6 /\ b = 5 -> WithoutCode(row)
      [] a = 5 /\ b = 4 -> WithoutVersion(row)
      [] a = 5 /\ b = 6 -> WithCode(row)
      [] OTHER -> row

\* The file is one transaction.
Migrate(a, b) ==
    /\ LockedRows = {}
    /\ schema' = b
    /\ lowest' = IF b < lowest THEN b ELSE lowest
    /\ quote_updates' = [u \in Stored |-> Migrated(quote_updates[u], a, b)]
    /\ UNCHANGED <<exchange_rates, db_time, workerVars, abandoned, instance, faults,
                   version, taker, seen>>

-----------------------------------------------------------------------------
(* golang-migrate and its operator *)

UnchangedButSchema == UNCHANGED <<vars, taker, seen>>

\* Refused while the database is dirty.
Begin(target) ==
    /\ migrator = "idle"
    /\ ~dirty
    /\ target \in Version
    /\ target \in {version - 1, version + 1}
    /\ migrations < MaxMigrations
    /\ migrations' = migrations + 1
    /\ version' = target
    /\ dirty' = TRUE
    /\ migrator' = "marked"
    /\ UNCHANGED <<schema, lowest>>
    /\ UnchangedButSchema

RunFile ==
    /\ migrator \in {"marked", "gone"}
    /\ Migrate(schema, version)
    /\ migrator' = IF migrator = "marked" THEN "ran" ELSE "idle"
    /\ UNCHANGED <<dirty, migrations>>

MarkClean ==
    /\ migrator = "ran"
    /\ dirty' = FALSE
    /\ migrator' = "idle"
    /\ UNCHANGED <<schema, version, migrations, lowest>>
    /\ UnchangedButSchema

\* The migrator dies, before its file ended or after.
MigratorDies ==
    /\ migrator \in {"marked", "ran"}
    /\ migrator' = IF migrator = "marked" THEN "gone" ELSE "idle"
    /\ UNCHANGED <<schema, version, dirty, migrations, lowest>>
    /\ UnchangedButSchema

\* Its file was not sent, or is rolled back.
FileRolledBack ==
    /\ migrator = "gone"
    /\ migrator' = "idle"
    /\ UNCHANGED <<schema, version, dirty, migrations, lowest>>
    /\ UnchangedButSchema

\* migrate force: the operator looks which tables exist and says so.
ForceVersion ==
    /\ migrator = "idle"
    /\ dirty
    /\ version' = schema
    /\ dirty' = FALSE
    /\ UNCHANGED <<schema, migrator, migrations, lowest>>
    /\ UnchangedButSchema

MigrationStep ==
    \/ \E target \in Version : Begin(target)
    \/ RunFile \/ MarkClean \/ MigratorDies \/ FileRolledBack \/ ForceVersion

-----------------------------------------------------------------------------
(* The application on whatever schema there is *)

\* (mutant) the dirty flag is not looked at
ReadyIfVersion == version = ExpectedSchemaVersion

\* GET /readyz
Ready ==
    /\ ~dirty
    /\ version = ExpectedSchemaVersion

\* Every statement on quote_updates but GetLatest names failure_code.
Serves == schema >= ServingVersion

\* A statement fails because a column it names does not exist.
SchemaError(w) ==
    /\ ~Serves
    /\ Running(w)
    /\ pc[w] \in {"polling", "completing", "failing"}
    /\ EndProcessNext(w, "waiting")
    /\ UNCHANGED <<tables, db_time, abandoned, instance, faults, taker>>

TakeStep(w) ==
    /\ TakeCommit(w)
    /\ taker' = [taker EXCEPT ![claim[w].id] = w]

StatementStep ==
    \/ \E w \in Worker :
          \/ \E u \in UpdateID : TakeLock(w, u)
          \/ TakeNothing(w)
          \/ CompleteUpdate(w)
          \/ CompleteRefused(w)
          \/ FailUpdate(w)
    \/ \E i \in Instance : RequeueStaleUpdates(i)
    \/ \E id \in UpdateID, p \in Pair : Submit(id, p)

AbandonedStep(s) ==
    /\ AbandonedCommit(s)
    /\ taker' = IF s.op = "taking" THEN [taker EXCEPT ![s.claim.id] = NoWorker]
                ELSE taker

Busy(u) == \E w \in Claimants : claim[w].id = u

\* LeaseExpires for a worker whose token a rollback has taken.
TokenlessLeaseExpires(u) ==
    /\ Busy(u)
    /\ ~LeaseHeld(u)
    /\ Fault
    /\ ExpireRow(u)
    /\ UNCHANGED <<db_time, workerVars, abandoned, instance>>

OtherStep ==
    \/ \E w \in Worker :
          FetchRate(w) \/ FetchCanceled(w) \/ DatabaseError(w)
          \/ AbandonStatement(w) \/ NextPoll(w)
    \/ \E i \in Instance : Shutdown(i) \/ Exit(i) \/ Crash(i) \/ Start(i)
    \/ \E s \in abandoned : AbandonedRollback(s)
    \/ \E u \in UpdateID :
          LeaseExpires(u) \/ TokenlessLeaseExpires(u) \/ (~Busy(u) /\ OrphanExpires(u))

ApplicationStep ==
    \/ /\ Serves
       /\ \/ StatementStep /\ UNCHANGED taker
          \/ \E w \in Worker : TakeStep(w)
          \/ \E s \in abandoned : AbandonedStep(s)
    \/ \E w \in Worker : SchemaError(w)
    \/ OtherStep /\ UNCHANGED taker

\* GET /api/v1/quote-updates/{id}
Poll(u) ==
    /\ Serves
    /\ u \in Stored
    /\ seen' = [seen EXCEPT ![u] = OutcomeOf(u)]
    /\ UNCHANGED <<vars, schemaVars, taker>>

MigrationNext ==
    \/ MigrationStep
    \/ ApplicationStep /\ UNCHANGED <<schemaVars, seen>>
    \/ \E u \in UpdateID : Poll(u)

MigrationSpec == MigrationInit /\ [][MigrationNext]_migrationVars

-----------------------------------------------------------------------------
\* A replica that answers /readyz with 200 can serve: the schema is the one its
\* statements were written for, also when the version was recorded first and
\* the file came later, failed, or outlived the migrator.
ReadyMeansServing == Ready => schema = ExpectedSchemaVersion

\* What a client was told of a decided update is what it is told after any
\* rollback to a schema that knows updates, and after migrating up again.
OutcomesSurvive ==
    Serves => \A u \in UpdateID :
        seen[u].state \in {"completed", "failed"} => OutcomeOf(u) = seen[u]

\* A worker decides an update: it is the one that took it last.
Decides(w, u) ==
    /\ pc[w] \in {"completing", "failing"} /\ claim[w].id = u
    /\ pc'[w] # pc[w]
    /\ Decided(u)' /\ ~Decided(u)

TakerDecides == \A w \in Worker, u \in Stored : Decides(w, u) => taker[u] = w

\* A rollback that keeps processing_version takes nobody's fencing away: over
\* any migrations down to 5 and up again, under running workers, a worker whose
\* update was recovered and taken again by another one decides nothing.
FencingSurvivesRollback == [][lowest >= 5 => TakerDecides]_migrationVars

\* What README.md says without this condition: the result of an old worker is
\* discarded if its update was recovered and taken again.
OldResultsAreDiscarded == [][TakerDecides]_migrationVars
=============================================================================
