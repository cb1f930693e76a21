-------------------------- MODULE Migrations_proofs --------------------------
(***************************************************************************)
(* Readiness tells the truth, answers stand and fencing survives, for any  *)
(* number of instances, workers, updates and migrations.                   *)
(***************************************************************************)
EXTENDS Migrations, QuoteUpdateWorkers_proofs

\* A version that is recorded as clean is that of the tables, and so is one
\* whose file has run; the database is dirty from the moment a version is
\* recorded until its file has run or an operator has looked at the tables.
VersionIsTrue ==
    /\ dirty \in BOOLEAN
    /\ ~dirty => version = schema /\ migrator = "idle"
    /\ migrator = "ran" => version = schema

\* No step of the migrator, at whatever point it dies, breaks VersionIsTrue.
LEMMA MigrationStepKeepsVersion ==
    ASSUME VersionIsTrue, MigrationStep
    PROVE  VersionIsTrue'
<1>1. ASSUME NEW target \in Version, Begin(target)
      PROVE  VersionIsTrue'
  BY <1>1 DEF VersionIsTrue, Begin
<1>2. CASE RunFile
  BY <1>2 DEF VersionIsTrue, RunFile, Migrate
<1>3. CASE MarkClean
  BY <1>3 DEF VersionIsTrue, MarkClean
<1>4. CASE MigratorDies
  BY <1>4 DEF VersionIsTrue, MigratorDies
<1>5. CASE FileRolledBack
  BY <1>5 DEF VersionIsTrue, FileRolledBack
<1>6. CASE ForceVersion
  BY <1>6 DEF VersionIsTrue, ForceVersion
<1>. QED
  BY <1>1, <1>2, <1>3, <1>4, <1>5, <1>6 DEF MigrationStep

\* The recorded version is true in every reachable state.
THEOREM VersionInvariance == MigrationSpec => []VersionIsTrue
<1>1. MigrationInit => VersionIsTrue
  BY DEF MigrationInit, VersionIsTrue
<1>2. VersionIsTrue /\ [MigrationNext]_migrationVars => VersionIsTrue'
  <2>1. CASE MigrationStep
    BY <2>1, MigrationStepKeepsVersion
  <2>2. CASE UNCHANGED schemaVars
    BY <2>2 DEF VersionIsTrue, schemaVars
  <2>. QED
    BY <2>1, <2>2 DEF MigrationNext, Poll, migrationVars
<1>. QED
  BY <1>1, <1>2, PTL DEF MigrationSpec

\* An instance that is ready has the schema its statements were written for.
THEOREM ReadinessIsTrue == MigrationSpec => []ReadyMeansServing
<1>1. VersionIsTrue => ReadyMeansServing
  BY DEF VersionIsTrue, ReadyMeansServing, Ready
<1>. QED
  BY <1>1, VersionInvariance, PTL

-----------------------------------------------------------------------------
(* The workers and the tables under migrations *)

USE DEF Stored, WithStatus

\* Whatever columns there are, a row has a rate exactly when it is completed,
\* and no failure code unless it is failed.
RowsMatch ==
    \A u \in Stored :
        /\ u \in DOMAIN exchange_rates <=> quote_updates[u].status = "completed"
        /\ quote_updates[u].failure_code # "NULL" => quote_updates[u].status = "failed"

\* Where there is a column for them, failed updates have their codes.
CodesMatch == Serves => StatusMatchesResult

\* Versions are taken one at a time.
StepsAreSingle ==
    /\ {schema, version, lowest} \subseteq Version
    /\ lowest <= schema
    /\ migrator \in {"marked", "gone"} => version \in {schema - 1, schema + 1}

\* What a client was told is in the tables.
AnswersStand ==
    \A u \in UpdateID : seen[u].state \in {"completed", "failed"} =>
        /\ u \in Stored /\ quote_updates[u].status = seen[u].state
        /\ seen[u].quote = IF seen[u].state = "completed" THEN {exchange_rates[u]} ELSE {}

\* Unless a rollback dropped the tokens, claims are fenced, and one whose token
\* is that of its row belongs to the worker that took the update last.
Holds(w) == claim[w].token = quote_updates[claim[w].id].processing_version

TakersHold ==
    lowest >= 5 =>
        /\ ClaimsAreFenced
        /\ \A w \in Claimants : Holds(w) => taker[claim[w].id] = w

MigrationInv ==
    /\ MigrationTypeOK
    /\ LockedRowsStayPending
    /\ VersionIsTrue
    /\ StepsAreSingle
    /\ RowsMatch
    /\ CodesMatch
    /\ AnswersStand
    /\ TakersHold

\* A migration file changes codes and versions alone: it drops the codes on the
\* way down from 6 and fills them in on the way up, and it drops the versions on
\* the way down from 5.
FileKeeps(row, new, a, b) ==
    /\ new \in Row
    /\ new.status = row.status
    /\ b >= 5 => new.processing_version = row.processing_version
    /\ new.failure_code \in {"NULL", row.failure_code} \/ row.status = "failed"
    /\ a = 5 /\ b = 6 /\ row.status = "failed" => new.failure_code # "NULL"
    /\ (a # 6 \/ b # 5) /\ row.failure_code # "NULL" => new.failure_code # "NULL"

\* That is what every file does to a row.
LEMMA FilesKeepRows ==
    ASSUME NEW row \in Row, NEW a \in Nat, NEW b \in Nat
    PROVE  FileKeeps(row, Migrated(row, a, b), a, b)
<1>1. /\ WithoutVersion(row) \in Row /\ WithoutVersion(row).status = row.status
      /\ WithoutVersion(row).failure_code = row.failure_code
  BY DEF WithoutVersion, Row
<1>2. /\ WithoutCode(row) \in Row /\ WithoutCode(row).status = row.status
      /\ WithoutCode(row).failure_code = "NULL"
      /\ WithoutCode(row).processing_version = row.processing_version
  BY DEF WithoutCode, Row
<1>3. /\ WithCode(row) \in Row /\ WithCode(row).status = row.status
      /\ WithCode(row).processing_version = row.processing_version
      /\ row.status = "failed" => WithCode(row).failure_code # "NULL"
      /\ row.status # "failed" => WithCode(row) = row
  BY DEF WithCode, Row
<1>4. CASE a = 6 /\ b = 5
  BY <1>2, <1>4 DEF Migrated, FileKeeps
<1>5. CASE a = 5 /\ b = 4
  BY <1>1, <1>5 DEF Migrated, FileKeeps
<1>6. CASE a = 5 /\ b = 6
  BY <1>3, <1>6 DEF Migrated, FileKeeps
<1>7. CASE ~(a = 6 /\ b = 5) /\ ~(a = 5 /\ b = 4) /\ ~(a = 5 /\ b = 6)
  <2>1. Migrated(row, a, b) = row
    BY <1>7 DEF Migrated, FileKeeps
  <2> QED
    BY <1>7, <2>1 DEF FileKeeps
<1> QED
  BY <1>4, <1>5, <1>6, <1>7

\* The versions are numbers, and the lowest that is rolled back to has tables.
LEMMA VersionsAreNumbers == Version \subseteq Nat \ {0, 1} /\ LowestVersion \in Version
  BY LowestVersionAssumption DEF Version, ExpectedSchemaVersion

\* Golang-migrate's own steps but for the file.
LEMMA BookkeepingPreserves ==
    ASSUME MigrationInv, VersionIsTrue', UnchangedButSchema, UNCHANGED <<schema, lowest>>,
           version' \in Version, dirty' \in BOOLEAN,
           migrator' \in {"idle", "marked", "ran", "gone"},
           migrations' \in 0..MaxMigrations,
           migrator' \in {"marked", "gone"} => version' \in {schema - 1, schema + 1}
    PROVE  MigrationInv'
<1>1. UNCHANGED <<quote_updates, exchange_rates, db_time, pc, claim, result, abandoned,
                  instance, faults, taker, seen, schema, lowest>>
  BY DEF UnchangedButSchema, vars, tables, workerVars
<1>2. MigrationTypeOK'
  <2>1. TypeOK'
    BY <1>1 DEF MigrationInv, MigrationTypeOK, TypeOK, RepositoryTypeOK, Time
  <2> QED
    BY <1>1, <2>1 DEF MigrationInv, MigrationTypeOK
<1>3. LockedRowsStayPending' /\ (ClaimsAreFenced => ClaimsAreFenced')
  <2>1. /\ Taking' = Taking /\ Claimants' = Claimants
        /\ AbandonedTakes' = AbandonedTakes /\ AbandonedResults' = AbandonedResults
    BY <1>1 DEF Taking, Claimants, AbandonedTakes, AbandonedResults
  <2>2. LockedRows' = LockedRows
    BY <1>1, <2>1 DEF LockedRows
  <2>3. \A c : Issued(c) => Issued(c)'
    BY <1>1 DEF Issued
  <2> QED
    BY <1>1, <2>1, <2>2, <2>3 DEF MigrationInv, LockedRowsStayPending, ClaimsAreFenced
<1>4. StepsAreSingle'
  BY <1>1 DEF MigrationInv, StepsAreSingle
<1>5. RowsMatch' /\ CodesMatch' /\ AnswersStand'
  BY <1>1 DEF MigrationInv, RowsMatch, CodesMatch, AnswersStand, Serves, StatusMatchesResult
<1>6. TakersHold'
  BY <1>1, <1>3 DEF MigrationInv, TakersHold, Holds, Claimants
<1> QED
  BY <1>2, <1>3, <1>4, <1>5, <1>6 DEF MigrationInv

\* The file: rows keep their statuses, and their versions as long as nothing
\* below version 5 is rolled back to; codes are back before anything is served.
LEMMA RunFilePreserves ==
    ASSUME MigrationInv, VersionIsTrue', RunFile
    PROVE  MigrationInv'
<1> DEFINE a == schema
           b == version
<1>1. /\ LockedRows = {} /\ schema' = b /\ migrator \in {"marked", "gone"}
      /\ lowest' = IF b < lowest THEN b ELSE lowest
      /\ quote_updates' = [u \in Stored |-> Migrated(quote_updates[u], a, b)]
      /\ UNCHANGED <<exchange_rates, db_time, pc, claim, result, abandoned, instance,
                     faults, version, taker, seen, dirty, migrations>>
      /\ migrator' \in {"ran", "idle"}
  BY DEF RunFile, Migrate, workerVars
<1>2. /\ a \in Nat /\ b \in Nat /\ lowest \in Nat /\ b \in {a - 1, a + 1} /\ lowest <= a
      /\ {a, b, lowest} \subseteq Version
  BY <1>1, VersionsAreNumbers DEF MigrationInv, StepsAreSingle
<1>3. lowest' \in Version /\ lowest' <= b /\ lowest' <= lowest /\ lowest' \in Nat
  BY <1>1, <1>2
<1>4. quote_updates \in [Stored -> Row] /\ Stored \subseteq UpdateID
  BY DEF MigrationInv, MigrationTypeOK, TypeOK, RepositoryTypeOK
<1> HIDE DEF a, b
<1>5. /\ Stored' = Stored
      /\ \A u \in Stored : FileKeeps(quote_updates[u], quote_updates'[u], a, b)
  <2>1. \A u \in Stored : quote_updates'[u] = Migrated(quote_updates[u], a, b)
    BY <1>1
  <2> QED
    BY <1>1, <1>2, <1>4, <2>1, FilesKeepRows
<1>6. MigrationTypeOK'
  <2>1. RepositoryTypeOK'
    <3>1. quote_updates' \in [Stored' -> Row]
      BY <1>1, <1>5 DEF FileKeeps
    <3> QED
      BY <1>1, <1>4, <1>5, <3>1 DEF MigrationInv, MigrationTypeOK, TypeOK, RepositoryTypeOK, Time
  <2>2. TypeOK'
    BY <1>1, <2>1 DEF MigrationInv, MigrationTypeOK, TypeOK
  <2> QED
    BY <1>1, <1>2, <1>3, <2>2 DEF MigrationInv, MigrationTypeOK, a, b
<1>7. /\ Taking' = Taking /\ Claimants' = Claimants
      /\ AbandonedTakes' = AbandonedTakes /\ AbandonedResults' = AbandonedResults
  BY <1>1 DEF Taking, Claimants, AbandonedTakes, AbandonedResults
<1>8. LockedRowsStayPending'
  <2>1. LockedRows' = {}
    BY <1>1, <1>7 DEF LockedRows
  <2> QED
    BY <1>1, <1>7, <2>1 DEF MigrationInv, LockedRowsStayPending
<1>9. StepsAreSingle'
  BY <1>1, <1>2, <1>3 DEF StepsAreSingle, a, b
<1>10. RowsMatch'
  BY <1>1, <1>5 DEF MigrationInv, RowsMatch, FileKeeps
<1>11. CodesMatch'
  <2>1. CASE a >= 6
    BY <1>1, <1>2, <1>5, <1>10, <2>1
    DEF MigrationInv, CodesMatch, Serves, ServingVersion, StatusMatchesResult,
        RowsMatch, FileKeeps, a
  <2>2. CASE a = 5
    BY <1>1, <1>2, <1>5, <1>10, <2>2
    DEF CodesMatch, Serves, ServingVersion, StatusMatchesResult, RowsMatch, FileKeeps
  <2>3. CASE a < 5
    BY <1>1, <1>2, <2>3 DEF CodesMatch, Serves, ServingVersion
  <2> QED
    BY <1>2, <2>1, <2>2, <2>3
<1>12. AnswersStand'
  BY <1>1, <1>5 DEF MigrationInv, AnswersStand, FileKeeps
<1>13. TakersHold'
  <2> SUFFICES ASSUME lowest' >= 5
               PROVE  /\ ClaimsAreFenced'
                      /\ \A w \in Claimants' : Holds(w)' => taker'[claim'[w].id] = w
    BY DEF TakersHold
  <2>1. lowest >= 5 /\ b >= 5
    BY <1>2, <1>3
  <2>2. \A c : Issued(c) => Issued(c)' /\ quote_updates'[c.id].processing_version
                                              = quote_updates[c.id].processing_version
    BY <1>5, <2>1 DEF Issued, FileKeeps
  <2>3. ClaimsAreFenced /\ \A w \in Claimants : Issued(claim[w])
    BY <2>1 DEF MigrationInv, TakersHold, ClaimsAreFenced
  <2>4. ClaimsAreFenced'
    BY <1>1, <1>7, <2>2, <2>3 DEF ClaimsAreFenced
  <2>5. \A w \in Claimants : Holds(w)' => Holds(w)
    BY <1>1, <2>2, <2>3 DEF Holds
  <2> QED
    BY <1>1, <1>7, <2>1, <2>4, <2>5 DEF MigrationInv, TakersHold
<1> QED
  BY <1>6, <1>8, <1>9, <1>10, <1>11, <1>12, <1>13 DEF MigrationInv

\* So every step of golang-migrate and of its operator.
LEMMA MigrationStepPreserves ==
    ASSUME MigrationInv, MigrationStep
    PROVE  MigrationInv'
<1>1. VersionIsTrue'
  BY MigrationStepKeepsVersion DEF MigrationInv
<1>T. /\ version \in Version /\ dirty \in BOOLEAN /\ schema \in Version
      /\ migrations \in 0..MaxMigrations /\ migrations \in Nat
      /\ migrator \in {"marked", "gone"} => version \in {schema - 1, schema + 1}
  BY MaxMigrationsAssumption DEF MigrationInv, MigrationTypeOK, StepsAreSingle
<1>2. ASSUME NEW target \in Version, Begin(target)
      PROVE  MigrationInv'
  <2>1. version = schema
    BY <1>2 DEF MigrationInv, VersionIsTrue, Begin
  <2>2. migrations' \in 0..MaxMigrations
    BY <1>2, <1>T, MaxMigrationsAssumption DEF Begin
  <2> QED
    BY <1>1, <1>2, <2>1, <2>2, BookkeepingPreserves DEF Begin
<1>3. CASE RunFile
  BY <1>1, <1>3, RunFilePreserves
<1>4. CASE MarkClean
  BY <1>1, <1>4, <1>T, BookkeepingPreserves DEF MarkClean
<1>5. CASE MigratorDies
  BY <1>1, <1>5, <1>T, BookkeepingPreserves DEF MigratorDies
<1>6. CASE FileRolledBack
  BY <1>1, <1>6, <1>T, BookkeepingPreserves DEF FileRolledBack
<1>7. CASE ForceVersion
  BY <1>1, <1>7, <1>T, BookkeepingPreserves DEF ForceVersion
<1> QED
  BY <1>2, <1>3, <1>4, <1>5, <1>6, <1>7 DEF MigrationStep

-----------------------------------------------------------------------------
(* The application on whatever schema there is *)

\* No statement takes back an answer: it decides no row twice.
LEMMA AnswersKept ==
    ASSUME MigrationInv, RowsMatch', RepositoryStep, UNCHANGED seen
    PROVE  AnswersStand'
<1>1. RowsKept
  BY StatementsKeepRows DEF MigrationInv, MigrationTypeOK, TypeOK
<1> SUFFICES ASSUME NEW u \in UpdateID, seen[u].state \in {"completed", "failed"}
             PROVE  /\ u \in Stored' /\ quote_updates'[u].status = seen[u].state
                    /\ seen[u].quote = IF seen[u].state = "completed"
                                       THEN {exchange_rates'[u]} ELSE {}
  BY DEF AnswersStand
<1>2. /\ u \in Stored /\ quote_updates[u].status = seen[u].state
      /\ seen[u].quote = IF seen[u].state = "completed" THEN {exchange_rates[u]} ELSE {}
  BY DEF MigrationInv, AnswersStand
<1>3. quote_updates[u].status \in Terminal
  BY <1>2 DEF Terminal
<1>4. seen[u].state = "completed" => u \in DOMAIN exchange_rates
  BY <1>2 DEF MigrationInv, RowsMatch
<1> QED
  BY <1>1, <1>2, <1>3, <1>4 DEF RowsKept

\* A claim that is kept has the current token only if it had it before.
LEMMA TokensFallBehind ==
    ASSUME TypeOK, ClaimsAreFenced, RowsKept, NEW w \in Claimants,
           claim'[w] = claim[w], Holds(w)'
    PROVE  Holds(w) /\ quote_updates'[claim[w].id].processing_version
                           = quote_updates[claim[w].id].processing_version
<1> DEFINE u == claim[w].id
<1>1. u \in Stored /\ claim[w].token <= quote_updates[u].processing_version
      /\ claim[w].token \in Nat
  <2>1. /\ u \in Stored /\ claim[w].token \in 1..quote_updates[u].processing_version
    BY DEF ClaimsAreFenced, Issued
  <2>2. quote_updates[u].processing_version \in Nat
    BY <2>1 DEF TypeOK, RepositoryTypeOK, Row
  <2> QED
    BY <2>1, <2>2
<1>2. quote_updates[u].processing_version \in Nat
  BY <1>1 DEF TypeOK, RepositoryTypeOK, Row
<1>3. quote_updates'[u].processing_version >= quote_updates[u].processing_version
  BY <1>1 DEF RowsKept
<1>4. claim[w].token = quote_updates'[u].processing_version
  BY DEF Holds
<1> QED
  BY <1>1, <1>2, <1>3, <1>4 DEF Holds

\* A step of the application that hands out no claim and, if it takes a row for
\* nobody, leaves all claims on it behind.
LEMMA ApplicationPreserves ==
    ASSUME MigrationInv, Preserves, LetsGo({}), RepositoryStep, RowsMatch', CodesMatch',
           UNCHANGED <<schemaVars, seen>>,
           taker' \in [UpdateID -> Worker \union {NoWorker}],
           \A u \in Stored :
               quote_updates'[u].processing_version = quote_updates[u].processing_version
                   => taker'[u] = taker[u]
    PROVE  MigrationInv'
<1>1. TypeOK' /\ LockedRowsStayPending' /\ (ClaimsAreFenced => ClaimsAreFenced')
  BY DEF Preserves, KeepsQueue, LocksInv
<1>2. UNCHANGED <<schema, version, dirty, migrator, migrations, lowest, seen>>
  BY DEF schemaVars
<1>3. MigrationTypeOK' /\ VersionIsTrue' /\ StepsAreSingle'
  BY <1>1, <1>2 DEF MigrationInv, MigrationTypeOK, VersionIsTrue, StepsAreSingle
<1>4. AnswersStand'
  BY <1>2, AnswersKept
<1>5. RowsKept
  BY StatementsKeepRows DEF MigrationInv, MigrationTypeOK, TypeOK
<1>6. TakersHold'
  <2> SUFFICES ASSUME lowest >= 5
               PROVE  /\ ClaimsAreFenced'
                      /\ \A w \in Claimants' : Holds(w)' => taker'[claim'[w].id] = w
    BY <1>2 DEF TakersHold
  <2>1. /\ TypeOK /\ ClaimsAreFenced
        /\ \A w \in Claimants : Holds(w) => taker[claim[w].id] = w
    BY DEF MigrationInv, MigrationTypeOK, TakersHold
  <2>2. ASSUME NEW w \in Claimants', Holds(w)'
        PROVE  taker'[claim'[w].id] = w
    <3>1. w \in Claimants /\ claim'[w] = claim[w]
      BY <2>2 DEF LetsGo
    <3>2. Holds(w) /\ quote_updates'[claim[w].id].processing_version
                          = quote_updates[claim[w].id].processing_version
      BY <1>5, <2>1, <2>2, <3>1, TokensFallBehind
    <3>3. claim[w].id \in Stored
      BY <2>1, <3>1 DEF ClaimsAreFenced, Issued
    <3> QED
      BY <2>1, <3>1, <3>2, <3>3
  <2> QED
    BY <1>1, <2>1, <2>2
<1> QED
  BY <1>1, <1>3, <1>4, <1>6 DEF MigrationInv

\* The steps that execute no statement.
LEMMA MovesPreserve ==
    ASSUME MigrationInv, Preserves, LetsGo({}),
           UNCHANGED tables \/ \E u \in UpdateID : ExpireRow(u), db_time' \in Time,
           UNCHANGED <<schemaVars, seen, taker>>
    PROVE  MigrationInv'
<1>1. RepositoryStep
  BY DEF RepositoryStep
<1>2. RepositoryTypeOK /\ taker \in [UpdateID -> Worker \union {NoWorker}]
  BY DEF MigrationInv, MigrationTypeOK, TypeOK
<1>3. /\ Stored' = Stored /\ exchange_rates' = exchange_rates
      /\ \A v \in Stored : /\ quote_updates'[v].status = quote_updates[v].status
                           /\ quote_updates'[v].failure_code = quote_updates[v].failure_code
  <2>1. CASE UNCHANGED tables
    BY <2>1 DEF tables
  <2>2. CASE \E u \in UpdateID : ExpireRow(u)
    BY <1>2, <2>2, ExpireRowKeepsTypes
  <2> QED
    BY <2>1, <2>2
<1>4. RowsMatch' /\ (StatusMatchesResult => StatusMatchesResult')
  BY <1>3 DEF MigrationInv, RowsMatch, StatusMatchesResult
<1>5. CodesMatch'
  BY <1>4 DEF MigrationInv, CodesMatch, Serves, schemaVars
<1> QED
  BY <1>1, <1>2, <1>4, <1>5, ApplicationPreserves

\* The statements that are executed for nobody's claim.
LEMMA StatementsPreserve ==
    ASSUME MigrationInv, Preserves, LetsGo({}), StatusMatchesResult', RepositoryStep,
           UNCHANGED <<schemaVars, seen, taker>>
    PROVE  MigrationInv'
<1>1. RowsMatch' /\ CodesMatch'
  BY DEF RowsMatch, CodesMatch, StatusMatchesResult
<1>2. taker \in [UpdateID -> Worker \union {NoWorker}]
  BY DEF MigrationInv, MigrationTypeOK
<1> QED
  BY <1>1, <1>2, ApplicationPreserves

\* A worker that takes an update is the one that took it last, and everybody
\* else's token is older.
LEMMA TakeStepPreserves ==
    ASSUME MigrationInv, Serves, NEW x \in Worker, TakeStep(x), UNCHANGED <<schemaVars, seen>>
    PROVE  MigrationInv'
<1> DEFINE u == claim[x].id
<1>1. /\ TypeOK /\ LocksInv /\ StatusMatchesResult /\ TablesOK
      /\ taker \in [UpdateID -> Worker \union {NoWorker}]
  BY DEF MigrationInv, MigrationTypeOK, LocksInv, CodesMatch, TypeOK, TablesOK
<1>2. /\ TakeCommit(x) /\ taker' = [taker EXCEPT ![u] = x]
  BY DEF TakeStep
<1>3. Preserves /\ LetsGo({x}) /\ StatusMatchesResult' /\ RepositoryStep
  BY <1>1, <1>2, WorkerStatementsPreserve
<1>4. TypeOK' /\ LockedRowsStayPending' /\ (ClaimsAreFenced => ClaimsAreFenced')
  BY <1>3 DEF Preserves, KeepsQueue, LocksInv
<1>5. UNCHANGED <<schema, version, dirty, migrator, migrations, lowest, seen>>
  BY DEF schemaVars
<1>6. /\ claim'[x].id = u /\ u \in WithStatus("pending") /\ TakeRow(u) /\ db_time' = db_time
  BY <1>1, <1>2 DEF TakeCommit, TypeOK, Claim, LocksInv, LockedRowsStayPending, LockedRows, Taking
<1> HIDE DEF u
<1>7. u \in Stored /\ quote_updates'[u].processing_version = quote_updates[u].processing_version + 1
      /\ quote_updates[u].processing_version \in Nat
  BY <1>1, <1>6, TakeRowKeepsTables DEF TablesOK, RepositoryTypeOK, Row
<1>8. u \in UpdateID /\ taker'[u] = x /\ taker' \in [UpdateID -> Worker \union {NoWorker}]
      /\ \A v \in UpdateID \ {u} : taker'[v] = taker[v]
  BY <1>1, <1>2, <1>7 DEF TypeOK, RepositoryTypeOK
<1>9. MigrationTypeOK' /\ VersionIsTrue' /\ StepsAreSingle'
  BY <1>4, <1>5, <1>8 DEF MigrationInv, MigrationTypeOK, VersionIsTrue, StepsAreSingle
<1>10. RowsMatch' /\ CodesMatch'
  BY <1>3 DEF RowsMatch, CodesMatch, StatusMatchesResult
<1>11. AnswersStand'
  BY <1>3, <1>5, <1>10, AnswersKept
<1>12. RowsKept
  BY <1>1, <1>3, StatementsKeepRows DEF TypeOK
<1>13. TakersHold'
  <2> SUFFICES ASSUME lowest >= 5
               PROVE  /\ ClaimsAreFenced'
                      /\ \A w \in Claimants' : Holds(w)' => taker'[claim'[w].id] = w
    BY <1>5 DEF TakersHold
  <2>1. /\ ClaimsAreFenced
        /\ \A w \in Claimants : Holds(w) => taker[claim[w].id] = w
    BY DEF MigrationInv, TakersHold
  <2>2. ASSUME NEW w \in Claimants', Holds(w)', w # x
        PROVE  taker'[claim'[w].id] = w
    <3>1. w \in Claimants /\ claim'[w] = claim[w]
      BY <1>3, <2>2 DEF LetsGo
    <3>2. Holds(w) /\ quote_updates'[claim[w].id].processing_version
                          = quote_updates[claim[w].id].processing_version
      BY <1>1, <1>12, <2>1, <2>2, <3>1, TokensFallBehind
    <3>3. claim[w].id \in UpdateID
      BY <1>1, <2>1, <3>1 DEF ClaimsAreFenced, Issued, TypeOK, RepositoryTypeOK
    <3>4. claim[w].id # u
      BY <1>7, <3>2
    <3> QED
      BY <1>8, <2>1, <3>1, <3>2, <3>3, <3>4
  <2> QED
    BY <1>4, <1>6, <1>8, <2>1, <2>2
<1> QED
  BY <1>4, <1>9, <1>10, <1>11, <1>13 DEF MigrationInv

\* A take that commits for nobody makes every token on its row old.
LEMMA AbandonedStepPreserves ==
    ASSUME MigrationInv, Serves, NEW s \in abandoned, AbandonedStep(s),
           UNCHANGED <<schemaVars, seen>>
    PROVE  MigrationInv'
<1>1. /\ LocksInv /\ StatusMatchesResult /\ TablesOK
      /\ taker \in [UpdateID -> Worker \union {NoWorker}]
  BY DEF MigrationInv, MigrationTypeOK, LocksInv, CodesMatch, TypeOK, TablesOK
<1>2. Preserves /\ LetsGo({}) /\ StatusMatchesResult' /\ RepositoryStep
  BY <1>1, OtherStatementsPreserve DEF AbandonedStep
<1>3. RowsMatch' /\ CodesMatch'
  BY <1>2 DEF RowsMatch, CodesMatch, StatusMatchesResult
<1>4. CASE s.op # "taking"
  BY <1>2, <1>4, StatementsPreserve DEF AbandonedStep
<1>5. CASE s.op = "taking"
  <2> DEFINE u == s.claim.id
  <2>1. /\ TakeRow(u) /\ db_time' = db_time /\ taker' = [taker EXCEPT ![u] = NoWorker]
        /\ u \in WithStatus("pending")
    BY <1>1, <1>5 DEF AbandonedStep, AbandonedCommit, LocksInv, LockedRowsStayPending,
                      LockedRows, AbandonedTakes
  <2> HIDE DEF u
  <2>2. /\ u \in Stored
        /\ quote_updates'[u].processing_version = quote_updates[u].processing_version + 1
        /\ quote_updates[u].processing_version \in Nat
    BY <1>1, <2>1, TakeRowKeepsTables DEF TablesOK, RepositoryTypeOK, Row
  <2>3. Stored \subseteq UpdateID
    BY <1>1 DEF TablesOK, RepositoryTypeOK
  <2>4. /\ taker' \in [UpdateID -> Worker \union {NoWorker}]
        /\ \A v \in Stored :
              quote_updates'[v].processing_version = quote_updates[v].processing_version
                  => taker'[v] = taker[v]
    BY <1>1, <2>1, <2>2, <2>3
  <2> QED
    BY <1>2, <1>3, <2>4, ApplicationPreserves
<1> QED
  BY <1>4, <1>5

\* So every step of the application, on whatever schema there is.
LEMMA ApplicationStepPreserves ==
    ASSUME MigrationInv, ApplicationStep, UNCHANGED <<schemaVars, seen>>
    PROVE  MigrationInv'
<1>1. TypeOK /\ LocksInv /\ (Serves => StatusMatchesResult)
  BY DEF MigrationInv, MigrationTypeOK, LocksInv, CodesMatch
<1>D. UNCHANGED db_time => db_time' \in Time
  BY <1>1 DEF TypeOK, RepositoryTypeOK
<1>2. ASSUME NEW w \in Worker, WorkerMoves(w), UNCHANGED taker
      PROVE  MigrationInv'
  BY <1>1, <1>D, <1>2, WorkerMovesPreserve, MovesPreserve
<1>3. ASSUME NEW w \in Worker, SchemaError(w)
      PROVE  MigrationInv'
  <2>1. RepositoryTypeOK' /\ TablesGrow({})
    BY <1>1, <1>D, <1>3, UnchangedKeepsTypes DEF SchemaError, TypeOK
  <2>2. faults' \in 0..MaxFaults
    BY <1>1, <1>3 DEF SchemaError, TypeOK
  <2>3. Preserves /\ LetsGo({})
    BY <1>1, <1>3, <2>1, <2>2, EndKeepsQueue DEF SchemaError
  <2> QED
    BY <1>3, <1>D, <2>3, MovesPreserve DEF SchemaError
<1>4. ASSUME Serves, NEW w \in Worker, CompleteUpdate(w) \/ FailUpdate(w), UNCHANGED taker
      PROVE  MigrationInv'
  <2>1. Preserves /\ LetsGo({w}) /\ StatusMatchesResult' /\ RepositoryStep
    BY <1>1, <1>4, WorkerStatementsPreserve
  <2>2. LetsGo({})
    <3>1. pc'[w] \notin {"fetching", "completing", "failing"}
      BY <1>1, <1>4 DEF CompleteUpdate, FailUpdate, EndProcessNext, TypeOK
    <3> QED
      BY <2>1, <3>1 DEF LetsGo, Claimants
  <2> QED
    BY <1>4, <2>1, <2>2, StatementsPreserve
<1>5. ASSUME Serves, UNCHANGED taker,
             \/ \E i \in Instance : RequeueStaleUpdates(i)
             \/ \E id \in UpdateID, p \in Pair : Submit(id, p)
      PROVE  MigrationInv'
  BY <1>1, <1>5, OtherStatementsPreserve, StatementsPreserve
<1>6. ASSUME NEW i \in Instance, Shutdown(i) \/ Exit(i) \/ Crash(i) \/ Start(i), UNCHANGED taker
      PROVE  MigrationInv'
  BY <1>1, <1>D, <1>6, InstanceMovesPreserve, MovesPreserve
<1>7. ASSUME EnvironmentMoves, UNCHANGED taker
      PROVE  MigrationInv'
  BY <1>1, <1>7, EnvironmentMovesPreserve, MovesPreserve
<1>8. CASE StatementStep /\ Serves /\ UNCHANGED taker
  BY <1>2, <1>4, <1>5, <1>8 DEF StatementStep, WorkerMoves
<1>9. CASE OtherStep /\ UNCHANGED taker
  <2>1. ASSUME NEW u \in UpdateID, LeaseExpires(u) \/ TokenlessLeaseExpires(u) \/ OrphanExpires(u)
        PROVE  EnvironmentMoves
    BY <2>1 DEF LeaseExpires, TokenlessLeaseExpires, OrphanExpires, EnvironmentMoves
  <2>2. ASSUME NEW s \in abandoned, AbandonedRollback(s)
        PROVE  EnvironmentMoves
    BY <2>2 DEF EnvironmentMoves
  <2> QED
    BY <1>2, <1>6, <1>7, <1>9, <2>1, <2>2 DEF OtherStep, WorkerMoves
<1> QED
  BY <1>3, <1>8, <1>9, TakeStepPreserves, AbandonedStepPreserves DEF ApplicationStep

\* Polling tells what is in the tables.
LEMMA PollPreserves ==
    ASSUME MigrationInv, NEW u \in UpdateID, Poll(u)
    PROVE  MigrationInv'
<1>1. /\ seen' = [seen EXCEPT ![u] = OutcomeOf(u)] /\ u \in Stored /\ StatusMatchesResult
      /\ seen \in [UpdateID -> Promise!Outcome]
      /\ UNCHANGED <<quote_updates, exchange_rates, db_time, pc, claim, result, abandoned,
                     instance, faults, taker, schema, version, dirty, migrator, migrations, lowest>>
  BY DEF Poll, MigrationInv, MigrationTypeOK, CodesMatch, vars, tables, workerVars, schemaVars
<1>2. OutcomeOf(u) \in Promise!Outcome
  <2>1. u \in DOMAIN exchange_rates => exchange_rates[u] \in Time
    BY DEF MigrationInv, MigrationTypeOK, TypeOK, RepositoryTypeOK
  <2> QED
    BY <1>1, <2>1 DEF OutcomeOf, GetByID, Promise!Outcome
<1>3. seen' \in [UpdateID -> Promise!Outcome]
  BY <1>1, <1>2
<1>4. MigrationTypeOK'
  <2>1. TypeOK'
    BY <1>1 DEF MigrationInv, MigrationTypeOK, TypeOK, RepositoryTypeOK
  <2> QED
    BY <1>1, <1>3, <2>1 DEF MigrationInv, MigrationTypeOK
<1>5. LockedRowsStayPending' /\ (ClaimsAreFenced => ClaimsAreFenced')
  <2>1. /\ Taking' = Taking /\ Claimants' = Claimants
        /\ AbandonedTakes' = AbandonedTakes /\ AbandonedResults' = AbandonedResults
    BY <1>1 DEF Taking, Claimants, AbandonedTakes, AbandonedResults
  <2>2. LockedRows' = LockedRows
    BY <1>1, <2>1 DEF LockedRows
  <2>3. \A c : Issued(c) => Issued(c)'
    BY <1>1 DEF Issued
  <2> QED
    BY <1>1, <2>1, <2>2, <2>3 DEF MigrationInv, LockedRowsStayPending, ClaimsAreFenced
<1>6. VersionIsTrue' /\ StepsAreSingle' /\ RowsMatch' /\ CodesMatch'
  BY <1>1 DEF MigrationInv, VersionIsTrue, StepsAreSingle, RowsMatch, CodesMatch, Serves,
              StatusMatchesResult
<1>7. AnswersStand'
  <2>1. \A v \in UpdateID \ {u} : seen'[v] = seen[v]
    BY <1>1
  <2>2. seen'[u] = OutcomeOf(u)
    BY <1>1
  <2>3. OutcomeOf(u).state \in {"completed", "failed"} =>
           /\ quote_updates[u].status = OutcomeOf(u).state
           /\ OutcomeOf(u).quote = IF OutcomeOf(u).state = "completed"
                                   THEN {exchange_rates[u]} ELSE {}
    BY <1>1 DEF OutcomeOf, GetByID, StatusMatchesResult
  <2> QED
    BY <1>1, <2>1, <2>2, <2>3 DEF MigrationInv, AnswersStand
<1>8. TakersHold'
  BY <1>1, <1>5 DEF MigrationInv, TakersHold, Holds, Claimants
<1> QED
  BY <1>4, <1>5, <1>6, <1>7, <1>8 DEF MigrationInv

-----------------------------------------------------------------------------
\* The tables are empty at first, on the schema the instances expect.
LEMMA MigrationInitEstablishes ==
    ASSUME MigrationInit
    PROVE  MigrationInv
<1>1. /\ IndInv /\ Stored = {} /\ Claimants = {}
      /\ schema = ExpectedSchemaVersion /\ version = schema /\ lowest = schema
      /\ dirty = FALSE /\ migrator = "idle" /\ migrations = 0
      /\ taker = [u \in UpdateID |-> NoWorker] /\ seen = [u \in UpdateID |-> Unseen]
  BY InitEstablishes DEF MigrationInit, Init, RepositoryInit, Claimants
<1>2. schema \in Version /\ schema \in Nat
  BY <1>1, LowestVersionAssumption DEF Version, ExpectedSchemaVersion
<1>3. Unseen \in Promise!Outcome /\ Unseen.state = "none"
  BY DEF Unseen, Promise!Outcome
<1>4. MigrationTypeOK
  <2>1. {schema, version, lowest} \subseteq Version
    BY <1>1, <1>2
  <2>2. dirty \in BOOLEAN /\ TypeOK
    BY <1>1 DEF IndInv
  <2>3. migrations \in 0..MaxMigrations
    BY <1>1, MaxMigrationsAssumption
  <2> QED
    BY <1>1, <1>3, <2>1, <2>2, <2>3 DEF MigrationTypeOK
<1>5. VersionIsTrue /\ StepsAreSingle
  <2>1. lowest <= schema
    BY <1>1, <1>2
  <2>2. VersionIsTrue
    BY <1>1 DEF VersionIsTrue
  <2> QED
    BY <1>1, <1>4, <2>1, <2>2 DEF MigrationTypeOK, StepsAreSingle
<1>6. RowsMatch /\ CodesMatch
  BY <1>1 DEF IndInv, StatusMatchesResult, RowsMatch, CodesMatch
<1>7. AnswersStand
  BY <1>1, <1>3 DEF AnswersStand
<1>8. TakersHold
  BY <1>1 DEF IndInv, TakersHold
<1> QED
  BY <1>1, <1>4, <1>5, <1>6, <1>7, <1>8 DEF IndInv, MigrationInv

\* So every step of the migrated system.
LEMMA MigrationNextPreserves ==
    ASSUME MigrationInv, [MigrationNext]_migrationVars
    PROVE  MigrationInv'
<1>1. CASE UNCHANGED migrationVars
  <2>1. UNCHANGED <<vars, taker, seen, schema, version, dirty, migrator, migrations, lowest>>
    BY <1>1 DEF migrationVars, schemaVars
  <2>2. VersionIsTrue' /\ version' \in Version /\ dirty' \in BOOLEAN
    BY <2>1 DEF MigrationInv, StepsAreSingle, VersionIsTrue
  <2>3. /\ migrator' \in {"idle", "marked", "ran", "gone"}
        /\ migrations' \in 0..MaxMigrations
        /\ migrator' \in {"marked", "gone"} => version' \in {schema - 1, schema + 1}
    BY <2>1 DEF MigrationInv, MigrationTypeOK, StepsAreSingle
  <2> QED
    BY <2>1, <2>2, <2>3, BookkeepingPreserves DEF UnchangedButSchema
<1> QED
  BY <1>1, MigrationStepPreserves, ApplicationStepPreserves, PollPreserves DEF MigrationNext

\* In every reachable state of instances that serve while their database is
\* migrated under them: types are kept, versions are true, rows have the
\* results of their statuses, answers stand and the last taker holds the token.
THEOREM MigrationInvariance == MigrationSpec => []MigrationInv
<1>1. MigrationInit => MigrationInv
  BY MigrationInitEstablishes
<1>2. MigrationInv /\ [MigrationNext]_migrationVars => MigrationInv'
  BY MigrationNextPreserves
<1> QED
  BY <1>1, <1>2, PTL DEF MigrationSpec

\* Type correctness.
THEOREM MigrationTypeCorrectness == MigrationSpec => []MigrationTypeOK
<1>1. MigrationInv => MigrationTypeOK
  BY DEF MigrationInv
<1> QED
  BY <1>1, MigrationInvariance, PTL

\* Whatever is rolled back and migrated again, a client that asks for an update
\* it was told the result of is told the same.
THEOREM AnswersSurviveMigrations == MigrationSpec => []OutcomesSurvive
<1>1. MigrationInv => OutcomesSurvive
  <2> SUFFICES ASSUME MigrationInv, Serves, NEW u \in UpdateID,
                      seen[u].state \in {"completed", "failed"}
               PROVE  OutcomeOf(u) = seen[u]
    BY DEF OutcomesSurvive
  <2>1. /\ u \in Stored /\ quote_updates[u].status = seen[u].state
        /\ seen[u].quote = IF seen[u].state = "completed" THEN {exchange_rates[u]} ELSE {}
        /\ StatusMatchesResult
    BY DEF MigrationInv, AnswersStand, CodesMatch
  <2>2. seen[u] \in Promise!Outcome
    BY DEF MigrationInv, MigrationTypeOK
  <2>3. /\ OutcomeOf(u).state = seen[u].state
        /\ OutcomeOf(u).quote = seen[u].quote
    BY <2>1 DEF OutcomeOf, GetByID, StatusMatchesResult
  <2>4. OutcomeOf(u) = [state |-> OutcomeOf(u).state, quote |-> OutcomeOf(u).quote]
    BY <2>1 DEF OutcomeOf
  <2>5. seen[u] = [state |-> seen[u].state, quote |-> seen[u].quote]
    BY <2>2 DEF Promise!Outcome
  <2> QED
    BY <2>3, <2>4, <2>5
<1> QED
  BY <1>1, MigrationInvariance, PTL

\* Whoever decides an update has its current token: no other step takes a worker
\* from its update and decides that at once.
LEMMA DecidersHoldLeases ==
    ASSUME MigrationInv, [MigrationNext]_migrationVars, NEW w \in Worker, NEW u \in Stored,
           Decides(w, u)
    PROVE  HoldsLease(claim[w])
<1>1. /\ pc[w] \in {"completing", "failing"} /\ claim[w].id = u
      /\ pc'[w] # pc[w] /\ Decided(u)' /\ ~Decided(u)
      /\ pc \in [Worker -> {"polling", "taking", "fetching", "completing",
                            "failing", "waiting", "stopped"}]
  BY DEF Decides, MigrationInv, MigrationTypeOK, TypeOK
<1>2. ASSUME UNCHANGED tables
      PROVE  FALSE
  BY <1>1, <1>2 DEF tables, Decided
<1>3. ASSUME UNCHANGED pc
      PROVE  FALSE
  BY <1>1, <1>3
<1>4. ASSUME NEW x \in Worker, TakeCommit(x) \/ CompleteUpdate(x) \/ FailUpdate(x)
      PROVE  HoldsLease(claim[w])
  <2>1. x = w
    BY <1>1, <1>4 DEF TakeCommit, CompleteUpdate, FailUpdate, EndProcessNext
  <2> QED
    BY <1>1, <1>2, <1>4, <2>1
    DEF TakeCommit, CompleteUpdate, FailUpdate, CompleteRow, FailRow, DiscardResult
<1>5. CASE MigrationStep \/ UNCHANGED migrationVars \/ \E v \in UpdateID : Poll(v)
  BY <1>3, <1>5 DEF MigrationStep, Begin, RunFile, Migrate, MarkClean, MigratorDies,
                    FileRolledBack, ForceVersion, UnchangedButSchema, Poll,
                    migrationVars, vars, workerVars
<1>6. CASE ApplicationStep
  <2>1. CASE StatementStep
    BY <1>2, <1>3, <1>4, <2>1
    DEF StatementStep, TakeLock, TakeNothing, CompleteRefused, RequeueStaleUpdates,
        Submit, workerVars
  <2>2. CASE \E x \in Worker : TakeStep(x)
    BY <1>4, <2>2 DEF TakeStep
  <2>3. CASE \E s \in abandoned : AbandonedStep(s)
    BY <1>3, <2>3 DEF AbandonedStep, AbandonedCommit, workerVars
  <2>4. CASE \E x \in Worker : SchemaError(x)
    BY <1>2, <2>4 DEF SchemaError
  <2>5. CASE OtherStep
    <3>1. CASE \E x \in Worker : FetchRate(x) \/ FetchCanceled(x) \/ DatabaseError(x)
                                     \/ AbandonStatement(x) \/ NextPoll(x)
      BY <1>2, <3>1 DEF FetchRate, FetchCanceled, DatabaseError, AbandonStatement, NextPoll
    <3>2. CASE \E i \in Instance : Shutdown(i) \/ Exit(i) \/ Crash(i) \/ Start(i)
      BY <1>2, <3>2 DEF Shutdown, Exit, Crash, Start
    <3>3. CASE \/ \E s \in abandoned : AbandonedRollback(s)
               \/ \E v \in UpdateID : \/ LeaseExpires(v) \/ TokenlessLeaseExpires(v)
                                      \/ OrphanExpires(v)
      BY <1>3, <3>3 DEF AbandonedRollback, LeaseExpires, TokenlessLeaseExpires,
                        OrphanExpires, workerVars
    <3> QED
      BY <2>5, <3>1, <3>2, <3>3 DEF OtherStep
  <2> QED
    BY <1>6, <2>1, <2>2, <2>3, <2>4, <2>5 DEF ApplicationStep
<1> QED
  BY <1>5, <1>6 DEF MigrationNext

\* Rolling back to 5 and migrating up again under running workers takes nobody's
\* fencing away: only the worker that took an update last decides it.
THEOREM FencingOutlivesRollbacks == MigrationSpec => FencingSurvivesRollback
<1> DEFINE Fenced == lowest >= 5 => TakerDecides
<1>1. MigrationInv /\ [MigrationNext]_migrationVars => Fenced
  <2> SUFFICES ASSUME MigrationInv, [MigrationNext]_migrationVars, lowest >= 5,
                      NEW w \in Worker, NEW u \in Stored, Decides(w, u)
               PROVE  taker[u] = w
    BY DEF TakerDecides
  <2>1. HoldsLease(claim[w]) /\ w \in Claimants /\ claim[w].id = u
    BY DecidersHoldLeases DEF Decides, Claimants
  <2>2. Holds(w)
    BY <2>1 DEF HoldsLease, Holds
  <2> QED
    BY <2>1, <2>2 DEF MigrationInv, TakersHold
<1> QED
  BY <1>1, MigrationInvariance, PTL DEF MigrationSpec, FencingSurvivesRollback
=============================================================================
