-------------------- MODULE QuoteUpdateRepository_proofs --------------------
(***************************************************************************)
(* What each statement of the repository does to the tables: it keeps them *)
(* well typed and consistent, deletes nothing, never lowers a fencing      *)
(* token, and leaves alone every pending row but the one it takes.         *)
(***************************************************************************)
EXTENDS QuoteUpdateRepository, TLAPS

TablesOK == RepositoryTypeOK /\ StatusMatchesResult

\* What a transaction holding row locks on pending rows relies on while other
\* statements execute; except is the row this statement takes itself.
TablesGrow(except) ==
    /\ Stored \subseteq Stored'
    /\ \A v \in Stored :
          quote_updates'[v].processing_version >= quote_updates[v].processing_version
    /\ \A v \in WithStatus("pending") \ except : quote_updates'[v].status = "pending"

USE DEF Stored, WithStatus

\* A transaction that commits now began at some time of the clock.
LEMMA StartsArePast ==
    ASSUME RepositoryTypeOK
    PROVE  /\ TransactionStart \subseteq Time
           /\ \A t \in Time : t..db_time \subseteq Time
  BY MaxTimeAssumption DEF RepositoryTypeOK, TransactionStart, Time

\* Taking a pending row keeps the tables consistent and mints a new token.
LEMMA TakeRowKeepsTables ==
    ASSUME TablesOK, NEW u \in WithStatus("pending"), TakeRow(u),
           db_time' \in Time
    PROVE  /\ TablesOK'
           /\ TablesGrow({u})
           /\ u \in Stored /\ Stored' = Stored
           /\ quote_updates'[u].processing_version = quote_updates[u].processing_version + 1
           /\ quote_updates'[u].status = "processing"
           /\ quote_updates'[u].failure_code = quote_updates[u].failure_code
           /\ \A v \in Stored \ {u} : quote_updates'[v] = quote_updates[v]
           /\ exchange_rates' = exchange_rates
<1>0. PICK now \in TransactionStart :
        quote_updates' = [quote_updates EXCEPT
                            ![u].status = "processing",
                            ![u].failure_code = "NULL",
                            ![u].updated_at = now,
                            ![u].processing_version = @ + 1,
                            ![u].stale = FALSE]
  BY DEF TakeRow
<1> DEFINE next == quote_updates[u].processing_version + 1
           taken == [quote_updates[u] EXCEPT !.status = "processing",
                                             !.failure_code = "NULL",
                                             !.updated_at = now,
                                             !.processing_version = next,
                                             !.stale = FALSE]
<1>1. /\ quote_updates \in [Stored -> Row] /\ u \in Stored /\ now \in Time
      /\ quote_updates[u] \in Row /\ quote_updates[u].status = "pending"
  BY StartsArePast DEF TablesOK, RepositoryTypeOK
<1>a. next \in Nat
  BY <1>1 DEF Row
<1>2. /\ taken \in Row
      /\ taken.status = "processing" /\ taken.failure_code = "NULL"
      /\ taken.processing_version = quote_updates[u].processing_version + 1
  <2>1. DOMAIN quote_updates[u] = {"pair", "status", "idempotency_key", "failure_code",
                                   "created_at", "updated_at", "processing_version", "stale"}
    BY <1>1 DEF Row
  <2> HIDE DEF next
  <2>2. taken \in Row /\ taken.processing_version = next
    BY <1>1, <1>a, <2>1 DEF Row, UpdateStatus
  <2>3. taken.status = "processing" /\ taken.failure_code = "NULL"
    BY <2>1
  <2> QED
    BY <2>2, <2>3 DEF next
<1>3. quote_updates' = [quote_updates EXCEPT ![u] = taken] /\ exchange_rates' = exchange_rates
  BY <1>0 DEF TakeRow
<1> HIDE DEF taken
<1>4. /\ Stored' = Stored /\ quote_updates' \in [Stored -> Row]
      /\ quote_updates'[u] = taken
      /\ \A v \in Stored \ {u} : quote_updates'[v] = quote_updates[v]
  BY <1>1, <1>2, <1>3
<1>5. RepositoryTypeOK'
  BY <1>3, <1>4 DEF TablesOK, RepositoryTypeOK, Time
<1>6. StatusMatchesResult'
  BY <1>1, <1>2, <1>3, <1>4 DEF TablesOK, StatusMatchesResult
<1>7. TablesGrow({u})
  BY <1>1, <1>2, <1>4 DEF TablesGrow, Row
<1>8. quote_updates[u].failure_code = "NULL"
  BY <1>1 DEF TablesOK, StatusMatchesResult
<1> QED
  BY <1>1, <1>2, <1>3, <1>4, <1>5, <1>6, <1>7, <1>8 DEF TablesOK

\* The completing statement writes both tables or neither.
LEMMA CompleteRowKeepsTables ==
    ASSUME TablesOK, NEW c \in Claim, NEW t \in Time, CompleteRow(c, t),
           db_time' \in Time
    PROVE  /\ TablesOK'
           /\ TablesGrow({})
           /\ Stored' = Stored
           /\ \A v \in Stored \ {c.id} :
                 /\ quote_updates'[v] = quote_updates[v]
                 /\ v \in DOMAIN exchange_rates' <=> v \in DOMAIN exchange_rates
                 /\ v \in DOMAIN exchange_rates => exchange_rates'[v] = exchange_rates[v]
           /\ quote_updates'[c.id].status = "completed"
           /\ quote_updates'[c.id].failure_code = "NULL"
           /\ c.id \in DOMAIN exchange_rates' /\ exchange_rates'[c.id] = t
<1>0. PICK now \in t..db_time :
        quote_updates' = [quote_updates EXCEPT
                            ![c.id].status = "completed",
                            ![c.id].failure_code = "NULL",
                            ![c.id].updated_at = now,
                            ![c.id].stale = FALSE]
  BY DEF CompleteRow
<1> DEFINE u == c.id
           done == [quote_updates[u] EXCEPT !.status = "completed",
                                            !.failure_code = "NULL",
                                            !.updated_at = now,
                                            !.stale = FALSE]
<1>1. /\ quote_updates \in [Stored -> Row] /\ u \in Stored /\ now \in Time
      /\ quote_updates[u] \in Row /\ quote_updates[u].status = "processing"
  BY StartsArePast DEF TablesOK, RepositoryTypeOK, CompleteRow, HoldsLease
<1>2. /\ done \in Row
      /\ done.status = "completed" /\ done.failure_code = "NULL"
      /\ done.processing_version = quote_updates[u].processing_version
  BY <1>1 DEF Row, UpdateStatus
<1>3. /\ quote_updates' = [quote_updates EXCEPT ![u] = done]
      /\ exchange_rates' = [v \in DOMAIN exchange_rates \union {u} |->
                               IF v = u THEN t ELSE exchange_rates[v]]
  BY <1>0 DEF CompleteRow
<1> HIDE DEF done, u
<1>4. /\ Stored' = Stored /\ quote_updates' \in [Stored -> Row]
      /\ quote_updates'[u] = done
      /\ \A v \in Stored \ {u} : quote_updates'[v] = quote_updates[v]
  BY <1>1, <1>2, <1>3
<1>5. /\ DOMAIN exchange_rates' = DOMAIN exchange_rates \union {u}
      /\ exchange_rates'[u] = t
      /\ \A v \in DOMAIN exchange_rates \ {u} : exchange_rates'[v] = exchange_rates[v]
      /\ exchange_rates' \in [DOMAIN exchange_rates' -> Time]
  BY <1>3 DEF TablesOK, RepositoryTypeOK
<1>6. RepositoryTypeOK'
  BY <1>1, <1>4, <1>5 DEF TablesOK, RepositoryTypeOK, Time
<1>7. StatusMatchesResult'
  BY <1>1, <1>2, <1>4, <1>5 DEF TablesOK, StatusMatchesResult
<1>8. TablesGrow({})
  BY <1>1, <1>2, <1>4 DEF TablesGrow, Row
<1> QED
  BY <1>1, <1>2, <1>4, <1>5, <1>6, <1>7, <1>8 DEF TablesOK, u

\* The failing statement sets the status and the failure code together.
LEMMA FailRowKeepsTables ==
    ASSUME TablesOK, NEW c \in Claim, FailRow(c),
           db_time' \in Time
    PROVE  /\ TablesOK'
           /\ TablesGrow({})
           /\ Stored' = Stored
           /\ \A v \in Stored \ {c.id} : quote_updates'[v] = quote_updates[v]
           /\ quote_updates'[c.id].status = "failed"
           /\ quote_updates'[c.id].failure_code = "rate_provider_error"
           /\ exchange_rates' = exchange_rates
<1>0. PICK now \in TransactionStart :
        quote_updates' = [quote_updates EXCEPT
                            ![c.id].status = "failed",
                            ![c.id].failure_code = "rate_provider_error",
                            ![c.id].updated_at = now,
                            ![c.id].stale = FALSE]
  BY DEF FailRow
<1> DEFINE u == c.id
           done == [quote_updates[u] EXCEPT !.status = "failed",
                                            !.failure_code = "rate_provider_error",
                                            !.updated_at = now,
                                            !.stale = FALSE]
<1>1. /\ quote_updates \in [Stored -> Row] /\ u \in Stored /\ now \in Time
      /\ quote_updates[u] \in Row /\ quote_updates[u].status = "processing"
  BY StartsArePast DEF TablesOK, RepositoryTypeOK, FailRow, HoldsLease
<1>2. /\ done \in Row
      /\ done.status = "failed" /\ done.failure_code = "rate_provider_error"
      /\ done.processing_version = quote_updates[u].processing_version
  BY <1>1 DEF Row, UpdateStatus
<1>3. quote_updates' = [quote_updates EXCEPT ![u] = done] /\ exchange_rates' = exchange_rates
  BY <1>0 DEF FailRow
<1> HIDE DEF done, u
<1>4. /\ Stored' = Stored /\ quote_updates' \in [Stored -> Row]
      /\ quote_updates'[u] = done
      /\ \A v \in Stored \ {u} : quote_updates'[v] = quote_updates[v]
  BY <1>1, <1>2, <1>3
<1>5. RepositoryTypeOK'
  BY <1>3, <1>4 DEF TablesOK, RepositoryTypeOK, Time
<1>6. StatusMatchesResult'
  BY <1>1, <1>2, <1>3, <1>4 DEF TablesOK, StatusMatchesResult
<1>7. TablesGrow({})
  BY <1>1, <1>2, <1>4 DEF TablesGrow, Row
<1> QED
  BY <1>1, <1>2, <1>3, <1>4, <1>5, <1>6, <1>7 DEF TablesOK, u

\* The requeue returns stale leases to the queue and decides nothing.
LEMMA RequeueRowsKeepsTables ==
    ASSUME TablesOK, RequeueRows, db_time' \in Time
    PROVE  /\ TablesOK'
           /\ TablesGrow({})
           /\ Stored' = Stored
           /\ \A v \in Stored :
                 /\ quote_updates'[v].failure_code = quote_updates[v].failure_code
                 /\ quote_updates'[v].status \in Terminal
                       <=> quote_updates[v].status \in Terminal
                 /\ quote_updates'[v].status = "failed"
                       <=> quote_updates[v].status = "failed"
           /\ exchange_rates' = exchange_rates
<1>0. PICK now \in TransactionStart :
        quote_updates' = [u \in Stored |->
            IF u \in StaleRows
            THEN [quote_updates[u] EXCEPT !.status = "pending",
                                          !.failure_code = "NULL",
                                          !.updated_at = now,
                                          !.stale = FALSE]
            ELSE quote_updates[u]]
  BY DEF RequeueRows
<1> DEFINE back(u) == [quote_updates[u] EXCEPT !.status = "pending",
                                               !.failure_code = "NULL",
                                               !.updated_at = now,
                                               !.stale = FALSE]
<1>1. quote_updates \in [Stored -> Row] /\ now \in Time
  BY StartsArePast DEF TablesOK, RepositoryTypeOK
<1>2. \A u \in Stored :
        /\ back(u) \in Row
        /\ back(u).status = "pending" /\ back(u).failure_code = "NULL"
        /\ back(u).processing_version = quote_updates[u].processing_version
  BY <1>1 DEF Row, UpdateStatus
<1>3. /\ quote_updates' = [u \in Stored |-> IF u \in StaleRows THEN back(u) ELSE quote_updates[u]]
      /\ exchange_rates' = exchange_rates
  BY <1>0 DEF RequeueRows
<1>4. \A u \in StaleRows : /\ u \in Stored
                           /\ quote_updates[u].status = "processing"
                           /\ quote_updates[u].failure_code = "NULL"
  BY DEF StaleRows, TablesOK, StatusMatchesResult
<1> HIDE DEF back
<1>5. /\ Stored' = Stored /\ quote_updates' \in [Stored -> Row]
      /\ \A u \in StaleRows : quote_updates'[u] = back(u)
      /\ \A u \in Stored \ StaleRows : quote_updates'[u] = quote_updates[u]
  BY <1>1, <1>2, <1>3, <1>4
<1>6. RepositoryTypeOK'
  BY <1>3, <1>5 DEF TablesOK, RepositoryTypeOK, Time
<1>7. StatusMatchesResult'
  BY <1>2, <1>3, <1>4, <1>5 DEF TablesOK, StatusMatchesResult
<1>8. TablesGrow({})
  BY <1>1, <1>2, <1>4, <1>5 DEF TablesGrow, Row
<1> QED
  BY <1>2, <1>3, <1>4, <1>5, <1>6, <1>7, <1>8 DEF TablesOK, Terminal

\* A new row starts pending, without a result, and disturbs no other row.
LEMMA InsertRowKeepsTables ==
    ASSUME TablesOK, NEW id \in UpdateID, NEW p \in Pair, NEW k \in Key \union {NoKey},
           InsertRow(id, p, k), db_time' \in Time
    PROVE  /\ TablesOK'
           /\ TablesGrow({})
           /\ id \notin Stored /\ Stored' = Stored \union {id}
           /\ \A v \in Stored : quote_updates'[v] = quote_updates[v]
           /\ quote_updates'[id].status = "pending"
           /\ quote_updates'[id].failure_code = "NULL"
           /\ exchange_rates' = exchange_rates
           /\ id \notin DOMAIN exchange_rates
<1>0. PICK now \in TransactionStart :
        quote_updates' = [u \in Stored \union {id} |->
                            IF u = id THEN PendingRow(p, k, now) ELSE quote_updates[u]]
  BY DEF InsertRow
<1>1. /\ quote_updates \in [Stored -> Row] /\ now \in Time
      /\ id \notin Stored /\ DOMAIN exchange_rates \subseteq Stored
  BY StartsArePast DEF TablesOK, RepositoryTypeOK, InsertRow
<1>2. /\ PendingRow(p, k, now) \in Row
      /\ PendingRow(p, k, now).status = "pending" /\ PendingRow(p, k, now).failure_code = "NULL"
  BY <1>1 DEF Row, PendingRow, UpdateStatus
<1>3. /\ quote_updates' = [u \in Stored \union {id} |->
                              IF u = id THEN PendingRow(p, k, now) ELSE quote_updates[u]]
      /\ exchange_rates' = exchange_rates
  BY <1>0 DEF InsertRow
<1>4. /\ Stored' = Stored \union {id} /\ quote_updates' \in [Stored' -> Row]
      /\ quote_updates'[id] = PendingRow(p, k, now)
      /\ \A v \in Stored : quote_updates'[v] = quote_updates[v]
  BY <1>1, <1>2, <1>3
<1>5. RepositoryTypeOK'
  BY <1>3, <1>4 DEF TablesOK, RepositoryTypeOK, Time
<1>6. StatusMatchesResult'
  BY <1>1, <1>2, <1>3, <1>4 DEF TablesOK, StatusMatchesResult
<1>7. TablesGrow({})
  BY <1>1, <1>4 DEF TablesGrow, Row
<1> QED
  BY <1>1, <1>2, <1>3, <1>4, <1>5, <1>6, <1>7 DEF TablesOK

\* The passing of the processing timeout changes nothing but the lease's age,
\* also where the failure codes are not those of the statuses.
LEMMA ExpireRowKeepsTypes ==
    ASSUME RepositoryTypeOK, NEW u \in UpdateID, ExpireRow(u), db_time' \in Time
    PROVE  /\ RepositoryTypeOK'
           /\ TablesGrow({})
           /\ Stored' = Stored
           /\ \A v \in Stored :
                 /\ quote_updates'[v].status = quote_updates[v].status
                 /\ quote_updates'[v].failure_code = quote_updates[v].failure_code
                 /\ quote_updates'[v].processing_version = quote_updates[v].processing_version
           /\ exchange_rates' = exchange_rates
<1>1. /\ quote_updates \in [Stored -> Row] /\ u \in Stored
      /\ quote_updates[u] \in Row
  BY DEF RepositoryTypeOK, ExpireRow
<1>2. /\ quote_updates' = [quote_updates EXCEPT ![u] = [quote_updates[u] EXCEPT !.stale = TRUE]]
      /\ exchange_rates' = exchange_rates
  BY DEF ExpireRow
<1>3. /\ Stored' = Stored /\ quote_updates' \in [Stored -> Row]
      /\ \A v \in Stored :
            /\ quote_updates'[v].status = quote_updates[v].status
            /\ quote_updates'[v].failure_code = quote_updates[v].failure_code
            /\ quote_updates'[v].processing_version = quote_updates[v].processing_version
            /\ quote_updates[v].processing_version \in Nat
  BY <1>1, <1>2 DEF Row
<1>4. RepositoryTypeOK'
  BY <1>2, <1>3 DEF RepositoryTypeOK, Time
<1>5. TablesGrow({})
  BY <1>3 DEF TablesGrow
<1> QED
  BY <1>2, <1>3, <1>4, <1>5

\* The same for consistent tables, which it keeps consistent.
LEMMA ExpireRowKeepsTables ==
    ASSUME TablesOK, NEW u \in UpdateID, ExpireRow(u), db_time' \in Time
    PROVE  /\ TablesOK'
           /\ TablesGrow({})
           /\ Stored' = Stored
           /\ \A v \in Stored :
                 /\ quote_updates'[v].status = quote_updates[v].status
                 /\ quote_updates'[v].failure_code = quote_updates[v].failure_code
           /\ exchange_rates' = exchange_rates
  BY ExpireRowKeepsTypes DEF TablesOK, StatusMatchesResult

\* A step that leaves the tables alone.
LEMMA UnchangedKeepsTypes ==
    ASSUME RepositoryTypeOK, UNCHANGED tables, db_time' \in Time
    PROVE  RepositoryTypeOK' /\ TablesGrow({}) /\ Stored' = Stored
<1>1. quote_updates' = quote_updates /\ exchange_rates' = exchange_rates
  BY DEF tables
<1>2. RepositoryTypeOK'
  BY <1>1 DEF RepositoryTypeOK, Time
<1>3. \A v \in Stored : quote_updates[v].processing_version \in Nat
  BY DEF RepositoryTypeOK, Row
<1> QED
  BY <1>1, <1>2, <1>3 DEF TablesGrow

\* It leaves consistent tables consistent.
LEMMA UnchangedKeepsTables ==
    ASSUME TablesOK, UNCHANGED tables, db_time' \in Time
    PROVE  TablesOK' /\ TablesGrow({}) /\ Stored' = Stored
  BY UnchangedKeepsTypes DEF TablesOK, tables, StatusMatchesResult

\* The statements of the repository.
RepositoryStep ==
    \/ UNCHANGED tables
    \/ \E u \in WithStatus("pending") : TakeRow(u)
    \/ \E c \in Claim, t \in Time : CompleteRow(c, t)
    \/ \E c \in Claim : FailRow(c)
    \/ RequeueRows
    \/ \E id \in UpdateID, p \in Pair, k \in Key \union {NoKey} : InsertRow(id, p, k)
    \/ \E u \in UpdateID : ExpireRow(u)

\* What every statement leaves as it is: the rows, their pairs, the order of
\* their versions, and a row that is decided with its rate.
RowsKept ==
    /\ Stored \subseteq Stored'
    /\ \A v \in Stored :
          /\ quote_updates'[v].pair = quote_updates[v].pair
          /\ quote_updates'[v].processing_version >= quote_updates[v].processing_version
    /\ \A v \in Stored :
          quote_updates[v].status \in Terminal =>
              /\ quote_updates'[v] = quote_updates[v]
              /\ v \in DOMAIN exchange_rates' <=> v \in DOMAIN exchange_rates
              /\ v \in DOMAIN exchange_rates => exchange_rates'[v] = exchange_rates[v]

\* A statement that replaces one undecided row, keeps its pair, and writes no
\* rate but that row's.
LEMMA OneRowKeepsRows ==
    ASSUME RepositoryTypeOK, NEW u \in Stored, NEW row,
           quote_updates' = [quote_updates EXCEPT ![u] = row],
           quote_updates[u].status \notin Terminal,
           row.pair = quote_updates[u].pair,
           row.processing_version >= quote_updates[u].processing_version,
           \A v \in Stored \ {u} :
               /\ v \in DOMAIN exchange_rates' <=> v \in DOMAIN exchange_rates
               /\ v \in DOMAIN exchange_rates => exchange_rates'[v] = exchange_rates[v]
    PROVE  RowsKept
<1>1. \A v \in Stored : quote_updates[v].processing_version \in Nat
  BY DEF RepositoryTypeOK, Row
<1> QED
  BY <1>1 DEF RowsKept

\* Every statement keeps the pairs, the decided rows and the order of versions.
LEMMA StatementsKeepRows ==
    ASSUME RepositoryTypeOK, RepositoryStep
    PROVE  RowsKept
<1>0. quote_updates \in [Stored -> Row] /\ db_time \in Time
  BY DEF RepositoryTypeOK
<1>V. \A v \in Stored : quote_updates[v].processing_version \in Nat
  BY <1>0 DEF Row
<1>1. ASSUME NEW u \in WithStatus("pending"), TakeRow(u)
      PROVE  RowsKept
  <2>0. PICK now \in TransactionStart :
          quote_updates' = [quote_updates EXCEPT
                              ![u].status = "processing",
                              ![u].failure_code = "NULL",
                              ![u].updated_at = now,
                              ![u].processing_version = @ + 1,
                              ![u].stale = FALSE]
    BY <1>1 DEF TakeRow
  <2> DEFINE next == quote_updates[u].processing_version + 1
  <2> DEFINE row == [quote_updates[u] EXCEPT !.status = "processing",
                                             !.failure_code = "NULL",
                                             !.updated_at = now,
                                             !.processing_version = next,
                                             !.stale = FALSE]
  <2>1. u \in Stored /\ quote_updates[u].status \notin Terminal
    BY <1>1 DEF Terminal
  <2>2. quote_updates[u] \in Row
    BY <1>0, <2>1
  <2>3. row.pair = quote_updates[u].pair
    BY <2>2 DEF Row
  <2>5. row.processing_version = next /\ next >= quote_updates[u].processing_version
    <3>1. DOMAIN quote_updates[u] = {"pair", "status", "idempotency_key", "failure_code",
                                     "created_at", "updated_at", "processing_version", "stale"}
      BY <2>2 DEF Row
    <3> HIDE DEF next
    <3>2. row.processing_version = next
      BY <3>1
    <3> QED
      BY <1>V, <2>1, <3>2 DEF next
  <2>6. quote_updates' = [quote_updates EXCEPT ![u] = row]
    BY <2>0
  <2>7. \A v \in Stored \ {u} :
           /\ v \in DOMAIN exchange_rates' <=> v \in DOMAIN exchange_rates
           /\ v \in DOMAIN exchange_rates => exchange_rates'[v] = exchange_rates[v]
    BY <1>1 DEF TakeRow
  <2> HIDE DEF row
  <2>8. row.processing_version >= quote_updates[u].processing_version
    BY <1>V, <2>1, <2>5
  <2> QED
    BY <2>1, <2>3, <2>6, <2>7, <2>8, OneRowKeepsRows
<1>2. ASSUME NEW c \in Claim, NEW t \in Time, CompleteRow(c, t)
      PROVE  RowsKept
  <2>0. PICK now \in t..db_time :
          quote_updates' = [quote_updates EXCEPT
                              ![c.id].status = "completed",
                              ![c.id].failure_code = "NULL",
                              ![c.id].updated_at = now,
                              ![c.id].stale = FALSE]
    BY <1>2 DEF CompleteRow
  <2> DEFINE row == [quote_updates[c.id] EXCEPT !.status = "completed",
                                                !.failure_code = "NULL",
                                                !.updated_at = now,
                                                !.stale = FALSE]
  <2>1. c.id \in Stored /\ quote_updates[c.id].status \notin Terminal
    BY <1>2 DEF CompleteRow, HoldsLease, Terminal
  <2>2. quote_updates[c.id] \in Row
    BY <1>0, <2>1
  <2>3. row.pair = quote_updates[c.id].pair
    BY <2>2 DEF Row
  <2>5. row.processing_version = quote_updates[c.id].processing_version
    BY <2>2 DEF Row
  <2>6. quote_updates' = [quote_updates EXCEPT ![c.id] = row]
    BY <2>0
  <2>7. \A v \in Stored \ {c.id} :
           /\ v \in DOMAIN exchange_rates' <=> v \in DOMAIN exchange_rates
           /\ v \in DOMAIN exchange_rates => exchange_rates'[v] = exchange_rates[v]
    BY <1>2 DEF CompleteRow
  <2> HIDE DEF row
  <2>8. row.processing_version >= quote_updates[c.id].processing_version
    BY <1>V, <2>1, <2>5
  <2> QED
    BY <2>1, <2>3, <2>6, <2>7, <2>8, OneRowKeepsRows
<1>3. ASSUME NEW c \in Claim, FailRow(c)
      PROVE  RowsKept
  <2>0. PICK now \in TransactionStart :
          quote_updates' = [quote_updates EXCEPT
                              ![c.id].status = "failed",
                              ![c.id].failure_code = "rate_provider_error",
                              ![c.id].updated_at = now,
                              ![c.id].stale = FALSE]
    BY <1>3 DEF FailRow
  <2> DEFINE row == [quote_updates[c.id] EXCEPT !.status = "failed",
                                                !.failure_code = "rate_provider_error",
                                                !.updated_at = now,
                                                !.stale = FALSE]
  <2>1. c.id \in Stored /\ quote_updates[c.id].status \notin Terminal
    BY <1>3 DEF FailRow, HoldsLease, Terminal
  <2>2. quote_updates[c.id] \in Row
    BY <1>0, <2>1
  <2>3. row.pair = quote_updates[c.id].pair
    BY <2>2 DEF Row
  <2>5. row.processing_version = quote_updates[c.id].processing_version
    BY <2>2 DEF Row
  <2>6. quote_updates' = [quote_updates EXCEPT ![c.id] = row]
    BY <2>0
  <2>7. \A v \in Stored \ {c.id} :
           /\ v \in DOMAIN exchange_rates' <=> v \in DOMAIN exchange_rates
           /\ v \in DOMAIN exchange_rates => exchange_rates'[v] = exchange_rates[v]
    BY <1>3 DEF FailRow
  <2> HIDE DEF row
  <2>8. row.processing_version >= quote_updates[c.id].processing_version
    BY <1>V, <2>1, <2>5
  <2> QED
    BY <2>1, <2>3, <2>6, <2>7, <2>8, OneRowKeepsRows
<1>4. CASE RequeueRows
  <2>0. PICK now \in TransactionStart :
          quote_updates' = [u \in Stored |->
              IF u \in StaleRows
              THEN [quote_updates[u] EXCEPT !.status = "pending",
                                            !.failure_code = "NULL",
                                            !.updated_at = now,
                                            !.stale = FALSE]
              ELSE quote_updates[u]]
    BY <1>4 DEF RequeueRows
  <2> DEFINE back(u) == [quote_updates[u] EXCEPT !.status = "pending",
                                                 !.failure_code = "NULL",
                                                 !.updated_at = now,
                                                 !.stale = FALSE]
  <2>1. \A u \in Stored : /\ back(u).pair = quote_updates[u].pair
                          /\ back(u).processing_version = quote_updates[u].processing_version
    BY <1>0 DEF Row
  <2>2. /\ quote_updates' = [u \in Stored |-> IF u \in StaleRows THEN back(u) ELSE quote_updates[u]]
        /\ exchange_rates' = exchange_rates
    BY <1>4, <2>0 DEF RequeueRows
  <2>3. \A u \in StaleRows : quote_updates[u].status \notin Terminal
    BY DEF StaleRows, Terminal
  <2> HIDE DEF back
  <2> QED
    BY <1>V, <2>1, <2>2, <2>3 DEF RowsKept
<1>5. ASSUME NEW id \in UpdateID, NEW p \in Pair, NEW k \in Key \union {NoKey},
             InsertRow(id, p, k)
      PROVE  RowsKept
  BY <1>0, <1>V, <1>5 DEF InsertRow, PendingRow, RowsKept
<1>6. ASSUME NEW u \in UpdateID, ExpireRow(u)
      PROVE  RowsKept
  <2> DEFINE row == [quote_updates[u] EXCEPT !.stale = TRUE]
  <2>1. u \in Stored /\ quote_updates[u] \in Row /\ quote_updates[u].status \notin Terminal
    BY <1>0, <1>6 DEF ExpireRow, Terminal
  <2>2. /\ row.pair = quote_updates[u].pair
        /\ row.processing_version = quote_updates[u].processing_version
    BY <2>1 DEF Row
  <2>3. quote_updates' = [quote_updates EXCEPT ![u] = row] /\ exchange_rates' = exchange_rates
    BY <1>6 DEF ExpireRow
  <2> HIDE DEF row
  <2>4. row.processing_version >= quote_updates[u].processing_version
    BY <1>V, <2>1, <2>2
  <2> QED
    BY <2>1, <2>2, <2>3, <2>4, OneRowKeepsRows
<1>7. CASE UNCHANGED tables
  BY <1>V, <1>7 DEF tables, RowsKept
<1> QED
  BY <1>1, <1>2, <1>3, <1>4, <1>5, <1>6, <1>7 DEF RepositoryStep
=============================================================================
