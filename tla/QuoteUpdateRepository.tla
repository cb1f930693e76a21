----------------------- MODULE QuoteUpdateRepository -----------------------
(***************************************************************************)
(* The two PostgreSQL tables of the service and the SQL statements of      *)
(* internal/storage/postgres that change or read them.                     *)
(*                                                                         *)
(* Every statement runs in a transaction of its own and takes effect at    *)
(* one instant, its commit.  CURRENT_TIMESTAMP and now() are the time the  *)
(* transaction began, which is earlier by any amount: the statement waits  *)
(* for a row lock or is slow, or its client has long given it up.  The one *)
(* statement whose row lock others can observe before it commits,          *)
(* TakeNextPendingUpdate (FOR UPDATE SKIP LOCKED), is split in two: the    *)
(* choice of the row here, NextUnlocked, and the update, TakeRow.          *)
(*                                                                         *)
(* A table is a function whose domain is the set of primary keys stored.   *)
(* Update ids are positive numbers in the order of their UUIDv7 values; 0  *)
(* plays uuid.Nil.  A rate is represented by the time it was fetched at.   *)
(* The age of a lease is abstracted to one bit, stale, which says that     *)
(*     updated_at < CURRENT_TIMESTAMP - PROCESSING_TIMEOUT;                *)
(* LeaseTiming models the arithmetic behind that bit.                      *)
(***************************************************************************)
EXTENDS Naturals

CONSTANTS
    UpdateID,  \* ids the UUID generator can hand out
    Pair,      \* supported currency pairs
    Key,       \* idempotency keys clients use
    NoKey,     \* SQL NULL in the column idempotency_key
    MaxTime    \* bound: last value of the database clock

ASSUME UpdateIDAssumption == UpdateID \subseteq Nat \ {0}
ASSUME NoKeyAssumption == NoKey \notin Key
ASSUME MaxTimeAssumption == MaxTime \in Nat

VARIABLES
    quote_updates,   \* table quote_updates: id -> Row
    exchange_rates,  \* table exchange_rates: update_id -> fetched_at
    db_time          \* PostgreSQL clock

tables == <<quote_updates, exchange_rates>>

UpdateStatus == {"pending", "processing", "completed", "failed"}
Terminal == {"completed", "failed"}
Time == 0..MaxTime

\* The columns failure_code and error_message are set and cleared together.
Row == [pair: Pair,
        status: UpdateStatus,
        idempotency_key: Key \union {NoKey},
        failure_code: {"NULL", "rate_provider_error"},
        created_at: Time,
        updated_at: Time,
        processing_version: Nat,
        stale: BOOLEAN]

Stored == DOMAIN quote_updates
WithStatus(s) == {u \in Stored : quote_updates[u].status = s}

RepositoryTypeOK ==
    /\ Stored \subseteq UpdateID
    /\ quote_updates \in [Stored -> Row]
    /\ DOMAIN exchange_rates \subseteq Stored
    /\ exchange_rates \in [DOMAIN exchange_rates -> Time]
    /\ db_time \in Time

\* A row has a rate exactly when it is completed and a failure code exactly
\* when it is failed, so that what GetByID returns is never half a result:
\* CompleteUpdate writes two tables, FailUpdate and the requeue several columns.
StatusMatchesResult ==
    \A u \in Stored :
        /\ u \in DOMAIN exchange_rates <=> quote_updates[u].status = "completed"
        /\ quote_updates[u].failure_code # "NULL" <=> quote_updates[u].status = "failed"

RepositoryInit ==
    /\ quote_updates = [u \in {} |-> 0]
    /\ exchange_rates = [u \in {} |-> 0]
    /\ db_time = 0

Tick ==
    /\ db_time < MaxTime
    /\ db_time' = db_time + 1

\* When the transaction of a statement that commits now can have begun.
TransactionStart == 0..db_time

-----------------------------------------------------------------------------
(* CreateOrGet *)

\* (mutant) the key is unique among undecided updates only
WithKeyUndecided(k) ==
    {u \in Stored : /\ k # NoKey /\ quote_updates[u].idempotency_key = k
                    /\ quote_updates[u].status \notin Terminal}

\* The rows that ON CONFLICT (idempotency_key) finds; NULLs never conflict.
WithKey(k) == {u \in Stored : k # NoKey /\ quote_updates[u].idempotency_key = k}

PendingRow(p, k, now) ==
    [pair |-> p, status |-> "pending", idempotency_key |-> k,
     failure_code |-> "NULL", created_at |-> now, updated_at |-> now,
     processing_version |-> 0, stale |-> FALSE]

\* (mutant) ON CONFLICT DO UPDATE SET pair
InsertRowUpdating(id, p, k) ==
    /\ id \notin Stored
    /\ \E now \in TransactionStart :
          quote_updates' = [u \in Stored \union (IF WithKey(k) = {} THEN {id} ELSE {}) |->
              IF u = id THEN PendingRow(p, k, now)
              ELSE IF u \in WithKey(k) THEN [quote_updates[u] EXCEPT !.pair = p]
              ELSE quote_updates[u]]
    /\ UNCHANGED exchange_rates

InsertRow(id, p, k) ==
    /\ id \notin Stored
    /\ WithKey(k) = {}
    /\ \E now \in TransactionStart :
          quote_updates' = [u \in Stored \union {id} |->
                              IF u = id THEN PendingRow(p, k, now) ELSE quote_updates[u]]
    /\ UNCHANGED exchange_rates

-----------------------------------------------------------------------------
(* TakeNextPendingUpdate *)

\* ORDER BY created_at, id
Precedes(u, v) ==
    \/ quote_updates[u].created_at < quote_updates[v].created_at
    \/ /\ quote_updates[u].created_at = quote_updates[v].created_at
       /\ u <= v

\* (mutant) without FOR UPDATE SKIP LOCKED
NextIgnoringLocks(u, locked) ==
    /\ u \in WithStatus("pending")
    /\ \A v \in WithStatus("pending") : Precedes(u, v)

\* FOR UPDATE SKIP LOCKED LIMIT 1
NextUnlocked(u, locked) ==
    /\ u \in WithStatus("pending") \ locked
    /\ \A v \in WithStatus("pending") \ locked : Precedes(u, v)

TakeRow(u) ==
    /\ \E now \in TransactionStart :
          quote_updates' = [quote_updates EXCEPT
                              ![u].status = "processing",
                              ![u].failure_code = "NULL",
                              ![u].updated_at = now,
                              ![u].processing_version = @ + 1,
                              ![u].stale = FALSE]
    /\ UNCHANGED exchange_rates

-----------------------------------------------------------------------------
(* CompleteUpdate and FailUpdate *)

Claim == [id: UpdateID \union {0}, token: Nat]
NoClaim == [id |-> 0, token |-> 0]

\* (mutant) the lease token is not compared
HoldsAnyLease(c) == c.id \in WithStatus("processing")

\* (mutant) the status is not compared
HoldsVersion(c) ==
    /\ c.id \in Stored
    /\ quote_updates[c.id].processing_version = c.token

\* The fencing condition of both statements: status and processing_version.
\* (The pair the completing statement compares as well never changes.)
HoldsLease(c) ==
    /\ c.id \in WithStatus("processing")
    /\ quote_updates[c.id].processing_version = c.token

\* (mutant) the rate is inserted by a statement of its own
CompleteRowInsertAnyway(c, fetched_at) ==
    /\ \E now \in fetched_at..db_time :
          quote_updates' = [u \in Stored |->
              IF u = c.id /\ HoldsLease(c)
              THEN [quote_updates[u] EXCEPT !.status = "completed",
                                            !.updated_at = now,
                                            !.stale = FALSE]
              ELSE quote_updates[u]]
    /\ exchange_rates' = [u \in DOMAIN exchange_rates \union {c.id} |->
                            IF u = c.id THEN fetched_at ELSE exchange_rates[u]]

\* The transaction began when the quote had been fetched.
CompleteRow(c, fetched_at) ==
    /\ HoldsLease(c)
    /\ \E now \in fetched_at..db_time :
          quote_updates' = [quote_updates EXCEPT
                              ![c.id].status = "completed",
                              ![c.id].failure_code = "NULL",
                              ![c.id].updated_at = now,
                              ![c.id].stale = FALSE]
    /\ exchange_rates' = [u \in DOMAIN exchange_rates \union {c.id} |->
                            IF u = c.id THEN fetched_at ELSE exchange_rates[u]]

\* (mutant) a failure code the column's constraint does not list
FailRowUnknownCode(c) ==
    /\ HoldsLease(c)
    /\ \E now \in TransactionStart :
          quote_updates' = [quote_updates EXCEPT
                              ![c.id].status = "failed",
                              ![c.id].failure_code = "canceled",
                              ![c.id].updated_at = now,
                              ![c.id].stale = FALSE]
    /\ UNCHANGED exchange_rates

FailRow(c) ==
    /\ HoldsLease(c)
    /\ \E now \in TransactionStart :
          quote_updates' = [quote_updates EXCEPT
                              ![c.id].status = "failed",
                              ![c.id].failure_code = "rate_provider_error",
                              ![c.id].updated_at = now,
                              ![c.id].stale = FALSE]
    /\ UNCHANGED exchange_rates

\* Zero rows affected: the caller's lease was recovered in the meantime.
DiscardResult(c) ==
    /\ ~HoldsLease(c)
    /\ UNCHANGED tables

-----------------------------------------------------------------------------
(* RequeueStaleProcessingUpdates *)

\* (mutant) the recovery looks for the wrong status
StalePendingRows == {u \in WithStatus("pending") : quote_updates[u].stale}

StaleRows == {u \in WithStatus("processing") : quote_updates[u].stale}

\* (mutant) a recovered row starts over with version 0
RequeueRowsResetVersion ==
    /\ \E now \in TransactionStart :
          quote_updates' = [u \in Stored |->
              IF u \in StaleRows
              THEN [quote_updates[u] EXCEPT !.status = "pending",
                                            !.processing_version = 0,
                                            !.updated_at = now,
                                            !.stale = FALSE]
              ELSE quote_updates[u]]
    /\ UNCHANGED exchange_rates

RequeueRows ==
    /\ \E now \in TransactionStart :
          quote_updates' = [u \in Stored |->
              IF u \in StaleRows
              THEN [quote_updates[u] EXCEPT !.status = "pending",
                                            !.failure_code = "NULL",
                                            !.updated_at = now,
                                            !.stale = FALSE]
              ELSE quote_updates[u]]
    /\ UNCHANGED exchange_rates

\* The processing timeout of u's lease passes.
ExpireRow(u) ==
    /\ u \in WithStatus("processing")
    /\ ~quote_updates[u].stale
    /\ quote_updates' = [quote_updates EXCEPT ![u].stale = TRUE]
    /\ UNCHANGED exchange_rates

-----------------------------------------------------------------------------
(* GetByID and GetLatest *)

\* The LEFT JOIN of a stored update with its rate: quote is empty without one.
GetByID(u) ==
    [status |-> quote_updates[u].status,
     failure_code |-> quote_updates[u].failure_code,
     quote |-> IF u \in DOMAIN exchange_rates THEN {exchange_rates[u]} ELSE {}]

\* The join of completed updates of pair p with their rates.
CompletedOf(p) ==
    {u \in WithStatus("completed") \intersect DOMAIN exchange_rates :
        quote_updates[u].pair = p}

\* (mutant) ORDER BY created_at DESC, id DESC
CreatedAfter(u, v) ==
    \/ quote_updates[u].created_at > quote_updates[v].created_at
    \/ /\ quote_updates[u].created_at = quote_updates[v].created_at
       /\ u >= v

\* ORDER BY updated_at DESC, id DESC
Newer(u, v) ==
    \/ quote_updates[u].updated_at > quote_updates[v].updated_at
    \/ /\ quote_updates[u].updated_at = quote_updates[v].updated_at
       /\ u >= v

\* The row GetLatest returns for p, as a set: empty if there is none.
GetLatest(p) == {u \in CompletedOf(p) : \A v \in CompletedOf(p) : Newer(u, v)}

=============================================================================
