----------------------------- MODULE LeaseTiming -----------------------------
(***************************************************************************)
(* The arithmetic of a processing lease.  One update, the worker that has  *)
(* taken it and the recovery worker, with the time every call may take:    *)
(* a statement DATABASE_QUERY_TIMEOUT, an HTTP attempt FRANKFURTER_TIMEOUT *)
(* (http.Client.Timeout), a wait between attempts FRANKFURTER_RETRY_MAX_   *)
(* DELAY, at most FRANKFURTER_MAX_ATTEMPTS of them.                        *)
(*                                                                         *)
(* CURRENT_TIMESTAMP is the time a transaction began.  So a lease begins   *)
(* with the statement that takes it and not with its commit, and the       *)
(* recovery sees leases as old as they were when its statement began.      *)
(*                                                                         *)
(* Time advances in units by Tick; the variables are ages, so that the     *)
(* state space is finite.  A Tick never carries a call past its timeout,   *)
(* and computation takes no time.  QuoteUpdateWorkers abstracts all of     *)
(* this to the bit stale and to the step LeaseExpires.                     *)
(***************************************************************************)
EXTENDS Naturals

CONSTANTS
    QueryTimeouts,   \* values of DATABASE_QUERY_TIMEOUT to configure
    FrankfurterTimeout,
    FrankfurterMaxAttempts,
    FrankfurterMaxDelay,
    RecoveryInterval,
    ProcessingTimeout,
    SafetyMargin

\* processingTimeoutCoversRetries subtracts these terms one after the other.
MaxFetchTime ==
    FrankfurterMaxAttempts * FrankfurterTimeout
        + (FrankfurterMaxAttempts - 1) * FrankfurterMaxDelay

processingTimeoutCoversRetries ==
    ProcessingTimeout >= SafetyMargin + MaxFetchTime

\* Config.Validate.
ASSUME ValidConfig ==
    /\ QueryTimeouts \subseteq Nat \ {0}
    /\ FrankfurterTimeout \in Nat \ {0}
    /\ FrankfurterMaxAttempts \in 1..10
    /\ FrankfurterMaxDelay \in Nat \ {0}
    /\ RecoveryInterval \in Nat \ {0}
    /\ ProcessingTimeout \in Nat
    /\ SafetyMargin \in Nat
    /\ processingTimeoutCoversRetries

VARIABLES
    DatabaseQueryTimeout,  \* configuration, fixed
    status,        \* of the update: pending, processing or decided
    lease_age,     \* CURRENT_TIMESTAMP - updated_at while processing
    phase,         \* the call of processNext the worker is in
    attempt,       \* of FetchRate
    call_age,      \* time spent in that call, attempt or wait
    holds,         \* the worker's claim is still the row's latest
    recovery,      \* where Run of the recovery worker is
    requeue_age,   \* time since its round began
    ticker,        \* not created yet, running, or with a tick in its channel
    ticker_age     \* time since it was created or last fired

recoveryVars == <<recovery, requeue_age, ticker, ticker_age>>

workerVars == <<phase, attempt, call_age>>

vars == <<DatabaseQueryTimeout, status, lease_age, holds, workerVars, recoveryVars>>

\* taking: the take has not committed; taken: its reply is on the way;
\* finishing: in CompleteUpdate or FailUpdate.
Phase == {"idle", "taking", "taken", "fetching", "backoff", "finishing"}

\* requeueing: the statement of the round has not committed; requeued: its
\* reply is on the way; waiting: in the select.
Recovery == {"requeueing", "requeued", "waiting"}

\* (mutant) Retry-After is not limited by the maximum delay
UnlimitedDelay == 2 * FrankfurterMaxDelay

\* calculateRetryDelay returns at most the maximum delay.
RetryDelayLimit == FrankfurterMaxDelay

CallLimit(p) ==
    IF p = "idle" THEN 0
    ELSE IF p = "fetching" THEN FrankfurterTimeout
    ELSE IF p = "backoff" THEN RetryDelayLimit
    ELSE DatabaseQueryTimeout

\* The type invariant; a call never outlives its timeout.
TypeOK ==
    /\ DatabaseQueryTimeout \in QueryTimeouts
    /\ status \in {"pending", "processing", "decided"}
    /\ lease_age \in Nat
    /\ phase \in Phase
    /\ attempt \in 0..FrankfurterMaxAttempts
    /\ call_age \in Nat /\ call_age <= CallLimit(phase)
    /\ holds \in BOOLEAN /\ (holds => status = "processing")
    /\ recovery \in Recovery
    /\ requeue_age \in 0..DatabaseQueryTimeout
    /\ ticker \in {"off", "running", "fired"}
    /\ ticker_age \in 0..RecoveryInterval

\* The instance starts, and the update may be one that a worker of an earlier
\* instance left, up to the processing timeout ago.  Run requeues at once.
Init ==
    /\ DatabaseQueryTimeout \in QueryTimeouts
    /\ \/ status = "pending" /\ lease_age = 0
       \/ status = "processing" /\ lease_age \in 0..ProcessingTimeout
    /\ phase = "idle" /\ attempt = 0 /\ call_age = 0 /\ holds = FALSE
    /\ recovery = "requeueing" /\ requeue_age = 0
    /\ ticker = "off" /\ ticker_age = 0

Enter(p, k) ==
    /\ phase' = p
    /\ attempt' = k
    /\ call_age' = 0

\* Nobody dawdles: calls end by their timeouts, a ticker fires on time and a
\* select that can go on does.
NothingIsDue ==
    /\ phase # "idle" => call_age < CallLimit(phase)
    /\ recovery # "waiting" => requeue_age < DatabaseQueryTimeout
    /\ ticker_age < RecoveryInterval
    /\ ~(recovery = "waiting" /\ ticker = "fired")

Tick ==
    /\ NothingIsDue
    /\ lease_age' = IF status = "processing" THEN lease_age + 1 ELSE 0
    /\ call_age' = IF phase = "idle" THEN 0 ELSE call_age + 1
    /\ requeue_age' = IF recovery = "waiting" THEN 0 ELSE requeue_age + 1
    /\ ticker_age' = IF ticker = "off" THEN 0 ELSE ticker_age + 1
    /\ UNCHANGED <<DatabaseQueryTimeout, status, phase, attempt, holds, recovery, ticker>>

-----------------------------------------------------------------------------
(* The worker *)

CallTake ==
    /\ phase = "idle"
    /\ Enter("taking", 0)
    /\ UNCHANGED <<status, lease_age, holds, recoveryVars>>

TakeCommit ==
    /\ phase = "taking"
    /\ status = "pending"
    /\ status' = "processing" /\ lease_age' \in 0..call_age /\ holds' = TRUE
    /\ phase' = "taken"
    /\ UNCHANGED <<attempt, call_age, recoveryVars>>

TakeNothing ==
    /\ phase = "taking"
    /\ status # "pending"
    /\ Enter("idle", 0)
    /\ UNCHANGED <<status, lease_age, holds, recoveryVars>>

TakeReply ==
    /\ phase = "taken"
    /\ Enter("fetching", 1)
    /\ UNCHANGED <<status, lease_age, holds, recoveryVars>>

\* (mutant) one attempt too many
AttemptFailsAtLimit ==
    /\ phase = "fetching"
    /\ attempt <= FrankfurterMaxAttempts
    /\ Enter("backoff", attempt)
    /\ UNCHANGED <<status, lease_age, holds, recoveryVars>>

\* A retryable error with attempts left.
AttemptFails ==
    /\ phase = "fetching"
    /\ attempt < FrankfurterMaxAttempts
    /\ Enter("backoff", attempt)
    /\ UNCHANGED <<status, lease_age, holds, recoveryVars>>

Retry ==
    /\ phase = "backoff"
    /\ Enter("fetching", attempt + 1)
    /\ UNCHANGED <<status, lease_age, holds, recoveryVars>>

\* A snapshot, or an error that is final.
FetchEnds ==
    /\ phase = "fetching"
    /\ Enter("finishing", 0)
    /\ UNCHANGED <<status, lease_age, holds, recoveryVars>>

\* The fenced statement of CompleteUpdate or FailUpdate.
Finish ==
    /\ phase = "finishing"
    /\ Enter("idle", 0)
    /\ holds' = FALSE
    /\ \/ holds /\ status' = "decided" /\ lease_age' = 0
       \/ ~holds /\ UNCHANGED <<status, lease_age>>
    /\ UNCHANGED recoveryVars

\* The call fails or the process dies: nobody holds the lease any more.
LoseClaim ==
    /\ phase # "idle"
    /\ Enter("idle", 0)
    /\ holds' = FALSE
    /\ UNCHANGED <<status, lease_age, recoveryVars>>

\* Somebody requests another update.
Submit ==
    /\ status = "decided"
    /\ status' = "pending"
    /\ UNCHANGED <<lease_age, holds, workerVars, recoveryVars>>

-----------------------------------------------------------------------------
(* The recovery worker *)

\* The channel holds one tick, and drops what comes on top of it.
TickerFires ==
    /\ ticker # "off"
    /\ ticker_age = RecoveryInterval
    /\ ticker' = "fired"
    /\ ticker_age' = 0
    /\ UNCHANGED <<status, lease_age, holds, workerVars, recovery, requeue_age>>

ReceiveTick ==
    /\ recovery = "waiting"
    /\ ticker = "fired"
    /\ recovery' = "requeueing"
    /\ ticker' = "running"
    /\ UNCHANGED <<status, lease_age, holds, workerVars, requeue_age, ticker_age>>

\* (mutant) the recovery waits twice the processing timeout
VeryStale(d) == status = "processing" /\ lease_age > 2 * ProcessingTimeout + d

\* status = 'processing' AND updated_at < CURRENT_TIMESTAMP - interval, in a
\* transaction that began d ago
Stale(d) == status = "processing" /\ lease_age > ProcessingTimeout + d

RequeueStaleUpdates ==
    /\ recovery = "requeueing"
    /\ recovery' = "requeued"
    /\ \E d \in 0..requeue_age :
          \/ Stale(d) /\ status' = "pending" /\ lease_age' = 0 /\ holds' = FALSE
          \/ ~Stale(d) /\ UNCHANGED <<status, lease_age, holds>>
    /\ UNCHANGED <<workerVars, requeue_age, ticker, ticker_age>>

\* Run creates the ticker after its first round.
RequeueReply ==
    /\ recovery = "requeued"
    /\ recovery' = "waiting"
    /\ requeue_age' = 0
    /\ ticker' = IF ticker = "off" THEN "running" ELSE ticker
    /\ UNCHANGED <<status, lease_age, holds, workerVars, ticker_age>>

WorkerStep ==
    \/ CallTake \/ TakeCommit \/ TakeNothing \/ TakeReply
    \/ AttemptFails \/ Retry \/ FetchEnds \/ Finish \/ LoseClaim

RecoveryStep ==
    \/ TickerFires \/ ReceiveTick
    \/ RequeueStaleUpdates \/ RequeueReply

Next ==
    \/ Tick
    \/ (WorkerStep \/ Submit \/ RecoveryStep) /\ UNCHANGED DatabaseQueryTimeout

Spec == Init /\ [][Next]_vars

-----------------------------------------------------------------------------
(* Properties *)

\* While FetchRate runs, retries and waits included, the lease it works under
\* cannot be recovered: what Config.Validate is there to guarantee.  The lease
\* began before the reply to TakeNextPendingUpdate, for which there is the safety
\* margin, if it is no shorter than DATABASE_QUERY_TIMEOUT.
LeaseOutlivesFetch ==
    DatabaseQueryTimeout <= SafetyMargin /\ holds /\ phase \in {"fetching", "backoff"}
        => lease_age <= ProcessingTimeout

\* The oldest lease that a round of the recovery leaves or a worker takes: the
\* validation does not say that a statement is shorter than the processing timeout.
OldestLeft ==
    IF DatabaseQueryTimeout > ProcessingTimeout THEN DatabaseQueryTimeout
    ELSE ProcessingTimeout

\* One interval and two statements beyond it.
LeaseBound == OldestLeft + RecoveryInterval + 2 * DatabaseQueryTimeout

\* An update nobody finishes is back in the queue in bounded time, as long as
\* the statements of the recovery worker succeed: the reply to the round that
\* found it just within its timeout, the interval, and the next round.
RecoveryIsTimely ==
    status = "processing" => lease_age <= LeaseBound

\* A requeue takes an update away from the worker that is busy with it.
TakenFromWorker ==
    /\ recovery = "requeueing" /\ recovery' = "requeued"
    /\ holds /\ ~holds'

\* The two statements the lease also covers fit beside the fetch: the reply to
\* TakeNextPendingUpdate and the finishing statement.
StatementsFit == 2 * DatabaseQueryTimeout + MaxFetchTime <= ProcessingTimeout

\* Where PROCESSING_TIMEOUT leaves room for the statements as well, a worker that
\* stays within its timeouts never loses its lease, to the last unit of time.
FittingIsNotRecovered == [][StatementsFit => ~TakenFromWorker]_vars

\* README.md: PROCESSING_TIMEOUT must cover the attempts, the delays and the
\* safety margin so that active tasks are not recovered prematurely.  The
\* validation accepts configurations where they are.
ActiveIsNotRecovered == [][~TakenFromWorker]_vars
=============================================================================
