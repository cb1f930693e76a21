-------------------------- MODULE FrankfurterClient --------------------------
(***************************************************************************)
(* One call of Client.FetchRate: attempts, the classification of what      *)
(* comes back, the waits between attempts, and cancellation at any moment. *)
(*                                                                         *)
(* The call is sending (about to call httpClient.Do), has sent a request,  *)
(* is waiting in waitForRetry, or has returned.  elapsed is the time since *)
(* FetchRate was called.  notBefore and oversized are history variables:   *)
(* the earliest time the server last asked the next request to come at,    *)
(* and whether it did so with a number of more than 64 bits.               *)
(***************************************************************************)
EXTENDS RetryPolicy

CONSTANTS
    Policies,            \* retry policies to configure
    Headers,             \* Retry-After headers the server sends
    FrankfurterTimeout,  \* http.Client.Timeout
    ProcessingTimeout,
    SafetyMargin

ASSUME ClientAssumption ==
    /\ FrankfurterTimeout \in 1..MaxDuration
    /\ ProcessingTimeout \in 0..MaxDuration
    /\ SafetyMargin \in 0..MaxDuration
    /\ Headers \subseteq RetryAfterHeader

VARIABLES
    policy,     \* configuration, fixed
    phase,
    attempt,
    delay,      \* of the wait
    live,       \* the context is not done
    outcome,
    final,      \* the last response must not be retried
    elapsed,
    notBefore,
    oversized

history == <<elapsed, notBefore, oversized>>

vars == <<policy, phase, attempt, delay, live, outcome, final, history>>

\* The type invariant.
TypeOK ==
    /\ policy \in Policies
    /\ phase \in {"sending", "sent", "waiting", "returned"}
    /\ attempt \in 1..policy.MaxAttempts
    /\ delay \in 0..policy.MaxDelay
    /\ live \in BOOLEAN
    /\ outcome \in {"none", "snapshot", "error", "canceled"}
    /\ final \in BOOLEAN
    /\ elapsed \in Nat
    /\ notBefore \in Nat
    /\ oversized \in BOOLEAN

\* run validates the configuration before it creates the client.
Init ==
    /\ policy \in {p \in Policies :
          ValidPolicy(p) /\ CoversRetries(ProcessingTimeout, SafetyMargin, p, FrankfurterTimeout)}
    /\ phase = "sending" /\ attempt = 1 /\ delay = 0
    /\ live = TRUE /\ outcome = "none" /\ final = FALSE
    /\ elapsed = 0 /\ notBefore = 0 /\ oversized = FALSE

Return(o) ==
    /\ phase' = "returned"
    /\ outcome' = o
    /\ UNCHANGED <<policy, attempt, delay, live>>

\* Time between request and answer, or until the HTTP client gives up.
AttemptTakesTime == \E t \in {0, FrankfurterTimeout} : elapsed' = elapsed + t

Send ==
    /\ phase = "sending"
    /\ live
    /\ phase' = "sent"
    /\ UNCHANGED <<policy, attempt, delay, live, outcome, final, history>>

\* Do returns at once if the context is done, and that is not retried.
SendCanceled ==
    /\ phase \in {"sending", "sent"}
    /\ ~live
    /\ Return("canceled")
    /\ UNCHANGED <<final, history>>

ReceiveSnapshot ==
    /\ phase = "sent"
    /\ Return("snapshot")
    /\ AttemptTakesTime
    /\ UNCHANGED <<final, notBefore, oversized>>

\* Another status, a body that is too large, invalid or of another pair, or a
\* timeout while it is read.
ReceiveFinalError ==
    /\ phase = "sent"
    /\ Return("error")
    /\ AttemptTakesTime
    /\ final' = TRUE
    /\ UNCHANGED <<notBefore, oversized>>

\* How long the server wants the client to wait, in exact arithmetic and
\* whatever the client makes of the header.
Asked(header) ==
    IF header.kind \notin {"seconds", "date"} \/ header.value < 0 THEN 0
    ELSE IF header.kind = "seconds" THEN header.value * Second
    ELSE header.value

Demand(header) ==
    /\ notBefore' = elapsed' + Asked(header)
    /\ oversized' = Oversized(header)

\* (mutant) one attempt too many
ReceiveRetryableErrorAtLimit(header) ==
    /\ phase = "sent"
    /\ AttemptTakesTime
    /\ Demand(header)
    /\ final' = FALSE
    /\ phase' = "waiting"
    /\ attempt <= policy.MaxAttempts
    /\ delay' \in RetryDelays(policy, attempt, header)
    /\ UNCHANGED <<policy, attempt, live, outcome>>

\* A transport error, an interrupted body, 429 or 5xx.
ReceiveRetryableError(header) ==
    /\ phase = "sent"
    /\ AttemptTakesTime
    /\ Demand(header)
    /\ final' = FALSE
    /\ \/ /\ attempt = policy.MaxAttempts \/ RetryDelays(policy, attempt, header) = {}
          /\ Return("error")
       \/ /\ attempt < policy.MaxAttempts
          /\ phase' = "waiting"
          /\ delay' \in RetryDelays(policy, attempt, header)
          /\ UNCHANGED <<policy, attempt, live, outcome>>

\* waitForRetry: the timer fires.
Retry ==
    /\ phase = "waiting"
    /\ phase' = "sending"
    /\ attempt' = attempt + 1
    /\ elapsed' = elapsed + delay
    /\ UNCHANGED <<policy, delay, live, outcome, final, notBefore, oversized>>

WaitCanceled ==
    /\ phase = "waiting"
    /\ ~live
    /\ Return("canceled")
    /\ UNCHANGED <<final, history>>

\* The instance is told to stop.
Cancel ==
    /\ phase # "returned"
    /\ live
    /\ live' = FALSE
    /\ UNCHANGED <<policy, phase, attempt, delay, outcome, final, history>>

Next ==
    \/ Send \/ SendCanceled
    \/ ReceiveSnapshot \/ ReceiveFinalError
    \/ \E header \in Headers : ReceiveRetryableError(header)
    \/ Retry \/ WaitCanceled
    \/ Cancel

Spec == Init /\ [][Next]_vars

-----------------------------------------------------------------------------
\* No request is repeated before the time the server gave in Retry-After, seconds
\* or date, in the past, beyond the largest duration or exactly at the maximum
\* delay: as long as the number has 64 bits.
RetryAfterIsHonoured ==
    [][phase = "sending" /\ phase' = "sent" /\ ~oversized => elapsed >= notBefore]_vars

\* README.md says it of every Retry-After: the service does not repeat a request
\* before the time given, and fails the update if that is too far away.
AnyRetryAfterIsHonoured ==
    [][phase = "sending" /\ phase' = "sent" => elapsed >= notBefore]_vars

\* Every configuration the validation accepts leaves the lease its margin:
\* attempts and waits together never exceed the rest of PROCESSING_TIMEOUT.
FetchFitsLease == elapsed + SafetyMargin <= ProcessingTimeout

\* FetchRate gives up for a reason: the answer is final, no attempt is left or
\* the server wants more time than the maximum; and it reports a cancellation
\* only when there was one.  QuoteUpdateWorkers turns the former into a failed
\* update.
GivesUpForAReason ==
    /\ outcome = "error" =>
          \/ final
          \/ attempt = policy.MaxAttempts
          \/ ~oversized /\ notBefore - elapsed > policy.MaxDelay
    /\ outcome = "canceled" => ~live

\* The limit of the jitter doubles with each attempt up to the maximum, without
\* overflow.
BackoffIsExponential ==
    LET exact == policy.InitialDelay * 2^(attempt - 1)
    IN  exponentialBackoffLimit(policy, attempt) =
            IF exact > policy.MaxDelay THEN policy.MaxDelay ELSE exact
=============================================================================
