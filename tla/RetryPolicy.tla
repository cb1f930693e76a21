----------------------------- MODULE RetryPolicy -----------------------------
(***************************************************************************)
(* The arithmetic of internal/provider/frankfurter/retry.go and of the     *)
(* check of PROCESSING_TIMEOUT in internal/config.                         *)
(***************************************************************************)
EXTENDS Durations

CONSTANT Second  \* the Duration of a second

ASSUME SecondAssumption == Second \in 1..MaxDuration

\* RetryPolicy as New and Config.Validate accept it.
ValidPolicy(policy) ==
    /\ policy.MaxAttempts \in 1..10
    /\ policy.InitialDelay \in 0..policy.MaxDelay
    /\ policy.MaxDelay \in 1..MaxDuration

-----------------------------------------------------------------------------
\* (mutant) the delay is doubled before it is compared with the maximum
exponentialBackoffLimitLateCap(policy, attempt) ==
    LET delay[k \in 1..attempt] ==
            IF k = 1 THEN policy.InitialDelay ELSE Duration(2 * delay[k - 1])
    IN  IF delay[attempt] > policy.MaxDelay THEN policy.MaxDelay ELSE delay[attempt]

\* delay[k] is the variable delay after k - 1 rounds of the loop; the early
\* return of MaxDelay is a value that stays.
exponentialBackoffLimit(policy, attempt) ==
    LET delay[k \in 1..attempt] ==
            IF k = 1 THEN policy.InitialDelay
            ELSE IF delay[k - 1] > policy.MaxDelay \div 2 THEN policy.MaxDelay
            ELSE Duration(2 * delay[k - 1])
    IN  IF policy.InitialDelay <= 0 THEN 0
        ELSE IF delay[attempt] > policy.MaxDelay THEN policy.MaxDelay
        ELSE delay[attempt]

\* A Retry-After header: absent, a number of seconds, an HTTP-date (given by
\* its distance from now), or something else.
RetryAfterHeader ==
    [kind: {"seconds", "date"}, value: Int] \union [kind: {"absent", "other"}, value: {0}]

\* A number of seconds beyond 64 bits: ParseInt fails with ErrRange, and no date
\* reads like a number.
Oversized(header) == header.kind = "seconds" /\ header.value > MaxDuration

RetryAfterFound(header) ==
    \/ header.kind = "date"
    \/ header.kind = "seconds" /\ header.value >= 0 /\ ~Oversized(header)

\* (mutant) seconds are multiplied without looking at the limit
RetryAfterUnlimited(header) ==
    IF header.kind = "seconds" THEN Duration(header.value * Second)
    ELSE IF header.value < 0 THEN 0
    ELSE IF header.value > MaxDuration THEN MaxDuration
    ELSE header.value

\* parseRetryAfter; time.Time.Sub saturates.
RetryAfter(header) ==
    IF header.kind = "seconds"
    THEN IF header.value > MaxDuration \div Second THEN MaxDuration
         ELSE Duration(header.value * Second)
    ELSE IF header.value < 0 THEN 0
    ELSE IF header.value > MaxDuration THEN MaxDuration
    ELSE header.value

\* (mutant) a delay of exactly the maximum is refused
RetryDelaysBelowMaximum(policy, attempt, header) ==
    LET limit == exponentialBackoffLimit(policy, attempt)
        jitter == IF limit > 0 THEN 0..(limit - 1) ELSE {0}
    IN  IF ~RetryAfterFound(header) THEN jitter
        ELSE IF RetryAfter(header) >= policy.MaxDelay THEN {}
        ELSE {IF RetryAfter(header) > d THEN RetryAfter(header) ELSE d : d \in jitter}

\* The delays calculateRetryDelay can return; none if it returns an error.
\* rand.N(limit) is any number below the limit.
RetryDelays(policy, attempt, header) ==
    LET limit == exponentialBackoffLimit(policy, attempt)
        jitter == IF limit > 0 THEN 0..(limit - 1) ELSE {0}
    IN  IF ~RetryAfterFound(header) THEN jitter
        ELSE IF RetryAfter(header) > policy.MaxDelay THEN {}
        ELSE {IF RetryAfter(header) > d THEN RetryAfter(header) ELSE d : d \in jitter}

-----------------------------------------------------------------------------
\* (mutant) the requirement is added up, and may overflow
CoversRetriesBySum(timeout, margin, policy, attemptTimeout) ==
    timeout >= Duration(margin + policy.MaxAttempts * attemptTimeout
                           + (policy.MaxAttempts - 1) * policy.MaxDelay)

\* processingTimeoutCoversRetries; remaining[k] is the variable after k rounds
\* of the loop, -1 once the function has returned false.
CoversRetries(timeout, margin, policy, attemptTimeout) ==
    LET Less(remaining, d) ==
            IF remaining = -1 \/ remaining < d THEN -1 ELSE remaining - d
        remaining[k \in 0..policy.MaxAttempts] ==
            IF k = 0 THEN Less(timeout, margin)
            ELSE LET left == Less(remaining[k - 1], attemptTimeout)
                 IN  IF k < policy.MaxAttempts THEN Less(left, policy.MaxDelay) ELSE left
    IN  remaining[policy.MaxAttempts] # -1
=============================================================================
