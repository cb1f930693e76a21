---------------------------- MODULE WorkerBackoff ----------------------------
(***************************************************************************)
(* How long a quote update worker waits between two rounds of Run: not at  *)
(* all after an update, the poll interval without one, and longer and      *)
(* longer while PostgreSQL is away.  A round is one call of processNext,   *)
(* abstracted to how it ends.                                              *)
(***************************************************************************)
EXTENDS Durations

CONSTANTS
    PollIntervals,   \* values of WORKER_POLL_INTERVAL to configure
    maxWorkerInfrastructureBackoff,
    MaxFailures      \* bound: failures in a row

ASSUME PollIntervalAssumption == PollIntervals \subseteq 1..MaxDuration
ASSUME BackoffAssumption ==
    /\ maxWorkerInfrastructureBackoff \in 1..MaxDuration
    /\ MaxFailures \in Nat

VARIABLES
    pollInterval,            \* configuration, fixed
    infrastructureFailures,  \* the variable of Run
    pc,                      \* in processNext or in waitForNextPoll
    delay,                   \* how long the last wait is
    outage                   \* history: rounds in a row PostgreSQL spoilt

vars == <<pollInterval, infrastructureFailures, pc, delay, outage>>

\* The type invariant.  time.NewTimer fires at once for a negative delay, so
\* there must be none.
TypeOK ==
    /\ pollInterval \in PollIntervals
    /\ infrastructureFailures \in 0..MaxFailures
    /\ pc \in {"processing", "waiting"}
    /\ delay \in 0..MaxDuration
    /\ outage \in 0..MaxFailures

Init ==
    /\ pollInterval \in PollIntervals
    /\ infrastructureFailures = 0
    /\ pc = "processing"
    /\ delay = 0
    /\ outage = 0

Limit ==
    IF pollInterval > maxWorkerInfrastructureBackoff THEN pollInterval
    ELSE maxWorkerInfrastructureBackoff

\* (mutant) the ceiling is doubled up to the limit without a look ahead
CeilingLateCap(failures) ==
    LET ceiling[k \in 1..failures] ==
            IF k = 1 THEN pollInterval
            ELSE IF ceiling[k - 1] >= Limit THEN ceiling[k - 1]
            ELSE Duration(2 * ceiling[k - 1])
    IN  ceiling[failures]

\* ceiling[k] is the variable after k - 1 rounds of the loop.
Ceiling(failures) ==
    LET ceiling[k \in 1..failures] ==
            IF k = 1 THEN pollInterval
            ELSE IF ceiling[k - 1] >= Limit THEN ceiling[k - 1]
            ELSE IF ceiling[k - 1] > Limit \div 2 THEN Limit
            ELSE Duration(2 * ceiling[k - 1])
    IN  ceiling[failures]

\* (mutant) full jitter
FullJitter(failures) == 0..Ceiling(failures)

\* (mutant) no jitter
NoJitter(failures) == {Ceiling(failures)}

\* (mutant) the jitter comes on top of the ceiling
JitterOnTop(failures) ==
    Ceiling(failures)..(Ceiling(failures) + Ceiling(failures) \div 2)

\* The values workerInfrastructureBackoff can return after failures > 0.
workerInfrastructureBackoff(failures) ==
    (Ceiling(failures) \div 2)..Ceiling(failures)

-----------------------------------------------------------------------------
Wait(d) == pc' = "waiting" /\ delay' = d

\* CompleteUpdate or FailUpdate ran, stale lease or not, and found no reason to
\* wait.
UpdateProcessed ==
    /\ pc = "processing"
    /\ infrastructureFailures' = 0
    /\ outage' = 0
    /\ UNCHANGED <<pollInterval, pc, delay>>

\* There is no update.
NothingFound ==
    /\ pc = "processing"
    /\ infrastructureFailures' = 0
    /\ outage' = 0
    /\ Wait(pollInterval)
    /\ UNCHANGED pollInterval

\* (mutant) the counter goes on after a failure of the provider
ProviderFailedStillCounting ==
    /\ pc = "processing"
    /\ outage' = 0
    /\ Wait(pollInterval)
    /\ UNCHANGED <<pollInterval, infrastructureFailures>>

\* The update is marked as failed: an error, but not of the infrastructure.
ProviderFailed ==
    /\ pc = "processing"
    /\ infrastructureFailures' = 0
    /\ outage' = 0
    /\ Wait(pollInterval)
    /\ UNCHANGED pollInterval

\* Taking, completing or failing an update returns an error.
InfrastructureFailed ==
    /\ pc = "processing"
    /\ outage < MaxFailures
    /\ infrastructureFailures < MaxFailures
    /\ infrastructureFailures' = infrastructureFailures + 1
    /\ outage' = outage + 1
    /\ \E d \in workerInfrastructureBackoff(infrastructureFailures') : Wait(d)
    /\ UNCHANGED pollInterval

waitForNextPoll ==
    /\ pc = "waiting"
    /\ pc' = "processing"
    /\ UNCHANGED <<pollInterval, infrastructureFailures, delay, outage>>

Next ==
    \/ UpdateProcessed
    \/ NothingFound
    \/ ProviderFailed
    \/ InfrastructureFailed
    \/ waitForNextPoll

Spec == Init /\ [][Next]_vars

-----------------------------------------------------------------------------
\* The n-th failure in a row waits for the poll interval doubled n - 1 times,
\* up to the limit, and at least half of it, without overflow; every round that
\* PostgreSQL did not spoil starts the sequence over.
Doubled(n) ==
    LET doubled[k \in 1..n] == IF k = 1 THEN pollInterval ELSE 2 * doubled[k - 1]
    IN  doubled[n]

Exponential(n) == IF Doubled(n) > Limit THEN Limit ELSE Doubled(n)

BackoffIsCappedExponential ==
    pc = "waiting" =>
        IF outage = 0 THEN delay = pollInterval
        ELSE delay \in (Exponential(outage) \div 2)..Exponential(outage)

\* Workers that fail together do not come back together: their delays are drawn
\* from an interval of at least half the ceiling, at the limit too.
JitterSpreads ==
    outage > 0 =>
        LET delays == workerInfrastructureBackoff(infrastructureFailures)
        IN  \E d, e \in delays : e > d /\ 2 * (e - d) >= Exponential(outage)

\* While an outage goes on, jitter never makes a worker more eager than it was,
\* up to half of the limit.
BackoffNeverShrinks ==
    [][outage' > outage /\ outage > 0 =>
          delay' >= (IF delay < Limit \div 2 THEN delay ELSE Limit \div 2)]_vars
=============================================================================
