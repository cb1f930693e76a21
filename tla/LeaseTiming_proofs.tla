------------------------- MODULE LeaseTiming_proofs -------------------------
(***************************************************************************)
(* The bounds of LeaseTiming for every configuration that Config.Validate  *)
(* accepts, proved from one inductive invariant: how much of its lease a   *)
(* worker can have used up in each of its calls, and how old the lease of  *)
(* an update can be at each point of the recovery worker's loop.           *)
(***************************************************************************)
EXTENDS LeaseTiming, TLAPS

\* An attempt and the wait after it.
Round == FrankfurterTimeout + FrankfurterMaxDelay

\* The longest that what comes before attempt k of FetchRate takes.
Spent(k) == (k - 1) * Round

\* While a worker's claim is the row's latest, the worker is at work, and the
\* lease is as old as the calls so far at most: the take that committed it, the
\* attempts and waits, the finishing statement.
WorkIsOnTime ==
    holds =>
        \/ phase = "taken" /\ lease_age <= call_age
        \/ phase = "fetching" /\ lease_age <= DatabaseQueryTimeout + Spent(attempt) + call_age
        \/ phase = "backoff" /\ lease_age <= DatabaseQueryTimeout + Spent(attempt) + FrankfurterTimeout + call_age
        \/ phase = "finishing" /\ lease_age <= DatabaseQueryTimeout + MaxFetchTime + call_age

\* FetchRate counts its attempts from 1, and waits only if one is left.
AttemptsCount ==
    /\ phase = "fetching" => attempt >= 1
    /\ phase = "backoff" => attempt \in 1..(FrankfurterMaxAttempts - 1)

\* The ticker runs from the first round on, and a round's time with the round.
TickerState ==
    /\ ticker = "off" => recovery # "waiting" /\ ticker_age = 0
    /\ recovery = "waiting" => requeue_age = 0

\* A round leaves no lease that was older than the processing timeout when its
\* statement began; its reply takes a statement, and the next tick an interval.
RoundsAreOnTime ==
    status = "processing" =>
        /\ recovery = "requeued" \/ ticker = "off" =>
              lease_age <= OldestLeft + requeue_age
        /\ recovery = "waiting" /\ ticker = "running" =>
              lease_age <= OldestLeft + DatabaseQueryTimeout + ticker_age
        /\ lease_age <= OldestLeft + DatabaseQueryTimeout + RecoveryInterval + requeue_age

IndInv ==
    /\ TypeOK
    /\ AttemptsCount
    /\ TickerState
    /\ WorkIsOnTime
    /\ RoundsAreOnTime

-----------------------------------------------------------------------------
(* The constants *)

\* The configuration is made of numbers.
LEMMA ConfigIsNatural ==
    /\ FrankfurterTimeout \in Nat /\ FrankfurterMaxDelay \in Nat
    /\ FrankfurterMaxAttempts \in 1..10
    /\ RecoveryInterval \in Nat \ {0} /\ ProcessingTimeout \in Nat /\ SafetyMargin \in Nat
    /\ Round \in Nat
    /\ \A q \in QueryTimeouts : q \in Nat
  BY ValidConfig DEF Round

\* Products of numbers are monotone.
LEMMA MoreRounds ==
    ASSUME NEW a \in Nat, NEW b \in Nat, a <= b, NEW r \in Nat
    PROVE  a * r <= b * r
<1>1. b - a \in Nat /\ (b - a) * r \in Nat
  OBVIOUS
<1>2. b * r = a * r + (b - a) * r
  OBVIOUS
<1>3. a * r \in Nat /\ b * r \in Nat
  OBVIOUS
<1> QED  BY <1>1, <1>2, <1>3

\* What is spent before an attempt: nothing before the first, a round more
\* before each other one, and never so much that the attempt does not fit into
\* MaxFetchTime.
LEMMA SpentGrows ==
    /\ Spent(1) = 0
    /\ \A k \in 1..FrankfurterMaxAttempts :
          /\ Spent(k) \in Nat
          /\ Spent(k + 1) = Spent(k) + Round
          /\ Spent(k) + FrankfurterTimeout <= MaxFetchTime
    /\ MaxFetchTime \in Nat
<1> USE ConfigIsNatural
<1>1. Spent(1) = 0
  BY DEF Spent
<1>2. MaxFetchTime = Spent(FrankfurterMaxAttempts) + FrankfurterTimeout
  BY DEF MaxFetchTime, Spent, Round
<1>3. ASSUME NEW k \in 1..FrankfurterMaxAttempts
      PROVE  /\ Spent(k) \in Nat
             /\ Spent(k + 1) = Spent(k) + Round
             /\ Spent(k) <= Spent(FrankfurterMaxAttempts)
  <2>1. k - 1 \in Nat /\ FrankfurterMaxAttempts - 1 \in Nat /\ k - 1 <= FrankfurterMaxAttempts - 1
    OBVIOUS
  <2>2. Spent(k) \in Nat
    BY <2>1 DEF Spent
  <2>3. Spent(k + 1) = Spent(k) + Round
    BY <2>1 DEF Spent
  <2>4. Spent(k) <= Spent(FrankfurterMaxAttempts)
    BY <2>1, MoreRounds DEF Spent
  <2> QED  BY <2>2, <2>3, <2>4
<1>4. Spent(FrankfurterMaxAttempts) \in Nat
  BY <1>3
<1> QED  BY <1>1, <1>2, <1>3, <1>4

\* Config.Validate leaves the lease the margin beside the whole fetch.
LEMMA FetchFits == SafetyMargin + MaxFetchTime <= ProcessingTimeout
  BY ValidConfig DEF processingTimeoutCoversRetries

\* The time a call may take is a number.
LEMMA CallLimitIsNatural ==
    ASSUME DatabaseQueryTimeout \in QueryTimeouts, NEW p \in Phase
    PROVE  CallLimit(p) \in Nat
  BY ConfigIsNatural DEF CallLimit, Phase, RetryDelayLimit

-----------------------------------------------------------------------------
(* The invariant *)

\* The invariant holds when the instance starts.
LEMMA InitKeepsInv == Init => IndInv
<1> SUFFICES ASSUME Init PROVE IndInv
  OBVIOUS
<1> USE ConfigIsNatural DEF Init
<1>1. TypeOK
  <2>1. CallLimit(phase) = 0
    BY DEF CallLimit
  <2>2. lease_age \in Nat /\ status \in {"pending", "processing", "decided"}
    OBVIOUS
  <2>3. requeue_age \in 0..DatabaseQueryTimeout /\ ticker_age \in 0..RecoveryInterval
    OBVIOUS
  <2>4. attempt \in 0..FrankfurterMaxAttempts /\ call_age \in Nat /\ call_age <= CallLimit(phase)
    BY <2>1
  <2> QED  BY <2>2, <2>3, <2>4 DEF TypeOK, Phase, Recovery
<1>2. AttemptsCount /\ TickerState /\ WorkIsOnTime
  BY DEF AttemptsCount, TickerState, WorkIsOnTime
<1>3. RoundsAreOnTime
  BY DEF RoundsAreOnTime, OldestLeft
<1> QED  BY <1>1, <1>2, <1>3 DEF IndInv

\* Time passes: every age grows together with the age of the lease.
LEMMA TickKeepsInv ==
    ASSUME IndInv, Tick
    PROVE  IndInv'
<1> USE ConfigIsNatural DEF IndInv, Tick, NothingIsDue
<1>1. TypeOK'
  <2>1. CallLimit(phase) \in Nat /\ CallLimit(phase)' = CallLimit(phase)
    BY CallLimitIsNatural DEF TypeOK, CallLimit
  <2>2. call_age' \in Nat /\ call_age' <= CallLimit(phase)'
    BY <2>1 DEF TypeOK
  <2> QED  BY <2>2 DEF TypeOK, TickerState
<1>2. AttemptsCount' /\ TickerState'
  BY DEF AttemptsCount, TickerState
<1>3. WorkIsOnTime'
  <2>1. phase = "fetching" \/ phase = "backoff" => Spent(attempt) \in Nat
    BY SpentGrows DEF TypeOK, AttemptsCount
  <2> QED  BY <2>1, SpentGrows DEF TypeOK, WorkIsOnTime
<1>4. RoundsAreOnTime'
  BY DEF TypeOK, TickerState, RoundsAreOnTime, OldestLeft, Recovery
<1> QED  BY <1>1, <1>2, <1>3, <1>4

\* A step of the worker: it moves to its next call, and the lease is as old as
\* before or begins.
LEMMA WorkerKeepsInv ==
    ASSUME IndInv, WorkerStep, UNCHANGED DatabaseQueryTimeout
    PROVE  IndInv'
<1> USE ConfigIsNatural DEF IndInv, recoveryVars, Enter
<1>1. CASE CallTake
  <2>1. TypeOK'
    BY <1>1 DEF CallTake, TypeOK, CallLimit, Phase
  <2>2. AttemptsCount' /\ TickerState' /\ WorkIsOnTime'
    BY <1>1 DEF CallTake, TypeOK, AttemptsCount, TickerState, WorkIsOnTime
  <2>3. RoundsAreOnTime'
    BY <1>1 DEF CallTake, RoundsAreOnTime, OldestLeft
  <2> QED  BY <2>1, <2>2, <2>3
<1>2. CASE TakeCommit
  <2>1. TypeOK'
    BY <1>2 DEF TakeCommit, TypeOK, CallLimit, Phase
  <2>2. AttemptsCount' /\ TickerState' /\ WorkIsOnTime'
    BY <1>2 DEF TakeCommit, TypeOK, AttemptsCount, TickerState, WorkIsOnTime
  <2>3. RoundsAreOnTime'
    <3>1. lease_age' \in Nat /\ lease_age' <= DatabaseQueryTimeout
      BY <1>2 DEF TakeCommit, TypeOK, CallLimit
    <3> QED  BY <1>2, <3>1 DEF TakeCommit, TypeOK, RoundsAreOnTime, OldestLeft, Recovery
  <2> QED  BY <2>1, <2>2, <2>3
<1>3. CASE TakeNothing
  <2>1. TypeOK'
    BY <1>3 DEF TakeNothing, TypeOK, CallLimit, Phase
  <2>2. AttemptsCount' /\ TickerState' /\ WorkIsOnTime'
    BY <1>3 DEF TakeNothing, TypeOK, AttemptsCount, TickerState, WorkIsOnTime
  <2>3. RoundsAreOnTime'
    BY <1>3 DEF TakeNothing, RoundsAreOnTime, OldestLeft
  <2> QED  BY <2>1, <2>2, <2>3
<1>4. CASE TakeReply
  <2>1. TypeOK'
    BY <1>4 DEF TakeReply, TypeOK, CallLimit, Phase
  <2>2. AttemptsCount' /\ TickerState'
    BY <1>4 DEF TakeReply, TypeOK, AttemptsCount, TickerState
  <2>3. WorkIsOnTime'
    BY <1>4, SpentGrows DEF TakeReply, TypeOK, CallLimit, WorkIsOnTime
  <2>4. RoundsAreOnTime'
    BY <1>4 DEF TakeReply, RoundsAreOnTime, OldestLeft
  <2> QED  BY <2>1, <2>2, <2>3, <2>4
<1>5. CASE AttemptFails
  <2>1. TypeOK'
    BY <1>5 DEF AttemptFails, TypeOK, CallLimit, Phase, RetryDelayLimit
  <2>2. AttemptsCount' /\ TickerState'
    BY <1>5 DEF AttemptFails, TypeOK, AttemptsCount, TickerState
  <2>3. WorkIsOnTime'
    <3>1. Spent(attempt) \in Nat
      BY <1>5, SpentGrows DEF AttemptFails, TypeOK, AttemptsCount
    <3> QED  BY <1>5, <3>1 DEF AttemptFails, TypeOK, CallLimit, WorkIsOnTime
  <2>4. RoundsAreOnTime'
    BY <1>5 DEF AttemptFails, RoundsAreOnTime, OldestLeft
  <2> QED  BY <2>1, <2>2, <2>3, <2>4
<1>6. CASE Retry
  <2>1. TypeOK'
    BY <1>6 DEF Retry, TypeOK, AttemptsCount, CallLimit, Phase
  <2>2. AttemptsCount' /\ TickerState'
    BY <1>6 DEF Retry, TypeOK, AttemptsCount, TickerState
  <2>3. WorkIsOnTime'
    <3>1. /\ Spent(attempt) \in Nat
          /\ Spent(attempt + 1) = Spent(attempt) + FrankfurterTimeout + FrankfurterMaxDelay
      BY <1>6, SpentGrows DEF Retry, TypeOK, AttemptsCount, Round
    <3> QED  BY <1>6, <3>1 DEF Retry, TypeOK, CallLimit, RetryDelayLimit, WorkIsOnTime
  <2>4. RoundsAreOnTime'
    BY <1>6 DEF Retry, RoundsAreOnTime, OldestLeft
  <2> QED  BY <2>1, <2>2, <2>3, <2>4
<1>7. CASE FetchEnds
  <2>1. TypeOK'
    BY <1>7 DEF FetchEnds, TypeOK, CallLimit, Phase
  <2>2. AttemptsCount' /\ TickerState'
    BY <1>7 DEF FetchEnds, TypeOK, AttemptsCount, TickerState
  <2>3. WorkIsOnTime'
    <3>1. /\ Spent(attempt) \in Nat /\ MaxFetchTime \in Nat
          /\ Spent(attempt) + FrankfurterTimeout <= MaxFetchTime
      BY <1>7, SpentGrows DEF FetchEnds, TypeOK, AttemptsCount
    <3> QED  BY <1>7, <3>1 DEF FetchEnds, TypeOK, CallLimit, WorkIsOnTime
  <2>4. RoundsAreOnTime'
    BY <1>7 DEF FetchEnds, RoundsAreOnTime, OldestLeft
  <2> QED  BY <2>1, <2>2, <2>3, <2>4
<1>8. CASE Finish
  <2>1. TypeOK'
    <3>1. /\ phase' \in Phase /\ attempt' \in 0..FrankfurterMaxAttempts
          /\ call_age' \in Nat /\ call_age' <= CallLimit(phase)'
      BY <1>8 DEF Finish, CallLimit, Phase
    <3>2. status' \in {"pending", "processing", "decided"} /\ lease_age' \in Nat /\ holds' = FALSE
      BY <1>8 DEF Finish, TypeOK
    <3> QED  BY <1>8, <3>1, <3>2 DEF Finish, TypeOK
  <2>2. AttemptsCount' /\ TickerState' /\ WorkIsOnTime'
    BY <1>8 DEF Finish, TypeOK, AttemptsCount, TickerState, WorkIsOnTime
  <2>3. RoundsAreOnTime'
    BY <1>8 DEF Finish, TypeOK, RoundsAreOnTime, OldestLeft
  <2> QED  BY <2>1, <2>2, <2>3
<1>9. CASE LoseClaim
  <2>1. TypeOK'
    <3>1. /\ phase' \in Phase /\ attempt' \in 0..FrankfurterMaxAttempts
          /\ call_age' \in Nat /\ call_age' <= CallLimit(phase)'
      BY <1>9 DEF LoseClaim, CallLimit, Phase
    <3> QED  BY <1>9, <3>1 DEF LoseClaim, TypeOK
  <2>2. AttemptsCount' /\ TickerState' /\ WorkIsOnTime'
    BY <1>9 DEF LoseClaim, TypeOK, AttemptsCount, TickerState, WorkIsOnTime
  <2>3. RoundsAreOnTime'
    BY <1>9 DEF LoseClaim, RoundsAreOnTime, OldestLeft
  <2> QED  BY <2>1, <2>2, <2>3
<1> QED  BY <1>1, <1>2, <1>3, <1>4, <1>5, <1>6, <1>7, <1>8, <1>9 DEF WorkerStep

\* A new request takes no time and begins no lease.
LEMMA SubmitKeepsInv ==
    ASSUME IndInv, Submit, UNCHANGED DatabaseQueryTimeout
    PROVE  IndInv'
<1> USE DEF IndInv, Submit, workerVars, recoveryVars
<1>1. TypeOK'
  BY DEF TypeOK, CallLimit
<1>2. AttemptsCount' /\ TickerState' /\ WorkIsOnTime' /\ RoundsAreOnTime'
  BY DEF AttemptsCount, TickerState, WorkIsOnTime, RoundsAreOnTime, OldestLeft
<1> QED  BY <1>1, <1>2

\* A step of the recovery worker: each round begins where the ticker or the
\* start of the instance puts it, and ends with no lease beyond the timeout.
LEMMA RecoveryKeepsInv ==
    ASSUME IndInv, RecoveryStep, UNCHANGED DatabaseQueryTimeout
    PROVE  IndInv'
<1> USE ConfigIsNatural DEF IndInv, workerVars
<1>1. CASE TickerFires
  <2>1. TypeOK'
    BY <1>1 DEF TickerFires, TypeOK, CallLimit
  <2>2. AttemptsCount' /\ TickerState' /\ WorkIsOnTime'
    BY <1>1 DEF TickerFires, AttemptsCount, TickerState, WorkIsOnTime
  <2>3. RoundsAreOnTime'
    BY <1>1 DEF TickerFires, TypeOK, TickerState, RoundsAreOnTime, OldestLeft, Recovery
  <2> QED  BY <2>1, <2>2, <2>3
<1>2. CASE ReceiveTick
  <2>1. TypeOK'
    BY <1>2 DEF ReceiveTick, TypeOK, CallLimit, Recovery
  <2>2. AttemptsCount' /\ TickerState' /\ WorkIsOnTime'
    BY <1>2 DEF ReceiveTick, AttemptsCount, TickerState, WorkIsOnTime
  <2>3. RoundsAreOnTime'
    BY <1>2 DEF ReceiveTick, TypeOK, TickerState, RoundsAreOnTime, OldestLeft
  <2> QED  BY <2>1, <2>2, <2>3
<1>3. CASE RequeueStaleUpdates
  <2>1. TypeOK'
    <3>1. call_age' <= CallLimit(phase)'
      BY <1>3 DEF RequeueStaleUpdates, TypeOK, CallLimit
    <3>2. status' \in {"pending", "processing", "decided"} /\ lease_age' \in Nat
      BY <1>3 DEF RequeueStaleUpdates, TypeOK
    <3>3. holds' \in BOOLEAN /\ (holds' => status' = "processing")
      <4>1. (holds' = FALSE) \/ (holds' = holds /\ status' = status)
        BY <1>3 DEF RequeueStaleUpdates
      <4>2. holds \in BOOLEAN /\ (holds => status = "processing")
        BY DEF TypeOK
      <4>3. CASE holds' = FALSE
        BY <4>3
      <4>4. CASE holds' = holds /\ status' = status
        BY <4>2, <4>4
      <4> QED  BY <4>1, <4>3, <4>4
    <3> QED  BY <1>3, <3>1, <3>2, <3>3 DEF RequeueStaleUpdates, TypeOK, Recovery
  <2>2. AttemptsCount' /\ TickerState' /\ WorkIsOnTime'
    BY <1>3 DEF RequeueStaleUpdates, AttemptsCount, TickerState, WorkIsOnTime
  <2>3. RoundsAreOnTime'
    BY <1>3 DEF RequeueStaleUpdates, Stale, TypeOK, RoundsAreOnTime, OldestLeft
  <2> QED  BY <2>1, <2>2, <2>3
<1>4. CASE RequeueReply
  <2>1. TypeOK'
    BY <1>4 DEF RequeueReply, TypeOK, CallLimit, Recovery
  <2>2. AttemptsCount' /\ TickerState' /\ WorkIsOnTime'
    BY <1>4 DEF RequeueReply, AttemptsCount, TickerState, WorkIsOnTime
  <2>3. RoundsAreOnTime'
    BY <1>4 DEF RequeueReply, TypeOK, TickerState, RoundsAreOnTime, OldestLeft
  <2> QED  BY <2>1, <2>2, <2>3
<1> QED  BY <1>1, <1>2, <1>3, <1>4 DEF RecoveryStep

\* A step that changes nothing keeps the invariant.
LEMMA StutterKeepsInv ==
    ASSUME IndInv, UNCHANGED vars
    PROVE  IndInv'
  BY DEF vars, workerVars, recoveryVars, IndInv, TypeOK, CallLimit, RetryDelayLimit,
         AttemptsCount, TickerState, WorkIsOnTime, Spent, RoundsAreOnTime, OldestLeft

\* IndInv is an invariant: no call outlives its timeout, and the leases are as
\* old as the calls and rounds that went by.
THEOREM LeaseInvariance == Spec => []IndInv
<1>1. IndInv /\ [Next]_vars => IndInv'
  BY TickKeepsInv, WorkerKeepsInv, SubmitKeepsInv, RecoveryKeepsInv, StutterKeepsInv DEF Next
<1> QED  BY <1>1, InitKeepsInv, PTL DEF Spec

-----------------------------------------------------------------------------
(* What follows from it *)

\* No call of the worker or of the recovery worker outlives its timeout, and no
\* fetch makes more attempts than configured.
THEOREM CallsEndOnTime == Spec => []TypeOK
<1>1. IndInv => TypeOK
  BY DEF IndInv
<1> QED  BY <1>1, LeaseInvariance, PTL

\* For every configuration the validation accepts: the lease of a worker that
\* still holds it outlives FetchRate, if a statement is no longer than the
\* safety margin.
THEOREM LeasesOutliveFetches == Spec => []LeaseOutlivesFetch
<1>1. IndInv => LeaseOutlivesFetch
  <2> SUFFICES ASSUME IndInv, DatabaseQueryTimeout <= SafetyMargin, holds,
                      phase \in {"fetching", "backoff"}
               PROVE  lease_age <= ProcessingTimeout
    BY DEF LeaseOutlivesFetch
  <2> USE ConfigIsNatural, FetchFits DEF IndInv
  <2>1. /\ Spent(attempt) \in Nat /\ MaxFetchTime \in Nat
        /\ Spent(attempt) + FrankfurterTimeout <= MaxFetchTime
    BY SpentGrows DEF TypeOK, AttemptsCount
  <2>2. CASE phase = "fetching"
    BY <2>1, <2>2 DEF TypeOK, WorkIsOnTime, CallLimit
  <2>3. CASE phase = "backoff"
    <3>1. /\ Spent(attempt + 1) = Spent(attempt) + FrankfurterTimeout + FrankfurterMaxDelay
          /\ Spent(attempt + 1) + FrankfurterTimeout <= MaxFetchTime
      BY <2>3, SpentGrows DEF TypeOK, AttemptsCount, Round
    <3> QED  BY <2>1, <2>3, <3>1 DEF TypeOK, WorkIsOnTime, CallLimit, RetryDelayLimit
  <2> QED  BY <2>2, <2>3
<1> QED  BY <1>1, LeaseInvariance, PTL

\* For every configuration: an update that nobody finishes is queued again
\* within the processing timeout (or the query timeout, if that is longer), an
\* interval and two statements.
THEOREM RecoveriesAreTimely == Spec => []RecoveryIsTimely
<1>1. IndInv => RecoveryIsTimely
  BY ConfigIsNatural DEF IndInv, TypeOK, RoundsAreOnTime, OldestLeft, RecoveryIsTimely, LeaseBound
<1> QED  BY <1>1, LeaseInvariance, PTL

\* For every configuration whose processing timeout leaves room for the fetch and
\* two statements: a requeue never takes an update away from a worker that keeps
\* to its timeouts.
THEOREM FittingLeasesAreKept == Spec => FittingIsNotRecovered
<1>1. IndInv /\ [Next]_vars => [StatementsFit => ~TakenFromWorker]_vars
  <2> SUFFICES ASSUME IndInv, [Next]_vars, StatementsFit, TakenFromWorker
               PROVE  FALSE
    OBVIOUS
  <2>1. RequeueStaleUpdates
    BY DEF TakenFromWorker, Next, vars, Tick, WorkerStep, CallTake, TakeCommit, TakeNothing, TakeReply,
           AttemptFails, Retry, FetchEnds, Finish, LoseClaim, Submit, RecoveryStep, TickerFires,
           ReceiveTick, RequeueStaleUpdates, RequeueReply, recoveryVars
  <2>2. lease_age <= 2 * DatabaseQueryTimeout + MaxFetchTime
    <3> USE ConfigIsNatural DEF IndInv, TakenFromWorker
    <3>1. CASE phase = "taken"
      BY <3>1, SpentGrows DEF TypeOK, WorkIsOnTime, CallLimit
    <3>2. CASE phase = "fetching"
      BY <3>2, SpentGrows DEF TypeOK, AttemptsCount, WorkIsOnTime, CallLimit
    <3>3. CASE phase = "backoff"
      <4>1. /\ attempt \in 1..FrankfurterMaxAttempts /\ attempt + 1 \in 1..FrankfurterMaxAttempts
            /\ Spent(attempt + 1) = Spent(attempt) + FrankfurterTimeout + FrankfurterMaxDelay
        BY <3>3, SpentGrows DEF AttemptsCount, Round
      <4>2. /\ Spent(attempt) \in Nat /\ MaxFetchTime \in Nat
            /\ Spent(attempt + 1) + FrankfurterTimeout <= MaxFetchTime
        BY <4>1, SpentGrows
      <4> QED  BY <3>3, <4>1, <4>2 DEF TypeOK, WorkIsOnTime, CallLimit, RetryDelayLimit
    <3>4. CASE phase = "finishing"
      BY <3>4, SpentGrows DEF TypeOK, WorkIsOnTime, CallLimit
    <3> QED  BY <3>1, <3>2, <3>3, <3>4 DEF WorkIsOnTime
  <2>3. lease_age > ProcessingTimeout
    <3>1. PICK d \in 0..requeue_age : Stale(d)
      BY <2>1 DEF RequeueStaleUpdates, TakenFromWorker
    <3> QED  BY <3>1, ConfigIsNatural DEF Stale, IndInv, TypeOK
  <2> QED  BY <2>2, <2>3, SpentGrows, ConfigIsNatural DEF StatementsFit, IndInv, TypeOK
<1> QED  BY <1>1, LeaseInvariance, PTL DEF Spec, FittingIsNotRecovered
=============================================================================
