-------------------------- MODULE Lifecycle_proofs --------------------------
(***************************************************************************)
(* A process that exits with status 0 stopped cleanly, it stops in time,   *)
(* and a shutdown loses no request that fits into its timeout: for any     *)
(* workers, requests and timeouts.                                         *)
(***************************************************************************)
EXTENDS Lifecycle, TLAPS

ServerState == {"selecting", "shutting", "receiving", "succeeded", "failed"}

\* What is in the channel is what the listener returned, and it returns
\* ErrServerClosed after the call of Shutdown only.
ErrorIsTrue ==
    /\ serverErr = "closed" => listener = "closed"
    /\ serverErr = "failed" => listener = "failed"
    /\ listener = "closed" => ShuttingDown

\* From the end of Shutdown on nothing is in flight, and only ErrServerClosed
\* is a success.
ShutdownIsClean ==
    /\ server \in {"receiving", "succeeded"} => \A r \in Request : ~Active(r)
    /\ server = "succeeded" => listener = "closed"

\* Requests are cut by the end of the process alone, which the server, if it
\* ever ran, does not outlive.
EndIsLast ==
    /\ main = "starting" => server = "selecting"
    /\ main = "closing" => server \in {"succeeded", "failed"}
    /\ main = "exited" => server \in {"succeeded", "failed", "selecting"}
    /\ exit = "0" => main = "exited" /\ server = "succeeded"
    /\ \A r \in Request : request[r] = "cut" => main = "exited" /\ server # "succeeded"

\* The inductive invariant.
IndInv ==
    /\ request \in [Request -> RequestState]
    /\ server \in ServerState
    /\ ErrorIsTrue
    /\ ShutdownIsClean
    /\ EndIsLast

USE DEF groupVars, serverVars, requestVars, clocks, ServerState, RequestState,
        Active, ShuttingDown, Returned, Up

LEMMA InitKeepsInv == Init => IndInv
BY DEF Init, IndInv, ErrorIsTrue, ShutdownIsClean, EndIsLast

LEMMA MainStepKeepsInv ==
    ASSUME IndInv, MainStep \/ Signal
    PROVE  IndInv'
<1>1. CASE StartFails
  BY <1>1 DEF StartFails, Terminate, IndInv, ErrorIsTrue, ShutdownIsClean, EndIsLast
<1>2. CASE StartGroup
  BY <1>2 DEF StartGroup, IndInv, ErrorIsTrue, ShutdownIsClean, EndIsLast
<1>3. CASE WaitReturns
  BY <1>3 DEF WaitReturns, IndInv, ErrorIsTrue, ShutdownIsClean, EndIsLast
<1>4. CASE CloseReturns
  BY <1>4 DEF CloseReturns, Terminate, IndInv, ErrorIsTrue, ShutdownIsClean, EndIsLast
<1>5. CASE Signal
  BY <1>5 DEF Signal, Terminate, IndInv, ErrorIsTrue, ShutdownIsClean, EndIsLast
<1>. QED
  BY <1>1, <1>2, <1>3, <1>4, <1>5 DEF MainStep

LEMMA ListenerStepKeepsInv ==
    ASSUME IndInv, ListenerStep
    PROVE  IndInv'
<1>1. CASE Listen
  BY <1>1 DEF Listen, IndInv, ErrorIsTrue, ShutdownIsClean, EndIsLast
<1>2. CASE ListenFails
  BY <1>2 DEF ListenFails, ListenerReturns, IndInv, ErrorIsTrue, ShutdownIsClean, EndIsLast
<1>3. CASE ListenerCloses
  BY <1>3 DEF ListenerCloses, ListenerReturns, IndInv, ErrorIsTrue, ShutdownIsClean, EndIsLast
<1>. QED
  BY <1>1, <1>2, <1>3 DEF ListenerStep

LEMMA ServerStepKeepsInv ==
    ASSUME IndInv, ServerStep
    PROVE  IndInv'
<1>1. CASE ServerFails
  BY <1>1 DEF ServerFails, ServerReturns, Result, IndInv, ErrorIsTrue, ShutdownIsClean, EndIsLast
<1>2. CASE CallShutdown
  BY <1>2 DEF CallShutdown, IndInv, ErrorIsTrue, ShutdownIsClean, EndIsLast
<1>3. CASE ShutdownCompletes
  BY <1>3 DEF ShutdownCompletes, IndInv, ErrorIsTrue, ShutdownIsClean, EndIsLast
<1>4. CASE ShutdownTimesOut
  BY <1>4 DEF ShutdownTimesOut, ServerReturns, IndInv, ErrorIsTrue, ShutdownIsClean, EndIsLast
<1>5. CASE Receive
  BY <1>5 DEF Receive, ServerReturns, Result, IndInv, ErrorIsTrue, ShutdownIsClean, EndIsLast
<1>. QED
  BY <1>1, <1>2, <1>3, <1>4, <1>5 DEF ServerStep

LEMMA RequestStepKeepsInv ==
    ASSUME IndInv, NEW r \in Request, Accept(r) \/ RequestStep(r)
    PROVE  IndInv'
<1>1. CASE Accept(r)
  BY <1>1 DEF Accept, Becomes, IndInv, ErrorIsTrue, ShutdownIsClean, EndIsLast
<1>2. CASE Query(r)
  BY <1>2 DEF Query, Becomes, IndInv, ErrorIsTrue, ShutdownIsClean, EndIsLast
<1>3. CASE Answer(r)
  BY <1>3 DEF Answer, Becomes, IndInv, ErrorIsTrue, ShutdownIsClean, EndIsLast
<1>. QED
  BY <1>1, <1>2, <1>3 DEF RequestStep

\* The inductive invariant holds in every reachable state.
THEOREM LifecycleInvariance == Spec => []IndInv
<1>1. IndInv /\ [Next]_vars => IndInv'
  <2>. SUFFICES ASSUME IndInv, [Next]_vars
                PROVE  IndInv'
    OBVIOUS
  <2>1. CASE MainStep \/ Signal
    BY <2>1, MainStepKeepsInv
  <2>2. ASSUME NEW g \in Goroutine, GoroutineReturns(g)
        PROVE  IndInv'
    BY <2>2 DEF GoroutineReturns, IndInv, ErrorIsTrue, ShutdownIsClean, EndIsLast
  <2>3. CASE ListenerStep
    BY <2>3, ListenerStepKeepsInv
  <2>4. CASE ServerStep
    BY <2>4, ServerStepKeepsInv
  <2>5. ASSUME NEW r \in Request, Accept(r) \/ RequestStep(r)
        PROVE  IndInv'
    BY <2>5, RequestStepKeepsInv
  <2>6. CASE Tick
    BY <2>6 DEF Tick, IndInv, ErrorIsTrue, ShutdownIsClean, EndIsLast
  <2>7. CASE UNCHANGED vars
    BY <2>7 DEF vars, IndInv, ErrorIsTrue, ShutdownIsClean, EndIsLast
  <2>. QED
    BY <2>1, <2>2, <2>3, <2>4, <2>5, <2>6, <2>7 DEF Next
<1>. QED
  BY InitKeepsInv, <1>1, PTL DEF Spec

\* Exit status 0, and a Server.Run without error, tell the truth: the listener
\* did not fail and every request that was accepted got its answer.
THEOREM SuccessTellsTheTruth == Spec => []SuccessIsClean
<1>1. IndInv => SuccessIsClean
  BY DEF IndInv, ShutdownIsClean, EndIsLast, SuccessIsClean
<1>. QED
  BY <1>1, LifecycleInvariance, PTL

-----------------------------------------------------------------------------
(* Time *)

\* Before the group starts there are no requests.
StartIsIdle ==
    main = "starting" => listener = "starting" /\ \A r \in Request : ~Active(r)

\* Server.Run leaves its select for the end of the context, or ends the context.
ContextEnds == ShuttingDown => ctx = "done"

\* The time since the context ended is the time Shutdown takes and, after it,
\* the time the statements have taken that the pool still waits for.
StopClock ==
    /\ ctx = "live" \/ server = "selecting" => stop_age = 0
    /\ server = "shutting" => stop_age = shutdown_age
    /\ main \in {"starting", "waiting"} => stop_age <= ShutdownTimeout
    /\ main = "closing" =>
          \A r \in Request : request[r] = "querying" =>
              stop_age <= ShutdownTimeout + request_age[r]

\* A request in flight was accepted before Shutdown was called, and is at least
\* as old.
RequestClock ==
    /\ \A r \in Request : request[r] = "reading" => request_age[r] <= ReadTimeout
    /\ \A r \in Request : request[r] = "querying" => request_age[r] <= DatabaseQueryTimeout
    /\ server = "shutting" =>
          \A r \in Request :
              /\ request[r] = "reading" => shutdown_age <= request_age[r]
              /\ request[r] = "querying" => shutdown_age <= ReadTimeout + request_age[r]
    /\ shutdown_age <= ReadTimeout + DatabaseQueryTimeout

TimedInv ==
    /\ IndInv
    /\ TypeOK
    /\ StartIsIdle
    /\ ContextEnds
    /\ StopClock
    /\ RequestClock
    /\ StopIsBounded
    /\ TimelyRequestsAreAnswered

\* No time has passed when the process starts.
LEMMA InitIsTimed == Init => TimedInv
<1>. SUFFICES ASSUME Init PROVE TimedInv
  OBVIOUS
<1>1. IndInv
  BY InitKeepsInv
<1>2. ShutdownTimeout \in Nat \ {0} /\ ReadTimeout \in Nat /\ DatabaseQueryTimeout \in Nat
  BY TimeoutAssumption DEF Init
<1>3. TypeOK
  BY <1>2 DEF Init, TypeOK
<1>4. StartIsIdle /\ ContextEnds /\ StopClock
  BY <1>2 DEF Init, StartIsIdle, ContextEnds, StopClock
<1>5. RequestClock /\ StopIsBounded /\ TimelyRequestsAreAnswered
  BY <1>2 DEF Init, RequestClock, StopIsBounded, TimelyRequestsAreAnswered
<1>. QED
  BY <1>1, <1>3, <1>4, <1>5 DEF TimedInv

\* What the invariant says of the end of the process: a request is cut only
\* if it was in flight, and then the server failed.
LEMMA TerminatedIsTimed ==
    ASSUME TimedInv, IndInv', NEW how \in {"0", "1", "signal"}, Terminate(how),
           main \in {"starting", "closing"}
    PROVE  TimedInv'
<1>1. TypeOK'
  BY DEF TimedInv, TypeOK, Terminate
<1>2. StartIsIdle' /\ ContextEnds' /\ StopClock' /\ StopIsBounded'
  BY DEF TimedInv, Terminate, StartIsIdle, ContextEnds, StopClock, StopIsBounded
<1>3. RequestClock'
  BY DEF TimedInv, TypeOK, Terminate, RequestClock
<1>4. TimelyRequestsAreAnswered'
  BY DEF TimedInv, TypeOK, Terminate, TimelyRequestsAreAnswered, StartIsIdle,
         IndInv, EndIsLast, ShutdownIsClean
<1>. QED
  BY <1>1, <1>2, <1>3, <1>4 DEF TimedInv

\* Steps of main.run and signals.
LEMMA MainStepIsTimed ==
    ASSUME TimedInv, MainStep \/ Signal
    PROVE  TimedInv'
<1>. IndInv'
  BY MainStepKeepsInv DEF TimedInv
<1>1. CASE \E how \in {"0", "1", "signal"} : main \in {"starting", "closing"} /\ Terminate(how)
  BY <1>1, TerminatedIsTimed
<1>2. CASE StartGroup
  BY <1>2 DEF StartGroup, TimedInv, TypeOK, StartIsIdle, ContextEnds, StopClock,
              RequestClock, StopIsBounded, TimelyRequestsAreAnswered
<1>3. CASE WaitReturns
  BY <1>3, TimeoutAssumption DEF WaitReturns, TimedInv, TypeOK, StartIsIdle, ContextEnds, StopClock,
              RequestClock, StopIsBounded, TimelyRequestsAreAnswered
<1>4. CASE main = "waiting" /\ Signal
  BY <1>4 DEF Signal, Terminate, TimedInv, TypeOK, StartIsIdle, ContextEnds, StopClock,
              RequestClock, StopIsBounded, TimelyRequestsAreAnswered
<1>. QED
  BY <1>1, <1>2, <1>3, <1>4 DEF MainStep, StartFails, CloseReturns, Signal

\* Steps of the workers and of the listener.
LEMMA GroupStepIsTimed ==
    ASSUME TimedInv, IndInv', ListenerStep \/ \E g \in Goroutine : GoroutineReturns(g)
    PROVE  TimedInv'
<1>. DEFINE LeavesTheRest ==
                /\ UNCHANGED <<ShutdownTimeout, main, exit, ctx, server, requestVars, clocks>>
                /\ main # "starting"
                /\ goroutine' \in [Goroutine -> {"running", "returned"}]
                /\ listener' \in {"starting", "serving", "closed", "failed"}
                /\ serverErr' \in {"empty", "closed", "failed"}
                /\ listener = "failed" => listener' = "failed"
<1>1. LeavesTheRest
  <2>1. ASSUME NEW g \in Goroutine, GoroutineReturns(g)  PROVE  LeavesTheRest
    BY <2>1 DEF GoroutineReturns, TimedInv, TypeOK
  <2>2. CASE Listen
    BY <2>2 DEF Listen, TimedInv, TypeOK
  <2>3. CASE ListenFails
    BY <2>3 DEF ListenFails, ListenerReturns, TimedInv, TypeOK
  <2>4. CASE ListenerCloses
    BY <2>4 DEF ListenerCloses, ListenerReturns, TimedInv, TypeOK
  <2>. QED
    BY <2>1, <2>2, <2>3, <2>4 DEF ListenerStep
<1>2. TypeOK' /\ StartIsIdle' /\ ContextEnds'
  BY <1>1 DEF TimedInv, TypeOK, StartIsIdle, ContextEnds
<1>3. StopClock' /\ RequestClock' /\ StopIsBounded'
  BY <1>1 DEF TimedInv, StopClock, RequestClock, StopIsBounded
<1>4. TimelyRequestsAreAnswered'
  BY <1>1 DEF TimedInv, TimelyRequestsAreAnswered
<1>. QED
  BY <1>2, <1>3, <1>4 DEF TimedInv

\* Steps of Server.Run.  Shutdown does not time out on requests that fit, and
\* the channel holds an error only if the listener failed.
LEMMA ServerStepIsTimed ==
    ASSUME TimedInv, ServerStep
    PROVE  TimedInv'
<1>. IndInv'
  BY ServerStepKeepsInv DEF TimedInv
<1>1. ShutdownTimeout \in Nat \ {0} /\ ReadTimeout \in Nat /\ DatabaseQueryTimeout \in Nat
  BY TimeoutAssumption DEF TimedInv, TypeOK
<1>2. CASE ServerFails
  BY <1>1, <1>2 DEF ServerFails, ServerReturns, Result, TimedInv, TypeOK, StartIsIdle,
       ContextEnds, StopClock, RequestClock, StopIsBounded, TimelyRequestsAreAnswered,
       IndInv, ErrorIsTrue, EndIsLast
<1>3. CASE CallShutdown
  BY <1>1, <1>3 DEF CallShutdown, TimedInv, TypeOK, StartIsIdle,
       ContextEnds, StopClock, RequestClock, StopIsBounded, TimelyRequestsAreAnswered
<1>4. CASE ShutdownCompletes
  BY <1>1, <1>4 DEF ShutdownCompletes, TimedInv, TypeOK, StartIsIdle,
       ContextEnds, StopClock, RequestClock, StopIsBounded, TimelyRequestsAreAnswered
<1>5. CASE ShutdownTimesOut
  BY <1>1, <1>5 DEF ShutdownTimesOut, ServerReturns, TimedInv, TypeOK, StartIsIdle,
       ContextEnds, StopClock, RequestClock, StopIsBounded, TimelyRequestsAreAnswered
<1>6. CASE Receive
  BY <1>1, <1>6 DEF Receive, ServerReturns, Result, TimedInv, TypeOK, StartIsIdle,
       ContextEnds, StopClock, RequestClock, StopIsBounded, TimelyRequestsAreAnswered,
       IndInv, ErrorIsTrue
<1>. QED
  BY <1>2, <1>3, <1>4, <1>5, <1>6 DEF ServerStep

\* Steps of requests: none is accepted once Shutdown is called, and a pool that
\* is closed refuses only what Shutdown gave up.
LEMMA RequestStepIsTimed ==
    ASSUME TimedInv, NEW r \in Request, Accept(r) \/ RequestStep(r)
    PROVE  TimedInv'
<1>. IndInv'
  BY RequestStepKeepsInv DEF TimedInv
<1>1. ShutdownTimeout \in Nat \ {0} /\ ReadTimeout \in Nat /\ DatabaseQueryTimeout \in Nat
  BY TimeoutAssumption DEF TimedInv, TypeOK
<1>2. CASE Accept(r)
  BY <1>1, <1>2 DEF Accept, Becomes, TimedInv, TypeOK, StartIsIdle,
       ContextEnds, StopClock, RequestClock, StopIsBounded, TimelyRequestsAreAnswered,
       IndInv, EndIsLast
<1>3. CASE Query(r)
  BY <1>1, <1>3 DEF Query, Becomes, TimedInv, TypeOK, StartIsIdle,
       ContextEnds, StopClock, RequestClock, StopIsBounded, TimelyRequestsAreAnswered,
       IndInv, EndIsLast, ShutdownIsClean
<1>4. CASE Answer(r)
  BY <1>1, <1>4 DEF Answer, Becomes, TimedInv, TypeOK, StartIsIdle,
       ContextEnds, StopClock, RequestClock, StopIsBounded, TimelyRequestsAreAnswered
<1>. QED
  BY <1>2, <1>3, <1>4 DEF RequestStep

\* Passing of time: a shutdown goes on while a request is within its deadline,
\* and so does the closing of the pool while a statement is.
LEMMA TickIsTimed ==
    ASSUME TimedInv, IndInv', Tick
    PROVE  TimedInv'
<1>1. ShutdownTimeout \in Nat \ {0} /\ ReadTimeout \in Nat /\ DatabaseQueryTimeout \in Nat
  BY TimeoutAssumption DEF TimedInv, TypeOK
<1>2. StartIsIdle' /\ ContextEnds' /\ TimelyRequestsAreAnswered'
  BY DEF Tick, TimedInv, StartIsIdle, ContextEnds, TimelyRequestsAreAnswered
<1>3. CASE Running
  BY <1>1, <1>2, <1>3 DEF Running, Tick, WithinDeadline, TimedInv, TypeOK, ContextEnds,
       StopClock, RequestClock, StopIsBounded
<1>4. CASE Stopping
  BY <1>1, <1>2, <1>4 DEF Stopping, Tick, WithinDeadline, TimedInv, TypeOK, ContextEnds,
       StopClock, RequestClock, StopIsBounded
<1>5. CASE Closing
  BY <1>1, <1>2, <1>5 DEF Closing, Tick, WithinDeadline, TimedInv, TypeOK, ContextEnds,
       StopClock, RequestClock, StopIsBounded, IndInv, EndIsLast
<1>. QED
  BY <1>3, <1>4, <1>5 DEF Tick

\* The inductive invariant with time holds in every reachable state.
THEOREM TimedInvariance == Spec => []TimedInv
<1>1. TimedInv /\ IndInv' /\ [Next]_vars => TimedInv'
  <2>. SUFFICES ASSUME TimedInv, IndInv', [Next]_vars
                PROVE  TimedInv'
    OBVIOUS
  <2>1. CASE MainStep \/ Signal
    BY <2>1, MainStepIsTimed
  <2>2. CASE ListenerStep \/ \E g \in Goroutine : GoroutineReturns(g)
    BY <2>2, GroupStepIsTimed
  <2>3. CASE ServerStep
    BY <2>3, ServerStepIsTimed
  <2>4. ASSUME NEW r \in Request, Accept(r) \/ RequestStep(r)
        PROVE  TimedInv'
    BY <2>4, RequestStepIsTimed
  <2>5. CASE Tick
    BY <2>5, TickIsTimed
  <2>6. CASE UNCHANGED vars
    BY <2>6 DEF vars, TimedInv, TypeOK, StartIsIdle, ContextEnds, StopClock,
                RequestClock, StopIsBounded, TimelyRequestsAreAnswered
  <2>. QED
    BY <2>1, <2>2, <2>3, <2>4, <2>5, <2>6 DEF Next
<1>. QED
  BY InitIsTimed, LifecycleInvariance, <1>1, PTL DEF Spec

\* The states of the process, its requests and its clocks have their types: in
\* particular no statement and no shutdown outlasts its timeout.
THEOREM LifecycleStaysInBounds == Spec => []TypeOK
<1>1. TimedInv => TypeOK
  BY DEF TimedInv
<1>. QED
  BY <1>1, TimedInvariance, PTL

\* A process that is to stop is gone after SHUTDOWN_TIMEOUT and one statement.
THEOREM StopsInTime == Spec => []StopIsBounded
<1>1. TimedInv => StopIsBounded
  BY DEF TimedInv
<1>. QED
  BY <1>1, TimedInvariance, PTL

\* A shutdown loses no request whose reading and statement fit into its timeout.
THEOREM TimelyRequestsSurvive == Spec => []TimelyRequestsAreAnswered
<1>1. TimedInv => TimelyRequestsAreAnswered
  BY DEF TimedInv
<1>. QED
  BY <1>1, TimedInvariance, PTL
=============================================================================
