------------------------------ MODULE Lifecycle ------------------------------
(***************************************************************************)
(* One application process from main.run to its exit: the errgroup with    *)
(* Server.Run, the quote update workers and the recovery worker, the HTTP  *)
(* server with the requests in flight, and the connection pool closed at   *)
(* the end.                                                                *)
(*                                                                         *)
(* Time advances by Tick, and no further than the next deadline; what has  *)
(* no deadline takes no time.  PostgreSQL is reachable: a statement whose  *)
(* context is done gives its connection back at once, and the connections  *)
(* of a pool that is closed need no time to go.                            *)
(*                                                                         *)
(* A handler's context is not the group's: shutting down does not cancel   *)
(* requests.                                                               *)
(***************************************************************************)
EXTENDS Naturals

CONSTANTS
    Goroutine,             \* quote update workers and the recovery worker
    Request,               \* slots for HTTP requests in flight
    ReadTimeout,           \* http.Server.ReadTimeout
    DatabaseQueryTimeout,
    ShutdownTimeouts       \* values of SHUTDOWN_TIMEOUT to configure

ASSUME TimeoutAssumption ==
    {ReadTimeout, DatabaseQueryTimeout} \union ShutdownTimeouts \subseteq Nat \ {0}

VARIABLES
    ShutdownTimeout,  \* configuration, fixed
    main,         \* where main.run is
    exit,         \* how the process ended
    ctx,          \* the group's context: live or done
    goroutine,    \* running or returned
    listener,     \* the goroutine in ListenAndServe
    serverErr,    \* the channel it writes to, of capacity 1
    server,       \* where Server.Run is
    request,      \* what each request in flight is at
    request_age,  \* time spent reading its body, or in its statement
    stop_age,     \* time since the context is done
    shutdown_age  \* time since httpServer.Shutdown was called

groupVars == <<ShutdownTimeout, main, exit, ctx, goroutine>>
serverVars == <<listener, serverErr, server>>
requestVars == <<request, request_age>>
clocks == <<stop_age, shutdown_age>>
vars == <<groupVars, serverVars, requestVars, clocks>>

\* reading: the handler reads the body; querying: its statement runs; refused:
\* the pool was closed before it; cut: the process ended under it.
RequestState == {"none", "reading", "querying", "refused", "cut"}
Active(r) == request[r] \in {"reading", "querying", "refused"}

\* The type invariant.
TypeOK ==
    /\ ShutdownTimeout \in ShutdownTimeouts
    /\ main \in {"starting", "waiting", "closing", "exited"}
    /\ exit \in {"none", "0", "1", "signal"}
    /\ ctx \in {"live", "done"}
    /\ goroutine \in [Goroutine -> {"running", "returned"}]
    /\ listener \in {"starting", "serving", "closed", "failed"}
    /\ serverErr \in {"empty", "closed", "failed"}
    /\ server \in {"selecting", "shutting", "receiving", "succeeded", "failed"}
    /\ request \in [Request -> RequestState]
    /\ request_age \in [Request -> 0..(ReadTimeout + DatabaseQueryTimeout)]
    /\ stop_age \in Nat
    /\ shutdown_age \in 0..ShutdownTimeout

Init ==
    /\ ShutdownTimeout \in ShutdownTimeouts
    /\ main = "starting" /\ exit = "none" /\ ctx = "live"
    /\ goroutine = [g \in Goroutine |-> "running"]
    /\ listener = "starting" /\ serverErr = "empty" /\ server = "selecting"
    /\ request = [r \in Request |-> "none"]
    /\ request_age = [r \in Request |-> 0]
    /\ stop_age = 0 /\ shutdown_age = 0

Up == main \in {"waiting", "closing"}

\* The process is gone, and what was in flight with it.
Terminate(how) ==
    /\ main' = "exited"
    /\ exit' = how
    /\ request' = [r \in Request |-> IF Active(r) THEN "cut" ELSE request[r]]
    /\ UNCHANGED <<ShutdownTimeout, ctx, goroutine, serverVars, request_age, clocks>>

-----------------------------------------------------------------------------
(* main.run *)

\* The configuration is invalid or PostgreSQL does not answer the ping.
StartFails ==
    /\ main = "starting"
    /\ Terminate("1")

\* Up to the call of group.Wait.
StartGroup ==
    /\ main = "starting"
    /\ main' = "waiting"
    /\ UNCHANGED <<ShutdownTimeout, exit, ctx, goroutine, serverVars, requestVars, clocks>>

\* SIGINT or SIGTERM.  Before NotifyContext it ends the process; later it ends
\* the context, and a second one changes nothing.
Signal ==
    \/ main = "starting" /\ Terminate("signal")
    \/ /\ main = "waiting"
       /\ ctx = "live"
       /\ ctx' = "done"
       /\ UNCHANGED <<ShutdownTimeout, main, exit, goroutine, serverVars, requestVars, clocks>>

\* Run of a worker and of the recovery worker: only a context that is done ends
\* them, and never with an error.
GoroutineReturns(g) ==
    /\ Up
    /\ ctx = "done"
    /\ goroutine[g] = "running"
    /\ goroutine' = [goroutine EXCEPT ![g] = "returned"]
    /\ UNCHANGED <<ShutdownTimeout, main, exit, ctx, serverVars, requestVars, clocks>>

\* group.Wait, and the deferred functions up to database.Close.
WaitReturns ==
    /\ main = "waiting"
    /\ server \in {"succeeded", "failed"}
    /\ \A g \in Goroutine : goroutine[g] = "returned"
    /\ main' = "closing"
    /\ UNCHANGED <<ShutdownTimeout, exit, ctx, goroutine, serverVars, requestVars, clocks>>

\* database.Close waits for the connections in use; then run returns what the
\* group returned.
CloseReturns ==
    /\ main = "closing"
    /\ \A r \in Request : request[r] # "querying"
    /\ Terminate(IF server = "failed" THEN "1" ELSE "0")

-----------------------------------------------------------------------------
(* Server.Run and ListenAndServe *)

ShuttingDown == server # "selecting"
Returned == {"closed", "failed"}

\* ListenAndServe returns, and its error goes into the channel.
ListenerReturns(err) ==
    /\ Up
    /\ listener' = err
    /\ serverErr' = err
    /\ UNCHANGED <<groupVars, server, requestVars, clocks>>

Listen ==
    /\ Up
    /\ listener = "starting"
    /\ ~ShuttingDown
    /\ listener' = "serving"
    /\ UNCHANGED <<groupVars, serverErr, server, requestVars, clocks>>

\* The address is in use, also if Shutdown is called meanwhile, or accepting
\* connections fails for good.
ListenFails ==
    /\ listener = "starting" \/ (listener = "serving" /\ ~ShuttingDown)
    /\ ListenerReturns("failed")

\* After the call of Shutdown it returns ErrServerClosed.
ListenerCloses ==
    /\ listener \notin Returned
    /\ ShuttingDown
    /\ ListenerReturns("closed")


\* Server.Run returns; an error cancels the group's context.
ServerReturns(result) ==
    /\ server' = result
    /\ ctx' = IF result = "failed" THEN "done" ELSE ctx
    /\ UNCHANGED <<ShutdownTimeout, main, exit, goroutine, listener, requestVars, clocks>>

Result(err) == IF err = "closed" THEN "succeeded" ELSE "failed"

ServerFails ==
    /\ Up
    /\ server = "selecting"
    /\ serverErr # "empty"
    /\ ServerReturns(Result(serverErr))
    /\ serverErr' = "empty"

CallShutdown ==
    /\ Up
    /\ server = "selecting"
    /\ ctx = "done"
    /\ server' = "shutting"
    /\ shutdown_age' = 0
    /\ UNCHANGED <<groupVars, listener, serverErr, requestVars, stop_age>>

\* Shutdown returns nil once no connection is active.
ShutdownCompletes ==
    /\ server = "shutting"
    /\ \A r \in Request : ~Active(r)
    /\ server' = "receiving"
    /\ UNCHANGED <<groupVars, listener, serverErr, requestVars, clocks>>

\* Its context ends first; as Shutdown polls, the last connection may just have
\* become idle.
ShutdownTimesOut ==
    /\ server = "shutting"
    /\ shutdown_age = ShutdownTimeout
    /\ ServerReturns("failed")
    /\ UNCHANGED serverErr

\* (mutant) whatever the listener returned is taken for ErrServerClosed
ReceiveAnything ==
    /\ server = "receiving"
    /\ serverErr # "empty"
    /\ ServerReturns("succeeded")
    /\ serverErr' = "empty"

Receive ==
    /\ server = "receiving"
    /\ serverErr # "empty"
    /\ ServerReturns(Result(serverErr))
    /\ serverErr' = "empty"

-----------------------------------------------------------------------------
(* HTTP requests *)

Becomes(r, state, age) ==
    /\ request' = [request EXCEPT ![r] = state]
    /\ request_age' = [request_age EXCEPT ![r] = age]
    /\ UNCHANGED <<groupVars, serverVars, clocks>>

Accept(r) ==
    /\ listener = "serving"
    /\ ~ShuttingDown
    /\ ~Active(r)
    /\ Becomes(r, "reading", 0)

\* The request is complete, valid and gets to its statement.
Query(r) ==
    /\ Up
    /\ request[r] = "reading"
    /\ Becomes(r, IF main = "closing" THEN "refused" ELSE "querying", 0)

\* The handler has written its answer; also for a request that is invalid or
\* not complete within ReadTimeout, and for a statement that timed out.
Answer(r) ==
    /\ Up
    /\ Active(r)
    /\ Becomes(r, "none", 0)

-----------------------------------------------------------------------------
(* Time *)

\* (mutant) the statements of handlers have no timeout
NoQueryDeadline(r) ==
    /\ request[r] = "reading" => request_age[r] < ReadTimeout
    /\ request[r] # "refused"

\* Request r can take more time.
WithinDeadline(r) ==
    /\ request[r] = "reading" => request_age[r] < ReadTimeout
    /\ request[r] = "querying" => request_age[r] < DatabaseQueryTimeout
    /\ request[r] # "refused"

\* Time passes when nothing is left that takes none.
Running ==
    /\ main = "waiting"
    /\ ctx = "live"
    /\ serverErr = "empty"

Stopping ==
    /\ main = "waiting"
    /\ \A g \in Goroutine : goroutine[g] = "returned"
    /\ server = "shutting"
    /\ shutdown_age < ShutdownTimeout
    /\ \E r \in Request : Active(r)

Closing == main = "closing" /\ \E r \in Request : request[r] = "querying"

Tick ==
    /\ Running \/ Stopping \/ Closing
    /\ \A r \in Request : WithinDeadline(r)
    /\ request_age' = [r \in Request |-> IF Active(r) THEN request_age[r] + 1 ELSE 0]
    /\ stop_age' = IF ctx = "done" THEN stop_age + 1 ELSE 0
    /\ shutdown_age' = IF server = "shutting" THEN shutdown_age + 1 ELSE shutdown_age
    /\ UNCHANGED <<groupVars, serverVars, request>>

-----------------------------------------------------------------------------
MainStep == StartFails \/ StartGroup \/ WaitReturns \/ CloseReturns
ListenerStep == Listen \/ ListenFails \/ ListenerCloses
ServerStep ==
    \/ ServerFails \/ CallShutdown
    \/ ShutdownCompletes \/ ShutdownTimesOut \/ Receive
RequestStep(r) == Query(r) \/ Answer(r)

Next ==
    \/ MainStep
    \/ Signal
    \/ \E g \in Goroutine : GoroutineReturns(g)
    \/ ListenerStep
    \/ ServerStep
    \/ \E r \in Request : Accept(r) \/ RequestStep(r)
    \/ Tick

Spec == Init /\ [][Next]_vars

\* Every goroutine of the process keeps running and time passes.  Whether a
\* request comes, a signal is sent or the listener fails is left open.
Fairness ==
    /\ WF_vars(MainStep)
    /\ \A g \in Goroutine : WF_vars(GoroutineReturns(g))
    /\ WF_vars(ListenerCloses)
    /\ WF_vars(ServerStep)
    /\ \A r \in Request : WF_vars(Answer(r))
    /\ WF_vars(Tick)

FairSpec == Spec /\ Fairness

-----------------------------------------------------------------------------
\* Exit status 0 tells the truth: the listener never failed, not even at the
\* moment of the signal, and every request that was accepted got its answer
\* from an open pool.
SuccessIsClean ==
    server = "succeeded" \/ exit = "0" =>
        /\ listener # "failed"
        /\ \A r \in Request : ~Active(r) /\ request[r] # "cut"

\* A process that is to stop, or whose server failed, is gone after the shutdown
\* timeout and one statement of a handler: within stop_grace_period of
\* compose.yaml (15s) for the defaults (10s and 3s).
StopIsBounded == stop_age <= ShutdownTimeout + DatabaseQueryTimeout

\* A shutdown fails for requests only if they may take longer than it: no
\* request is lost whose reading and statement fit into the shutdown timeout.
\* (They do not fit into the default one, next to a ReadTimeout of 10s.)
TimelyRequestsAreAnswered ==
    ReadTimeout + DatabaseQueryTimeout < ShutdownTimeout /\ listener # "failed" =>
        /\ server # "failed"
        /\ \A r \in Request : request[r] \notin {"refused", "cut"}

=============================================================================
