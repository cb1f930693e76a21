------------------------- MODULE QuoteUpdateWorkers -------------------------
(***************************************************************************)
(* The background side of the service: the QuoteUpdateWorkers of every     *)
(* application instance, the QuoteUpdateRecoveryWorker of every instance,  *)
(* and the instances themselves, which are stopped (SIGTERM or a failing   *)
(* HTTP server cancels the group's context), crash and are restarted.      *)
(*                                                                         *)
(* A worker is at one of the calls of processNext, or between two rounds   *)
(* of Run:                                                                 *)
(*    polling     about to call TakeNextPendingUpdate                      *)
(*    taking      that statement holds the row lock, not committed         *)
(*    fetching    FetchRate is running for the claimed update              *)
(*    completing  in CompleteUpdate with the fetched quote                 *)
(*    failing     in FailUpdate                                            *)
(*    waiting     in waitForNextPoll                                       *)
(*    stopped     Run has returned                                         *)
(*                                                                         *)
(* A statement whose client is gone (its query timed out, its connection   *)
(* broke, its process died) is still in the database's hands: it commits   *)
(* or rolls back at any later time.  These statements are abandoned.       *)
(*                                                                         *)
(* faults counts the environment's adverse events; MaxFaults bounds them.  *)
(***************************************************************************)
EXTENDS QuoteUpdateRepository

CONSTANTS
    Worker,
    Instance,
    Host,       \* the instance each worker is a goroutine of
    MaxFaults   \* bound: number of adverse events of a behaviour

ASSUME HostAssumption == Host \in [Worker -> Instance]
ASSUME MaxFaultsAssumption == MaxFaults \in Nat

VARIABLES
    pc,         \* where each worker is
    claim,      \* the ClaimedQuoteUpdate each worker holds or is taking
    result,     \* what FetchRate returned to each worker
    abandoned,  \* statements the database may still execute
    instance,   \* state of each application instance
    faults

workerVars == <<pc, claim, result>>
vars == <<tables, db_time, workerVars, abandoned, instance, faults>>

\* quote: a valid snapshot, stamped with NowUTC; unstorable: a snapshot that
\* passes validation and that the INSERT refuses (a date of the year 0000);
\* provider: an error of the provider, a wrong pair or an invalid rate;
\* canceled: FetchRate gave up because the context is done.
Result == [kind: {"none", "quote", "unstorable", "provider", "canceled"},
           fetched_at: Time]
NoResult == [kind |-> "none", fetched_at |-> 0]

Statement == [op: {"taking", "completing", "failing"},
              claim: Claim,
              fetched_at: Time]

\* The type invariant.
TypeOK ==
    /\ RepositoryTypeOK
    /\ pc \in [Worker -> {"polling", "taking", "fetching", "completing",
                          "failing", "waiting", "stopped"}]
    /\ claim \in [Worker -> Claim]
    /\ result \in [Worker -> Result]
    /\ abandoned \subseteq Statement
    /\ instance \in [Instance -> {"running", "stopping", "down"}]
    /\ faults \in 0..MaxFaults

Init ==
    /\ RepositoryInit
    /\ pc = [w \in Worker |-> "polling"]
    /\ claim = [w \in Worker |-> NoClaim]
    /\ result = [w \in Worker |-> NoResult]
    /\ abandoned = {}
    /\ instance = [i \in Instance |-> "running"]
    /\ faults = 0

Running(w) == instance[Host[w]] = "running"
Stopping(w) == instance[Host[w]] = "stopping"

Fault ==
    /\ faults < MaxFaults
    /\ faults' = faults + 1

\* While the context is done, giving up is the ordinary course of events.
FaultUnlessStopping(w) ==
    \/ Stopping(w) /\ UNCHANGED faults
    \/ Running(w) /\ Fault

\* Who holds a row lock of TakeNextPendingUpdate, who a claim.
Taking == {w \in Worker : pc[w] = "taking"}
Claimants == {w \in Worker : pc[w] \in {"fetching", "completing", "failing"}}
AbandonedTakes == {s \in abandoned : s.op = "taking"}
AbandonedResults == {s \in abandoned : s.op # "taking"}

LockedRows ==
    {claim[w].id : w \in Taking} \union {s.claim.id : s \in AbandonedTakes}

\* (mutant) Run does not look at the context after processNext
EndProcessNextRegardless(w, next) ==
    /\ pc' = [pc EXCEPT ![w] = next]
    /\ claim' = [claim EXCEPT ![w] = NoClaim]
    /\ result' = [result EXCEPT ![w] = NoResult]

\* Run after processNext returned: it leaves if the context is done, and
\* otherwise goes on with the next round or waits.
EndProcessNext(w, next) ==
    /\ pc' = [pc EXCEPT ![w] = IF Stopping(w) THEN "stopped" ELSE next]
    /\ claim' = [claim EXCEPT ![w] = NoClaim]
    /\ result' = [result EXCEPT ![w] = NoResult]

Goto(w, next, r) ==
    /\ pc' = [pc EXCEPT ![w] = next]
    /\ result' = [result EXCEPT ![w] = r]
    /\ UNCHANGED claim

-----------------------------------------------------------------------------
(* TakeNextPendingUpdate *)

TakeLock(w, u) ==
    /\ pc[w] = "polling"
    /\ Running(w)
    /\ NextUnlocked(u, LockedRows)
    /\ pc' = [pc EXCEPT ![w] = "taking"]
    /\ claim' = [claim EXCEPT ![w] = [id |-> u, token |-> 0]]
    /\ UNCHANGED <<tables, db_time, result, abandoned, instance, faults>>

TakeNothing(w) ==
    /\ pc[w] = "polling"
    /\ Running(w)
    /\ WithStatus("pending") \subseteq LockedRows
    /\ EndProcessNext(w, "waiting")
    /\ UNCHANGED <<tables, db_time, abandoned, instance, faults>>

TakeCommit(w) ==
    /\ pc[w] = "taking"
    /\ TakeRow(claim[w].id)
    /\ claim' = [claim EXCEPT ![w].token =
                    quote_updates'[claim[w].id].processing_version]
    /\ pc' = [pc EXCEPT ![w] = "fetching"]
    /\ UNCHANGED <<db_time, result, abandoned, instance, faults>>

-----------------------------------------------------------------------------
(* FetchRate, and the validation of the snapshot it returns *)

FetchRate(w) ==
    /\ pc[w] = "fetching"
    /\ Running(w)
    /\ \/ /\ Goto(w, "completing", [kind |-> "quote", fetched_at |-> db_time])
          /\ UNCHANGED faults
       \/ /\ Goto(w, "failing", [kind |-> "provider", fetched_at |-> 0])
          /\ UNCHANGED faults
       \/ /\ Goto(w, "completing", [kind |-> "unstorable", fetched_at |-> db_time])
          /\ Fault
    /\ UNCHANGED <<tables, db_time, abandoned, instance>>

\* The context is done: the repository call that follows is refused before a
\* statement is sent, whatever FetchRate returned.
FetchCanceled(w) ==
    /\ pc[w] = "fetching"
    /\ Stopping(w)
    /\ Goto(w, "failing", [kind |-> "canceled", fetched_at |-> 0])
    /\ UNCHANGED <<tables, db_time, abandoned, instance, faults>>

-----------------------------------------------------------------------------
(* CompleteUpdate and FailUpdate *)

CompleteUpdate(w) ==
    /\ pc[w] = "completing"
    /\ result[w].kind = "quote"
    /\ \/ CompleteRow(claim[w], result[w].fetched_at)
       \/ DiscardResult(claim[w])
    /\ EndProcessNext(w, "polling")
    /\ UNCHANGED <<db_time, abandoned, instance, faults>>

\* The INSERT fails and takes the UPDATE of the same statement with it.
CompleteRefused(w) ==
    /\ pc[w] = "completing"
    /\ result[w].kind = "unstorable"
    /\ EndProcessNext(w, "waiting")
    /\ UNCHANGED <<tables, db_time, abandoned, instance, faults>>

\* (mutant) the failure is stored with a context that is never done
FailUpdateDetached(w) ==
    /\ pc[w] = "failing"
    /\ \/ /\ FailRow(claim[w])
          /\ EndProcessNext(w, "waiting")
       \/ /\ DiscardResult(claim[w])
          /\ EndProcessNext(w, "polling")
    /\ UNCHANGED <<db_time, abandoned, instance, faults>>

\* failUpdate returns the cause as an error, and Run waits, when the update
\* is marked as failed; it returns nil when the lease was stale.
FailUpdate(w) ==
    /\ pc[w] = "failing"
    /\ result[w].kind = "provider"
    /\ \/ /\ FailRow(claim[w])
          /\ EndProcessNext(w, "waiting")
       \/ /\ DiscardResult(claim[w])
          /\ EndProcessNext(w, "polling")
    /\ UNCHANGED <<db_time, abandoned, instance, faults>>

-----------------------------------------------------------------------------
(* Repository calls that return an error *)

\* A call that does not reach the database: PostgreSQL is unavailable, or
\* the context is done.
DatabaseError(w) ==
    /\ pc[w] \in {"polling", "completing", "failing"}
    /\ FaultUnlessStopping(w)
    /\ EndProcessNext(w, "waiting")
    /\ UNCHANGED <<tables, db_time, abandoned, instance>>

\* Worker w has a statement in the database's hands.
InFlight(w) ==
    \/ pc[w] = "taking"
    \/ pc[w] = "completing" /\ result[w].kind = "quote"
    \/ pc[w] = "failing" /\ result[w].kind = "provider"

StatementOf(w) ==
    [op |-> pc[w], claim |-> claim[w], fetched_at |-> result[w].fetched_at]

\* The call gives up on a statement that was sent, which ends without it.
AbandonStatement(w) ==
    /\ InFlight(w)
    /\ FaultUnlessStopping(w)
    /\ abandoned' = abandoned \union {StatementOf(w)}
    /\ EndProcessNext(w, "waiting")
    /\ UNCHANGED <<tables, db_time, instance>>

AbandonedCommit(s) ==
    /\ s \in abandoned
    /\ abandoned' = abandoned \ {s}
    /\ \/ s.op = "taking" /\ TakeRow(s.claim.id)
       \/ s.op = "completing" /\ CompleteRow(s.claim, s.fetched_at)
       \/ s.op = "failing" /\ FailRow(s.claim)
    /\ UNCHANGED <<db_time, workerVars, instance, faults>>

AbandonedRollback(s) ==
    /\ s \in abandoned
    /\ abandoned' = abandoned \ {s}
    /\ UNCHANGED <<tables, db_time, workerVars, instance, faults>>

\* waitForNextPoll: the timer fires, or the context is done.
NextPoll(w) ==
    /\ pc[w] = "waiting"
    /\ \/ Goto(w, "polling", NoResult)
       \/ Stopping(w) /\ Goto(w, "stopped", NoResult)
    /\ UNCHANGED <<tables, db_time, abandoned, instance, faults>>

-----------------------------------------------------------------------------
(* The recovery worker, the instances, the API and time *)

RequeueStaleUpdates(i) ==
    /\ instance[i] # "down"
    /\ RequeueRows
    /\ UNCHANGED <<db_time, workerVars, abandoned, instance, faults>>

WorkersOf(i) == {w \in Worker : Host[w] = i}

Shutdown(i) ==
    /\ instance[i] = "running"
    /\ Fault
    /\ instance' = [instance EXCEPT ![i] = "stopping"]
    /\ UNCHANGED <<tables, db_time, workerVars, abandoned>>

\* group.Wait returns once every worker has.
Exit(i) ==
    /\ instance[i] = "stopping"
    /\ \A w \in WorkersOf(i) : pc[w] = "stopped"
    /\ instance' = [instance EXCEPT ![i] = "down"]
    /\ UNCHANGED <<tables, db_time, workerVars, abandoned, faults>>

\* The process dies with everything it held in memory.
Crash(i) ==
    /\ instance[i] # "down"
    /\ Fault
    /\ instance' = [instance EXCEPT ![i] = "down"]
    /\ abandoned' = abandoned \union
                       {StatementOf(w) : w \in {v \in WorkersOf(i) : InFlight(v)}}
    /\ pc' = [w \in Worker |-> IF Host[w] = i THEN "stopped" ELSE pc[w]]
    /\ claim' = [w \in Worker |-> IF Host[w] = i THEN NoClaim ELSE claim[w]]
    /\ result' = [w \in Worker |-> IF Host[w] = i THEN NoResult ELSE result[w]]
    /\ UNCHANGED <<tables, db_time>>

Start(i) ==
    /\ instance[i] = "down"
    /\ instance' = [instance EXCEPT ![i] = "running"]
    /\ pc' = [w \in Worker |-> IF Host[w] = i THEN "polling" ELSE pc[w]]
    /\ UNCHANGED <<tables, db_time, claim, result, abandoned, faults>>

Submit(id, p) ==
    /\ InsertRow(id, p, NoKey)
    /\ UNCHANGED <<db_time, workerVars, abandoned, instance, faults>>

LeaseHeld(u) ==
    \E w \in Worker : claim[w].id = u /\ HoldsLease(claim[w])

\* The lease of an update whose worker is gone runs out.
OrphanExpires(u) ==
    /\ ~LeaseHeld(u)
    /\ ExpireRow(u)
    /\ UNCHANGED <<db_time, workerVars, abandoned, instance, faults>>

\* The lease of an update runs out under a worker that is still busy with it.
LeaseExpires(u) ==
    /\ LeaseHeld(u)
    /\ Fault
    /\ ExpireRow(u)
    /\ UNCHANGED <<db_time, workerVars, abandoned, instance>>

TimePasses ==
    /\ Tick
    /\ UNCHANGED <<tables, workerVars, abandoned, instance, faults>>

-----------------------------------------------------------------------------
ProcessNext(w) ==
    \/ \E u \in UpdateID : TakeLock(w, u)
    \/ TakeNothing(w)
    \/ TakeCommit(w)
    \/ FetchRate(w)
    \/ FetchCanceled(w)
    \/ CompleteUpdate(w)
    \/ CompleteRefused(w)
    \/ FailUpdate(w)
    \/ DatabaseError(w)
    \/ AbandonStatement(w)
    \/ NextPoll(w)

InstanceStep(i) ==
    \/ RequeueStaleUpdates(i)
    \/ Shutdown(i)
    \/ Exit(i)
    \/ Crash(i)
    \/ Start(i)

Next ==
    \/ \E w \in Worker : ProcessNext(w)
    \/ \E i \in Instance : InstanceStep(i)
    \/ \E s \in abandoned : AbandonedCommit(s) \/ AbandonedRollback(s)
    \/ \E id \in UpdateID, p \in Pair : Submit(id, p)
    \/ \E u \in UpdateID : OrphanExpires(u) \/ LeaseExpires(u)
    \/ TimePasses

Spec == Init /\ [][Next]_vars

\* A worker's goroutine keeps running, the recovery ticker keeps firing, a
\* stopped instance exits and is restarted (restart: unless-stopped), the
\* database ends every transaction, and real time passes.
Fairness ==
    /\ \A w \in Worker : WF_vars(ProcessNext(w))
    /\ \A i \in Instance : /\ WF_vars(RequeueStaleUpdates(i))
                           /\ WF_vars(Exit(i))
                           /\ WF_vars(Start(i))
    /\ WF_vars(\E s \in abandoned : AbandonedCommit(s) \/ AbandonedRollback(s))
    /\ \A u \in UpdateID : WF_vars(OrphanExpires(u))

FairSpec == Spec /\ Fairness

-----------------------------------------------------------------------------
(* Safety *)

\* The fencing token works: a claim is held by at most one worker or abandoned
\* statement, whatever was lost or recovered, and is never newer than its row.
Issued(c) ==
    /\ c.id \in Stored
    /\ c.token \in 1..quote_updates[c.id].processing_version

ClaimsAreFenced ==
    /\ \A w \in Claimants : Issued(claim[w])
    /\ \A s \in AbandonedResults : Issued(s.claim)
    /\ \A v, w \in Claimants : claim[v] = claim[w] => v = w
    /\ \A w \in Claimants, s \in AbandonedResults : claim[w] # s.claim
    /\ \A s, t \in AbandonedResults : s.claim = t.claim => s = t

\* FOR UPDATE SKIP LOCKED: the row a worker is about to claim stays pending
\* until its transaction ends, and nobody else is about to claim it.
LockedRowsStayPending ==
    /\ LockedRows \subseteq WithStatus("pending")
    /\ \A v, w \in Taking : claim[v].id = claim[w].id => v = w
    /\ \A w \in Taking, s \in AbandonedTakes : claim[w].id # s.claim.id
    /\ \A s, t \in AbandonedTakes : s.claim.id = t.claim.id => s = t

\* Only the latest lease decides an update: a row becomes completed or failed
\* by a worker, or by its abandoned statement, whose token is the row's version
\* at that moment.  A worker whose lease was recovered and taken again by
\* somebody else decides nothing.
Decided(u) == u \in Stored /\ quote_updates[u].status \in Terminal

DecidingClaims ==
    {claim[w] : w \in {v \in Claimants : pc'[v] # pc[v]}}
        \union {s.claim : s \in abandoned \ abandoned'}

LatestLeaseDecides ==
    [][\A u \in Stored :
          Decided(u)' /\ ~Decided(u) =>
              [id |-> u, token |-> quote_updates[u].processing_version]
                  \in DecidingClaims]_vars

\* An update fails because the provider failed and for no other reason: not
\* because the service is shutting down, nor because the database was away.
ProviderFailures ==
    {claim[w] : w \in {v \in Claimants : result[v].kind = "provider"}}
        \union {s.claim : s \in {t \in abandoned : t.op = "failing"}}

FailedOnlyByProvider ==
    [][\A u \in Stored :
          quote_updates'[u].status = "failed" /\ quote_updates[u].status # "failed" =>
              \E c \in ProviderFailures : c.id = u]_vars

\* GET /api/v1/quotes/latest follows completions: the answer changes only when
\* an update of the pair completes, to that update; and a quote that was fetched
\* after the completion of the current answer began takes its place.  Of two
\* completions that overlap either can be the answer, for rows carry the time
\* their transaction began and not that of its commit.
CompletesNow(u) == u \in CompletedOf(quote_updates[u].pair)' \ CompletedOf(quote_updates[u].pair)

LatestFollowsCompletions ==
    [][\A p \in Pair :
          /\ GetLatest(p)' # GetLatest(p) =>
                \E u \in Stored : CompletesNow(u) /\ GetLatest(p)' = {u}
          /\ \A u \in Stored :
                /\ CompletesNow(u) /\ quote_updates[u].pair = p
                /\ \A v \in GetLatest(p) : quote_updates[v].updated_at < exchange_rates'[u]
                => GetLatest(p)' = {u}]_vars

\* What openapi.yaml says of GET /api/v1/quotes/latest ("Latest successfully
\* fetched quote."): no completed update of the pair was fetched later, those
\* that completed at the same instant aside.
LatestIsLatestFetched ==
    \A p \in Pair : \A u \in GetLatest(p), v \in CompletedOf(p) :
        quote_updates[v].updated_at # quote_updates[u].updated_at =>
            exchange_rates[v] <= exchange_rates[u]

-----------------------------------------------------------------------------
(* The promise to the client, and liveness *)

\* What a client learns from GetByID, whatever the status column says.
OutcomeOf(u) ==
    IF u \notin Stored THEN [state |-> "none", quote |-> {}]
    ELSE LET got == GetByID(u)
         IN  [state |-> IF got.failure_code # "NULL" THEN "failed"
                        ELSE IF got.quote # {} THEN "completed"
                        ELSE "accepted",
              quote |-> got.quote]

Promise == INSTANCE UpdateOutcome
              WITH Quote <- Time, outcome <- [u \in UpdateID |-> OutcomeOf(u)]

\* What GetByID shows of an update is decided once and never taken back,
\* through recoveries, late workers, abandoned statements and restarts.
KeepsPromise == Promise!OutcomeSpec

\* Every stored update is completed or failed eventually: no crash, shutdown,
\* lost reply or expired lease loses one, and recovery needs no help.
EveryUpdateIsDecided == Promise!AcceptedIsDecided

\* An instance that is told to stop does, whatever its workers are doing.
StopCompletes ==
    \A i \in Instance : instance[i] = "stopping" ~> instance[i] = "down"
=============================================================================
