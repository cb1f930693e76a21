---------------------------- MODULE QuoteService ----------------------------
(***************************************************************************)
(* The API side of the service: POST /api/v1/quote-updates, from the       *)
(* handler through QuoteService.CreateQuoteUpdate to the two statements of *)
(* QuoteUpdateRepository.CreateOrGet,                                      *)
(*    INSERT ... ON CONFLICT (idempotency_key) DO NOTHING                  *)
(*    SELECT ... WHERE idempotency_key = $1                                *)
(* which are two transactions.                                             *)
(*                                                                         *)
(* A call is one invocation of the handler.  Its client may have gone away *)
(* and sent the request again, to any instance, so that several calls of   *)
(* one request run side by side; a call may also end without an answer     *)
(* after either statement took effect.  answers is a history variable, the *)
(* answers written so far, whether or not a client got to read them.       *)
(*                                                                         *)
(* The workers are reduced to what they do to the tables.  The clock       *)
(* stands still, for nothing here depends on it.                           *)
(***************************************************************************)
EXTENDS QuoteUpdateRepository

CONSTANT MaxVersion  \* bound: leases an update is given

ASSUME MaxVersionAssumption == MaxVersion \in Nat

VARIABLES
    generated,  \* ids the UUID generator has handed out
    calls,      \* running invocations of createQuoteUpdate
    answers     \* responses other than HTTP 500

apiVars == <<generated, calls, answers>>
vars == <<tables, db_time, apiVars>>

\* id is the identifier generated for the call.
Call == [id: UpdateID,
         pair: Pair,
         key: Key \union {NoKey},
         stage: {"inserting", "selecting"}]

\* 202 created, 200 replayed, 422 idempotency_key_conflict; update is the id
\* in the body and in Location, and 0 in a 422.
Answer == [call: UpdateID,
           pair: Pair,
           key: Key \union {NoKey},
           code: {202, 200, 422},
           update: UpdateID \union {0}]

\* The type invariant.
TypeOK ==
    /\ RepositoryTypeOK
    /\ generated \subseteq UpdateID
    /\ calls \subseteq Call
    /\ answers \subseteq Answer

Init ==
    /\ RepositoryInit
    /\ generated = {}
    /\ calls = {}
    /\ answers = {}

Reply(c, code, update) ==
    /\ calls' = calls \ {c}
    /\ answers' = answers \union
          {[call |-> c.id, pair |-> c.pair, key |-> c.key,
            code |-> code, update |-> update]}

-----------------------------------------------------------------------------
\* A request passes the handler's checks and gets the id of a new update.
CreateQuoteUpdate(id, p, k) ==
    /\ id \notin generated
    /\ generated' = generated \union {id}
    /\ calls' = calls \union {[id |-> id, pair |-> p, key |-> k, stage |-> "inserting"]}
    /\ UNCHANGED <<tables, db_time, answers>>

Insert(c) ==
    /\ c.stage = "inserting"
    /\ InsertRow(c.id, c.pair, c.key)
    /\ Reply(c, 202, c.id)
    /\ UNCHANGED <<db_time, generated>>

\* (mutant) a key another call is using counts as a conflict
InsertConflictsWithCall(c) ==
    /\ c.stage = "inserting"
    /\ \E d \in calls \ {c} : d.key = c.key /\ c.key # NoKey
    /\ calls' = (calls \ {c}) \union {[c EXCEPT !.stage = "selecting"]}
    /\ UNCHANGED <<tables, db_time, generated, answers>>

\* DO NOTHING: the INSERT returns no row.
InsertConflicts(c) ==
    /\ c.stage = "inserting"
    /\ WithKey(c.key) # {}
    /\ calls' = (calls \ {c}) \union {[c EXCEPT !.stage = "selecting"]}
    /\ UNCHANGED <<tables, db_time, generated, answers>>

\* (mutant) the service does not compare the pairs
GetByIdempotencyKeyAnyPair(c) ==
    /\ c.stage = "selecting"
    /\ \E u \in WithKey(c.key) : Reply(c, 200, u)
    /\ UNCHANGED <<tables, db_time, generated>>

\* stored.Pair != validatedPair makes it a conflict.
GetByIdempotencyKey(c) ==
    /\ c.stage = "selecting"
    /\ \E u \in WithKey(c.key) :
          IF quote_updates[u].pair = c.pair
          THEN Reply(c, 200, u)
          ELSE Reply(c, 422, 0)
    /\ UNCHANGED <<tables, db_time, generated>>

\* The database is unavailable, the query timeout or the client's departure
\* ends the context, the process dies: the call ends without one of these
\* answers.  When it ends after its statement took effect, that is the step
\* of the statement, whose answer nobody reads.
CallFails(c) ==
    /\ calls' = calls \ {c}
    /\ UNCHANGED <<tables, db_time, generated, answers>>

-----------------------------------------------------------------------------
LeaseOf(u) == [id |-> u, token |-> quote_updates[u].processing_version]

\* What QuoteUpdateWorkers does to the tables.
Background ==
    /\ \/ \E u \in WithStatus("pending") :
             /\ quote_updates[u].processing_version < MaxVersion
             /\ TakeRow(u)
       \/ \E u \in WithStatus("processing") :
             CompleteRow(LeaseOf(u), db_time) \/ FailRow(LeaseOf(u)) \/ ExpireRow(u)
       \/ RequeueRows
    /\ UNCHANGED <<db_time, apiVars>>

CallStep(c) ==
    \/ Insert(c)
    \/ InsertConflicts(c)
    \/ GetByIdempotencyKey(c)
    \/ CallFails(c)

Next ==
    \/ \E id \in UpdateID, p \in Pair, k \in Key \union {NoKey} :
          CreateQuoteUpdate(id, p, k)
    \/ \E c \in calls : CallStep(c)
    \/ Background

Spec == Init /\ [][Next]_vars

-----------------------------------------------------------------------------
\* Requests that carry one Idempotency-Key create one update between them,
\* however many calls run at once, on any instance, and whenever they come:
\* also when the first update was decided long ago.
OneUpdatePerKey ==
    \A u, v \in Stored :
        /\ quote_updates[u].idempotency_key # NoKey
        /\ quote_updates[u].idempotency_key = quote_updates[v].idempotency_key
        => u = v

\* An accepted update is not lost: what a 202 or a 200 names is in the queue
\* under the pair and the key of the request.  A 422 is deserved: the key
\* belongs to an update of another pair.
AnswersAreTrue ==
    \A a \in answers :
        IF a.code = 422
        THEN \E u \in WithKey(a.key) : quote_updates[u].pair # a.pair
        ELSE /\ a.update \in Stored
             /\ quote_updates[a.update].pair = a.pair
             /\ quote_updates[a.update].idempotency_key = a.key

\* All answers under one key tell one story: the same update and the same pair
\* to everybody who is served, 202 to one of them at most, and 422 to nobody
\* who asks for the pair that is served.
AnswersAgree ==
    \A a, b \in answers :
        a.key # NoKey /\ a.key = b.key =>
            /\ a.code # 422 /\ b.code # 422 => a.update = b.update /\ a.pair = b.pair
            /\ a.code = 202 /\ b.code = 202 => a.call = b.call
            /\ a.code = 422 /\ b.code # 422 => a.pair # b.pair

\* The error "conflicting idempotency key was not found" never happens: the row
\* the INSERT ran into is still there for the SELECT, a transaction later.
ConflictIsFound ==
    \A c \in calls : c.stage = "selecting" => WithKey(c.key) # {}

\* A key that is bound to an update stays bound to it and to its pair.
KeysStayBound ==
    [][\A k \in Key : \A u \in WithKey(k) :
          WithKey(k)' = {u} /\ quote_updates'[u].pair = quote_updates[u].pair]_vars
=============================================================================
