------------------------- MODULE QuoteService_proofs -------------------------
(***************************************************************************)
(* Idempotency for every number of requests, keys, pairs and updates.  The *)
(* statements of the background workers never touch what identifies an     *)
(* update, and the INSERT adds a row only under a key nobody has used; all *)
(* that is said about answers follows from that.                           *)
(***************************************************************************)
EXTENDS QuoteService, QuoteUpdateRepository_proofs

USE DEF Stored, WithStatus

CreatedIsOwn == \A a \in answers : a.code = 202 => a.update = a.call

IndInv ==
    /\ TypeOK
    /\ StatusMatchesResult
    /\ OneUpdatePerKey
    /\ AnswersAreTrue
    /\ ConflictIsFound
    /\ CreatedIsOwn

\* No row disappears, changes its pair or its key.
IdentitiesKept ==
    \A v \in Stored :
        /\ v \in Stored'
        /\ quote_updates'[v].pair = quote_updates[v].pair
        /\ quote_updates'[v].idempotency_key = quote_updates[v].idempotency_key

\* What the workers do to the tables keeps identities and adds no row.
LEMMA BackgroundKeepsIdentities ==
    ASSUME IndInv, Background
    PROVE  TablesOK' /\ IdentitiesKept /\ Stored' = Stored
<1>1. TablesOK /\ db_time' \in Time /\ quote_updates \in [Stored -> Row]
  BY DEF IndInv, TypeOK, TablesOK, RepositoryTypeOK, Background
<1>2. ASSUME NEW u \in WithStatus("pending"), TakeRow(u)
      PROVE  TablesOK' /\ IdentitiesKept /\ Stored' = Stored
  <2>1. TablesOK' /\ Stored' = Stored
    BY <1>1, <1>2, TakeRowKeepsTables
  <2>2. IdentitiesKept
    BY <1>1, <1>2 DEF TakeRow, Row, IdentitiesKept
  <2> QED
    BY <2>1, <2>2
<1>3. ASSUME NEW u \in WithStatus("processing"), CompleteRow(LeaseOf(u), db_time)
      PROVE  TablesOK' /\ IdentitiesKept /\ Stored' = Stored
  <2>1. LeaseOf(u) \in Claim /\ db_time \in Time
    BY <1>1 DEF LeaseOf, Claim, Row, TablesOK, RepositoryTypeOK
  <2>2. TablesOK' /\ Stored' = Stored
    BY <1>1, <1>3, <2>1, CompleteRowKeepsTables
  <2>3. IdentitiesKept
    BY <1>1, <1>3 DEF CompleteRow, Row, IdentitiesKept
  <2> QED
    BY <2>2, <2>3
<1>4. ASSUME NEW u \in WithStatus("processing"), FailRow(LeaseOf(u))
      PROVE  TablesOK' /\ IdentitiesKept /\ Stored' = Stored
  <2>1. LeaseOf(u) \in Claim
    BY <1>1 DEF LeaseOf, Claim, Row, TablesOK, RepositoryTypeOK
  <2>2. TablesOK' /\ Stored' = Stored
    BY <1>1, <1>4, <2>1, FailRowKeepsTables
  <2>3. IdentitiesKept
    BY <1>1, <1>4 DEF FailRow, Row, IdentitiesKept
  <2> QED
    BY <2>2, <2>3
<1>5. ASSUME NEW u \in WithStatus("processing"), ExpireRow(u)
      PROVE  TablesOK' /\ IdentitiesKept /\ Stored' = Stored
  <2>1. u \in UpdateID
    BY <1>1 DEF TablesOK, RepositoryTypeOK
  <2>2. TablesOK' /\ Stored' = Stored
    BY <1>1, <1>5, <2>1, ExpireRowKeepsTables
  <2>3. IdentitiesKept
    BY <1>1, <1>5 DEF ExpireRow, Row, IdentitiesKept
  <2> QED
    BY <2>2, <2>3
<1>6. ASSUME RequeueRows
      PROVE  TablesOK' /\ IdentitiesKept /\ Stored' = Stored
  <2>1. TablesOK' /\ Stored' = Stored
    BY <1>1, <1>6, RequeueRowsKeepsTables
  <2>2. PICK now \in TransactionStart :
          quote_updates' = [u \in Stored |->
              IF u \in StaleRows
              THEN [quote_updates[u] EXCEPT !.status = "pending",
                                            !.failure_code = "NULL",
                                            !.updated_at = now,
                                            !.stale = FALSE]
              ELSE quote_updates[u]]
    BY <1>6 DEF RequeueRows
  <2>3. IdentitiesKept
    BY <1>1, <2>2 DEF Row, IdentitiesKept
  <2> QED
    BY <2>1, <2>3
<1> QED
  BY <1>2, <1>3, <1>4, <1>5, <1>6 DEF Background

\* A step that adds no row, changes no identity and answers nobody.
LEMMA KeptIdentities ==
    ASSUME IndInv, TablesOK', IdentitiesKept, Stored' = Stored,
           generated' \in SUBSET UpdateID,
           calls' \in SUBSET Call,
           answers' = answers,
           \A c \in calls' :
              c.stage = "selecting" => c \in calls \/ WithKey(c.key) # {}
    PROVE  IndInv'
<1>1. \A k : WithKey(k)' = WithKey(k)
  BY DEF WithKey, IdentitiesKept
<1>2. TypeOK' /\ StatusMatchesResult'
  BY DEF TypeOK, TablesOK, IndInv
<1>3. OneUpdatePerKey'
  BY DEF IndInv, OneUpdatePerKey, IdentitiesKept
<1>4. AnswersAreTrue'
  <2>1. ASSUME NEW a \in answers, a.code = 422
        PROVE  \E u \in WithKey(a.key)' : quote_updates'[u].pair # a.pair
    BY <1>1, <2>1 DEF IndInv, AnswersAreTrue, IdentitiesKept, WithKey
  <2>2. ASSUME NEW a \in answers, a.code # 422
        PROVE  /\ a.update \in Stored'
               /\ quote_updates'[a.update].pair = a.pair
               /\ quote_updates'[a.update].idempotency_key = a.key
    BY <2>2 DEF IndInv, AnswersAreTrue, IdentitiesKept
  <2> QED
    BY <2>1, <2>2 DEF AnswersAreTrue
<1>5. ConflictIsFound' /\ CreatedIsOwn'
  BY <1>1 DEF IndInv, ConflictIsFound, CreatedIsOwn
<1> QED
  BY <1>2, <1>3, <1>4, <1>5 DEF IndInv

\* A step that leaves the tables alone keeps identities.
LEMMA SameTables ==
    ASSUME IndInv, UNCHANGED tables, db_time' \in Time
    PROVE  TablesOK' /\ IdentitiesKept /\ Stored' = Stored
<1>1. quote_updates' = quote_updates
  BY DEF tables
<1>2. TablesOK' /\ Stored' = Stored
  BY UnchangedKeepsTables DEF IndInv, TypeOK, TablesOK
<1> QED
  BY <1>1, <1>2 DEF IdentitiesKept

\* The INSERT adds a row under a key that no row has, and answers 202.
LEMMA InsertPreserves ==
    ASSUME IndInv, NEW c \in calls, Insert(c)
    PROVE  IndInv' /\ IdentitiesKept
<1>1. /\ TablesOK /\ db_time' = db_time /\ db_time' \in Time
      /\ c \in Call /\ InsertRow(c.id, c.pair, c.key)
      /\ WithKey(c.key) = {}
      /\ calls' \subseteq calls /\ generated' = generated
  BY DEF IndInv, TypeOK, TablesOK, RepositoryTypeOK, Insert, InsertRow, Reply
<1> DEFINE a0 == [call |-> c.id, pair |-> c.pair, key |-> c.key,
                  code |-> 202, update |-> c.id]
<1>2. answers' = answers \union {a0} /\ a0 \in Answer
  BY <1>1 DEF Insert, Reply, Call, Answer
<1>3. /\ TablesOK' /\ c.id \notin Stored /\ Stored' = Stored \union {c.id}
      /\ \A v \in Stored : quote_updates'[v] = quote_updates[v]
  BY <1>1, InsertRowKeepsTables DEF Call
<1>4. quote_updates'[c.id].pair = c.pair /\ quote_updates'[c.id].idempotency_key = c.key
  BY <1>1 DEF InsertRow, PendingRow
<1>5. IdentitiesKept
  BY <1>3 DEF IdentitiesKept
<1>6. TypeOK' /\ StatusMatchesResult'
  BY <1>1, <1>2, <1>3 DEF IndInv, TypeOK, TablesOK
<1>7. OneUpdatePerKey'
  BY <1>1, <1>3, <1>4 DEF IndInv, OneUpdatePerKey, WithKey
<1>8. \A k : WithKey(k) \subseteq WithKey(k)'
  BY <1>3 DEF WithKey
<1>9. AnswersAreTrue'
  <2>1. ASSUME NEW a \in answers, a.code = 422
        PROVE  \E u \in WithKey(a.key)' : quote_updates'[u].pair # a.pair
    <3>1. PICK u \in WithKey(a.key) : quote_updates[u].pair # a.pair
      BY <2>1 DEF IndInv, AnswersAreTrue
    <3>2. u \in WithKey(a.key)' /\ quote_updates'[u].pair # a.pair
      BY <1>3, <1>8, <3>1 DEF WithKey
    <3> QED
      BY <3>2
  <2>2. ASSUME NEW a \in answers, a.code # 422
        PROVE  /\ a.update \in Stored'
               /\ quote_updates'[a.update].pair = a.pair
               /\ quote_updates'[a.update].idempotency_key = a.key
    BY <1>3, <2>2 DEF IndInv, AnswersAreTrue
  <2>3. /\ a0.code # 422 /\ a0.update \in Stored'
        /\ quote_updates'[a0.update].pair = a0.pair
        /\ quote_updates'[a0.update].idempotency_key = a0.key
    BY <1>3, <1>4
  <2> HIDE DEF a0
  <2> QED
    BY <1>2, <2>1, <2>2, <2>3 DEF AnswersAreTrue
<1>10. ConflictIsFound'
  BY <1>1, <1>8 DEF IndInv, ConflictIsFound
<1>11. CreatedIsOwn'
  BY <1>2 DEF IndInv, CreatedIsOwn
<1> QED
  BY <1>5, <1>6, <1>7, <1>9, <1>10, <1>11 DEF IndInv

\* The SELECT answers with the row that has the key: 200 if it is of the
\* requested pair, 422 otherwise.
LEMMA GetByIdempotencyKeyPreserves ==
    ASSUME IndInv, NEW c \in calls, GetByIdempotencyKey(c)
    PROVE  IndInv' /\ IdentitiesKept
<1>1. /\ UNCHANGED tables /\ quote_updates' = quote_updates
      /\ db_time' \in Time /\ generated' = generated
      /\ calls' \subseteq calls /\ c \in Call
  BY DEF GetByIdempotencyKey, Reply, tables, IndInv, TypeOK, RepositoryTypeOK
<1>2. TablesOK' /\ IdentitiesKept /\ Stored' = Stored
  BY <1>1, SameTables
<1>3. PICK u \in WithKey(c.key) :
         IF quote_updates[u].pair = c.pair THEN Reply(c, 200, u) ELSE Reply(c, 422, 0)
  BY DEF GetByIdempotencyKey
<1> DEFINE a0 == [call |-> c.id, pair |-> c.pair, key |-> c.key,
                  code |-> IF quote_updates[u].pair = c.pair THEN 200 ELSE 422,
                  update |-> IF quote_updates[u].pair = c.pair THEN u ELSE 0]
<1>4. answers' = answers \union {a0}
  BY <1>3 DEF Reply
<1>5. u \in Stored /\ u \in UpdateID /\ quote_updates[u].idempotency_key = c.key
  BY <1>3 DEF WithKey, IndInv, TypeOK, RepositoryTypeOK
<1>6. a0 \in Answer
  BY <1>1, <1>5 DEF Call, Answer
<1>7. TypeOK' /\ StatusMatchesResult'
  BY <1>1, <1>2, <1>4, <1>6 DEF IndInv, TypeOK, TablesOK
<1>8. \A k : WithKey(k)' = WithKey(k)
  BY <1>1 DEF WithKey
<1>9. OneUpdatePerKey' /\ ConflictIsFound'
  BY <1>1, <1>8 DEF IndInv, OneUpdatePerKey, ConflictIsFound
<1>10. AnswersAreTrue'
  <2>1. CASE quote_updates[u].pair = c.pair
    BY <1>1, <1>4, <1>5, <1>8, <2>1 DEF IndInv, AnswersAreTrue
  <2>2. CASE quote_updates[u].pair # c.pair
    BY <1>1, <1>3, <1>4, <1>5, <1>8, <2>2 DEF IndInv, AnswersAreTrue
  <2> QED
    BY <2>1, <2>2
<1>11. CreatedIsOwn'
  BY <1>4 DEF IndInv, CreatedIsOwn
<1> QED
  BY <1>2, <1>7, <1>9, <1>10, <1>11 DEF IndInv

\* Every step keeps the invariant and every identity.
LEMMA NextPreserves ==
    ASSUME IndInv, [Next]_vars
    PROVE  IndInv' /\ IdentitiesKept
<1>1. /\ TablesOK /\ db_time \in Time /\ generated \in SUBSET UpdateID
      /\ calls \in SUBSET Call
  BY DEF IndInv, TypeOK, TablesOK, RepositoryTypeOK
<1>2. ASSUME NEW id \in UpdateID, NEW p \in Pair, NEW k \in Key \union {NoKey},
             CreateQuoteUpdate(id, p, k)
      PROVE  IndInv' /\ IdentitiesKept
  <2> DEFINE c == [id |-> id, pair |-> p, key |-> k, stage |-> "inserting"]
  <2>1. /\ c \in Call /\ calls' = calls \union {c}
        /\ generated' = generated \union {id} /\ answers' = answers
        /\ UNCHANGED tables /\ db_time' \in Time
    BY <1>1, <1>2 DEF CreateQuoteUpdate, Call
  <2>2. TablesOK' /\ IdentitiesKept /\ Stored' = Stored
    BY <2>1, SameTables
  <2>3. \A d \in calls' : d.stage = "selecting" => d \in calls
    BY <2>1
  <2> HIDE DEF c
  <2> QED
    BY <1>1, <2>1, <2>2, <2>3, KeptIdentities
<1>3. ASSUME NEW c \in calls, InsertConflicts(c)
      PROVE  IndInv' /\ IdentitiesKept
  <2> DEFINE d == [c EXCEPT !.stage = "selecting"]
  <2>1. /\ d \in Call /\ d.key = c.key
    BY <1>1 DEF Call
  <2>2. /\ calls' = (calls \ {c}) \union {d} /\ WithKey(c.key) # {}
        /\ generated' = generated /\ answers' = answers
        /\ UNCHANGED tables /\ db_time' \in Time
    BY <1>1, <1>3 DEF InsertConflicts
  <2> HIDE DEF d
  <2>3. TablesOK' /\ IdentitiesKept /\ Stored' = Stored
    BY <2>2, SameTables
  <2>4. \A e \in calls' : e.stage = "selecting" => e \in calls \/ WithKey(e.key) # {}
    BY <2>1, <2>2
  <2>5. calls' \in SUBSET Call
    BY <1>1, <2>1, <2>2
  <2> QED
    BY <1>1, <2>2, <2>3, <2>4, <2>5, KeptIdentities
<1>4. ASSUME NEW c \in calls, CallFails(c)
      PROVE  IndInv' /\ IdentitiesKept
  <2>1. /\ calls' \subseteq calls /\ generated' = generated /\ answers' = answers
        /\ UNCHANGED tables /\ db_time' \in Time
    BY <1>1, <1>4 DEF CallFails
  <2>2. TablesOK' /\ IdentitiesKept /\ Stored' = Stored
    BY <2>1, SameTables
  <2> QED
    BY <1>1, <2>1, <2>2, KeptIdentities
<1>5. ASSUME Background
      PROVE  IndInv' /\ IdentitiesKept
  <2>1. TablesOK' /\ IdentitiesKept /\ Stored' = Stored
    BY <1>5, BackgroundKeepsIdentities
  <2>2. calls' = calls /\ generated' = generated /\ answers' = answers
    BY <1>5 DEF Background, apiVars
  <2> QED
    BY <1>1, <2>1, <2>2, KeptIdentities
<1>6. ASSUME UNCHANGED vars
      PROVE  IndInv' /\ IdentitiesKept
  <2>1. /\ calls' = calls /\ generated' = generated /\ answers' = answers
        /\ UNCHANGED tables
    BY <1>6 DEF vars, apiVars
  <2>2. db_time' \in Time
    BY <1>1, <1>6 DEF Time, vars
  <2>3. TablesOK' /\ IdentitiesKept /\ Stored' = Stored
    BY <2>1, <2>2, SameTables
  <2> QED
    BY <1>1, <2>1, <2>3, KeptIdentities
<1> QED
  BY <1>2, <1>3, <1>4, <1>5, <1>6, InsertPreserves, GetByIdempotencyKeyPreserves
     DEF Next, CallStep

\* Before the first request there is nothing to agree about.
LEMMA InitEstablishes == Init => IndInv
<1> SUFFICES ASSUME Init PROVE IndInv
  OBVIOUS
<1>1. /\ quote_updates = [u \in {} |-> 0] /\ exchange_rates = [u \in {} |-> 0]
      /\ db_time = 0 /\ generated = {} /\ calls = {} /\ answers = {}
  BY DEF Init, RepositoryInit
<1>2. RepositoryTypeOK
  BY <1>1, MaxTimeAssumption DEF RepositoryTypeOK, Time
<1> QED
  BY <1>1, <1>2 DEF IndInv, TypeOK, StatusMatchesResult, OneUpdatePerKey,
                    AnswersAreTrue, ConflictIsFound, CreatedIsOwn

\* The inductive invariant holds in every reachable state.
THEOREM ServiceInvariance == Spec => []IndInv
<1>1. IndInv /\ [Next]_vars => IndInv'
  BY NextPreserves
<1> QED
  BY InitEstablishes, <1>1, PTL DEF Spec

\* Type correctness.
THEOREM ServiceTypeCorrectness == Spec => []TypeOK
<1>1. IndInv => TypeOK
  BY DEF IndInv
<1> QED
  BY ServiceInvariance, <1>1, PTL

\* However requests with one key interleave, fail and are retried, they create
\* one update (CreateOrGet).
THEOREM KeysAreUnique == Spec => []OneUpdatePerKey
<1>1. IndInv => OneUpdatePerKey
  BY DEF IndInv
<1> QED
  BY ServiceInvariance, <1>1, PTL

\* What 202 and 200 name is stored as requested, and a 422 is deserved
\* (CreateQuoteUpdate's comparison of the pairs).
THEOREM AnswersHold == Spec => []AnswersAreTrue
<1>1. IndInv => AnswersAreTrue
  BY DEF IndInv
<1> QED
  BY ServiceInvariance, <1>1, PTL

\* All answers under one key name one update, and one of them at most is 202.
THEOREM AnswersUnderOneKeyAgree == Spec => []AnswersAgree
<1>1. IndInv => AnswersAgree
  <2> SUFFICES ASSUME IndInv,
                      NEW a \in answers, NEW b \in answers,
                      a.key # NoKey, a.key = b.key
               PROVE  /\ a.code # 422 /\ b.code # 422 => a.update = b.update /\ a.pair = b.pair
                      /\ a.code = 202 /\ b.code = 202 => a.call = b.call
                      /\ a.code = 422 /\ b.code # 422 => a.pair # b.pair
    BY DEF AnswersAgree
  <2>1. a.code # 422 /\ b.code # 422 => a.update = b.update /\ a.pair = b.pair
    BY DEF IndInv, OneUpdatePerKey, AnswersAreTrue
  <2>2. a.code = 202 /\ b.code = 202 => a.call = b.call
    BY <2>1 DEF IndInv, CreatedIsOwn
  <2>3. ASSUME a.code = 422, b.code # 422
        PROVE  a.pair # b.pair
    <3>1. PICK u \in Stored : /\ quote_updates[u].idempotency_key = a.key
                              /\ quote_updates[u].pair # a.pair
      BY <2>3 DEF IndInv, AnswersAreTrue, WithKey
    <3>2. /\ b.update \in Stored /\ quote_updates[b.update].pair = b.pair
          /\ quote_updates[b.update].idempotency_key = a.key
      BY <2>3 DEF IndInv, AnswersAreTrue
    <3>3. u = b.update
      BY <3>1, <3>2 DEF IndInv, OneUpdatePerKey
    <3> QED
      BY <3>1, <3>2, <3>3
  <2> QED
    BY <2>1, <2>2, <2>3
<1> QED
  BY ServiceInvariance, <1>1, PTL

\* The SELECT after a conflict always finds the row.
THEOREM ConflictsAreFound == Spec => []ConflictIsFound
<1>1. IndInv => ConflictIsFound
  BY DEF IndInv
<1> QED
  BY ServiceInvariance, <1>1, PTL

\* A key's update and the update's pair never change.
THEOREM BindingsAreStable == Spec => KeysStayBound
<1>1. IndInv /\ [Next]_vars =>
        [\A k \in Key : \A u \in WithKey(k) :
            WithKey(k)' = {u} /\ quote_updates'[u].pair = quote_updates[u].pair]_vars
  <2> SUFFICES ASSUME IndInv, [Next]_vars, NEW k \in Key, NEW u \in WithKey(k)
               PROVE  WithKey(k)' = {u} /\ quote_updates'[u].pair = quote_updates[u].pair
    OBVIOUS
  <2>1. IndInv' /\ IdentitiesKept
    BY NextPreserves
  <2>2. OneUpdatePerKey'
    BY <2>1 DEF IndInv
  <2> QED
    BY <2>1, <2>2 DEF OneUpdatePerKey, IdentitiesKept, WithKey
<1> QED
  BY ServiceInvariance, <1>1, PTL DEF Spec, KeysStayBound
=============================================================================
