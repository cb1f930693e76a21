---------------------- MODULE QuoteUpdateWorkers_proofs ----------------------
(***************************************************************************)
(* Safety of the workers for every number of workers, instances, updates,  *)
(* pairs and faults.  The inductive invariant joins the type invariant,    *)
(* the consistency of the two tables, the row locks and the fencing        *)
(* tokens: none of them is inductive alone.                                *)
(***************************************************************************)
EXTENDS QuoteUpdateWorkers, QuoteUpdateRepository_proofs

USE DEF Stored, WithStatus

IndInv ==
    /\ TypeOK
    /\ StatusMatchesResult
    /\ LockedRowsStayPending
    /\ ClaimsAreFenced

\* What holds of the locks alone, however little the tokens are worth.
LocksInv == TypeOK /\ LockedRowsStayPending

\* A step keeps the locks, and the fencing of the claims if it was there.
KeepsQueue ==
    /\ LockedRowsStayPending'
    /\ ClaimsAreFenced => ClaimsAreFenced'

Preserves == LocksInv' /\ KeepsQueue

\* A step hands out no claim, but for those of the workers in except.
LetsGo(except) ==
    \A w \in Claimants' \ except : w \in Claimants /\ claim'[w] = claim[w]

\* A step in which workers only let go of locks and claims keeps the queue.
LEMMA LettingGo ==
    ASSUME LocksInv, RepositoryTypeOK', TablesGrow({}),
           \A w \in Taking' : w \in Taking /\ claim'[w] = claim[w],
           \A w \in Claimants' : w \in Claimants /\ claim'[w] = claim[w],
           abandoned' \subseteq abandoned
    PROVE  KeepsQueue
<1>1. AbandonedTakes' \subseteq AbandonedTakes /\ AbandonedResults' \subseteq AbandonedResults
  BY DEF AbandonedTakes, AbandonedResults
<1>2. LockedRows' \subseteq LockedRows
  BY <1>1 DEF LockedRows
<1>3. WithStatus("pending") \subseteq WithStatus("pending")'
  BY DEF TablesGrow
<1>4. LockedRowsStayPending'
  BY <1>1, <1>2, <1>3 DEF LocksInv, LockedRowsStayPending
<1>5. \A c : Issued(c) => Issued(c)'
  <2>1. \A u \in Stored : /\ u \in Stored'
                          /\ quote_updates'[u].processing_version \in Nat
                          /\ quote_updates[u].processing_version \in Nat
    BY DEF TablesGrow, RepositoryTypeOK, Row, LocksInv, TypeOK
  <2> QED
    BY <2>1 DEF Issued, TablesGrow
<1>6. ASSUME ClaimsAreFenced
      PROVE  ClaimsAreFenced'
  BY <1>6, <1>1, <1>5 DEF ClaimsAreFenced
<1> QED
  BY <1>4, <1>6 DEF KeepsQueue

\* Calls that give up on their statements: every worker in gone leaves a
\* statement behind and holds nothing any more.
LEMMA Abandoning ==
    ASSUME LocksInv, RepositoryTypeOK', TablesGrow({}),
           NEW gone \in SUBSET {w \in Worker : InFlight(w)},
           abandoned' = abandoned \union {StatementOf(w) : w \in gone},
           \A w \in Taking' : w \in Taking \ gone /\ claim'[w] = claim[w],
           \A w \in Claimants' : w \in Claimants \ gone /\ claim'[w] = claim[w]
    PROVE  KeepsQueue
<1>1. \A w \in gone : /\ w \in Taking \/ w \in Claimants
                      /\ w \in Taking <=> StatementOf(w).op = "taking"
                      /\ w \in Claimants <=> StatementOf(w).op # "taking"
                      /\ StatementOf(w).claim = claim[w]
  BY DEF InFlight, StatementOf, Taking, Claimants
<1>2. \A s \in AbandonedTakes' :
         s \in AbandonedTakes \/ \E w \in gone \intersect Taking : s = StatementOf(w)
  BY <1>1 DEF AbandonedTakes
<1>3. \A s \in AbandonedResults' :
         s \in AbandonedResults \/ \E w \in gone \intersect Claimants : s = StatementOf(w)
  BY <1>1 DEF AbandonedResults
<1>4. LockedRowsStayPending'
  <2>1. LockedRows' \subseteq LockedRows
    BY <1>1, <1>2 DEF LockedRows
  <2>2. WithStatus("pending") \subseteq WithStatus("pending")'
    BY DEF TablesGrow
  <2>3. (LockedRows \subseteq WithStatus("pending"))'
    BY <2>1, <2>2 DEF LocksInv, LockedRowsStayPending
  <2>4. (\A v, w \in Taking : claim[v].id = claim[w].id => v = w)'
    BY DEF LocksInv, LockedRowsStayPending
  <2>5. (\A w \in Taking, s \in AbandonedTakes : claim[w].id # s.claim.id)'
    BY <1>1, <1>2 DEF LocksInv, LockedRowsStayPending
  <2>6. (\A s, t \in AbandonedTakes : s.claim.id = t.claim.id => s = t)'
    BY <1>1, <1>2 DEF LocksInv, LockedRowsStayPending
  <2> QED
    BY <2>3, <2>4, <2>5, <2>6 DEF LockedRowsStayPending
<1>5. \A c : Issued(c) => Issued(c)'
  <2>1. \A u \in Stored : /\ u \in Stored'
                          /\ quote_updates'[u].processing_version \in Nat
                          /\ quote_updates[u].processing_version \in Nat
    BY DEF TablesGrow, RepositoryTypeOK, Row, LocksInv, TypeOK
  <2> QED
    BY <2>1 DEF Issued, TablesGrow
<1>6. ASSUME ClaimsAreFenced
      PROVE  ClaimsAreFenced'
  <2>1. (\A w \in Claimants : Issued(claim[w]))'
    BY <1>6, <1>5 DEF ClaimsAreFenced
  <2>2. (\A s \in AbandonedResults : Issued(s.claim))'
    BY <1>6, <1>1, <1>3, <1>5 DEF ClaimsAreFenced
  <2>3. (\A v, w \in Claimants : claim[v] = claim[w] => v = w)'
    BY <1>6 DEF ClaimsAreFenced
  <2>4. (\A w \in Claimants, s \in AbandonedResults : claim[w] # s.claim)'
    BY <1>6, <1>1, <1>3 DEF ClaimsAreFenced
  <2>5. (\A s, t \in AbandonedResults : s.claim = t.claim => s = t)'
    BY <1>6, <1>1, <1>3 DEF ClaimsAreFenced
  <2> QED
    BY <2>1, <2>2, <2>3, <2>4, <2>5 DEF ClaimsAreFenced
<1> QED
  BY <1>4, <1>6 DEF KeepsQueue

\* A row lock is granted on a pending row that nobody has locked.
LEMMA TakeLockKeepsQueue ==
    ASSUME LocksInv, NEW x \in Worker, NEW u \in UpdateID, TakeLock(x, u)
    PROVE  RepositoryTypeOK' /\ KeepsQueue
<1>1. /\ pc' = [pc EXCEPT ![x] = "taking"]
      /\ claim' = [claim EXCEPT ![x] = [id |-> u, token |-> 0]]
      /\ abandoned' = abandoned /\ UNCHANGED tables /\ db_time' = db_time
      /\ pc[x] = "polling"
      /\ u \in WithStatus("pending") /\ u \notin LockedRows
  BY DEF TakeLock, NextUnlocked
<1>2. RepositoryTypeOK' /\ TablesGrow({}) /\ Stored' = Stored
  <2>1. db_time' \in Time
    BY <1>1 DEF LocksInv, TypeOK, RepositoryTypeOK
  <2> QED
    BY <1>1, <2>1, UnchangedKeepsTypes DEF LocksInv, TypeOK
<1>3. /\ Taking' = Taking \union {x} /\ x \notin Taking
      /\ Claimants' = Claimants /\ x \notin Claimants
      /\ claim'[x].id = u
      /\ \A w \in Worker \ {x} : claim'[w] = claim[w]
      /\ AbandonedTakes' = AbandonedTakes /\ AbandonedResults' = AbandonedResults
  BY <1>1 DEF Taking, Claimants, AbandonedTakes, AbandonedResults, LocksInv, TypeOK
<1>4. LockedRowsStayPending'
  <2>1. LockedRows' \subseteq LockedRows \union {u}
    BY <1>3 DEF LockedRows, Taking
  <2>2. WithStatus("pending")' = WithStatus("pending")
    BY <1>1 DEF tables
  <2>3. \A w \in Taking : claim[w].id # u
    BY <1>1 DEF LockedRows
  <2>4. \A s \in AbandonedTakes : s.claim.id # u
    BY <1>1 DEF LockedRows
  <2>5. (LockedRows \subseteq WithStatus("pending"))'
    BY <1>1, <2>1, <2>2 DEF LocksInv, LockedRowsStayPending
  <2>6. \A w \in Taking : w \in Worker /\ w # x
    BY <1>3 DEF Taking
  <2> QED
    BY <1>3, <2>3, <2>4, <2>5, <2>6 DEF LocksInv, LockedRowsStayPending
<1>5. ASSUME ClaimsAreFenced
      PROVE  ClaimsAreFenced'
  <2>1. \A w \in Claimants : claim'[w] = claim[w]
    BY <1>3 DEF Claimants
  <2>2. \A c : Issued(c)' <=> Issued(c)
    BY <1>1 DEF Issued, tables
  <2> QED
    BY <1>5, <1>3, <2>1, <2>2 DEF ClaimsAreFenced
<1> QED
  BY <1>2, <1>4, <1>5 DEF KeepsQueue

\* A committed take hands out a claim nobody else has.
LEMMA TakeCommitKeepsQueue ==
    ASSUME LocksInv, StatusMatchesResult, NEW x \in Worker, TakeCommit(x)
    PROVE  /\ TablesOK' /\ KeepsQueue
           /\ claim'[x] \in Claim
<1> DEFINE u == claim[x].id
<1>1. /\ pc[x] = "taking" /\ TakeRow(u)
      /\ claim' = [claim EXCEPT ![x].token = quote_updates'[u].processing_version]
      /\ pc' = [pc EXCEPT ![x] = "fetching"]
      /\ abandoned' = abandoned /\ db_time' = db_time
  BY DEF TakeCommit
<1>2. x \in Taking /\ u \in LockedRows /\ u \in WithStatus("pending")
  BY <1>1 DEF Taking, LockedRows, LocksInv, LockedRowsStayPending
<1>3. /\ TablesOK' /\ TablesGrow({u}) /\ u \in Stored /\ Stored' = Stored
      /\ quote_updates'[u].processing_version = quote_updates[u].processing_version + 1
  <2>1. db_time' \in Time
    BY <1>1 DEF LocksInv, TypeOK, RepositoryTypeOK
  <2> HIDE DEF u
  <2> QED
    BY <1>1, <1>2, <2>1, TakeRowKeepsTables DEF LocksInv, TypeOK, TablesOK
<1>4. \A v \in Stored : /\ quote_updates[v].processing_version \in Nat
                        /\ quote_updates'[v].processing_version \in Nat
  BY <1>3 DEF LocksInv, TypeOK, TablesOK, RepositoryTypeOK, Row
<1>5. /\ claim[x] \in Claim /\ claim \in [Worker -> Claim]
      /\ claim'[x] \in Claim
      /\ claim'[x].id = u
      /\ claim'[x].token = quote_updates'[u].processing_version
      /\ \A w \in Worker \ {x} : claim'[w] = claim[w]
  <2>1. claim \in [Worker -> Claim] /\ claim[x] \in Claim
    BY DEF LocksInv, TypeOK
  <2>2. quote_updates'[u].processing_version \in Nat
    BY <1>3, <1>4
  <2> QED
    BY <1>1, <2>1, <2>2 DEF Claim
<1>6. /\ Taking' = Taking \ {x} /\ Claimants' = Claimants \union {x}
      /\ x \notin Claimants
      /\ AbandonedTakes' = AbandonedTakes /\ AbandonedResults' = AbandonedResults
  BY <1>1 DEF Taking, Claimants, AbandonedTakes, AbandonedResults, LocksInv, TypeOK
<1> HIDE DEF u
<1>7. LockedRowsStayPending'
  <2>1. \A w \in Taking' : claim'[w] = claim[w] /\ claim[w].id \in LockedRows /\ claim[w].id # u
    BY <1>2, <1>5, <1>6 DEF Taking, LockedRows, LocksInv, LockedRowsStayPending, u
  <2>2. \A s \in AbandonedTakes : s.claim.id \in LockedRows /\ s.claim.id # u
    BY <1>2 DEF LockedRows, LocksInv, LockedRowsStayPending, u
  <2>3. LockedRows' \subseteq LockedRows \ {u}
    BY <1>6, <2>1, <2>2 DEF LockedRows
  <2>4. WithStatus("pending") \ {u} \subseteq WithStatus("pending")'
    BY <1>3 DEF TablesGrow
  <2>5. (LockedRows \subseteq WithStatus("pending"))'
    BY <2>3, <2>4 DEF LocksInv, LockedRowsStayPending
  <2> QED
    BY <1>6, <2>1, <2>2, <2>5 DEF LocksInv, LockedRowsStayPending
<1>8. ASSUME ClaimsAreFenced
      PROVE  ClaimsAreFenced'
  <2>1. \A c : Issued(c) => Issued(c)'
    BY <1>3, <1>4 DEF Issued, TablesGrow
  <2>2. \A c : Issued(c) => c # claim'[x]
    BY <1>3, <1>4, <1>5 DEF Issued
  <2>3. Issued(claim[x])'
    BY <1>3, <1>4, <1>5 DEF Issued
  <2>4. \A w \in Claimants : w # x /\ claim'[w] = claim[w]
    BY <1>5, <1>6 DEF Claimants
  <2>5. (\A w \in Claimants : Issued(claim[w]))'
    BY <1>8, <1>6, <2>1, <2>3, <2>4 DEF ClaimsAreFenced
  <2>6. (\A s \in AbandonedResults : Issued(s.claim))'
    BY <1>8, <1>6, <2>1 DEF ClaimsAreFenced
  <2>7. (\A v, w \in Claimants : claim[v] = claim[w] => v = w)'
    BY <1>8, <1>6, <2>2, <2>4 DEF ClaimsAreFenced
  <2>8. (\A w \in Claimants, s \in AbandonedResults : claim[w] # s.claim)'
    BY <1>8, <1>6, <2>2, <2>4 DEF ClaimsAreFenced
  <2>9. (\A s, t \in AbandonedResults : s.claim = t.claim => s = t)'
    BY <1>8, <1>6 DEF ClaimsAreFenced
  <2> QED
    BY <2>5, <2>6, <2>7, <2>8, <2>9 DEF ClaimsAreFenced
<1> QED
  BY <1>3, <1>5, <1>7, <1>8 DEF KeepsQueue

\* An abandoned take that commits leaves a processing row nobody has a claim on.
LEMMA AbandonedTakeKeepsQueue ==
    ASSUME LocksInv, StatusMatchesResult, NEW x \in abandoned, x.op = "taking", TakeRow(x.claim.id),
           abandoned' = abandoned \ {x}, UNCHANGED <<db_time, pc, claim>>
    PROVE  TablesOK' /\ KeepsQueue
<1> DEFINE u == x.claim.id
<1>1. x \in AbandonedTakes /\ u \in LockedRows /\ u \in WithStatus("pending")
  BY DEF AbandonedTakes, LockedRows, LocksInv, LockedRowsStayPending
<1>2. TablesOK' /\ TablesGrow({u}) /\ u \in Stored /\ Stored' = Stored
  <2>1. db_time' \in Time
    BY DEF LocksInv, TypeOK, RepositoryTypeOK
  <2>2. TakeRow(u)
    OBVIOUS
  <2> HIDE DEF u
  <2> QED
    BY <1>1, <2>1, <2>2, TakeRowKeepsTables DEF LocksInv, TypeOK, TablesOK
<1>3. \A v \in Stored : /\ quote_updates[v].processing_version \in Nat
                        /\ quote_updates'[v].processing_version \in Nat
  BY <1>2 DEF LocksInv, TypeOK, TablesOK, RepositoryTypeOK, Row
<1>4. /\ Taking' = Taking /\ Claimants' = Claimants
      /\ AbandonedTakes' = AbandonedTakes \ {x} /\ AbandonedResults' = AbandonedResults
  BY DEF Taking, Claimants, AbandonedTakes, AbandonedResults
<1>5. LockedRowsStayPending'
  <2>1. \A w \in Taking : claim[w].id \in LockedRows /\ claim[w].id # u
    BY <1>1 DEF LockedRows, LocksInv, LockedRowsStayPending
  <2>2. \A s \in AbandonedTakes' : s.claim.id \in LockedRows /\ s.claim.id # u
    BY <1>1, <1>4 DEF LockedRows, LocksInv, LockedRowsStayPending
  <2>3. LockedRows' \subseteq LockedRows \ {u}
    BY <1>4, <2>1, <2>2 DEF LockedRows
  <2>4. WithStatus("pending") \ {u} \subseteq WithStatus("pending")'
    BY <1>2 DEF TablesGrow
  <2>5. (LockedRows \subseteq WithStatus("pending"))'
    BY <2>3, <2>4 DEF LocksInv, LockedRowsStayPending
  <2> QED
    BY <1>4, <2>1, <2>2, <2>5 DEF LocksInv, LockedRowsStayPending
<1>6. ASSUME ClaimsAreFenced
      PROVE  ClaimsAreFenced'
  <2>1. \A c : Issued(c) => Issued(c)'
    BY <1>2, <1>3 DEF Issued, TablesGrow
  <2> QED
    BY <1>6, <1>4, <2>1 DEF ClaimsAreFenced
<1> QED
  BY <1>2, <1>5, <1>6 DEF KeepsQueue

-----------------------------------------------------------------------------
\* The end of processNext: the worker holds nothing any more.
LEMMA EndProcessNextLetsGo ==
    ASSUME LocksInv, NEW x \in Worker, NEW next \in {"polling", "waiting"},
           EndProcessNext(x, next)
    PROVE  /\ pc' \in [Worker -> {"polling", "taking", "fetching", "completing",
                                  "failing", "waiting", "stopped"}]
           /\ claim' \in [Worker -> Claim]
           /\ result' \in [Worker -> Result]
           /\ \A w \in Taking' : w \in Taking \ {x} /\ claim'[w] = claim[w]
           /\ \A w \in Claimants' : w \in Claimants \ {x} /\ claim'[w] = claim[w]
<1>1. NoClaim \in Claim /\ NoResult \in Result
  BY MaxTimeAssumption DEF NoClaim, Claim, NoResult, Result, Time
<1>2. /\ pc' = [pc EXCEPT ![x] = IF Stopping(x) THEN "stopped" ELSE next]
      /\ claim' = [claim EXCEPT ![x] = NoClaim]
      /\ result' = [result EXCEPT ![x] = NoResult]
  BY DEF EndProcessNext
<1>3. pc'[x] \in {"polling", "waiting", "stopped"}
  BY <1>2 DEF LocksInv, TypeOK
<1>4. /\ pc' \in [Worker -> {"polling", "taking", "fetching", "completing",
                              "failing", "waiting", "stopped"}]
      /\ \A w \in Worker \ {x} : pc'[w] = pc[w] /\ claim'[w] = claim[w]
  BY <1>2 DEF LocksInv, TypeOK
<1> QED
  BY <1>1, <1>2, <1>3, <1>4 DEF LocksInv, TypeOK, Taking, Claimants

\* A move between two calls of processNext, or of Run, that takes no lock and
\* keeps or drops the claim.
LEMMA GotoLetsGo ==
    ASSUME LocksInv, NEW x \in Worker, NEW r \in Result,
           NEW next \in {"polling", "completing", "failing", "stopped"},
           next \in {"completing", "failing"} => pc[x] = "fetching",
           Goto(x, next, r)
    PROVE  /\ pc' \in [Worker -> {"polling", "taking", "fetching", "completing",
                                  "failing", "waiting", "stopped"}]
           /\ claim' \in [Worker -> Claim]
           /\ result' \in [Worker -> Result]
           /\ \A w \in Taking' : w \in Taking /\ claim'[w] = claim[w]
           /\ \A w \in Claimants' : w \in Claimants /\ claim'[w] = claim[w]
  BY DEF Goto, LocksInv, TypeOK, Taking, Claimants

\* The steps of a worker that change no table.
WorkerMoves(x) ==
    \/ \E u \in UpdateID : TakeLock(x, u)
    \/ TakeNothing(x) \/ FetchRate(x) \/ FetchCanceled(x) \/ CompleteRefused(x)
    \/ DatabaseError(x) \/ AbandonStatement(x) \/ NextPoll(x)

\* The steps that end processNext, with their effect on the tables.
LEMMA EndKeepsQueue ==
    ASSUME LocksInv, NEW x \in Worker, NEW next \in {"polling", "waiting"},
           EndProcessNext(x, next), RepositoryTypeOK', TablesGrow({}),
           UNCHANGED <<abandoned, instance>>, faults' \in 0..MaxFaults
    PROVE  Preserves /\ LetsGo({})
<1>1. KeepsQueue
  BY EndProcessNextLetsGo, LettingGo
<1>2. TypeOK'
  BY EndProcessNextLetsGo DEF LocksInv, TypeOK, Statement
<1>4. LetsGo({})
  BY EndProcessNextLetsGo DEF LetsGo
<1> QED
  BY <1>4, <1>1, <1>2 DEF KeepsQueue, Preserves, LocksInv

\* The steps that go on within processNext or Run.
LEMMA GotoKeepsQueue ==
    ASSUME LocksInv, NEW x \in Worker, NEW r \in Result,
           NEW next \in {"polling", "completing", "failing", "stopped"},
           next \in {"completing", "failing"} => pc[x] = "fetching",
           Goto(x, next, r), UNCHANGED <<tables, db_time, abandoned, instance>>,
           faults' \in 0..MaxFaults
    PROVE  Preserves /\ LetsGo({})
<1>1. RepositoryTypeOK' /\ TablesGrow({})
  BY UnchangedKeepsTypes DEF LocksInv, TypeOK, RepositoryTypeOK
<1>2. KeepsQueue
  BY <1>1, GotoLetsGo, LettingGo
<1>3. TypeOK'
  BY <1>1, GotoLetsGo DEF LocksInv, TypeOK, Statement
<1>4. LetsGo({})
  BY GotoLetsGo DEF LetsGo
<1> QED
  BY <1>4, <1>2, <1>3 DEF KeepsQueue, Preserves, LocksInv

\* The steps that change neither the workers nor, but for their end, the
\* abandoned statements.
LEMMA OthersKeepQueue ==
    ASSUME LocksInv, RepositoryTypeOK', TablesGrow({}), UNCHANGED workerVars,
           abandoned' \subseteq abandoned,
           instance' \in [Instance -> {"running", "stopping", "down"}],
           faults' \in 0..MaxFaults
    PROVE  Preserves /\ LetsGo({})
<1>1. KeepsQueue
  BY LettingGo DEF workerVars, Taking, Claimants
<1>2. TypeOK'
  BY DEF workerVars, LocksInv, TypeOK, Statement
<1>4. LetsGo({})
  BY DEF workerVars, Claimants, LetsGo
<1> QED
  BY <1>4, <1>1, <1>2 DEF KeepsQueue, Preserves, LocksInv

\* Faults are counted within their bound.
LEMMA FaultsInBound ==
    ASSUME TypeOK
    PROVE  /\ Fault \/ UNCHANGED faults => faults' \in 0..MaxFaults
           /\ \A x \in Worker : FaultUnlessStopping(x) => faults' \in 0..MaxFaults
  BY MaxFaultsAssumption DEF Fault, FaultUnlessStopping, TypeOK

\* They keep the locks, whatever the tables hold.
LEMMA WorkerMovesPreserve ==
    ASSUME LocksInv, NEW x \in Worker, WorkerMoves(x)
    PROVE  Preserves /\ LetsGo({}) /\ UNCHANGED <<tables, db_time>>
<1> USE DEF LocksInv
<1>0. UNCHANGED <<tables, db_time>>
  BY DEF WorkerMoves, TakeLock, TakeNothing, FetchRate, FetchCanceled,
         CompleteRefused, DatabaseError, AbandonStatement, NextPoll
<1>T. db_time \in Time /\ RepositoryTypeOK' /\ TablesGrow({})
  BY <1>0, UnchangedKeepsTypes DEF TypeOK, RepositoryTypeOK
<1>F. /\ Fault \/ UNCHANGED faults => faults' \in 0..MaxFaults
      /\ FaultUnlessStopping(x) => faults' \in 0..MaxFaults
  BY FaultsInBound
<1>1. ASSUME NEW u \in UpdateID, TakeLock(x, u)
      PROVE  Preserves /\ LetsGo({})
  <2>1. KeepsQueue
    BY <1>1, TakeLockKeepsQueue
  <2>2. [id |-> u, token |-> 0] \in Claim
    BY DEF Claim
  <2>3. TypeOK'
    BY <1>1, <1>T, <2>2 DEF TakeLock, TypeOK, Statement
  <2>4. LetsGo({})
    BY <1>1 DEF TakeLock, TypeOK, Claimants, LetsGo
  <2> QED
    BY <2>1, <2>3, <2>4 DEF KeepsQueue, Preserves
<1>2. CASE TakeNothing(x)
  BY <1>2, <1>T, <1>F, EndKeepsQueue DEF TakeNothing
<1>3. CASE FetchRate(x)
  <2>1. /\ [kind |-> "quote", fetched_at |-> db_time] \in Result
        /\ [kind |-> "unstorable", fetched_at |-> db_time] \in Result
        /\ [kind |-> "provider", fetched_at |-> 0] \in Result
    BY <1>T, MaxTimeAssumption DEF Result, Time
  <2>2. CASE Goto(x, "completing", [kind |-> "quote", fetched_at |-> db_time]) /\ UNCHANGED faults
    BY <1>3, <1>F, <2>1, <2>2, GotoKeepsQueue DEF FetchRate
  <2>3. CASE Goto(x, "failing", [kind |-> "provider", fetched_at |-> 0]) /\ UNCHANGED faults
    BY <1>3, <1>F, <2>1, <2>3, GotoKeepsQueue DEF FetchRate
  <2>4. CASE Goto(x, "completing", [kind |-> "unstorable", fetched_at |-> db_time]) /\ Fault
    BY <1>3, <1>F, <2>1, <2>4, GotoKeepsQueue DEF FetchRate
  <2> QED
    BY <1>3, <2>2, <2>3, <2>4 DEF FetchRate
<1>4. CASE FetchCanceled(x)
  <2>1. [kind |-> "canceled", fetched_at |-> 0] \in Result
    BY MaxTimeAssumption DEF Result, Time
  <2> QED
    BY <1>4, <1>F, <2>1, GotoKeepsQueue DEF FetchCanceled
<1>5. CASE CompleteRefused(x)
  BY <1>5, <1>T, <1>F, EndKeepsQueue DEF CompleteRefused
<1>6. CASE DatabaseError(x)
  BY <1>6, <1>T, <1>F, EndKeepsQueue DEF DatabaseError
<1>7. CASE AbandonStatement(x)
  <2>1. /\ {x} \in SUBSET {w \in Worker : InFlight(w)}
        /\ abandoned' = abandoned \union {StatementOf(w) : w \in {x}}
    BY <1>7 DEF AbandonStatement
  <2>2. KeepsQueue
    BY <1>7, <1>T, <2>1, EndProcessNextLetsGo, Abandoning DEF AbandonStatement
  <2>3. StatementOf(x) \in Statement
    BY <1>7 DEF AbandonStatement, InFlight, StatementOf, Statement, TypeOK, Result
  <2>4. TypeOK'
    BY <1>7, <1>T, <1>F, <2>3, EndProcessNextLetsGo
    DEF AbandonStatement, TypeOK, Statement
  <2>5. LetsGo({})
    BY <1>7, EndProcessNextLetsGo DEF AbandonStatement, LetsGo
  <2> QED
    BY <1>0, <2>2, <2>4, <2>5 DEF KeepsQueue, Preserves
<1>8. CASE NextPoll(x)
  <2>1. NoResult \in Result
    BY MaxTimeAssumption DEF NoResult, Result, Time
  <2> QED
    BY <1>8, <1>F, <2>1, GotoKeepsQueue DEF NextPoll
<1> QED
  BY <1>0, <1>1, <1>2, <1>3, <1>4, <1>5, <1>6, <1>7, <1>8 DEF WorkerMoves

\* So does every statement of a worker, on tables that are consistent.
LEMMA WorkerStatementsPreserve ==
    ASSUME LocksInv, StatusMatchesResult, NEW x \in Worker,
           TakeCommit(x) \/ CompleteUpdate(x) \/ FailUpdate(x)
    PROVE  Preserves /\ LetsGo({x}) /\ StatusMatchesResult' /\ RepositoryStep
<1> USE DEF LocksInv
<1>T. TablesOK /\ db_time \in Time
  BY DEF TablesOK, TypeOK, RepositoryTypeOK
<1>C. claim[x] \in Claim /\ result[x].fetched_at \in Time
  BY DEF TypeOK, Result
<1>F. UNCHANGED faults => faults' \in 0..MaxFaults
  BY FaultsInBound
<1>1. CASE TakeCommit(x)
  <2>1. TablesOK' /\ KeepsQueue /\ claim'[x] \in Claim
    BY <1>1, TakeCommitKeepsQueue
  <2>2. claim' \in [Worker -> Claim]
    BY <1>1, <2>1 DEF TakeCommit, TypeOK
  <2>3. TypeOK'
    BY <1>1, <2>1, <2>2 DEF TakeCommit, TypeOK, TablesOK, Statement
  <2>4. LetsGo({x})
    BY <1>1 DEF TakeCommit, TypeOK, Claimants, LetsGo
  <2>5. claim[x].id \in WithStatus("pending")
    BY <1>1 DEF TakeCommit, Taking, LockedRows, LockedRowsStayPending
  <2>6. RepositoryStep
    BY <1>1, <2>5 DEF TakeCommit, RepositoryStep
  <2> QED
    BY <2>1, <2>3, <2>4, <2>6 DEF KeepsQueue, TablesOK, Preserves
<1>2. CASE CompleteUpdate(x)
  <2>1. TablesOK' /\ TablesGrow({})
    BY <1>2, <1>T, <1>C, CompleteRowKeepsTables, UnchangedKeepsTables
    DEF CompleteUpdate, DiscardResult
  <2>2. RepositoryStep
    BY <1>2, <1>C DEF CompleteUpdate, DiscardResult, RepositoryStep
  <2> QED
    BY <1>2, <1>F, <2>1, <2>2, EndKeepsQueue DEF CompleteUpdate, TablesOK, LetsGo
<1>3. CASE FailUpdate(x)
  <2>1. TablesOK' /\ TablesGrow({})
    BY <1>3, <1>T, <1>C, FailRowKeepsTables, UnchangedKeepsTables
    DEF FailUpdate, DiscardResult
  <2>2. \E next \in {"polling", "waiting"} : EndProcessNext(x, next)
    BY <1>3 DEF FailUpdate
  <2>3. RepositoryStep
    BY <1>3, <1>C DEF FailUpdate, DiscardResult, RepositoryStep
  <2> QED
    BY <1>3, <1>F, <2>1, <2>2, <2>3, EndKeepsQueue DEF FailUpdate, TablesOK, LetsGo
<1> QED
  BY <1>1, <1>2, <1>3

\* So does an instance that is stopped, crashes or starts.
LEMMA InstanceMovesPreserve ==
    ASSUME LocksInv, NEW i \in Instance, Shutdown(i) \/ Exit(i) \/ Crash(i) \/ Start(i)
    PROVE  Preserves /\ LetsGo({}) /\ UNCHANGED <<tables, db_time>>
<1> USE DEF LocksInv
<1>0. UNCHANGED <<tables, db_time>>
  BY DEF Shutdown, Exit, Crash, Start
<1>T. db_time \in Time /\ RepositoryTypeOK' /\ TablesGrow({})
  BY <1>0, UnchangedKeepsTypes DEF TypeOK, RepositoryTypeOK
<1>F. Fault \/ UNCHANGED faults => faults' \in 0..MaxFaults
  BY FaultsInBound
<1>1. CASE Shutdown(i)
  <2>1. instance' \in [Instance -> {"running", "stopping", "down"}]
    BY <1>1 DEF Shutdown, TypeOK
  <2> QED
    BY <1>0, <1>1, <1>T, <1>F, <2>1, OthersKeepQueue DEF Shutdown
<1>2. CASE Exit(i)
  <2>1. instance' \in [Instance -> {"running", "stopping", "down"}]
    BY <1>2 DEF Exit, TypeOK
  <2> QED
    BY <1>0, <1>2, <1>T, <1>F, <2>1, OthersKeepQueue DEF Exit
<1>3. CASE Crash(i)
  <2> DEFINE gone == {w \in WorkersOf(i) : InFlight(w)}
  <2>2. /\ gone \in SUBSET {w \in Worker : InFlight(w)}
        /\ abandoned' = abandoned \union {StatementOf(w) : w \in gone}
    BY <1>3 DEF Crash, WorkersOf
  <2>3. /\ pc' = [w \in Worker |-> IF Host[w] = i THEN "stopped" ELSE pc[w]]
        /\ claim' = [w \in Worker |-> IF Host[w] = i THEN NoClaim ELSE claim[w]]
        /\ result' = [w \in Worker |-> IF Host[w] = i THEN NoResult ELSE result[w]]
    BY <1>3 DEF Crash
  <2>4. /\ \A w \in Taking' : w \in Taking \ gone /\ claim'[w] = claim[w]
        /\ \A w \in Claimants' : w \in Claimants \ gone /\ claim'[w] = claim[w]
    BY <2>3 DEF Taking, Claimants, WorkersOf
  <2>5. \A w \in gone : StatementOf(w) \in Statement
    BY <2>2 DEF StatementOf, Statement, InFlight, TypeOK, Result
  <2> HIDE DEF gone
  <2>6. KeepsQueue
    BY <1>T, <2>2, <2>4, Abandoning
  <2>7. NoClaim \in Claim /\ NoResult \in Result
    BY MaxTimeAssumption DEF NoClaim, Claim, NoResult, Result, Time
  <2>8. /\ pc' \in [Worker -> {"polling", "taking", "fetching", "completing",
                               "failing", "waiting", "stopped"}]
        /\ claim' \in [Worker -> Claim] /\ result' \in [Worker -> Result]
    BY <2>3, <2>7 DEF TypeOK
  <2>9. instance' \in [Instance -> {"running", "stopping", "down"}]
    BY <1>3 DEF Crash, TypeOK
  <2>10. abandoned' \subseteq Statement
    BY <2>2, <2>5 DEF TypeOK
  <2>11. faults' \in 0..MaxFaults
    BY <1>3, <1>F DEF Crash
  <2>12. TypeOK'
    BY <1>T, <2>8, <2>9, <2>10, <2>11 DEF TypeOK, Statement, Claim, Result, Time
  <2> QED
    BY <1>0, <2>4, <2>6, <2>12 DEF KeepsQueue, Preserves, LetsGo
<1>4. CASE Start(i)
  <2>2. /\ pc' = [w \in Worker |-> IF Host[w] = i THEN "polling" ELSE pc[w]]
        /\ UNCHANGED <<claim, result, abandoned, faults>>
        /\ instance' \in [Instance -> {"running", "stopping", "down"}]
    BY <1>4 DEF Start, TypeOK
  <2>3. KeepsQueue
    BY <1>T, <2>2, LettingGo DEF Taking, Claimants
  <2>4. TypeOK'
    BY <1>T, <2>2 DEF TypeOK, Statement
  <2>5. LetsGo({})
    BY <2>2 DEF Claimants, LetsGo
  <2> QED
    BY <1>0, <2>3, <2>4, <2>5 DEF KeepsQueue, Preserves
<1> QED
  BY <1>1, <1>2, <1>3, <1>4

\* The steps of the environment that execute no statement: statements nobody
\* waits for are rolled back, leases run out, time passes.
EnvironmentMoves ==
    \/ \E s \in abandoned : AbandonedRollback(s)
    \/ \E u \in UpdateID :
          /\ ExpireRow(u)
          /\ Fault \/ UNCHANGED faults
          /\ UNCHANGED <<db_time, workerVars, abandoned, instance>>
    \/ TimePasses
    \/ UNCHANGED vars

\* They keep the locks too.
LEMMA EnvironmentMovesPreserve ==
    ASSUME LocksInv, EnvironmentMoves
    PROVE  /\ Preserves /\ LetsGo({})
           /\ UNCHANGED tables \/ \E u \in UpdateID : ExpireRow(u)
           /\ db_time' \in Time
<1> USE DEF LocksInv
<1>T. RepositoryTypeOK /\ db_time \in Time
  BY DEF TypeOK, RepositoryTypeOK
<1>F. Fault \/ UNCHANGED faults => faults' \in 0..MaxFaults
  BY FaultsInBound
<1>I. UNCHANGED instance => instance' \in [Instance -> {"running", "stopping", "down"}]
  BY DEF TypeOK
<1>1. ASSUME NEW s \in abandoned, AbandonedRollback(s)
      PROVE  Preserves /\ LetsGo({}) /\ UNCHANGED tables /\ db_time' \in Time
  <2>1. RepositoryTypeOK' /\ TablesGrow({})
    BY <1>1, <1>T, UnchangedKeepsTypes DEF AbandonedRollback
  <2> QED
    BY <1>1, <1>T, <1>F, <1>I, <2>1, OthersKeepQueue DEF AbandonedRollback
<1>2. ASSUME NEW u \in UpdateID, ExpireRow(u), Fault \/ UNCHANGED faults,
             UNCHANGED <<db_time, workerVars, abandoned, instance>>
      PROVE  Preserves /\ LetsGo({}) /\ db_time' \in Time
  <2>1. RepositoryTypeOK' /\ TablesGrow({})
    BY <1>2, <1>T, ExpireRowKeepsTypes
  <2> QED
    BY <1>2, <1>T, <1>F, <1>I, <2>1, OthersKeepQueue
<1>3. CASE TimePasses
  <2>1. db_time' \in Time
    BY <1>3, <1>T, MaxTimeAssumption DEF TimePasses, Tick, Time
  <2>2. RepositoryTypeOK' /\ TablesGrow({})
    BY <1>3, <1>T, <2>1, UnchangedKeepsTypes DEF TimePasses
  <2> QED
    BY <1>3, <1>F, <1>I, <2>1, <2>2, OthersKeepQueue DEF TimePasses
<1>4. CASE UNCHANGED vars
  <2>1. RepositoryTypeOK' /\ TablesGrow({})
    BY <1>4, <1>T, UnchangedKeepsTypes DEF vars
  <2> QED
    BY <1>4, <1>T, <1>F, <1>I, <2>1, OthersKeepQueue DEF vars
<1> QED
  BY <1>1, <1>2, <1>3, <1>4 DEF EnvironmentMoves

\* And the statements that workers do not wait for: abandoned ones that commit,
\* the requeue and the insertion of a request.
LEMMA OtherStatementsPreserve ==
    ASSUME LocksInv, StatusMatchesResult,
           \/ \E s \in abandoned : AbandonedCommit(s)
           \/ \E i \in Instance : RequeueStaleUpdates(i)
           \/ \E id \in UpdateID, p \in Pair : Submit(id, p)
    PROVE  Preserves /\ LetsGo({}) /\ StatusMatchesResult' /\ RepositoryStep
<1> USE DEF LocksInv
<1>T. TablesOK /\ db_time \in Time
  BY DEF TablesOK, TypeOK, RepositoryTypeOK
<1>K. ASSUME TablesOK', TablesGrow({}), UNCHANGED <<workerVars, instance, faults>>,
             abandoned' \subseteq abandoned
      PROVE  Preserves /\ LetsGo({}) /\ StatusMatchesResult'
  BY <1>K, OthersKeepQueue DEF TablesOK, TypeOK
<1>1. ASSUME NEW s \in abandoned, AbandonedCommit(s)
      PROVE  Preserves /\ LetsGo({}) /\ StatusMatchesResult'
  <2>1. /\ s.claim \in Claim /\ s.fetched_at \in Time
        /\ abandoned' = abandoned \ {s}
        /\ UNCHANGED <<db_time, workerVars, instance, faults>>
    BY <1>1 DEF AbandonedCommit, TypeOK, Statement
  <2>2. CASE s.op = "taking" /\ TakeRow(s.claim.id)
    <3>1. TablesOK' /\ KeepsQueue
      BY <2>1, <2>2, AbandonedTakeKeepsQueue DEF workerVars
    <3>2. TypeOK'
      BY <2>1, <3>1 DEF workerVars, TypeOK, TablesOK, Statement
    <3>3. LetsGo({})
      BY <2>1 DEF workerVars, Claimants, LetsGo
    <3> QED
      BY <3>1, <3>2, <3>3 DEF KeepsQueue, TablesOK, Preserves
  <2>3. CASE CompleteRow(s.claim, s.fetched_at)
    <3>1. TablesOK' /\ TablesGrow({})
      BY <1>T, <2>1, <2>3, CompleteRowKeepsTables
    <3> QED
      BY <1>K, <2>1, <3>1
  <2>4. CASE FailRow(s.claim)
    <3>1. TablesOK' /\ TablesGrow({})
      BY <1>T, <2>1, <2>4, FailRowKeepsTables
    <3> QED
      BY <1>K, <2>1, <3>1
  <2> QED
    BY <1>1, <2>2, <2>3, <2>4 DEF AbandonedCommit
<1>2. ASSUME NEW i \in Instance, RequeueStaleUpdates(i)
      PROVE  Preserves /\ LetsGo({}) /\ StatusMatchesResult'
  <2>1. TablesOK' /\ TablesGrow({})
    BY <1>2, <1>T, RequeueRowsKeepsTables DEF RequeueStaleUpdates
  <2> QED
    BY <1>2, <1>K, <2>1 DEF RequeueStaleUpdates
<1>3. ASSUME NEW id \in UpdateID, NEW p \in Pair, Submit(id, p)
      PROVE  Preserves /\ LetsGo({}) /\ StatusMatchesResult'
  <2>1. TablesOK' /\ TablesGrow({})
    BY <1>3, <1>T, InsertRowKeepsTables DEF Submit
  <2> QED
    BY <1>3, <1>K, <2>1 DEF Submit
<1>4. RepositoryStep
  <2>1. ASSUME NEW s \in abandoned, AbandonedCommit(s)
        PROVE  RepositoryStep
    <3>1. s.claim \in Claim /\ s.fetched_at \in Time
      BY DEF TypeOK, Statement
    <3>2. s.op = "taking" => s.claim.id \in WithStatus("pending")
      BY DEF AbandonedTakes, LockedRows, LockedRowsStayPending
    <3> QED
      BY <2>1, <3>1, <3>2 DEF AbandonedCommit, RepositoryStep
  <2> QED
    BY <2>1 DEF RequeueStaleUpdates, Submit, RepositoryStep
<1> QED
  BY <1>1, <1>2, <1>3, <1>4

\* Every step of the system preserves the inductive invariant.
LEMMA StepPreserves ==
    ASSUME IndInv, [Next]_vars
    PROVE  IndInv'
<1>0. LocksInv /\ StatusMatchesResult /\ ClaimsAreFenced /\ TablesOK
  BY DEF IndInv, LocksInv, TypeOK, TablesOK
<1>1. ASSUME Preserves, StatusMatchesResult'
      PROVE  IndInv'
  BY <1>0, <1>1 DEF IndInv, Preserves, KeepsQueue, LocksInv
<1>2. ASSUME UNCHANGED tables \/ \E u \in UpdateID : ExpireRow(u), db_time' \in Time
      PROVE  StatusMatchesResult'
  BY <1>0, <1>2, UnchangedKeepsTables, ExpireRowKeepsTables DEF TablesOK
<1>3. UNCHANGED db_time => db_time' \in Time
  BY <1>0 DEF TablesOK, RepositoryTypeOK
<1>4. ASSUME NEW x \in Worker, ProcessNext(x)
      PROVE  IndInv'
  <2>1. CASE WorkerMoves(x)
    BY <1>0, <1>1, <1>2, <1>3, <2>1, WorkerMovesPreserve
  <2>2. CASE TakeCommit(x) \/ CompleteUpdate(x) \/ FailUpdate(x)
    BY <1>0, <1>1, <2>2, WorkerStatementsPreserve
  <2> QED
    BY <1>4, <2>1, <2>2 DEF ProcessNext, WorkerMoves
<1>5. ASSUME NEW i \in Instance, InstanceStep(i)
      PROVE  IndInv'
  <2>1. CASE Shutdown(i) \/ Exit(i) \/ Crash(i) \/ Start(i)
    BY <1>0, <1>1, <1>2, <1>3, <2>1, InstanceMovesPreserve
  <2>2. CASE RequeueStaleUpdates(i)
    BY <1>0, <1>1, <2>2, OtherStatementsPreserve
  <2> QED
    BY <1>5, <2>1, <2>2 DEF InstanceStep
<1>6. CASE EnvironmentMoves
  BY <1>0, <1>1, <1>2, <1>6, EnvironmentMovesPreserve
<1>7. CASE \/ \E s \in abandoned : AbandonedCommit(s)
           \/ \E id \in UpdateID, p \in Pair : Submit(id, p)
  BY <1>0, <1>1, <1>7, OtherStatementsPreserve
<1> QED
  BY <1>4, <1>5, <1>6, <1>7 DEF Next, EnvironmentMoves, OrphanExpires, LeaseExpires

\* The initial state satisfies the inductive invariant.
LEMMA InitEstablishes ==
    ASSUME Init
    PROVE  IndInv
<1>1. /\ Stored = {} /\ DOMAIN exchange_rates = {} /\ db_time = 0
      /\ pc = [w \in Worker |-> "polling"] /\ abandoned = {}
  BY DEF Init, RepositoryInit
<1>2. RepositoryTypeOK
  BY <1>1, MaxTimeAssumption DEF Init, RepositoryInit, RepositoryTypeOK, Time
<1>3. TypeOK
  <2>1. NoClaim \in Claim /\ NoResult \in Result
    BY MaxTimeAssumption DEF NoClaim, Claim, NoResult, Result, Time
  <2> QED
    BY <1>1, <1>2, <2>1, MaxFaultsAssumption DEF Init, TypeOK
<1>4. Taking = {} /\ Claimants = {} /\ AbandonedTakes = {} /\ AbandonedResults = {}
  BY <1>1 DEF Taking, Claimants, AbandonedTakes, AbandonedResults
<1>5. LockedRowsStayPending
  BY <1>4 DEF LockedRowsStayPending, LockedRows
<1>6. ClaimsAreFenced
  BY <1>4 DEF ClaimsAreFenced
<1>7. StatusMatchesResult
  BY <1>1 DEF StatusMatchesResult
<1> QED
  BY <1>3, <1>5, <1>6, <1>7 DEF IndInv

-----------------------------------------------------------------------------
\* In every reachable state the tables are well typed and consistent, at most
\* one transaction holds the lock of a pending row, and fencing tokens are
\* unique: for any number of workers, instances, updates and adverse events.
THEOREM Invariance == Spec => []IndInv
<1>1. Init => IndInv
  BY InitEstablishes
<1>2. IndInv /\ [Next]_vars => IndInv'
  BY StepPreserves
<1> QED
  BY <1>1, <1>2, PTL DEF Spec

\* Type correctness.
THEOREM TypeCorrectness == Spec => []TypeOK
<1>1. IndInv => TypeOK
  BY DEF IndInv
<1> QED
  BY <1>1, Invariance, PTL

\* What GetByID returns is never half a result.
THEOREM ResultsAreWhole == Spec => []StatusMatchesResult
<1>1. IndInv => StatusMatchesResult
  BY DEF IndInv
<1> QED
  BY <1>1, Invariance, PTL

\* Two workers never hold the same claim, whatever was recovered in between.
THEOREM Fencing == Spec => []ClaimsAreFenced
<1>1. IndInv => ClaimsAreFenced
  BY DEF IndInv
<1> QED
  BY <1>1, Invariance, PTL

\* The row locks of FOR UPDATE SKIP LOCKED are exclusive and on pending rows.
THEOREM RowLocks == Spec => []LockedRowsStayPending
<1>1. IndInv => LockedRowsStayPending
  BY DEF IndInv
<1> QED
  BY <1>1, Invariance, PTL

-----------------------------------------------------------------------------
\* The steps that change a row, by the statement the database executes.
Executes(c) ==
    \/ \E w \in Worker : /\ w \in Claimants /\ pc'[w] # pc[w] /\ claim[w] = c
                         /\ \E next \in {"polling", "waiting"} : EndProcessNext(w, next)
    \/ \E s \in abandoned \ abandoned' : s.claim = c

TableStep ==
    \/ UNCHANGED tables
    \/ \E u \in WithStatus("pending") : TakeRow(u)
    \/ \E c \in Claim, t \in Time : CompleteRow(c, t) /\ Executes(c)
    \/ \E c \in Claim \intersect ProviderFailures : FailRow(c) /\ Executes(c)
    \/ RequeueRows
    \/ \E id \in UpdateID, p \in Pair : InsertRow(id, p, NoKey)
    \/ \E u \in UpdateID : ExpireRow(u)

\* Every step of the system is one of the repository's statements, and a
\* deciding one is executed for somebody who holds a claim and drops it.
LEMMA StepIsTableStep ==
    ASSUME IndInv, [Next]_vars
    PROVE  TableStep /\ db_time' \in Time
<1> USE DEF IndInv
<1>T. \A w \in Worker : claim[w] \in Claim /\ result[w].fetched_at \in Time
  BY DEF TypeOK, Result
<1>D. UNCHANGED db_time => db_time' \in Time
  BY DEF TypeOK, RepositoryTypeOK
<1>E. ASSUME NEW w \in Worker, pc[w] \in {"completing", "failing"},
             NEW next \in {"polling", "waiting"}, EndProcessNext(w, next)
      PROVE  Executes(claim[w])
  <2>1. pc' = [pc EXCEPT ![w] = IF Stopping(w) THEN "stopped" ELSE next]
    BY <1>E DEF EndProcessNext
  <2>2. pc'[w] # pc[w] /\ w \in Claimants
    BY <1>E, <2>1 DEF TypeOK, Claimants
  <2> QED
    BY <1>E, <2>2 DEF Executes
<1>1. ASSUME NEW w \in Worker, ProcessNext(w)
      PROVE  TableStep /\ db_time' \in Time
  <2>1. CASE TakeCommit(w)
    <3>1. TakeRow(claim[w].id) /\ pc[w] = "taking" /\ db_time' = db_time
      BY <2>1 DEF TakeCommit
    <3>2. claim[w].id \in WithStatus("pending")
      BY <3>1 DEF LockedRowsStayPending, LockedRows, Taking
    <3> QED
      BY <1>D, <3>1, <3>2 DEF TableStep
  <2>2. CASE CompleteUpdate(w)
    BY <1>D, <1>E, <1>T, <2>2 DEF CompleteUpdate, DiscardResult, TableStep
  <2>3. CASE FailUpdate(w)
    <3>1. claim[w] \in Claim \intersect ProviderFailures
      BY <1>T, <2>3 DEF FailUpdate, ProviderFailures, Claimants
    <3> QED
      BY <1>D, <1>E, <2>3, <3>1 DEF FailUpdate, DiscardResult, TableStep
  <2>4. CASE \/ \E u \in UpdateID : TakeLock(w, u)
             \/ TakeNothing(w) \/ FetchRate(w) \/ FetchCanceled(w)
             \/ CompleteRefused(w) \/ DatabaseError(w)
             \/ AbandonStatement(w) \/ NextPoll(w)
    <3>1. UNCHANGED tables /\ UNCHANGED db_time
      BY <2>4 DEF TakeLock, TakeNothing, FetchRate, FetchCanceled,
                  CompleteRefused, DatabaseError, AbandonStatement, NextPoll
    <3> QED
      BY <1>D, <3>1 DEF TableStep
  <2> QED
    BY <1>1, <2>1, <2>2, <2>3, <2>4 DEF ProcessNext
<1>2. ASSUME NEW i \in Instance, InstanceStep(i)
      PROVE  TableStep /\ db_time' \in Time
  <2>1. (RequeueRows \/ UNCHANGED tables) /\ UNCHANGED db_time
    BY <1>2 DEF InstanceStep, RequeueStaleUpdates, Shutdown, Exit, Crash, Start
  <2> QED
    BY <1>D, <2>1 DEF TableStep
<1>3. ASSUME NEW s \in abandoned, AbandonedCommit(s) \/ AbandonedRollback(s)
      PROVE  TableStep /\ db_time' \in Time
  <2>1. /\ s.claim \in Claim /\ s.fetched_at \in Time
        /\ s \in abandoned \ abandoned' /\ UNCHANGED db_time
    BY <1>3 DEF AbandonedCommit, AbandonedRollback, TypeOK, Statement
  <2>2. Executes(s.claim)
    BY <2>1 DEF Executes
  <2>3. CASE s.op = "taking" /\ TakeRow(s.claim.id)
    <3>1. s.claim.id \in WithStatus("pending")
      BY <2>3 DEF LockedRowsStayPending, LockedRows, AbandonedTakes
    <3> QED
      BY <1>D, <2>1, <2>3, <3>1 DEF TableStep
  <2>4. CASE CompleteRow(s.claim, s.fetched_at) \/ UNCHANGED tables
    BY <1>D, <2>1, <2>2, <2>4 DEF TableStep
  <2>5. CASE s.op = "failing" /\ FailRow(s.claim)
    <3>1. s.claim \in Claim \intersect ProviderFailures
      BY <2>1, <2>5 DEF ProviderFailures
    <3> QED
      BY <1>D, <2>1, <2>2, <2>5, <3>1 DEF TableStep
  <2> QED
    BY <1>3, <2>3, <2>4, <2>5 DEF AbandonedCommit, AbandonedRollback
<1>4. ASSUME NEW id \in UpdateID, NEW p \in Pair, Submit(id, p)
      PROVE  TableStep /\ db_time' \in Time
  BY <1>D, <1>4 DEF Submit, TableStep
<1>5. ASSUME NEW u \in UpdateID, OrphanExpires(u) \/ LeaseExpires(u)
      PROVE  TableStep /\ db_time' \in Time
  BY <1>D, <1>5 DEF OrphanExpires, LeaseExpires, TableStep
<1>6. ASSUME TimePasses
      PROVE  TableStep /\ db_time' \in Time
  BY <1>6, MaxTimeAssumption DEF TimePasses, Tick, TypeOK, RepositoryTypeOK, Time, TableStep
<1>7. ASSUME UNCHANGED vars
      PROVE  TableStep /\ db_time' \in Time
  BY <1>D, <1>7 DEF vars, TableStep
<1> QED
  BY <1>1, <1>2, <1>3, <1>4, <1>5, <1>6, <1>7 DEF Next

\* A row is decided only under its latest lease: the fencing token keeps a
\* worker whose update was recovered and taken again from deciding it.
THEOREM OnlyLatestLeaseDecides == Spec => LatestLeaseDecides
<1> DEFINE Latest ==
      \A u \in Stored :
          Decided(u)' /\ ~Decided(u) =>
              [id |-> u, token |-> quote_updates[u].processing_version] \in DecidingClaims
<1>1. IndInv /\ [Next]_vars => Latest
  <2> SUFFICES ASSUME IndInv, [Next]_vars, NEW u \in Stored, Decided(u)', ~Decided(u)
               PROVE  [id |-> u, token |-> quote_updates[u].processing_version]
                         \in DecidingClaims
    OBVIOUS
  <2>1. TablesOK /\ TableStep /\ db_time' \in Time
    BY StepIsTableStep DEF IndInv, TypeOK, TablesOK
  <2>2. quote_updates[u].status \notin Terminal /\ quote_updates'[u].status \in Terminal
    BY DEF Decided
  <2>3. ASSUME NEW c \in Claim, c.id = u, HoldsLease(c), Executes(c)
        PROVE  [id |-> u, token |-> quote_updates[u].processing_version] \in DecidingClaims
    <3>1. c = [id |-> u, token |-> quote_updates[u].processing_version]
      BY <2>3 DEF HoldsLease, Claim
    <3>2. c \in DecidingClaims
      BY <2>3 DEF Executes, DecidingClaims
    <3> QED
      BY <3>1, <3>2
  <2>4. CASE \E c \in Claim, t \in Time : CompleteRow(c, t) /\ Executes(c)
    <3>1. PICK c \in Claim, t \in Time : CompleteRow(c, t) /\ Executes(c)
      BY <2>4
    <3>2. c.id = u /\ HoldsLease(c)
      BY <2>1, <2>2, <3>1, CompleteRowKeepsTables DEF CompleteRow
    <3> QED
      BY <2>3, <3>1, <3>2
  <2>5. CASE \E c \in Claim : FailRow(c) /\ Executes(c)
    <3>1. PICK c \in Claim : FailRow(c) /\ Executes(c)
      BY <2>5
    <3>2. c.id = u /\ HoldsLease(c)
      BY <2>1, <2>2, <3>1, FailRowKeepsTables DEF FailRow
    <3> QED
      BY <2>3, <3>1, <3>2
  <2>6. CASE UNCHANGED tables
    BY <2>2, <2>6 DEF tables
  <2>7. CASE \E v \in WithStatus("pending") : TakeRow(v)
    BY <2>1, <2>2, <2>7, TakeRowKeepsTables DEF Terminal
  <2>8. CASE RequeueRows
    BY <2>1, <2>2, <2>8, RequeueRowsKeepsTables
  <2>9. CASE \E id \in UpdateID, p \in Pair : InsertRow(id, p, NoKey)
    BY <2>1, <2>2, <2>9, InsertRowKeepsTables
  <2>10. CASE \E v \in UpdateID : ExpireRow(v)
    BY <2>1, <2>2, <2>10, ExpireRowKeepsTables
  <2> QED
    BY <2>1, <2>4, <2>5, <2>6, <2>7, <2>8, <2>9, <2>10 DEF TableStep
<1> QED
  BY <1>1, Invariance, PTL DEF Spec, LatestLeaseDecides

\* An update fails only on the word of somebody whose provider call failed: a
\* shutdown or an unreachable database never marks one as failed.
THEOREM FailuresComeFromProvider == Spec => FailedOnlyByProvider
<1> DEFINE ByProvider ==
      \A u \in Stored :
          quote_updates'[u].status = "failed" /\ quote_updates[u].status # "failed" =>
              \E c \in ProviderFailures : c.id = u
<1>1. IndInv /\ [Next]_vars => ByProvider
  <2> SUFFICES ASSUME IndInv, [Next]_vars, NEW u \in Stored,
                      quote_updates'[u].status = "failed",
                      quote_updates[u].status # "failed"
               PROVE  \E c \in ProviderFailures : c.id = u
    OBVIOUS
  <2>1. TablesOK /\ TableStep /\ db_time' \in Time
    BY StepIsTableStep DEF IndInv, TypeOK, TablesOK
  <2>2. CASE \E c \in Claim \intersect ProviderFailures : FailRow(c) /\ Executes(c)
    <3>1. PICK c \in Claim \intersect ProviderFailures : FailRow(c)
      BY <2>2
    <3>2. c.id = u
      BY <2>1, <3>1, FailRowKeepsTables
    <3> QED
      BY <3>1, <3>2
  <2>3. CASE \E c \in Claim, t \in Time : CompleteRow(c, t) /\ Executes(c)
    <3>1. PICK c \in Claim, t \in Time : CompleteRow(c, t)
      BY <2>3
    <3> QED
      BY <2>1, <3>1, CompleteRowKeepsTables
  <2>4. CASE UNCHANGED tables
    BY <2>4 DEF tables
  <2>5. CASE \E v \in WithStatus("pending") : TakeRow(v)
    BY <2>1, <2>5, TakeRowKeepsTables
  <2>6. CASE RequeueRows
    BY <2>1, <2>6, RequeueRowsKeepsTables
  <2>7. CASE \E id \in UpdateID, p \in Pair : InsertRow(id, p, NoKey)
    BY <2>1, <2>7, InsertRowKeepsTables
  <2>8. CASE \E v \in UpdateID : ExpireRow(v)
    BY <2>1, <2>8, ExpireRowKeepsTables
  <2> QED
    BY <2>1, <2>2, <2>3, <2>4, <2>5, <2>6, <2>7, <2>8 DEF TableStep
<1> QED
  BY <1>1, Invariance, PTL DEF Spec, FailedOnlyByProvider

-----------------------------------------------------------------------------
(* The workers implement UpdateOutcome. *)

\* A row whose failure code and rate stay as they are keeps its outcome.
LEMMA SameOutcome ==
    ASSUME NEW u \in UpdateID,
           u \in Stored <=> u \in Stored',
           u \in Stored => quote_updates'[u].failure_code = quote_updates[u].failure_code,
           u \in DOMAIN exchange_rates' <=> u \in DOMAIN exchange_rates,
           u \in DOMAIN exchange_rates => exchange_rates'[u] = exchange_rates[u]
    PROVE  OutcomeOf(u)' = OutcomeOf(u)
<1>1. CASE u \notin Stored
  BY <1>1 DEF OutcomeOf
<1>2. CASE u \in Stored
  BY <1>2 DEF OutcomeOf, GetByID
<1> QED
  BY <1>1, <1>2

outcomes == [u \in UpdateID |-> OutcomeOf(u)]

\* Where every outcome but one is kept, that one tells how outcomes change.
LEMMA OneOutcomeChanges ==
    ASSUME NEW u \in UpdateID, \A v \in UpdateID \ {u} : OutcomeOf(v)' = OutcomeOf(v)
    PROVE  outcomes' = [outcomes EXCEPT ![u] = OutcomeOf(u)']
  BY DEF outcomes

\* Every statement of the repository decides at most one accepted update.
LEMMA TableStepKeepsPromise ==
    ASSUME TablesOK, TableStep, db_time' \in Time
    PROVE  \/ outcomes' = outcomes
           \/ \E u \in UpdateID : Promise!Accept(u) \/ Promise!Complete(u) \/ Promise!Fail(u)
<1>0. Stored \subseteq UpdateID /\ DOMAIN exchange_rates \subseteq Stored
  BY DEF TablesOK, RepositoryTypeOK
<1>1. CASE UNCHANGED tables
  <2>1. \A u \in UpdateID : OutcomeOf(u)' = OutcomeOf(u)
    BY <1>1, SameOutcome DEF tables
  <2> QED
    BY <2>1 DEF outcomes
<1>2. CASE \E u \in WithStatus("pending") : TakeRow(u)
  <2>1. PICK u \in WithStatus("pending") : TakeRow(u)
    BY <1>2
  <2>2. \A v \in UpdateID : OutcomeOf(v)' = OutcomeOf(v)
    BY <2>1, TakeRowKeepsTables, SameOutcome
  <2> QED
    BY <2>2 DEF outcomes
<1>3. CASE RequeueRows
  <2>1. \A v \in UpdateID : OutcomeOf(v)' = OutcomeOf(v)
    BY <1>3, RequeueRowsKeepsTables, SameOutcome
  <2> QED
    BY <2>1 DEF outcomes
<1>4. CASE \E u \in UpdateID : ExpireRow(u)
  <2>1. \A v \in UpdateID : OutcomeOf(v)' = OutcomeOf(v)
    BY <1>4, ExpireRowKeepsTables, SameOutcome
  <2> QED
    BY <2>1 DEF outcomes
<1>5. CASE \E c \in Claim, t \in Time : CompleteRow(c, t) /\ Executes(c)
  <2>1. PICK c \in Claim, t \in Time : CompleteRow(c, t)
    BY <1>5
  <2>2. c.id \in Stored /\ quote_updates[c.id].status = "processing"
    BY <2>1 DEF CompleteRow, HoldsLease
  <2>3. \A v \in UpdateID \ {c.id} : OutcomeOf(v)' = OutcomeOf(v)
    BY <1>0, <2>1, CompleteRowKeepsTables, SameOutcome DEF TablesOK, RepositoryTypeOK
  <2>4. OutcomeOf(c.id) = Promise!Undecided("accepted")
    BY <2>2 DEF OutcomeOf, GetByID, TablesOK, StatusMatchesResult, Promise!Undecided
  <2>5. OutcomeOf(c.id)' = [state |-> "completed", quote |-> {t}]
    <3>1. /\ c.id \in Stored' /\ quote_updates'[c.id].failure_code = "NULL"
          /\ c.id \in DOMAIN exchange_rates' /\ exchange_rates'[c.id] = t
      BY <2>1, <2>2, CompleteRowKeepsTables
    <3> QED
      BY <3>1 DEF OutcomeOf, GetByID
  <2>6. outcomes' = [outcomes EXCEPT ![c.id] = [state |-> "completed", quote |-> {t}]]
    BY <1>0, <2>2, <2>3, <2>5, OneOutcomeChanges
  <2>7. outcomes[c.id] = Promise!Undecided("accepted")
    BY <1>0, <2>2, <2>4 DEF outcomes
  <2>8. Promise!Complete(c.id)
    BY <2>6, <2>7 DEF outcomes, Promise!Complete
  <2> QED
    BY <1>0, <2>2, <2>8
<1>6. CASE \E c \in Claim \intersect ProviderFailures : FailRow(c) /\ Executes(c)
  <2>1. PICK c \in Claim : FailRow(c)
    BY <1>6
  <2>2. c.id \in Stored /\ quote_updates[c.id].status = "processing"
    BY <2>1 DEF FailRow, HoldsLease
  <2>3. \A v \in UpdateID \ {c.id} : OutcomeOf(v)' = OutcomeOf(v)
    BY <1>0, <2>1, FailRowKeepsTables, SameOutcome DEF TablesOK, RepositoryTypeOK
  <2>4. OutcomeOf(c.id) = Promise!Undecided("accepted") /\ c.id \notin DOMAIN exchange_rates
    BY <2>2 DEF OutcomeOf, GetByID, TablesOK, StatusMatchesResult, Promise!Undecided
  <2>5. OutcomeOf(c.id)' = Promise!Undecided("failed")
    <3>1. /\ c.id \in Stored' /\ quote_updates'[c.id].failure_code = "rate_provider_error"
          /\ c.id \notin DOMAIN exchange_rates'
      BY <2>1, <2>2, <2>4, FailRowKeepsTables
    <3> QED
      BY <3>1 DEF OutcomeOf, GetByID, Promise!Undecided
  <2>6. outcomes' = [outcomes EXCEPT ![c.id] = Promise!Undecided("failed")]
    BY <1>0, <2>2, <2>3, <2>5, OneOutcomeChanges
  <2>7. outcomes[c.id] = Promise!Undecided("accepted")
    BY <1>0, <2>2, <2>4 DEF outcomes
  <2>8. Promise!Fail(c.id)
    BY <2>6, <2>7 DEF outcomes, Promise!Fail
  <2> QED
    BY <1>0, <2>2, <2>8
<1>7. CASE \E id \in UpdateID, p \in Pair : InsertRow(id, p, NoKey)
  <2>1. PICK id \in UpdateID, p \in Pair : InsertRow(id, p, NoKey)
    BY <1>7
  <2>2. /\ id \notin Stored /\ Stored' = Stored \union {id}
        /\ \A v \in Stored : quote_updates'[v] = quote_updates[v]
        /\ quote_updates'[id].failure_code = "NULL"
        /\ exchange_rates' = exchange_rates /\ id \notin DOMAIN exchange_rates
    BY <2>1, InsertRowKeepsTables
  <2>3. \A v \in UpdateID \ {id} : OutcomeOf(v)' = OutcomeOf(v)
    BY <2>2, SameOutcome
  <2>4. OutcomeOf(id) = Promise!Undecided("none")
    BY <2>2 DEF OutcomeOf, Promise!Undecided
  <2>5. OutcomeOf(id)' = Promise!Undecided("accepted")
    BY <2>2 DEF OutcomeOf, GetByID, Promise!Undecided
  <2>6. outcomes' = [outcomes EXCEPT ![id] = Promise!Undecided("accepted")]
    BY <2>3, <2>5, OneOutcomeChanges
  <2>7. outcomes[id] = Promise!Undecided("none")
    BY <2>4 DEF outcomes
  <2>8. Promise!Accept(id)
    BY <2>6, <2>7 DEF outcomes, Promise!Accept
  <2> QED
    BY <2>8
<1> QED
  BY <1>1, <1>2, <1>3, <1>4, <1>5, <1>6, <1>7 DEF TableStep

\* Seen through GetByID, the system implements UpdateOutcome: an accepted
\* update is decided at most once and its result is never taken back.
THEOREM ImplementsPromise == Spec => KeepsPromise
<1>1. Init => Promise!OutcomeInit
  BY DEF Init, RepositoryInit, Promise!OutcomeInit, Promise!Undecided, OutcomeOf
<1>2. IndInv /\ [Next]_vars => [Promise!OutcomeNext]_outcomes
  <2> SUFFICES ASSUME IndInv, [Next]_vars
               PROVE  [Promise!OutcomeNext]_outcomes
    OBVIOUS
  <2>1. TablesOK /\ TableStep /\ db_time' \in Time
    BY StepIsTableStep DEF IndInv, TypeOK, TablesOK
  <2> QED
    BY <2>1, TableStepKeepsPromise DEF Promise!OutcomeNext
<1> QED
  BY <1>1, <1>2, Invariance, PTL DEF Spec, KeepsPromise, Promise!OutcomeSpec, outcomes

-----------------------------------------------------------------------------
(* The latest quote of a pair *)

\* A pair with a completed update has a latest one.
LatestExists == \A p \in Pair : CompletedOf(p) # {} => GetLatest(p) # {}

\* While no rate is inserted the latest quote of every pair stays.
LEMMA LatestStays ==
    ASSUME TablesOK, TablesOK', RowsKept, UNCHANGED exchange_rates, NEW p \in Pair
    PROVE  /\ CompletedOf(p)' = CompletedOf(p)
           /\ GetLatest(p)' = GetLatest(p)
<1>1. DOMAIN exchange_rates \subseteq Stored
  BY DEF TablesOK, RepositoryTypeOK
<1>2. \A u \in DOMAIN exchange_rates : quote_updates'[u] = quote_updates[u]
  BY <1>1 DEF TablesOK, StatusMatchesResult, RowsKept, Terminal
<1>3. CompletedOf(p)' = CompletedOf(p)
  BY <1>1, <1>2 DEF CompletedOf, RowsKept
<1>4. \A u, v \in CompletedOf(p) : Newer(u, v)' <=> Newer(u, v)
  BY <1>2 DEF CompletedOf, Newer
<1>5. GetLatest(p)' = GetLatest(p)
  BY <1>3, <1>4 DEF GetLatest
<1> QED
  BY <1>3, <1>5

\* An update that completes joins the completed ones of its pair, which stay
\* as they are, stamped with a time since its quote was fetched.
LEMMA CompletedJoins ==
    ASSUME TablesOK, TablesOK', NEW c \in Claim, NEW t \in Time, CompleteRow(c, t),
           db_time' \in Time
    PROVE  /\ c.id \in Stored /\ c.id \notin DOMAIN exchange_rates
           /\ quote_updates'[c.id].pair = quote_updates[c.id].pair
           /\ quote_updates'[c.id].updated_at \in t..db_time
           /\ exchange_rates'[c.id] = t
           /\ \A v \in Stored \ {c.id} : quote_updates'[v] = quote_updates[v]
           /\ \A p \in Pair : CompletedOf(p)' = CompletedOf(p) \union
                                 (IF quote_updates[c.id].pair = p THEN {c.id} ELSE {})
<1>1. /\ c.id \in Stored /\ c.id \notin DOMAIN exchange_rates
  BY DEF CompleteRow, HoldsLease, TablesOK, StatusMatchesResult
<1>2. RowsKept
  BY StatementsKeepRows DEF RepositoryStep, TablesOK
<1>3. quote_updates'[c.id].updated_at \in t..db_time
  <2>1. PICK now \in t..db_time :
          quote_updates' = [quote_updates EXCEPT
                              ![c.id].status = "completed",
                              ![c.id].failure_code = "NULL",
                              ![c.id].updated_at = now,
                              ![c.id].stale = FALSE]
    BY DEF CompleteRow
  <2> QED
    BY <1>1, <2>1 DEF TablesOK, RepositoryTypeOK, Row
<1>4. /\ Stored' = Stored /\ exchange_rates'[c.id] = t
      /\ \A v \in Stored \ {c.id} :
            /\ quote_updates'[v] = quote_updates[v]
            /\ v \in DOMAIN exchange_rates' <=> v \in DOMAIN exchange_rates
      /\ quote_updates'[c.id].status = "completed"
      /\ c.id \in DOMAIN exchange_rates'
  BY CompleteRowKeepsTables
<1>5. ASSUME NEW p \in Pair
      PROVE  CompletedOf(p)' = CompletedOf(p) \union
                 (IF quote_updates[c.id].pair = p THEN {c.id} ELSE {})
  BY <1>1, <1>2, <1>4 DEF CompletedOf, RowsKept
<1> QED
  BY <1>1, <1>2, <1>3, <1>4, <1>5 DEF RowsKept

\* An update that completes is the latest of its pair, unless the completion of
\* another one began since its quote was fetched, and then the latest stays.
LEMMA LatestAdvances ==
    ASSUME TablesOK, TablesOK', NEW c \in Claim, NEW t \in Time,
           CompleteRow(c, t), db_time' \in Time, NEW p \in Pair
    PROVE  \/ GetLatest(p)' = {c.id} /\ quote_updates[c.id].pair = p
           \/ /\ GetLatest(p)' = GetLatest(p)
              /\ quote_updates[c.id].pair = p =>
                    \E v \in CompletedOf(p) : quote_updates[v].updated_at >= t
<1> DEFINE u == c.id
<1>1. /\ u \in Stored /\ u \notin CompletedOf(p)
      /\ quote_updates'[u].updated_at \in t..db_time
      /\ \A v \in Stored \ {u} : quote_updates'[v] = quote_updates[v]
      /\ CompletedOf(p)' = CompletedOf(p) \union (IF quote_updates[u].pair = p THEN {u} ELSE {})
  BY CompletedJoins DEF CompletedOf
<1>2. CompletedOf(p) \subseteq Stored
  BY DEF CompletedOf
<1>3. Stored' = Stored /\ db_time \in Nat /\ t \in Nat
  BY CompleteRowKeepsTables, MaxTimeAssumption DEF TablesOK, RepositoryTypeOK, Time
<1>4. \A v, w \in CompletedOf(p) : Newer(v, w)' <=> Newer(v, w)
  BY <1>1, <1>2 DEF Newer
<1>5. \A v \in CompletedOf(p) : /\ v \in Nat /\ u \in Nat
                                /\ quote_updates[v].updated_at \in Nat
                                /\ quote_updates'[v] = quote_updates[v]
  BY <1>1, <1>2, UpdateIDAssumption, MaxTimeAssumption
     DEF TablesOK, RepositoryTypeOK, Row, Time
<1> HIDE DEF u
<1>6. CASE quote_updates[u].pair # p
  BY <1>1, <1>4, <1>6 DEF GetLatest, u
<1>7. CASE quote_updates[u].pair = p /\ \A v \in CompletedOf(p) : Newer(u, v)'
  <2>1. Newer(u, u)'
    BY <1>1, <1>3, UpdateIDAssumption DEF Newer, TablesOK, RepositoryTypeOK
  <2>2. \A v \in CompletedOf(p) : ~ Newer(v, u)'
    BY <1>1, <1>5, <1>7, <1>3 DEF Newer
  <2> QED
    BY <1>1, <1>7, <2>1, <2>2 DEF GetLatest, u
<1>8. CASE quote_updates[u].pair = p /\ \E v \in CompletedOf(p) : ~ Newer(u, v)'
  <2>1. PICK v \in CompletedOf(p) : ~ Newer(u, v)'
    BY <1>8
  <2>2. quote_updates[v].updated_at >= t /\ Newer(v, u)'
    BY <1>1, <1>3, <1>5, <2>1 DEF Newer
  <2>3. u \notin GetLatest(p)'
    BY <1>1, <2>1 DEF GetLatest
  <2>4. ASSUME NEW x \in GetLatest(p)
        PROVE  Newer(x, u)'
    <3>1. x \in CompletedOf(p) /\ Newer(x, v)
      BY <2>1 DEF GetLatest
    <3> QED
      BY <1>1, <1>3, <1>5, <2>1, <2>2, <3>1 DEF Newer
  <2>5. GetLatest(p) \subseteq GetLatest(p)'
    BY <1>1, <1>4, <2>4 DEF GetLatest
  <2>6. GetLatest(p)' \subseteq GetLatest(p)
    BY <1>1, <1>4, <2>3 DEF GetLatest
  <2> QED
    BY <2>1, <2>2, <2>5, <2>6
<1> QED
  BY <1>6, <1>7, <1>8

\* Every step keeps the latest quotes, or completes one update.
LatestStep ==
    \/ \A p \in Pair : CompletedOf(p)' = CompletedOf(p) /\ GetLatest(p)' = GetLatest(p)
    \/ \E c \in Claim, t \in Time : CompleteRow(c, t)

LEMMA StepIsLatestStep ==
    ASSUME IndInv, IndInv', [Next]_vars
    PROVE  RowsKept /\ LatestStep
<1>1. TablesOK /\ TablesOK' /\ TableStep /\ db_time' \in Time
  BY StepIsTableStep DEF IndInv, TypeOK, TablesOK
<1>2. RowsKept
  BY <1>1, StatementsKeepRows DEF TableStep, RepositoryStep, TablesOK
<1>3. \/ UNCHANGED exchange_rates
      \/ \E c \in Claim, t \in Time : CompleteRow(c, t)
  BY <1>1 DEF TableStep, tables, TakeRow, FailRow, RequeueRows, InsertRow, ExpireRow
<1> QED
  BY <1>1, <1>2, <1>3, LatestStays DEF LatestStep

\* A pair keeps its latest quote with every step.
LEMMA StepKeepsLatest ==
    ASSUME IndInv, IndInv', LatestExists, [Next]_vars
    PROVE  LatestExists'
<1>1. TablesOK /\ TablesOK' /\ LatestStep /\ db_time' \in Time
  BY StepIsLatestStep, StepIsTableStep DEF IndInv, TypeOK, TablesOK
<1>2. CASE \A p \in Pair : CompletedOf(p)' = CompletedOf(p) /\ GetLatest(p)' = GetLatest(p)
  BY <1>2 DEF LatestExists
<1>3. ASSUME NEW c \in Claim, NEW t \in Time, CompleteRow(c, t), NEW p \in Pair,
             CompletedOf(p)' # {}
      PROVE  GetLatest(p)' # {}
  <2>1. CompletedOf(p)' = CompletedOf(p) \union
            (IF quote_updates[c.id].pair = p THEN {c.id} ELSE {})
    BY <1>1, <1>3, CompletedJoins
  <2>2. \/ GetLatest(p)' = {c.id}
        \/ /\ GetLatest(p)' = GetLatest(p)
           /\ quote_updates[c.id].pair = p => CompletedOf(p) # {}
    BY <1>1, <1>3, LatestAdvances
  <2> QED
    BY <1>3, <2>1, <2>2 DEF LatestExists
<1> QED
  BY <1>1, <1>2, <1>3 DEF LatestStep, LatestExists

\* The answer to GET /api/v1/quotes/latest changes only to an update that
\* completes at that moment, and an update whose quote was fetched after the
\* completion of the answer so far began becomes the answer when it completes.
THEOREM LatestQuotesFollow == Spec => LatestFollowsCompletions
<1> DEFINE Follows(p) ==
      /\ GetLatest(p)' # GetLatest(p) =>
            \E u \in Stored : CompletesNow(u) /\ GetLatest(p)' = {u}
      /\ \A u \in Stored :
            /\ CompletesNow(u) /\ quote_updates[u].pair = p
            /\ \A v \in GetLatest(p) : quote_updates[v].updated_at < exchange_rates'[u]
            => GetLatest(p)' = {u}
<1>1. Init => LatestExists
  BY DEF Init, RepositoryInit, LatestExists, CompletedOf
<1>2. IndInv /\ IndInv' /\ LatestExists /\ [Next]_vars => LatestExists'
  BY StepKeepsLatest
<1>3. IndInv /\ IndInv' /\ LatestExists /\ [Next]_vars => \A p \in Pair : Follows(p)
  <2> SUFFICES ASSUME IndInv, IndInv', LatestExists, [Next]_vars, NEW p \in Pair
               PROVE  Follows(p)
    OBVIOUS
  <2>1. TablesOK /\ TablesOK' /\ RowsKept /\ LatestStep /\ db_time' \in Time
    BY StepIsLatestStep, StepIsTableStep DEF IndInv, TypeOK, TablesOK
  <2>2. \A u \in Stored : quote_updates[u].pair \in Pair /\ quote_updates'[u].pair = quote_updates[u].pair
    BY <2>1 DEF TablesOK, RepositoryTypeOK, Row, RowsKept
  <2>3. CASE \A q \in Pair : CompletedOf(q)' = CompletedOf(q) /\ GetLatest(q)' = GetLatest(q)
    BY <2>2, <2>3 DEF CompletesNow
  <2>4. ASSUME NEW c \in Claim, NEW t \in Time, CompleteRow(c, t)
        PROVE  Follows(p)
    <3>1. /\ c.id \in Stored /\ c.id \notin DOMAIN exchange_rates
          /\ exchange_rates'[c.id] = t
          /\ \A q \in Pair : CompletedOf(q)' = CompletedOf(q) \union
                                (IF quote_updates[c.id].pair = q THEN {c.id} ELSE {})
      BY <2>1, <2>4, CompletedJoins
    <3>2. \A u \in Stored : CompletesNow(u) <=> u = c.id
      BY <2>2, <3>1 DEF CompletesNow, CompletedOf
    <3>3. \/ GetLatest(p)' = {c.id} /\ quote_updates[c.id].pair = p
          \/ /\ GetLatest(p)' = GetLatest(p)
             /\ quote_updates[c.id].pair = p =>
                   \E v \in CompletedOf(p) : quote_updates[v].updated_at >= t
      BY <2>1, <2>4, LatestAdvances
    <3>4. ASSUME NEW v \in CompletedOf(p), quote_updates[v].updated_at >= t
          PROVE  \E x \in GetLatest(p) : ~(quote_updates[x].updated_at < t)
      <4>1. PICK x \in GetLatest(p) : x \in Stored
        BY <3>4 DEF LatestExists, GetLatest, CompletedOf
      <4>2. Newer(x, v)
        BY <3>4 DEF GetLatest
      <4>3. quote_updates[x].updated_at \in Nat /\ quote_updates[v].updated_at \in Nat /\ t \in Nat
        BY <2>1, <3>4, <4>1, MaxTimeAssumption DEF TablesOK, RepositoryTypeOK, Row, Time, CompletedOf
      <4> QED
        BY <3>4, <4>1, <4>2, <4>3 DEF Newer
    <3> QED
      BY <3>1, <3>2, <3>3, <3>4
  <2> QED
    BY <2>1, <2>3, <2>4 DEF LatestStep
<1> QED
  BY <1>1, <1>2, <1>3, Invariance, PTL DEF Spec, LatestFollowsCompletions
=============================================================================
