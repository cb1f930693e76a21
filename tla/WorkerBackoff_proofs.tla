------------------------ MODULE WorkerBackoff_proofs ------------------------
(***************************************************************************)
(* The waits of a worker, for every poll interval, maximum backoff, width  *)
(* of a duration and number of failures.  The loop of                      *)
(* workerInfrastructureBackoff and the doubling it is compared with are    *)
(* recursive functions; that they exist, and how their values relate, is   *)
(* proved by induction, with sets of numbers for the hypotheses.           *)
(***************************************************************************)
EXTENDS WorkerBackoff, TLAPS, WellFoundedInduction

-----------------------------------------------------------------------------
(* Induction and recursion *)

\* A set with 1 and the successor of each of its numbers holds every number.
LEMMA CountingIsInductive ==
    ASSUME NEW S, 1 \in S, \A n \in Nat \ {0} : n \in S => n + 1 \in S
    PROVE  Nat \ {0} \subseteq S
<1>1. SUFFICES ASSUME NEW T, T = {n \in Nat \ {0} : n \notin S}, T # {}
               PROVE  FALSE
  <2>1. {n \in Nat \ {0} : n \notin S} = {}
    BY <1>1
  <2> QED
    BY <2>1
<1>2. T \subseteq Nat
  BY <1>1
<1>3. PICK least \in T : \A y \in T : ~(<<y, least>> \in OpToRel(<, Nat))
  BY <1>1, <1>2, NatLessThanWellFounded, WFMin, Zenon
<1>4. least # 1 /\ least \in Nat \ {0}
  BY <1>1, <1>3
<1>5. least - 1 \in T
  BY <1>1, <1>4
<1>6. <<least - 1, least>> \in OpToRel(<, Nat)
  BY <1>4 DEF OpToRel
<1> QED
  BY <1>3, <1>5, <1>6

\* The functions that are n rounds of a loop: one value for each round, the
\* first given and each other computed from the one before.
Loop(D, a, n, g) ==
    {f \in [1..n -> D] : \A k \in 1..n : f[k] = IF k = 1 THEN a ELSE g[f[k - 1]]}

\* There is one for every number of rounds.
LEMMA LoopsAreDefined ==
    ASSUME NEW D, NEW a \in D, NEW g \in [D -> D], NEW n \in Nat \ {0}
    PROVE  Loop(D, a, n, g) # {}
<1> DEFINE S == {r \in Nat \ {0} : \E f \in [1..r -> D] :
                    \A k \in 1..r : f[k] = IF k = 1 THEN a ELSE g[f[k - 1]]}
<1>1. 1 \in S
  <2> DEFINE f == [k \in 1..1 |-> a]
  <2>1. f \in [1..1 -> D] /\ \A k \in 1..1 : k = 1 /\ f[k] = a
    OBVIOUS
  <2> HIDE DEF f
  <2>2. \A k \in 1..1 : f[k] = IF k = 1 THEN a ELSE g[f[k - 1]]
    BY <2>1
  <2> QED
    BY <2>1, <2>2
<1>2. ASSUME NEW r \in Nat \ {0}, r \in S
      PROVE  r + 1 \in S
  <2>1. PICK f \in [1..r -> D] :
              \A k \in 1..r : f[k] = IF k = 1 THEN a ELSE g[f[k - 1]]
    BY <1>2
  <2> DEFINE h == [k \in 1..(r + 1) |-> IF k = r + 1 THEN g[f[r]] ELSE f[k]]
  <2>2. f[r] \in D /\ g[f[r]] \in D
    OBVIOUS
  <2>3. \A k \in 1..(r + 1) : k = r + 1 \/ (k \in 1..r /\ k # r + 1)
    OBVIOUS
  <2>4. h \in [1..(r + 1) -> D] /\ \A k \in 1..r : h[k] = f[k]
    BY <2>2, <2>3
  <2>5. ASSUME NEW k \in 1..(r + 1)
        PROVE  h[k] = IF k = 1 THEN a ELSE g[h[k - 1]]
    <3>1. CASE k = r + 1
      <4>1. h[k] = g[f[r]] /\ k # 1 /\ k - 1 = r /\ h[r] = f[r]
        BY <2>4, <3>1
      <4> QED
        BY <4>1
    <3>2. CASE k # r + 1
      <4>1. k \in 1..r /\ (k # 1 => k - 1 \in 1..r)
        BY <2>3, <3>2
      <4>2. h[k] = f[k] /\ (k # 1 => h[k - 1] = f[k - 1])
        BY <2>4, <4>1
      <4> QED
        BY <2>1, <4>1, <4>2
    <3> QED
      BY <3>1, <3>2
  <2> HIDE DEF h
  <2> QED
    BY <2>4, <2>5
<1> HIDE DEF S
<1>3. n \in S
  BY <1>1, <1>2, CountingIsInductive
<1> QED
  BY <1>3 DEF S, Loop

\* A loop does not depend on how many rounds are still to come.
LEMMA LoopsAgree ==
    ASSUME NEW D, NEW a \in D, NEW g \in [D -> D],
           NEW m \in Nat \ {0}, NEW n \in Nat \ {0},
           NEW f \in Loop(D, a, m, g), NEW h \in Loop(D, a, n, g),
           NEW k \in Nat \ {0}, k <= m, k <= n
    PROVE  f[k] = h[k]
<1> DEFINE S == {r \in Nat \ {0} : r <= m /\ r <= n => f[r] = h[r]}
<1>0. /\ \A r \in 1..m : f[r] = IF r = 1 THEN a ELSE g[f[r - 1]]
      /\ \A r \in 1..n : h[r] = IF r = 1 THEN a ELSE g[h[r - 1]]
  BY DEF Loop
<1>1. 1 \in S
  <2>1. 1 \in 1..m /\ 1 \in 1..n
    OBVIOUS
  <2> QED
    BY <1>0, <2>1
<1>2. ASSUME NEW r \in Nat \ {0}, r \in S
      PROVE  r + 1 \in S
  <2> SUFFICES ASSUME r + 1 <= m, r + 1 <= n
               PROVE  f[r + 1] = h[r + 1]
    OBVIOUS
  <2>1. f[r] = h[r]
    BY <1>2
  <2>2. r + 1 \in 1..m /\ r + 1 \in 1..n /\ r + 1 # 1 /\ (r + 1) - 1 = r
    OBVIOUS
  <2>3. f[r + 1] = g[f[r]] /\ h[r + 1] = g[h[r]]
    BY <1>0, <2>2
  <2> QED
    BY <2>1, <2>3
<1> HIDE DEF S
<1>3. k \in S
  BY <1>1, <1>2, CountingIsInductive
<1> QED
  BY <1>3 DEF S

-----------------------------------------------------------------------------
(* Durations *)

\* Arithmetic that stays within 64 bits is exact.
LEMMA DurationIsExact ==
    ASSUME NEW x \in 0..MaxDuration
    PROVE  Duration(x) = x
<1>1. ASSUME NEW a \in Nat, NEW b \in Nat, a < b
      PROVE  a % b = a
  BY <1>1
<1>2. x + MaxDuration + 1 \in Nat /\ 2 * (MaxDuration + 1) \in Nat
      /\ x + MaxDuration + 1 < 2 * (MaxDuration + 1)
  BY MaxDurationAssumption
<1>3. (x + MaxDuration + 1) % (2 * (MaxDuration + 1)) = x + MaxDuration + 1
  BY <1>1, <1>2
<1> QED
  BY <1>3, MaxDurationAssumption DEF Duration

\* Halving rounds down.
LEMMA Halves ==
    ASSUME NEW x \in Nat
    PROVE  x \div 2 \in Nat /\ 2 * (x \div 2) <= x /\ x < 2 * (x \div 2) + 2
  OBVIOUS

-----------------------------------------------------------------------------
(* workerInfrastructureBackoff *)

\* The configured values that reach the loop.
Configured == pollInterval \in PollIntervals

\* The limit is a Duration, and no smaller than the poll interval.
LEMMA LimitIsADuration ==
    ASSUME Configured
    PROVE  /\ pollInterval \in 1..MaxDuration /\ pollInterval \in 1..Limit
           /\ Limit \in 1..MaxDuration /\ Limit \in Nat \ {0}
<1>1. pollInterval \in 1..MaxDuration /\ maxWorkerInfrastructureBackoff \in 1..MaxDuration
  BY PollIntervalAssumption, BackoffAssumption DEF Configured
<1> QED
  BY <1>1, MaxDurationAssumption DEF Limit

\* What a round of the loop makes of the ceiling.
Round(c) ==
    IF c >= Limit THEN c ELSE IF c > Limit \div 2 THEN Limit ELSE Duration(2 * c)

Capped(d) == IF d > Limit THEN Limit ELSE d

\* The round doubles the ceiling up to the limit, without overflow.
LEMMA RoundDoubles ==
    ASSUME Configured, NEW d \in Nat \ {0}
    PROVE  Round(Capped(d)) = Capped(2 * d) /\ Capped(d) \in 1..Limit
<1> DEFINE L == Limit
<1>1. L \in Nat \ {0} /\ L <= MaxDuration /\ MaxDuration \in Nat
  BY LimitIsADuration, MaxDurationAssumption
<1>2. L \div 2 \in Nat /\ 2 * (L \div 2) <= L /\ L < 2 * (L \div 2) + 2
  BY <1>1, Halves
<1>3. Capped(d) = IF d > L THEN L ELSE d
  BY DEF Capped
<1>4. Capped(2 * d) = IF 2 * d > L THEN L ELSE 2 * d
  BY DEF Capped
<1>5. Round(Capped(d)) = IF Capped(d) >= L THEN Capped(d)
                         ELSE IF Capped(d) > L \div 2 THEN L ELSE Duration(2 * Capped(d))
  BY DEF Round
<1> HIDE DEF L
<1>6. ASSUME d >= L
      PROVE  Round(Capped(d)) = Capped(2 * d)
  BY <1>1, <1>3, <1>4, <1>5, <1>6
<1>7. ASSUME d < L, d > L \div 2
      PROVE  Round(Capped(d)) = Capped(2 * d)
  <2>1. Capped(d) = d /\ 2 * d >= L
    BY <1>1, <1>2, <1>3, <1>7
  <2> QED
    BY <1>1, <1>4, <1>5, <1>7, <2>1
<1>8. ASSUME d < L, d <= L \div 2
      PROVE  Round(Capped(d)) = Capped(2 * d)
  <2>1. Capped(d) = d /\ 2 * d \in 0..MaxDuration /\ 2 * d <= L
    BY <1>1, <1>2, <1>3, <1>8
  <2>2. Duration(2 * d) = 2 * d
    BY <2>1, DurationIsExact
  <2> QED
    BY <1>1, <1>2, <1>4, <1>5, <1>8, <2>1, <2>2
<1>9. Capped(d) \in 1..L
  BY <1>1, <1>3
<1>10. Round(Capped(d)) = Capped(2 * d)
  BY <1>1, <1>2, <1>6, <1>7, <1>8
<1> QED
  BY <1>9, <1>10 DEF L

\* One doubling, as the step of a loop.
Twice == [d \in Nat \ {0} |-> 2 * d]

\* The doubling that the ceiling is compared with is a loop, too.
LEMMA DoublingsAreLoops ==
    ASSUME Configured, NEW n \in Nat \ {0}
    PROVE  \E f \in Loop(Nat \ {0}, pollInterval, n, Twice) :
              /\ Doubled(n) = f[n] /\ Doubled(n) \in Nat \ {0}
              /\ n = 1 => Doubled(n) = pollInterval
<1> DEFINE doubled == CHOOSE doubled : doubled =
               [k \in 1..n |-> IF k = 1 THEN pollInterval ELSE 2 * doubled[k - 1]]
<1>1. Twice \in [Nat \ {0} -> Nat \ {0}] /\ pollInterval \in Nat \ {0}
  BY LimitIsADuration, MaxDurationAssumption DEF Twice
<1>2. PICK f \in Loop(Nat \ {0}, pollInterval, n, Twice) : TRUE
  <2> DEFINE D == Nat \ {0}
  <2>1. Twice \in [D -> D] /\ pollInterval \in D
    BY <1>1
  <2> HIDE DEF D
  <2>2. Loop(D, pollInterval, n, Twice) # {}
    BY <2>1, LoopsAreDefined
  <2> QED
    BY <2>2 DEF D
<1>3. /\ f \in [1..n -> Nat \ {0}]
      /\ \A k \in 1..n : f[k] = IF k = 1 THEN pollInterval ELSE Twice[f[k - 1]]
  BY DEF Loop
<1>4. f = [k \in 1..n |-> IF k = 1 THEN pollInterval ELSE 2 * f[k - 1]]
  <2>1. ASSUME NEW k \in 1..n
        PROVE  f[k] = IF k = 1 THEN pollInterval ELSE 2 * f[k - 1]
    <3>1. k # 1 => f[k - 1] \in Nat \ {0}
      BY <1>3
    <3> QED
      BY <1>3, <3>1 DEF Twice
  <2> QED
    BY <1>3, <2>1
<1>5. doubled = [k \in 1..n |-> IF k = 1 THEN pollInterval ELSE 2 * doubled[k - 1]]
  BY <1>4
<1>6. Doubled(n) = doubled[n]
  BY DEF Doubled
<1> HIDE DEF doubled
<1>7. ASSUME NEW k \in 1..n, k # 1, doubled[k - 1] \in Nat \ {0}
      PROVE  doubled[k] = Twice[doubled[k - 1]] /\ doubled[k] \in Nat \ {0}
  <2>1. doubled[k] = 2 * doubled[k - 1]
    BY <1>5, <1>7
  <2> QED
    BY <1>7, <2>1 DEF Twice
<1> DEFINE S == {r \in Nat \ {0} : r \in 1..n => doubled[r] \in Nat \ {0}}
<1>8. 1 \in S
  BY <1>1, <1>5
<1>9. ASSUME NEW r \in Nat \ {0}, r \in S
      PROVE  r + 1 \in S
  <2> SUFFICES ASSUME r + 1 \in 1..n
               PROVE  doubled[r + 1] \in Nat \ {0}
    OBVIOUS
  <2>1. r \in 1..n /\ r + 1 # 1 /\ (r + 1) - 1 = r
    OBVIOUS
  <2> QED
    BY <1>7, <1>9, <2>1
<1> HIDE DEF S
<1>10. \A k \in 1..n : doubled[k] \in Nat \ {0}
  <2>1. Nat \ {0} \subseteq S
    BY <1>8, <1>9, CountingIsInductive
  <2> QED
    BY <2>1 DEF S
<1>11. \A k \in 1..n : doubled[k] = IF k = 1 THEN pollInterval ELSE Twice[doubled[k - 1]]
  <2> SUFFICES ASSUME NEW k \in 1..n
               PROVE  doubled[k] = IF k = 1 THEN pollInterval ELSE Twice[doubled[k - 1]]
    OBVIOUS
  <2>1. CASE k = 1
    BY <1>5, <2>1
  <2>2. CASE k # 1
    <3>1. k - 1 \in 1..n
      BY <2>2
    <3> QED
      BY <1>7, <1>10, <2>2, <3>1
  <2> QED
    BY <2>1, <2>2
<1>12. doubled \in [1..n -> Nat \ {0}]
  BY <1>5, <1>10
<1>13. doubled \in Loop(Nat \ {0}, pollInterval, n, Twice)
  BY <1>11, <1>12 DEF Loop
<1> QED
  BY <1>6, <1>10, <1>11, <1>13

\* One failure more doubles once more.
LEMMA DoubledDoubles ==
    ASSUME Configured, NEW n \in Nat \ {0}
    PROVE  Doubled(n) \in Nat \ {0} /\ Doubled(n + 1) = 2 * Doubled(n)
<1> DEFINE D == Nat \ {0}
<1>1. PICK f \in Loop(D, pollInterval, n, Twice) : Doubled(n) = f[n] /\ Doubled(n) \in D
  BY DoublingsAreLoops
<1>2. PICK h \in Loop(D, pollInterval, n + 1, Twice) : Doubled(n + 1) = h[n + 1]
  BY DoublingsAreLoops
<1>3. Twice \in [D -> D] /\ pollInterval \in D
  BY LimitIsADuration DEF Twice
<1>4. f[n] = h[n]
  <2>1. n + 1 \in Nat \ {0} /\ n <= n /\ n <= n + 1
    OBVIOUS
  <2> HIDE DEF D
  <2> QED
    BY <1>1, <1>2, <1>3, <2>1, LoopsAgree
<1>5. h[n + 1] = Twice[h[n]]
  <2>1. n + 1 \in 1..(n + 1) /\ n + 1 # 1 /\ (n + 1) - 1 = n
    OBVIOUS
  <2> QED
    BY <2>1 DEF Loop
<1> QED
  BY <1>1, <1>2, <1>4, <1>5 DEF Twice

\* The loop of workerInfrastructureBackoff computes the doubled poll interval, up
\* to the limit, for every number of failures.
LEMMA CeilingIsExponential ==
    ASSUME Configured, NEW n \in Nat \ {0}
    PROVE  Ceiling(n) = Exponential(n) /\ Exponential(n) \in 1..Limit
<1> DEFINE ceiling == CHOOSE ceiling : ceiling =
               [k \in 1..n |-> IF k = 1 THEN pollInterval
                               ELSE IF ceiling[k - 1] >= Limit THEN ceiling[k - 1]
                               ELSE IF ceiling[k - 1] > Limit \div 2 THEN Limit
                               ELSE Duration(2 * ceiling[k - 1])]
<1>1. PICK f \in Loop(Nat \ {0}, pollInterval, n, Twice) :
              Doubled(n) = f[n] /\ Doubled(n) \in Nat \ {0}
  BY DoublingsAreLoops
<1>2. /\ f \in [1..n -> Nat \ {0}]
      /\ \A k \in 1..n : f[k] = IF k = 1 THEN pollInterval ELSE Twice[f[k - 1]]
  BY DEF Loop
<1> DEFINE c == [k \in 1..n |-> Capped(f[k])]
<1>3. ASSUME NEW k \in 1..n
      PROVE  c[k] = IF k = 1 THEN pollInterval ELSE Round(c[k - 1])
  <2>1. CASE k = 1
    <3>1. Capped(pollInterval) = pollInterval
      BY LimitIsADuration DEF Capped
    <3>2. c[k] = Capped(f[k]) /\ f[k] = pollInterval
      BY <1>2, <2>1
    <3> QED
      BY <2>1, <3>1, <3>2
  <2>2. CASE k # 1
    <3>1. k - 1 \in 1..n
      BY <2>2
    <3>2. f[k - 1] \in Nat \ {0} /\ f[k] = 2 * f[k - 1]
      BY <1>2, <2>2, <3>1 DEF Twice
    <3>3. c[k] = Capped(2 * f[k - 1]) /\ c[k - 1] = Capped(f[k - 1])
      BY <3>1, <3>2
    <3> QED
      BY <2>2, <3>2, <3>3, RoundDoubles
  <2> QED
    BY <2>1, <2>2
<1>4. \A k \in 1..n : c[k] = Capped(f[k])
  OBVIOUS
<1>5. c = [k \in 1..n |-> c[k]]
  OBVIOUS
<1> HIDE DEF c
<1>6. c = [k \in 1..n |-> IF k = 1 THEN pollInterval
                          ELSE IF c[k - 1] >= Limit THEN c[k - 1]
                          ELSE IF c[k - 1] > Limit \div 2 THEN Limit
                          ELSE Duration(2 * c[k - 1])]
  <2>1. \A k \in 1..n : c[k] = IF k = 1 THEN pollInterval
                               ELSE IF c[k - 1] >= Limit THEN c[k - 1]
                               ELSE IF c[k - 1] > Limit \div 2 THEN Limit
                               ELSE Duration(2 * c[k - 1])
    BY <1>3 DEF Round
  <2> QED
    BY <1>5, <2>1
<1>7. ceiling = [k \in 1..n |-> IF k = 1 THEN pollInterval
                                ELSE IF ceiling[k - 1] >= Limit THEN ceiling[k - 1]
                                ELSE IF ceiling[k - 1] > Limit \div 2 THEN Limit
                                ELSE Duration(2 * ceiling[k - 1])]
  BY <1>6
<1>8. Ceiling(n) = ceiling[n]
  BY DEF Ceiling
<1> HIDE DEF ceiling
<1>9. \A k \in 1..n : ceiling[k] = IF k = 1 THEN pollInterval ELSE Round(ceiling[k - 1])
  BY <1>7 DEF Round
<1> DEFINE S == {r \in Nat \ {0} : r \in 1..n => ceiling[r] = c[r]}
<1>10. 1 \in S
  BY <1>3, <1>9
<1>11. ASSUME NEW r \in Nat \ {0}, r \in S
       PROVE  r + 1 \in S
  <2> SUFFICES ASSUME r + 1 \in 1..n
               PROVE  ceiling[r + 1] = c[r + 1]
    OBVIOUS
  <2>1. r \in 1..n /\ r + 1 # 1 /\ (r + 1) - 1 = r
    OBVIOUS
  <2>2. c[r + 1] = Round(c[r]) /\ ceiling[r + 1] = Round(ceiling[r])
    BY <1>3, <1>9, <2>1
  <2> QED
    BY <1>11, <2>1, <2>2
<1> HIDE DEF S
<1>12. n \in S /\ n \in 1..n
  BY <1>10, <1>11, CountingIsInductive
<1>13. Ceiling(n) = Capped(Doubled(n))
  BY <1>1, <1>4, <1>8, <1>12 DEF S
<1> QED
  BY <1>1, <1>13, RoundDoubles DEF Exponential, Capped

-----------------------------------------------------------------------------
(* Run *)

\* A delay that is drawn after n failures in a row.
Drawn(d, n) == d \in (Exponential(n) \div 2)..Exponential(n)

\* Besides the types: the counter of Run counts the outage, a wait without one is
\* the poll interval, and one during it is drawn for its number of failures.
IndInv ==
    /\ TypeOK
    /\ infrastructureFailures = outage
    /\ outage = 0 /\ pc = "waiting" => delay = pollInterval
    /\ outage > 0 => Drawn(delay, outage)

\* Nothing changes with a poll interval that does not.
LEMMA PollIntervalIsFixed ==
    ASSUME UNCHANGED pollInterval
    PROVE  /\ Limit' = Limit
           /\ Exponential(outage)' = Exponential(outage')
           /\ Ceiling(infrastructureFailures)' = Ceiling(infrastructureFailures')
  BY DEF Limit, Exponential, Doubled, Ceiling

\* A delay that is drawn is between half of the ceiling and the ceiling, and no
\* longer than a Duration.
LEMMA DrawnInBounds ==
    ASSUME Configured, NEW n \in Nat \ {0}, NEW d, Drawn(d, n)
    PROVE  /\ d \in 0..MaxDuration /\ d <= Limit
           /\ d <= Exponential(n) /\ Exponential(n) < 2 * d + 2
<1>1. Exponential(n) \in Nat /\ Exponential(n) <= Limit /\ Limit <= MaxDuration
      /\ Limit \in Nat /\ MaxDuration \in Nat
  BY CeilingIsExponential, LimitIsADuration, MaxDurationAssumption
<1>2. /\ Exponential(n) \div 2 \in Nat
      /\ Exponential(n) < 2 * (Exponential(n) \div 2) + 2
  BY <1>1, Halves
<1> QED
  BY <1>1, <1>2 DEF Drawn

\* Every round of Run preserves the invariant; one that PostgreSQL spoils draws
\* its delay for one failure more.
LEMMA RoundPreserves ==
    ASSUME IndInv, [Next]_vars
    PROVE  /\ IndInv' /\ UNCHANGED pollInterval
           /\ outage' > outage => outage' = outage + 1 /\ Drawn(delay', outage')
<1>1. /\ Configured /\ infrastructureFailures \in 0..MaxFailures
      /\ outage \in 0..MaxFailures /\ MaxFailures \in Nat
      /\ pc \in {"processing", "waiting"} /\ delay \in 0..MaxDuration
      /\ infrastructureFailures = outage
  BY BackoffAssumption DEF IndInv, TypeOK, Configured
<1>2. pollInterval \in 0..MaxDuration
  BY <1>1, LimitIsADuration, MaxDurationAssumption
<1>3. UNCHANGED pollInterval
  BY DEF Next, UpdateProcessed, NothingFound, ProviderFailed, InfrastructureFailed,
         waitForNextPoll, vars
<1>4. ASSUME outage' = 0, infrastructureFailures' = 0,
             \/ UNCHANGED <<pc, delay>> /\ pc = "processing"
             \/ Wait(pollInterval)
      PROVE  IndInv' /\ ~(outage' > outage)
  BY <1>1, <1>2, <1>3, <1>4 DEF IndInv, TypeOK, Configured, Wait
<1>5. ASSUME UNCHANGED <<infrastructureFailures, delay, outage>>,
             UNCHANGED pc \/ (pc = "waiting" /\ pc' = "processing")
      PROVE  IndInv' /\ ~(outage' > outage)
  <2>1. Exponential(outage)' = Exponential(outage)
    BY <1>3, <1>5, PollIntervalIsFixed
  <2>2. (outage > 0 => Drawn(delay, outage))'
    BY <1>5, <2>1 DEF IndInv, Drawn
  <2> QED
    BY <1>1, <1>3, <1>5, <2>2 DEF IndInv, TypeOK, Configured
<1>6. CASE InfrastructureFailed
  <2> DEFINE n == outage + 1
  <2>1. /\ n \in Nat \ {0} /\ n \in 0..MaxFailures
        /\ infrastructureFailures' = n /\ outage' = n
        /\ pc' = "waiting" /\ delay' \in (Ceiling(n) \div 2)..Ceiling(n)
    BY <1>1, <1>6 DEF InfrastructureFailed, workerInfrastructureBackoff, Wait
  <2> HIDE DEF n
  <2>2. Drawn(delay', n)
    BY <1>1, <2>1, CeilingIsExponential DEF Drawn
  <2>3. delay' \in 0..MaxDuration
    BY <1>1, <2>1, <2>2, DrawnInBounds
  <2>4. Drawn(delay, outage)'
    BY <1>3, <2>1, <2>2, PollIntervalIsFixed DEF Drawn
  <2> QED
    BY <1>1, <1>3, <2>1, <2>2, <2>3, <2>4 DEF IndInv, TypeOK, Configured, n
<1> QED
  BY <1>3, <1>4, <1>5, <1>6
  DEF Next, UpdateProcessed, NothingFound, ProviderFailed, waitForNextPoll, vars

\* The invariant holds in every reachable state.
THEOREM BackoffInvariance == Spec => []IndInv
<1>1. Init => IndInv
  BY BackoffAssumption, MaxDurationAssumption DEF Init, IndInv, TypeOK
<1>2. IndInv /\ [Next]_vars => IndInv'
  BY RoundPreserves
<1> QED
  BY <1>1, <1>2, PTL DEF Spec

\* No delay is negative or overflows, and the counter of Run stays in bounds.
THEOREM DelaysAreDurations == Spec => []TypeOK
<1>1. IndInv => TypeOK
  BY DEF IndInv
<1> QED
  BY <1>1, BackoffInvariance, PTL

\* The n-th failure in a row waits for the poll interval doubled n - 1 times, up
\* to the limit, and at least half of it.
THEOREM BackoffIsExponential == Spec => []BackoffIsCappedExponential
<1>1. IndInv => BackoffIsCappedExponential
  BY DEF IndInv, TypeOK, BackoffIsCappedExponential, Drawn
<1> QED
  BY <1>1, BackoffInvariance, PTL

\* The jitter spreads workers that fail together over half of the ceiling.
THEOREM JitterAlwaysSpreads == Spec => []JitterSpreads
<1>1. IndInv => JitterSpreads
  <2> SUFFICES ASSUME IndInv, outage > 0
               PROVE  \E d, e \in workerInfrastructureBackoff(infrastructureFailures) :
                          e > d /\ 2 * (e - d) >= Exponential(outage)
    BY DEF JitterSpreads
  <2>1. Configured /\ infrastructureFailures = outage /\ outage \in Nat \ {0}
    BY BackoffAssumption DEF IndInv, TypeOK, Configured
  <2>2. Ceiling(outage) = Exponential(outage) /\ Exponential(outage) \in Nat \ {0}
    BY <2>1, CeilingIsExponential, LimitIsADuration
  <2> DEFINE c == Exponential(outage)
             half == c \div 2
  <2>3. half \in Nat /\ 2 * half <= c
    BY <2>2, Halves
  <2> HIDE DEF half
  <2>4. half \in half..c /\ c \in half..c /\ c > half /\ 2 * (c - half) >= c
    BY <2>2, <2>3
  <2>5. workerInfrastructureBackoff(infrastructureFailures) = half..c
    BY <2>1, <2>2 DEF workerInfrastructureBackoff, half
  <2> QED
    BY <2>4, <2>5
<1> QED
  BY <1>1, BackoffInvariance, PTL

\* While an outage goes on, a later delay is no shorter than the one before, up
\* to half of the limit.
THEOREM BackoffGrows == Spec => BackoffNeverShrinks
<1> DEFINE Grows ==
      outage' > outage /\ outage > 0 =>
          delay' >= (IF delay < Limit \div 2 THEN delay ELSE Limit \div 2)
<1>1. IndInv /\ [Next]_vars => Grows
  <2> SUFFICES ASSUME IndInv, [Next]_vars, outage' > outage, outage > 0
               PROVE  delay' >= (IF delay < Limit \div 2 THEN delay ELSE Limit \div 2)
    OBVIOUS
  <2>1. /\ Configured /\ outage \in Nat \ {0} /\ delay \in Nat
        /\ Drawn(delay, outage) /\ Drawn(delay', outage + 1)
    BY RoundPreserves, BackoffAssumption, MaxDurationAssumption DEF IndInv, TypeOK, Configured
  <2> DEFINE d == Doubled(outage)
             c == Exponential(outage)
             next == Exponential(outage + 1)
  <2>2. d \in Nat \ {0} /\ Doubled(outage + 1) = 2 * d
    BY <2>1, DoubledDoubles
  <2>3. /\ c = IF d > Limit THEN Limit ELSE d
        /\ next = IF 2 * d > Limit THEN Limit ELSE 2 * d
    BY <2>2 DEF Exponential
  <2>4. delay <= c /\ Limit \in Nat \ {0}
    BY <2>1, DrawnInBounds, LimitIsADuration
  <2>5. delay' \in (next \div 2)..next
    BY <2>1 DEF Drawn
  <2> HIDE DEF d, c, next
  <2>6. next \in Nat
    BY <2>2, <2>3, <2>4
  <2>7. CASE 2 * d > Limit
    <3>1. next = Limit /\ Limit \div 2 \in Nat
      BY <2>3, <2>4, <2>7, Halves
    <3>2. delay' \in Int /\ delay' >= Limit \div 2
      BY <2>5, <3>1
    <3> QED
      BY <2>1, <3>1, <3>2
  <2>8. CASE ~(2 * d > Limit)
    <3>1. next = 2 * d /\ c = d
      BY <2>2, <2>3, <2>4, <2>8
    <3>2. next \div 2 = d
      BY <2>2, <3>1
    <3> QED
      BY <2>1, <2>2, <2>4, <2>5, <3>1, <3>2
  <2> QED
    BY <2>7, <2>8
<1> QED
  BY <1>1, BackoffInvariance, PTL DEF Spec, BackoffNeverShrinks
=============================================================================
