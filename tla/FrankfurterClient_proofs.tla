---------------------- MODULE FrankfurterClient_proofs ----------------------
(***************************************************************************)
(* FetchRate for every policy, header and timeout.  The arithmetic of      *)
(* RetryPolicy comes first: it is computed by loops, which the model       *)
(* writes as recursive functions; that they exist and what they compute is *)
(* proved by induction, with sets of numbers for the induction hypotheses. *)
(***************************************************************************)
EXTENDS FrankfurterClient, TLAPS, WellFoundedInduction

-----------------------------------------------------------------------------
(* Induction and recursion *)

\* A set with 0 and the successor of each of its numbers holds every number.
LEMMA NumbersAreInductive ==
    ASSUME NEW S, 0 \in S, \A n \in Nat : n \in S => n + 1 \in S
    PROVE  Nat \subseteq S
<1>1. SUFFICES ASSUME NEW T, T = Nat \ S, T # {}
               PROVE  FALSE
  OBVIOUS
<1>2. T \subseteq Nat
  BY <1>1
<1>3. PICK least \in T : \A y \in T : ~(<<y, least>> \in OpToRel(<, Nat))
  BY <1>1, <1>2, NatLessThanWellFounded, WFMin, Zenon
<1>4. least # 0 /\ least \in Nat
  BY <1>1, <1>3
<1>5. least - 1 \in T
  BY <1>1, <1>4
<1>6. <<least - 1, least>> \in OpToRel(<, Nat)
  BY <1>4 DEF OpToRel
<1> QED  BY <1>3, <1>5, <1>6

\* The functions that are a loop from m to n: one value for each round, the first
\* given and each other computed from the round and the value before.
Loop(D, a, m, n, g) ==
    {f \in [m..n -> D] : \A k \in m..n : f[k] = IF k = m THEN a ELSE g[<<k, f[k - 1]>>]}

\* There is one for every loop.
LEMMA LoopsAreDefined ==
    ASSUME NEW D, NEW a \in D, NEW m \in Int, NEW n \in Int, m <= n,
           NEW g \in [Int \X D -> D]
    PROVE  Loop(D, a, m, n, g) # {}
<1> DEFINE S == {r \in Nat : \E f \in [m..(m + r) -> D] :
              \A k \in m..(m + r) : f[k] = IF k = m THEN a ELSE g[<<k, f[k - 1]>>]}
<1>1. 0 \in S
  <2> DEFINE f == [k \in m..(m + 0) |-> a]
  <2>1. f \in [m..(m + 0) -> D]
    OBVIOUS
  <2>2. \A k \in m..(m + 0) : k = m /\ f[k] = a
    OBVIOUS
  <2> QED  BY <2>1, <2>2
<1>2. ASSUME NEW r \in Nat, r \in S
      PROVE  r + 1 \in S
  <2>1. PICK f \in [m..(m + r) -> D] :
              \A k \in m..(m + r) : f[k] = IF k = m THEN a ELSE g[<<k, f[k - 1]>>]
    BY <1>2
  <2> DEFINE last == m + (r + 1)
             h == [k \in m..last |-> IF k = last THEN g[<<k, f[m + r]>>] ELSE f[k]]
  <2>2. m + r \in m..(m + r) /\ f[m + r] \in D /\ last \in Int /\ last # m /\ last - 1 = m + r
    OBVIOUS
  <2>3. g[<<last, f[m + r]>>] \in D
    BY <2>2
  <2>4. \A k \in m..last : k = last \/ (k \in m..(m + r) /\ k # last)
    OBVIOUS
  <2>5. h \in [m..last -> D]
    BY <2>3, <2>4
  <2>6. \A k \in m..(m + r) : h[k] = f[k]
    BY <2>4
  <2>7. ASSUME NEW k \in m..last
        PROVE  h[k] = IF k = m THEN a ELSE g[<<k, h[k - 1]>>]
    <3>1. CASE k = last
      <4>1. h[k] = g[<<k, f[m + r]>>]
        BY <3>1
      <4>2. k # m /\ k - 1 = m + r /\ h[m + r] = f[m + r]
        BY <2>2, <2>6, <3>1
      <4> QED  BY <4>1, <4>2
    <3>2. CASE k = m
      <4>1. k \in m..(m + r)
        BY <3>2
      <4>2. h[k] = f[k] /\ f[k] = a
        BY <2>1, <2>6, <3>2, <4>1
      <4> QED  BY <3>2, <4>2
    <3>3. CASE k # last /\ k # m
      <4>1. k \in m..(m + r) /\ k - 1 \in m..(m + r)
        BY <2>4, <3>3
      <4>2. h[k] = f[k] /\ h[k - 1] = f[k - 1] /\ f[k] = g[<<k, f[k - 1]>>]
        BY <2>1, <2>6, <3>3, <4>1
      <4> QED  BY <3>3, <4>2
    <3> QED  BY <3>1, <3>2, <3>3
  <2> HIDE DEF h
  <2>8. \E x \in [m..(m + (r + 1)) -> D] :
              \A k \in m..(m + (r + 1)) : x[k] = IF k = m THEN a ELSE g[<<k, x[k - 1]>>]
    BY <2>5, <2>7
  <2> QED  BY <2>8
<1> HIDE DEF S
<1>3. n - m \in S
  <2>1. n - m \in Nat
    OBVIOUS
  <2> QED  BY <1>1, <1>2, <2>1, NumbersAreInductive
<1>4. m + (n - m) = n
  OBVIOUS
<1> QED  BY <1>3, <1>4 DEF S, Loop

-----------------------------------------------------------------------------
(* Durations *)

\* A remainder of what is smaller than the divisor.
LEMMA SmallRemainder ==
    ASSUME NEW a \in Nat, NEW b \in Nat, a < b
    PROVE  a % b = a
  OBVIOUS

\* Arithmetic that stays within 64 bits is exact.
LEMMA DurationIsExact ==
    ASSUME NEW x \in 0..MaxDuration
    PROVE  Duration(x) = x
<1>1. x + MaxDuration + 1 \in Nat /\ 2 * (MaxDuration + 1) \in Nat
      /\ x + MaxDuration + 1 < 2 * (MaxDuration + 1)
  BY MaxDurationAssumption
<1>2. (x + MaxDuration + 1) % (2 * (MaxDuration + 1)) = x + MaxDuration + 1
  BY <1>1, SmallRemainder
<1> QED  BY <1>2, MaxDurationAssumption DEF Duration

\* Halving rounds down.
LEMMA Halves ==
    ASSUME NEW x \in Nat
    PROVE  x \div 2 \in Nat /\ 2 * (x \div 2) <= x /\ x < 2 * (x \div 2) + 2
  OBVIOUS

\* The powers of two that ten attempts need.
LEMMA PowersOfTwo ==
    /\ \A k \in 1..10 : 2^(k - 1) \in Nat
    /\ \A k \in 1..9 : 2^((k + 1) - 1) = 2 * 2^(k - 1)
<1>1. /\ 2^0 = 1 /\ 2^1 = 2 /\ 2^2 = 4 /\ 2^3 = 8 /\ 2^4 = 16
      /\ 2^5 = 32 /\ 2^6 = 64 /\ 2^7 = 128 /\ 2^8 = 256 /\ 2^9 = 512
  OBVIOUS
<1>2. ASSUME NEW k \in 1..10
      PROVE  2^(k - 1) \in Nat
  <2>1. CASE k = 1
    BY <1>1, <2>1
  <2>2. CASE k = 2
    BY <1>1, <2>2
  <2>3. CASE k = 3
    BY <1>1, <2>3
  <2>4. CASE k = 4
    BY <1>1, <2>4
  <2>5. CASE k = 5
    BY <1>1, <2>5
  <2>6. CASE k = 6
    BY <1>1, <2>6
  <2>7. CASE k = 7
    BY <1>1, <2>7
  <2>8. CASE k = 8
    BY <1>1, <2>8
  <2>9. CASE k = 9
    BY <1>1, <2>9
  <2>10. CASE k = 10
    BY <1>1, <2>10
  <2> QED  BY <2>1, <2>2, <2>3, <2>4, <2>5, <2>6, <2>7, <2>8, <2>9, <2>10
<1>3. ASSUME NEW k \in 1..9
      PROVE  2^((k + 1) - 1) = 2 * 2^(k - 1)
  <2>1. CASE k = 1
    BY <1>1, <2>1
  <2>2. CASE k = 2
    BY <1>1, <2>2
  <2>3. CASE k = 3
    BY <1>1, <2>3
  <2>4. CASE k = 4
    BY <1>1, <2>4
  <2>5. CASE k = 5
    BY <1>1, <2>5
  <2>6. CASE k = 6
    BY <1>1, <2>6
  <2>7. CASE k = 7
    BY <1>1, <2>7
  <2>8. CASE k = 8
    BY <1>1, <2>8
  <2>9. CASE k = 9
    BY <1>1, <2>9
  <2> QED  BY <2>1, <2>2, <2>3, <2>4, <2>5, <2>6, <2>7, <2>8, <2>9
<1> QED  BY <1>2, <1>3

-----------------------------------------------------------------------------
(* RetryPolicy *)

\* The initial delay doubled before each attempt after the first, up to the
\* maximum: what exponentialBackoffLimit is meant to compute.
Exponential(pol, k) == pol.InitialDelay * 2^(k - 1)

CappedExponential(pol, k) ==
    IF Exponential(pol, k) > pol.MaxDelay THEN pol.MaxDelay ELSE Exponential(pol, k)

\* One round of the loop doubles the delay, up to the maximum, without overflow.
LEMMA RoundDoubles ==
    ASSUME NEW pol, ValidPolicy(pol), NEW k \in 1..9,
           NEW d, d = CappedExponential(pol, k)
    PROVE  CappedExponential(pol, k + 1) =
              IF d > pol.MaxDelay \div 2 THEN pol.MaxDelay ELSE Duration(2 * d)
<1> DEFINE e == Exponential(pol, k)
           M == pol.MaxDelay
<1>1. e \in Nat /\ M \in Nat /\ M >= 1 /\ M <= MaxDuration
  <2>1. 2^(k - 1) \in Nat
    <3>1. k \in 1..10
      OBVIOUS
    <3> QED  BY <3>1, PowersOfTwo, Zenon
  <2>2. pol.InitialDelay \in Nat /\ M \in Nat /\ M >= 1 /\ M <= MaxDuration
    BY MaxDurationAssumption DEF ValidPolicy
  <2> QED  BY <2>1, <2>2 DEF Exponential
<1>2. Exponential(pol, k + 1) = 2 * e
  <2>1. 2^(k - 1) \in Nat /\ 2^((k + 1) - 1) = 2 * 2^(k - 1)
    <3>1. k \in 1..10
      OBVIOUS
    <3> QED  BY <3>1, PowersOfTwo, Zenon
  <2>2. pol.InitialDelay \in Nat
    BY MaxDurationAssumption DEF ValidPolicy
  <2> QED  BY <2>1, <2>2 DEF Exponential
<1>3. M \div 2 \in Nat /\ 2 * (M \div 2) <= M /\ M < 2 * (M \div 2) + 2
  BY <1>1, Halves
<1>4. d = IF e > M THEN M ELSE e
  BY DEF CappedExponential
<1>5. CappedExponential(pol, k + 1) = IF 2 * e > M THEN M ELSE 2 * e
  BY <1>2 DEF CappedExponential
<1> HIDE DEF e, M
<1>6. CASE d > M \div 2
  <2>1. 2 * e > M \/ 2 * e = M
    BY <1>1, <1>3, <1>4, <1>6
  <2>2. CappedExponential(pol, k + 1) = M
    BY <1>5, <2>1
  <2> QED  BY <1>6, <2>2 DEF M
<1>7. CASE ~(d > M \div 2)
  <2>1. d = e /\ 2 * e \in 0..MaxDuration /\ ~(2 * e > M)
    BY <1>1, <1>3, <1>4, <1>7, MaxDurationAssumption
  <2>2. Duration(2 * d) = 2 * e
    BY <2>1, DurationIsExact
  <2> QED  BY <1>5, <1>7, <2>1, <2>2 DEF M
<1> QED  BY <1>6, <1>7

\* The loop of exponentialBackoffLimit computes the capped exponential for every
\* policy the validation accepts and every attempt it allows.
LEMMA LimitIsCappedExponential ==
    ASSUME NEW pol, ValidPolicy(pol), NEW n \in 1..pol.MaxAttempts
    PROVE  exponentialBackoffLimit(pol, n) = CappedExponential(pol, n)
<1> DEFINE D == 0..pol.MaxDelay
           I == pol.InitialDelay
           Body(d) == IF d > pol.MaxDelay \div 2 THEN pol.MaxDelay ELSE Duration(2 * d)
           g == [x \in Int \X D |-> Body(x[2])]
           limits == CHOOSE limits : limits = [k \in 1..n |-> IF k = 1 THEN I ELSE
                        IF limits[k - 1] > pol.MaxDelay \div 2 THEN pol.MaxDelay
                        ELSE Duration(2 * limits[k - 1])]
<1>1. /\ I \in D /\ pol.MaxDelay \in Nat /\ pol.MaxDelay >= 1 /\ pol.MaxDelay <= MaxDuration
      /\ n \in 1..10 /\ n - 1 \in Nat /\ 1 + (n - 1) = n
  BY MaxDurationAssumption DEF ValidPolicy
<1>2. \A d \in D : Body(d) \in D
  <2> SUFFICES ASSUME NEW d \in D PROVE Body(d) \in D
    OBVIOUS
  <2>1. PICK half \in Nat : half = pol.MaxDelay \div 2 /\ 2 * half <= pol.MaxDelay
    BY <1>1, Halves
  <2>2. CASE d > pol.MaxDelay \div 2
    BY <1>1, <2>2
  <2>3. CASE ~(d > pol.MaxDelay \div 2)
    <3>1. d \in Nat /\ ~(d > half)
      BY <1>1, <2>1, <2>3
    <3>2. 2 * d <= pol.MaxDelay /\ 2 * d \in 0..MaxDuration
      BY <1>1, <2>1, <3>1, MaxDurationAssumption
    <3>3. Duration(2 * d) = 2 * d
      BY <3>2, DurationIsExact
    <3> QED  BY <1>1, <2>3, <3>2, <3>3
  <2> QED  BY <2>2, <2>3
<1> HIDE DEF Body
<1>3. g \in [Int \X D -> D]
  BY <1>2
<1>4. \A k \in Int, d \in D : g[<<k, d>>] = Body(d)
  OBVIOUS
<1> HIDE DEF g, D
<1>5. PICK f \in [1..n -> D] :
          \A k \in 1..n : f[k] = IF k = 1 THEN I ELSE g[<<k, f[k - 1]>>]
  <2>1. 1 \in Int /\ n \in Int /\ 1 <= n /\ I \in D
    BY <1>1
  <2> HIDE DEF I
  <2>2. Loop(D, I, 1, n, g) # {}
    BY <1>3, <2>1, LoopsAreDefined
  <2> QED  BY <2>2 DEF Loop
<1>6. f = [k \in 1..n |-> IF k = 1 THEN I ELSE
                        IF f[k - 1] > pol.MaxDelay \div 2 THEN pol.MaxDelay
                        ELSE Duration(2 * f[k - 1])]
  <2>1. ASSUME NEW k \in 1..n
        PROVE  f[k] = IF k = 1 THEN I ELSE Body(f[k - 1])
    <3>1. CASE k = 1
      BY <1>5, <3>1
    <3>2. CASE k # 1
      <4>1. k - 1 \in 1..n /\ k \in Int
        BY <3>2
      <4>2. g[<<k, f[k - 1]>>] = Body(f[k - 1])
        BY <1>4, <1>5, <4>1
      <4> QED  BY <1>5, <3>2, <4>2
    <3> QED  BY <3>1, <3>2
  <2> QED  BY <1>5, <2>1 DEF Body
<1>7. limits = [k \in 1..n |-> IF k = 1 THEN I ELSE
                        IF limits[k - 1] > pol.MaxDelay \div 2 THEN pol.MaxDelay
                        ELSE Duration(2 * limits[k - 1])]
  BY <1>6
<1>8. exponentialBackoffLimit(pol, n) =
          IF I <= 0 THEN 0 ELSE IF limits[n] > pol.MaxDelay THEN pol.MaxDelay ELSE limits[n]
  BY DEF exponentialBackoffLimit
<1> HIDE DEF limits
<1> DEFINE S == {r \in Nat : r + 1 \in 1..n => limits[r + 1] = CappedExponential(pol, r + 1)}
<1>9. 0 \in S
  <2>1. limits[1] = I
    BY <1>1, <1>7
  <2>2. CappedExponential(pol, 1) = I
    <3>1. 2^(1 - 1) = 1
      OBVIOUS
    <3>2. Exponential(pol, 1) = I
      BY <1>1, <3>1 DEF Exponential, D
    <3> QED  BY <1>1, <3>2 DEF CappedExponential, D
  <2> QED  BY <2>1, <2>2
<1>10. ASSUME NEW r \in Nat, r \in S
       PROVE  r + 1 \in S
  <2> SUFFICES ASSUME (r + 1) + 1 \in 1..n
               PROVE  limits[(r + 1) + 1] = CappedExponential(pol, (r + 1) + 1)
    OBVIOUS
  <2>1. r + 1 \in 1..n /\ r + 1 \in 1..9 /\ (r + 1) + 1 # 1 /\ ((r + 1) + 1) - 1 = r + 1
    BY <1>1
  <2>2. limits[r + 1] = CappedExponential(pol, r + 1)
    BY <1>10, <2>1
  <2>3. limits[(r + 1) + 1] = Body(limits[r + 1])
    BY <1>7, <2>1 DEF Body
  <2> QED  BY <2>1, <2>2, <2>3, RoundDoubles DEF Body
<1> HIDE DEF S
<1>11. n - 1 \in S
  BY <1>1, <1>9, <1>10, NumbersAreInductive
<1>12. limits[n] = CappedExponential(pol, n)
  <2>1. (n - 1) + 1 = n
    BY <1>1
  <2> QED  BY <1>11, <2>1 DEF S
<1>13. CappedExponential(pol, n) \in Nat /\ CappedExponential(pol, n) <= pol.MaxDelay
  <2>1. 2^(n - 1) \in Nat
    BY <1>1, PowersOfTwo
  <2>2. I \in Nat
    BY <1>1 DEF D
  <2> QED  BY <1>1, <2>1, <2>2 DEF CappedExponential, Exponential
<1>14. I <= 0 => CappedExponential(pol, n) = 0
  <2>1. I <= 0 => I = 0
    BY <1>1 DEF D
  <2>2. 2^(n - 1) \in Nat
    BY <1>1, PowersOfTwo
  <2> QED  BY <1>1, <2>1, <2>2 DEF CappedExponential, Exponential
<1> QED  BY <1>1, <1>8, <1>12, <1>13, <1>14

\* The time the attempts and waits of a policy may take together.
FetchTime(pol, timeout) ==
    pol.MaxAttempts * timeout + (pol.MaxAttempts - 1) * pol.MaxDelay

\* processingTimeoutCoversRetries subtracts term by term and never below zero; if
\* it answers yes, the margin and the whole fetch fit into the processing timeout.
LEMMA CoveredFetchFits ==
    ASSUME NEW pol, ValidPolicy(pol),
           NEW total \in Nat, NEW margin \in Nat, NEW timeout \in Nat,
           CoversRetries(total, margin, pol, timeout)
    PROVE  margin + FetchTime(pol, timeout) <= total
<1> DEFINE N == pol.MaxAttempts
           M == pol.MaxDelay
           Less(left, d) == IF left = -1 \/ left < d THEN -1 ELSE left - d
           Body(k, left) == IF k < N THEN Less(Less(left, timeout), M) ELSE Less(left, timeout)
           g == [x \in Int \X Int |-> Body(x[1], x[2])]
           remaining == CHOOSE remaining : remaining = [k \in 0..N |->
                            IF k = 0 THEN Less(total, margin)
                            ELSE IF k < N THEN Less(Less(remaining[k - 1], timeout), M)
                            ELSE Less(remaining[k - 1], timeout)]
<1>1. N \in 1..10 /\ M \in Nat
  BY MaxDurationAssumption DEF ValidPolicy
<1>2. CoversRetries(total, margin, pol, timeout) <=> remaining[N] # -1
  BY DEF CoversRetries
<1> HIDE DEF N, M
<1>3. \A left, d \in Int : Less(left, d) \in Int
  OBVIOUS
<1> HIDE DEF Less
<1>4. \A k, left \in Int : Body(k, left) \in Int
  <2> TAKE k, left \in Int
  <2>1. Less(left, timeout) \in Int
    BY <1>3
  <2>2. Less(Less(left, timeout), M) \in Int
    BY <1>1, <1>3, <2>1
  <2> QED  BY <2>1, <2>2
<1>5. g \in [Int \X Int -> Int] /\ \A k, left \in Int : g[<<k, left>>] = Body(k, left)
  <2> HIDE DEF Body
  <2> QED  BY <1>4
<1> HIDE DEF g
<1>6. PICK f \in [0..N -> Int] :
          \A k \in 0..N : f[k] = IF k = 0 THEN Less(total, margin) ELSE g[<<k, f[k - 1]>>]
  <2>1. 0 \in Int /\ N \in Int /\ 0 <= N /\ Less(total, margin) \in Int
    BY <1>1, <1>3
  <2>2. Loop(Int, Less(total, margin), 0, N, g) # {}
    BY <1>5, <2>1, LoopsAreDefined
  <2> QED  BY <2>2 DEF Loop
<1>7. f = [k \in 0..N |->
              IF k = 0 THEN Less(total, margin)
              ELSE IF k < N THEN Less(Less(f[k - 1], timeout), M)
              ELSE Less(f[k - 1], timeout)]
  <2>1. ASSUME NEW k \in 0..N, k # 0
        PROVE  f[k] = Body(k, f[k - 1])
    <3>1. k - 1 \in 0..N /\ k \in Int /\ f[k - 1] \in Int
      BY <1>1, <1>6, <2>1
    <3> QED  BY <1>5, <1>6, <2>1, <3>1
  <2> QED  BY <1>6, <2>1
<1>8. remaining = [k \in 0..N |->
              IF k = 0 THEN Less(total, margin)
              ELSE IF k < N THEN Less(Less(remaining[k - 1], timeout), M)
              ELSE Less(remaining[k - 1], timeout)]
  BY <1>7
<1> HIDE DEF remaining
<1> DEFINE Gone(r) == margin + r * timeout + (IF r < N THEN r ELSE N - 1) * M
           S == {r \in Nat : r \in 0..N => remaining[r] = -1 \/
                    (remaining[r] \in Nat /\ remaining[r] + Gone(r) = total)}
<1>9. 0 \in S
  <2>1. remaining[0] = Less(total, margin)
    BY <1>1, <1>8
  <2>2. Gone(0) = margin
    BY <1>1
  <2> QED  BY <2>1, <2>2 DEF Less
<1>10. ASSUME NEW r \in Nat, r \in S
       PROVE  r + 1 \in S
  <2> SUFFICES ASSUME r + 1 \in 0..N
               PROVE  remaining[r + 1] = -1 \/
                         (remaining[r + 1] \in Nat /\ remaining[r + 1] + Gone(r + 1) = total)
    OBVIOUS
  <2>1. r \in 0..N /\ r < N /\ r + 1 # 0 /\ (r + 1) - 1 = r
    BY <1>1
  <2>2. remaining[r] = -1 \/ (remaining[r] \in Nat /\ remaining[r] + Gone(r) = total)
    BY <1>10, <2>1
  <2>3. remaining[r + 1] = IF r + 1 < N THEN Less(Less(remaining[r], timeout), M)
                           ELSE Less(remaining[r], timeout)
    BY <1>8, <2>1
  <2>4. /\ Gone(r) \in Nat
        /\ Gone(r + 1) = Gone(r) + timeout + (IF r + 1 < N THEN M ELSE 0)
    <3>1. /\ r * timeout \in Nat /\ r * M \in Nat
          /\ (r + 1) * timeout = r * timeout + timeout /\ (r + 1) * M = r * M + M
      BY <1>1
    <3>2. Gone(r) = margin + r * timeout + r * M
      BY <2>1
    <3>3. CASE r + 1 < N
      BY <1>1, <3>1, <3>2, <3>3
    <3>4. CASE ~(r + 1 < N)
      <4>1. N - 1 = r
        BY <1>1, <2>1, <3>4
      <4> QED  BY <1>1, <3>1, <3>2, <3>4, <4>1
    <3> QED  BY <3>3, <3>4
  <2> HIDE DEF Gone, S
  <2>5. Less(-1, timeout) = -1 /\ Less(-1, M) = -1
    BY DEF Less
  <2>6. CASE remaining[r] = -1
    BY <2>3, <2>5, <2>6
  <2>7. CASE remaining[r] \in Nat /\ remaining[r] + Gone(r) = total
    <3>1. PICK left \in Nat : left = remaining[r]
      BY <2>7
    <3>2. \/ Less(left, timeout) = -1
          \/ Less(left, timeout) \in Nat /\ Less(left, timeout) = left - timeout
      BY DEF Less
    <3>3. CASE r + 1 < N
      <4>1. remaining[r + 1] = Less(Less(left, timeout), M)
        BY <2>3, <3>1, <3>3
      <4>2. CASE Less(left, timeout) = -1
        BY <2>5, <4>1, <4>2
      <4>3. CASE Less(left, timeout) \in Nat /\ Less(left, timeout) = left - timeout
        <5>1. PICK rest \in Nat : rest = Less(left, timeout)
          BY <4>3
        <5>2. Less(rest, M) = -1 \/ (Less(rest, M) \in Nat /\ Less(rest, M) = rest - M)
          BY <1>1 DEF Less
        <5>3. remaining[r + 1] = Less(rest, M)
          BY <4>1, <5>1
        <5>4. rest = left - timeout /\ left + Gone(r) = total
          BY <2>7, <3>1, <4>3, <5>1
        <5>5. Gone(r + 1) = Gone(r) + timeout + M
          BY <2>4, <3>3
        <5> QED  BY <1>1, <2>4, <5>2, <5>3, <5>4, <5>5
      <4> QED  BY <3>2, <4>2, <4>3
    <3>4. CASE ~(r + 1 < N)
      BY <2>3, <2>4, <2>7, <3>1, <3>2, <3>4
    <3> QED  BY <3>3, <3>4
  <2> QED  BY <2>2, <2>6, <2>7
<1> HIDE DEF S
<1>11. N \in S
  BY <1>1, <1>9, <1>10, NumbersAreInductive
<1>12. remaining[N] \in Nat /\ remaining[N] + Gone(N) = total
  <2>1. N \in 0..N
    BY <1>1
  <2> QED  BY <1>2, <1>11, <2>1 DEF S
<1>13. Gone(N) = margin + FetchTime(pol, timeout)
  <2>1. Gone(N) = margin + N * timeout + (N - 1) * M
    BY <1>1
  <2>2. FetchTime(pol, timeout) = N * timeout + (N - 1) * M
    BY DEF FetchTime, N, M
  <2>3. N * timeout \in Nat /\ (N - 1) * M \in Nat
    BY <1>1
  <2> HIDE DEF Gone
  <2> QED  BY <2>1, <2>2, <2>3
<1>14. margin + FetchTime(pol, timeout) \in Nat
  <2>1. N * timeout \in Nat /\ (N - 1) * M \in Nat
    BY <1>1
  <2>2. FetchTime(pol, timeout) = N * timeout + (N - 1) * M
    BY DEF FetchTime, N, M
  <2> QED  BY <2>1, <2>2
<1> HIDE DEF Gone
<1> QED  BY <1>12, <1>13, <1>14

\* A product of numbers is monotone in its first factor.
LEMMA ProductsGrow ==
    ASSUME NEW a \in Nat, NEW b \in Nat, a <= b, NEW r \in Nat
    PROVE  a * r <= b * r
<1>1. b - a \in Nat /\ (b - a) * r \in Nat
  OBVIOUS
<1>2. b * r = a * r + (b - a) * r
  OBVIOUS
<1>3. a * r \in Nat /\ b * r \in Nat
  OBVIOUS
<1> QED  BY <1>1, <1>2, <1>3

\* The number of a header is an integer.
LEMMA HeaderType ==
    ASSUME NEW header \in RetryAfterHeader
    PROVE  header.kind \in {"seconds", "date", "absent", "other"} /\ header.value \in Int
  BY DEF RetryAfterHeader

\* What the server asks for is a number, and nothing if the client finds nothing
\* in a header whose number has 64 bits.
LEMMA AskedIsNatural ==
    ASSUME NEW header \in RetryAfterHeader
    PROVE  /\ Asked(header) \in Nat
           /\ ~RetryAfterFound(header) /\ ~Oversized(header) => Asked(header) = 0
<1>1. /\ header.kind \in {"seconds", "date", "absent", "other"} /\ header.value \in Int
      /\ Second \in Nat
  BY HeaderType, MaxDurationAssumption, SecondAssumption
<1>2. CASE header.kind \notin {"seconds", "date"} \/ header.value < 0
  BY <1>2 DEF Asked
<1>3. CASE header.kind = "seconds" /\ ~(header.value < 0)
  <2>1. header.value \in Nat
    BY <1>1, <1>3
  <2>2. Asked(header) = header.value * Second
    BY <1>3 DEF Asked
  <2>3. header.value * Second \in Nat
    BY <1>1, <2>1
  <2>4. RetryAfterFound(header) \/ Oversized(header)
    BY <1>3, <2>1 DEF RetryAfterFound
  <2> QED  BY <2>2, <2>3, <2>4
<1>4. CASE header.kind = "date" /\ ~(header.value < 0)
  BY <1>1, <1>4 DEF Asked, RetryAfterFound
<1> QED  BY <1>1, <1>2, <1>3, <1>4

\* parseRetryAfter never asks for more than the server does, and for exactly that
\* unless it is more than a Duration holds.
LEMMA RetryAfterIsExact ==
    ASSUME NEW header \in RetryAfterHeader, RetryAfterFound(header)
    PROVE  /\ Asked(header) \in Nat /\ RetryAfter(header) \in Nat
           /\ RetryAfter(header) <= Asked(header)
           /\ RetryAfter(header) < MaxDuration => RetryAfter(header) = Asked(header)
<1> DEFINE v == header.value
           q == MaxDuration \div Second
<1>1. /\ v \in Int /\ MaxDuration \in Nat /\ Second \in Nat \ {0}
      /\ header.kind = "date" \/ (header.kind = "seconds" /\ v \in Nat)
  BY HeaderType, MaxDurationAssumption, SecondAssumption DEF RetryAfterFound
<1>2. q \in Nat /\ q * Second <= MaxDuration /\ MaxDuration < (q + 1) * Second
  <2> HIDE DEF v
  <2> QED  BY <1>1
<1> HIDE DEF v, q
<1>3. CASE header.kind = "date"
  <2>1. Asked(header) = (IF v < 0 THEN 0 ELSE v)
    BY <1>3, <1>1 DEF Asked, RetryAfterFound, v
  <2>2. RetryAfter(header) = IF v < 0 THEN 0 ELSE IF v > MaxDuration THEN MaxDuration ELSE v
    BY <1>3 DEF RetryAfter, v
  <2> QED  BY <1>1, <2>1, <2>2
<1>4. CASE header.kind = "seconds" /\ v \in Nat
  <2>1. Asked(header) = v * Second /\ v * Second \in Nat
    BY <1>1, <1>4 DEF Asked, RetryAfterFound, v
  <2>2. CASE v > q
    <3>1. (q + 1) * Second <= v * Second
      BY <1>1, <1>2, <1>4, <2>2, ProductsGrow
    <3>2. RetryAfter(header) = MaxDuration
      BY <1>4, <2>2 DEF RetryAfter, v, q
    <3>3. (q + 1) * Second \in Nat
      BY <1>1, <1>2
    <3> QED  BY <1>1, <1>2, <2>1, <3>1, <3>2, <3>3
  <2>3. CASE ~(v > q)
    <3>1. v * Second <= q * Second
      BY <1>1, <1>2, <1>4, <2>3, ProductsGrow
    <3>2. q * Second \in Nat
      BY <1>1, <1>2
    <3>3. v * Second \in 0..MaxDuration
      BY <1>1, <1>2, <2>1, <3>1, <3>2
    <3>4. RetryAfter(header) = v * Second
      BY <1>4, <2>3, <3>3, DurationIsExact DEF RetryAfter, v, q
    <3> QED  BY <2>1, <3>4
  <2> QED  BY <2>2, <2>3
<1> QED  BY <1>1, <1>3, <1>4

\* The limit of the jitter is a delay.
LEMMA LimitIsDelay ==
    ASSUME NEW pol, ValidPolicy(pol), NEW n \in 1..pol.MaxAttempts
    PROVE  exponentialBackoffLimit(pol, n) \in 0..pol.MaxDelay
<1>1. pol.MaxDelay \in Nat /\ pol.InitialDelay \in Nat /\ n \in 1..10
  BY MaxDurationAssumption DEF ValidPolicy
<1>2. 2^(n - 1) \in Nat
  BY <1>1, PowersOfTwo, Zenon
<1>3. Exponential(pol, n) \in Nat
  BY <1>1, <1>2 DEF Exponential
<1> QED  BY <1>1, <1>3, LimitIsCappedExponential DEF CappedExponential

\* calculateRetryDelay: a delay is no longer than the maximum and, if the number of
\* the header has 64 bits, no shorter than what the server asked for; there is none
\* only if the server asks for more than the maximum in 64 bits.
LEMMA DelaysHonourTheServer ==
    ASSUME NEW pol, ValidPolicy(pol), NEW n \in 1..pol.MaxAttempts,
           NEW header \in RetryAfterHeader
    PROVE  /\ Asked(header) \in Nat
           /\ RetryDelays(pol, n, header) \subseteq 0..pol.MaxDelay
           /\ pol.MaxDelay < MaxDuration /\ ~Oversized(header) =>
                 \A d \in RetryDelays(pol, n, header) : d >= Asked(header)
           /\ RetryDelays(pol, n, header) = {} =>
                 ~Oversized(header) /\ Asked(header) > pol.MaxDelay
<1> DEFINE limit == exponentialBackoffLimit(pol, n)
           jitter == IF limit > 0 THEN 0..(limit - 1) ELSE {0}
           M == pol.MaxDelay
           R == RetryAfter(header)
<1>1. limit \in 0..M /\ M \in Nat
  BY LimitIsDelay, MaxDurationAssumption DEF ValidPolicy
<1> HIDE DEF limit
<1>2. jitter \subseteq 0..M /\ 0 \in jitter
  BY <1>1
<1>3. RetryDelays(pol, n, header) =
          IF ~RetryAfterFound(header) THEN jitter
          ELSE IF R > M THEN {}
          ELSE {IF R > d THEN R ELSE d : d \in jitter}
  BY DEF RetryDelays, limit
<1> HIDE DEF jitter, M, R
<1>4. CASE ~RetryAfterFound(header)
  <2>1. Asked(header) \in Nat /\ (~Oversized(header) => Asked(header) = 0)
    BY <1>4, AskedIsNatural
  <2>2. RetryDelays(pol, n, header) = jitter
    BY <1>3, <1>4
  <2>3. \A d \in jitter : d >= 0
    BY <1>1, <1>2
  <2>4. RetryDelays(pol, n, header) # {}
    BY <1>2, <2>2
  <2>5. RetryDelays(pol, n, header) \subseteq 0..pol.MaxDelay
    BY <1>2, <2>2 DEF M
  <2>6. ~Oversized(header) => \A d \in RetryDelays(pol, n, header) : d >= Asked(header)
    BY <2>1, <2>2, <2>3
  <2> QED  BY <2>1, <2>4, <2>5, <2>6
<1>5. CASE RetryAfterFound(header)
  <2>1. /\ Asked(header) \in Nat /\ R \in Nat /\ R <= Asked(header)
        /\ R < MaxDuration => R = Asked(header)
        /\ ~Oversized(header)
    BY <1>5, RetryAfterIsExact DEF R, RetryAfterFound, Oversized
  <2>2. CASE R > M
    BY <1>1, <1>3, <1>5, <2>1, <2>2 DEF M
  <2>3. CASE ~(R > M)
    <3>1. RetryDelays(pol, n, header) = {IF R > d THEN R ELSE d : d \in jitter}
      BY <1>3, <1>5, <2>3
    <3>2. RetryDelays(pol, n, header) # {}
      BY <1>2, <3>1
    <3>3. ASSUME NEW e \in RetryDelays(pol, n, header)
          PROVE  e \in 0..M /\ e >= R
      <4>1. PICK d \in jitter : e = IF R > d THEN R ELSE d
        BY <3>1
      <4>2. d \in 0..M
        BY <1>2
      <4> QED  BY <1>1, <2>1, <2>3, <4>1, <4>2
    <3>4. M < MaxDuration => R = Asked(header)
      BY <1>1, <2>1, <2>3, MaxDurationAssumption
    <3>5. ASSUME M < MaxDuration, NEW e \in RetryDelays(pol, n, header)
          PROVE  e >= Asked(header)
      BY <3>3, <3>4, <3>5
    <3>6. RetryDelays(pol, n, header) \subseteq 0..M
      BY <3>3
    <3> QED  BY <2>1, <3>2, <3>5, <3>6 DEF M
  <2> QED  BY <2>2, <2>3
<1> QED  BY <1>4, <1>5

-----------------------------------------------------------------------------
(* The invariant of a call *)

\* The longest that the attempts before the one of this number, and the waits
\* after them, take.
Spent(pol, k) == (k - 1) * (FrankfurterTimeout + pol.MaxDelay)

\* run has validated the policy, and it does not change.
PolicyIsValid ==
    /\ ValidPolicy(policy)
    /\ CoversRetries(ProcessingTimeout, SafetyMargin, policy, FrankfurterTimeout)

\* Another attempt is due only if one is left.
WaitsForAnAttempt == phase = "waiting" => attempt < policy.MaxAttempts

\* The time that has passed is at most what the attempts and waits so far may
\* take.
TimeIsSpent ==
    /\ phase \in {"sending", "sent"} => elapsed <= Spent(policy, attempt)
    /\ elapsed <= Spent(policy, attempt) + FrankfurterTimeout

\* The wait ends no earlier than the server asked, if it did so in 64 bits, and the
\* next request is sent after it.
WaitCoversRequest ==
    ~oversized =>
        /\ phase \in {"sending", "sent"} => elapsed >= notBefore
        /\ phase = "waiting" => elapsed + delay >= notBefore

\* A call that has no outcome yet has not returned.
OutcomeAtTheEnd == phase = "returned" \/ outcome = "none"

IndInv ==
    /\ TypeOK
    /\ PolicyIsValid
    /\ WaitsForAnAttempt
    /\ TimeIsSpent
    /\ WaitCoversRequest
    /\ OutcomeAtTheEnd
    /\ GivesUpForAReason

\* The constants are numbers.
LEMMA TimeoutsAreNatural ==
    /\ FrankfurterTimeout \in Nat /\ FrankfurterTimeout >= 1
    /\ ProcessingTimeout \in Nat /\ SafetyMargin \in Nat
    /\ MaxDuration \in Nat /\ ProcessingTimeout <= MaxDuration
  BY ClientAssumption, MaxDurationAssumption

\* What is spent before an attempt: nothing before the first, a timeout and a
\* wait more before each other one, and never so much that the attempt does not
\* fit into the processing timeout.
LEMMA SpentGrows ==
    ASSUME PolicyIsValid
    PROVE  /\ policy.MaxAttempts \in 1..10 /\ policy.MaxDelay \in Nat
           /\ Spent(policy, 1) = 0
           /\ \A k \in 1..policy.MaxAttempts :
                 /\ Spent(policy, k) \in Nat
                 /\ Spent(policy, k + 1) = Spent(policy, k) + FrankfurterTimeout + policy.MaxDelay
                 /\ Spent(policy, k) + FrankfurterTimeout + SafetyMargin <= ProcessingTimeout
<1> DEFINE N == policy.MaxAttempts
           M == policy.MaxDelay
           r == FrankfurterTimeout + M
<1>1. N \in 1..10 /\ M \in Nat /\ r \in Nat
  BY TimeoutsAreNatural DEF PolicyIsValid, ValidPolicy
<1>2. SafetyMargin + FetchTime(policy, FrankfurterTimeout) <= ProcessingTimeout
  BY TimeoutsAreNatural, CoveredFetchFits DEF PolicyIsValid
<1>3. FetchTime(policy, FrankfurterTimeout) = (N - 1) * r + FrankfurterTimeout
  BY <1>1, TimeoutsAreNatural DEF FetchTime
<1>4. \A k : Spent(policy, k) = (k - 1) * r
  BY DEF Spent
<1> HIDE DEF N, M
<1>5. ASSUME NEW k \in 1..N
      PROVE  /\ Spent(policy, k) \in Nat
             /\ Spent(policy, k + 1) = Spent(policy, k) + FrankfurterTimeout + M
             /\ Spent(policy, k) + FrankfurterTimeout + SafetyMargin <= ProcessingTimeout
  <2>1. k - 1 \in Nat /\ N - 1 \in Nat /\ k - 1 <= N - 1 /\ (k + 1) - 1 = (k - 1) + 1
    BY <1>1
  <2> HIDE DEF r
  <2>2. (k - 1) * r \in Nat /\ (N - 1) * r \in Nat
    BY <1>1, <2>1
  <2>3. ((k - 1) + 1) * r = (k - 1) * r + r
    BY <1>1, <2>1
  <2>4. (k - 1) * r <= (N - 1) * r
    BY <1>1, <2>1, ProductsGrow
  <2>5. Spent(policy, k + 1) = Spent(policy, k) + FrankfurterTimeout + M
    BY <1>1, <1>4, <2>1, <2>2, <2>3, TimeoutsAreNatural DEF r
  <2>6. Spent(policy, k) + FrankfurterTimeout + SafetyMargin <= ProcessingTimeout
    BY <1>2, <1>3, <1>4, <2>2, <2>4, TimeoutsAreNatural
  <2> QED  BY <1>4, <2>2, <2>5, <2>6
<1>6. Spent(policy, 1) = 0
  BY <1>1, <1>4
<1> QED  BY <1>1, <1>5, <1>6 DEF N, M

\* Where a second attempt is possible, the maximum delay is less than the longest
\* Duration: the processing timeout covers both.
LEMMA DelaysAreShort ==
    ASSUME PolicyIsValid, NEW k \in 1..policy.MaxAttempts, k < policy.MaxAttempts
    PROVE  policy.MaxDelay < MaxDuration
<1>1. /\ policy.MaxAttempts \in 1..10 /\ policy.MaxDelay \in Nat /\ k \in Nat
      /\ k + 1 \in 1..policy.MaxAttempts
  BY SpentGrows
<1>2. /\ Spent(policy, k) \in Nat
      /\ Spent(policy, k + 1) = Spent(policy, k) + FrankfurterTimeout + policy.MaxDelay
      /\ Spent(policy, k + 1) + FrankfurterTimeout + SafetyMargin <= ProcessingTimeout
  BY <1>1, SpentGrows
<1> QED  BY <1>1, <1>2, TimeoutsAreNatural

\* The invariant holds when FetchRate is called.
LEMMA InitKeepsInv == Init => IndInv
<1> SUFFICES ASSUME Init PROVE IndInv
  OBVIOUS
<1>1. PolicyIsValid
  BY DEF Init, PolicyIsValid
<1>2. policy.MaxAttempts \in 1..10 /\ policy.MaxDelay \in Nat /\ Spent(policy, 1) = 0
  BY <1>1, SpentGrows
<1>3. TypeOK
  <2>1. attempt \in 1..policy.MaxAttempts /\ delay \in 0..policy.MaxDelay
    BY <1>2 DEF Init
  <2>2. policy \in Policies /\ elapsed \in Nat /\ notBefore \in Nat /\ oversized \in BOOLEAN
    BY DEF Init
  <2> QED  BY <2>1, <2>2 DEF Init, TypeOK
<1>4. TimeIsSpent /\ WaitCoversRequest /\ WaitsForAnAttempt
  BY <1>2, TimeoutsAreNatural DEF Init, TimeIsSpent, WaitCoversRequest, WaitsForAnAttempt
<1>5. OutcomeAtTheEnd /\ GivesUpForAReason
  BY DEF Init, OutcomeAtTheEnd, GivesUpForAReason
<1> QED  BY <1>1, <1>3, <1>4, <1>5 DEF IndInv

\* Steps that take no time: a request is sent, the context ends, and a call that
\* it cancels returns.
LEMMA InstantStepKeepsInv ==
    ASSUME IndInv, Send \/ SendCanceled \/ WaitCanceled \/ Cancel
    PROVE  IndInv'
<1>1. UNCHANGED <<policy, attempt, delay, final, elapsed, notBefore, oversized>>
  BY DEF Send, SendCanceled, WaitCanceled, Cancel, Return, history
<1>2. PolicyIsValid'
  BY <1>1 DEF IndInv, PolicyIsValid
<1>3. TypeOK'
  BY <1>1 DEF IndInv, TypeOK, Send, SendCanceled, WaitCanceled, Cancel, Return
<1>4. WaitsForAnAttempt' /\ WaitCoversRequest' /\ OutcomeAtTheEnd'
  BY <1>1 DEF IndInv, WaitsForAnAttempt, WaitCoversRequest, OutcomeAtTheEnd,
              Send, SendCanceled, WaitCanceled, Cancel, Return
<1>5. TimeIsSpent'
  BY <1>1 DEF IndInv, TimeIsSpent, Send, SendCanceled, WaitCanceled, Cancel, Return
<1>6. GivesUpForAReason'
  BY <1>1 DEF IndInv, TypeOK, GivesUpForAReason, OutcomeAtTheEnd,
              Send, SendCanceled, WaitCanceled, Cancel, Return
<1> QED  BY <1>2, <1>3, <1>4, <1>5, <1>6 DEF IndInv

\* An answer comes within the timeout of the attempt.
LEMMA AnswerIsInTime ==
    ASSUME IndInv, phase = "sent", AttemptTakesTime, UNCHANGED <<policy, attempt>>
    PROVE  /\ elapsed' \in Nat
           /\ elapsed' <= Spent(policy, attempt) + FrankfurterTimeout
<1>1. Spent(policy, attempt) \in Nat
  BY SpentGrows DEF IndInv, TypeOK
<1> QED  BY <1>1, TimeoutsAreNatural DEF IndInv, TypeOK, TimeIsSpent, AttemptTakesTime

\* An answer that ends the call.
LEMMA FinalAnswerKeepsInv ==
    ASSUME IndInv, ReceiveSnapshot \/ ReceiveFinalError
    PROVE  IndInv'
<1>1. /\ phase = "sent" /\ phase' = "returned" /\ AttemptTakesTime
      /\ UNCHANGED <<policy, attempt, delay, live, notBefore, oversized>>
      /\ outcome' \in {"snapshot", "error"} /\ (outcome' = "error" => final' = TRUE)
      /\ final' = TRUE \/ final' = final
  BY DEF ReceiveSnapshot, ReceiveFinalError, Return
<1>2. elapsed' \in Nat /\ elapsed' <= Spent(policy, attempt) + FrankfurterTimeout
  BY <1>1, AnswerIsInTime
<1>3. PolicyIsValid'
  BY <1>1 DEF IndInv, PolicyIsValid
<1>4. TypeOK'
  BY <1>1, <1>2 DEF IndInv, TypeOK
<1>5. WaitsForAnAttempt' /\ WaitCoversRequest' /\ OutcomeAtTheEnd' /\ GivesUpForAReason'
  BY <1>1 DEF WaitsForAnAttempt, WaitCoversRequest, OutcomeAtTheEnd, GivesUpForAReason
<1>6. TimeIsSpent'
  BY <1>1, <1>2 DEF TimeIsSpent
<1> QED  BY <1>3, <1>4, <1>5, <1>6 DEF IndInv

\* An answer that may be retried: the call waits, or gives up because no attempt
\* is left or the server wants too much time.
LEMMA RetryableAnswerKeepsInv ==
    ASSUME IndInv, NEW header \in Headers, ReceiveRetryableError(header)
    PROVE  IndInv'
<1>1. header \in RetryAfterHeader
  BY ClientAssumption
<1>2. /\ phase = "sent" /\ phase' \in {"waiting", "returned"} /\ AttemptTakesTime
      /\ UNCHANGED <<policy, attempt, live>>
      /\ notBefore' = elapsed' + Asked(header) /\ oversized' = Oversized(header)
      /\ final' = FALSE
  BY DEF ReceiveRetryableError, Demand, Return
<1>3. elapsed' \in Nat /\ elapsed' <= Spent(policy, attempt) + FrankfurterTimeout
  BY <1>2, AnswerIsInTime
<1>4. /\ ValidPolicy(policy) /\ attempt \in 1..policy.MaxAttempts
      /\ policy.MaxAttempts \in 1..10 /\ policy.MaxDelay \in Nat
  BY SpentGrows DEF IndInv, TypeOK, PolicyIsValid
<1>5. /\ Asked(header) \in Nat
      /\ RetryDelays(policy, attempt, header) \subseteq 0..policy.MaxDelay
      /\ RetryDelays(policy, attempt, header) = {} =>
            ~Oversized(header) /\ Asked(header) > policy.MaxDelay
      /\ attempt < policy.MaxAttempts /\ ~Oversized(header) =>
            \A d \in RetryDelays(policy, attempt, header) : d >= Asked(header)
  BY <1>1, <1>4, DelaysHonourTheServer, DelaysAreShort DEF IndInv
<1>6. PolicyIsValid' /\ TimeIsSpent'
  BY <1>2, <1>3 DEF IndInv, PolicyIsValid, TimeIsSpent
<1>7. notBefore' \in Nat /\ oversized' \in BOOLEAN
  BY <1>2, <1>3, <1>5 DEF Oversized
<1>8. CASE phase' = "returned"
  <2>1. /\ outcome' = "error" /\ delay' = delay
        /\ \/ attempt = policy.MaxAttempts
           \/ ~Oversized(header) /\ Asked(header) > policy.MaxDelay
    BY <1>5, <1>8 DEF ReceiveRetryableError, Return
  <2>2. TypeOK'
    BY <1>2, <1>3, <1>7, <1>8, <2>1 DEF IndInv, TypeOK
  <2>3. GivesUpForAReason'
    BY <1>2, <1>3, <1>4, <1>5, <2>1 DEF GivesUpForAReason
  <2>4. WaitsForAnAttempt' /\ WaitCoversRequest' /\ OutcomeAtTheEnd'
    BY <1>8 DEF WaitsForAnAttempt, WaitCoversRequest, OutcomeAtTheEnd
  <2> QED  BY <1>6, <2>2, <2>3, <2>4 DEF IndInv
<1>9. CASE phase' = "waiting"
  <2>1. /\ outcome' = outcome /\ attempt < policy.MaxAttempts
        /\ delay' \in RetryDelays(policy, attempt, header)
    BY <1>9 DEF ReceiveRetryableError, Return
  <2>2. delay' \in 0..policy.MaxDelay /\ (~Oversized(header) => delay' >= Asked(header))
    BY <1>5, <2>1
  <2>3. TypeOK'
    BY <1>2, <1>3, <1>7, <1>9, <2>1, <2>2 DEF IndInv, TypeOK
  <2>4. outcome' = "none"
    BY <1>2, <2>1 DEF IndInv, OutcomeAtTheEnd
  <2>5. WaitsForAnAttempt' /\ OutcomeAtTheEnd' /\ GivesUpForAReason'
    BY <1>2, <1>9, <2>1, <2>4 DEF WaitsForAnAttempt, OutcomeAtTheEnd, GivesUpForAReason
  <2>6. WaitCoversRequest'
    BY <1>2, <1>3, <1>4, <1>5, <1>9, <2>2 DEF WaitCoversRequest
  <2> QED  BY <1>6, <2>3, <2>5, <2>6 DEF IndInv
<1> QED  BY <1>2, <1>8, <1>9

\* The wait is over.
LEMMA RetryKeepsInv ==
    ASSUME IndInv, Retry
    PROVE  IndInv'
<1>1. /\ phase = "waiting" /\ phase' = "sending" /\ attempt' = attempt + 1
      /\ elapsed' = elapsed + delay
      /\ UNCHANGED <<policy, delay, live, outcome, final, notBefore, oversized>>
  BY DEF Retry
<1>2. /\ attempt \in 1..policy.MaxAttempts /\ attempt < policy.MaxAttempts
      /\ policy.MaxAttempts \in 1..10 /\ policy.MaxDelay \in Nat
      /\ delay \in 0..policy.MaxDelay /\ elapsed \in Nat
  BY <1>1, SpentGrows DEF IndInv, TypeOK, WaitsForAnAttempt
<1>3. /\ Spent(policy, attempt) \in Nat
      /\ Spent(policy, attempt + 1) = Spent(policy, attempt) + FrankfurterTimeout + policy.MaxDelay
  BY <1>2, SpentGrows DEF IndInv
<1>4. elapsed' \in Nat /\ elapsed' <= Spent(policy, attempt')
  BY <1>1, <1>2, <1>3, TimeoutsAreNatural DEF IndInv, TimeIsSpent
<1>5. TypeOK'
  BY <1>1, <1>2, <1>4 DEF IndInv, TypeOK
<1>6. PolicyIsValid'
  BY <1>1 DEF IndInv, PolicyIsValid
<1>7. TimeIsSpent'
  BY <1>1, <1>2, <1>3, <1>4, TimeoutsAreNatural DEF TimeIsSpent
<1>8. WaitsForAnAttempt' /\ WaitCoversRequest' /\ OutcomeAtTheEnd'
  BY <1>1 DEF IndInv, WaitsForAnAttempt, WaitCoversRequest, OutcomeAtTheEnd
<1>9. GivesUpForAReason'
  BY <1>1 DEF IndInv, GivesUpForAReason, OutcomeAtTheEnd
<1> QED  BY <1>5, <1>6, <1>7, <1>8, <1>9 DEF IndInv

\* IndInv is an invariant.
THEOREM CallInvariance == Spec => []IndInv
<1>1. ASSUME IndInv, [Next]_vars
      PROVE  IndInv'
  <2>1. CASE UNCHANGED vars
    <3>1. TypeOK' /\ PolicyIsValid'
      BY <1>1, <2>1 DEF vars, history, IndInv, TypeOK, PolicyIsValid
    <3>2. WaitsForAnAttempt' /\ TimeIsSpent' /\ WaitCoversRequest'
      BY <1>1, <2>1 DEF vars, history, IndInv, WaitsForAnAttempt, TimeIsSpent, WaitCoversRequest
    <3>3. OutcomeAtTheEnd' /\ GivesUpForAReason'
      BY <1>1, <2>1 DEF vars, history, IndInv, OutcomeAtTheEnd, GivesUpForAReason
    <3> QED  BY <3>1, <3>2, <3>3 DEF IndInv
  <2>2. CASE Next
    BY <1>1, <2>2, InstantStepKeepsInv, FinalAnswerKeepsInv, RetryableAnswerKeepsInv, RetryKeepsInv
       DEF Next
  <2> QED  BY <1>1, <2>1, <2>2
<1> QED  BY <1>1, InitKeepsInv, PTL DEF Spec

-----------------------------------------------------------------------------
(* What follows from it *)

\* For every policy the validation accepts: FetchRate makes no more attempts than
\* configured and waits no longer than the maximum delay.
THEOREM CallsStayInPolicy == Spec => []TypeOK
<1>1. IndInv => TypeOK
  BY DEF IndInv
<1> QED  BY <1>1, CallInvariance, PTL

\* For every policy, timeout and margin the validation accepts, and whatever the
\* server answers: a call takes no longer than its lease less the margin.
THEOREM FetchesFitLeases == Spec => []FetchFitsLease
<1>1. IndInv => FetchFitsLease
  <2> SUFFICES ASSUME IndInv PROVE elapsed + SafetyMargin <= ProcessingTimeout
    BY DEF FetchFitsLease
  <2>1. /\ Spent(policy, attempt) \in Nat
        /\ Spent(policy, attempt) + FrankfurterTimeout + SafetyMargin <= ProcessingTimeout
    BY SpentGrows DEF IndInv, TypeOK
  <2> QED  BY <2>1, TimeoutsAreNatural DEF IndInv, TypeOK, TimeIsSpent
<1> QED  BY <1>1, CallInvariance, PTL

\* A call gives up only for one of the reasons the documentation gives, and is
\* canceled only by its context.
THEOREM GivingUpHasReasons == Spec => []GivesUpForAReason
<1>1. IndInv => GivesUpForAReason
  BY DEF IndInv
<1> QED  BY <1>1, CallInvariance, PTL

\* The loop of exponentialBackoffLimit, in integers that wrap around, computes the
\* exact doubling up to the maximum, for every policy and attempt.
THEOREM LimitsAreExponential == Spec => []BackoffIsExponential
<1>1. IndInv => BackoffIsExponential
  <2> SUFFICES ASSUME IndInv PROVE BackoffIsExponential
    OBVIOUS
  <2>1. exponentialBackoffLimit(policy, attempt) = CappedExponential(policy, attempt)
    BY LimitIsCappedExponential DEF IndInv, TypeOK, PolicyIsValid
  <2> QED  BY <2>1 DEF BackoffIsExponential, CappedExponential, Exponential
<1> QED  BY <1>1, CallInvariance, PTL

\* No request is sent before the time the server gave, for every Duration and
\* every header whose number has 64 bits, absent, odd, past and far-off ones
\* included.  (The others are ignored: AnyRetryAfterIsHonoured does not hold.)
THEOREM RequestsAreNotEarly == Spec => RetryAfterIsHonoured
<1>1. IndInv /\ [Next]_vars =>
          [phase = "sending" /\ phase' = "sent" /\ ~oversized => elapsed >= notBefore]_vars
  BY DEF IndInv, WaitCoversRequest
<1> QED  BY <1>1, CallInvariance, PTL DEF Spec, RetryAfterIsHonoured
=============================================================================
