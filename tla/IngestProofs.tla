----------------------------- MODULE IngestProofs -----------------------------
(***************************************************************************)
(* The rate limiter against the exact bucket, and the admission of signed  *)
(* requests, for every rate, window, skew and number of handlers.          *)
(***************************************************************************)
EXTENDS Ingest, FiniteSetTheorems, TLAPS

-----------------------------------------------------------------------------
(* Arithmetic *)

\* Division rounds down by less than the divisor.
LEMMA DivBounds ==
    ASSUME NEW a \in Nat, NEW t \in Nat \ {0}
    PROVE  /\ a \div t \in Nat
           /\ (a \div t) * t <= a
           /\ a < (a \div t) * t + t
OBVIOUS

\* Products keep the order.
LEMMA TimesMonotone ==
    ASSUME NEW a \in Nat, NEW b \in Nat, NEW c \in Nat, a <= b
    PROVE  a * c <= b * c
OBVIOUS

\* Products of naturals are naturals.
LEMMA ProductNat ==
    ASSUME NEW a \in Nat, NEW b \in Nat
    PROVE  a * b \in Nat
OBVIOUS

\* A product distributes over a sum.
LEMMA Distribute ==
    ASSUME NEW a \in Int, NEW b \in Int, NEW c \in Int
    PROVE  (a + b) * c = a * c + b * c
OBVIOUS

\* The sizes of the bucket are naturals.
LEMMA Sizes ==
    /\ MaxTokens \in Nat /\ RefillRate \in Nat \ {0} /\ Full \in Nat /\ Horizon \in Nat
    /\ Full = MaxTokens * TicksPerSecond
    /\ Full <= Horizon * RefillRate
    /\ RegistryIdleTTL * RefillRate \in Nat
<1> USE BucketAssumption
<1>1. MaxTokens \in Nat
  BY ProductNat DEF MaxTokens
<1>2. RefillRate \in Nat \ {0}
  <2>1. \A a, b \in Nat \ {0} : a * b \in Nat \ {0}
    OBVIOUS
  <2> QED
    BY <2>1 DEF RefillRate
<1>3. Full \in Nat
  BY <1>1, ProductNat DEF Full
<1> DEFINE q == Full \div RefillRate
<1>q. q \in Nat /\ Full < q * RefillRate + RefillRate
  BY Zenon, <1>2, <1>3, DivBounds
<1>4. Horizon \in Nat /\ q + 1 <= Horizon
  <2>1. Horizon = RegistryIdleTTL + q + 1
    BY DEF Horizon
  <2> HIDE DEF q
  <2> QED
    BY <1>q, <2>1
<1>5. Full <= Horizon * RefillRate
  <2> HIDE DEF q
  <2>1. (q + 1) * RefillRate = q * RefillRate + 1 * RefillRate
    BY <1>2, <1>q, Distribute
  <2>2. q * RefillRate \in Nat /\ 1 * RefillRate = RefillRate /\ (q + 1) * RefillRate \in Nat
    BY <1>2, <1>q, ProductNat
  <2>3. (q + 1) * RefillRate <= Horizon * RefillRate /\ Horizon * RefillRate \in Nat
    BY <1>2, <1>4, <1>q, TimesMonotone, ProductNat
  <2> QED
    BY <1>2, <1>3, <1>q, <2>1, <2>2, <2>3
<1>6. RegistryIdleTTL * RefillRate \in Nat
  BY <1>2, ProductNat
<1> QED
  BY <1>1, <1>2, <1>3, <1>4, <1>5, <1>6 DEF Full

-----------------------------------------------------------------------------
(* The rate limiter *)

\* The bucket and the exact one.
BucketInv ==
    /\ bucket \in [tokens: 0..MaxTokens, elapsed: 0..Horizon]
    /\ ideal \in Int /\ ideal <= Full
    /\ resets \in Nat

\* The two summands of Held.
LEMMA HeldTerms ==
    ASSUME BucketInv
    PROVE  /\ bucket.tokens * TicksPerSecond \in Nat
           /\ bucket.elapsed * RefillRate \in Nat
           /\ Held \in Nat /\ Held <= Full
<1>1. bucket.tokens \in Nat /\ bucket.elapsed \in Nat
  BY Sizes DEF BucketInv
<1>2. bucket.tokens * TicksPerSecond \in Nat /\ bucket.elapsed * RefillRate \in Nat
  BY <1>1, Sizes, BucketAssumption, ProductNat
<1> QED
  BY <1>2, Sizes DEF Held, Least

\* Held is a natural after a step too.
LEMMA HeldNext ==
    ASSUME BucketInv'
    PROVE  Held' \in Nat
<1>1. bucket'.tokens \in Nat /\ bucket'.elapsed \in Nat
  BY Sizes DEF BucketInv, MaxTokens, Horizon, Full, RefillRate
<1>2. bucket'.tokens * TicksPerSecond \in Nat /\ bucket'.elapsed * RefillRate \in Nat
  BY <1>1, Sizes, BucketAssumption, ProductNat
<1>3. Held' = Least(Full, bucket'.tokens * TicksPerSecond + bucket'.elapsed * RefillRate)
  BY DEF Held, Full, MaxTokens, RefillRate
<1> QED
  BY <1>2, <1>3, Sizes DEF Least

\* What a refill adds is the product of time and rate, rounded down to a unit, or
\* one unit less when it is whole.
LEMMA AddedBounds ==
    ASSUME BucketInv, NEW d \in added(bucket)
    PROVE  /\ d \in Nat /\ d * TicksPerSecond \in Nat
           /\ d * TicksPerSecond <= bucket.elapsed * RefillRate
           /\ bucket.elapsed * RefillRate <= d * TicksPerSecond + TicksPerSecond
<1> DEFINE e == bucket.elapsed * RefillRate
           q == e \div TicksPerSecond
<1>1. e \in Nat
  BY HeldTerms
<1>2. q \in Nat /\ q * TicksPerSecond <= e /\ e < q * TicksPerSecond + TicksPerSecond
  BY Zenon, <1>1, DivBounds, BucketAssumption
<1>3. q * TicksPerSecond \in Nat /\ TicksPerSecond \in Nat
  BY <1>2, ProductNat, BucketAssumption
<1>4. d = q \/ (d = q - 1 /\ e = q * TicksPerSecond /\ d >= 0)
  BY DEF added
<1> HIDE DEF e, q
<1>5. CASE d = q
  BY <1>1, <1>2, <1>3, <1>5 DEF e
<1>6. CASE d = q - 1 /\ e = q * TicksPerSecond /\ d >= 0
  <2>1. d \in Nat /\ d + 1 = q
    BY <1>2, <1>6
  <2>2. (d + 1) * TicksPerSecond = d * TicksPerSecond + 1 * TicksPerSecond
    BY <1>3, <2>1, Distribute
  <2>3. d * TicksPerSecond \in Nat /\ 1 * TicksPerSecond = TicksPerSecond
    BY <1>3, <2>1, ProductNat
  <2>4. e = d * TicksPerSecond + TicksPerSecond
    BY Zenon, <1>6, <2>1, <2>2, <2>3
  <2> QED
    BY <1>1, <1>3, <2>1, <2>3, <2>4 DEF e
<1> QED
  BY Zenon, <1>4, <1>5, <1>6

\* A refill is what the exact bucket would hold, to a unit.
LEMMA RefillBounds ==
    ASSUME BucketInv, NEW n \in refill(bucket)
    PROVE  /\ n \in 0..MaxTokens
           /\ n * TicksPerSecond \in Nat
           /\ n * TicksPerSecond <= Held
           /\ Held <= n * TicksPerSecond + TicksPerSecond
<1> DEFINE e == bucket.elapsed * RefillRate
<1>0. PICK d \in added(bucket) : n = Least(MaxTokens, bucket.tokens + d)
  BY Zenon DEF refill
<1>1. bucket.tokens \in Nat /\ bucket.tokens <= MaxTokens
  BY Sizes DEF BucketInv
<1>2. e \in Nat /\ bucket.tokens * TicksPerSecond \in Nat
  BY HeldTerms
<1>3. /\ d \in Nat /\ d * TicksPerSecond \in Nat
      /\ d * TicksPerSecond <= e /\ e <= d * TicksPerSecond + TicksPerSecond
  BY Zenon, AddedBounds
<1>5. n = IF MaxTokens < bucket.tokens + d THEN MaxTokens ELSE bucket.tokens + d
  BY Zenon, <1>0 DEF Least
<1>6. (bucket.tokens + d) * TicksPerSecond = bucket.tokens * TicksPerSecond + d * TicksPerSecond
  BY <1>1, <1>3, BucketAssumption, Distribute
<1>7. Held = IF Full < bucket.tokens * TicksPerSecond + e
             THEN Full ELSE bucket.tokens * TicksPerSecond + e
  BY Zenon DEF Held, Least
<1> HIDE DEF e
<1>8. CASE MaxTokens < bucket.tokens + d
  <2>1. n = MaxTokens /\ MaxTokens * TicksPerSecond = Full
    BY <1>5, <1>8, Sizes
  <2>2. Full <= (bucket.tokens + d) * TicksPerSecond
    BY <1>1, <1>3, <1>8, TimesMonotone, Sizes, BucketAssumption
  <2>3. Held = Full
    BY <1>2, <1>3, <1>6, <1>7, <2>2, Sizes, BucketAssumption
  <2> QED
    BY <2>1, <2>3, Sizes, BucketAssumption
<1>9. CASE ~(MaxTokens < bucket.tokens + d)
  <2>1. n = bucket.tokens + d /\ bucket.tokens + d <= MaxTokens
    BY <1>1, <1>3, <1>5, <1>9, Sizes
  <2>2. (bucket.tokens + d) * TicksPerSecond <= Full
    BY <1>1, <1>3, <2>1, TimesMonotone, Sizes, BucketAssumption
  <2>3. /\ (bucket.tokens + d) * TicksPerSecond \in Nat
        /\ (bucket.tokens + d) * TicksPerSecond <= Held
        /\ Held <= (bucket.tokens + d) * TicksPerSecond + TicksPerSecond
    BY <1>2, <1>3, <1>6, <1>7, <2>2, Sizes, BucketAssumption
  <2> QED
    BY <1>1, <1>3, <2>1, <2>3, Sizes
<1> QED
  BY <1>8, <1>9

\* A request's cost is a natural.
LEMMA TokenNat == Token \in Nat /\ Full \in Nat
BY BucketAssumption, Sizes, ProductNat DEF Token

\* What a request takes from both buckets.
LEMMA AllowEffect ==
    ASSUME BucketInv, NEW admitted \in BOOLEAN, AllowRequest(admitted)
    PROVE  /\ BucketInv'
           /\ resets' = resets
           /\ Held' - ideal' <= Held - ideal
           /\ Held - Held' <= (ideal - ideal') + TicksPerSecond /\ ideal' <= ideal
<1>0. PICK n \in refill(bucket) :
        /\ admitted = (n >= Scale)
        /\ bucket' = [tokens |-> n - (IF admitted THEN Scale ELSE 0), elapsed |-> 0]
        /\ ideal' = ideal - (IF admitted THEN Token ELSE 0)
        /\ resets' = resets
  BY Zenon DEF AllowRequest
<1> DEFINE c == IF admitted THEN Scale ELSE 0
<1>1. /\ n \in Nat /\ n <= MaxTokens /\ n * TicksPerSecond \in Nat
      /\ n * TicksPerSecond <= Held /\ Held <= n * TicksPerSecond + TicksPerSecond
  BY RefillBounds, Sizes
<1>2. c \in Nat /\ c <= n
  <2>2. CASE admitted
    BY Zenon, <1>0, <1>1, <2>2, BucketAssumption
  <2>3. CASE ~admitted
    BY <1>1, <2>3
  <2> QED
    BY <2>2, <2>3
<1>3. bucket' = [tokens |-> n - c, elapsed |-> 0] /\ ideal' = ideal - c * TicksPerSecond
  BY <1>0, BucketAssumption DEF Token
<1>4. n * TicksPerSecond = (n - c) * TicksPerSecond + c * TicksPerSecond
  <2>1. ((n - c) + c) * TicksPerSecond = (n - c) * TicksPerSecond + c * TicksPerSecond
    BY <1>1, <1>2, BucketAssumption, Distribute
  <2>2. (n - c) + c = n
    BY <1>1, <1>2
  <2> QED
    BY <2>1, <2>2
<1>5. (n - c) * TicksPerSecond \in Nat /\ c * TicksPerSecond \in Nat
  BY <1>1, <1>2, BucketAssumption, ProductNat
<1> HIDE DEF c
<1>6. Held' = (n - c) * TicksPerSecond
  <2>1. bucket'.tokens = n - c /\ bucket'.elapsed = 0
    BY <1>3
  <2>2. bucket'.elapsed * RefillRate = 0
    BY <2>1, Sizes
  <2>3. n * TicksPerSecond <= Full
    BY <1>1, HeldTerms, Sizes
  <2>4. (n - c) * TicksPerSecond <= Full
    BY <1>4, <1>5, <2>3, Sizes
  <2>5. Held' = Least(Full, (n - c) * TicksPerSecond)
    BY <1>5, <2>1, <2>2 DEF Held, Full, MaxTokens, RefillRate
  <2> QED
    BY <1>5, <2>4, <2>5, Sizes DEF Least
<1>7. PICK x, y \in Nat : x = (n - c) * TicksPerSecond /\ y = c * TicksPerSecond
  BY Zenon, <1>5
<1>8. /\ Held' = x /\ ideal' = ideal - y /\ x + y <= Held /\ Held <= x + y + TicksPerSecond
  BY Zenon, <1>1, <1>3, <1>4, <1>6, <1>7
<1>9. ideal \in Int /\ ideal <= Full /\ Full \in Nat /\ Held \in Nat /\ TicksPerSecond \in Nat
  BY HeldTerms, Sizes, BucketAssumption DEF BucketInv
<1>10. BucketInv'
  <2>1. bucket' \in [tokens: 0..MaxTokens, elapsed: 0..Horizon]
    BY <1>1, <1>2, <1>3, Sizes
  <2>2. ideal' \in Int /\ ideal' <= Full
    BY <1>8, <1>9
  <2> QED
    BY <1>0, <2>1, <2>2 DEF BucketInv, Full, MaxTokens, Horizon, RefillRate
<1>11. /\ Held' - ideal' <= Held - ideal
       /\ Held - Held' <= (ideal - ideal') + TicksPerSecond /\ ideal' <= ideal
  BY <1>8, <1>9
<1> QED
  BY Zenon, <1>0, <1>10, <1>11

\* A request to a bucket that is no longer there takes from the exact one alone.
LEMMA RemovedEffect ==
    ASSUME BucketInv, NEW admitted \in BOOLEAN, AllowRemoved(admitted)
    PROVE  /\ BucketInv' /\ resets' = resets /\ Held' = Held
           /\ ideal' <= ideal /\ ideal <= ideal' + Token
<1>1. bucket' = bucket /\ resets' = resets /\ ideal' = ideal - (IF admitted THEN Token ELSE 0)
  BY Zenon DEF AllowRemoved
<1>2. ideal' \in Int /\ ideal' <= ideal /\ ideal <= ideal' + Token /\ ideal' <= Full
  BY <1>1, TokenNat DEF BucketInv
<1>3. Held' = Held
  BY Zenon, <1>1 DEF Held, Full, MaxTokens, RefillRate
<1> QED
  BY Zenon, <1>1, <1>2, <1>3 DEF BucketInv, Full, MaxTokens, Horizon, RefillRate

\* A new bucket is full.
LEMMA NewBucketFull ==
    ASSUME bucket' = NewTokenBucket
    PROVE  Held' = Full /\ bucket' \in [tokens: 0..MaxTokens, elapsed: 0..Horizon]
<1>1. bucket'.tokens = MaxTokens /\ bucket'.elapsed = 0
  BY DEF NewTokenBucket
<1>2. bucket'.elapsed * RefillRate = 0 /\ bucket'.tokens * TicksPerSecond = Full
  BY <1>1, Sizes
<1>3. Held' = Least(Full, bucket'.tokens * TicksPerSecond + bucket'.elapsed * RefillRate)
  BY DEF Held, Full, MaxTokens, RefillRate
<1>4. Held' = Full
  BY <1>2, <1>3, Sizes DEF Least
<1> QED
  BY <1>4, Sizes DEF NewTokenBucket

\* A bucket that no request has touched for the idle time is full.
LEMMA SweepEffect ==
    ASSUME BucketInv, SweepBucket
    PROVE  /\ BucketInv' /\ Held' = Full /\ ideal' = ideal /\ resets' = resets
           /\ SweepFills => Held = Full
<1>1. bucket' = NewTokenBucket /\ ideal' = ideal /\ resets' = resets
  BY DEF SweepBucket
<1>2. Held' = Full /\ bucket' \in [tokens: 0..MaxTokens, elapsed: 0..Horizon]
  BY Zenon, <1>1, NewBucketFull
<1>3. SweepFills => Held = Full
  <2> SUFFICES ASSUME SweepFills PROVE Held = Full
    OBVIOUS
  <2>1. bucket.elapsed \in Nat /\ RegistryIdleTTL <= bucket.elapsed
    BY Sizes, BucketAssumption DEF BucketInv, SweepBucket
  <2>2. RegistryIdleTTL * RefillRate <= bucket.elapsed * RefillRate
    BY <2>1, TimesMonotone, Sizes, BucketAssumption
  <2>3. Full <= bucket.elapsed * RefillRate
    BY <2>2, Sizes, HeldTerms DEF SweepFills
  <2> QED
    BY <2>3, HeldTerms, Sizes DEF Held, Least
<1> QED
  BY Zenon, <1>1, <1>2, <1>3 DEF BucketInv, Full, MaxTokens, Horizon, RefillRate

\* A reset gives a full bucket at any time.
LEMMA ResetEffect ==
    ASSUME BucketInv, ResetBucket
    PROVE  BucketInv' /\ Held' = Full /\ ideal' = ideal /\ resets' = resets + 1
<1>1. bucket' = NewTokenBucket /\ ideal' = ideal /\ resets' = resets + 1
  BY DEF ResetBucket
<1>2. Held' = Full /\ bucket' \in [tokens: 0..MaxTokens, elapsed: 0..Horizon]
  BY Zenon, <1>1, NewBucketFull
<1>3. resets' \in Nat
  BY <1>1 DEF BucketInv
<1> QED
  BY Zenon, <1>1, <1>2, <1>3 DEF BucketInv, Full, MaxTokens, Horizon, RefillRate

\* Both buckets gain the same in a tick, up to being full.
LEMMA TickEffect ==
    ASSUME BucketInv, BucketTick
    PROVE  /\ BucketInv' /\ resets' = resets
           /\ Held' \in Nat /\ Held' <= Full /\ Held <= Held' /\ Held' <= Held + RefillRate
           /\ ideal' = Least(Full, ideal + RefillRate)
<1> DEFINE x == bucket.tokens * TicksPerSecond + bucket.elapsed * RefillRate
<1>1. bucket'.tokens = bucket.tokens /\ bucket'.elapsed = Least(Horizon, bucket.elapsed + 1)
  BY DEF BucketTick, BucketInv
<1>2. bucket.elapsed \in Nat /\ bucket.elapsed <= Horizon
  BY Sizes DEF BucketInv
<1>3. bucket' \in [tokens: 0..MaxTokens, elapsed: 0..Horizon]
  BY <1>2, Sizes DEF BucketTick, BucketInv, Least
<1>4. x \in Nat /\ Held = Least(Full, x)
  BY HeldTerms DEF Held
<1>5. /\ Held' = Least(Full, bucket'.tokens * TicksPerSecond + bucket'.elapsed * RefillRate)
      /\ ideal' = Least(Full, ideal + RefillRate) /\ resets' = resets
  BY DEF Held, BucketTick, Full, MaxTokens, RefillRate
<1>6. ideal' \in Int /\ ideal' <= Full
  BY <1>5, Sizes DEF Least, BucketInv
<1>7. Held' \in Nat /\ Held' <= Full /\ Held <= Held' /\ Held' <= Held + RefillRate
  <2>1. CASE bucket.elapsed < Horizon
    <3>1. bucket'.elapsed = bucket.elapsed + 1
      BY <1>1, <1>2, <2>1, Sizes DEF Least
    <3>2. bucket'.elapsed * RefillRate = bucket.elapsed * RefillRate + RefillRate
      <4>1. (bucket.elapsed + 1) * RefillRate = bucket.elapsed * RefillRate + 1 * RefillRate
        BY <1>2, Sizes, Distribute
      <4>2. 1 * RefillRate = RefillRate
        BY Sizes
      <4> QED
        BY <3>1, <4>1, <4>2
    <3>3. Held' = Least(Full, x + RefillRate)
      BY <1>1, <1>5, <3>2, HeldTerms, Sizes
    <3> HIDE DEF x
    <3> QED
      BY <1>4, <3>3, Sizes DEF Least
  <2>2. CASE bucket.elapsed = Horizon
    <3>1. bucket'.elapsed = bucket.elapsed
      BY <1>1, <2>2, Sizes DEF Least
    <3>2. Held' = Least(Full, x)
      BY <1>1, <1>5, <3>1
    <3> HIDE DEF x
    <3> QED
      BY <1>4, <3>2, Sizes DEF Least
  <2> QED
    BY <1>2, <2>1, <2>2, Sizes
<1> QED
  BY Zenon, <1>3, <1>5, <1>6, <1>7 DEF BucketInv, Full, MaxTokens, Horizon, RefillRate

\* A step of the service is one of the bucket's, or leaves it alone.
LEMMA BucketSteps ==
    ASSUME [Next]_vars
    PROVE  [BucketNext]_bucketVars
BY Zenon DEF Next, vars, bucketVars, Sign, Arrive, verifyIngest, RateLimitAllow, IngestPending,
       RotateSecret, PruneIdempotency, Sweep, ResetRuntime, Tick, BucketNext

\* Every step preserves the invariant of the bucket.
LEMMA BucketInductive == BucketInv /\ [BucketNext]_bucketVars => BucketInv'
<1> SUFFICES ASSUME BucketInv, [BucketNext]_bucketVars PROVE BucketInv'
  OBVIOUS
<1>1. CASE UNCHANGED bucketVars
  BY Zenon, <1>1 DEF BucketInv, bucketVars, Full, MaxTokens, Horizon, RefillRate
<1> QED
  BY Zenon, <1>1, AllowEffect, RemovedEffect, SweepEffect, ResetEffect, TickEffect DEF BucketNext

\* The bucket starts full, as the exact one does.
LEMMA BucketStart == BucketInit => BucketInv /\ Held = Full /\ ideal = Full /\ resets = 0
<1> SUFFICES ASSUME BucketInit PROVE BucketInv /\ Held = Full /\ ideal = Full /\ resets = 0
  OBVIOUS
<1>1. bucket.tokens = MaxTokens /\ bucket.elapsed = 0 /\ ideal = Full /\ resets = 0
  BY DEF BucketInit, NewTokenBucket
<1>2. bucket \in [tokens: 0..MaxTokens, elapsed: 0..Horizon]
  BY Sizes DEF BucketInit, NewTokenBucket
<1>3. Held = Full
  <2>1. bucket.elapsed * RefillRate = 0 /\ bucket.tokens * TicksPerSecond = Full
    BY <1>1, Sizes
  <2> QED
    BY <2>1, Sizes DEF Held, Least
<1> QED
  BY <1>1, <1>2, <1>3, Sizes DEF BucketInv

\* It holds throughout.
LEMMA BucketInvariant == Spec => []BucketInv
<1>1. Init => BucketInv
  BY BucketStart DEF Init
<1>2. BucketInv /\ [Next]_vars => BucketInv'
  BY BucketInductive, BucketSteps
<1> QED
  BY <1>1, <1>2, PTL DEF Spec

\* What a difference is.
LEMMA Differences ==
    \A a, b \in Int : /\ a < b => b - a \in Nat
                      /\ ~(a < b) /\ a <= b => 0 = b - a
OBVIOUS

\* No step of TokenBucket costs a bucket more than the token it admits a request for
\* and one unit, whatever float64 makes of the product in refill.
THEOREM LossTheorem == Spec => LossBounded
<1>1. BucketInv /\ [Next]_vars => [Held - Held' <= Taken + TicksPerSecond]_bucketVars
  <2> SUFFICES ASSUME BucketInv, [BucketNext]_bucketVars, ~UNCHANGED bucketVars
               PROVE  Held - Held' <= Taken + TicksPerSecond
    BY BucketSteps
  <2>0. /\ Held \in Nat /\ Held <= Full /\ ideal \in Int /\ ideal' \in Int /\ Full \in Nat
        /\ TicksPerSecond \in Nat
    <3>1. BucketInv'
      BY BucketInductive
    <3> QED
      BY <3>1, HeldTerms, Sizes, BucketAssumption DEF BucketInv
  <2>1. Taken \in Nat /\ (ideal' <= ideal => Taken = ideal - ideal')
    <3>1. CASE ideal' < ideal
      <4>1. Taken = ideal - ideal'
        BY Zenon, <3>1 DEF Taken
      <4> QED
        BY Zenon, <2>0, <3>1, <4>1, Differences
    <3>2. CASE ~(ideal' < ideal)
      <4>1. Taken = 0
        BY Zenon, <3>2 DEF Taken
      <4>2. 0 \in Nat
        OBVIOUS
      <4> QED
        BY Zenon, <2>0, <3>2, <4>1, <4>2, Differences
    <3> QED
      BY Zenon, <3>1, <3>2
  <2>2. ASSUME NEW admitted \in BOOLEAN, AllowRequest(admitted)
        PROVE  Held - Held' <= Taken + TicksPerSecond
    BY Zenon, <2>1, <2>2, AllowEffect
  <2>3. ASSUME Held' \in Nat, Held <= Held'
        PROVE  Held - Held' <= Taken + TicksPerSecond
    <3>1. \A t, p, x, y \in Nat : x <= y => x - y <= t + p
      OBVIOUS
    <3> QED
      BY Zenon, <2>0, <2>1, <2>3, <3>1
  <2>4. \A x \in Nat : x <= x
    OBVIOUS
  <2>5. ASSUME NEW admitted \in BOOLEAN, AllowRemoved(admitted)
        PROVE  Held - Held' <= Taken + TicksPerSecond
    BY Zenon, <2>0, <2>3, <2>4, <2>5, RemovedEffect
  <2>6. CASE SweepBucket \/ ResetBucket
    BY Zenon, <2>0, <2>3, <2>6, SweepEffect, ResetEffect
  <2>7. CASE BucketTick
    BY Zenon, <2>3, <2>7, TickEffect
  <2> QED
    BY Zenon, <2>2, <2>5, <2>6, <2>7 DEF BucketNext
<1> QED
  BY <1>1, BucketInvariant, PTL DEF Spec, LossBounded

-----------------------------------------------------------------------------
(* The admission of signed requests *)

\* At least the ticks since r was signed, while its age is not capped.
Since(r) == (request[r].age + MaxSkew) * TicksPerSecond + phase

PastVerify(h, r) == handler[h].pc \in {"charge", "stray", "insert"} /\ handler[h].req = r

HandlerRecord == [pc: {"idle", "verify", "charge", "stray", "insert"}, req: Requests,
                  secret: 0..MaxRotations, left: 0..HandlingTime]

AdmissionTypes ==
    /\ phase \in 0..(TicksPerSecond - 1)
    /\ request \in [Requests -> [signed: BOOLEAN, age: Int, secret: 0..MaxRotations]]
    /\ \A r \in Requests : request[r].age >= -MaxSkew
    /\ version \in 0..MaxRotations
    /\ rotated \in [0..MaxRotations -> Nat]
    /\ keys \in [Requests -> Nat \cup {Absent}]
    /\ handler \in [Handlers -> HandlerRecord]
    /\ accepted \in [Requests -> Nat]
    /\ refused \in [Requests -> SUBSET Int]

\* Nothing is known of a request before it is signed.
SignedFirst ==
    /\ \A r \in Requests :
            /\ keys[r] # Absent => accepted[r] > 0
            /\ accepted[r] > 0 => request[r].signed = TRUE
    /\ \A h \in Handlers : handler[h].pc # "idle" =>
            request[handler[h].req].signed = TRUE /\ handler[h].secret <= version

\* The least time between two deliveries of a request.
Period == secondsArg(IdempotencyTTL) + 1

\* At least the time that the deliveries of a request have taken: a period for each
\* one whose key is gone, and the age of the key that is there.
Spent(r) ==
    IF keys[r] = Absent THEN accepted[r] * Period ELSE (accepted[r] - 1) * Period + keys[r]

\* No more has been spent than the time since the request was signed.
SpentYounger ==
    \A r \in Requests : request[r].age <= SignatureDriftWindow => Spent(r) <= Since(r)

\* While a verified copy is being handled, no more has been spent than the lifetime
\* and the time the handler has used.
SpentKept ==
    \A r \in Requests, h \in Handlers :
        PastVerify(h, r) => Spent(r) <= Lifetime - 1 + HandlingTime - handler[h].left

\* A secret installed after a request was signed is younger than the request.
SecretYounger ==
    \A r \in Requests : request[r].signed = TRUE /\ request[r].age <= SignatureDriftWindow =>
        \A v \in (request[r].secret + 1)..version : rotated[v] <= Since(r)

AdmissionInv ==
    /\ AdmissionTypes
    /\ SignedFirst
    /\ SpentYounger
    /\ SpentKept
    /\ AcceptedSeldom
    /\ SecretYounger
    /\ RefusedOnlyAfterTwo

-----------------------------------------------------------------------------

\* Lifetimes are naturals, and a request in the drift window has not reached the
\* end of its own.
LEMMA SinceBounds ==
    ASSUME AdmissionTypes, NEW r \in Requests
    PROVE  /\ Lifetime \in Nat \ {0}
           /\ Since(r) \in Nat
           /\ request[r].age <= SignatureDriftWindow => Since(r) <= Lifetime - 1
<1> USE BucketAssumption, IngestAssumption
<1> DEFINE a == request[r].age + MaxSkew
           w == SignatureDriftWindow + MaxSkew
<1>1. a \in Nat /\ w \in Nat /\ phase \in Nat /\ phase <= TicksPerSecond - 1
  BY DEF AdmissionTypes
<1>2. Lifetime = w * TicksPerSecond + TicksPerSecond
  <2>1. (w + 1) * TicksPerSecond = w * TicksPerSecond + 1 * TicksPerSecond
    BY <1>1, Distribute
  <2>2. MaxSkew + SignatureDriftWindow + 1 = w + 1 /\ 1 * TicksPerSecond = TicksPerSecond
    OBVIOUS
  <2> QED
    BY <2>1, <2>2 DEF Lifetime
<1>3. a * TicksPerSecond \in Nat /\ w * TicksPerSecond \in Nat
  BY <1>1, ProductNat
<1>4. request[r].age <= SignatureDriftWindow => a * TicksPerSecond <= w * TicksPerSecond
  <2>1. request[r].age <= SignatureDriftWindow => a <= w
    BY SMTT(30) DEF AdmissionTypes
  <2> QED
    BY Zenon, <1>1, <2>1, TimesMonotone
<1>5. Since(r) = a * TicksPerSecond + phase
  BY DEF Since
<1> HIDE DEF a, w
<1> QED
  BY <1>1, <1>2, <1>3, <1>4, <1>5

\* The fields the arithmetic is about.
LEMMA AdmissionFields ==
    ASSUME AdmissionTypes
    PROVE  /\ phase \in 0..(TicksPerSecond - 1) /\ version \in 0..MaxRotations
           /\ \A r \in Requests : request[r].age \in Int /\ request[r].secret \in 0..MaxRotations
           /\ \A h \in Handlers : handler[h].req \in Requests /\ handler[h].secret \in 0..MaxRotations
BY Zenon DEF AdmissionTypes, HandlerRecord

\* A period is a positive number.
LEMMA PeriodNat == Period \in Nat \ {0} /\ secondsArg(IdempotencyTTL) \in Nat
<1>1. IdempotencyTTL \div TicksPerSecond \in Nat
  BY Zenon, DivBounds, IngestAssumption, BucketAssumption
<1>2. (IF IdempotencyTTL \div TicksPerSecond < 1 THEN 1 ELSE IdempotencyTTL \div TicksPerSecond) \in Nat
  BY <1>1
<1>3. secondsArg(IdempotencyTTL) \in Nat
  BY Zenon, <1>2, ProductNat, BucketAssumption DEF secondsArg
<1> QED
  BY <1>3 DEF Period

\* What is spent is never negative: a key belongs to a delivery.
LEMMA SpentNat ==
    ASSUME AdmissionTypes, SignedFirst, NEW r \in Requests
    PROVE  Spent(r) \in Nat
<1>1. accepted[r] \in Nat /\ keys[r] \in Nat \cup {Absent} /\ Period \in Nat
  BY Zenon, PeriodNat DEF AdmissionTypes
<1>2. CASE keys[r] = Absent
  BY Zenon, <1>1, <1>2, ProductNat DEF Spent
<1>3. CASE keys[r] # Absent
  <2>1. accepted[r] > 0 /\ keys[r] \in Nat
    BY Zenon, <1>1, <1>3 DEF SignedFirst
  <2>2. accepted[r] - 1 \in Nat
    BY <1>1, <2>1
  <2>3. (accepted[r] - 1) * Period \in Nat
    BY Zenon, <1>1, <2>2, ProductNat
  <2>4. Spent(r) = (accepted[r] - 1) * Period + keys[r]
    BY Zenon, <1>3 DEF Spent
  <2> QED
    BY <2>1, <2>3, <2>4
<1> QED
  BY Zenon, <1>2, <1>3

\* Steps that leave keys and deliveries alone leave what is spent alone.
LEMMA SpentSame ==
    ASSUME UNCHANGED <<keys, accepted>>
    PROVE  /\ \A r \in Requests : Spent(r)' = Spent(r)
           /\ AcceptedSeldom => AcceptedSeldom'
BY Zenon DEF Spent, Period, AcceptedSeldom, Lifetime, secondsArg

\* A tick adds one to it, over the end of the second too.
LEMMA SinceTick ==
    ASSUME AdmissionTypes, Tick, NEW r \in Requests, request[r].signed = TRUE,
           request'[r].age <= SignatureDriftWindow
    PROVE  Since(r)' = Since(r) + 1 /\ request[r].age <= SignatureDriftWindow
<1> USE BucketAssumption, IngestAssumption
<1>1. phase \in Nat /\ phase + 1 <= TicksPerSecond /\ phase' = (phase + 1) % TicksPerSecond
  <2>1. phase \in Nat /\ phase + 1 <= TicksPerSecond
    <3>1. phase \in 0..(TicksPerSecond - 1)
      BY Zenon, AdmissionFields
    <3> QED
      BY <3>1
  <2>2. phase' = (phase + 1) % TicksPerSecond
    BY Zenon DEF Tick
  <2> QED
    BY Zenon, <2>1, <2>2
<1>2. /\ phase + 1 < TicksPerSecond => phase' = phase + 1
      /\ phase + 1 = TicksPerSecond => phase' = 0
  BY <1>1
<1>3. request[r].age \in Int /\ request[r].age <= SignatureDriftWindow
  <2>1. request'[r].age = request[r].age \/ request'[r].age = request[r].age + 1
    BY DEF Tick, AdmissionTypes
  <2>2. request[r].age \in Int
    BY Zenon, AdmissionFields
  <2> QED
    BY <2>1, <2>2
<1>4. request'[r].age = IF phase' = 0 THEN request[r].age + 1 ELSE request[r].age
  BY <1>3 DEF Tick, AdmissionTypes
<1> DEFINE a == request[r].age + MaxSkew
<1>5. a \in Int /\ (a + 1) * TicksPerSecond = a * TicksPerSecond + TicksPerSecond
      /\ a * TicksPerSecond \in Int
  <2>1. a \in Int
    BY <1>3
  <2> HIDE DEF a
  <2>2. (a + 1) * TicksPerSecond = a * TicksPerSecond + 1 * TicksPerSecond
    BY <2>1, Distribute
  <2> QED
    BY <2>1, <2>2
<1>6. Since(r) = a * TicksPerSecond + phase
  BY Zenon DEF Since
<1>7. Since(r)' = (request'[r].age + MaxSkew) * TicksPerSecond + phase'
  BY Zenon DEF Since
<1>prod. PICK n \in Int : n = a * TicksPerSecond
  BY Zenon, <1>5
<1>8. CASE phase + 1 < TicksPerSecond
  <2>1. phase' = phase + 1 /\ phase' # 0 /\ request'[r].age = request[r].age
    BY <1>1, <1>2, <1>4, <1>8
  <2>2. Since(r)' = n + phase' /\ Since(r) = n + phase
    BY Zenon, <1>prod, <1>6, <1>7, <2>1
  <2> HIDE DEF a
  <2>3. Since(r)' = Since(r) + 1
    BY <1>1, <2>1, <2>2
  <2> QED
    BY Zenon, <1>3, <2>3
<1>9. CASE phase + 1 = TicksPerSecond
  <2>1. phase' = 0 /\ request'[r].age + MaxSkew = a + 1
    BY <1>2, <1>3, <1>4, <1>9
  <2> HIDE DEF a
  <2>2. Since(r)' = n + TicksPerSecond + phase' /\ Since(r) = n + phase
    BY Zenon, <1>prod, <1>5, <1>6, <1>7, <2>1
  <2>3. Since(r)' = Since(r) + 1
    BY <1>1, <1>9, <2>1, <2>2
  <2> QED
    BY Zenon, <1>3, <2>3
<1> QED
  BY <1>1, <1>8, <1>9

-----------------------------------------------------------------------------
(* One lemma per action *)

\* No message is under way at first.
LEMMA AdmissionStart == Init => AdmissionInv
<1> SUFFICES ASSUME Init PROVE AdmissionInv
  OBVIOUS
<1> USE BucketAssumption, IngestAssumption DEF Init, Unsigned, NoHandler, Absent
<1>1. (CHOOSE r \in Requests : TRUE) \in Requests
  BY Zenon
<1>2. AdmissionTypes
  BY <1>1 DEF AdmissionTypes, HandlerRecord
<1>3. SignedFirst /\ SpentKept /\ AcceptedSeldom /\ SecretYounger
  BY DEF SignedFirst, SpentKept, AcceptedSeldom, SecretYounger, PastVerify
<1>5. SpentYounger
  <2>1. ASSUME NEW r \in Requests PROVE Spent(r) <= Since(r)
    <3>1. Spent(r) = 0 * Period
      BY Zenon DEF Spent
    <3>2. 0 * Period = 0
      BY PeriodNat
    <3>3. Since(r) \in Nat
      BY Zenon, <1>2, SinceBounds
    <3> QED
      BY <3>1, <3>2, <3>3
  <2> QED
    BY Zenon, <2>1 DEF SpentYounger
<1>4. RefusedOnlyAfterTwo
  BY Zenon DEF RefusedOnlyAfterTwo
<1> QED
  BY Zenon, <1>2, <1>3, <1>4, <1>5 DEF AdmissionInv

\* A message is signed with the current secret.
LEMMA SignInv ==
    ASSUME AdmissionInv, NEW q \in Requests, Sign(q)
    PROVE  AdmissionInv'
<1> USE BucketAssumption, IngestAssumption DEF AdmissionInv
<1>0. PICK skew \in -MaxSkew..MaxSkew :
        request' = [request EXCEPT ![q] = [signed |-> TRUE, age |-> skew, secret |-> version]]
  BY Zenon DEF Sign
<1>1. UNCHANGED <<phase, rotated, version, keys, handler, accepted, refused>>
  BY Zenon DEF Sign
<1>2. /\ request'[q] = [signed |-> TRUE, age |-> skew, secret |-> version]
      /\ \A r \in Requests : r # q => request'[r] = request[r]
  BY <1>0 DEF AdmissionTypes
<1>3. request[q].signed # TRUE
  BY Zenon DEF Sign
<1>4. keys[q] = Absent /\ accepted[q] = 0 /\ \A h \in Handlers : ~PastVerify(h, q)
  <2>1. keys[q] = Absent /\ ~(accepted[q] > 0)
    BY Zenon, <1>3 DEF SignedFirst
  <2>2. accepted[q] \in Nat
    BY DEF AdmissionTypes
  <2>3. \A h \in Handlers : ~PastVerify(h, q)
    BY Zenon, <1>3 DEF SignedFirst, PastVerify
  <2> QED
    BY <2>1, <2>2, <2>3
<1>5. \A r \in Requests : r # q => Since(r)' = Since(r)
  BY Zenon, <1>1, <1>2 DEF Since
<1>6. AdmissionTypes'
  <2>1. request'[q] \in [signed: BOOLEAN, age: Int, secret: 0..MaxRotations]
        /\ request'[q].age >= -MaxSkew
    BY <1>2 DEF AdmissionTypes
  <2>2. request' \in [Requests -> [signed: BOOLEAN, age: Int, secret: 0..MaxRotations]]
    BY <1>0, <2>1 DEF AdmissionTypes
  <2>3. \A r \in Requests : request'[r].age >= -MaxSkew
    BY Zenon, <1>2, <2>1 DEF AdmissionTypes
  <2> QED
    BY Zenon, <1>1, <2>2, <2>3 DEF AdmissionTypes
<1>7. SignedFirst'
  <2>1. \A r \in Requests : request[r].signed = TRUE => request'[r].signed = TRUE
    BY <1>2
  <2>2. \A h \in Handlers : handler[h].req \in Requests
    BY Zenon DEF AdmissionTypes, HandlerRecord
  <2> QED
    BY Zenon, <1>1, <2>1, <2>2 DEF SignedFirst
<1>8. SpentYounger'
  <2>1. \A r \in Requests : Spent(r)' = Spent(r)
    BY Zenon, <1>1, SpentSame
  <2>2. Spent(q) = 0 /\ Since(q)' \in Nat
    <3>1. Spent(q) = 0 * Period /\ 0 * Period = 0
      BY <1>4, PeriodNat DEF Spent
    <3>2. request'[q].age + MaxSkew \in Nat /\ phase' \in Nat
      BY <1>1, <1>2 DEF AdmissionTypes
    <3>3. Since(q)' = (request'[q].age + MaxSkew) * TicksPerSecond + phase'
      BY Zenon DEF Since
    <3>4. (request'[q].age + MaxSkew) * TicksPerSecond \in Nat
      BY <3>2, ProductNat
    <3> QED
      BY <3>1, <3>2, <3>3, <3>4
  <2>3. Spent(q) <= Since(q)'
    BY <2>2
  <2> QED
    BY ZenonT(40), <1>2, <1>5, <2>1, <2>3 DEF SpentYounger
<1>9. SpentKept'
  BY Zenon, <1>1, SpentSame DEF SpentKept, PastVerify, Lifetime
<1>10. AcceptedSeldom'
  BY Zenon, <1>1, SpentSame
<1>11. SecretYounger'
  <2>1. (version + 1)..version = {}
    BY DEF AdmissionTypes
  <2> QED
    BY <1>1, <1>2, <1>5, <2>1 DEF SecretYounger
<1>12. RefusedOnlyAfterTwo'
  BY Zenon, <1>1 DEF RefusedOnlyAfterTwo
<1> QED
  BY Zenon, <1>6, <1>7, <1>8, <1>9, <1>10, <1>11, <1>12

\* A rotation keeps the one secret before.
LEMMA RotateSecretInv ==
    ASSUME AdmissionInv, RotateSecret
    PROVE  AdmissionInv'
<1> USE BucketAssumption, IngestAssumption DEF AdmissionInv
<1>1. /\ version' = version + 1 /\ version' \in 0..MaxRotations
      /\ UNCHANGED <<phase, request, keys, handler, accepted, refused>>
  BY DEF RotateSecret, AdmissionTypes
<1>2. rotated' = [rotated EXCEPT ![version + 1] = 0]
  BY Zenon DEF RotateSecret
<1>3. rotated'[version + 1] = 0 /\ \A v \in 0..version : rotated'[v] = rotated[v]
  BY <1>1, <1>2 DEF AdmissionTypes
<1>4. \A r \in Requests : Since(r)' = Since(r) /\ Since(r) \in Nat
  BY Zenon, <1>1, SinceBounds DEF Since
<1>5. AdmissionTypes'
  BY Zenon, <1>1, <1>2 DEF AdmissionTypes
<1>6. SignedFirst'
  <2>1. version \in Int /\ version' = version + 1 /\ \A g \in Handlers : handler[g].secret \in Int
    BY <1>1, AdmissionFields
  <2>2. \A g \in Handlers : handler[g].secret <= version => handler[g].secret <= version'
    BY <2>1
  <2> QED
    BY Zenon, <1>1, <2>2 DEF SignedFirst
<1>7. SpentYounger'
  BY Zenon, <1>1, <1>4, SpentSame DEF SpentYounger
<1>8. SpentKept' /\ AcceptedSeldom'
  BY Zenon, <1>1, SpentSame DEF SpentKept, PastVerify, Lifetime
<1>9. SecretYounger'
  <2> SUFFICES ASSUME NEW r \in Requests, request[r].signed = TRUE,
                      request[r].age <= SignatureDriftWindow,
                      NEW v \in (request[r].secret + 1)..(version + 1)
               PROVE  rotated'[v] <= Since(r)
    BY Zenon, <1>1, <1>4 DEF SecretYounger
  <2>1. CASE v = version + 1
    BY <1>3, <1>4, <2>1
  <2>2. CASE v # version + 1
    <3>1. v \in (request[r].secret + 1)..version /\ v \in 0..version
      BY SMTT(30), <2>2 DEF AdmissionTypes
    <3> QED
      BY <1>3, <3>1 DEF SecretYounger
  <2> QED
    BY <2>1, <2>2
<1>10. RefusedOnlyAfterTwo'
  BY <1>1 DEF RefusedOnlyAfterTwo
<1> QED
  BY Zenon, <1>5, <1>6, <1>7, <1>8, <1>9, <1>10

\* An idle handler is a handler.
LEMMA NoHandlerType == NoHandler \in HandlerRecord
<1>1. (CHOOSE r \in Requests : TRUE) \in Requests
  BY Zenon, IngestAssumption
<1> QED
  BY <1>1, IngestAssumption DEF NoHandler, HandlerRecord

\* The end of a handler leaves every other fact as it is.
LEMMA DoneInv ==
    ASSUME AdmissionInv, NEW h \in Handlers, Done(h),
           UNCHANGED <<phase, request, rotated, version, keys, accepted>>
    PROVE  /\ handler' \in [Handlers -> HandlerRecord]
           /\ SignedFirst' /\ SpentYounger' /\ SpentKept' /\ AcceptedSeldom' /\ SecretYounger'
<1> USE BucketAssumption, IngestAssumption DEF AdmissionInv
<1>1. /\ handler'[h].pc = "idle"
      /\ \A g \in Handlers : g # h => handler'[g] = handler[g]
  BY Zenon DEF Done, NoHandler, AdmissionTypes
<1>2. handler' \in [Handlers -> HandlerRecord]
  BY Zenon, NoHandlerType DEF Done, AdmissionTypes
<1>3. SignedFirst'
  BY Zenon, <1>1 DEF SignedFirst
<1>4. \A r \in Requests : Since(r)' = Since(r) /\ Spent(r)' = Spent(r)
  BY Zenon, SpentSame DEF Since
<1>5. SpentYounger' /\ SecretYounger'
  BY Zenon, <1>4 DEF SpentYounger, SecretYounger
<1>6. SpentKept' /\ AcceptedSeldom'
  BY ZenonT(40), <1>1, <1>4, SpentSame DEF SpentKept, PastVerify, Lifetime
<1> QED
  BY Zenon, <1>2, <1>3, <1>5, <1>6

\* A handler takes up a message, the first time or again.
LEMMA ArriveInv ==
    ASSUME AdmissionInv, NEW h \in Handlers, NEW q \in Requests, Arrive(h, q)
    PROVE  AdmissionInv'
<1> USE BucketAssumption, IngestAssumption DEF AdmissionInv
<1>1. /\ handler'[h] = [pc |-> "verify", req |-> q, secret |-> version, left |-> HandlingTime]
      /\ \A g \in Handlers : g # h => handler'[g] = handler[g]
      /\ UNCHANGED <<phase, request, rotated, version, keys, accepted, refused>>
      /\ request[q].signed = TRUE
  BY Zenon DEF Arrive, AdmissionTypes
<1>2. AdmissionTypes'
  <2>1. handler' \in [Handlers -> HandlerRecord]
    BY DEF Arrive, AdmissionTypes, HandlerRecord
  <2> QED
    BY Zenon, <1>1, <2>1 DEF AdmissionTypes
<1>3. SignedFirst'
  <2>1. handler'[h].req = q /\ handler'[h].secret <= version
    BY <1>1 DEF AdmissionTypes
  <2> QED
    BY Zenon, <1>1, <2>1 DEF SignedFirst
<1>4. \A r \in Requests : Since(r)' = Since(r)
  BY Zenon, <1>1 DEF Since
<1>5. SpentYounger' /\ SecretYounger'
  BY ZenonT(40), <1>1, <1>4, SpentSame DEF SpentYounger, SecretYounger
<1>6. \A g \in Handlers, r \in Requests :
        PastVerify(g, r)' => PastVerify(g, r) /\ handler'[g] = handler[g]
  BY <1>1 DEF PastVerify
<1>7. SpentKept' /\ AcceptedSeldom'
  BY Zenon, <1>1, <1>6, SpentSame DEF SpentKept, Lifetime
<1>8. RefusedOnlyAfterTwo'
  BY Zenon, <1>1 DEF RefusedOnlyAfterTwo
<1> QED
  BY <1>2, <1>3, <1>5, <1>7, <1>8

\* A verified request is inside the drift window, so it has not spent its lifetime,
\* and a signature of the previous secret is refused only outside the grace window.
LEMMA verifyIngestInv ==
    ASSUME AdmissionInv, NEW h \in Handlers, verifyIngest(h)
    PROVE  AdmissionInv'
<1> USE BucketAssumption, IngestAssumption DEF AdmissionInv
<1>0. PICK q \in Requests : q = handler[h].req
  BY Zenon DEF AdmissionTypes, HandlerRecord
<1>1. /\ UNCHANGED <<phase, request, rotated, version, keys, accepted>>
      /\ handler[h].pc = "verify"
  BY Zenon DEF verifyIngest
<1>2. \A r \in Requests : Since(r)' = Since(r)
  BY <1>1 DEF Since
<1>3. CASE Done(h) /\ UNCHANGED refused
  <2>1. AdmissionTypes'
    BY Zenon, <1>1, <1>3, DoneInv DEF AdmissionTypes
  <2>2. RefusedOnlyAfterTwo'
    BY Zenon, <1>3 DEF RefusedOnlyAfterTwo
  <2> QED
    BY Zenon, <1>1, <1>3, <2>1, <2>2, DoneInv
<1>4. CASE InDriftWindow(q) /\ Goto(h, "charge") /\ UNCHANGED refused
  <2>1. /\ handler'[h] = [handler[h] EXCEPT !.pc = "charge"]
        /\ \A g \in Handlers : g # h => handler'[g] = handler[g]
    BY <1>4 DEF Goto, AdmissionTypes
  <2>2. AdmissionTypes'
    <3>1. handler' \in [Handlers -> HandlerRecord]
      BY ZenonT(40), <1>4 DEF Goto, AdmissionTypes, HandlerRecord
    <3> QED
      BY Zenon, <1>1, <1>4, <3>1 DEF AdmissionTypes
  <2>3. \A g \in Handlers : /\ handler'[g].req = handler[g].req
                            /\ handler'[g].secret = handler[g].secret
                            /\ handler'[g].left = handler[g].left
    BY Zenon, <1>4 DEF Goto, AdmissionTypes, HandlerRecord
  <2>4. SignedFirst'
    BY <1>1, <2>1, <2>3 DEF SignedFirst
  <2>5. SpentYounger' /\ SecretYounger'
    BY Zenon, <1>1, <1>2, SpentSame DEF SpentYounger, SecretYounger
  <2>6. \A g \in Handlers, r \in Requests :
          PastVerify(g, r)' => PastVerify(g, r) \/ (g = h /\ r = q)
    BY <1>0, <2>1, <2>3 DEF PastVerify
  <2>7. request[q].age <= SignatureDriftWindow
    BY <1>4 DEF InDriftWindow, AdmissionTypes
  <2>8. SpentKept'
    <3> SUFFICES ASSUME NEW r \in Requests, NEW g \in Handlers, PastVerify(g, r)'
                 PROVE  Spent(r) <= Lifetime - 1 + HandlingTime - handler[g].left
      BY Zenon, <1>1, <2>3, SpentSame DEF SpentKept, Lifetime
    <3>1. CASE PastVerify(g, r)
      BY Zenon, <3>1 DEF SpentKept
    <3>2. CASE g = h /\ r = q
      <4>1. /\ Since(q) \in Nat /\ Since(q) <= Lifetime - 1 /\ Lifetime \in Nat
            /\ Spent(q) <= Since(q) /\ Spent(q) \in Nat
        BY Zenon, <2>7, SinceBounds, SpentNat DEF SpentYounger
      <4>2. handler[g].left \in 0..HandlingTime
        BY Zenon DEF AdmissionTypes, HandlerRecord
      <4> QED
        BY <3>2, <4>1, <4>2
    <3> QED
      BY Zenon, <2>6, <3>1, <3>2
  <2>9. AcceptedSeldom'
    BY Zenon, <1>1, SpentSame
  <2>10. RefusedOnlyAfterTwo'
    BY <1>4 DEF RefusedOnlyAfterTwo
  <2> QED
    BY Zenon, <2>2, <2>4, <2>5, <2>8, <2>9, <2>10
<1>5. CASE /\ InDriftWindow(q) /\ ~Verifies(h, q) /\ Done(h)
           /\ refused' = [refused EXCEPT ![q] = @ \cup {handler[h].secret - request[q].secret}]
  <2> DEFINE d == handler[h].secret - request[q].secret
  <2>1. /\ handler[h].secret \in Int /\ request[q].secret \in Int /\ d \in Int
        /\ handler[h].secret <= version /\ version \in Int
        /\ request[q].signed = TRUE
    <3>1. handler[h].secret \in 0..MaxRotations /\ request[q].secret \in 0..MaxRotations
      BY Zenon, AdmissionFields
    <3>2. version \in 0..MaxRotations
      BY Zenon, AdmissionFields
    <3>3. handler[h].secret <= version /\ request[q].signed = TRUE
      BY Zenon, <1>0, <1>1 DEF SignedFirst
    <3> QED
      BY <3>1, <3>2, <3>3
  <2>2. /\ refused'[q] = refused[q] \cup {d}
        /\ \A r \in Requests : r # q => refused'[r] = refused[r]
    BY <1>5 DEF AdmissionTypes
  <2>3. AdmissionTypes'
    <3>1. refused' \in [Requests -> SUBSET Int]
      BY ZenonT(40), <1>5, <2>1 DEF AdmissionTypes
    <3> QED
      BY Zenon, <1>1, <1>5, <3>1, DoneInv DEF AdmissionTypes
  <2>4. d # 0
    BY <1>5, <2>1 DEF Verifies
  <2>5. SecretGraceWindow >= Lifetime => d # 1
    <3> SUFFICES ASSUME SecretGraceWindow >= Lifetime, d = 1 PROVE FALSE
      BY Zenon
    <3>1. request[q].secret = handler[h].secret - 1
      BY <2>1
    <3>2. ~(rotated[handler[h].secret] < SecretGraceWindow)
      BY Zenon, <1>5, <3>1 DEF Verifies
    <3>3. request[q].age <= SignatureDriftWindow
      BY <1>5 DEF InDriftWindow, AdmissionTypes
    <3>4. handler[h].secret \in (request[q].secret + 1)..version
      BY <2>1, <3>1
    <3>5. rotated[handler[h].secret] <= Since(q)
      BY Zenon, <2>1, <3>3, <3>4 DEF SecretYounger
    <3>6. Since(q) <= Lifetime - 1 /\ Since(q) \in Nat /\ Lifetime \in Nat
      BY Zenon, <3>3, SinceBounds
    <3>7. rotated[handler[h].secret] \in Nat
      BY Zenon DEF AdmissionTypes, HandlerRecord
    <3> QED
      BY <3>2, <3>5, <3>6, <3>7
  <2>6. RefusedOnlyAfterTwo'
    BY Zenon, <2>2, <2>4, <2>5 DEF RefusedOnlyAfterTwo, Lifetime
  <2> QED
    BY Zenon, <1>1, <1>5, <2>3, <2>6, DoneInv
<1> QED
  BY Zenon, <1>0, <1>3, <1>4, <1>5 DEF verifyIngest

\* Charging the quota moves the handler on or ends it.
LEMMA RateLimitAllowInv ==
    ASSUME AdmissionInv, NEW h \in Handlers, RateLimitAllow(h)
    PROVE  AdmissionInv'
<1> USE BucketAssumption, IngestAssumption DEF AdmissionInv
<1>1. UNCHANGED <<phase, request, rotated, version, keys, accepted, refused>>
      /\ handler[h].pc \in {"charge", "stray"} /\ (Done(h) \/ Goto(h, "insert"))
  BY Zenon DEF RateLimitAllow
<1>2. RefusedOnlyAfterTwo'
  BY Zenon, <1>1 DEF RefusedOnlyAfterTwo
<1>3. CASE Done(h)
  <2>1. AdmissionTypes'
    BY Zenon, <1>1, <1>3, DoneInv DEF AdmissionTypes
  <2> QED
    BY Zenon, <1>1, <1>2, <1>3, <2>1, DoneInv
<1>4. CASE Goto(h, "insert")
  <2>1. AdmissionTypes'
    <3>1. handler' \in [Handlers -> HandlerRecord]
      BY ZenonT(40), <1>4 DEF Goto, AdmissionTypes, HandlerRecord
    <3> QED
      BY Zenon, <1>1, <3>1 DEF AdmissionTypes
  <2>2. \A g \in Handlers : /\ handler'[g].req = handler[g].req
                            /\ handler'[g].secret = handler[g].secret
                            /\ handler'[g].left = handler[g].left
                            /\ handler'[g].pc = (IF g = h THEN "insert" ELSE handler[g].pc)
    BY ZenonT(40), <1>4 DEF Goto, AdmissionTypes, HandlerRecord
  <2>3. SignedFirst'
    BY ZenonT(40), <1>1, <2>2 DEF SignedFirst
  <2>4. \A r \in Requests : Since(r)' = Since(r)
    BY Zenon, <1>1 DEF Since
  <2>5. SpentYounger' /\ SecretYounger'
    BY Zenon, <1>1, <2>4, SpentSame DEF SpentYounger, SecretYounger
  <2>6. \A g \in Handlers, r \in Requests : PastVerify(g, r)' => PastVerify(g, r)
    BY Zenon, <1>1, <2>2 DEF PastVerify
  <2>7. SpentKept' /\ AcceptedSeldom'
    BY Zenon, <1>1, <2>2, <2>6, SpentSame DEF SpentKept, Lifetime
  <2> QED
    BY Zenon, <1>2, <2>1, <2>3, <2>5, <2>7
<1> QED
  BY Zenon, <1>1, <1>3, <1>4

\* A new delivery has spent nothing yet; those before it have spent a period each,
\* which the lifetime and the handling leave room for.
LEMMA IngestPendingInv ==
    ASSUME AdmissionInv, NEW h \in Handlers, IngestPending(h)
    PROVE  AdmissionInv'
<1> USE BucketAssumption, IngestAssumption DEF AdmissionInv
<1>0. PICK q \in Requests : q = handler[h].req
  BY Zenon, AdmissionFields
<1>1. /\ UNCHANGED <<phase, request, rotated, version, refused>> /\ Done(h)
      /\ handler[h].pc = "insert"
  BY Zenon DEF IngestPending
<1>2. PastVerify(h, q) /\ request[q].signed = TRUE
  BY Zenon, <1>0, <1>1 DEF PastVerify, SignedFirst
<1>3. RefusedOnlyAfterTwo'
  BY Zenon, <1>1 DEF RefusedOnlyAfterTwo
<1>4. CASE keys[q] # Absent
  <2>1. UNCHANGED <<keys, accepted>>
    BY ZenonT(40), <1>0, <1>4 DEF IngestPending
  <2>2. AdmissionTypes'
    BY ZenonT(40), <1>1, <2>1, DoneInv DEF AdmissionTypes
  <2> QED
    BY ZenonT(40), <1>1, <1>3, <2>1, <2>2, DoneInv
<1>5. CASE keys[q] = Absent
  <2>1. keys' = [keys EXCEPT ![q] = 0] /\ accepted' = [accepted EXCEPT ![q] = @ + 1]
    BY Zenon, <1>0, <1>5 DEF IngestPending
  <2>2. /\ keys'[q] = 0 /\ accepted'[q] = accepted[q] + 1 /\ accepted[q] \in Nat
        /\ \A r \in Requests : r # q => keys'[r] = keys[r] /\ accepted'[r] = accepted[r]
    BY ZenonT(40), <2>1 DEF AdmissionTypes
  <2>3. /\ handler'[h].pc = "idle"
        /\ \A g \in Handlers : g # h => handler'[g] = handler[g]
    BY Zenon, <1>1 DEF Done, NoHandler, AdmissionTypes
  <2>4. AdmissionTypes'
    <3>1. handler' \in [Handlers -> HandlerRecord]
      BY Zenon, <1>1, NoHandlerType DEF Done, AdmissionTypes
    <3>2. keys' \in [Requests -> Nat \cup {Absent}]
      <4>1. 0 \in Nat \cup {Absent} /\ keys \in [Requests -> Nat \cup {Absent}]
        BY SMTT(30) DEF AdmissionTypes
      <4> QED
        BY Zenon, <2>1, <4>1
    <3>3. accepted' \in [Requests -> Nat]
      <4>1. accepted \in [Requests -> Nat] /\ accepted[q] + 1 \in Nat
        BY <2>2 DEF AdmissionTypes
      <4> QED
        BY Zenon, <2>1, <4>1
    <3> QED
      BY Zenon, <1>1, <3>1, <3>2, <3>3 DEF AdmissionTypes
  <2>5. SignedFirst'
    <3>1. accepted'[q] > 0
      BY <2>2
    <3> QED
      BY ZenonT(40), <1>1, <1>2, <2>2, <2>3, <3>1 DEF SignedFirst
  <2>6. \A r \in Requests : Since(r)' = Since(r)
    BY Zenon, <1>1 DEF Since
  <2>7. \A r \in Requests : Spent(r)' = Spent(r)
    <3>1. Spent(q) = accepted[q] * Period /\ accepted[q] * Period \in Nat
      BY Zenon, <1>5, <2>2, PeriodNat, ProductNat DEF Spent
    <3>2. keys'[q] # Absent /\ accepted'[q] - 1 = accepted[q]
      BY <2>2 DEF Absent
    <3>3. Spent(q)' = accepted[q] * Period + 0
      BY Zenon, <2>2, <3>2 DEF Spent, Period, secondsArg
    <3>4. Spent(q)' = Spent(q)
      BY <3>1, <3>3
    <3>5. \A r \in Requests : r # q => Spent(r)' = Spent(r)
      BY Zenon, <2>2 DEF Spent, Period, secondsArg
    <3> QED
      BY Zenon, <3>4, <3>5
  <2>8. \A g \in Handlers, r \in Requests :
          PastVerify(g, r)' => PastVerify(g, r) /\ handler'[g] = handler[g]
    BY Zenon, <2>3 DEF PastVerify
  <2>9. SpentYounger' /\ SecretYounger' /\ SpentKept'
    BY ZenonT(40), <1>1, <2>6, <2>7, <2>8 DEF SpentYounger, SecretYounger, SpentKept, Lifetime
  <2>10. AcceptedSeldom'
    <3>1. accepted'[q] - 1 = accepted[q]
      BY <2>2
    <3>2. accepted[q] * Period <= Lifetime + HandlingTime - 1
      <4>1. Spent(q) <= Lifetime - 1 + HandlingTime - handler[h].left
        BY Zenon, <1>2 DEF SpentKept
      <4>2. handler[h].left \in Nat /\ Lifetime \in Nat /\ Spent(q) \in Nat
        <5>1. handler[h].left \in 0..HandlingTime /\ Lifetime \in Nat /\ Spent(q) \in Nat
          BY Zenon, SinceBounds, SpentNat DEF AdmissionTypes, HandlerRecord
        <5> QED
          BY <5>1
      <4>3. Spent(q) = accepted[q] * Period
        BY Zenon, <1>5 DEF Spent
      <4>4. Spent(q) <= Lifetime + HandlingTime - 1
        BY <4>1, <4>2
      <4> QED
        BY Zenon, <4>3, <4>4
    <3>3. (accepted'[q] - 1) * (secondsArg(IdempotencyTTL) + 1) <= Lifetime + HandlingTime - 1
      BY Zenon, <3>1, <3>2 DEF Period
    <3> QED
      BY ZenonT(40), <2>2, <3>3 DEF AcceptedSeldom, Lifetime, secondsArg
  <2> QED
    BY Zenon, <1>3, <2>4, <2>5, <2>9, <2>10
<1> QED
  BY Zenon, <1>4, <1>5

\* A key that is pruned has spent its period.
LEMMA PruneIdempotencyInv ==
    ASSUME AdmissionInv, PruneIdempotency
    PROVE  AdmissionInv'
<1> USE BucketAssumption, IngestAssumption DEF AdmissionInv
<1>1. UNCHANGED <<phase, request, rotated, version, handler, accepted, refused>>
  BY Zenon DEF PruneIdempotency
<1>2. \A r \in Requests :
        keys'[r] = IF keys[r] > secondsArg(IdempotencyTTL) THEN Absent ELSE keys[r]
  BY Zenon DEF PruneIdempotency
<1>3. AdmissionTypes'
  <2>1. keys' \in [Requests -> Nat \cup {Absent}]
    BY Zenon DEF PruneIdempotency, AdmissionTypes
  <2> QED
    BY Zenon, <1>1, <2>1 DEF AdmissionTypes
<1>4. SignedFirst'
  BY Zenon, <1>1, <1>2 DEF SignedFirst
<1>5. \A r \in Requests : Since(r)' = Since(r)
  BY Zenon, <1>1 DEF Since
<1>6. \A r \in Requests : Spent(r)' \in Nat /\ Spent(r)' <= Spent(r) /\ Spent(r) \in Nat
  <2> SUFFICES ASSUME NEW r \in Requests
               PROVE  Spent(r)' \in Nat /\ Spent(r)' <= Spent(r) /\ Spent(r) \in Nat
    BY Zenon
  <2>0. Spent(r) \in Nat
    BY Zenon, SpentNat
  <2>1. CASE keys'[r] = keys[r]
    <3>1. Spent(r)' = Spent(r)
      BY Zenon, <1>1, <2>1 DEF Spent, Period, secondsArg
    <3> QED
      BY <2>0, <3>1
  <2>2. CASE keys'[r] # keys[r]
    <3>1. keys'[r] = Absent /\ keys[r] > secondsArg(IdempotencyTTL) /\ keys[r] # Absent
      BY Zenon, <1>2, <2>2
    <3>2. accepted[r] \in Nat /\ keys[r] \in Nat /\ accepted[r] > 0 /\ Period \in Nat
      BY Zenon, <3>1, PeriodNat DEF AdmissionTypes, SignedFirst
    <3>3. keys[r] >= Period
      BY <3>1, <3>2, PeriodNat DEF Period
    <3>4. Spent(r)' = accepted[r] * Period /\ Spent(r) = (accepted[r] - 1) * Period + keys[r]
      BY Zenon, <1>1, <3>1 DEF Spent, Period, secondsArg
    <3>5. accepted[r] * Period = (accepted[r] - 1) * Period + Period
      <4>1. accepted[r] - 1 \in Nat /\ (accepted[r] - 1) + 1 = accepted[r]
        BY <3>2
      <4>2. ((accepted[r] - 1) + 1) * Period = (accepted[r] - 1) * Period + 1 * Period
        BY <3>2, <4>1, Distribute
      <4>3. 1 * Period = Period
        BY <3>2
      <4> QED
        BY Zenon, <4>1, <4>2, <4>3
    <3>6. PICK p \in Nat : p = (accepted[r] - 1) * Period
      <4>1. accepted[r] - 1 \in Nat
        BY <3>2
      <4> QED
        BY Zenon, <3>2, <4>1, ProductNat
    <3>7. Spent(r)' = p + Period /\ Spent(r) = p + keys[r]
      BY Zenon, <3>4, <3>5, <3>6
    <3> QED
      BY <3>2, <3>3, <3>6, <3>7
  <2> QED
    BY Zenon, <2>1, <2>2
<1>7. SpentYounger' /\ SecretYounger'
  <2>1. \A r \in Requests : Since(r) \in Nat
    BY Zenon, SinceBounds
  <2>2. \A r \in Requests : Spent(r) <= Since(r) => Spent(r)' <= Since(r)'
    BY <1>5, <1>6, <2>1
  <2> QED
    BY ZenonT(40), <1>1, <1>5, <2>2 DEF SpentYounger, SecretYounger
<1>8. SpentKept' /\ AcceptedSeldom'
  <2>1. \A r \in Requests, h \in Handlers : handler[h].left \in Int /\ Lifetime \in Int
    <3>1. \A r \in Requests, h \in Handlers : handler[h].left \in 0..HandlingTime /\ Lifetime \in Nat
      BY Zenon, SinceBounds DEF AdmissionTypes, HandlerRecord
    <3> QED
      BY <3>1
  <2>2. \A r \in Requests, h \in Handlers :
          Spent(r) <= Lifetime - 1 + HandlingTime - handler[h].left =>
            Spent(r)' <= Lifetime - 1 + HandlingTime - handler[h].left
    BY <1>6, <2>1
  <2>3. SpentKept'
    BY ZenonT(40), <1>1, <2>2 DEF SpentKept, PastVerify, Lifetime
  <2>4. AcceptedSeldom'
    BY Zenon, <1>1 DEF AcceptedSeldom, Lifetime, secondsArg
  <2> QED
    BY Zenon, <2>3, <2>4
<1>9. RefusedOnlyAfterTwo'
  BY Zenon, <1>1 DEF RefusedOnlyAfterTwo
<1> QED
  BY Zenon, <1>3, <1>4, <1>7, <1>8, <1>9

\* A tick ages requests, keys and secrets alike, and uses up the handlers' time.
LEMMA TickInv ==
    ASSUME AdmissionInv, Tick
    PROVE  AdmissionInv'
<1> USE BucketAssumption, IngestAssumption DEF AdmissionInv
<1>0. UNCHANGED <<version, accepted, refused>>
  BY Zenon DEF Tick
<1>ages. \A r \in Requests :
        /\ request[r].age \in Int /\ request'[r].age \in Int
        /\ request'[r].age >= request[r].age
  <2>1. \A r \in Requests : request[r].age \in Int
    BY Zenon DEF AdmissionTypes
  <2>2. \A r \in Requests :
          request'[r].age = request[r].age \/ request'[r].age = request[r].age + 1
    BY ZenonT(40) DEF Tick, AdmissionTypes
  <2> QED
    BY <2>1, <2>2
<1>1. \A r \in Requests :
        /\ request'[r].signed = request[r].signed /\ request'[r].secret = request[r].secret
        /\ request'[r] \in [signed: BOOLEAN, age: Int, secret: 0..MaxRotations]
  <2> SUFFICES ASSUME NEW r \in Requests
               PROVE  /\ request'[r].signed = request[r].signed
                      /\ request'[r].secret = request[r].secret
                      /\ request'[r] \in [signed: BOOLEAN, age: Int, secret: 0..MaxRotations]
    BY Zenon
  <2>1. request[r] \in [signed: BOOLEAN, age: Int, secret: 0..MaxRotations]
    BY Zenon DEF AdmissionTypes
  <2>2. \/ request'[r] = request[r]
        \/ request'[r] = [request[r] EXCEPT !.age = @ + 1]
    BY Zenon DEF Tick
  <2>3. CASE request'[r] = request[r]
    BY Zenon, <2>1, <2>3
  <2>4. CASE request'[r] = [request[r] EXCEPT !.age = @ + 1]
    <3>1. /\ request'[r].signed = request[r].signed
          /\ request'[r].secret = request[r].secret
      BY Zenon, <2>1, <2>4
    <3>2. request'[r] \in [signed: BOOLEAN, age: Int, secret: 0..MaxRotations]
      BY <2>1, <2>4
    <3> QED
      BY Zenon, <3>1, <3>2
  <2> QED
    BY Zenon, <2>2, <2>3, <2>4
<1>2. secondsArg(IdempotencyTTL) + 1 \in Nat
  <2>1. IdempotencyTTL \div TicksPerSecond \in Nat
    BY Zenon, DivBounds
  <2> QED
    BY <2>1, ProductNat DEF secondsArg
<1>3. \A r \in Requests :
        /\ keys[r] = Absent <=> keys'[r] = Absent
        /\ keys[r] # Absent => keys'[r] \in Nat /\ keys'[r] <= keys[r] + 1
  <2>1. \A r \in Requests : keys'[r] = IF keys[r] = Absent THEN Absent
                                       ELSE Least(secondsArg(IdempotencyTTL) + 1, keys[r] + 1)
    BY Zenon DEF Tick
  <2>2. \A r \in Requests : keys[r] \in Nat \cup {Absent}
    BY Zenon DEF AdmissionTypes
  <2> QED
    BY <1>2, <2>1, <2>2 DEF Least, Absent
<1>4. \A v \in 0..MaxRotations : rotated'[v] \in Nat /\ rotated'[v] <= rotated[v] + 1
  <2>1. \A v \in 0..MaxRotations : rotated[v] \in Nat
    BY Zenon DEF AdmissionTypes
  <2>2. \A v \in 0..MaxRotations : rotated'[v] = Least(SecretGraceWindow, rotated[v] + 1)
    BY Zenon DEF Tick, AdmissionTypes
  <2> QED
    BY <2>1, <2>2 DEF Least
<1>5. \A h \in Handlers :
        /\ handler'[h].pc = handler[h].pc /\ handler'[h].req = handler[h].req
        /\ handler'[h].secret = handler[h].secret
        /\ handler[h].pc # "idle" => handler'[h].left = handler[h].left - 1
  BY SMTT(30) DEF Tick, AdmissionTypes, HandlerRecord
<1>6. AdmissionTypes'
  <2>1. phase' \in 0..(TicksPerSecond - 1)
    <3>1. phase + 1 \in Nat
      BY DEF AdmissionTypes
    <3>2. phase' = (phase + 1) % TicksPerSecond
      BY DEF Tick
    <3> QED
      BY <3>1, <3>2
  <2>2. request' \in [Requests -> [signed: BOOLEAN, age: Int, secret: 0..MaxRotations]]
    BY <1>1 DEF Tick
  <2>3. \A r \in Requests : request'[r].age >= -MaxSkew
    <3>1. \A r \in Requests : request[r].age >= -MaxSkew
      BY Zenon DEF AdmissionTypes
    <3> QED
      BY <1>ages, <3>1
  <2>4. rotated' \in [0..MaxRotations -> Nat]
    BY Zenon, <1>4 DEF Tick, AdmissionTypes
  <2>5. keys' \in [Requests -> Nat \cup {Absent}]
    BY Zenon, <1>3 DEF Tick
  <2>6. handler' \in [Handlers -> HandlerRecord]
    <3>1. ASSUME NEW h \in Handlers PROVE handler'[h] \in HandlerRecord
      <4>1. handler[h] \in HandlerRecord
        BY Zenon DEF AdmissionTypes
      <4>2. \/ handler'[h] = handler[h]
            \/ handler[h].left > 0 /\ handler'[h] = [handler[h] EXCEPT !.left = @ - 1]
        BY Zenon DEF Tick
      <4> QED
        BY <4>1, <4>2 DEF HandlerRecord
    <3>2. handler' = [h \in Handlers |-> handler'[h]]
      BY Zenon DEF Tick
    <3> QED
      BY Zenon, <3>1, <3>2
  <2> QED
    BY Zenon, <1>0, <2>1, <2>2, <2>3, <2>4, <2>5, <2>6 DEF AdmissionTypes
<1>7. SignedFirst'
  <2>1. \A h \in Handlers : handler[h].req \in Requests
    BY Zenon DEF AdmissionTypes, HandlerRecord
  <2> QED
    BY ZenonT(40), <1>0, <1>1, <1>3, <1>5, <2>1 DEF SignedFirst
<1>spent. \A r \in Requests : Spent(r) \in Nat /\ Spent(r)' \in Nat /\ Spent(r)' <= Spent(r) + 1
  <2> SUFFICES ASSUME NEW r \in Requests
               PROVE  Spent(r) \in Nat /\ Spent(r)' \in Nat /\ Spent(r)' <= Spent(r) + 1
    BY Zenon
  <2>0. Spent(r) \in Nat
    BY Zenon, SpentNat
  <2>1. CASE keys[r] = Absent
    <3>1. Spent(r)' = Spent(r)
      BY Zenon, <1>0, <1>3, <2>1 DEF Spent, Period, secondsArg
    <3> QED
      BY <2>0, <3>1
  <2>2. CASE keys[r] # Absent
    <3>1. keys[r] \in Nat /\ keys'[r] \in Nat /\ keys'[r] <= keys[r] + 1 /\ keys'[r] # Absent
      BY Zenon, <1>3, <2>2 DEF AdmissionTypes
    <3>2. accepted[r] > 0 /\ accepted[r] \in Nat
      BY Zenon, <2>2 DEF SignedFirst, AdmissionTypes
    <3>3. PICK p \in Nat : p = (accepted[r] - 1) * Period
      <4>1. accepted[r] - 1 \in Nat
        BY <3>2
      <4> QED
        BY Zenon, <4>1, PeriodNat, ProductNat
    <3>4. Spent(r)' = p + keys'[r] /\ Spent(r) = p + keys[r]
      BY Zenon, <1>0, <2>2, <3>1, <3>3 DEF Spent, Period, secondsArg
    <3> QED
      BY <3>1, <3>3, <3>4
  <2> QED
    BY Zenon, <2>1, <2>2
<1>8. SpentYounger'
  <2> SUFFICES ASSUME NEW r \in Requests, request'[r].age <= SignatureDriftWindow
               PROVE  Spent(r)' <= Since(r)'
    BY Zenon DEF SpentYounger
  <2>1. CASE request[r].signed = TRUE
    <3>1. Since(r)' = Since(r) + 1 /\ Spent(r) <= Since(r)
      BY Zenon, <2>1, SinceTick DEF SpentYounger
    <3>2. Since(r) \in Nat
      BY Zenon, SinceBounds
    <3> QED
      BY <1>spent, <3>1, <3>2
  <2>2. CASE request[r].signed # TRUE
    <3>1. keys[r] = Absent /\ ~(accepted[r] > 0) /\ accepted[r] \in Nat
      BY Zenon, <2>2 DEF SignedFirst, AdmissionTypes
    <3>2. accepted[r] = 0
      BY <3>1
    <3>3. Spent(r)' = 0 * Period /\ 0 * Period = 0
      <4>1. Spent(r)' = 0 * Period
        BY Zenon, <1>0, <1>3, <3>1, <3>2 DEF Spent, Period, secondsArg
      <4> QED
        BY <4>1, PeriodNat
    <3>4. Since(r)' \in Nat
      <4>1. request'[r].age + MaxSkew \in Nat /\ phase' \in Nat
        <5>1. request'[r].age \in Int /\ request'[r].age >= -MaxSkew /\ phase' \in 0..(TicksPerSecond - 1)
          BY Zenon, <1>6, <1>ages DEF AdmissionTypes
        <5> QED
          BY <5>1
      <4>2. (request'[r].age + MaxSkew) * TicksPerSecond \in Nat
        BY <4>1, ProductNat
      <4>3. Since(r)' = (request'[r].age + MaxSkew) * TicksPerSecond + phase'
        BY Zenon DEF Since
      <4> QED
        BY <4>1, <4>2, <4>3
    <3> QED
      BY <3>3, <3>4
  <2> QED
    BY Zenon, <2>1, <2>2
<1>9. SpentKept'
  <2> SUFFICES ASSUME NEW r \in Requests, NEW h \in Handlers, PastVerify(h, r)'
               PROVE  Spent(r)' <= Lifetime - 1 + HandlingTime - handler'[h].left
    BY Zenon DEF SpentKept, Lifetime
  <2>1. PastVerify(h, r) /\ handler'[h].left = handler[h].left - 1
    BY Zenon, <1>5 DEF PastVerify
  <2>2. Spent(r) <= Lifetime - 1 + HandlingTime - handler[h].left
    BY Zenon, <2>1 DEF SpentKept
  <2>3. handler[h].left \in Int /\ Lifetime \in Nat
    <3>1. Lifetime \in Nat /\ handler[h].left \in 0..HandlingTime
      BY Zenon, SinceBounds DEF AdmissionTypes, HandlerRecord
    <3> QED
      BY <3>1
  <2> QED
    BY <1>spent, <2>1, <2>2, <2>3
<1>10. AcceptedSeldom'
  BY Zenon, <1>0 DEF AcceptedSeldom, Lifetime, secondsArg
<1>11. SecretYounger'
  <2> SUFFICES ASSUME NEW r \in Requests, request'[r].signed = TRUE,
                      request'[r].age <= SignatureDriftWindow,
                      NEW v \in (request[r].secret + 1)..version
               PROVE  rotated'[v] <= Since(r)'
    BY Zenon, <1>0, <1>1 DEF SecretYounger
  <2>1. request[r].signed = TRUE
    BY Zenon, <1>1
  <2>2. Since(r)' = Since(r) + 1 /\ request[r].age <= SignatureDriftWindow
    BY Zenon, <2>1, SinceTick
  <2>3. rotated[v] <= Since(r)
    BY Zenon, <2>1, <2>2 DEF SecretYounger
  <2>4. v \in 0..MaxRotations /\ Since(r) \in Nat
    <3>1. Since(r) \in Nat
      BY SinceBounds
    <3>2. request[r].secret \in 0..MaxRotations /\ version \in 0..MaxRotations
      BY Zenon, AdmissionFields
    <3> QED
      BY <3>1, <3>2
  <2>5. rotated[v] \in Nat /\ rotated'[v] \in Nat /\ rotated'[v] <= rotated[v] + 1
    BY Zenon, <1>4, <2>4 DEF AdmissionTypes
  <2> QED
    BY <2>2, <2>3, <2>4, <2>5
<1>12. RefusedOnlyAfterTwo'
  BY Zenon, <1>0 DEF RefusedOnlyAfterTwo
<1> QED
  BY Zenon, <1>6, <1>7, <1>8, <1>9, <1>10, <1>11, <1>12

\* A reset moves no handler past the check of its signature or out of it.
LEMMA ResetRuntimeInv ==
    ASSUME AdmissionInv, ResetRuntime
    PROVE  AdmissionInv'
<1> USE DEF AdmissionInv
<1>1. UNCHANGED <<phase, request, rotated, version, keys, accepted, refused>>
  BY Zenon DEF ResetRuntime
<1>2. ASSUME NEW h \in Handlers
      PROVE  /\ handler'[h] \in HandlerRecord
             /\ handler'[h].req = handler[h].req /\ handler'[h].secret = handler[h].secret
             /\ handler'[h].left = handler[h].left
             /\ handler'[h].pc = handler[h].pc \/ (handler[h].pc = "charge" /\ handler'[h].pc = "stray")
  <2>1. handler[h] \in HandlerRecord
    BY Zenon DEF AdmissionTypes
  <2>2. handler'[h] = IF handler[h].pc = "charge" THEN [handler[h] EXCEPT !.pc = "stray"] ELSE handler[h]
    BY Zenon DEF ResetRuntime
  <2> QED
    BY ZenonT(40), <2>1, <2>2 DEF HandlerRecord
<1>3. handler' \in [Handlers -> HandlerRecord]
  <2>1. handler' = [h \in Handlers |-> handler'[h]]
    BY Zenon DEF ResetRuntime
  <2> QED
    BY Zenon, <1>2, <2>1
<1>4. AdmissionTypes'
  BY Zenon, <1>1, <1>3 DEF AdmissionTypes
<1>5. SignedFirst'
  BY ZenonT(40), <1>1, <1>2 DEF SignedFirst
<1>6. \A r \in Requests : Since(r)' = Since(r) /\ Spent(r)' = Spent(r)
  BY Zenon, <1>1, SpentSame DEF Since
<1>7. \A h \in Handlers, r \in Requests : PastVerify(h, r)' => PastVerify(h, r)
  BY ZenonT(40), <1>2 DEF PastVerify
<1>8. SpentYounger' /\ SecretYounger' /\ SpentKept'
  BY ZenonT(40), <1>1, <1>2, <1>6, <1>7 DEF SpentYounger, SecretYounger, SpentKept, Lifetime
<1>9. AcceptedSeldom' /\ RefusedOnlyAfterTwo'
  BY Zenon, <1>1, SpentSame DEF RefusedOnlyAfterTwo, Lifetime
<1> QED
  BY Zenon, <1>4, <1>5, <1>8, <1>9

\* Every step preserves the invariant of the admission.
LEMMA AdmissionInductive == AdmissionInv /\ [Next]_vars => AdmissionInv'
<1> SUFFICES ASSUME AdmissionInv, [Next]_vars PROVE AdmissionInv'
  OBVIOUS
<1>1. CASE UNCHANGED ingestVars
  BY Zenon, <1>1 DEF ingestVars, AdmissionInv, AdmissionTypes, SignedFirst, SpentYounger, SpentKept,
              AcceptedSeldom, SecretYounger, RefusedOnlyAfterTwo, Since, Spent, Period, PastVerify,
              Lifetime, secondsArg, HandlerRecord
<1>2. CASE Sweep
  BY <1>1, <1>2 DEF Sweep
<1>3. CASE UNCHANGED vars
  BY <1>1, <1>3 DEF vars
<1> QED
  BY Zenon, <1>2, <1>3, SignInv, ArriveInv, verifyIngestInv, RateLimitAllowInv, IngestPendingInv,
     RotateSecretInv, PruneIdempotencyInv, ResetRuntimeInv, TickInv DEF Next

\* It holds throughout.
LEMMA AdmissionInvariant == Spec => []AdmissionInv
BY AdmissionStart, AdmissionInductive, PTL DEF Spec

\* A signed request, however often it is delivered to handleIngest, creates one
\* delivery and another for each IDEMPOTENCY_TTL that fits into its lifetime and the
\* handling of a copy, for every TTL, window, skew and number of handlers.
THEOREM AcceptedSeldomTheorem == Spec => []AcceptedSeldom
<1>1. AdmissionInv => AcceptedSeldom
  BY DEF AdmissionInv
<1> QED
  BY <1>1, AdmissionInvariant, PTL

\* A correctly signed request is refused only after two rotations, if the grace
\* window covers its lifetime.
THEOREM RefusedTheorem == Spec => []RefusedOnlyAfterTwo
<1>1. AdmissionInv => RefusedOnlyAfterTwo
  BY DEF AdmissionInv
<1> QED
  BY <1>1, AdmissionInvariant, PTL

-----------------------------------------------------------------------------
(* The quota *)

Strays == {h \in Handlers : handler[h].pc = "stray"}

\* What a reset adds at most.
PerReset == Full + Cardinality(Handlers) * Token

\* What the resets have added, without what the handlers that may hold a removed
\* bucket can still take.
QuotaInv ==
    /\ resets = 0 => Strays = {}
    /\ SweepFills => Held + Cardinality(Strays) * Token <= ideal + resets * PerReset

\* The strays are some of the handlers.
LEMMA StraysFinite ==
    /\ IsFiniteSet(Strays) /\ Cardinality(Strays) \in Nat /\ Cardinality(Handlers) \in Nat
    /\ Cardinality(Strays) <= Cardinality(Handlers)
<1>1. IsFiniteSet(Handlers) /\ Strays \subseteq Handlers
  BY IngestAssumption DEF Strays
<1> QED
  BY Zenon, <1>1, FS_Subset, FS_CardinalityType

\* What the strays can take is not more than one reset adds.
LEMMA QuotaSizes ==
    /\ PerReset \in Nat /\ Cardinality(Strays) * Token \in Nat
    /\ Full + Cardinality(Strays) * Token <= PerReset
<1>1. /\ Cardinality(Strays) * Token \in Nat /\ Cardinality(Handlers) * Token \in Nat
      /\ Cardinality(Strays) * Token <= Cardinality(Handlers) * Token
  BY Zenon, StraysFinite, TokenNat, ProductNat, TimesMonotone
<1> QED
  BY <1>1, TokenNat DEF PerReset

\* The resets cover what the strays can take.
LEMMA StraysCovered ==
    ASSUME BucketInv, resets = 0 => Strays = {}
    PROVE  resets * PerReset \in Nat /\ Cardinality(Strays) * Token <= resets * PerReset
<1>1. resets \in Nat
  BY Zenon DEF BucketInv
<1>2. CASE resets = 0
  <2>1. Cardinality(Strays) = 0
    BY Zenon, <1>2, FS_EmptySet
  <2>2. 0 * Token = 0 /\ 0 * PerReset = 0
    BY TokenNat, QuotaSizes
  <2>3. Cardinality(Strays) * Token = 0 /\ resets * PerReset = 0
    BY Zenon, <1>2, <2>1, <2>2
  <2> QED
    BY <2>3
<1>3. CASE resets # 0
  <2>1. 1 <= resets /\ 1 \in Nat
    BY <1>1, <1>3
  <2>2. 1 * PerReset <= resets * PerReset /\ resets * PerReset \in Nat
    BY Zenon, <1>1, <2>1, TimesMonotone, ProductNat, QuotaSizes
  <2>3. 1 * PerReset = PerReset
    BY QuotaSizes
  <2> QED
    BY <2>2, <2>3, QuotaSizes, TokenNat
<1> QED
  BY Zenon, <1>2, <1>3

\* Nothing is held by a stray at first.
LEMMA QuotaStart == Init => QuotaInv
<1> SUFFICES ASSUME Init PROVE QuotaInv
  OBVIOUS
<1>1. Held = Full /\ ideal = Full /\ resets = 0
  BY Zenon, BucketStart DEF Init
<1>2. Strays = {}
  BY DEF Init, NoHandler, Strays
<1>3. Cardinality(Strays) = 0
  BY Zenon, <1>2, FS_EmptySet
<1>4. 0 * Token = 0 /\ 0 * PerReset = 0
  BY TokenNat, QuotaSizes
<1>5. Held + Cardinality(Strays) * Token = Full + 0 /\ ideal + resets * PerReset = Full + 0
  BY Zenon, <1>1, <1>3, <1>4
<1> QED
  BY <1>2, <1>5, TokenNat DEF QuotaInv

\* The arithmetic of a step that moves both buckets.
LEMMA ShiftBoth ==
    \A a, b \in Int, h, k, x, y, z \in Nat :
        k - b <= h - a /\ y <= x /\ h + x <= a + z => k + y <= b + z
OBVIOUS

\* The arithmetic of a step that takes a token from the exact one.
LEMMA ShiftToken ==
    \A a, b \in Int, h, t, y, z \in Nat :
        a <= b + t /\ h + (y + t) <= a + z => h + y <= b + z
OBVIOUS

\* A step without a reset that makes no stray, and gives the bucket no more than it
\* gives the exact one.
LEMMA QuotaKept ==
    ASSUME BucketInv, BucketInv', QuotaInv, resets' = resets, Strays' \subseteq Strays,
           SweepFills => Held' - ideal' <= Held - ideal
    PROVE  QuotaInv'
<1>1. resets' = 0 => Strays' = {}
  BY Zenon DEF QuotaInv
<1>2. /\ Cardinality(Strays) \in Nat /\ Cardinality(Strays') \in Nat
      /\ Cardinality(Strays') <= Cardinality(Strays)
  BY Zenon, StraysFinite, FS_Subset, FS_CardinalityType
<1>3. PICK x, y \in Nat : x = Cardinality(Strays) * Token /\ y = Cardinality(Strays') * Token /\ y <= x
  BY Zenon, <1>2, TokenNat, ProductNat, TimesMonotone
<1>0. y <= x
  BY Zenon, <1>3
<1>4. PICK z \in Nat : z = resets * PerReset
  BY Zenon, StraysCovered DEF QuotaInv
<1>5. Held \in Nat /\ Held' \in Nat /\ ideal \in Int /\ ideal' \in Int
  BY Zenon, HeldTerms, HeldNext DEF BucketInv
<1>6. SweepFills => Held' + y <= ideal' + z
  <2>1. SweepFills => Held + x <= ideal + z
    BY Zenon, <1>3, <1>4 DEF QuotaInv
  <2>2. x \in Nat /\ y \in Nat /\ z \in Nat
    OBVIOUS
  <2> QED
    BY Zenon, <1>0, <1>5, <2>1, <2>2, ShiftBoth
<1>7. SweepFills' => SweepFills
  BY Zenon DEF SweepFills, Full, MaxTokens, RefillRate
<1>8. SweepFills' => Held' + Cardinality(Strays') * Token <= ideal' + resets' * PerReset
  BY Zenon, <1>3, <1>4, <1>6, <1>7
<1> QED
  BY Zenon, <1>1, <1>8 DEF QuotaInv, PerReset, Token, Full, MaxTokens

\* A handler charges the bucket that is there.
LEMMA QuotaAllow ==
    ASSUME BucketInv, QuotaInv, NEW admitted \in BOOLEAN, AllowRequest(admitted), Strays' \subseteq Strays
    PROVE  QuotaInv'
BY Zenon, AllowEffect, QuotaKept

\* A stray charges a bucket that is not there any more.
LEMMA QuotaRemoved ==
    ASSUME BucketInv, QuotaInv, NEW admitted \in BOOLEAN, AllowRemoved(admitted),
           NEW h \in Strays, Strays' = Strays \ {h}
    PROVE  QuotaInv'
<1>1. /\ BucketInv' /\ resets' = resets /\ Held' = Held
      /\ ideal' <= ideal /\ ideal <= ideal' + Token
  BY Zenon, RemovedEffect
<1>2. resets' = 0 => Strays' = {}
  BY Zenon, <1>1 DEF QuotaInv
<1>3. Cardinality(Strays') = Cardinality(Strays) - 1 /\ Cardinality(Strays) \in Nat
  BY Zenon, StraysFinite, FS_RemoveElement
<1>4. PICK k \in Nat : Cardinality(Strays') = k /\ Cardinality(Strays) = k + 1
  <2>1. Cardinality(Strays') \in Nat
    <3>1. IsFiniteSet(Strays')
      BY Zenon, StraysFinite, FS_Subset
    <3> QED
      BY Zenon, <3>1, FS_CardinalityType
  <2> QED
    BY <1>3, <2>1
<1>5. (k + 1) * Token = k * Token + 1 * Token /\ 1 * Token = Token /\ k * Token \in Nat
  BY TokenNat, Distribute, ProductNat
<1>6. PICK y \in Nat : y = Cardinality(Strays') * Token /\ Cardinality(Strays) * Token = y + Token
  BY Zenon, <1>4, <1>5
<1>7. PICK z \in Nat : z = resets * PerReset
  BY Zenon, StraysCovered DEF QuotaInv
<1>8. SweepFills => Held' + y <= ideal' + z
  <2>1. SweepFills => Held + (y + Token) <= ideal + z
    BY Zenon, <1>6, <1>7 DEF QuotaInv
  <2>2. Held \in Nat /\ ideal \in Int /\ ideal' \in Int
    BY Zenon, <1>1, HeldTerms DEF BucketInv
  <2>3. y \in Nat /\ z \in Nat
    OBVIOUS
  <2> QED
    BY Zenon, <1>1, <2>1, <2>2, <2>3, TokenNat, ShiftToken
<1>9. SweepFills' => SweepFills
  BY Zenon DEF SweepFills, Full, MaxTokens, RefillRate
<1>10. SweepFills' => Held' + Cardinality(Strays') * Token <= ideal' + resets' * PerReset
  BY Zenon, <1>1, <1>6, <1>7, <1>8, <1>9
<1> QED
  BY Zenon, <1>2, <1>10 DEF QuotaInv, PerReset, Token, Full, MaxTokens

\* A reset adds a burst, and every handler may become a stray by it.
LEMMA QuotaReset ==
    ASSUME BucketInv, QuotaInv, ResetBucket
    PROVE  QuotaInv'
<1>1. BucketInv' /\ Held' = Full /\ ideal' = ideal /\ resets' = resets + 1
  BY Zenon, ResetEffect
<1>2. resets' # 0 /\ resets \in Nat
  BY <1>1 DEF BucketInv
<1>3. PICK y \in Nat : y = Cardinality(Strays') * Token /\ Full + y <= PerReset
  <2>1. /\ Cardinality(Strays') \in Nat /\ Cardinality(Handlers) \in Nat
        /\ Cardinality(Strays') <= Cardinality(Handlers)
    <3>1. IsFiniteSet(Handlers) /\ Strays' \subseteq Handlers
      BY IngestAssumption DEF Strays
    <3> QED
      BY Zenon, <3>1, FS_Subset, FS_CardinalityType
  <2>2. /\ Cardinality(Strays') * Token \in Nat /\ Cardinality(Handlers) * Token \in Nat
        /\ Cardinality(Strays') * Token <= Cardinality(Handlers) * Token
    BY Zenon, <2>1, TokenNat, ProductNat, TimesMonotone
  <2>3. Full + Cardinality(Strays') * Token <= PerReset
    BY <2>2, TokenNat DEF PerReset
  <2> QED
    BY Zenon, <2>2, <2>3
<1>4. PICK z \in Nat : z = resets * PerReset
  BY Zenon, StraysCovered DEF QuotaInv
<1>5. resets' * PerReset = z + PerReset
  <2>1. (resets + 1) * PerReset = resets * PerReset + 1 * PerReset /\ 1 * PerReset = PerReset
    BY <1>2, QuotaSizes, Distribute
  <2> QED
    BY Zenon, <1>1, <1>4, <2>1
<1>6. SweepFills => Held' + y <= ideal' + (z + PerReset)
  <2>1. PICK x \in Nat : x = Cardinality(Strays) * Token
    BY Zenon, QuotaSizes
  <2>2. SweepFills => Held + x <= ideal + z
    BY Zenon, <1>4, <2>1 DEF QuotaInv
  <2>3. Held \in Nat /\ ideal \in Int /\ PerReset \in Nat
    BY Zenon, HeldTerms, QuotaSizes DEF BucketInv
  <2> QED
    BY <1>1, <1>3, <1>4, <2>1, <2>2, <2>3, TokenNat
<1>7. SweepFills' => SweepFills
  BY Zenon DEF SweepFills, Full, MaxTokens, RefillRate
<1>8. SweepFills' => Held' + Cardinality(Strays') * Token <= ideal' + resets' * PerReset
  BY Zenon, <1>3, <1>5, <1>6, <1>7
<1> QED
  BY Zenon, <1>2, <1>8 DEF QuotaInv, PerReset, Token, Full, MaxTokens

\* A tick adds no more to the bucket than to the exact one, which may be full.
LEMMA QuotaTick ==
    ASSUME BucketInv, QuotaInv, BucketTick, Strays' = Strays
    PROVE  QuotaInv'
<1>1. /\ BucketInv' /\ resets' = resets
      /\ Held' \in Nat /\ Held' <= Full /\ Held' <= Held + RefillRate
      /\ ideal' = Least(Full, ideal + RefillRate)
  BY Zenon, TickEffect
<1>2. resets' = 0 => Strays' = {}
  BY Zenon, <1>1 DEF QuotaInv
<1>3. PICK x, z \in Nat : x = Cardinality(Strays) * Token /\ z = resets * PerReset /\ x <= z
  BY Zenon, QuotaSizes, StraysCovered DEF QuotaInv
<1>4. SweepFills => Held' + x <= ideal' + z
  <2>1. SweepFills => Held + x <= ideal + z
    BY Zenon, <1>3 DEF QuotaInv
  <2>2. Held \in Nat /\ ideal \in Int /\ RefillRate \in Nat /\ Full \in Nat
    BY HeldTerms, Sizes DEF BucketInv
  <2> QED
    BY <1>1, <1>3, <2>1, <2>2 DEF Least
<1>5. SweepFills' => SweepFills
  BY Zenon DEF SweepFills, Full, MaxTokens, RefillRate
<1>6. SweepFills' => Held' + Cardinality(Strays') * Token <= ideal' + resets' * PerReset
  BY Zenon, <1>1, <1>3, <1>4, <1>5
<1> QED
  BY Zenon, <1>2, <1>6 DEF QuotaInv, PerReset, Token, Full, MaxTokens

\* Every step preserves the invariant of the quota.
LEMMA QuotaInductive == AdmissionInv /\ BucketInv /\ QuotaInv /\ [Next]_vars => QuotaInv'
<1> SUFFICES ASSUME AdmissionInv, BucketInv, QuotaInv, [Next]_vars PROVE QuotaInv'
  OBVIOUS
<1>0. handler \in [Handlers -> HandlerRecord] /\ BucketInv'
  BY Zenon, BucketInductive, BucketSteps DEF AdmissionInv, AdmissionTypes
<1>1. ASSUME UNCHANGED bucketVars, Strays' \subseteq Strays PROVE QuotaInv'
  <2>1. Held' = Held /\ ideal' = ideal /\ resets' = resets
    BY Zenon, <1>1 DEF bucketVars, Held, Full, MaxTokens, RefillRate
  <2>2. Held' - ideal' <= Held - ideal
    <3>1. Held \in Nat /\ ideal \in Int
      BY Zenon, HeldTerms DEF BucketInv
    <3> QED
      BY <2>1, <3>1
  <2> QED
    BY Zenon, <1>0, <1>1, <2>1, <2>2, QuotaKept
<1>2. ASSUME NEW h \in Handlers, NEW rec, rec.pc # "stray", handler' = [handler EXCEPT ![h] = rec]
      PROVE  Strays' = Strays \ {h}
  <2>1. handler'[h] = rec /\ \A g \in Handlers : g # h => handler'[g] = handler[g]
    BY Zenon, <1>0, <1>2
  <2> QED
    BY Zenon, <1>2, <2>1 DEF Strays
<1>3. ASSUME NEW h \in Handlers, NEW pc, pc # "stray", Goto(h, pc) PROVE Strays' = Strays \ {h}
  <2>1. handler' = [handler EXCEPT ![h] = [handler[h] EXCEPT !.pc = pc]]
    BY Zenon, <1>3 DEF Goto
  <2>2. [handler[h] EXCEPT !.pc = pc].pc = pc
    BY Zenon, <1>0 DEF HandlerRecord
  <2> QED
    BY Zenon, <1>2, <1>3, <2>1, <2>2
<1>4. ASSUME NEW h \in Handlers, Done(h) PROVE Strays' = Strays \ {h}
  <2>1. NoHandler.pc # "stray"
    BY DEF NoHandler
  <2> QED
    BY Zenon, <1>2, <1>4, <2>1 DEF Done
<1>5. ASSUME NEW h \in Handlers, RateLimitAllow(h) PROVE QuotaInv'
  <2>1. PICK admitted \in BOOLEAN :
          /\ AllowRequest(admitted) \/ (handler[h].pc = "stray" /\ AllowRemoved(admitted))
          /\ Done(h) \/ Goto(h, "insert")
    BY Zenon, <1>5 DEF RateLimitAllow
  <2>2. Strays' = Strays \ {h}
    BY Zenon, <1>3, <1>4, <2>1
  <2>3. CASE AllowRequest(admitted)
    BY Zenon, <2>2, <2>3, QuotaAllow
  <2>4. CASE handler[h].pc = "stray" /\ AllowRemoved(admitted)
    <3>1. h \in Strays
      BY Zenon, <2>4 DEF Strays
    <3> QED
      BY Zenon, <2>2, <2>4, <3>1, QuotaRemoved
  <2> QED
    BY Zenon, <2>1, <2>3, <2>4
<1>6. ASSUME NEW h \in Handlers, verifyIngest(h) \/ IngestPending(h) PROVE QuotaInv'
  <2>1. UNCHANGED bucketVars /\ (Done(h) \/ Goto(h, "charge"))
    BY Zenon, <1>6 DEF verifyIngest, IngestPending
  <2>2. Strays' = Strays \ {h}
    BY Zenon, <1>3, <1>4, <2>1
  <2> QED
    BY Zenon, <1>1, <2>1, <2>2
<1>7. ASSUME NEW h \in Handlers, NEW q \in Requests, Arrive(h, q) PROVE QuotaInv'
  <2> DEFINE rec == [pc |-> "verify", req |-> q, secret |-> version, left |-> HandlingTime]
  <2>1. rec.pc # "stray"
    OBVIOUS
  <2>2. handler' = [handler EXCEPT ![h] = rec] /\ UNCHANGED bucketVars
    BY Zenon, <1>7 DEF Arrive
  <2> HIDE DEF rec
  <2>3. Strays' = Strays \ {h}
    BY Zenon, <1>2, <2>1, <2>2
  <2> QED
    BY Zenon, <1>1, <2>2, <2>3
<1>8. ASSUME UNCHANGED <<bucketVars, handler>> PROVE QuotaInv'
  BY Zenon, <1>1, <1>8 DEF Strays
<1>9. ASSUME (\E q \in Requests : Sign(q)) \/ RotateSecret \/ PruneIdempotency \/ UNCHANGED vars
      PROVE  QuotaInv'
  BY Zenon, <1>8, <1>9 DEF Sign, RotateSecret, PruneIdempotency, vars, ingestVars
<1>10. CASE Sweep
  <2>1. SweepBucket /\ Strays' = Strays
    BY Zenon, <1>10 DEF Sweep, ingestVars, Strays
  <2>2. /\ Held' = Full /\ ideal' = ideal /\ resets' = resets
        /\ SweepFills => Held = Full
    BY Zenon, <2>1, SweepEffect
  <2>3. SweepFills => Held' - ideal' <= Held - ideal
    <3>1. Held \in Nat /\ ideal \in Int
      BY Zenon, HeldTerms DEF BucketInv
    <3> QED
      BY <2>2, <3>1
  <2> QED
    BY Zenon, <1>0, <2>1, <2>2, <2>3, QuotaKept
<1>11. CASE ResetRuntime
  BY Zenon, <1>11, QuotaReset DEF ResetRuntime
<1>12. CASE Tick
  <2>1. \A h \in Handlers : handler'[h].pc = handler[h].pc
    <3> SUFFICES ASSUME NEW h \in Handlers PROVE handler'[h].pc = handler[h].pc
      BY Zenon
    <3>1. handler'[h] = handler[h] \/ handler'[h] = [handler[h] EXCEPT !.left = @ - 1]
      BY Zenon, <1>12 DEF Tick
    <3>2. handler[h] \in HandlerRecord
      BY Zenon, <1>0
    <3> QED
      BY Zenon, <3>1, <3>2 DEF HandlerRecord
  <2>2. Strays' = Strays
    BY Zenon, <2>1 DEF Strays
  <2> QED
    BY Zenon, <1>12, <2>2, QuotaTick DEF Tick
<1> QED
  BY Zenon, <1>5, <1>6, <1>7, <1>9, <1>10, <1>11, <1>12 DEF Next

\* TokenBucket.Allow admits no more than the exact rate and burst, but for a burst
\* and a request per handler for each time resetRuntime removed the bucket, for every
\* rate, burst, scale and pattern of requests, sweeps and resets.
THEOREM QuotaTheorem == Spec => []OverIdealOnlyByResets
<1>1. BucketInv /\ QuotaInv => OverIdealOnlyByResets
  <2> SUFFICES ASSUME BucketInv, QuotaInv, SweepFills
               PROVE  Held <= ideal + resets * PerReset
    BY Zenon DEF OverIdealOnlyByResets, PerReset
  <2>1. PICK x, z \in Nat : x = Cardinality(Strays) * Token /\ z = resets * PerReset
    BY Zenon, QuotaSizes, StraysCovered DEF QuotaInv
  <2>2. Held + x <= ideal + z
    BY Zenon, <2>1 DEF QuotaInv
  <2>3. Held \in Nat /\ ideal \in Int
    BY Zenon, HeldTerms DEF BucketInv
  <2>4. Held <= ideal + z
    BY <2>1, <2>2, <2>3
  <2> QED
    BY Zenon, <2>1, <2>4
<1> QED
  BY <1>1, QuotaStart, QuotaInductive, AdmissionInvariant, BucketInvariant, PTL DEF Spec
=============================================================================
