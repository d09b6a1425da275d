----------------------------- MODULE TokenBucket -----------------------------
(***************************************************************************)
(* A subscription's rate limit: ratelimit.TokenBucket and the registry     *)
(* entry that holds it, beside the exact bucket it stands for.             *)
(*                                                                         *)
(* Tokens are counted in units of 1/Scale, as the code does; the exact     *)
(* bucket in 1/TicksPerSecond of a unit, which loses nothing.  Allow runs  *)
(* under the bucket's lock; it is one step with the registry's Get before  *)
(* it, but for a reset that comes in between.                              *)
(***************************************************************************)
EXTENDS Integers

CONSTANTS
    RatePerSec,       \* RATE_LIMIT_PER_SEC
    Burst,            \* RATE_LIMIT_BURST
    Scale,            \* scale
    TicksPerSecond,   \* resolution of the clock
    RegistryIdleTTL,  \* REGISTRY_IDLE_TTL, in ticks
    MaxResets         \* bound: resets of the subscription's runtime state

ASSUME BucketAssumption ==
    /\ RatePerSec \in Nat \ {0} /\ Burst \in Nat \ {0} /\ Scale \in Nat \ {0}
    /\ TicksPerSecond \in Nat \ {0} /\ RegistryIdleTTL \in Nat \ {0}
    /\ MaxResets \in Nat

VARIABLES
    bucket,  \* tokens, and ticks since lastRefill (which is also lastUsed)
    ideal,   \* history: the exact bucket, never swept and never reset
    resets   \* history: how often the bucket was reset

bucketVars == <<bucket, ideal, resets>>

MaxTokens == Burst * Scale

RefillRate == RatePerSec * Scale

Least(a, b) == IF a < b THEN a ELSE b

\* What the exact bucket holds when full, and what a request takes from it.
Full == MaxTokens * TicksPerSecond

Token == Scale * TicksPerSecond

\* lastRefill matters up to this age: by then the bucket is full and may be swept.
Horizon == RegistryIdleTTL + Full \div RefillRate + 1

\* No entry in the registry is the same as a full bucket: Get would make one.
NewTokenBucket == [tokens |-> MaxTokens, elapsed |-> 0]

\* More than the exact bucket holds can be admitted after a reset.
BucketTypeOK ==
    /\ bucket \in [tokens: 0..MaxTokens, elapsed: 0..Horizon]
    /\ ideal \in Int /\ ideal <= Full
    /\ resets \in 0..MaxResets

BucketInit == bucket = NewTokenBucket /\ ideal = Full /\ resets = 0

-----------------------------------------------------------------------------

\* Mutant: the product is rounded up.
refillUp(b) == {Least(MaxTokens, b.tokens + (b.elapsed * RefillRate) \div TicksPerSecond + 1)}

\* Mutant: only whole seconds count.
refillWholeSeconds(b) == {Least(MaxTokens, b.tokens + (b.elapsed \div TicksPerSecond) * RefillRate)}

\* What int64(elapsed*float64(refillRate)) can be.  The conversion drops the
\* fraction, and lastRefill moves to now all the same.  A product that is whole can
\* come out just below, and loses a unit; it cannot reach the next whole number
\* while 3 * MaxTokens * 10^9 < 2^53 (times are in nanoseconds, and more than
\* MaxTokens is cut off).
added(b) ==
    LET exact == b.elapsed * RefillRate
        down == exact \div TicksPerSecond
    IN  {down} \cup {n \in {down - 1} : exact = down * TicksPerSecond /\ n >= 0}

\* The tokens after a refill.
refill(b) == {Least(MaxTokens, b.tokens + n) : n \in added(b)}

\* Allow, with what it answers.
AllowRequest(admitted) ==
    \E tokens \in refill(bucket) :
        /\ admitted = (tokens >= Scale)
        /\ bucket' = [tokens |-> tokens - (IF admitted THEN Scale ELSE 0), elapsed |-> 0]
        /\ ideal' = ideal - (IF admitted THEN Token ELSE 0)
        /\ UNCHANGED resets

\* Allow on a bucket that was removed after Get had found it.  What such a bucket
\* still holds is not followed: it may answer either.
AllowRemoved(admitted) ==
    /\ ideal' = ideal - (IF admitted THEN Token ELSE 0)
    /\ UNCHANGED <<bucket, resets>>

\* Registry.Sweep: the next Get finds no entry.
SweepBucket ==
    /\ bucket.elapsed > RegistryIdleTTL
    /\ bucket' = NewTokenBucket
    /\ UNCHANGED <<ideal, resets>>

\* resetRuntime, after an automatic disablement or a deletion: the next Get finds
\* no entry, however young the last one was.
ResetBucket ==
    /\ resets < MaxResets
    /\ bucket' = NewTokenBucket
    /\ resets' = resets + 1
    /\ UNCHANGED ideal

BucketTick ==
    /\ bucket' = [bucket EXCEPT !.elapsed = Least(Horizon, @ + 1)]
    /\ ideal' = Least(Full, ideal + RefillRate)
    /\ UNCHANGED resets

BucketNext ==
    \/ \E admitted \in BOOLEAN : AllowRequest(admitted) \/ AllowRemoved(admitted)
    \/ SweepBucket
    \/ ResetBucket
    \/ BucketTick

BucketSpec == BucketInit /\ [][BucketNext]_bucketVars

-----------------------------------------------------------------------------

\* What the bucket would hold if it were refilled now, exactly.
Held == Least(Full, bucket.tokens * TicksPerSecond + bucket.elapsed * RefillRate)

\* The idle time after which an entry is swept fills a bucket.
SweepFills == RegistryIdleTTL * RefillRate >= Full

\* What a step takes from the exact bucket.
Taken == IF ideal' < ideal THEN ideal - ideal' ELSE 0

\* No step costs a bucket more than the token it admits a request for and one unit,
\* which rounding may lose.
LossBounded == [][Held - Held' <= Taken + TicksPerSecond]_bucketVars
=============================================================================
