---------------------------- MODULE TimingProofs ----------------------------
(***************************************************************************)
(* What is proved about time, for any numbers of goroutines, any delays    *)
(* and any timeouts.                                                       *)
(*                                                                         *)
(* RetryTiming: retryDelay computes the delay it documents; from its       *)
(* bounds follows how far apart attempts are.  No row is lost between the  *)
(* commit of its due time and the indexes but by a call that fails.  The   *)
(* visibility lease keeps the requests of a webhook apart under any        *)
(* clocks, but for one more for every claim that outlives its lease.       *)
(*                                                                         *)
(* Lifecycle: the drain is bounded, and Run returns when all is over.  The *)
(* inductive invariant follows the pool's loop after the cancellation:     *)
(* until the loop has begun its last delivery, every delivery is one from  *)
(* before and ends DrainTimeout after the cancellation at the latest; from *)
(* then on the last one has DrainTimeout to go.                            *)
(***************************************************************************)
EXTENDS RetryTiming, Lifecycle, FiniteSetTheorems, WellFoundedInduction, TLAPS

\* A lease lasts at least a second.
LEMMA LeasePositive == Lease \in Nat \ {0}
<1> USE TimingAssumption
<1>1. \A a, b \in Nat \ {0} : a * b \in Nat \ {0}
  OBVIOUS
<1>2. VisibilityTimeout \div TicksPerSecond \in Int
  OBVIOUS
<1>3. Greatest(1, VisibilityTimeout \div TicksPerSecond) \in Nat \ {0}
  BY <1>2 DEF Greatest
<1> QED
  BY <1>1, <1>3 DEF Lease, secondsArg

-----------------------------------------------------------------------------
(* The schedule *)

\* A set of naturals has a least element.
LEMMA LeastElement ==
    ASSUME NEW T, T \subseteq Nat, T # {}
    PROVE  \E n \in T : \A m \in T : n <= m
<1>1. PICK n \in T : \A m \in T : ~(<<m, n>> \in OpToRel(<, Nat))
  BY Zenon, NatLessThanWellFounded, WFMin
<1>2. \A m \in T : ~(m < n)
  BY Zenon, <1>1 DEF OpToRel
<1> QED BY <1>2

\* A loop that starts from b and applies G at every turn has a value after each.
LEMMA LoopValues ==
    ASSUME NEW b \in Int, NEW G \in [Int -> Int], NEW M \in Nat
    PROVE  \E f \in [1..M -> Int] :
               \A a \in 1..M : f[a] = IF a = 1 THEN b ELSE G[f[a - 1]]
<1> DEFINE Good(n) == \E f \in [1..n -> Int] :
                          \A a \in 1..n : f[a] = IF a = 1 THEN b ELSE G[f[a - 1]]
            Bad == {n \in Nat : ~Good(n)}
<1>1. ASSUME Bad # {} PROVE FALSE
  <2>1. PICK n \in Bad : \A m \in Bad : n <= m
    <3> HIDE DEF Good
    <3> QED BY Zenon, <1>1, LeastElement
  <2>2. n # 0
    <3>1. [a \in 1..0 |-> b] \in [1..0 -> Int]
      OBVIOUS
    <3>2. \A a \in 1..0 : FALSE
      OBVIOUS
    <3>3. Good(0)
      BY Zenon, <3>1, <3>2
    <3> HIDE DEF Good
    <3> QED BY <3>3, <2>1
  <2>3. n - 1 \in Nat /\ Good(n - 1)
    <3>1. n \in Nat /\ n - 1 \in Nat /\ ~(n <= n - 1)
      BY <2>1, <2>2
    <3> HIDE DEF Good
    <3> QED BY <2>1, <3>1
  <2>4. PICK f \in [1..(n - 1) -> Int] :
            \A a \in 1..(n - 1) : f[a] = IF a = 1 THEN b ELSE G[f[a - 1]]
    BY Zenon, <2>3
  <2> DEFINE v == IF n = 1 THEN b ELSE G[f[n - 1]]
             g == [a \in 1..n |-> IF a = n THEN v ELSE f[a]]
  <2>5. n \in Nat /\ n # 0 /\ (n # 1 => n - 1 \in 1..(n - 1)) /\ \A a \in 1..n : a # n => a \in 1..(n - 1)
    BY <2>1, <2>2
  <2>6. v \in Int
    BY <2>4, <2>5
  <2>7. g \in [1..n -> Int]
    <3> HIDE DEF v
    <3> QED BY ZenonT(40), <2>4, <2>5, <2>6
  <2>8. ASSUME NEW a \in 1..n PROVE g[a] = IF a = 1 THEN b ELSE G[g[a - 1]]
    <3>1. a # 1 => a - 1 \in 1..n /\ a - 1 # n
      BY <2>5
    <3>2. CASE a = n
      BY <2>5, <3>1, <3>2
    <3>3. CASE a # n
      <4>1. g[a] = f[a] /\ (a # 1 => g[a - 1] = f[a - 1])
        BY <3>1, <3>3
      <4> HIDE DEF g
      <4> QED BY Zenon, <2>4, <2>5, <3>3, <4>1
    <3> QED BY <3>2, <3>3
  <2>9. Good(n)
    <3> HIDE DEF g
    <3> QED BY Zenon, <2>7, <2>8
  <2> QED BY Zenon, <2>1, <2>9
<1> QED BY Zenon, <1>1

\* int64 arithmetic stays in int64.
LEMMA GrowIsInt == \A x \in Int : grow(x) \in Int /\ 3 * x \in Int
  BY TimingAssumption DEF grow, Wrap

\* The loop of retryDelay, turn by turn.
LEMMA BackoffLoop ==
    \A a \in 1..MaxRetryAttempts :
        backoff[a] = IF a = 1 THEN RetryBaseDelay ELSE grow(backoff[a - 1])
<1> DEFINE R == 1..MaxRetryAttempts
           G == [x \in Int |-> grow(x)]
<1>1. G \in [Int -> Int] /\ RetryBaseDelay \in Int /\ MaxRetryAttempts \in Nat
  BY GrowIsInt, TimingAssumption
<1>2. PICK f \in [R -> Int] : \A a \in R : f[a] = IF a = 1 THEN RetryBaseDelay ELSE G[f[a - 1]]
  <2> HIDE DEF G
  <2> QED BY Zenon, <1>1, LoopValues
<1>3. \A a \in R : a # 1 => a - 1 \in R
  BY <1>1
<1>4. f = [a \in R |-> IF a = 1 THEN RetryBaseDelay ELSE grow(f[a - 1])]
  BY Zenon, <1>2, <1>3
<1>5. backoff = [a \in R |-> IF a = 1 THEN RetryBaseDelay ELSE grow(backoff[a - 1])]
  BY Zenon, <1>4 DEF backoff
<1> QED BY Zenon, <1>5

\* The reference, turn by turn.
LEMMA TripledLoop ==
    \A a \in 1..MaxRetryAttempts :
        tripled[a] = IF a = 1 THEN RetryBaseDelay ELSE 3 * tripled[a - 1]
<1> DEFINE R == 1..MaxRetryAttempts
           G == [x \in Int |-> 3 * x]
<1>1. G \in [Int -> Int] /\ RetryBaseDelay \in Int /\ MaxRetryAttempts \in Nat
  BY TimingAssumption
<1>2. PICK f \in [R -> Int] : \A a \in R : f[a] = IF a = 1 THEN RetryBaseDelay ELSE G[f[a - 1]]
  <2> HIDE DEF G
  <2> QED BY Zenon, <1>1, LoopValues
<1>3. \A a \in R : a # 1 => a - 1 \in R
  BY <1>1
<1>4. f = [a \in R |-> IF a = 1 THEN RetryBaseDelay ELSE 3 * f[a - 1]]
  BY Zenon, <1>2, <1>3
<1>5. tripled = [a \in R |-> IF a = 1 THEN RetryBaseDelay ELSE 3 * tripled[a - 1]]
  BY Zenon, <1>4 DEF tripled
<1> QED BY Zenon, <1>5

\* One turn: the cap is applied before the multiplication could overflow.
LEMMA GrowCapped ==
    ASSUME NEW t \in Nat \ {0}
    PROVE  grow(Least(RetryMaxDelay, t)) = Least(RetryMaxDelay, 3 * t)
<1> DEFINE m == RetryMaxDelay
<1>0. m \in Nat /\ m # 0 /\ MaxInt \in Nat /\ m <= MaxInt
  BY TimingAssumption
<1>1. CASE t >= m
  BY <1>0, <1>1 DEF grow, Least
<1>2. CASE t < m /\ t > m \div 3
  <2>1. 3 * t > m
    BY <1>0, <1>2
  <2> QED BY <1>0, <1>2, <2>1 DEF grow, Least
<1>3. CASE t < m /\ t <= m \div 3
  <2>1. 3 * t <= m
    BY <1>0, <1>3
  <2> QED BY <1>0, <1>3, <2>1 DEF grow, Least, Wrap
<1> QED BY <1>0, <1>1, <1>2, <1>3

\* retryDelay's loop computes the capped tripling for every attempt and every
\* configuration of base and maximum: no turn overflows int64.
THEOREM BackoffIsNominal ==
    \A a \in 1..MaxRetryAttempts :
        backoff[a] = Nominal(a) /\ backoff[a] \in RetryBaseDelay..RetryMaxDelay
<1> DEFINE R == 1..MaxRetryAttempts
           Good(a) == tripled[a] \in Nat /\ tripled[a] >= RetryBaseDelay /\ backoff[a] = Nominal(a)
            Bad == {a \in R : ~Good(a)}
<1>0. /\ MaxRetryAttempts \in Nat /\ RetryBaseDelay \in Nat \ {0}
      /\ RetryMaxDelay \in Nat /\ RetryBaseDelay <= RetryMaxDelay
  BY TimingAssumption
<1>1. ASSUME Bad # {} PROVE FALSE
  <2>1. PICK a \in Bad : \A m \in Bad : a <= m
    <3>1. Bad \subseteq Nat
      BY <1>0
    <3> HIDE DEF Bad
    <3> QED BY Zenon, <1>1, <3>1, LeastElement
  <2>2. a \in R /\ a # 1
    <3>1. a = 1 => Good(a)
      BY <1>0, BackoffLoop, TripledLoop DEF Nominal, Least
    <3> HIDE DEF Good
    <3> QED BY ZenonT(40), <3>1
  <2>3. a - 1 \in R /\ ~(a <= a - 1)
    BY <1>0, <2>2
  <2>4. Good(a - 1)
    <3> HIDE DEF Good
    <3> QED BY <2>1, <2>3
  <2>5. PICK t : t = tripled[a - 1]
    OBVIOUS
  <2>6. t \in Nat \ {0} /\ t >= RetryBaseDelay /\ backoff[a - 1] = Least(RetryMaxDelay, t)
    BY <1>0, <2>4, <2>5 DEF Nominal
  <2>7. tripled[a] = 3 * t /\ backoff[a] = grow(Least(RetryMaxDelay, t))
    BY ZenonT(40), <2>2, <2>5, <2>6, BackoffLoop, TripledLoop
  <2>8. backoff[a] = Nominal(a)
    BY <2>6, <2>7, GrowCapped DEF Nominal
  <2> QED BY <1>0, <2>6, <2>7, <2>8
<1>2. \A a \in R : Good(a)
  <2> HIDE DEF Good
  <2> QED BY <1>1
<1> QED BY <1>0, <1>2 DEF Nominal, Least

\* The least delay before attempt a.
Low(a) == Nominal(a - 1) - Nominal(a - 1) \div 5

\* The types that the delays and the dates have.
WorkerRecord == [pc: {"idle"} \cup Placing \cup Claimed, attempt: Nat, used: Nat, at: Nat]

RowRecord == [attempt: 1..MaxRetryAttempts, due: Int, leased: BOOLEAN, done: BOOLEAN]

TimedTypes ==
    /\ skew \in -MaxSkew..MaxSkew
    /\ row \in RowRecord
    /\ zset \in Nat \cup {NoEntry} /\ queue \in Nat /\ since \in Nat /\ lost \in BOOLEAN
    /\ worker \in [Workers -> WorkerRecord]

\* A row that nobody leases is in an index, or with a worker that will look at it or
\* put it there, or due; or such a worker has given up.
Tracked ==
    row.done = FALSE /\ row.leased = FALSE /\ lost = FALSE =>
        \/ zset # NoEntry
        \/ queue > 0
        \/ row.due <= Greatest(0, skew)
        \/ \E w \in Workers : WillPlace(w)

\* No worker is ahead of the row.  The delay since the last failure is over, or
\* what is left of it is in the due time and nobody has claimed the row yet.
Spaced ==
    /\ \A w \in Workers : worker[w].attempt <= row.attempt
    /\ row.attempt > 1 =>
        \/ since >= Low(row.attempt) + skew
        \/ /\ row.due + since >= Low(row.attempt) + skew
           /\ \A w \in Workers : Busy(w) => worker[w].attempt < row.attempt

\* The inductive invariant of the schedule.
TimedInv == TimedTypes /\ Tracked /\ Spaced

\* The jitter takes at most a fifth.
LEMMA DelayBounds ==
    ASSUME NEW a \in 1..MaxRetryAttempts
    PROVE  /\ Low(a + 1) \in 0..RetryMaxDelay
           /\ \A d \in retryDelay(a) : d \in Nat /\ d >= Low(a + 1)
<1>1. PICK n : n = backoff[a]
  OBVIOUS
<1>2. n \in RetryBaseDelay..RetryMaxDelay /\ n = Nominal(a)
  BY <1>1, BackoffIsNominal
<1>3. n \in Nat \ {0} /\ n <= RetryMaxDelay /\ RetryMaxDelay \in Nat /\ n \div 5 \in Nat /\ n \div 5 <= n
  BY <1>2, TimingAssumption
<1>4. Low(a + 1) = n - n \div 5
  BY <1>2 DEF Low
<1>5. \A d \in retryDelay(a) : d = n \/ d \in (n - n \div 5)..(n + n \div 5 - 1)
  BY <1>1 DEF retryDelay
<1> QED BY <1>3, <1>4, <1>5

\* The far end of the count is past every delay.
LEMMA HorizonFar == Horizon \in Nat /\ Horizon >= RetryMaxDelay + MaxSkew
BY LeasePositive, TimingAssumption DEF Horizon, Greatest

\* The first row is due and in the queue.
LEMMA TimedStart == Init => TimedInv
<1> SUFFICES ASSUME Init PROVE TimedInv
  OBVIOUS
<1>1. TimedTypes
  <2>1. /\ skew \in -MaxSkew..MaxSkew /\ zset \in Nat \cup {NoEntry} /\ queue \in Nat
        /\ since \in Nat /\ lost \in BOOLEAN
    BY HorizonFar DEF Init
  <2>2. 1 \in 1..MaxRetryAttempts /\ 0 \in Int
    BY TimingAssumption
  <2>3. row \in RowRecord
    BY Zenon, <2>2 DEF Init, RowRecord
  <2>4. NoWork \in WorkerRecord
    BY DEF NoWork, WorkerRecord
  <2>5. worker \in [Workers -> WorkerRecord]
    BY Zenon, <2>4 DEF Init
  <2> QED BY Zenon, <2>1, <2>3, <2>5 DEF TimedTypes
<1>2. Tracked
  BY DEF Init, Tracked
<1>3. Spaced
  BY DEF Init, Spaced, NoWork
<1> QED BY ZenonT(40), <1>1, <1>2, <1>3 DEF TimedInv

\* A worker goes on to its next step.
LEMMA Moved ==
    ASSUME TimedTypes, NEW w \in Workers, NEW pc \in {"idle"} \cup Placing \cup Claimed, Goto(w, pc)
    PROVE  /\ worker' \in [Workers -> WorkerRecord]
           /\ worker'[w].pc = pc /\ worker'[w].attempt = worker[w].attempt
           /\ worker'[w].used = worker[w].used
           /\ \A v \in Workers : v # w => worker'[v] = worker[v]
<1>1. worker' = [worker EXCEPT ![w].pc = pc]
  BY Zenon DEF Goto
<1>2. worker'[w] = [worker[w] EXCEPT !.pc = pc] /\ \A v \in Workers : v # w => worker'[v] = worker[v]
  BY Zenon, <1>1 DEF TimedTypes
<1>3. worker[w] \in WorkerRecord
  BY Zenon DEF TimedTypes
<1>4. /\ worker'[w] \in WorkerRecord
      /\ worker'[w].pc = pc /\ worker'[w].attempt = worker[w].attempt /\ worker'[w].used = worker[w].used
  BY Zenon, <1>2, <1>3 DEF WorkerRecord
<1>5. worker' \in [Workers -> WorkerRecord]
  BY Zenon, <1>1, <1>2, <1>4 DEF TimedTypes
<1> QED BY Zenon, <1>2, <1>4, <1>5

\* A worker leaves the row.
LEMMA Left ==
    ASSUME TimedTypes, NEW w \in Workers, Leave(w)
    PROVE  /\ worker' \in [Workers -> WorkerRecord]
           /\ worker'[w].pc = "idle" /\ worker'[w].attempt = 0 /\ worker'[w].used = 0
           /\ \A v \in Workers : v # w => worker'[v] = worker[v]
<1>1. NoWork \in WorkerRecord /\ NoWork.pc = "idle" /\ NoWork.attempt = 0 /\ NoWork.used = 0
  BY DEF NoWork, WorkerRecord
<1>2. worker' = [worker EXCEPT ![w] = NoWork]
  BY Zenon DEF Leave
<1>3. worker'[w] = NoWork /\ \A v \in Workers : v # w => worker'[v] = worker[v]
  BY Zenon, <1>2 DEF TimedTypes
<1>4. worker' \in [Workers -> WorkerRecord]
  BY Zenon, <1>1, <1>2 DEF TimedTypes
<1> QED BY Zenon, <1>1, <1>3, <1>4

\* A worker has committed or read a due time that it will put into the schedule.
LEMMA GoesToSchedule ==
    ASSUME TimedTypes, NEW w \in Workers, NEW a \in Nat, NEW at \in Nat, ToSchedule(w, a, at)
    PROVE  /\ worker' \in [Workers -> WorkerRecord]
           /\ worker'[w].pc = "zadd" /\ worker'[w].attempt = a /\ worker'[w].used = 0
           /\ \A v \in Workers : v # w => worker'[v] = worker[v]
<1> DEFINE r == [pc |-> "zadd", attempt |-> a, used |-> 0, at |-> at]
<1>1. r \in WorkerRecord /\ r.pc = "zadd" /\ r.attempt = a /\ r.used = 0
  BY DEF WorkerRecord, Placing
<1>2. worker' = [worker EXCEPT ![w] = r]
  BY Zenon DEF ToSchedule
<1> HIDE DEF r
<1>3. worker'[w] = r /\ \A v \in Workers : v # w => worker'[v] = worker[v]
  BY Zenon, <1>2 DEF TimedTypes
<1>4. worker' \in [Workers -> WorkerRecord]
  BY Zenon, <1>1, <1>2 DEF TimedTypes
<1> QED BY Zenon, <1>1, <1>3, <1>4

\* A worker that moves without touching the row or the clock keeps the spacing, if
\* it is busy now only when it was busy before.
LEMMA SpacedKept ==
    ASSUME TimedInv, NEW w \in Workers,
           row'.attempt = row.attempt, row'.due = row.due,
           UNCHANGED <<skew, since>>,
           \A v \in Workers : v # w => worker'[v] = worker[v],
           \/ worker'[w].attempt = worker[w].attempt /\ (Busy(w)' => Busy(w))
           \/ worker'[w].attempt <= row.attempt /\ ~Busy(w)'
    PROVE  Spaced'
<1>1. \A v \in Workers : worker'[v].attempt <= row'.attempt
  BY ZenonT(40) DEF TimedInv, Spaced
<1>2. \A v \in Workers : Busy(v)' => Busy(v) /\ worker'[v].attempt = worker[v].attempt
  BY ZenonT(40) DEF Busy
<1>3. Low(row'.attempt) = Low(row.attempt)
  OBVIOUS
<1> QED BY ZenonT(40), <1>1, <1>2, <1>3 DEF TimedInv, Spaced, Low, Nominal

\* The others go on with the row.
LEMMA OthersPlace ==
    ASSUME NEW w \in Workers, row'.attempt = row.attempt,
           \A v \in Workers : v # w => worker'[v] = worker[v]
    PROVE  \A v \in Workers : v # w /\ WillPlace(v) => WillPlace(v)'
BY ZenonT(40) DEF WillPlace

\* The poller and the scan only add to the queue.
LEMMA TimedIndex ==
    ASSUME TimedInv, ClaimDue \/ FindDuePending
    PROVE  TimedInv'
<1>1. /\ UNCHANGED <<skew, row, worker, since, lost>>
      /\ queue' = queue + 1 /\ (zset' = zset \/ zset' = NoEntry)
  BY Zenon DEF ClaimDue, FindDuePending
<1>2. TimedTypes'
  BY <1>1 DEF TimedInv, TimedTypes
<1>3. queue' > 0
  BY <1>1 DEF TimedInv, TimedTypes
<1>4. Tracked'
  BY Zenon, <1>3 DEF Tracked
<1>5. Spaced'
  BY Zenon, <1>1 DEF TimedInv, Spaced, Busy, Low, Nominal
<1> QED BY ZenonT(40), <1>2, <1>4, <1>5 DEF TimedInv

\* A worker that takes an id off the queue will look at the row.
LEMMA TimedDequeue ==
    ASSUME TimedInv, NEW w \in Workers, Dequeue(w)
    PROVE  TimedInv'
<1> DEFINE r == [NoWork EXCEPT !.pc = "claim", !.attempt = row.attempt]
<1>0. row.attempt \in Nat /\ row.attempt <= row.attempt
  BY TimingAssumption DEF TimedInv, TimedTypes, RowRecord
<1>1. r \in WorkerRecord /\ r.pc = "claim" /\ r.attempt = row.attempt
  BY <1>0 DEF NoWork, WorkerRecord, Placing
<1>2. worker' = [worker EXCEPT ![w] = r] /\ UNCHANGED <<skew, row, zset, since, lost>> /\ queue' = queue - 1 /\ queue > 0
  BY Zenon DEF Dequeue
<1> HIDE DEF r
<1>3. /\ worker' \in [Workers -> WorkerRecord] /\ worker'[w] = r
      /\ \A v \in Workers : v # w => worker'[v] = worker[v]
  BY Zenon, <1>1, <1>2 DEF TimedInv, TimedTypes
<1>4. TimedTypes'
  <2>1. queue' \in Nat
    BY <1>2 DEF TimedInv, TimedTypes
  <2> QED BY Zenon, <1>2, <1>3, <2>1 DEF TimedInv, TimedTypes
<1>5. Tracked'
  <2>1. WillPlace(w)'
    BY Zenon, <1>1, <1>2, <1>3 DEF WillPlace, Placing
  <2> QED BY Zenon, <2>1 DEF Tracked
<1>6. worker'[w].attempt <= row.attempt /\ ~Busy(w)'
  BY Zenon, <1>0, <1>1, <1>3 DEF Busy, Claimed
<1>7. Spaced'
  BY Zenon, <1>2, <1>3, <1>6, SpacedKept
<1> QED BY ZenonT(40), <1>4, <1>5, <1>7 DEF TimedInv

\* The claim of a row that is due.
LEMMA ClaimTakes ==
    ASSUME TimedTypes, NEW w \in Workers, ClaimPending(w), Pending(w) /\ row.due <= 0
    PROVE  /\ row' \in RowRecord /\ row'.attempt = row.attempt /\ row'.leased = TRUE /\ row'.due = Lease
           /\ lost' = FALSE /\ Goto(w, "ready")
<1>1. /\ row' = [row EXCEPT !.due = Lease, !.leased = TRUE]
      /\ lost' = FALSE /\ Goto(w, "ready")
  BY Zenon DEF ClaimPending
<1>2. Lease \in Int
  BY LeasePositive
<1>3. row' \in RowRecord /\ row'.attempt = row.attempt /\ row'.leased = TRUE /\ row'.due = Lease
  BY Zenon, <1>1, <1>2 DEF TimedTypes, RowRecord
<1> QED BY Zenon, <1>1, <1>3

\* A claim needs the row to be due, and by then the delay is over; a worker that
\* is refused will look at the row again.
LEMMA TimedClaim ==
    ASSUME TimedInv, NEW w \in Workers, ClaimPending(w)
    PROVE  TimedInv'
<1> USE DEF TimedInv
<1>0. /\ row.attempt \in 1..MaxRetryAttempts /\ row.due \in Int /\ skew \in Int /\ since \in Nat
      /\ MaxSkew \in Nat /\ MaxRetryAttempts \in Nat
  BY TimingAssumption DEF TimedTypes, RowRecord
<1>1. UNCHANGED <<skew, phase, zset, queue, since, overruns>> /\ worker[w].pc = "claim"
  BY Zenon DEF ClaimPending
<1>2. CASE Pending(w) /\ row.due <= 0
  <2>1. /\ row' \in RowRecord /\ row'.attempt = row.attempt /\ row'.leased = TRUE
        /\ lost' = FALSE /\ Goto(w, "ready")
    BY Zenon, <1>2, ClaimTakes
  <2>2. /\ worker' \in [Workers -> WorkerRecord]
        /\ \A v \in Workers : worker'[v].attempt = worker[v].attempt
    <3>1. "ready" \in {"idle"} \cup Placing \cup Claimed
      BY Zenon DEF Claimed
    <3> QED BY ZenonT(40), <2>1, <3>1, Moved
  <2>3. TimedTypes'
    BY Zenon, <1>1, <2>1, <2>2 DEF TimedTypes
  <2>4. Tracked'
    BY Zenon, <2>1 DEF Tracked
  <2>5. row.attempt > 1 => since >= Low(row.attempt) + skew
    <3> SUFFICES ASSUME row.attempt > 1 PROVE since >= Low(row.attempt) + skew
      OBVIOUS
    <3>1. Low(row.attempt) \in Int
      <4>1. row.attempt - 1 \in 1..MaxRetryAttempts /\ (row.attempt - 1) + 1 = row.attempt
        BY <1>0
      <4>2. Low((row.attempt - 1) + 1) \in 0..RetryMaxDelay
        BY <4>1, DelayBounds
      <4> QED BY <4>1, <4>2, TimingAssumption
    <3> QED BY <1>0, <1>2, <3>1 DEF Spaced
  <2>6. Spaced'
    BY ZenonT(40), <1>1, <2>1, <2>2, <2>5 DEF Spaced, Low, Nominal
  <2> QED BY Zenon, <2>3, <2>4, <2>6
<1>3. CASE ~(Pending(w) /\ row.due <= 0)
  <2>1. row' = row /\ lost' = lost /\ Goto(w, "reread")
    BY Zenon, <1>3 DEF ClaimPending
  <2>2. /\ worker' \in [Workers -> WorkerRecord]
        /\ worker'[w].pc = "reread" /\ worker'[w].attempt = worker[w].attempt
        /\ \A v \in Workers : v # w => worker'[v] = worker[v]
    <3>1. "reread" \in {"idle"} \cup Placing \cup Claimed
      BY Zenon DEF Placing
    <3> QED BY ZenonT(40), <2>1, <3>1, Moved
  <2>3. TimedTypes'
    BY Zenon, <1>1, <2>1, <2>2 DEF TimedTypes
  <2>4. \A v \in Workers : WillPlace(v) => WillPlace(v)'
    BY ZenonT(40), <2>1, <2>2 DEF WillPlace, Placing
  <2>5. Tracked'
    BY ZenonT(40), <1>1, <2>1, <2>4 DEF Tracked
  <2>6. ~Busy(w)'
    BY Zenon, <2>2 DEF Busy, Claimed
  <2>7. Spaced'
    BY ZenonT(40), <1>1, <2>1, <2>2, <2>6, SpacedKept
  <2> QED BY Zenon, <2>3, <2>5, <2>7
<1> QED BY Zenon, <1>2, <1>3

\* A refused row that is still in the future on the process's clock is on its way
\* back to the schedule; otherwise it is due within the skew.
LEMMA TimedReread ==
    ASSUME TimedInv, NEW w \in Workers, rescheduleIfNotDue(w)
    PROVE  TimedInv'
<1> USE DEF TimedInv
<1>1. UNCHANGED <<skew, phase, row, zset, queue, since, lost, overruns>>
  BY Zenon DEF rescheduleIfNotDue
<1>2. row.due \in Int /\ skew \in Int /\ row.attempt \in Nat /\ 0 <= row.attempt /\ row.attempt <= row.attempt
  BY TimingAssumption DEF TimedTypes, RowRecord
<1>3. CASE Pending(w) /\ row.due > skew
  <2>1. ToSchedule(w, row.attempt, row.due - skew)
    BY Zenon, <1>3 DEF rescheduleIfNotDue
  <2>2. row.due - skew \in Nat
    BY <1>2, <1>3
  <2>3. /\ worker' \in [Workers -> WorkerRecord]
        /\ worker'[w].pc = "zadd" /\ worker'[w].attempt = row.attempt
        /\ \A v \in Workers : v # w => worker'[v] = worker[v]
    BY Zenon, <1>2, <2>1, <2>2, GoesToSchedule
  <2>4. TimedTypes'
    BY Zenon, <1>1, <2>3 DEF TimedTypes
  <2>5. WillPlace(w)'
    BY Zenon, <1>1, <2>3 DEF WillPlace, Placing
  <2>6. Tracked'
    BY Zenon, <2>5 DEF Tracked
  <2>7. worker'[w].attempt <= row.attempt /\ ~Busy(w)'
    BY Zenon, <1>2, <2>3 DEF Busy, Claimed
  <2>8. Spaced'
    BY Zenon, <1>1, <2>3, <2>7, SpacedKept
  <2> QED BY Zenon, <2>4, <2>6, <2>8
<1>4. CASE ~(Pending(w) /\ row.due > skew)
  <2>1. Leave(w)
    BY Zenon, <1>4 DEF rescheduleIfNotDue
  <2>2. /\ worker' \in [Workers -> WorkerRecord]
        /\ worker'[w].pc = "idle" /\ worker'[w].attempt = 0
        /\ \A v \in Workers : v # w => worker'[v] = worker[v]
    BY Zenon, <2>1, Left
  <2>3. TimedTypes'
    BY Zenon, <1>1, <2>2 DEF TimedTypes
  <2>4. Tracked'
    <3> SUFFICES ASSUME row.done = FALSE, row.leased = FALSE, lost = FALSE, zset = NoEntry, ~(queue > 0),
                         ~(row.due <= Greatest(0, skew))
                  PROVE  \E v \in Workers : WillPlace(v)'
      BY Zenon, <1>1 DEF Tracked
    <3>1. row.due > skew
      BY <1>2 DEF Greatest
    <3>2. PICK v \in Workers : WillPlace(v)
      BY ZenonT(40) DEF Tracked
    <3>3. v # w
      BY ZenonT(40), <1>4, <3>1, <3>2 DEF WillPlace, Pending
    <3>4. WillPlace(v)'
      BY Zenon, <1>1, <2>2, <3>2, <3>3, OthersPlace
    <3> QED BY Zenon, <3>4
  <2>5. worker'[w].attempt <= row.attempt /\ ~Busy(w)'
    BY Zenon, <1>2, <2>2 DEF Busy, Claimed
  <2>6. Spaced'
    BY Zenon, <1>1, <2>2, <2>5, SpacedKept
  <2> QED BY Zenon, <2>3, <2>4, <2>6
<1> QED BY Zenon, <1>3, <1>4

\* The ZADD puts the row into the schedule, or was about an earlier one.
LEMMA TimedSchedule ==
    ASSUME TimedInv, NEW w \in Workers, Schedule(w)
    PROVE  TimedInv'
<1> USE DEF TimedInv
<1>1. /\ UNCHANGED <<skew, phase, row, queue, since, lost, overruns>> /\ Leave(w)
      /\ zset' = IF worker[w].attempt = row.attempt THEN worker[w].at ELSE zset
  BY Zenon DEF Schedule
<1>2. /\ worker' \in [Workers -> WorkerRecord]
      /\ worker'[w].pc = "idle" /\ worker'[w].attempt = 0
      /\ \A v \in Workers : v # w => worker'[v] = worker[v]
  BY Zenon, <1>1, Left
<1>3. worker[w].at \in Nat /\ row.attempt \in Nat /\ 0 <= row.attempt
  BY TimingAssumption DEF TimedTypes, WorkerRecord, RowRecord
<1>4. zset' \in Nat \cup {NoEntry}
  BY Zenon, <1>1, <1>3 DEF TimedTypes
<1>5. TimedTypes'
  BY Zenon, <1>1, <1>2, <1>4 DEF TimedTypes
<1>6. Tracked'
  <2>1. CASE worker[w].attempt = row.attempt
    <3>1. zset' # NoEntry
      BY <1>1, <1>3, <2>1 DEF NoEntry
    <3> QED BY Zenon, <3>1 DEF Tracked
  <2>2. CASE worker[w].attempt # row.attempt
    <3>1. ~WillPlace(w) /\ zset' = zset
      BY Zenon, <1>1, <2>2 DEF WillPlace
    <3>2. \A v \in Workers : WillPlace(v) => WillPlace(v)'
      BY Zenon, <1>1, <1>2, <3>1, OthersPlace
    <3> QED BY ZenonT(40), <1>1, <3>1, <3>2 DEF Tracked
  <2> QED BY Zenon, <2>1, <2>2
<1>7. worker'[w].attempt <= row.attempt /\ ~Busy(w)'
  BY Zenon, <1>2, <1>3 DEF Busy, Claimed
<1>8. Spaced'
  BY Zenon, <1>1, <1>2, <1>7, SpacedKept
<1> QED BY Zenon, <1>5, <1>6, <1>8

\* A worker that gives up is remembered if the row was its to place.
LEMMA TimedGiveUp ==
    ASSUME TimedInv, NEW w \in Workers, GiveUp(w)
    PROVE  TimedInv'
<1> USE DEF TimedInv
<1>1. /\ UNCHANGED <<skew, phase, row, zset, queue, since, overruns>> /\ Leave(w)
      /\ lost' = (lost \/ WillPlace(w))
  BY Zenon DEF GiveUp
<1>2. /\ worker' \in [Workers -> WorkerRecord]
      /\ worker'[w].pc = "idle" /\ worker'[w].attempt = 0
      /\ \A v \in Workers : v # w => worker'[v] = worker[v]
  BY Zenon, <1>1, Left
<1>3. row.attempt \in Nat /\ 0 <= row.attempt
  BY TimingAssumption DEF TimedTypes, RowRecord
<1>4. lost' \in BOOLEAN
  BY Zenon, <1>1
<1>5. TimedTypes'
  BY Zenon, <1>1, <1>2, <1>4 DEF TimedTypes
<1>6. Tracked'
  <2>1. ASSUME lost' = FALSE PROVE lost = FALSE /\ ~WillPlace(w)
    BY Zenon, <1>1, <2>1 DEF TimedTypes
  <2>2. ASSUME lost' = FALSE PROVE \A v \in Workers : WillPlace(v) => WillPlace(v)'
    BY Zenon, <1>1, <1>2, <2>1, <2>2, OthersPlace
  <2> QED BY ZenonT(40), <1>1, <2>1, <2>2 DEF Tracked
<1>7. worker'[w].attempt <= row.attempt /\ ~Busy(w)'
  BY Zenon, <1>2, <1>3 DEF Busy, Claimed
<1>8. Spaced'
  BY Zenon, <1>1, <1>2, <1>7, SpacedKept
<1> QED BY Zenon, <1>5, <1>6, <1>8

\* A busy worker that sends, or leaves, keeps the row as it is, or settled.
LEMMA TimedOn ==
    ASSUME TimedInv, NEW w \in Workers, Busy(w),
           row' = row \/ row' = [row EXCEPT !.done = TRUE],
           UNCHANGED <<skew, zset, queue, since, lost>>,
           Leave(w) \/ Goto(w, "send")
    PROVE  TimedInv'
<1> USE DEF TimedInv
<1>0. row.attempt \in Nat /\ 0 <= row.attempt /\ row \in RowRecord
  BY TimingAssumption DEF TimedTypes, RowRecord
<1>1. /\ worker' \in [Workers -> WorkerRecord]
      /\ \A v \in Workers : v # w => worker'[v] = worker[v]
      /\ \/ worker'[w].attempt = worker[w].attempt
         \/ worker'[w].pc = "idle" /\ worker'[w].attempt = 0
  <2>1. "send" \in {"idle"} \cup Placing \cup Claimed
    BY Zenon DEF Claimed
  <2> QED BY ZenonT(40), <2>1, Left, Moved
<1>2. /\ row' \in RowRecord
      /\ row'.attempt = row.attempt /\ row'.due = row.due /\ row'.leased = row.leased
      /\ row'.done = FALSE => row.done = FALSE
  BY Zenon, <1>0 DEF RowRecord
<1>3. TimedTypes'
  BY Zenon, <1>1, <1>2 DEF TimedTypes
<1>4. ~WillPlace(w)
  BY Zenon DEF WillPlace, Placing, Busy, Claimed
<1>5. \A v \in Workers : WillPlace(v) => WillPlace(v)'
  BY Zenon, <1>1, <1>2, <1>4, OthersPlace
<1>6. Tracked'
  BY ZenonT(40), <1>2, <1>5 DEF Tracked
<1>7. \/ worker'[w].attempt = worker[w].attempt /\ (Busy(w)' => Busy(w))
      \/ worker'[w].attempt <= row.attempt /\ ~Busy(w)'
  BY Zenon, <1>0, <1>1 DEF Busy, Claimed
<1>8. Spaced'
  BY ZenonT(40), <1>1, <1>2, <1>7, SpacedKept
<1> QED BY Zenon, <1>3, <1>6, <1>8

\* So do a request and its success.
LEMMA TimedSend ==
    ASSUME TimedInv, NEW w \in Workers, Attempt(w) \/ Succeed(w)
    PROVE  TimedInv'
<1>1. /\ Busy(w)
      /\ row' = row \/ row' = [row EXCEPT !.done = TRUE]
      /\ UNCHANGED <<skew, zset, queue, since, lost>>
      /\ Leave(w) \/ Goto(w, "send")
  BY Zenon DEF Attempt, Succeed, Busy, Claimed
<1> QED BY Zenon, <1>1, TimedOn

\* A denied row is to be scheduled again; it had been claimed, so its delay is over.
LEMMA TimedDenied ==
    ASSUME TimedInv, NEW w \in Workers, rescheduleNoAttempt(w)
    PROVE  TimedInv'
<1>0. /\ row.attempt \in Nat /\ row.due \in Int /\ skew \in Int /\ DenialBackoff \in Nat
      /\ DenialBackoff + skew \in Int /\ row.attempt <= row.attempt
  BY TimingAssumption DEF TimedInv, TimedTypes, RowRecord
<1>1. Busy(w) /\ UNCHANGED <<skew, zset, queue, since>>
  BY Zenon DEF rescheduleNoAttempt, Busy, Claimed
<1>2. CASE Pending(w)
  <2>1. /\ row' = [row EXCEPT !.due = DenialBackoff + skew, !.leased = FALSE]
        /\ lost' = FALSE /\ ToSchedule(w, row.attempt, DenialBackoff)
    BY Zenon, <1>2 DEF rescheduleNoAttempt
  <2>2. row' \in RowRecord /\ row'.attempt = row.attempt
    BY Zenon, <1>0, <2>1 DEF TimedInv, TimedTypes, RowRecord
  <2>3. /\ worker' \in [Workers -> WorkerRecord]
        /\ worker'[w].pc = "zadd" /\ worker'[w].attempt = row.attempt
        /\ \A v \in Workers : v # w => worker'[v] = worker[v]
    BY Zenon, <1>0, <2>1, GoesToSchedule DEF TimedInv
  <2>4. TimedTypes'
    BY Zenon, <1>1, <2>1, <2>2, <2>3 DEF TimedInv, TimedTypes
  <2>5. WillPlace(w)'
    BY Zenon, <2>2, <2>3 DEF WillPlace, Placing
  <2>6. Tracked'
    BY Zenon, <2>5 DEF Tracked
  <2>7. row.attempt > 1 => since >= Low(row.attempt) + skew
    <3>1. worker[w].attempt = row.attempt
      BY Zenon, <1>2 DEF Pending
    <3> QED BY <1>0, <1>1, <3>1 DEF TimedInv, Spaced
  <2>8. \A v \in Workers : worker'[v].attempt <= row'.attempt
    BY ZenonT(40), <1>0, <2>2, <2>3 DEF TimedInv, Spaced
  <2>9. Spaced'
    BY ZenonT(40), <1>1, <2>2, <2>7, <2>8 DEF Spaced, Low, Nominal
  <2> QED BY Zenon, <2>4, <2>6, <2>9 DEF TimedInv
<1>3. CASE ~Pending(w)
  <2>1. Leave(w) /\ row' = row /\ lost' = lost
    BY Zenon, <1>3 DEF rescheduleNoAttempt
  <2> QED BY Zenon, <1>1, <2>1, TimedOn
<1> QED BY Zenon, <1>2, <1>3

\* A failed attempt commits its successor with the whole delay ahead of it, and
\* nobody has claimed the successor yet.
LEMMA TimedFailure ==
    ASSUME TimedInv, NEW w \in Workers, handleFailure(w)
    PROVE  TimedInv'
<1>0. /\ row.attempt \in 1..MaxRetryAttempts /\ skew \in Int /\ MaxRetryAttempts \in Nat
  BY TimingAssumption DEF TimedInv, TimedTypes, RowRecord
<1>1. Busy(w) /\ UNCHANGED <<skew, phase, overruns>>
  BY Zenon DEF handleFailure, Busy, Claimed
<1>2. ASSUME row.attempt < MaxRetryAttempts, NEW d \in retryDelay(row.attempt),
             row' = [attempt |-> row.attempt + 1, due |-> d + skew, leased |-> FALSE, done |-> FALSE],
             ToSchedule(w, row.attempt + 1, d),
             zset' = NoEntry, queue' = 0, since' = 0, lost' = FALSE
      PROVE  TimedInv'
  <2>1. d \in Nat /\ d >= Low(row.attempt + 1) /\ Low(row.attempt + 1) \in Int
    BY <1>0, DelayBounds, TimingAssumption
  <2>2. /\ row.attempt + 1 \in 1..MaxRetryAttempts /\ row.attempt + 1 \in Nat
        /\ d + skew \in Int /\ row.attempt + 1 <= row.attempt + 1
    BY <1>0, <1>2, <2>1
  <2>3. row' \in RowRecord /\ row'.attempt = row.attempt + 1 /\ row'.due = d + skew
    BY Zenon, <1>2, <2>2 DEF RowRecord
  <2>4. /\ worker' \in [Workers -> WorkerRecord]
        /\ worker'[w].pc = "zadd" /\ worker'[w].attempt = row.attempt + 1
        /\ \A v \in Workers : v # w => worker'[v] = worker[v]
    BY Zenon, <1>2, <2>1, <2>2, GoesToSchedule DEF TimedInv
  <2>5. TimedTypes'
    <3>1. zset' \in Nat \cup {NoEntry} /\ queue' \in Nat /\ since' \in Nat /\ lost' \in BOOLEAN
      BY <1>2
    <3> QED BY Zenon, <1>1, <2>3, <2>4, <3>1 DEF TimedInv, TimedTypes
  <2>6. Tracked'
    <3>1. WillPlace(w)'
      BY Zenon, <2>3, <2>4 DEF WillPlace, Placing
    <3> QED BY Zenon, <3>1 DEF Tracked
  <2>7. \A v \in Workers : v # w => worker'[v].attempt <= row.attempt /\ worker'[v].attempt \in Nat
    BY ZenonT(40), <2>4 DEF TimedInv, Spaced, WorkerRecord
  <2>8. \A v \in Workers : v # w => worker'[v].attempt < row'.attempt /\ worker'[v].attempt <= row'.attempt
    BY <1>0, <2>3, <2>7
  <2>9. \A v \in Workers : worker'[v].attempt <= row'.attempt /\ (Busy(v)' => worker'[v].attempt < row'.attempt)
    BY ZenonT(40), <2>2, <2>3, <2>4, <2>8 DEF Busy, Claimed
  <2>10. row'.due + since' >= Low(row'.attempt) + skew'
    <3>1. row'.due + since' = d + skew
      BY <1>0, <1>2, <2>1, <2>3
    <3> QED BY <1>0, <1>1, <2>1, <2>3, <3>1
  <2>11. Spaced'
    BY ZenonT(40), <2>9, <2>10 DEF Spaced, Low, Nominal
  <2> QED BY Zenon, <2>5, <2>6, <2>11 DEF TimedInv
<1>3. ASSUME row' = row \/ row' = [row EXCEPT !.done = TRUE], Leave(w), UNCHANGED <<zset, queue, since, lost>>
      PROVE  TimedInv'
  BY Zenon, <1>1, <1>3, TimedOn
<1> QED BY ZenonT(40), <1>2, <1>3 DEF handleFailure

\* A tick adds one to what a busy worker has used; the others only wait.
LEMMA Ticked ==
    ASSUME TimedTypes, Tick
    PROVE  /\ worker' \in [Workers -> WorkerRecord]
           /\ \A w \in Workers :
                /\ worker'[w].pc = worker[w].pc /\ worker'[w].attempt = worker[w].attempt
                /\ worker'[w].used = IF Busy(w) THEN worker[w].used + 1 ELSE worker[w].used
                /\ Busy(w)' <=> Busy(w)
<1>1. worker' = [w \in Workers |->
            IF Busy(w) THEN [worker[w] EXCEPT !.used = @ + 1]
            ELSE [worker[w] EXCEPT !.at = Greatest(0, @ - 1)]]
  BY Zenon DEF Tick
<1>2. ASSUME NEW w \in Workers
      PROVE  /\ worker'[w] \in WorkerRecord
             /\ worker'[w].pc = worker[w].pc /\ worker'[w].attempt = worker[w].attempt
             /\ worker'[w].used = IF Busy(w) THEN worker[w].used + 1 ELSE worker[w].used
  <2>1. worker[w] \in WorkerRecord /\ worker[w].used + 1 \in Nat /\ Greatest(0, worker[w].at - 1) \in Nat
    BY DEF TimedTypes, WorkerRecord, Greatest
  <2>2. CASE Busy(w)
    <3>1. worker'[w] = [worker[w] EXCEPT !.used = worker[w].used + 1]
      BY Zenon, <1>1, <2>2
    <3> QED BY Zenon, <2>1, <2>2, <3>1 DEF WorkerRecord
  <2>3. CASE ~Busy(w)
    <3>1. worker'[w] = [worker[w] EXCEPT !.at = Greatest(0, worker[w].at - 1)]
      BY Zenon, <1>1, <2>3
    <3> QED BY Zenon, <2>1, <2>3, <3>1 DEF WorkerRecord
  <2> QED BY Zenon, <2>2, <2>3
<1>3. worker' \in [Workers -> WorkerRecord]
  BY Zenon, <1>1, <1>2
<1> QED BY Zenon, <1>2, <1>3 DEF Busy

\* A tick adds one to the time since the failure and takes one from the due time,
\* or the bound of the count is past every delay.
LEMMA TimedTick ==
    ASSUME TimedInv, Tick
    PROVE  TimedInv'
<1> USE DEF TimedInv
<1>0. /\ row.attempt \in 1..MaxRetryAttempts /\ row.due \in Int /\ skew \in Int /\ since \in Nat
      /\ MaxSkew \in Nat /\ MaxRetryAttempts \in Nat /\ skew <= MaxSkew /\ -MaxSkew \in Int
  BY TimingAssumption DEF TimedTypes, RowRecord
<1>1. /\ row' = [row EXCEPT !.due = Greatest(-MaxSkew, row.due - 1)]
      /\ since' = Least(Horizon, since + 1) /\ skew' = skew /\ queue' = queue /\ lost' = lost
      /\ zset' = IF zset = NoEntry THEN NoEntry ELSE Greatest(0, zset - 1)
  BY ZenonT(40) DEF Tick
<1>2. Greatest(-MaxSkew, row.due - 1) \in Int
  BY <1>0 DEF Greatest
<1>3. /\ row'.attempt = row.attempt /\ row'.due = Greatest(-MaxSkew, row.due - 1)
      /\ row'.leased = row.leased /\ row'.done = row.done
  BY Zenon, <1>1 DEF TimedTypes, RowRecord
<1>4. \A w \in Workers :
        /\ worker'[w].pc = worker[w].pc /\ worker'[w].attempt = worker[w].attempt
        /\ Busy(w)' <=> Busy(w)
  BY Zenon, Ticked
<1>5. TimedTypes'
  <2>1. row' \in RowRecord
    BY ZenonT(40), <1>1, <1>2 DEF TimedTypes, RowRecord
  <2>2. worker' \in [Workers -> WorkerRecord]
    BY Zenon, Ticked
  <2>3. since' \in Nat
    BY <1>0, <1>1, HorizonFar DEF Least
  <2>4. zset' \in Nat \cup {NoEntry}
    BY <1>1 DEF TimedTypes, Greatest, NoEntry
  <2> QED BY ZenonT(40), <1>1, <2>1, <2>2, <2>3, <2>4 DEF TimedTypes
<1>6. Tracked'
  <2>1. \A w \in Workers : WillPlace(w) => WillPlace(w)'
    BY ZenonT(40), <1>3, <1>4 DEF WillPlace
  <2>2. zset # NoEntry => zset' # NoEntry
    BY <1>1 DEF TimedTypes, Greatest, NoEntry
  <2>3. row.due <= Greatest(0, skew) => row'.due <= Greatest(0, skew)
    BY <1>0, <1>3 DEF Greatest
  <2> QED BY ZenonT(40), <1>1, <1>3, <2>1, <2>2, <2>3 DEF Tracked, Greatest
<1>7. Spaced'
  <2>1. \A w \in Workers : worker'[w].attempt <= row'.attempt
    BY Zenon, <1>3, <1>4 DEF Spaced
  <2>2. ASSUME row.attempt > 1
        PROVE  \/ since' >= Low(row.attempt) + skew
               \/ /\ row'.due + since' >= Low(row.attempt) + skew
                  /\ \A w \in Workers : Busy(w) => worker[w].attempt < row.attempt
    <3>1. PICK low : low = Low(row.attempt)
      BY ZenonT(40)
    <3>2. low \in Int /\ low <= RetryMaxDelay /\ RetryMaxDelay \in Nat
      <4>1. row.attempt - 1 \in 1..MaxRetryAttempts /\ (row.attempt - 1) + 1 = row.attempt
        BY <1>0, <2>2
      <4>2. Low((row.attempt - 1) + 1) \in 0..RetryMaxDelay
        BY ZenonT(40), <4>1, DelayBounds
      <4> QED BY <3>1, <4>1, <4>2, TimingAssumption
    <3>3. CASE since + 1 > Horizon
      BY <1>0, <1>1, <3>1, <3>2, <3>3, HorizonFar DEF Least
    <3>4. CASE since + 1 <= Horizon
      <4>1. since' = since + 1
        BY <1>0, <1>1, <3>4, HorizonFar DEF Least
      <4>2. row'.due >= row.due - 1 /\ row'.due \in Int
        BY <1>0, <1>3 DEF Greatest
      <4> QED BY <1>0, <2>2, <3>1, <3>2, <4>1, <4>2 DEF Spaced
    <3> QED BY <1>0, <3>3, <3>4, HorizonFar
  <2> QED BY Zenon, <1>1, <1>3, <1>4, <2>1, <2>2 DEF Spaced, Low, Nominal
<1> QED BY ZenonT(40), <1>5, <1>6, <1>7

\* Every step preserves it.
LEMMA TimedInductive == TimedInv /\ [Next]_vars => TimedInv'
<1>1. ASSUME TimedInv, UNCHANGED vars PROVE TimedInv'
  BY <1>1 DEF vars, TimedInv, TimedTypes, Tracked, WillPlace, Spaced, Busy, Low, Nominal
<1>2. ASSUME TimedInv, NEW w \in Workers, Proceed(w) PROVE TimedInv'
  BY ZenonT(40), <1>2, TimedClaim, TimedReread, TimedSchedule, TimedDenied, TimedSend, TimedFailure DEF Proceed
<1> QED BY ZenonT(40), <1>1, <1>2, TimedIndex, TimedDequeue, TimedGiveUp, TimedTick DEF Next

\* Every state has it.
LEMMA TimedInvariant == Spec => []TimedInv
<1>1. Spec => Init /\ [][Next]_vars
  BY PTL DEF Spec
<1> QED BY <1>1, TimedStart, TimedInductive, PTL

\* A pending row that is in no index and with no worker is due within the skew, or
\* a call that was to place it has failed, for any resolution of the scores, any
\* clocks and whatever comes between a commit and its ZADD.
THEOREM StrandedTheorem == Spec => []StrandedOnlyBySkewOrFailure
<1>1. TimedInv => StrandedOnlyBySkewOrFailure
  <2> SUFFICES ASSUME TimedInv, ~row.done, ~row.leased, zset = NoEntry, queue = 0, ~lost,
                       \A w \in Workers : worker[w].pc = "idle"
                PROVE  row.due <= Greatest(0, skew)
    BY ZenonT(40) DEF StrandedOnlyBySkewOrFailure
  <2>1. row.done = FALSE /\ row.leased = FALSE /\ lost = FALSE
    BY ZenonT(40) DEF TimedInv, TimedTypes, RowRecord
  <2>2. ~(queue > 0)
    OBVIOUS
  <2>3. \A w \in Workers : ~WillPlace(w)
    BY Zenon DEF WillPlace, Placing
  <2> QED BY ZenonT(40), <2>1, <2>2, <2>3 DEF TimedInv, Tracked
<1> QED BY <1>1, TimedInvariant, PTL

\* No attempt is made before the capped, jittered delay after the last failure is
\* over, but for the difference of the clocks, for every configuration.
THEOREM SpacedTheorem == Spec => []AttemptsSpaced
<1>1. TimedInv => AttemptsSpaced
  <2> SUFFICES ASSUME TimedInv, NEW w \in Workers, Busy(w), worker[w].attempt = row.attempt,
                       row.attempt > 1
                PROVE  since >= Low(row.attempt) + skew
    BY ZenonT(40) DEF AttemptsSpaced, Low
  <2>1. row.attempt \in Nat
    BY TimingAssumption DEF TimedInv, TimedTypes, RowRecord
  <2> QED BY <2>1 DEF TimedInv, Spaced
<1> QED BY <1>1, TimedInvariant, PTL

-----------------------------------------------------------------------------
(* The lease *)

BusyWorkers == {w \in Workers : Busy(w)}

\* Before the claim a worker has used nothing of its lease.
FreshBeforeClaim == \A w \in Workers : ~Busy(w) => worker[w].used = 0

\* There are no more busy workers than claims that outlived their lease, but for
\* one: the holder of the lease that is running, whose time adds up with the
\* row's.
OneMoreThanOverruns ==
    LET busy == Cardinality(BusyWorkers)
    IN  \/ busy <= overruns
        \/ /\ busy = overruns + 1
           /\ row.due > 0
           /\ \E h \in BusyWorkers : worker[h].used + row.due = Lease

LeaseInv ==
    /\ overruns \in Nat
    /\ FreshBeforeClaim
    /\ OneMoreThanOverruns

\* The busy workers are finitely many.
LEMMA BusyFinite ==
    /\ IsFiniteSet(BusyWorkers) /\ Cardinality(BusyWorkers) \in Nat
    /\ Cardinality(Workers) \in Nat /\ Cardinality(BusyWorkers) <= Cardinality(Workers)
<1>1. IsFiniteSet(Workers) /\ BusyWorkers \subseteq Workers
  BY TimingAssumption DEF BusyWorkers
<1> QED BY Zenon, <1>1, FS_Subset, FS_CardinalityType

\* No worker is busy at first.
LEMMA LeaseStart == Init => LeaseInv
<1> SUFFICES ASSUME Init PROVE LeaseInv
  OBVIOUS
<1>1. \A w \in Workers : ~Busy(w) /\ worker[w].used = 0
  BY DEF Init, NoWork, Busy, Claimed
<1>2. BusyWorkers = {} /\ overruns = 0
  BY Zenon, <1>1 DEF BusyWorkers, Init
<1>3. Cardinality(BusyWorkers) <= overruns
  BY <1>2, FS_EmptySet
<1> QED BY <1>1, <1>2, <1>3 DEF LeaseInv, FreshBeforeClaim, OneMoreThanOverruns

\* A step that makes nobody busy and ends nobody's claim.
LEMMA LeaseKept ==
    ASSUME LeaseInv, row' = row, overruns' = overruns,
           \A v \in Workers : (Busy(v)' <=> Busy(v)) /\ worker'[v].used = worker[v].used
    PROVE  LeaseInv'
<1>1. BusyWorkers' = BusyWorkers
  BY Zenon DEF BusyWorkers
<1>2. FreshBeforeClaim'
  BY Zenon DEF LeaseInv, FreshBeforeClaim
<1>3. \A h \in BusyWorkers : worker'[h].used = worker[h].used
  BY Zenon DEF BusyWorkers
<1>4. OneMoreThanOverruns'
  BY ZenonT(40), <1>1, <1>3 DEF LeaseInv, OneMoreThanOverruns, Lease, secondsArg, Greatest
<1> QED BY Zenon, <1>2, <1>4 DEF LeaseInv

\* A claim ends, whatever becomes of the row.
LEMMA LeaseEnds ==
    ASSUME LeaseInv, NEW w \in Workers, Busy(w), ~Busy(w)', worker'[w].used = 0,
           overruns' = overruns,
           \A v \in Workers : v # w => worker'[v] = worker[v]
    PROVE  LeaseInv'
<1>1. BusyWorkers' = BusyWorkers \ {w} /\ w \in BusyWorkers
  <2>1. \A v \in Workers : v # w => (Busy(v)' <=> Busy(v))
    BY Zenon DEF Busy
  <2> QED BY Zenon, <2>1 DEF BusyWorkers
<1>2. Cardinality(BusyWorkers') = Cardinality(BusyWorkers) - 1
  BY Zenon, <1>1, BusyFinite, FS_RemoveElement
<1>3. Cardinality(BusyWorkers) <= overruns + 1 /\ overruns \in Nat
  BY BusyFinite DEF LeaseInv, OneMoreThanOverruns
<1>4. Cardinality(BusyWorkers') <= overruns'
  BY <1>2, <1>3, BusyFinite
<1>5. FreshBeforeClaim'
  BY Zenon DEF LeaseInv, FreshBeforeClaim, Busy
<1>6. OneMoreThanOverruns'
  BY Zenon, <1>4 DEF OneMoreThanOverruns
<1> QED BY Zenon, <1>3, <1>5, <1>6 DEF LeaseInv

\* A worker that is not busy before or after leaves the leases alone.
LEMMA LeaseUntouched ==
    ASSUME LeaseInv, NEW w \in Workers, ~Busy(w), ~Busy(w)', worker'[w].used = 0,
           row' = row, overruns' = overruns,
           \A v \in Workers : v # w => worker'[v] = worker[v]
    PROVE  LeaseInv'
<1>1. worker[w].used = 0
  BY Zenon DEF LeaseInv, FreshBeforeClaim
<1>2. \A v \in Workers : (Busy(v)' <=> Busy(v)) /\ worker'[v].used = worker[v].used
  BY Zenon, <1>1 DEF Busy
<1> QED BY Zenon, <1>2, LeaseKept

\* A claim of a due row: nobody's lease is running, and the whole lease is ahead.
LEMMA LeaseClaim ==
    ASSUME TimedInv, LeaseInv, NEW w \in Workers, ClaimPending(w)
    PROVE  LeaseInv'
<1>0. overruns' = overruns /\ worker[w].pc = "claim" /\ TimedTypes
  BY Zenon DEF ClaimPending, TimedInv
<1>1. ~Busy(w) /\ worker[w].used = 0
  BY Zenon, <1>0 DEF Busy, Claimed, LeaseInv, FreshBeforeClaim
<1>2. CASE Pending(w) /\ row.due <= 0
  <2>1. row'.due = Lease /\ Goto(w, "ready")
    BY Zenon, <1>0, <1>2, ClaimTakes
  <2>2. /\ worker'[w].pc = "ready" /\ worker'[w].used = 0
        /\ \A v \in Workers : v # w => worker'[v] = worker[v]
    <3>1. "ready" \in {"idle"} \cup Placing \cup Claimed
      BY Zenon DEF Claimed
    <3> QED BY ZenonT(40), <1>0, <1>1, <2>1, <3>1, Moved
  <2>3. Busy(w)' /\ \A v \in Workers : v # w => (Busy(v)' <=> Busy(v))
    BY Zenon, <2>2 DEF Busy, Claimed
  <2>4. BusyWorkers' = BusyWorkers \cup {w} /\ w \notin BusyWorkers
    BY Zenon, <1>1, <2>3 DEF BusyWorkers
  <2>5. Cardinality(BusyWorkers') = Cardinality(BusyWorkers) + 1
    BY Zenon, <2>4, BusyFinite, FS_AddElement
  <2>6. Cardinality(BusyWorkers) <= overruns /\ overruns \in Nat
    <3>1. row.due \in Int /\ ~(row.due > 0)
      BY <1>0, <1>2 DEF TimedTypes, RowRecord
    <3> QED BY Zenon, <3>1 DEF LeaseInv, OneMoreThanOverruns
  <2>7. Cardinality(BusyWorkers') <= overruns' \/ Cardinality(BusyWorkers') = overruns' + 1
    BY <1>0, <2>5, <2>6, BusyFinite
  <2>8. worker'[w].used + row'.due = Lease /\ row'.due > 0 /\ w \in BusyWorkers'
    BY <2>1, <2>2, <2>4, LeasePositive
  <2>9. OneMoreThanOverruns'
    BY Zenon, <2>7, <2>8 DEF OneMoreThanOverruns, Lease, secondsArg, Greatest
  <2>10. FreshBeforeClaim'
    BY Zenon, <2>2 DEF LeaseInv, FreshBeforeClaim, Busy
  <2> QED BY Zenon, <1>0, <2>6, <2>9, <2>10 DEF LeaseInv
<1>3. CASE ~(Pending(w) /\ row.due <= 0)
  <2>1. row' = row /\ Goto(w, "reread")
    BY Zenon, <1>3 DEF ClaimPending
  <2>2. /\ worker'[w].pc = "reread" /\ worker'[w].used = 0
        /\ \A v \in Workers : v # w => worker'[v] = worker[v]
    <3>1. "reread" \in {"idle"} \cup Placing \cup Claimed
      BY Zenon DEF Placing
    <3> QED BY ZenonT(40), <1>0, <1>1, <2>1, <3>1, Moved
  <2>3. ~Busy(w)'
    BY Zenon, <2>2 DEF Busy, Claimed
  <2> QED BY Zenon, <1>0, <1>1, <2>1, <2>2, <2>3, LeaseUntouched
<1> QED BY Zenon, <1>2, <1>3

\* A worker leaves, or goes to the schedule.
LEMMA LeaseLeft ==
    ASSUME TimedTypes, LeaseInv, NEW w \in Workers, overruns' = overruns,
           \/ Leave(w)
           \/ \E a, at \in Nat : ToSchedule(w, a, at),
           row' = row \/ Busy(w)
    PROVE  LeaseInv'
<1>1. /\ worker'[w].pc \in {"idle", "zadd"} /\ worker'[w].used = 0
      /\ \A v \in Workers : v # w => worker'[v] = worker[v]
  BY ZenonT(40), Left, GoesToSchedule
<1>2. ~Busy(w)'
  BY Zenon, <1>1 DEF Busy, Claimed
<1> QED BY Zenon, <1>1, <1>2, LeaseUntouched, LeaseEnds

\* The steps of a worker.
LEMMA LeaseProceed ==
    ASSUME TimedInv, LeaseInv, NEW w \in Workers, Proceed(w)
    PROVE  LeaseInv'
<1>0. /\ row.attempt \in 1..MaxRetryAttempts /\ row.due \in Int /\ skew \in Int /\ DenialBackoff \in Nat
      /\ row.attempt \in Nat /\ row.attempt + 1 \in Nat /\ MaxRetryAttempts \in Nat /\ TimedTypes
  BY TimingAssumption DEF TimedInv, TimedTypes, RowRecord
<1>1. CASE rescheduleIfNotDue(w)
  <2>1. row' = row /\ overruns' = overruns
    BY Zenon, <1>1 DEF rescheduleIfNotDue
  <2>2. row.due > skew => row.due - skew \in Nat
    BY <1>0
  <2>3. Leave(w) \/ \E a, at \in Nat : ToSchedule(w, a, at)
    BY Zenon, <1>0, <1>1, <2>2 DEF rescheduleIfNotDue
  <2> QED BY Zenon, <1>0, <2>1, <2>3, LeaseLeft
<1>2. CASE Schedule(w)
  BY Zenon, <1>0, <1>2, LeaseLeft DEF Schedule
<1>3. CASE rescheduleNoAttempt(w)
  <2>1. Busy(w) /\ overruns' = overruns
    BY Zenon, <1>3 DEF rescheduleNoAttempt, Busy, Claimed
  <2>2. Leave(w) \/ \E a, at \in Nat : ToSchedule(w, a, at)
    BY Zenon, <1>0, <1>3 DEF rescheduleNoAttempt
  <2> QED BY Zenon, <1>0, <2>1, <2>2, LeaseLeft
<1>4. CASE Attempt(w)
  <2>1. row' = row /\ overruns' = overruns /\ Goto(w, "send") /\ Busy(w) /\ "send" \in {"idle"} \cup Placing \cup Claimed
    BY Zenon, <1>4 DEF Attempt, Busy, Claimed
  <2>2. /\ worker'[w].pc = "send" /\ worker'[w].used = worker[w].used
        /\ \A v \in Workers : v # w => worker'[v] = worker[v]
    BY ZenonT(40), <1>0, <2>1, Moved
  <2>3. \A v \in Workers : (Busy(v)' <=> Busy(v)) /\ worker'[v].used = worker[v].used
    BY Zenon, <2>1, <2>2 DEF Busy, Claimed
  <2> QED BY Zenon, <2>1, <2>3, LeaseKept
<1>5. CASE Succeed(w)
  BY Zenon, <1>0, <1>5, LeaseLeft DEF Succeed, Busy, Claimed
<1>6. CASE handleFailure(w)
  <2>1. Busy(w) /\ overruns' = overruns
    BY Zenon, <1>6 DEF handleFailure, Busy, Claimed
  <2>2. \A d \in retryDelay(row.attempt) : d \in Nat
    BY Zenon, <1>0, DelayBounds
  <2>3. Leave(w) \/ \E a, at \in Nat : ToSchedule(w, a, at)
    BY Zenon, <1>0, <1>6, <2>2 DEF handleFailure
  <2> QED BY Zenon, <1>0, <2>1, <2>3, LeaseLeft
<1> QED BY Zenon, <1>1, <1>2, <1>3, <1>4, <1>5, <1>6, LeaseClaim DEF Proceed

\* A tick takes one from the time to the row's being due and adds one to what the
\* holder of the lease has used; if the lease is over with it, the holder counts.
LEMMA LeaseTick ==
    ASSUME TimedInv, LeaseInv, Tick
    PROVE  LeaseInv'
<1>0. TimedTypes /\ overruns \in Nat
  BY Zenon DEF TimedInv, LeaseInv
<1>1. /\ worker' \in [Workers -> WorkerRecord]
      /\ \A w \in Workers :
            /\ worker'[w].used = IF Busy(w) THEN worker[w].used + 1 ELSE worker[w].used
            /\ Busy(w)' <=> Busy(w)
  BY Zenon, <1>0, Ticked
<1>2. BusyWorkers' = BusyWorkers
  BY Zenon, <1>1 DEF BusyWorkers
<1>3. FreshBeforeClaim'
  BY Zenon, <1>1 DEF LeaseInv, FreshBeforeClaim
<1>4. PICK b, n, c : b = Cardinality(BusyWorkers) /\ n = Cardinality(Workers) /\ c = Cardinality(RunningOut)
  OBVIOUS
<1>5. b \in Nat /\ n \in Nat /\ b <= n
  BY Zenon, <1>4, BusyFinite
<1>6. IsFiniteSet(RunningOut) /\ c \in Nat
  <2>1. RunningOut \subseteq Workers /\ IsFiniteSet(Workers)
    BY TimingAssumption DEF RunningOut
  <2> QED BY Zenon, <1>4, <2>1, FS_Subset, FS_CardinalityType
<1>7. overruns' = Least(n, overruns + c)
  BY Zenon, <1>4 DEF Tick
<1>8. overruns' \in Nat /\ (b <= overruns => b <= overruns') /\ (b <= overruns + c => b <= overruns')
  BY <1>0, <1>5, <1>6, <1>7 DEF Least
<1>9. OneMoreThanOverruns'
  <2>1. CASE b <= overruns
    BY Zenon, <1>2, <1>4, <1>8, <2>1 DEF OneMoreThanOverruns
  <2>2. CASE /\ b = overruns + 1 /\ row.due > 0
             /\ \E h \in BusyWorkers : worker[h].used + row.due = Lease
    <3>1. PICK h \in BusyWorkers : worker[h].used + row.due = Lease
      BY Zenon, <2>2
    <3>2. /\ h \in Workers /\ Busy(h) /\ worker[h].used \in Nat /\ row.due \in Int
          /\ worker'[h].used = worker[h].used + 1
      BY Zenon, <1>0, <1>1 DEF BusyWorkers, TimedTypes, WorkerRecord, RowRecord
    <3>3. row'.due = Greatest(-MaxSkew, row.due - 1)
      BY Zenon, <1>0 DEF Tick, TimedTypes, RowRecord
    <3>4. row'.due = row.due - 1
      BY <2>2, <3>2, <3>3, TimingAssumption DEF Greatest
    <3>5. CASE row.due = 1
      <4>1. worker[h].used + 1 = Lease
        BY <3>1, <3>5
      <4>2. h \in RunningOut
        BY Zenon, <3>2, <4>1 DEF RunningOut
      <4>3. c # 0
        BY Zenon, <1>4, <1>6, <4>2, FS_EmptySet
      <4>4. b <= overruns + c
        BY <1>0, <1>6, <2>2, <4>3
      <4> QED BY Zenon, <1>2, <1>4, <1>8, <4>4 DEF OneMoreThanOverruns
    <3>6. CASE row.due # 1
      <4>1. row'.due > 0 /\ worker'[h].used + row'.due = Lease
        BY <2>2, <3>1, <3>2, <3>4, <3>6
      <4>2. b <= overruns' \/ b = overruns' + 1
        BY <1>0, <1>5, <1>6, <1>7, <2>2 DEF Least
      <4> QED BY Zenon, <1>2, <1>4, <4>1, <4>2 DEF OneMoreThanOverruns, Lease, secondsArg, Greatest
    <3> QED BY Zenon, <3>5, <3>6
  <2> QED BY Zenon, <1>4, <2>1, <2>2 DEF LeaseInv, OneMoreThanOverruns
<1> QED BY Zenon, <1>3, <1>8, <1>9 DEF LeaseInv

\* Every step preserves the invariant.
LEMMA LeaseInductive == TimedInv /\ LeaseInv /\ [Next]_vars => LeaseInv'
<1> SUFFICES ASSUME TimedInv, LeaseInv, [Next]_vars PROVE LeaseInv'
  OBVIOUS
<1>0. TimedTypes
  BY Zenon DEF TimedInv
<1>1. CASE ClaimDue \/ FindDuePending \/ UNCHANGED vars
  <2>1. row' = row /\ worker' = worker /\ overruns' = overruns
    BY Zenon, <1>1 DEF ClaimDue, FindDuePending, vars
  <2>2. \A v \in Workers : (Busy(v)' <=> Busy(v)) /\ worker'[v].used = worker[v].used
    BY Zenon, <2>1 DEF Busy
  <2> QED BY Zenon, <2>1, <2>2, LeaseKept
<1>2. ASSUME NEW w \in Workers, Dequeue(w) PROVE LeaseInv'
  <2> DEFINE r == [NoWork EXCEPT !.pc = "claim", !.attempt = row.attempt]
  <2>1. r.pc = "claim" /\ r.used = 0
    BY DEF NoWork
  <2>2. worker' = [worker EXCEPT ![w] = r] /\ row' = row /\ overruns' = overruns /\ worker[w].pc = "idle"
    BY Zenon, <1>2 DEF Dequeue
  <2> HIDE DEF r
  <2>3. worker'[w] = r /\ \A v \in Workers : v # w => worker'[v] = worker[v]
    BY Zenon, <1>0, <2>2 DEF TimedTypes
  <2>4. ~Busy(w) /\ ~Busy(w)'
    BY Zenon, <2>1, <2>2, <2>3 DEF Busy, Claimed
  <2> QED BY Zenon, <2>1, <2>2, <2>3, <2>4, LeaseUntouched
<1>3. ASSUME NEW w \in Workers, GiveUp(w) PROVE LeaseInv'
  BY Zenon, <1>0, <1>3, LeaseLeft DEF GiveUp
<1> QED BY ZenonT(40), <1>1, <1>2, <1>3, LeaseProceed, LeaseTick DEF Next

\* The requests of a webhook that are under way together are at most one more than
\* the claims that outlived their lease, for any number of workers, any clocks and
\* any delays.
THEOREM OverlapTheorem == Spec => []OverlapsCounted
<1>1. Spec => Init /\ [][Next]_vars
  BY PTL DEF Spec
<1>2. LeaseInv => OverlapsCounted
  <2> SUFFICES ASSUME LeaseInv PROVE OverlapsCounted
    OBVIOUS
  <2> DEFINE S == {w \in Workers : worker[w].pc = "send"}
  <2>1. S \subseteq BusyWorkers
    BY Zenon DEF BusyWorkers, Busy, Claimed
  <2>2. Cardinality(S) \in Nat /\ Cardinality(S) <= Cardinality(BusyWorkers)
    <3> HIDE DEF S
    <3> QED BY Zenon, <2>1, BusyFinite, FS_Subset, FS_CardinalityType
  <2>3. Cardinality(BusyWorkers) <= overruns + 1 /\ overruns \in Nat /\ Cardinality(BusyWorkers) \in Nat
    BY BusyFinite DEF LeaseInv, OneMoreThanOverruns
  <2>4. Cardinality(S) <= 1 + overruns
    <3> HIDE DEF S
    <3> QED BY <2>2, <2>3
  <2> QED BY Zenon, <2>4 DEF OverlapsCounted
<1> QED BY <1>1, <1>2, LeaseStart, LeaseInductive, TimedInvariant, PTL

-----------------------------------------------------------------------------
(* Lifecycle *)

\* By then the loop has seen the cancellation.
LastStart == IF BrpopTimeout > DrainTimeout THEN BrpopTimeout ELSE DrainTimeout

PoolTypes ==
    /\ ctx \in {"live", "cancelled"} /\ elapsed \in Nat /\ late \in Nat
    /\ loop \in [pc: {"check", "pop", "go", "wait", "done"}, left: 0..BrpopTimeout]
    /\ delivery \in [Goroutines -> Idle..DrainTimeout]

DrainInv ==
    /\ PoolTypes
    /\ ctx = "live" => elapsed = 0 /\ late = 0
    /\ loop.pc \in {"pop", "go"} => late = 0
    /\ late <= 1
    /\ loop.pc = "pop" => elapsed + loop.left <= BrpopTimeout
    /\ loop.pc \in {"check", "go"} => elapsed <= LastStart
    /\ loop.pc \in {"check", "pop", "go"} /\ late = 0 =>
        \A g \in Goroutines : Delivering(g) => elapsed + delivery[g] <= DrainTimeout
    /\ loop.pc # "done" =>
        /\ elapsed <= DrainBound
        /\ \A g \in Goroutines : Delivering(g) => elapsed + delivery[g] <= DrainBound
    /\ loop.pc = "done" => \A g \in Goroutines : ~Delivering(g)

\* The closer and the group.
ExitInv ==
    /\ periodic \in [Periodic -> {"waiting", "due", "running", "done"}]
    /\ handlers \in Nat
    /\ closer.pc # "waiting" => server # "serving"
    /\ closer.pc = "ok" => handlers = 0
    /\ result # "none" => loop.pc = "done" /\ \A p \in Periodic : periodic[p] = "done"
    /\ result = "ok" => closer.pc = "ok"

-----------------------------------------------------------------------------

\* The constants as the steps below use them.
LEMMA Bounds ==
    /\ LastStart \in Nat /\ DrainBound \in Nat /\ DrainBound = DrainTimeout + LastStart
    /\ LastStart >= BrpopTimeout /\ LastStart >= DrainTimeout /\ LastStart <= DrainBound
    /\ DrainTimeout \in Nat /\ DrainTimeout >= 1 /\ BrpopTimeout \in Nat
BY LifecycleAssumption DEF LastStart, DrainBound

\* A step of the loop, or the end of a delivery, keeps the invariant of the drain.
LEMMA PoolStep ==
    ASSUME DrainInv, Pool \/ \E g \in Goroutines : EndDelivery(g)
    PROVE  DrainInv'
<1>1. ctx' = ctx /\ elapsed' = elapsed
  BY ZenonT(40) DEF Pool, CheckContext, DequeueId, DequeueNothing, StartDelivery, AwaitDeliveries, EndDelivery
<1>2. CASE CheckContext
  <2>1. /\ loop.pc = "check" /\ delivery' = delivery /\ late' = late
        /\ loop' = IF ctx = "live" THEN [pc |-> "pop", left |-> BrpopTimeout]
                                   ELSE [pc |-> "wait", left |-> 0]
    BY ZenonT(40), <1>2 DEF CheckContext
  <2>2. CASE ctx = "live"
    <3>1. loop'.pc = "pop" /\ loop'.left = BrpopTimeout /\ elapsed = 0 /\ late = 0
      BY ZenonT(40), <2>1, <2>2 DEF DrainInv
    <3>2. PoolTypes'
      BY <1>1, <2>1, <2>2, Bounds DEF DrainInv, PoolTypes
    <3> QED BY <1>1, <2>1, <3>1, <3>2, Bounds DEF DrainInv, Delivering
  <2>3. CASE ctx # "live"
    <3>1. loop'.pc = "wait" /\ loop'.left = 0
      BY Zenon, <2>1, <2>3
    <3>2. PoolTypes'
      BY <1>1, <2>1, <2>3, Bounds DEF DrainInv, PoolTypes
    <3> QED BY Zenon, <1>1, <2>1, <2>3, <3>1, <3>2, Bounds DEF DrainInv, Delivering
  <2> QED BY ZenonT(40), <2>2, <2>3
<1>3. CASE DequeueId \/ DequeueNothing
  <2>1. /\ loop.pc = "pop" /\ delivery' = delivery /\ late' = late
        /\ loop'.pc \in {"go", "check"} /\ loop'.left = loop.left
        /\ loop' \in [pc: {"check", "pop", "go", "wait", "done"}, left: 0..BrpopTimeout]
    BY Zenon, <1>3 DEF DequeueId, DequeueNothing, LoopGo, DrainInv, PoolTypes
  <2>2. elapsed <= LastStart
    BY <2>1, Bounds DEF DrainInv, PoolTypes
  <2>3. PoolTypes'
    BY Zenon, <1>1, <2>1 DEF DrainInv, PoolTypes
  <2> QED BY Zenon, <1>1, <2>1, <2>2, <2>3 DEF DrainInv, Delivering
<1>4. ASSUME NEW h \in Goroutines, StartDelivery(h) PROVE DrainInv'
  <2>1. /\ loop.pc = "go" /\ ~Delivering(h) /\ delivery' = [delivery EXCEPT ![h] = DrainTimeout]
        /\ late' = (IF ctx = "live" THEN late ELSE late + 1)
        /\ loop'.pc = "check" /\ loop'.left = loop.left
        /\ loop' \in [pc: {"check", "pop", "go", "wait", "done"}, left: 0..BrpopTimeout]
    BY ZenonT(40), <1>4 DEF StartDelivery, LoopGo, DrainInv, PoolTypes
  <2>2. late = 0 /\ elapsed <= LastStart /\ elapsed \in Nat
    BY ZenonT(40), <2>1 DEF DrainInv, PoolTypes
  <2>3. late' \in {0, 1} /\ (ctx = "live" => late' = 0 /\ elapsed = 0) /\ (late' = 0 => ctx = "live")
    BY <2>1, <2>2 DEF DrainInv
  <2>4. /\ delivery' \in [Goroutines -> Idle..DrainTimeout] /\ delivery'[h] = DrainTimeout
        /\ \A g \in Goroutines : g # h => delivery'[g] = delivery[g]
    BY <2>1, Bounds DEF DrainInv, PoolTypes, Idle
  <2>5. PoolTypes'
    BY <1>1, <2>1, <2>3, <2>4 DEF DrainInv, PoolTypes
  <2>6. ASSUME NEW g \in Goroutines, Delivering(g)'
        PROVE  /\ elapsed + delivery'[g] <= DrainBound
               /\ late' = 0 => elapsed + delivery'[g] <= DrainTimeout
    <3>1. CASE g = h
      BY <2>2, <2>3, <2>4, <3>1, Bounds
    <3>2. CASE g # h
      BY Zenon, <2>1, <2>2, <2>4, <2>6, <3>2 DEF DrainInv, Delivering
    <3> QED BY Zenon, <3>1, <3>2
  <2>7. elapsed <= DrainBound
    BY ZenonT(40), <2>1 DEF DrainInv
  <2> QED BY <1>1, <2>1, <2>2, <2>3, <2>5, <2>6, <2>7 DEF DrainInv
<1>5. CASE AwaitDeliveries
  <2>1. /\ loop.pc = "wait" /\ delivery' = delivery /\ late' = late
        /\ \A g \in Goroutines : ~Delivering(g)
        /\ loop'.pc = "done"
        /\ loop' \in [pc: {"check", "pop", "go", "wait", "done"}, left: 0..BrpopTimeout]
    BY ZenonT(40), <1>5 DEF AwaitDeliveries, LoopGo, DrainInv, PoolTypes
  <2>2. PoolTypes'
    BY ZenonT(40), <1>1, <2>1 DEF DrainInv, PoolTypes
  <2> QED BY ZenonT(40), <1>1, <2>1, <2>2 DEF DrainInv, Delivering
<1>6. ASSUME NEW h \in Goroutines, EndDelivery(h) PROVE DrainInv'
  <2>1. /\ loop' = loop /\ late' = late /\ delivery' = [delivery EXCEPT ![h] = Idle]
    BY ZenonT(40), <1>6 DEF EndDelivery
  <2>2. delivery' \in [Goroutines -> Idle..DrainTimeout]
    BY <2>1, Bounds DEF DrainInv, PoolTypes, Idle
  <2>3. \A g \in Goroutines : Delivering(g)' => Delivering(g) /\ delivery'[g] = delivery[g]
    BY Zenon, <2>1 DEF DrainInv, PoolTypes, Delivering
  <2>4. PoolTypes'
    BY Zenon, <1>1, <2>1, <2>2 DEF DrainInv, PoolTypes
  <2> QED BY ZenonT(40), <1>1, <2>1, <2>3, <2>4 DEF DrainInv
<1> QED BY ZenonT(40), <1>2, <1>3, <1>4, <1>5, <1>6 DEF Pool

\* Time passes only while the loop waits for BRPOP or for a delivery, whose end
\* is then at least a tick away.
LEMMA TickKeepsBound ==
    ASSUME DrainInv, NEW fired, PassTime(fired)
    PROVE  DrainInv'
<1>1. /\ ctx' = ctx /\ late' = late /\ elapsed \in Nat
      /\ elapsed' \in {elapsed, elapsed + 1} /\ (ctx = "live" => elapsed' = elapsed)
  BY ZenonT(40) DEF PassTime, DrainInv, PoolTypes
<1>2. /\ \A g \in Goroutines : delivery[g] # 0
      /\ loop.pc # "check"
      /\ loop.pc = "pop" => loop.left > 0
      /\ loop.pc = "go" => \A g \in Goroutines : Delivering(g)
      /\ loop.pc = "wait" => \E g \in Goroutines : Delivering(g)
  BY ZenonT(40) DEF PassTime, AllWait
<1>3. /\ delivery' \in [Goroutines -> Idle..DrainTimeout]
      /\ \A g \in Goroutines : Delivering(g) => delivery[g] \in 1..DrainTimeout /\ delivery'[g] = delivery[g] - 1
      /\ \A g \in Goroutines : Delivering(g)' => Delivering(g)
  <2>1. delivery' = [g \in Goroutines |-> IF Delivering(g) THEN delivery[g] - 1 ELSE Idle]
    BY ZenonT(40) DEF PassTime
  <2>2. \A g \in Goroutines : delivery[g] \in Idle..DrainTimeout
    BY ZenonT(40) DEF DrainInv, PoolTypes
  <2> QED BY <1>2, <2>1, <2>2, Bounds DEF Delivering, Idle
<1>4. /\ loop'.pc = loop.pc
      /\ loop.pc = "pop" => loop'.left = loop.left - 1
      /\ loop' \in [pc: {"check", "pop", "go", "wait", "done"}, left: 0..BrpopTimeout]
  BY <1>2, Bounds DEF PassTime, DrainInv, PoolTypes
<1>5. PoolTypes'
  BY <1>1, <1>3, <1>4 DEF DrainInv, PoolTypes
<1>6. ASSUME loop.pc = "pop" PROVE elapsed' + loop'.left <= BrpopTimeout /\ elapsed' <= DrainBound
  <2>1. loop.left \in Nat /\ elapsed + loop.left <= BrpopTimeout /\ loop.left > 0
    BY <1>2, <1>6 DEF DrainInv, PoolTypes
  <2> QED BY <1>1, <1>4, <1>6, <2>1, Bounds
<1>7. ASSUME loop.pc = "go" PROVE elapsed' <= LastStart /\ elapsed' <= DrainBound
  <2>1. PICK g \in Goroutines : TRUE
    BY ZenonT(40), LifecycleAssumption
  <2>2. elapsed + delivery[g] <= DrainTimeout /\ delivery[g] \in 1..DrainTimeout
    BY ZenonT(40), <1>2, <1>3, <1>7 DEF DrainInv
  <2> QED BY <1>1, <2>2, Bounds
<1>8. ASSUME loop.pc = "wait" PROVE elapsed' <= DrainBound
  <2>1. PICK g \in Goroutines : Delivering(g)
    BY ZenonT(40), <1>2, <1>8
  <2>2. elapsed + delivery[g] <= DrainBound /\ delivery[g] \in 1..DrainTimeout
    BY ZenonT(40), <1>3, <1>8, <2>1 DEF DrainInv
  <2> QED BY <1>1, <2>2, Bounds
<1>9. ASSUME NEW g \in Goroutines, Delivering(g)'
      PROVE  elapsed' + delivery'[g] <= elapsed + delivery[g] /\ elapsed + delivery[g] \in Nat /\ Delivering(g)
             /\ elapsed' + delivery'[g] \in Nat
  BY <1>1, <1>3, <1>9, Bounds
<1>10. /\ loop.pc \in {"check", "pop", "go"} /\ late = 0 =>
            \A g \in Goroutines : Delivering(g)' => elapsed' + delivery'[g] <= DrainTimeout
       /\ loop.pc # "done" => \A g \in Goroutines : Delivering(g)' => elapsed' + delivery'[g] <= DrainBound
  BY <1>9, Bounds DEF DrainInv
<1>11. loop.pc = "done" => \A g \in Goroutines : ~Delivering(g)'
  BY ZenonT(40), <1>3 DEF DrainInv
<1>12. loop.pc \in {"pop", "go", "wait", "done"}
  BY ZenonT(40), <1>2 DEF DrainInv, PoolTypes
<1>13. /\ ctx' = "live" => elapsed' = 0 /\ late' = 0
       /\ loop'.pc \in {"pop", "go"} => late' = 0
       /\ late' <= 1
  BY ZenonT(40), <1>1, <1>4 DEF DrainInv
<1> QED BY Zenon, <1>1, <1>4, <1>5, <1>6, <1>7, <1>8, <1>10, <1>11, <1>12, <1>13 DEF DrainInv

\* A step of the rest leaves the pool alone.
LEMMA OtherStep ==
    ASSUME DrainInv, UNCHANGED <<elapsed, poolVars>>, ctx' \in {ctx, "cancelled"}
    PROVE  DrainInv'
<1>1. /\ elapsed' = elapsed /\ loop' = loop /\ delivery' = delivery /\ late' = late
      /\ ctx' \in {"live", "cancelled"} /\ (ctx' = "live" => ctx = "live")
  BY DEF poolVars, DrainInv, PoolTypes
<1> QED BY ZenonT(40), <1>1 DEF DrainInv, PoolTypes, Delivering

\* The invariant of the drain.
LEMMA DrainInvariant == LifecycleSpec => []DrainInv
<1>1. LifecycleInit => DrainInv
  <2> SUFFICES ASSUME LifecycleInit PROVE DrainInv
    OBVIOUS
  <2>1. /\ ctx = "live" /\ elapsed = 0 /\ late = 0 /\ loop = [pc |-> "check", left |-> 0]
        /\ delivery \in [Goroutines -> Idle..DrainTimeout]
        /\ \A g \in Goroutines : ~Delivering(g)
    BY Bounds DEF LifecycleInit, Delivering, Idle
  <2> QED BY <2>1, Bounds DEF DrainInv, PoolTypes
<1>2. DrainInv /\ [LifecycleNext]_lifecycleVars => DrainInv'
  <2> SUFFICES ASSUME DrainInv, [LifecycleNext]_lifecycleVars PROVE DrainInv'
    OBVIOUS
  <2>1. CASE Pool \/ \E g \in Goroutines : EndDelivery(g)
    BY ZenonT(40), <2>1, PoolStep
  <2>2. ASSUME NEW fired \in SUBSET Periodic, PassTime(fired) PROVE DrainInv'
    BY ZenonT(40), <2>2, TickKeepsBound
  <2>3. ASSUME NEW p \in Periodic, PeriodicStep(p) PROVE DrainInv'
    BY ZenonT(40), <2>3, OtherStep DEF PeriodicStep, StartPass, EndPass, StopProcess
  <2>4. CASE Signal \/ ListenFails \/ Accept \/ Answer \/ StartShutdown \/ EndShutdown \/ Return
    BY ZenonT(40), <2>4, OtherStep DEF Signal, ListenFails, Accept, Answer, StartShutdown, EndShutdown, Return
  <2>5. CASE UNCHANGED lifecycleVars
    BY ZenonT(40), <2>5, OtherStep DEF lifecycleVars
  <2> QED BY Zenon, <2>1, <2>2, <2>3, <2>4, <2>5 DEF LifecycleNext
<1>3. LifecycleSpec => LifecycleInit /\ [][LifecycleNext]_lifecycleVars
  BY PTL DEF LifecycleSpec
<1> QED BY <1>1, <1>2, <1>3, PTL

\* The pool is done within DrainBound of the cancellation, after at most one more
\* delivery, for any number of goroutines and any two timeouts.
THEOREM DrainTheorem == LifecycleSpec => []DrainBounded
<1>1. DrainInv => DrainBounded
  BY ZenonT(40) DEF DrainInv, DrainBounded
<1> QED BY <1>1, DrainInvariant, PTL

-----------------------------------------------------------------------------

\* Once the listener is closed no request is accepted, and what has returned
\* does not start again.
LEMMA ExitStep ==
    ASSUME DrainInv, ExitInv, [LifecycleNext]_lifecycleVars
    PROVE  ExitInv'
<1>1. ASSUME Pool \/ \E g \in Goroutines : EndDelivery(g) PROVE ExitInv'
  <2>1. /\ periodic' = periodic /\ handlers' = handlers /\ closer' = closer
        /\ server' = server /\ result' = result
    BY ZenonT(40), <1>1 DEF Pool, CheckContext, DequeueId, DequeueNothing, StartDelivery, AwaitDeliveries,
                EndDelivery, serverVars
  <2>2. loop.pc = "done" => loop'.pc = "done"
    BY Zenon, <1>1 DEF Pool, CheckContext, DequeueId, DequeueNothing, StartDelivery, AwaitDeliveries,
                EndDelivery
  <2> QED BY ZenonT(40), <2>1, <2>2 DEF ExitInv
<1>2. ASSUME NEW p \in Periodic, PeriodicStep(p) PROVE ExitInv'
  <2>1. /\ handlers' = handlers /\ closer' = closer /\ server' = server
        /\ result' = result /\ loop' = loop /\ periodic[p] # "done"
        /\ periodic' \in [Periodic -> {"waiting", "due", "running", "done"}]
    BY ZenonT(40), <1>2 DEF PeriodicStep, StartPass, EndPass, StopProcess, serverVars, poolVars, ExitInv
  <2> QED BY ZenonT(40), <2>1 DEF ExitInv
<1>3. ASSUME NEW fired \in SUBSET Periodic, PassTime(fired) PROVE ExitInv'
  <2>1. /\ handlers' = handlers /\ server' = server /\ result' = result
        /\ closer'.pc = closer.pc \/ closer' = closer
    BY <1>3 DEF PassTime
  <2>2. closer'.pc = closer.pc
    BY ZenonT(40), <2>1
  <2>3. loop.pc = "done" => loop'.pc = "done"
    BY ZenonT(40), <1>3 DEF PassTime
  <2>4. periodic' \in [Periodic -> {"waiting", "due", "running", "done"}]
    BY ZenonT(40), <1>3 DEF PassTime, ExitInv
  <2>5. \A p \in Periodic : periodic[p] = "done" => periodic'[p] = "done"
    BY ZenonT(40), <1>3 DEF PassTime, ExitInv
  <2> QED BY ZenonT(40), <2>1, <2>2, <2>3, <2>4, <2>5 DEF ExitInv
<1>4. CASE Signal \/ ListenFails \/ Accept \/ Answer
  <2>1. /\ periodic' = periodic /\ closer' = closer /\ result' = result /\ loop' = loop
        /\ server # "serving" => server' # "serving"
    BY ZenonT(40), <1>4 DEF Signal, ListenFails, Accept, Answer, serverVars, poolVars
  <2>2. handlers' \in Nat /\ (handlers = 0 /\ server # "serving" => handlers' = 0)
    BY <1>4 DEF Signal, ListenFails, Accept, Answer, serverVars, ExitInv
  <2> QED BY ZenonT(40), <2>1, <2>2 DEF ExitInv
<1>5. CASE StartShutdown
  <2>1. /\ closer'.pc = "closing" /\ server' # "serving" /\ handlers' = handlers
        /\ periodic' = periodic /\ result' = result /\ loop' = loop /\ closer.pc = "waiting"
    BY ZenonT(40), <1>5 DEF StartShutdown, poolVars
  <2> QED BY ZenonT(40), <2>1 DEF ExitInv
<1>6. CASE EndShutdown
  <2>1. /\ closer'.pc = "ok" => handlers = 0
        /\ server' = server /\ handlers' = handlers /\ closer.pc = "closing"
        /\ periodic' = periodic /\ result' = result /\ loop' = loop
    BY <1>6 DEF EndShutdown, poolVars
  <2> QED BY ZenonT(40), <2>1 DEF ExitInv
<1>7. CASE Return
  <2>1. /\ server' = server /\ handlers' = handlers /\ closer' = closer
        /\ periodic' = periodic /\ loop' = loop
        /\ loop.pc = "done" /\ \A p \in Periodic : periodic[p] = "done"
        /\ result' = "ok" => closer.pc = "ok"
    BY ZenonT(40), <1>7 DEF Return, poolVars, serverVars
  <2> QED BY ZenonT(40), <2>1 DEF ExitInv
<1>8. CASE UNCHANGED lifecycleVars
  BY ZenonT(40), <1>8 DEF lifecycleVars, poolVars, serverVars, ExitInv
<1> QED BY ZenonT(40), <1>1, <1>2, <1>3, <1>4, <1>5, <1>6, <1>7, <1>8 DEF LifecycleNext

\* When Run has returned no delivery and no periodic pass is under way, and after
\* a clean return no handler either.
THEOREM ExitTheorem == LifecycleSpec => []CleanExit
<1>1. LifecycleInit => ExitInv
  BY DEF LifecycleInit, ExitInv
<1>2. DrainInv /\ ExitInv /\ [LifecycleNext]_lifecycleVars => ExitInv'
  BY ExitStep
<1>3. DrainInv /\ ExitInv => CleanExit
  BY Zenon DEF DrainInv, ExitInv, CleanExit
<1>4. LifecycleSpec => LifecycleInit /\ [][LifecycleNext]_lifecycleVars
  BY PTL DEF LifecycleSpec
<1>5. LifecycleSpec => []DrainInv
  BY Zenon, DrainInvariant
<1> QED BY <1>1, <1>2, <1>3, <1>4, <1>5, PTL
=============================================================================
