----------------------------- MODULE RetryTiming -----------------------------
(***************************************************************************)
(* The due time of a webhook's current row: backoff, visibility lease and  *)
(* the two clocks.  PostgreSQL's clock decides whether a claim succeeds;   *)
(* the process's own clock stamps the due time of a retry or a denied row, *)
(* decides when the poller moves the row to the queue and, in              *)
(* rescheduleIfNotDue, whether a refused row goes back to the schedule.    *)
(*                                                                         *)
(* A row's due time is committed first and the row put into the schedule    *)
(* afterwards, by another call: the poller, the scan, other workers and    *)
(* time come in between, and the second call may fail.                     *)
(*                                                                         *)
(* Times are relative to now and count down.  A tick is the resolution of  *)
(* next_retry_at; a score keeps milliseconds, an interval seconds.         *)
(***************************************************************************)
EXTENDS Integers, FiniteSets

CONSTANTS
    Workers,
    MaxRetryAttempts,   \* MAX_RETRY_ATTEMPTS
    RetryBaseDelay,     \* RETRY_BASE_DELAY, in ticks
    RetryMaxDelay,      \* RETRY_MAX_DELAY, in ticks
    DenialBackoff,      \* concurrencyBackoff or BREAKER_RESET_TIMEOUT, in ticks
    VisibilityTimeout,  \* VISIBILITY_TIMEOUT, in ticks
    TicksPerMilli,      \* resolution of a score
    TicksPerSecond,     \* resolution of an interval
    MaxInt,             \* the largest time.Duration
    MaxSkew,            \* bound: |process clock - PostgreSQL clock|
    ProcessTime,        \* bound: ticks a worker spends on a claimed row
    MaxQueue            \* bound: copies of the row's id in the queue

ASSUME TimingAssumption ==
    /\ MaxRetryAttempts \in Nat \ {0} /\ RetryBaseDelay \in Nat \ {0}
    /\ RetryMaxDelay \in RetryBaseDelay..MaxInt /\ MaxInt \in Nat
    /\ DenialBackoff \in Nat \ {0} /\ VisibilityTimeout \in Nat \ {0}
    /\ TicksPerMilli \in Nat \ {0} /\ TicksPerSecond \in Nat \ {0}
    /\ IsFiniteSet(Workers)
    /\ MaxSkew \in Nat /\ ProcessTime \in Nat /\ MaxQueue \in Nat \ {0}

VARIABLES
    skew,     \* process clock minus PostgreSQL clock
    phase,    \* ticks into the process's current millisecond
    row,      \* attempt_number, next_retry_at - NOW(), whether that is a lease, settled
    zset,     \* the row's time in the schedule - time.Now(), or NoEntry
    queue,    \* copies of its id in the queue
    worker,   \* per worker: next step, attempt it works on, ticks since its claim,
              \* the time it is about to put into the schedule
    since,    \* history: ticks since the last attempt failed, up to Horizon
    lost,     \* history: since the due time was last set, a worker that was to claim
              \* the row or to put it into the schedule has given up
    overruns  \* history: claims whose worker was still busy when the lease ran out,
              \* up to the number of workers

vars == <<skew, phase, row, zset, queue, worker, since, lost, overruns>>

Least(a, b) == IF a < b THEN a ELSE b

Greatest(a, b) == IF a > b THEN a ELSE b

\* int64(d.Seconds()), at least 1; in ticks.
secondsArg(d) == Greatest(1, d \div TicksPerSecond) * TicksPerSecond

Lease == secondsArg(VisibilityTimeout)

\* The farthest a due time can be.
Horizon == Greatest(Lease, Greatest(RetryMaxDelay, DenialBackoff)) + MaxSkew

NoEntry == -1

NoWork == [pc |-> "idle", attempt |-> 0, used |-> 0, at |-> 0]

Claimed == {"ready", "send"}

\* The steps before a claim, and those that lead to the schedule.
Placing == {"claim", "reread", "zadd"}

TypeOK ==
    /\ skew \in -MaxSkew..MaxSkew /\ phase \in 0..(TicksPerMilli - 1)
    /\ row \in [attempt: 1..MaxRetryAttempts, due: -MaxSkew..Horizon, leased: BOOLEAN, done: BOOLEAN]
    /\ zset \in NoEntry..(Horizon + MaxSkew) /\ queue \in 0..MaxQueue
    /\ worker \in [Workers -> [pc: {"idle"} \cup Placing \cup Claimed,
                               attempt: 0..MaxRetryAttempts, used: 0..ProcessTime,
                               at: 0..(Horizon + MaxSkew)]]
    /\ since \in 0..Horizon /\ lost \in BOOLEAN /\ overruns \in 0..Cardinality(Workers)

\* IngestPending has inserted the row, due now, and the handler has enqueued it.
Init ==
    /\ skew \in -MaxSkew..MaxSkew /\ phase \in 0..(TicksPerMilli - 1)
    /\ row = [attempt |-> 1, due |-> 0, leased |-> FALSE, done |-> FALSE]
    /\ zset = NoEntry /\ queue = 1
    /\ worker = [w \in Workers |-> NoWork]
    /\ since = Horizon /\ lost = FALSE /\ overruns = 0

-----------------------------------------------------------------------------
(* retryDelay *)

\* int64 arithmetic.
Wrap(x) == IF x > MaxInt THEN x - 2 * (MaxInt + 1) ELSE x

\* Mutant: capped after the multiplication.
growLate(delay) == Least(RetryMaxDelay, Wrap(3 * delay))

\* One turn of the loop.
grow(delay) ==
    IF delay >= RetryMaxDelay THEN delay
    ELSE IF delay > RetryMaxDelay \div 3 THEN RetryMaxDelay
    ELSE Wrap(3 * delay)

\* The delay before jitter.
backoff[attempt \in 1..MaxRetryAttempts] ==
    IF attempt = 1 THEN RetryBaseDelay ELSE grow(backoff[attempt - 1])

\* What it may return.
retryDelay(attempt) ==
    LET delay == backoff[attempt]
        jitter == delay \div 5
    IN  IF jitter <= 0 THEN {delay} ELSE (delay - jitter)..(delay + jitter - 1)

-----------------------------------------------------------------------------
(* The indexes *)

\* The poller compares scores: the due time's millisecond is not after now's.
ClaimDue ==
    /\ zset # NoEntry /\ phase + zset < TicksPerMilli
    /\ queue < MaxQueue
    /\ zset' = NoEntry /\ queue' = queue + 1
    /\ UNCHANGED <<skew, phase, row, worker, since, lost, overruns>>

\* Mutant: the scan's comparison the wrong way round.
FindNotDue ==
    /\ ~row.done /\ row.due > 0
    /\ queue < MaxQueue
    /\ queue' = queue + 1
    /\ UNCHANGED <<skew, phase, row, zset, worker, since, lost, overruns>>

\* The recovery scan, whether or not the row is in an index.
FindDuePending ==
    /\ ~row.done /\ row.due <= 0
    /\ queue < MaxQueue
    /\ queue' = queue + 1
    /\ UNCHANGED <<skew, phase, row, zset, worker, since, lost, overruns>>

-----------------------------------------------------------------------------
(* Deliverer.Process *)

Goto(w, pc) == worker' = [worker EXCEPT ![w].pc = pc]

Leave(w) == worker' = [worker EXCEPT ![w] = NoWork]

\* The status CAS of the row that w works on.
Pending(w) == worker[w].attempt = row.attempt /\ ~row.done

\* w has taken the row's id from an index, or has set its due time.
WillPlace(w) == worker[w].pc \in Placing /\ worker[w].attempt = row.attempt

Dequeue(w) ==
    /\ worker[w].pc = "idle"
    /\ queue > 0 /\ queue' = queue - 1
    /\ worker' = [worker EXCEPT ![w] = [NoWork EXCEPT !.pc = "claim", !.attempt = row.attempt]]
    /\ UNCHANGED <<skew, phase, row, zset, since, lost, overruns>>

\* Mutant: a row need not be due to be claimed.
ClaimPendingAnyTime(w) ==
    /\ worker[w].pc = "claim"
    /\ \/ /\ Pending(w)
          /\ row' = [row EXCEPT !.due = Lease, !.leased = TRUE]
          /\ lost' = FALSE
          /\ Goto(w, "ready")
       \/ ~Pending(w) /\ Goto(w, "reread") /\ UNCHANGED <<row, lost>>
    /\ UNCHANGED <<skew, phase, zset, queue, since, overruns>>

ClaimPending(w) ==
    /\ worker[w].pc = "claim"
    /\ \/ /\ Pending(w) /\ row.due <= 0
          /\ row' = [row EXCEPT !.due = Lease, !.leased = TRUE]
          /\ lost' = FALSE
          /\ Goto(w, "ready")
       \/ ~(Pending(w) /\ row.due <= 0) /\ Goto(w, "reread") /\ UNCHANGED <<row, lost>>
    /\ UNCHANGED <<skew, phase, zset, queue, since, overruns>>

\* w goes on to put attempt a of the webhook into the schedule.
ToSchedule(w, a, at) ==
    worker' = [worker EXCEPT ![w] = [pc |-> "zadd", attempt |-> a, used |-> 0, at |-> at]]

\* Mutant: compares the rounded scores.
rescheduleByScore(w) ==
    /\ worker[w].pc = "reread"
    /\ IF Pending(w) /\ phase + row.due - skew >= TicksPerMilli
       THEN ToSchedule(w, row.attempt, row.due - skew)
       ELSE Leave(w)
    /\ UNCHANGED <<skew, phase, row, zset, queue, since, lost, overruns>>

\* The row is read once more; what is scheduled is the due time it had then.
rescheduleIfNotDue(w) ==
    /\ worker[w].pc = "reread"
    /\ IF Pending(w) /\ row.due > skew
       THEN ToSchedule(w, row.attempt, row.due - skew)
       ELSE Leave(w)
    /\ UNCHANGED <<skew, phase, row, zset, queue, since, lost, overruns>>

\* The ZADD: it overwrites the score of the id, or is about an id that has been
\* replaced since.
Schedule(w) ==
    /\ worker[w].pc = "zadd"
    /\ zset' = IF worker[w].attempt = row.attempt THEN worker[w].at ELSE zset
    /\ Leave(w)
    /\ UNCHANGED <<skew, phase, row, queue, since, lost, overruns>>

\* At the concurrency limit, or the breaker says no: RescheduleSamePending asks
\* only that the row is pending.
rescheduleNoAttempt(w) ==
    /\ worker[w].pc = "ready"
    /\ \/ /\ Pending(w)
          /\ row' = [row EXCEPT !.due = DenialBackoff + skew, !.leased = FALSE]
          /\ lost' = FALSE
          /\ ToSchedule(w, row.attempt, DenialBackoff)
       \/ ~Pending(w) /\ Leave(w) /\ UNCHANGED <<row, lost>>
    /\ UNCHANGED <<skew, phase, zset, queue, since, overruns>>

Attempt(w) ==
    /\ worker[w].pc = "ready"
    /\ Goto(w, "send")
    /\ UNCHANGED <<skew, phase, row, zset, queue, since, lost, overruns>>

Succeed(w) ==
    /\ worker[w].pc = "send"
    /\ row' = IF Pending(w) THEN [row EXCEPT !.done = TRUE] ELSE row
    /\ Leave(w)
    /\ UNCHANGED <<skew, phase, zset, queue, since, lost, overruns>>

\* The successor replaces the row; ids of the old one find it settled.
handleFailure(w) ==
    /\ worker[w].pc = "send"
    /\ \/ /\ Pending(w) /\ row.attempt < MaxRetryAttempts
          /\ \E delay \in retryDelay(row.attempt) :
                /\ row' = [attempt |-> row.attempt + 1, due |-> delay + skew,
                           leased |-> FALSE, done |-> FALSE]
                /\ ToSchedule(w, row.attempt + 1, delay)
          /\ zset' = NoEntry /\ queue' = 0 /\ since' = 0 /\ lost' = FALSE
       \/ /\ Pending(w) /\ row.attempt = MaxRetryAttempts
          /\ row' = [row EXCEPT !.done = TRUE]
          /\ Leave(w)
          /\ UNCHANGED <<zset, queue, since, lost>>
       \/ ~Pending(w) /\ Leave(w) /\ UNCHANGED <<row, zset, queue, since, lost>>
    /\ UNCHANGED <<skew, phase, overruns>>

\* A call fails, or the process dies: a lease stays, and so does a due time that is
\* not in the schedule.
GiveUp(w) ==
    /\ worker[w].pc # "idle"
    /\ Leave(w)
    /\ lost' = (lost \/ WillPlace(w))
    /\ UNCHANGED <<skew, phase, row, zset, queue, since, overruns>>

\* The next call of a worker returns.
Proceed(w) ==
    \/ ClaimPending(w)
    \/ rescheduleIfNotDue(w)
    \/ Schedule(w)
    \/ rescheduleNoAttempt(w)
    \/ Attempt(w)
    \/ Succeed(w)
    \/ handleFailure(w)

-----------------------------------------------------------------------------

Busy(w) == worker[w].pc \in Claimed

\* The workers whose lease runs out with the next tick.
RunningOut == {w \in Workers : Busy(w) /\ worker[w].used + 1 = Lease}

Tick ==
    /\ \A w \in Workers : Busy(w) => worker[w].used < ProcessTime
    /\ phase' = (phase + 1) % TicksPerMilli
    /\ row' = [row EXCEPT !.due = Greatest(-MaxSkew, @ - 1)]
    /\ zset' = IF zset = NoEntry THEN NoEntry ELSE Greatest(0, zset - 1)
    /\ worker' = [w \in Workers |->
            IF Busy(w) THEN [worker[w] EXCEPT !.used = @ + 1]
            ELSE [worker[w] EXCEPT !.at = Greatest(0, @ - 1)]]
    /\ since' = Least(Horizon, since + 1)
    /\ overruns' = Least(Cardinality(Workers), overruns + Cardinality(RunningOut))
    /\ UNCHANGED <<skew, queue, lost>>

Next ==
    \/ ClaimDue \/ FindDuePending
    \/ \E w \in Workers : Dequeue(w) \/ Proceed(w) \/ GiveUp(w)
    \/ Tick

\* Time passes, every loop comes round and a worker's calls return.  Calls may
\* fail, but not every claim of a due row for ever.
Spec ==
    /\ Init /\ [][Next]_vars
    /\ WF_vars(Tick) /\ WF_vars(ClaimDue) /\ WF_vars(FindDuePending)
    /\ WF_vars(\E w \in Workers : Dequeue(w))
    /\ SF_vars(\E w \in Workers : ClaimPending(w) /\ Busy(w)')
    /\ \A w \in Workers : WF_vars(Proceed(w))

-----------------------------------------------------------------------------

\* A row that is in no index, with no worker and under no lease, is due within the
\* skew, or the call that was to put it into an index has failed ("recovery will
\* heal").  Nothing else strands a row: neither the poller's rounding, which makes
\* it early by up to a millisecond (unixScore's comment), nor whatever comes
\* between the commit of a due time and its ZADD.  With clocks that agree and no
\* failure the next recovery scan finds it.
StrandedOnlyBySkewOrFailure ==
    /\ ~row.done /\ ~row.leased
    /\ zset = NoEntry /\ queue = 0
    /\ \A w \in Workers : worker[w].pc = "idle"
    => row.due <= Greatest(0, skew) \/ lost

\* Three times as long after every attempt, in numbers without a limit.
tripled[attempt \in 1..MaxRetryAttempts] ==
    IF attempt = 1 THEN RetryBaseDelay ELSE 3 * tripled[attempt - 1]

\* The nominal delay: that, up to the maximum.
Nominal(attempt) == Least(RetryMaxDelay, tripled[attempt])

\* An attempt is made no sooner after the one before it has failed than "capped ×3
\* backoff with ±20% jitter" says, but for the difference of the clocks, whatever
\* the poller, the recovery scan and stale workers do in between; the cap keeps
\* the arithmetic from overflowing.
AttemptsSpaced ==
    \A w \in Workers : Busy(w) /\ worker[w].attempt = row.attempt /\ row.attempt > 1 =>
        LET nominal == Nominal(row.attempt - 1)
        IN  since >= nominal - nominal \div 5 + skew

\* Two requests of a webhook are under way together only if a worker was still
\* busy when its lease, cut to whole seconds, ran out, and every such claim lets
\* in one request more at most.  That is so although a worker that has outlived
\* its lease can end the lease of the next one (RescheduleSamePending asks only
\* that the row is pending).
OverlapsCounted ==
    Cardinality({w \in Workers : worker[w].pc = "send"}) <= 1 + overruns

\* A pending row is claimed again and again until it is settled, whatever the
\* clocks and the rounding do and whoever gives up.
EventuallyClaimed == []<>(row.done \/ \E w \in Workers : Busy(w))
=============================================================================
