# Verification of the webhook delivery service

TLA+ models of the service in this repository, the TLC runs that check them on
small instances, and proofs, checked by TLAPS, of their safety properties for
every size. `PROJECT.json` maps every modelling definition to the source lines
it stands for, and lists the hazards with the properties that would catch them.

## The system

A sender posts a signed webhook; the service stores it in PostgreSQL, answers,
and delivers it to the subscription's target with retries. PostgreSQL holds the
truth (`subscriptions`, `delivery_logs`, `ingest_idempotency`). Redis holds what
can be derived from it: a work queue (LIST), a retry schedule (ZSET), a
dead-letter list (LIST) and a cache of subscriptions.

| Part | State | Operations | Modules |
|---|---|---|---|
| Store (`internal/store`) | the three tables | one transaction per transition, decided by a conditional UPDATE | `DeliveryStore`, `Transactions`, `WebhookOutcome` |
| Redis indexes (`infra/queue`, `infra/scheduler`) | queue, schedule, dead-letter list | push, pop, ZADD, the claim script, LREM | `RedisIndexes` |
| Pool and deliverer (`worker/pool.go`, `delivery.go`) | the id in hand, one `Process` per goroutine | dequeue; load, claim, read subscription, admit, send, settle, write Redis | `Deliverer` |
| Periodic workers (`worker/retry.go`, `cleanup.go`) | a pass's snapshots | poll, recovery scan, cleanup, dead-letter reconciliation | `Maintenance` |
| API (`internal/api`) | a request between commit and Redis write | ingest (async and sync), replay, acknowledge, subscription routes, status | `Api`, `Ingest` |
| All of these together | | with crashes, failing calls and Redis losses | `DeliverySystem` |
| Clocks and backoff (`worker/retry.go`, `delivery.go`) | due time, lease, score of one row | claim, reschedule, retry, poll, scan, in ticks | `RetryTiming` |
| Runtime controls (`infra/breaker`, `semaphore`, `registry`) | five atomics; permits; the registry's entry | Allow, Record..., TryAcquire, Release, Get, Remove, Sweep | `CircuitBreaker`, `Permits`, `DeliveryControls` |
| Rate limit (`infra/ratelimit`) | tokens, last refill | Allow, sweep, reset | `TokenBucket` |
| Subscription state (`internal/subscription`) | cache entry, lock stripes, dirty map | GetByID, mutations with eviction | `SubscriptionState` |
| Supervision (`internal/lifecycle`, `cmd`) | group context, loops, listener | signal, failure, cancellation, drain, shutdown | `Lifecycle` |

How they meet: every transition of a delivery is a PostgreSQL transaction,
followed by a Redis write that may be lost. A worker that pops an id must win a
compare-and-swap on the row's `next_retry_at` (the visibility lease) before it
sends, and another on `status` before anything it learnt counts. A retry is a
new row; so is a replay. The recovery scan and the reconciler rebuild the
indexes from the tables.

## Modules

```
DeliveryStore <- RedisIndexes <- Deliverer <- Api ---+
  |  |                 ^------- Maintenance ---------+- DeliverySystem <- SystemProofs
  |  +- StoreRefinement (implements WebhookOutcome) <- DeliveryStoreProofs
  |                     (extended by SystemProofs and TransactionsProofs)
  +- Transactions <- StatementProofs <- TransactionsProofs
Permits, CircuitBreaker <- DeliveryControls <- ControlsProofs
TokenBucket <- Ingest <- IngestProofs
RetryTiming, Lifecycle <- TimingProofs
SubscriptionState <- SubscriptionStateProofs
```

An arrow is EXTENDS. Each `MC...` module adds the symmetry sets and constants TLC
needs. Operators marked "Mutant" are deliberate faults. They are used nowhere in
the specifications; put in place of the definition that follows, each breaks the
property that is meant to notice it.

**DeliveryStore**: the tables. A transaction is one action that carries only the
winning case; losing a compare-and-swap is the negation of its guard.
`next_retry_at` is abstracted to whether it has passed (`now`, `later`), or is
NULL on a young or an old row (`null`, `orphan`); `Elapse` is time passing. Row
ids grow with insertion and stand for `created_at`. Retention, the age limit of
dead letters and the key TTL pick any horizon or any set of old entries.
`InsertLeaseLess` is a row some other writer left without `next_retry_at`, the
case `RearmLeaseLessPending` and its test exist for.

**WebhookOutcome** and **StoreRefinement**: the abstract life cycle of one
webhook as `GET /status/{webhook_id}` shows it, and the mapping from the rows,
which is the handler's own: order by replay and attempt number, take the last.

**Transactions**: the same transactions statement by statement. A statement
waits for the row locks it needs and evaluates its WHERE clause when it has
them; its writes are noted in the transaction (`image`, `new`, `owner`, `slot`)
and become visible at `Commit`. The foreign-key check, the counter, the delete
and its cascade take the lock modes PostgreSQL gives them (external, modelled
from how `internal/store` relies on them). The stripe that `subscription.State`
holds around success, final failure, update and deletion is a guard of their
first step. Connections are lost anywhere; a member of a wait cycle is aborted.
An ingest on a subscription that is gone, which a stale cache entry lets
through, counts as a fault too. Statements that change only `next_retry_at`
and the retention sweeps are left to `DeliveryStore`, and so is the order in
which a statement on many rows locks them.

**RedisIndexes**: a LIST is the number of copies of each id, so which one is
popped is open. Pushing to a full queue waits (bound `MaxCopies`); the
dead-letter count saturates, since LREM takes all copies. Any scheduled member
may be due, because its score is compared with the process clock.

**Deliverer**: `Process`, one step per PostgreSQL, Redis or HTTP call. A worker
gives up at any call (`CallFails`); an error after the call took effect is the
same as giving up at the next one. The subscription is read as the database has
it, and admission by semaphore and breaker is an open choice here.

**Maintenance**: the periodic passes, broken at their calls. Recovery's keyset
pages and re-arm batches are taken together: with due times reduced to "passed
or not", a page is some subset of what is due, and the scan goes on until there
is none left. The two statements of a cleanup pass are on different tables, and
how old is old is open, so they are two outcomes.

**Api**: the state-changing handlers. A request that is refused changes nothing.
Sync mode continues as `Process` on the request's goroutine.

**DeliverySystem**: all of it on one PostgreSQL and one Redis, with failing
calls, crashes and Redis losses, `MaxFaults` of them. `Active` names the
occasional actors that appear in a run.

**RetryTiming**: one row in ticks, with two clocks, scores cut to milliseconds
and intervals cut to whole seconds (`secondsArg`), `retryDelay` in integers of
bounded width, the lease as time left, and several workers that may outlive it.
The commit of a due time and the ZADD after it are two steps; either may fail
(`GiveUp`), and the poller, the scan and other workers come in between.

**CircuitBreaker**: every atomic operation is a step, and the steps of all
goroutines interleave. Time is whether the reset timeout has passed. `Stalls` says
how long a goroutine may be held up inside a method: for less than a reset timeout
(`"short"`) or at will (`"long"`). Two histories say who is to blame: `late`, a
RecordFailure has raised the generation since Allow set half-open; `robbed`, the
probes whose reservation another goroutine's report has cleared.

**Permits**: semaphores as objects with an identity, because the registry may
drop one (sweep, deletion, disablement) while its permits are out, and the next
`Get` makes another. **DeliveryControls** is `Process` with both: the
permit first, then the breaker's own steps, and what each refusal gives back.

**TokenBucket** counts in the code's units and keeps the exact bucket beside it
as a history variable, neither swept nor reset. What a refill adds is a set: the
product rounded down or, since it is computed in float64, one unit less where the
exact product is whole (`added`). **Ingest** is the handler's order of checks
(signature and drift window, bucket, key and row) against rotations, pruning, and
a request that is repeated, delayed or duplicated. `ResetRuntime` removes the bucket
at any time; a handler that may have fetched it before (`"stray"`) can still charge
the old one. The subscription is read as the database has it. A stale cache entry,
which only a failed eviction and a restart or a late SET leave behind, is
`SubscriptionState`'s matter.

**SubscriptionState**: versions of one row, its cache entry, per-process stripes
and dirty marks; what a version says of `is_active` and the secret, so that the
read-modify-write of `handleUpdateSubscription` can be followed. A failed Redis
command may have been executed or not, a SET even later; a failed commit too.

**Lifecycle**: `Supervisor.Run` with the pool's loop, the listener, `Shutdown`
and the periodic processes. What can run does so before time passes.

## Runs

| Run | Instance | What it shows |
|---|---|---|
| store | 2 webhooks, 1 subscription, 1 key, 4 rows, 2 attempts, 1 replay | every order of transactions keeps `OneLiveRow`, `NewestRowIsCurrent`, `RetryHasSuccessor`, `BudgetRespected`, `KeyNamesAcceptedWebhook`, `SettledStaysSettled`, `WorkOnlyCascades`, and implements `WebhookOutcome` (`ImplementsOutcome`) |
| transactions | 2 clients, 2 webhooks, 3 rows, 1 fault | statement by statement: `ImplementsStore`, `WonRowKeepsItsSubscription`, `CyclesNeedDeleteAndInsert`, `EveryTransactionEnds` |
| pipeline | 1 webhook, 2 attempts, 2 workers, recovery | `LeaseExclusive`, `OutcomeJustified` with duplicates and expiring leases |
| sync | 1 worker and a sync request, recovery, update, delete | `ImplementsStore` |
| recovery | 1 worker, 1 fault of any kind, deletion, a lease-less row | `EveryWebhookSettles` |
| dead_letters | 2 workers, triage, reconciler, cleanup, 1 fault | `RemovesOnlySettled`, `DLQConverges` |
| retry_timing | 2 workers, 3 attempts, skew of 1 tick, 2 ticks a millisecond | `StrandedOnlyBySkewOrFailure`, `AttemptsSpaced`, `OverlapsCounted`, `EventuallyClaimed` |
| controls | 2 goroutines, 2 semaphores, limit 1, threshold 1, 5 calls of the breaker, stalled at will | `PermitsAccounted`, `LimitExceededOnlyByPolicy`, `WedgedOnlyByLateEra`, `SecondProbeOnlyAfterRelease`, `OpenAdmitsProbe` |
| ingest | 2 handlers, 1 request, 2 rotations, 1 reset | `AcceptedSeldom`, `RefusedOnlyAfterTwo`, `OverIdealOnlyByResets`, `LossBounded` |
| cache | 1 process, 2 goroutines, 3 versions, 2 faults, 1 restart | `FreshRead`, `StaleAtMostTTL`, `UpdateUndoesOnlyConcurrent`, `RotationKept` |
| lifecycle | 2 goroutines, 2 periodic processes, 1 handler | `DrainBounded`, `CleanExit`, `StopsAsAWhole` |
| breaker_wedge | 2 callers, no stall as long as a reset timeout | violation: see below |

### Where the code and its words differ

`breaker_wedge` refutes `NotWedged`. `circuit_breaker.go:32` promises one probe
after the reset timeout; a probe admitted between the breaker's opening and its new
generation is never recognized, and the breaker stays half-open.
`WedgedOnlyByLateEra`, checked by `controls` and proved, says that nothing else
wedges it: it takes one of the two places where RecordFailure stores the state first
and raises the generation afterwards (lines 81-82 and 88-89).

Met while modelling, and reflected in how properties are stated:

- `delivery.go:149-150` says a refused row is rescheduled. With a process clock
  ahead of PostgreSQL's it is not, and waits for the recovery scan:
  `StrandedOnlyBySkewOrFailure` bounds the wait by the skew. A row whose ZADD failed
  waits for its due time and the scan ("recovery will heal").
- `circuit_breaker.go:53` says "exactly one probe". Two can be out together, in the
  states of `controls` too: a report that passed the token check before the first
  probe was admitted clears `probing` after it (lines 69 and 83), and opens the way
  for a second. `SecondProbeOnlyAfterRelease` says that this is the only way.
- `token_bucket.go:3-4` says "Fixed-point (×1000) avoids float drift in the refill
  math". The refill is a float64 product cut to an integer, and each call loses up to
  a unit, a thousandth of a request; `LossBounded` says that no more is lost.
- `resetRuntime` (`state.go:169`) also runs after a disablement, and the next
  request after a reactivation finds a full bucket: `OverIdealOnlyByResets` counts
  a burst for each.
- `docs/ARCHITECTURE.md:97` and `:146`: stripes belong to a process, so two
  replicas reopen the commit-to-evict race. The run `cache` and its theorems are
  about one process (`OneProcess`).
- `pool.go:46-47` speaks of one drain timeout. An id popped before the
  cancellation may start after it with a deadline of its own, so the bound is
  `DrainBound`, about two.
- `config.go:189` asks `IDEMPOTENCY_TTL` to cover the drift window. A request
  verifies for longer than that (`Lifetime`), so at the defaults, where the two are
  equal, a request whose sender's clock is ahead can be accepted twice:
  `AcceptedSeldom` says how often, for any TTL, and the run `ingest` reaches two.
- `config.go:192` compares the registry's idle time with the HTTP timeout, not
  with `DRAIN_TIMEOUT`, which bounds a delivery; `LimitExceededOnlyByPolicy` asks
  for the latter.
- `VISIBILITY_TIMEOUT` is cut to whole seconds (`secondsArg`, `dlq.go:148`);
  `OverlapsCounted` is about the lease that is left.
- `disabled` is true in `FinalizeFailure` when an operator deactivated the
  subscription during the attempt, where the comment says "just disabled"
  (`delivery_lifecycle.go:177`): permits are then reset without a disablement.
- The "Subscription vanished" case of `FinalizeFailure` never happens
  (`WonRowKeepsItsSubscription`).

### Bounds

The chains of a webhook interact only through its own rows: two attempts give a
first, a retried and a spent one; one replay gives a second chain. Four rows let
two webhooks interleave their chains, or one go through both of its. Two workers
are enough for a claim to be contested and a lease to be taken over. One copy of
an id in the queue is one more than the copies already popped, so duplicates
still occur. One fault can hit any call; several faults are covered as far as
each is followed by recovery. Two clients make every pair of transactions meet,
and three rows let one insert while the other has won. Two goroutines exceed a
limit of one. Five calls of the breaker suffice for open, probe, a second probe,
reopen and close; three versions for two mutations around a read. In `retry_timing`
the delays are 2 and 5 ticks, so the cap, and an overflow of `MaxInt` (5) if it came
late, occur, and `ProcessTime` equals the lease that is left of the timeout, so
overruns occur. In `ingest` the grace window has the least value for which the
premise holds, and the TTL one for which a second delivery occurs. One reset meets
handlers at every step; both summands of `OverIdealOnlyByResets` are reached.
`added` rests on a bound of its own: three roundings of a float64 are off by less
than the 10^-9 by which a product of nanoseconds that is not whole differs from a
whole number, as long as 3 * `MaxTokens` * 10^9 < 2^53, which is a burst of up to
3000 requests (200 by default).
`EventuallyClaimed`, `EveryWebhookSettles`, `DLQConverges`, `StopsAsAWhole` and
`EveryTransactionEnds` are checked without symmetry.

The bounds are constants named in the modules (`MaxRows`, `MaxReplays`,
`MaxCopies`, `MaxFaults`, `MaxCalls`, `MaxVersions`, `MaxRestarts`, `MaxLate`,
`MaxSkew`, `ProcessTime`, `MaxQueue`, `MaxHandlers`, `HandlingTime`,
`MaxRotations`, `MaxResets`). The theorems hold for all their values. Deadlock is
not checked: each bound ends its run, and a service with no webhook left has
nothing to do.

### Fairness

`DeliverySystem.FairSpec` assumes weak fairness of each goroutine's own steps,
of the dequeue loop, of each periodic worker (their loops come round) and of the
database clock. It assumes strong fairness of admission: the breaker admits a
probe per reset timeout and permits are released, so who keeps asking is let
through. The wedged breaker is the case in which the code does not give this. No
fault and no request is owed. Faults and requests are bounded, so `DLQConverges`
says: once they stop, list and flags agree. `RetryTiming` assumes that time
passes, every loop comes round and a worker's calls return; calls may fail, but not
every claim of a due row for ever (strong fairness of a successful claim).
`Lifecycle` assumes
that goroutines are scheduled, that calls return by their deadlines and that
time passes; nothing makes a handler end. `Transactions` assumes strong fairness of
a client's statement, since PostgreSQL queues the waiters of a row and the first
is served, and weak fairness of the deadlock detector. A deletion waits
for the rows of its cascade one after the other; that this ends rests on the
bound on rows.

## Proofs

All for any sets and any values of the constants that satisfy the modules'
named assumptions, which say what `config.go` validates and what a bound must
be; TLC evaluates them in the runs.

| Module | Theorems | Says |
|---|---|---|
| `DeliveryStoreProofs` | `StoreInvariant`, `OneLiveRowTheorem`, `NewestRowTheorem`, `RetrySuccessorTheorem`, `BudgetTheorem`, `KeyTheorem`, `SettledTheorem`, `CascadeTheorem`, `StoreImplementsOutcome`, `ReportTheorem`, `StatusTheorem` | the store's invariants and action properties; it implements `WebhookOutcome`; what is reported of a webhook is the work there is, and only advances |
| `StatementProofs`, `TransactionsProofs` | `SerializableTheorem`, `TransactionsKeepTables`, `TransactionsImplementOutcome`, `WonRowTheorem`, `CyclesTheorem` | interleaved transactions implement `DeliveryStore`, so they keep its invariants and implement `WebhookOutcome`; the two invariants on locks |
| `SystemProofs` | `ServiceImplementsStore`, `ServiceKeepsTables`, `ServiceImplementsOutcome`, `LeaseTheorem`, `OutcomeTheorem`, `RemovalTheorem` | the composed service implements `DeliveryStore`, so every theorem on the store holds of it; its safety properties |
| `ControlsProofs` | `ControlsPermitsAccounted`, `ControlsLimit`, `ControlsImplementPermits`, `ControlsImplementBreaker` | the composition implements both of its parts and keeps their properties |
| | `OpenAdmitsProbeTheorem`, `WedgedTheorem`, `SecondProbeTheorem`, and `ControlsOpenAdmitsProbe`, `ControlsWedged`, `ControlsSecondProbe` of the composition | the breaker under every interleaving of its atomic operations |
| `IngestProofs` | `QuotaTheorem`, `LossTheorem`, `AcceptedSeldomTheorem`, `RefusedTheorem` | the limiter against the exact bucket; admission in time |
| `TimingProofs` | `OverlapTheorem`, `BackoffIsNominal`, `StrandedTheorem`, `SpacedTheorem`, `DrainTheorem`, `ExitTheorem` | leases under any clocks; the backoff loop and the schedule; the drain and the exit |
| `SubscriptionStateProofs` | `FreshReadTheorem`, `StaleTheorem`, `RotationTheorem`, `UpdateTheorem` | reads and updates of one process (`OneProcess`) |

**The store.** That a webhook has one live row is not inductive, since nothing in
the tables forbids a second. It follows from an order: the rows of a webhook
increase in (replay, attempt) as they are inserted, and only the newest can be
live (`NewestRowIsCurrent`). Only a live row gets a successor (a retry needs a
pending row, a replay a flagged one), so the new row comes after the newest and
takes liveness from it. That needs the budget (a flagged row is spent and a
replay starts a higher chain), the `Shape` of the tables (unused ids are blank,
a webhook's rows have one subscription, so a cascade takes all of them), and,
for `RetryHasSuccessor` under retention, that deletion goes by age: a successor
is younger, so it goes with its predecessor or after it. `StoreInv` is the
conjunction. Actions that insert nothing, or change one row, share general
lemmas (`NoInsertionInv`, `RowUpdated`, `FlagsCleared`, `RowsDeleted`,
`RowInserted`).

That the reported status follows `WebhookOutcome` rests on the same order, and on
one more invariant: a webhook that has rows has a last one (`HasNewest`), which
an insert makes and retention, going by age, leaves for last (`NewestStep`).
`handleWebhookStatus` reports the newest row of a webhook, and by
`NewestRowIsCurrent` that is the only row that can still change; so a step on
any other row leaves the report alone (`StatusKept`, `OthersKept`), and a step
on the newest one, or a newer row, is one of the promised transitions
(`ReportedStep`, from one lemma for each kind of transaction). Two consequences
are stated for the reader of a status, and hold of the interleaved transactions
and of the service too (`TransactionsKeepTables`, `ServiceKeepsTables`).
`ReportsTheWork`: a row that is left to deliver or triage is the one reported, and
"delivered" means that none is left. `StatusOnlyAdvances`: a status changes only to
a later (replay, attempt), to the end of the attempt, or by the record going. With
the budget this bounds the changes between two replays, the safety half of
`EveryWebhookSettles`. The second follows from the life cycle, step by step
(`StepAdvances`), once every status is known to be `Plausible`. Neither is listed in
a configuration: the `store` run checks `ImplementsOutcome`, which says more than the
second, and the first is only proved.

**Transactions.** The refinement mapping is the identity on the tables: all
steps but the commit stutter. The invariant `TxInv` says that what an open
transaction has read and noted still holds (`Holds`) at every later step. It is
kept because of what separates any two of them (`Apart`): no row image in
common, no key or webhook id taken twice, no two on a stripe, no incompatible
locks on a subscription. A commit is then the store's step, from `Holds`, and it
cannot disturb another's `Holds`, from `Apart`. `StatementProofs` has the lemmas
on one transaction and on what its commit does to the tables (`Framed`),
`TransactionsProofs` those on the others and the theorems.

**The service.** A goroutine works with what it read some calls ago. What makes
that safe is what stays true of an old row whoever writes in between
(`OldRowsKept`): it is not pending again, not live again, and its lease ends
only by the clock. `SystemInv` adds to `StoreInv` what each actor relies on: a
worker's held lease is in the table (`Fine`), an id handed to LREM is settled
(`Requested`, `Reconciling`), and the dead-letter list holds no row that is
still pending (`ListedPast`), which is why two snapshots of different ages do no
harm. Every step of every actor keeps the parts of all others by `OldRowsKept`.

**The controls.** Permits are counted by their holders. That the sweep is never
the reason for exceeding the limit needs a relation in time: a semaphore in use
was fetched within one deadline (`UsedRecently`), so while deadlines fit into
the idle time only a policy change removes it (`CurrentOrRetired`). For the
breaker, outside the half-open state `probing` means that some goroutine is about
to enter that state or to clear the flag (`ProbeAccounted`).

A method of the breaker makes several atomic accesses, and `NotWedged` is not true
of every interleaving of them, as `breaker_wedge` shows. For `WedgedOnlyByLateEra` a
half-open breaker is followed from the store that made it so: the goroutine that did
it raises the generation next and takes the result as its token, and from then on
only a RecordFailure raises it again, which `late` notes (`EraAwaited`). For
`SecondProbeOnlyAfterRelease`, a goroutine that carries a probe and was not robbed
is the reason why `probing` is set (`ProbeReserved`), and while it is set no
compare-and-swap succeeds.

**Ingest.** Every step gives the code's bucket, with what the time since the last
refill is worth, no more than the exact one, but for a reset (`AllowEffect`,
`SweepEffect`, `TickEffect`). A reset gives a burst at most, and turns handlers into
strays, each of which may take a token from the exact bucket alone. `QuotaInv` keeps
the two apart: what is held and what the strays can still take stays within the exact
bucket and the resets so far. For `AcceptedSeldom`, a delivery has spent a period
(the TTL and a tick) when its key is pruned, and the age of its key before (`Spent`);
all that a request has spent fits into the time since it was signed (`SpentYounger`)
and, under a copy that was verified in time, grows by `HandlingTime` at most
(`SpentKept`). For rotations, a secret installed after the signing is younger than the
request (`SecretYounger`).

**Time.** There are never more busy workers than claims that have outlived their
lease, but for one, whose time and the row's due time then add up to a lease
(`OneMoreThanOverruns`). A claim needs a due row, and by then that one has outlived
its own. A worker that sets another due time is no longer busy afterwards, so that
one busy worker less is to be accounted for. A pending row that is not leased is in the queue or the schedule, or a
worker is about to look at it or to place it, or it is due within the skew, or such a
worker has given up (`Tracked`), and only the last two are left when no index and no
worker has it. For `AttemptsSpaced`, either the least delay since
the last failure has passed, or what is left of it is in the row's due time and
no worker has claimed the row (`Spaced`). How long that delay is comes from `BackoffIsNominal`:
the loop of `retryDelay` computes the tripled delay cut at the maximum. It is an
induction over the attempts, done as a least counterexample in a set of naturals
(`LeastElement`). `DelayBounds` then bounds every delay. The drain follows the
pool's loop after the cancellation: until it has begun its last delivery, every
delivery is from before and ends within one timeout.

**The cache.** An entry older than a mutation that has returned is marked dirty
for as long as it lives (`Marked`), and hides only versions younger than itself
and the delay of a SET (`Young`). Both rest on the stripe: what a goroutine
fetched and has yet to write is the row itself (`Sees`). An update that was
not given `is_active` writes what its read returned, a version between what had
returned when the read began and the row (`Known`). If that differs from the row,
one of the versions in between changed it (`ChangedBetween`, again by a least
element).

Only model-checked: the liveness properties (`EveryWebhookSettles`,
`DLQConverges`, `EventuallyClaimed`, `StopsAsAWhole`, `EveryTransactionEnds`),
since fairness and `ENABLED` are out of the prover's reach. Every safety property
of a passing run is a theorem, the cache's for one process.

## What is not modelled

- Metrics and logging: counters nothing reads back.
- Signatures, ids, payloads, URL and event validation: which secret signed a
  request, and when, is kept; the bytes are not.
- The dialer, request building, routing, encoding, middleware and read-only
  routes: pure I/O, or no modelled state changes. A refused connection is a
  failed attempt.
- Start-up, migrations and loading the configuration: before the service runs.
- The pages of the recovery scan, and the order in which a statement on many
  rows locks them, as said above.
- Several replicas of the service against one cache, apart from the parameter
  `Processes` of `SubscriptionState`; against one PostgreSQL and one Redis they
  are more goroutines of `DeliverySystem`.
