---------------------------- MODULE DeliveryStore ----------------------------
(***************************************************************************)
(* The PostgreSQL tables and every transaction on them: internal/store and *)
(* migrations/000001_initial_schema.up.sql.                                *)
(*                                                                         *)
(* A transaction is one action: each decides on a single row with a        *)
(* conditional UPDATE and commits everything it writes together.  Only the *)
(* winning case changes state; the losing case (0 rows affected) is the    *)
(* negation of the action's guard and is left to the callers.              *)
(*                                                                         *)
(* Row ids are taken in insertion order, which stands for created_at.      *)
(* next_retry_at is compared with NOW() only, so it is abstracted to       *)
(*   "now"    next_retry_at <= NOW()      "later"   next_retry_at > NOW()  *)
(*   "null"   NULL, row young             "orphan"  NULL, row older than   *)
(*                                                  ORPHAN_THRESHOLD       *)
(* and Elapse is the clock passing the value.                              *)
(***************************************************************************)
EXTENDS Naturals

CONSTANTS
    Webhooks,              \* webhook ids the ingest handler may mint
    Subs,                  \* subscription ids
    Keys,                  \* idempotency keys senders use
    None,                  \* SQL NULL / an absent header
    MaxRetryAttempts,      \* MAX_RETRY_ATTEMPTS
    AutoDisableThreshold,  \* AUTO_DISABLE_THRESHOLD
    MaxRows,               \* bound: delivery_logs rows ever inserted
    MaxReplays             \* bound: replays of one webhook

ASSUME StoreAssumption ==
    /\ MaxRetryAttempts \in Nat \ {0}
    /\ AutoDisableThreshold \in Nat \ {0}
    /\ MaxRows \in Nat
    /\ MaxReplays \in Nat
    /\ None \notin Webhooks \cup Subs \cup Keys

VARIABLES
    logs,    \* delivery_logs
    subs,    \* subscriptions
    idem,    \* ingest_idempotency: (subscription, key) -> webhook
    minted,  \* webhook ids handed out so far
    nextId   \* next row id

storeVars == <<logs, subs, idem, minted, nextId>>

RowIds == 1..MaxRows

Statuses == {"absent", "pending", "success", "failed_attempt", "final_failure"}

DueTimes == {"null", "orphan", "later", "now"}

Row == [status: Statuses, webhook: Webhooks \cup {None}, sub: Subs \cup {None},
        attempt: Nat, replay: Nat, due: DueTimes, inDLQ: BOOLEAN]

\* What is left of a row that was never inserted, or was deleted.
NoRow == [status |-> "absent", webhook |-> None, sub |-> None,
          attempt |-> 0, replay |-> 0, due |-> "null", inDLQ |-> FALSE]

Subscription == [state: {"new", "live", "gone"}, active: BOOLEAN, failures: Nat]

PendingRow(w, s, n, r, d) ==
    [status |-> "pending", webhook |-> w, sub |-> s, attempt |-> n, replay |-> r,
     due |-> d, inDLQ |-> FALSE]

Present(i) == logs[i].status # "absent"

Pending(i) == logs[i].status = "pending"

\* The row still stands for work somebody has to do: deliver it or triage it.
Live(i) == Pending(i) \/ logs[i].inDLQ

StoreTypeOK ==
    /\ logs \in [RowIds -> Row]
    /\ subs \in [Subs -> Subscription]
    /\ idem \in [Subs \X Keys -> Webhooks \cup {None}]
    /\ minted \subseteq Webhooks
    /\ nextId \in 1..(MaxRows + 1)

StoreInit ==
    /\ logs = [i \in RowIds |-> NoRow]
    /\ subs = [s \in Subs |-> [state |-> "new", active |-> FALSE, failures |-> 0]]
    /\ idem = [e \in Subs \X Keys |-> None]
    /\ minted = {}
    /\ nextId = 1

-----------------------------------------------------------------------------
(* subscription_repo.go *)

CreateSubscription(s, a) ==
    /\ subs[s].state = "new"
    /\ subs' = [subs EXCEPT ![s] = [state |-> "live", active |-> a, failures |-> 0]]
    /\ UNCHANGED <<logs, idem, minted, nextId>>

UpdateSubscription(s, a) ==
    /\ subs[s].state = "live"
    /\ subs' = [subs EXCEPT ![s].active = a]
    /\ UNCHANGED <<logs, idem, minted, nextId>>

\* Mutant: the keys table has no cascade.
DeleteSubscriptionKeepsKeys(s) ==
    /\ subs[s].state = "live"
    /\ subs' = [subs EXCEPT ![s] = [state |-> "gone", active |-> FALSE, failures |-> 0]]
    /\ logs' = [i \in RowIds |-> IF logs[i].sub = s THEN NoRow ELSE logs[i]]
    /\ UNCHANGED <<idem, minted, nextId>>

\* ON DELETE CASCADE takes the subscription's rows and idempotency keys along.
DeleteSubscription(s) ==
    /\ subs[s].state = "live"
    /\ subs' = [subs EXCEPT ![s] = [state |-> "gone", active |-> FALSE, failures |-> 0]]
    /\ logs' = [i \in RowIds |-> IF logs[i].sub = s THEN NoRow ELSE logs[i]]
    /\ idem' = [e \in Subs \X Keys |-> IF e[1] = s THEN None ELSE idem[e]]
    /\ UNCHANGED <<minted, nextId>>

-----------------------------------------------------------------------------
(* delivery_lifecycle.go *)

\* IngestPending, first use of the key or no key at all.  A deleted
\* subscription is a foreign-key violation; is_active is not looked at here.
IngestPending(s, k, w) ==
    /\ subs[s].state = "live"
    /\ w \notin minted
    /\ k # None => idem[<<s, k>>] = None
    /\ nextId \in RowIds
    /\ logs' = [logs EXCEPT ![nextId] = PendingRow(w, s, 1, 0, "now")]
    /\ idem' = IF k = None THEN idem ELSE [idem EXCEPT ![<<s, k>>] = w]
    /\ minted' = minted \cup {w}
    /\ nextId' = nextId + 1
    /\ UNCHANGED subs

\* A pending row with no next_retry_at, written by something other than this
\* program; the recovery scan and its test provide for it.
InsertLeaseLess(s, w) ==
    /\ subs[s].state = "live"
    /\ w \notin minted
    /\ nextId \in RowIds
    /\ logs' = [logs EXCEPT ![nextId] = PendingRow(w, s, 1, 0, "null")]
    /\ minted' = minted \cup {w}
    /\ nextId' = nextId + 1
    /\ UNCHANGED <<subs, idem>>

Claimable(i) == Pending(i) /\ logs[i].due = "now"

\* Mutant: the claim does not look at next_retry_at.
ClaimPendingAnyTime(i) ==
    /\ Pending(i)
    /\ logs' = [logs EXCEPT ![i].due = "later"]
    /\ UNCHANGED <<subs, idem, minted, nextId>>

ClaimPending(i) ==
    /\ Claimable(i)
    /\ logs' = [logs EXCEPT ![i].due = "later"]
    /\ UNCHANGED <<subs, idem, minted, nextId>>

\* next_retry_at is left as it is by every transition but MarkDropped.
MarkSuccess(i) ==
    /\ Pending(i)
    /\ logs' = [logs EXCEPT ![i].status = "success"]
    /\ subs' = [subs EXCEPT ![logs[i].sub].failures = 0]
    /\ UNCHANGED <<idem, minted, nextId>>

\* Mutant: the UPDATE goes by id alone, without the status.
FinalizeFailureByIdOnly(i) ==
    /\ Present(i)
    /\ logs' = [logs EXCEPT ![i].status = "final_failure", ![i].inDLQ = TRUE]
    /\ UNCHANGED <<subs, idem, minted, nextId>>

FinalizeFailure(i) ==
    LET s == logs[i].sub
        bumped == subs[s].failures + 1
    IN  /\ Pending(i)
        /\ logs' = [logs EXCEPT ![i].status = "final_failure", ![i].inDLQ = TRUE]
        /\ subs' = [subs EXCEPT ![s].failures = bumped,
                                ![s].active = (bumped < AutoDisableThreshold) /\ @]
        /\ UNCHANGED <<idem, minted, nextId>>

MarkDropped(i) ==
    /\ Pending(i)
    /\ logs' = [logs EXCEPT ![i].status = "final_failure", ![i].inDLQ = FALSE,
                            ![i].due = "null"]
    /\ UNCHANGED <<subs, idem, minted, nextId>>

\* Mutant: the UPDATE goes by id alone, without the status.
FailAndScheduleRetryByIdOnly(i) ==
    /\ Present(i)
    /\ nextId \in RowIds
    /\ logs' = [logs EXCEPT
                  ![i].status = "failed_attempt",
                  ![nextId] = PendingRow(logs[i].webhook, logs[i].sub,
                                         logs[i].attempt + 1, logs[i].replay, "later")]
    /\ nextId' = nextId + 1
    /\ UNCHANGED <<subs, idem, minted>>

FailAndScheduleRetry(i) ==
    /\ Pending(i)
    /\ nextId \in RowIds
    /\ logs' = [logs EXCEPT
                  ![i].status = "failed_attempt",
                  ![nextId] = PendingRow(logs[i].webhook, logs[i].sub,
                                         logs[i].attempt + 1, logs[i].replay, "later")]
    /\ nextId' = nextId + 1
    /\ UNCHANGED <<subs, idem, minted>>

\* No lease ownership is checked: any caller that finds the row pending wins.
RescheduleSamePending(i) ==
    /\ Pending(i)
    /\ logs' = [logs EXCEPT ![i].due = "later"]
    /\ UNCHANGED <<subs, idem, minted, nextId>>

\* Mutant: only retries are looked for.
DueRetries == {i \in RowIds : Claimable(i) /\ logs[i].attempt > 1}

\* FindDuePending pages through exactly these rows.
DuePending == {i \in RowIds : Claimable(i)}

LeaseLess == {i \in RowIds : Pending(i) /\ logs[i].due = "orphan"}

RearmLeaseLessPending ==
    /\ logs' = [i \in RowIds |-> IF i \in LeaseLess THEN [logs[i] EXCEPT !.due = "now"]
                                                   ELSE logs[i]]
    /\ UNCHANGED <<subs, idem, minted, nextId>>

\* NOW() passes a pending row's next_retry_at, or a lease-less row's threshold.
Elapse(i) ==
    /\ Pending(i)
    /\ logs[i].due \in {"later", "null"}
    /\ logs' = [logs EXCEPT ![i].due = IF @ = "later" THEN "now" ELSE "orphan"]
    /\ UNCHANGED <<subs, idem, minted, nextId>>

-----------------------------------------------------------------------------
(* dlq.go *)

InDLQ(s, w) == {i \in RowIds : logs[i].inDLQ /\ logs[i].sub = s /\ logs[i].webhook = w}

ClearFlag(D) == [i \in RowIds |-> IF i \in D THEN [logs[i] EXCEPT !.inDLQ = FALSE]
                                             ELSE logs[i]]

\* The UPDATE clears every matching row; the caller is told of one, c.
AckDLQ(s, w, c) ==
    /\ c \in InDLQ(s, w)
    /\ logs' = ClearFlag(InDLQ(s, w))
    /\ UNCHANGED <<subs, idem, minted, nextId>>

\* Mutant: in_dlq is left set.
ReplayDLQKeepsFlag(s, w, c) ==
    /\ c \in InDLQ(s, w) /\ logs[c].replay < MaxReplays /\ nextId \in RowIds
    /\ logs' = [logs EXCEPT ![nextId] = PendingRow(w, s, 1, logs[c].replay + 1, "now")]
    /\ nextId' = nextId + 1
    /\ UNCHANGED <<subs, idem, minted>>

\* Mutant: attempt_number is copied and not reset.
ReplayDLQSameAttempt(s, w, c) ==
    /\ c \in InDLQ(s, w) /\ logs[c].replay < MaxReplays /\ nextId \in RowIds
    /\ logs' = [ClearFlag(InDLQ(s, w)) EXCEPT
                  ![nextId] = PendingRow(w, s, logs[c].attempt, logs[c].replay + 1, "now")]
    /\ nextId' = nextId + 1
    /\ UNCHANGED <<subs, idem, minted>>

ReplayDLQ(s, w, c) ==
    /\ c \in InDLQ(s, w)
    /\ logs[c].replay < MaxReplays
    /\ nextId \in RowIds
    /\ logs' = [ClearFlag(InDLQ(s, w)) EXCEPT
                  ![nextId] = PendingRow(w, s, 1, logs[c].replay + 1, "now")]
    /\ nextId' = nextId + 1
    /\ UNCHANGED <<subs, idem, minted>>

\* D: the flagged rows whose updated_at is older than DLQ_MAX_AGE.
ForceAckOldDLQ(D) ==
    /\ D \subseteq {i \in RowIds : logs[i].inDLQ}
    /\ logs' = ClearFlag(D)
    /\ UNCHANGED <<subs, idem, minted, nextId>>

\* Mutants: the horizon compared the wrong way, and dead letters not spared.
ExpiredYoung(h) == {i \in RowIds : i >= h /\ Present(i) /\ ~Live(i)}

ExpiredDeadLetters(h) == {i \in RowIds : i < h /\ Present(i) /\ ~Pending(i)}

\* h: the first row inside the retention horizon.
Expired(h) == {i \in RowIds : i < h /\ Present(i) /\ ~Live(i)}

DeleteExpired(h) ==
    /\ logs' = [i \in RowIds |-> IF i \in Expired(h) THEN NoRow ELSE logs[i]]
    /\ UNCHANGED <<subs, idem, minted, nextId>>

\* P: the entries older than IDEMPOTENCY_TTL.
PruneIdempotency(P) ==
    /\ idem' = [e \in Subs \X Keys |-> IF e \in P THEN None ELSE idem[e]]
    /\ UNCHANGED <<logs, subs, minted, nextId>>

-----------------------------------------------------------------------------
(* The tables under every order of calls.  The one thing asked of a caller *)
(* is what Deliverer.handleFailure does: retry while attempts remain.      *)

\* Mutant: one retry too many.
HandleFailureOnceMore(i) ==
    \/ logs[i].attempt <= MaxRetryAttempts /\ FailAndScheduleRetry(i)
    \/ logs[i].attempt > MaxRetryAttempts /\ FinalizeFailure(i)

HandleFailure(i) ==
    \/ logs[i].attempt < MaxRetryAttempts /\ FailAndScheduleRetry(i)
    \/ logs[i].attempt >= MaxRetryAttempts /\ FinalizeFailure(i)

RowStep(i) ==
    \/ ClaimPending(i)
    \/ MarkSuccess(i)
    \/ HandleFailure(i)
    \/ MarkDropped(i)
    \/ RescheduleSamePending(i)
    \/ Elapse(i)

WebhookStep(s, w) ==
    \/ \E k \in Keys \cup {None} : IngestPending(s, k, w)
    \/ InsertLeaseLess(s, w)
    \/ \E c \in RowIds : AckDLQ(s, w, c)
    \/ \E c \in RowIds : ReplayDLQ(s, w, c)

SubscriptionStep(s) ==
    \/ \E a \in BOOLEAN : CreateSubscription(s, a)
    \/ \E a \in BOOLEAN : UpdateSubscription(s, a)
    \/ DeleteSubscription(s)

SweepStep ==
    \/ RearmLeaseLessPending
    \/ \E D \in SUBSET RowIds : ForceAckOldDLQ(D)
    \/ \E h \in 1..nextId : DeleteExpired(h)
    \/ \E P \in SUBSET (Subs \X Keys) : PruneIdempotency(P)

StoreNext ==
    \/ \E i \in RowIds : RowStep(i)
    \/ \E s \in Subs, w \in Webhooks : WebhookStep(s, w)
    \/ \E s \in Subs : SubscriptionStep(s)
    \/ SweepStep

StoreSpec == StoreInit /\ [][StoreNext]_storeVars
-----------------------------------------------------------------------------
(* What the tables promise under every order of calls. *)

SameWebhook(i, j) == Present(i) /\ Present(j) /\ logs[i].webhook = logs[j].webhook

\* ListByWebhookID: ORDER BY replay_number, attempt_number.
Precedes(i, j) ==
    \/ logs[i].replay < logs[j].replay
    \/ logs[i].replay = logs[j].replay /\ logs[i].attempt < logs[j].attempt

\* At most one row of a webhook is pending or in the DLQ.  AckDLQ and ReplayDLQ
\* read back a single id from an UPDATE with no unique index behind it
\* (dlq.go:11-22), and a second pending row would deliver the webhook twice.
OneLiveRow ==
    \A i, j \in RowIds :
        Live(i) /\ Live(j) /\ logs[i].webhook = logs[j].webhook => i = j

\* The rows of a webhook, in the order they were inserted, carry strictly
\* increasing (replay_number, attempt_number), and only the newest can be live:
\* no attempt number is used twice, and the row handleWebhookStatus takes for
\* the current outcome (the last in that order) is the one work is done on.
NewestRowIsCurrent ==
    \A i, j \in RowIds :
        i < j /\ SameWebhook(i, j) => Precedes(i, j) /\ ~Live(i)

\* A failed_attempt row has its successor, also while retention deletes rows:
\* "a crash can never leave a failed_attempt with no pending successor".
RetryHasSuccessor ==
    \A i \in RowIds : logs[i].status = "failed_attempt" =>
        \E j \in RowIds : /\ i < j
                          /\ SameWebhook(i, j)
                          /\ logs[j].replay = logs[i].replay
                          /\ logs[j].attempt = logs[i].attempt + 1

\* Only rows whose attempt budget is spent reach the DLQ, and no chain goes
\* beyond MAX_RETRY_ATTEMPTS, replays and re-armed rows included.
BudgetRespected ==
    \A i \in RowIds :
        /\ Present(i) => logs[i].attempt \in 1..MaxRetryAttempts
        /\ logs[i].inDLQ => /\ logs[i].status = "final_failure"
                           /\ logs[i].attempt = MaxRetryAttempts

\* An idempotency key that answers "duplicate" names a webhook that was durably
\* accepted for that subscription, and no two keys name the same webhook: the
\* key and the row commit together (delivery_lifecycle.go:22-23).
KeyNamesAcceptedWebhook ==
    \A e, f \in Subs \X Keys : idem[e] # None =>
        /\ idem[e] \in minted
        /\ subs[e[1]].state = "live"
        /\ idem[e] = idem[f] => e = f
        /\ \A i \in RowIds : logs[i].webhook = idem[e] => logs[i].sub = e[1]

\* A row that was finished, acknowledged or replayed never becomes work again:
\* nothing re-flags an acknowledged dead letter or revives a settled attempt.
SettledStaysSettled ==
    [][\A i \in RowIds : Present(i) /\ ~Live(i) => ~Live(i)']_storeVars

\* Work leaves the tables only by being settled or with its subscription:
\* a live row that vanishes was taken by the cascade of a deleted subscription.
WorkOnlyCascades ==
    [][\A i \in RowIds : Live(i) /\ ~Present(i)' =>
            subs[logs[i].sub].state = "live" /\ subs'[logs[i].sub].state = "gone"]_storeVars

\* How the tables are built up: ids are used in order, a row that is not there
\* is blank, a row belongs to a minted webhook, and all rows of a webhook belong
\* to the same subscription, whose deletion therefore takes a whole chain.
Shape ==
    /\ \A i \in RowIds : i >= nextId \/ ~Present(i) => logs[i] = NoRow
    /\ \A i \in RowIds : Present(i) => logs[i].webhook \in minted /\ logs[i].sub \in Subs
    /\ \A i, j \in RowIds : SameWebhook(i, j) => logs[i].sub = logs[j].sub

\* The inductive invariant: every transaction, taken from any state of it,
\* leads to a state of it.  OneLiveRow is a consequence.
StoreInv ==
    /\ StoreTypeOK
    /\ Shape
    /\ NewestRowIsCurrent
    /\ RetryHasSuccessor
    /\ BudgetRespected
    /\ KeyNamesAcceptedWebhook
=============================================================================
