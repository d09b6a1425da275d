------------------------------ MODULE Deliverer ------------------------------
(***************************************************************************)
(* worker.Pool and worker.Deliverer.Process (internal/worker/pool.go and   *)
(* delivery.go): one step per PostgreSQL, Redis or HTTP call, so that the  *)
(* calls of several goroutines interleave in every order.                  *)
(*                                                                         *)
(* The subscription is read as the database has it.  The semaphore and the *)
(* circuit breaker may refuse at any time.                                 *)
(***************************************************************************)
EXTENDS RedisIndexes

CONSTANTS
    Workers,   \* goroutines of the pool, WORKER_CONCURRENCY of them
    Requests   \* API request goroutines; they run Process in sync mode

VARIABLES
    hand,     \* id the dequeue loop holds while it waits for a free goroutine
    proc,     \* per goroutine: the next call of Process and the row it is about
    answers   \* history: what targets answered to the attempts of each row

delivererVars == <<hand, proc, answers>>

Procs == Workers \cup Requests

\* The next call: "load" GetByID, "claim" ClaimPending, "reread" the GetByID of
\* rescheduleIfNotDue, "getsub" subs.GetByID, "drop" MarkDropped, "admit"
\* TryAcquire and Allow, "resched" RescheduleSamePending, "http" the request,
\* "ok" RecordDeliverySuccess, "bad" handleFailure, "zadd" and "push" the
\* post-commit Redis writes.
Calls == {"load", "claim", "reread", "getsub", "drop", "admit", "resched", "http",
          "ok", "bad", "zadd", "push"}

\* Calls that can fail for reasons other than the target's answer.
InfraCalls == Calls \ {"admit", "http"}

\* sub: the subscription_id of the loaded row.
\* held: the row's lease was stamped by this goroutine and has not run out.
Returned == [pc |-> "idle", id |-> 0, sub |-> None, held |-> FALSE]

DelivererTypeOK ==
    /\ hand \in RowIds \cup {0}
    /\ proc \in [Procs -> [pc: Calls \cup {"idle"}, id: RowIds \cup {0},
                           sub: Subs \cup {None}, held: BOOLEAN]]
    /\ answers \in [RowIds -> SUBSET {"ok", "bad"}]

DelivererInit ==
    /\ hand = 0
    /\ proc = [p \in Procs |-> Returned]
    /\ answers = [i \in RowIds |-> {}]

At(p, pc) == proc[p].pc = pc

Goto(p, pc) == proc' = [proc EXCEPT ![p].pc = pc]

Return(p) == proc' = [proc EXCEPT ![p] = Returned]

\* Start Process(i) on goroutine p.
Start(p, i) == proc' = [proc EXCEPT ![p] = [Returned EXCEPT !.pc = "load", !.id = i]]

-----------------------------------------------------------------------------
(* pool.go: one loop pops ids and blocks in g.Go while all goroutines run. *)

PoolDequeue(i) ==
    /\ hand = 0
    /\ Dequeue(i)
    /\ hand' = i
    /\ UNCHANGED <<storeVars, proc, answers>>

PoolGo(p) ==
    /\ hand # 0
    /\ p \in Workers /\ At(p, "idle")
    /\ Start(p, hand)
    /\ hand' = 0
    /\ UNCHANGED <<storeVars, redisVars, answers>>

-----------------------------------------------------------------------------
(* Process *)

Load(p) ==
    /\ At(p, "load")
    /\ IF Pending(proc[p].id)
       THEN proc' = [proc EXCEPT ![p].pc = "claim", ![p].sub = logs[proc[p].id].sub]
       ELSE Return(p)
    /\ UNCHANGED <<storeVars, redisVars, hand, answers>>

Claim(p) ==
    /\ At(p, "claim")
    /\ \/ /\ ClaimPending(proc[p].id)
          /\ proc' = [proc EXCEPT ![p].pc = "getsub", ![p].held = TRUE]
       \/ /\ ~Claimable(proc[p].id)
          /\ Goto(p, "reread")
          /\ UNCHANGED storeVars
    /\ UNCHANGED <<redisVars, hand, answers>>

\* rescheduleIfNotDue compares next_retry_at with this process's clock, which
\* may be ahead of PostgreSQL's or behind it: either answer is possible.
Reread(p) ==
    /\ At(p, "reread")
    /\ \/ /\ Pending(proc[p].id)
          /\ logs[proc[p].id].due \in {"later", "now"}
          /\ Goto(p, "zadd")
       \/ Return(p)
    /\ UNCHANGED <<storeVars, redisVars, hand, answers>>

GetSub(p) ==
    LET sub == subs[proc[p].sub]
    IN  /\ At(p, "getsub")
        /\ CASE sub.state = "gone" -> Return(p)
             [] sub.state = "live" /\ ~sub.active -> Goto(p, "drop")
             [] OTHER -> Goto(p, "admit")
        /\ UNCHANGED <<storeVars, redisVars, hand, answers>>

DropInactive(p) ==
    /\ At(p, "drop")
    /\ MarkDropped(proc[p].id) \/ (~Pending(proc[p].id) /\ UNCHANGED storeVars)
    /\ Return(p)
    /\ UNCHANGED <<redisVars, hand, answers>>

Admit(p) ==
    /\ At(p, "admit")
    /\ Goto(p, "http")
    /\ UNCHANGED <<storeVars, redisVars, hand, answers>>

\* Mutant: a refused admission counts as a failed attempt.
DenyAsFailure(p) ==
    /\ At(p, "admit")
    /\ Goto(p, "bad")
    /\ UNCHANGED <<storeVars, redisVars, hand, answers>>

\* Semaphore at its limit, or breaker open.
Deny(p) ==
    /\ At(p, "admit")
    /\ Goto(p, "resched")
    /\ UNCHANGED <<storeVars, redisVars, hand, answers>>

RescheduleNoAttempt(p) ==
    /\ At(p, "resched")
    /\ \/ RescheduleSamePending(proc[p].id) /\ Goto(p, "zadd")
       \/ ~Pending(proc[p].id) /\ Return(p) /\ UNCHANGED storeVars
    /\ UNCHANGED <<redisVars, hand, answers>>

Attempt(p, answer) ==
    /\ At(p, "http")
    /\ Goto(p, answer)
    /\ answers' = [answers EXCEPT ![proc[p].id] = @ \cup {answer}]
    /\ UNCHANGED <<storeVars, redisVars, hand>>

RecordDeliverySuccess(p) ==
    /\ At(p, "ok")
    /\ MarkSuccess(proc[p].id) \/ (~Pending(proc[p].id) /\ UNCHANGED storeVars)
    /\ Return(p)
    /\ UNCHANGED <<redisVars, hand, answers>>

\* Mutant: finalizes one attempt early.
RetryOrFinalizeEarly(p) ==
    LET i == proc[p].id
    IN  /\ At(p, "bad")
        /\ \/ /\ logs[i].attempt + 1 < MaxRetryAttempts
              /\ FailAndScheduleRetry(i)
              /\ proc' = [proc EXCEPT ![p] = [Returned EXCEPT !.pc = "zadd", !.id = nextId]]
           \/ /\ logs[i].attempt + 1 >= MaxRetryAttempts
              /\ FinalizeFailure(i)
              /\ Goto(p, "push")
           \/ ~Pending(i) /\ Return(p) /\ UNCHANGED storeVars
        /\ UNCHANGED <<redisVars, hand, answers>>

\* handleFailure.  attempt_number never changes, so the loaded value is the row's.
RetryOrFinalize(p) ==
    LET i == proc[p].id
    IN  /\ At(p, "bad")
        /\ \/ /\ logs[i].attempt < MaxRetryAttempts
              /\ FailAndScheduleRetry(i)
              /\ proc' = [proc EXCEPT ![p] = [Returned EXCEPT !.pc = "zadd", !.id = nextId]]
           \/ /\ logs[i].attempt >= MaxRetryAttempts
              /\ FinalizeFailure(i)
              /\ Goto(p, "push")
           \/ ~Pending(i) /\ Return(p) /\ UNCHANGED storeVars
        /\ UNCHANGED <<redisVars, hand, answers>>

ZAdd(p) ==
    /\ At(p, "zadd")
    /\ Schedule(proc[p].id)
    /\ Return(p)
    /\ UNCHANGED <<storeVars, hand, answers>>

PushDead(p) ==
    /\ At(p, "push")
    /\ Push(proc[p].id)
    /\ Return(p)
    /\ UNCHANGED <<storeVars, hand, answers>>

\* A call returns an error or the drain deadline passes: Process gives up
\* without the call's effect and the row stays as it is.
CallFails(p) ==
    /\ proc[p].pc \in InfraCalls
    /\ Return(p)
    /\ UNCHANGED <<storeVars, redisVars, hand, answers>>

\* PostgreSQL's clock passes the row's next_retry_at; a lease on it is over.
LeaseElapses(i) ==
    /\ Elapse(i)
    /\ proc' = [p \in Procs |-> IF proc[p].id = i THEN [proc[p] EXCEPT !.held = FALSE]
                                                  ELSE proc[p]]
    /\ UNCHANGED <<redisVars, hand, answers>>

Process(p) ==
    \/ Load(p)
    \/ Claim(p)
    \/ Reread(p)
    \/ GetSub(p)
    \/ DropInactive(p)
    \/ Admit(p)
    \/ Deny(p)
    \/ RescheduleNoAttempt(p)
    \/ \E a \in {"ok", "bad"} : Attempt(p, a)
    \/ RecordDeliverySuccess(p)
    \/ RetryOrFinalize(p)
    \/ ZAdd(p)
    \/ PushDead(p)
=============================================================================
