---------------------------- MODULE RedisIndexes ----------------------------
(***************************************************************************)
(* The Redis structures derived from delivery_logs: internal/infra/queue   *)
(* and internal/infra/scheduler.                                           *)
(*                                                                         *)
(* A LIST is the number of copies it holds of each row id: which copy is   *)
(* popped next is left open, and no property depends on it.  The ZSET is   *)
(* its members: ZADD of a member only moves its score, and a score is due  *)
(* by the poller's clock, not PostgreSQL's, so any member may be due.      *)
(***************************************************************************)
EXTENDS DeliveryStore

CONSTANT MaxCopies  \* bound: copies of one id in one LIST

ASSUME CopiesAssumption == MaxCopies \in Nat \ {0}

VARIABLES
    queue,     \* webhook:queue
    schedule,  \* webhook:retry:schedule
    dlq        \* webhook:dlq

redisVars == <<queue, schedule, dlq>>

Empty == [i \in RowIds |-> 0]

RedisTypeOK ==
    /\ queue \in [RowIds -> 0..MaxCopies]
    /\ schedule \subseteq RowIds
    /\ dlq \in [RowIds -> 0..MaxCopies]

RedisInit == queue = Empty /\ schedule = {} /\ dlq = Empty

Enqueue(i) ==
    /\ queue[i] < MaxCopies
    /\ queue' = [queue EXCEPT ![i] = @ + 1]
    /\ UNCHANGED <<schedule, dlq>>

Dequeue(i) ==
    /\ queue[i] > 0
    /\ queue' = [queue EXCEPT ![i] = @ - 1]
    /\ UNCHANGED <<schedule, dlq>>

Schedule(i) ==
    /\ schedule' = schedule \cup {i}
    /\ UNCHANGED <<queue, dlq>>

\* The Lua script moves the due members D in one step.
ClaimDue(D) ==
    /\ D # {} /\ D \subseteq schedule
    /\ \A i \in D : queue[i] < MaxCopies
    /\ schedule' = schedule \ D
    /\ queue' = [i \in RowIds |-> queue[i] + (IF i \in D THEN 1 ELSE 0)]
    /\ UNCHANGED dlq

\* LPUSH.  Only LREM takes entries away, and it takes all copies, so the count
\* saturates at MaxCopies.
Push(i) ==
    /\ dlq' = [dlq EXCEPT ![i] = IF @ < MaxCopies THEN @ + 1 ELSE @]
    /\ UNCHANGED <<queue, schedule>>

\* LREM with count 0: all occurrences.
Remove(i) ==
    /\ dlq' = [dlq EXCEPT ![i] = 0]
    /\ UNCHANGED <<queue, schedule>>

Listed == {i \in RowIds : dlq[i] > 0}

\* Redis comes back without its data.
LoseRedis == queue' = Empty /\ schedule' = {} /\ dlq' = Empty
=============================================================================
