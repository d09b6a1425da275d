----------------------------- MODULE Maintenance -----------------------------
(***************************************************************************)
(* The periodic workers: RetrySchedulerWorker and RecoveryWorker (retry.go)*)
(* and CleanupWorker and DLQReconciler (cleanup.go).  Each pass is broken  *)
(* at every PostgreSQL and Redis call, where the others interleave.        *)
(***************************************************************************)
EXTENDS RedisIndexes

VARIABLES
    recovery,  \* RecoveryWorker.scan: phase and ids still to enqueue
    recon      \* DLQReconciler.reconcile: phase, snapshots and id at hand

maintenanceVars == <<recovery, recon>>

RecoveryResting == [pc |-> "idle", todo |-> {}]

ReconResting == [pc |-> "idle", todo |-> {}, stale |-> {}, id |-> 0]

MaintenanceTypeOK ==
    /\ recovery \in [pc: {"idle", "due", "rearmed"}, todo: SUBSET RowIds]
    /\ recon \in [pc: {"idle", "forced", "flagged", "repair", "push", "remove"},
                  todo: SUBSET RowIds, stale: SUBSET RowIds, id: RowIds \cup {0}]

MaintenanceInit == recovery = RecoveryResting /\ recon = ReconResting

-----------------------------------------------------------------------------
(* RetrySchedulerWorker.Run *)

Poll(D) ==
    /\ ClaimDue(D)
    /\ UNCHANGED <<storeVars, maintenanceVars>>

-----------------------------------------------------------------------------
(* RecoveryWorker.scan.  The pages of FindDuePending are taken together.   *)

ScanDue ==
    /\ recovery.pc = "idle"
    /\ recovery' = [pc |-> "due", todo |-> DuePending]
    /\ UNCHANGED <<storeVars, redisVars, recon>>

ScanEnqueue(i) ==
    /\ i \in recovery.todo
    /\ Enqueue(i)
    /\ recovery' = [recovery EXCEPT !.todo = @ \ {i}]
    /\ UNCHANGED <<storeVars, recon>>

ScanRearm ==
    /\ recovery.pc = "due" /\ recovery.todo = {}
    /\ RearmLeaseLessPending
    /\ recovery' = [pc |-> "rearmed", todo |-> LeaseLess]
    /\ UNCHANGED <<redisVars, recon>>

ScanDone ==
    /\ recovery.pc = "rearmed" /\ recovery.todo = {}
    /\ recovery' = RecoveryResting
    /\ UNCHANGED <<storeVars, redisVars, recon>>

\* A failed query ends the pass; a failed enqueue skips that id.
ScanQueryFails ==
    /\ recovery.pc # "idle" /\ recovery.todo = {}
    /\ recovery' = RecoveryResting
    /\ UNCHANGED <<storeVars, redisVars, recon>>

ScanEnqueueFails(i) ==
    /\ i \in recovery.todo
    /\ recovery' = [recovery EXCEPT !.todo = @ \ {i}]
    /\ UNCHANGED <<storeVars, redisVars, recon>>

Recover ==
    \/ ScanDue
    \/ \E i \in RowIds : ScanEnqueue(i)
    \/ ScanRearm
    \/ ScanDone

RecoverFails == ScanQueryFails \/ \E i \in RowIds : ScanEnqueueFails(i)

-----------------------------------------------------------------------------
(* CleanupWorker.cleanup: two statements on different tables.  Which rows  *)
(* are old enough is open, so a pass that has nothing to delete from one   *)
(* of the tables is the other statement alone.                             *)

Cleanup ==
    /\ \/ \E h \in 1..nextId : DeleteExpired(h)
       \/ \E P \in SUBSET (Subs \X Keys) : PruneIdempotency(P)
    /\ UNCHANGED <<redisVars, maintenanceVars>>

-----------------------------------------------------------------------------
(* DLQReconciler.reconcile *)

ForceAck(D) ==
    /\ recon.pc = "idle"
    /\ ForceAckOldDLQ(D)
    /\ recon' = [ReconResting EXCEPT !.pc = "forced", !.todo = D]
    /\ UNCHANGED <<redisVars, recovery>>

RemoveForced(i) ==
    /\ recon.pc = "forced" /\ i \in recon.todo
    /\ Remove(i)
    /\ recon' = [recon EXCEPT !.todo = @ \ {i}]
    /\ UNCHANGED <<storeVars, recovery>>

ListInDLQ ==
    /\ recon.pc = "forced" /\ recon.todo = {}
    /\ recon' = [recon EXCEPT !.pc = "flagged", !.todo = {i \in RowIds : logs[i].inDLQ}]
    /\ UNCHANGED <<storeVars, redisVars, recovery>>

\* Mutant: stale entries are not looked for.
ListRedisMissingOnly ==
    /\ recon.pc = "flagged"
    /\ recon' = [recon EXCEPT !.pc = "repair", !.todo = @ \ Listed]
    /\ UNCHANGED <<storeVars, redisVars, recovery>>

\* todo: flagged rows missing from the LIST; stale: listed ids not flagged.
ListRedis ==
    /\ recon.pc = "flagged"
    /\ recon' = [recon EXCEPT !.pc = "repair", !.todo = @ \ Listed, !.stale = Listed \ recon.todo]
    /\ UNCHANGED <<storeVars, redisVars, recovery>>

\* The point read IsInDLQ before a push, and before a removal.
CheckMissing(i) ==
    /\ recon.pc = "repair" /\ i \in recon.todo
    /\ recon' = IF logs[i].inDLQ
                THEN [recon EXCEPT !.pc = "push", !.todo = @ \ {i}, !.id = i]
                ELSE [recon EXCEPT !.todo = @ \ {i}]
    /\ UNCHANGED <<storeVars, redisVars, recovery>>

PushMissing ==
    /\ recon.pc = "push"
    /\ Push(recon.id)
    /\ recon' = [recon EXCEPT !.pc = "repair", !.id = 0]
    /\ UNCHANGED <<storeVars, recovery>>

\* Mutant: no point read before the removal.
TrustSnapshot(i) ==
    /\ recon.pc = "repair" /\ recon.todo = {} /\ i \in recon.stale
    /\ recon' = [recon EXCEPT !.pc = "remove", !.stale = @ \ {i}, !.id = i]
    /\ UNCHANGED <<storeVars, redisVars, recovery>>

CheckStale(i) ==
    /\ recon.pc = "repair" /\ recon.todo = {} /\ i \in recon.stale
    /\ recon' = IF ~logs[i].inDLQ
                THEN [recon EXCEPT !.pc = "remove", !.stale = @ \ {i}, !.id = i]
                ELSE [recon EXCEPT !.stale = @ \ {i}]
    /\ UNCHANGED <<storeVars, redisVars, recovery>>

RemoveStale ==
    /\ recon.pc = "remove"
    /\ Remove(recon.id)
    /\ recon' = [recon EXCEPT !.pc = "repair", !.id = 0]
    /\ UNCHANGED <<storeVars, recovery>>

ReconDone ==
    /\ recon.pc = "repair" /\ recon.todo = {} /\ recon.stale = {}
    /\ recon' = ReconResting
    /\ UNCHANGED <<storeVars, redisVars, recovery>>

Reconcile ==
    \/ \E D \in SUBSET RowIds : ForceAck(D)
    \/ \E i \in RowIds : RemoveForced(i) \/ CheckMissing(i) \/ CheckStale(i)
    \/ ListInDLQ
    \/ ListRedis
    \/ PushMissing
    \/ RemoveStale
    \/ ReconDone

\* A failed list query ends the pass; a failed LREM, point read or LPUSH skips
\* the id it was about.
ReconcileFails ==
    /\ \/ /\ recon.pc = "flagged" \/ (recon.pc = "forced" /\ recon.todo = {})
          /\ recon' = ReconResting
       \/ /\ recon.pc \in {"push", "remove"}
          /\ recon' = [recon EXCEPT !.pc = "repair", !.id = 0]
       \/ /\ recon.pc \in {"forced", "repair"}
          /\ \E i \in RowIds : \/ /\ i \in recon.todo
                                  /\ recon' = [recon EXCEPT !.todo = @ \ {i}]
                               \/ /\ recon.pc = "repair" /\ recon.todo = {} /\ i \in recon.stale
                                  /\ recon' = [recon EXCEPT !.stale = @ \ {i}]
    /\ UNCHANGED <<storeVars, redisVars, recovery>>
=============================================================================
