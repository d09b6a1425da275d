--------------------------- MODULE DeliverySystem ---------------------------
(***************************************************************************)
(* The running service: the API, the worker pool and the periodic workers  *)
(* on one PostgreSQL and one Redis, with failing calls, process crashes    *)
(* and the loss of Redis.  A restart finds the database, what is left of   *)
(* Redis, and nothing else.                                                *)
(***************************************************************************)
EXTENDS Api, Maintenance

CONSTANTS
    MaxFaults,  \* bound: failed calls, crashes and Redis losses in a run
    Active      \* the occasional actors that come up during a run

Occasional == {"recovery", "cleanup", "reconciler", "update", "delete", "triage", "lease-less"}

ASSUME SystemAssumption == MaxFaults \in Nat /\ Active \subseteq Occasional

VARIABLE faults

vars == <<storeVars, redisVars, delivererVars, maintenanceVars, req, faults>>

TypeOK ==
    /\ StoreTypeOK
    /\ RedisTypeOK
    /\ DelivererTypeOK
    /\ MaintenanceTypeOK
    /\ ApiTypeOK
    /\ faults \in 0..MaxFaults

Init ==
    /\ StoreInit
    /\ RedisInit
    /\ DelivererInit
    /\ MaintenanceInit
    /\ ApiInit
    /\ faults = 0

Crash ==
    /\ hand' = 0
    /\ proc' = [p \in Procs |-> Returned]
    /\ recovery' = RecoveryResting
    /\ recon' = ReconResting
    /\ req' = [h \in Requests |-> Answered]
    /\ UNCHANGED <<storeVars, redisVars, answers>>

RedisLoss ==
    /\ LoseRedis
    /\ UNCHANGED <<storeVars, delivererVars, maintenanceVars, req>>

Fault ==
    /\ faults < MaxFaults
    /\ faults' = faults + 1
    /\ \/ \E p \in Procs : CallFails(p) /\ UNCHANGED <<maintenanceVars, req>>
       \/ \E h \in Requests : RequestFails(h) /\ UNCHANGED maintenanceVars
       \/ RecoverFails /\ UNCHANGED <<delivererVars, req>>
       \/ ReconcileFails /\ UNCHANGED <<delivererVars, req>>
       \/ Crash
       \/ RedisLoss

\* The steps of the program itself, one disjunct per goroutine.
PoolStep ==
    /\ \/ \E i \in RowIds : PoolDequeue(i)
       \/ \E p \in Workers : PoolGo(p)
       \/ \E p \in Procs : Process(p)
    /\ UNCHANGED <<maintenanceVars, req, faults>>

ApiStep ==
    /\ \/ \E h \in Requests : Ingest(h) \/ PostCommit(h)
       \/ "triage" \in Active /\ \E h \in Requests : Triage(h)
       \/ \E s \in Subs : Create(s)
       \/ "update" \in Active /\ \E s \in Subs : Update(s)
       \/ "delete" \in Active /\ \E s \in Subs : Delete(s)
    /\ UNCHANGED <<maintenanceVars, faults>>

MaintenanceStep ==
    /\ \/ \E D \in SUBSET RowIds : Poll(D)
       \/ "recovery" \in Active /\ Recover
       \/ "cleanup" \in Active /\ Cleanup
       \/ "reconciler" \in Active /\ Reconcile
    /\ UNCHANGED <<delivererVars, req, faults>>

\* The database clock, and rows written by others.
EnvironmentStep ==
    /\ \/ \E i \in RowIds : LeaseElapses(i)
       \/ /\ "lease-less" \in Active
          /\ \E s \in Subs, w \in Webhooks : InsertLeaseLess(s, w)
          /\ UNCHANGED <<redisVars, delivererVars>>
    /\ UNCHANGED <<maintenanceVars, req, faults>>

Next ==
    \/ PoolStep
    \/ ApiStep
    \/ MaintenanceStep
    \/ EnvironmentStep
    \/ Fault

Spec == Init /\ [][Next]_vars

-----------------------------------------------------------------------------
(* Fairness.  Goroutines keep running, the periodic loops come round, BRPOP *)
(* answers while the LIST holds an id, and time passes.  The breaker lets a *)
(* probe through every reset timeout and permits are released, so someone   *)
(* who keeps asking is admitted in the end.  No fault and no request is     *)
(* ever owed.                                                               *)

Still == UNCHANGED <<maintenanceVars, req, faults>>

FairSpec ==
    /\ Spec
    /\ \A p \in Procs : WF_vars(Process(p) /\ Still)
    /\ SF_vars(\E p \in Procs : Admit(p) /\ Still)
    /\ WF_vars((\E i \in RowIds : PoolDequeue(i)) /\ Still)
    /\ WF_vars((\E p \in Workers : PoolGo(p)) /\ Still)
    /\ \A h \in Requests : WF_vars(PostCommit(h) /\ UNCHANGED <<maintenanceVars, faults>>)
    /\ WF_vars((\E i \in RowIds : LeaseElapses(i)) /\ Still)
    /\ WF_vars((\E D \in SUBSET RowIds : Poll(D)) /\ UNCHANGED <<delivererVars, req, faults>>)
    /\ WF_vars("recovery" \in Active /\ Recover /\ UNCHANGED <<delivererVars, req, faults>>)
    /\ WF_vars("reconciler" \in Active /\ Reconcile /\ UNCHANGED <<delivererVars, req, faults>>)

-----------------------------------------------------------------------------
(* Properties *)

\* While the visibility lease a goroutine stamped on a row has not run out, no
\* other goroutine holds one on it, whatever duplicates the queue delivers:
\* "That PostgreSQL CAS is the mutual-exclusion point."
LeaseExclusive ==
    \A p, q \in Procs :
        proc[p].held /\ proc[q].held /\ proc[p].id = proc[q].id => p = q

\* A row counts as delivered only if its target answered 2xx to one of its
\* attempts, and as failed only if an attempt of this very row failed: claims
\* that found the breaker open or the semaphore full, crashes and recoveries
\* never consume an attempt, and no attempt is settled by another row's answer.
OutcomeJustified ==
    \A i \in RowIds :
        /\ logs[i].status = "success" => "ok" \in answers[i]
        /\ logs[i].status = "failed_attempt" \/ logs[i].inDLQ => "bad" \in answers[i]

\* Whenever an LREM is next, after an acknowledgement, a replay, a forced
\* acknowledgement or the reconciler's point read, the row is not a dead letter
\* and stays none: no interleaving takes a dead letter out of the operators'
\* list.
RemovesOnlySettled ==
    /\ \A h \in Requests : req[h].pc = "remove" => ~logs[req[h].old].inDLQ
    /\ recon.pc = "forced" => \A i \in recon.todo : ~logs[i].inDLQ
    /\ recon.pc = "remove" => ~logs[recon.id].inDLQ

\* The goroutines use the tables only through whole store transactions, and
\* meet what the store asks of its callers (retry while attempts remain).
ImplementsStore == StoreSpec

\* Every accepted webhook is delivered, dead-lettered or dropped in the end,
\* whichever Redis write, process or index was lost on the way: "Redis loss can
\* delay work but does not erase accepted delivery state."
EveryWebhookSettles ==
    \A w \in Webhooks :
        (\E i \in RowIds : Pending(i) /\ logs[i].webhook = w)
            ~> (\A i \in RowIds : Pending(i) => logs[i].webhook # w)

\* The dead-letter list ends up equal to the in_dlq flags, although pushes and
\* removals fail, race the reconciler or are lost with Redis: "DLQ reconciler
\* repairs both missing and stale list entries."
DLQConverges == <>[](Listed = {i \in RowIds : logs[i].inDLQ})
=============================================================================
