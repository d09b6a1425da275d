--------------------------------- MODULE Api ---------------------------------
(***************************************************************************)
(* The state-changing HTTP handlers of internal/api: ingest, DLQ replay    *)
(* and acknowledgement, and the subscription routes.  Each is broken at    *)
(* its calls; a request that is refused changes nothing.                   *)
(***************************************************************************)
EXTENDS Deliverer

CONSTANT SyncDelivery  \* SYNC_DELIVERY

ASSUME SyncAssumption == SyncDelivery \in BOOLEAN

VARIABLE req  \* per request: next call, subscription, id to enqueue, id to remove

Answered == [pc |-> "idle", sub |-> None, new |-> 0, old |-> 0]

ApiTypeOK ==
    req \in [Requests -> [pc: {"idle", "ingest", "enqueue", "remove"},
                          sub: Subs \cup {None}, new: RowIds \cup {0}, old: RowIds \cup {0}]]

ApiInit == req = [h \in Requests |-> Answered]

Free(h) == req[h].pc = "idle" /\ (h \in Procs => At(h, "idle"))

\* handleIngest up to the transaction: the subscription was read and was active.
IngestAuthenticated(h, s) ==
    /\ Free(h)
    /\ subs[s].state = "live" /\ subs[s].active
    /\ req' = [req EXCEPT ![h] = [Answered EXCEPT !.pc = "ingest", !.sub = s]]
    /\ UNCHANGED <<storeVars, redisVars, delivererVars>>

\* First use of the key: sync mode goes on as Process, async mode enqueues.
IngestFirst(h, k, w) ==
    /\ req[h].pc = "ingest"
    /\ IngestPending(req[h].sub, k, w)
    /\ IF SyncDelivery
       THEN /\ req' = [req EXCEPT ![h] = Answered]
            /\ Start(h, nextId)
       ELSE /\ req' = [req EXCEPT ![h].pc = "enqueue", ![h].new = nextId]
            /\ UNCHANGED proc
    /\ UNCHANGED <<redisVars, hand, answers>>

\* A repeated key answers 200, a deleted subscription 404.
IngestRefused(h) ==
    /\ req[h].pc = "ingest"
    /\ \/ subs[req[h].sub].state = "gone"
       \/ \E k \in Keys : idem[<<req[h].sub, k>>] # None
    /\ req' = [req EXCEPT ![h] = Answered]
    /\ UNCHANGED <<storeVars, redisVars, delivererVars>>

HandleReplay(h, s, w, c) ==
    /\ Free(h)
    /\ ReplayDLQ(s, w, c)
    /\ req' = [req EXCEPT ![h] = [pc |-> "enqueue", sub |-> s, new |-> nextId, old |-> c]]
    /\ UNCHANGED <<redisVars, delivererVars>>

HandleAck(h, s, w, c) ==
    /\ Free(h)
    /\ AckDLQ(s, w, c)
    /\ req' = [req EXCEPT ![h] = [pc |-> "remove", sub |-> s, new |-> 0, old |-> c]]
    /\ UNCHANGED <<redisVars, delivererVars>>

\* After the enqueue, whether or not it worked, a replay removes the old entry.
AfterEnqueue(h) ==
    req' = [req EXCEPT ![h] = IF @.old = 0 THEN Answered ELSE [@ EXCEPT !.pc = "remove"]]

PostEnqueue(h) ==
    /\ req[h].pc = "enqueue"
    /\ Enqueue(req[h].new)
    /\ AfterEnqueue(h)
    /\ UNCHANGED <<storeVars, delivererVars>>

PostRemove(h) ==
    /\ req[h].pc = "remove"
    /\ Remove(req[h].old)
    /\ req' = [req EXCEPT ![h] = Answered]
    /\ UNCHANGED <<storeVars, delivererVars>>

\* A failed transaction answers 500; a failed Redis write is logged and passed.
RequestFails(h) ==
    /\ \/ req[h].pc = "enqueue" /\ AfterEnqueue(h)
       \/ req[h].pc \in {"ingest", "remove"} /\ req' = [req EXCEPT ![h] = Answered]
    /\ UNCHANGED <<storeVars, redisVars, delivererVars>>

\* handler_subscription.go: one statement each.
Create(s) ==
    /\ \E a \in BOOLEAN : CreateSubscription(s, a)
    /\ UNCHANGED <<redisVars, delivererVars, req>>

Update(s) ==
    /\ \E a \in BOOLEAN : UpdateSubscription(s, a)
    /\ UNCHANGED <<redisVars, delivererVars, req>>

Delete(s) ==
    /\ DeleteSubscription(s)
    /\ UNCHANGED <<redisVars, delivererVars, req>>

Ingest(h) ==
    \/ \E s \in Subs : IngestAuthenticated(h, s)
    \/ \E k \in Keys \cup {None}, w \in Webhooks : IngestFirst(h, k, w)
    \/ IngestRefused(h)

Triage(h) ==
    \E s \in Subs, w \in Webhooks, c \in RowIds :
        HandleReplay(h, s, w, c) \/ HandleAck(h, s, w, c)

PostCommit(h) == PostEnqueue(h) \/ PostRemove(h)
=============================================================================
