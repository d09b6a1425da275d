---------------------------- MODULE SystemProofs ----------------------------
(***************************************************************************)
(* The running service for any number of goroutines, requests, rows and    *)
(* faults: it implements DeliveryStore, so that every theorem on the       *)
(* tables holds of it; leases exclude each other; outcomes rest on the     *)
(* row's own attempts; and no dead letter is taken off the operators'      *)
(* list.                                                                   *)
(*                                                                         *)
(* A goroutine works with what it read some calls ago.  What makes that    *)
(* safe is what stays true of an old row, whoever writes in between: it is *)
(* not pending again, not live again, and its lease is not taken away but  *)
(* by the clock.                                                           *)
(***************************************************************************)
EXTENDS DeliverySystem, DeliveryStoreProofs

ProcState == [pc: Calls \cup {"idle"}, id: RowIds \cup {0}, sub: Subs \cup {None}, held: BOOLEAN]

\* The row has been inserted and is not pending: it never is again.
Past(i) == i \in RowIds /\ i < nextId /\ ~Pending(i)

\* Nor is it a dead letter any more.
Spent(i) == i \in RowIds /\ i < nextId /\ ~Live(i)

\* What a goroutine in Process relies on.
Fine(p) ==
    /\ proc[p].pc # "idle" => proc[p].id \in RowIds
    /\ proc[p].held => /\ proc[p].id \in RowIds /\ proc[p].id < nextId
                       /\ Pending(proc[p].id) => logs[proc[p].id].due = "later"
    /\ proc[p].pc \in {"ok", "bad"} => proc[p].pc \in answers[proc[p].id]
    /\ proc[p].pc = "push" => Past(proc[p].id)

\* What a request relies on.
Requested(h) ==
    /\ req[h].pc = "ingest" => req[h].sub \in Subs
    /\ req[h].old # 0 => Spent(req[h].old)
    /\ req[h].pc = "remove" => req[h].old # 0

\* What the reconciler relies on.
Reconciling ==
    /\ recon.pc = "forced" => recon.stale = {} /\ \A i \in recon.todo : Spent(i)
    /\ recon.pc \in {"flagged", "repair", "push", "remove"} =>
            \A i \in recon.todo \cup recon.stale : Past(i)
    /\ recon.pc = "push" => Past(recon.id)
    /\ recon.pc = "remove" => Spent(recon.id)

\* The dead-letter list holds no row that still may become a dead letter.
ListedPast ==
    /\ dlq \in [RowIds -> Nat]
    /\ \A i \in RowIds : dlq[i] > 0 => Past(i)

DelivererInv == DelivererTypeOK /\ (\A p \in Procs : Fine(p)) /\ LeaseExclusive

SystemInv ==
    /\ StoreInv
    /\ DelivererInv
    /\ OutcomeJustified
    /\ ApiTypeOK /\ \A h \in Requests : Requested(h)
    /\ MaintenanceTypeOK /\ Reconciling
    /\ ListedPast

-----------------------------------------------------------------------------
(* What a step does to old rows *)

OldRowsKept ==
    /\ nextId' \in Nat /\ nextId <= nextId'
    /\ \A k \in RowIds : k < nextId => /\ Pending(k)' => Pending(k)
                                       /\ Live(k)' => Live(k)

LeaseKept(k) == k < nextId /\ Pending(k) /\ Pending(k)' /\ logs[k].due = "later" => logs'[k].due = "later"

\* Row k gets no outcome by the step.
NoOutcome(k) ==
    /\ logs'[k].status = "success" => logs[k].status = "success"
    /\ logs'[k].status = "failed_attempt" \/ logs'[k].inDLQ
            => logs[k].status = "failed_attempt" \/ logs[k].inDLQ

\* The transactions that settle nothing.
QuietRow(i) == ClaimPending(i) \/ MarkDropped(i) \/ RescheduleSamePending(i)

Quiet ==
    \/ \E i \in RowIds : QuietRow(i)
    \/ \E s \in Subs, w \in Webhooks : WebhookStep(s, w)
    \/ \E s \in Subs : SubscriptionStep(s)
    \/ SweepStep
    \/ UNCHANGED storeVars

RowsKept == OldRowsKept /\ \A k \in RowIds : LeaseKept(k)

\* A row is typed, pending or flagged but not both, and blank before its insertion.
LEMMA RowFacts ==
    ASSUME StoreInv, NEW k \in RowIds
    PROVE  /\ logs \in [RowIds -> Row] /\ logs[k] \in Row /\ nextId \in 1..(MaxRows + 1)
           /\ logs[k].inDLQ => logs[k].status = "final_failure" /\ k < nextId
           /\ Pending(k) => ~logs[k].inDLQ /\ k < nextId
<1>1. logs \in [RowIds -> Row] /\ logs[k] \in Row /\ nextId \in 1..(MaxRows + 1)
  BY DEF StoreInv, StoreTypeOK
<1>2. logs[k].inDLQ => logs[k].status = "final_failure"
  BY Zenon DEF StoreInv, BudgetRespected
<1>3. k >= nextId => logs[k] = NoRow
  BY DEF StoreInv, Shape
<1>4. Present(k) => k < nextId
  BY <1>1, <1>3 DEF Present, NoRow, RowIds
<1> QED
  BY Zenon, <1>1, <1>2, <1>4 DEF Present, Pending

\* Claims, drops and denials touch one pending row, and leave its lease in place.
LEMMA QuietRowKeeps ==
    ASSUME StoreInv, NEW i \in RowIds, QuietRow(i), NEW k \in RowIds
    PROVE  nextId' = nextId /\ (Pending(k)' => Pending(k)) /\ (Live(k)' => Live(k))
           /\ LeaseKept(k) /\ NoOutcome(k)
<1>1. logs \in [RowIds -> Row] /\ logs[k] \in Row
  BY Zenon, RowFacts
<1>2. CASE ClaimPending(i) \/ RescheduleSamePending(i)
  BY <1>1, <1>2 DEF ClaimPending, Claimable, RescheduleSamePending, Live, Pending, LeaseKept, NoOutcome, Row
<1>3. CASE MarkDropped(i)
  BY Zenon, <1>1, <1>3 DEF MarkDropped, Live, Pending, LeaseKept, NoOutcome, Row
<1> QED
  BY <1>2, <1>3 DEF QuietRow

\* Ingest, replay and acknowledgement insert at nextId or clear flags.
LEMMA WebhookStepKeeps ==
    ASSUME StoreInv, NEW s \in Subs, NEW w \in Webhooks, WebhookStep(s, w), NEW k \in RowIds
    PROVE  /\ nextId <= nextId'
           /\ k < nextId => (Pending(k)' => Pending(k)) /\ (Live(k)' => Live(k))
           /\ LeaseKept(k) /\ NoOutcome(k)
<1>1. logs \in [RowIds -> Row] /\ logs[k] \in Row /\ nextId \in Nat
  BY RowFacts
<1>2. ASSUME NEW x \in Keys \cup {None}, IngestPending(s, x, w)
      PROVE  /\ nextId <= nextId'
             /\ k < nextId => (Pending(k)' => Pending(k)) /\ (Live(k)' => Live(k))
             /\ LeaseKept(k) /\ NoOutcome(k)
  BY <1>1, <1>2 DEF IngestPending, PendingRow, Live, Pending, LeaseKept, NoOutcome, Row, RowIds
<1>3. CASE InsertLeaseLess(s, w)
  BY <1>1, <1>3 DEF InsertLeaseLess, PendingRow, Live, Pending, LeaseKept, NoOutcome, Row, RowIds
<1>4. ASSUME NEW c \in RowIds, AckDLQ(s, w, c)
      PROVE  /\ nextId <= nextId'
             /\ k < nextId => (Pending(k)' => Pending(k)) /\ (Live(k)' => Live(k))
             /\ LeaseKept(k) /\ NoOutcome(k)
  BY <1>1, <1>4 DEF AckDLQ, ClearFlag, Live, Pending, LeaseKept, NoOutcome, Row
<1>5. ASSUME NEW c \in RowIds, ReplayDLQ(s, w, c)
      PROVE  /\ nextId <= nextId'
             /\ k < nextId => (Pending(k)' => Pending(k)) /\ (Live(k)' => Live(k))
             /\ LeaseKept(k) /\ NoOutcome(k)
  BY SMTT(30), <1>1, <1>5 DEF ReplayDLQ, ClearFlag, PendingRow, Live, Pending, LeaseKept, NoOutcome, Row, RowIds
<1> QED
  BY Zenon, <1>2, <1>3, <1>4, <1>5, WebhookStep(s, w) DEF WebhookStep

\* Management requests and sweeps delete rows, clear flags or re-arm.
LEMMA OtherStepKeeps ==
    ASSUME StoreInv, (\E s \in Subs : SubscriptionStep(s)) \/ SweepStep, NEW k \in RowIds
    PROVE  nextId' = nextId /\ (Pending(k)' => Pending(k)) /\ (Live(k)' => Live(k))
           /\ LeaseKept(k) /\ NoOutcome(k)
<1>1. logs \in [RowIds -> Row] /\ logs[k] \in Row
  BY Zenon, RowFacts
<1>2. ASSUME NEW s \in Subs, SubscriptionStep(s)
      PROVE  nextId' = nextId /\ (logs'[k] = logs[k] \/ logs'[k] = NoRow)
  BY Zenon, <1>2 DEF SubscriptionStep, CreateSubscription, UpdateSubscription, DeleteSubscription
<1>3. ASSUME NEW h \in 1..nextId, DeleteExpired(h)
      PROVE  nextId' = nextId /\ (logs'[k] = logs[k] \/ logs'[k] = NoRow)
  BY <1>3 DEF DeleteExpired
<1>4. ASSUME NEW P \in SUBSET (Subs \X Keys), PruneIdempotency(P)
      PROVE  nextId' = nextId /\ (logs'[k] = logs[k] \/ logs'[k] = NoRow)
  BY Zenon, <1>4 DEF PruneIdempotency
<1>5. CASE nextId' = nextId /\ (logs'[k] = logs[k] \/ logs'[k] = NoRow)
  BY <1>5 DEF NoRow, Live, Pending, LeaseKept, NoOutcome
<1>6. CASE RearmLeaseLessPending
  BY Zenon, <1>1, <1>6 DEF RearmLeaseLessPending, LeaseLess, Live, Pending, LeaseKept, NoOutcome, Row
<1>7. ASSUME NEW D \in SUBSET RowIds, ForceAckOldDLQ(D)
      PROVE  nextId' = nextId /\ (Pending(k)' => Pending(k)) /\ (Live(k)' => Live(k))
             /\ LeaseKept(k) /\ NoOutcome(k)
  BY Zenon, <1>1, <1>7 DEF ForceAckOldDLQ, ClearFlag, Live, Pending, LeaseKept, NoOutcome, Row
<1> QED
  BY <1>2, <1>3, <1>4, <1>5, <1>6, <1>7 DEF SweepStep

\* So a transaction that settles nothing leaves old rows as others rely on them.
LEMMA QuietKeeps ==
    ASSUME StoreInv, Quiet
    PROVE  RowsKept /\ \A k \in RowIds : NoOutcome(k)
<1>0. nextId \in Nat
  BY DEF StoreInv, StoreTypeOK
<1>1. CASE UNCHANGED storeVars
  <2>1. logs' = logs /\ nextId' = nextId
    BY <1>1 DEF storeVars
  <2> QED
    BY <1>0, <2>1 DEF RowsKept, OldRowsKept, LeaseKept, NoOutcome, Pending, Live
<1>2. CASE ~UNCHANGED storeVars
  <2>1. nextId' \in Nat /\ nextId <= nextId'
    <3>1. ASSUME NEW i \in RowIds, QuietRow(i) PROVE nextId' = nextId
      BY Zenon, <3>1 DEF QuietRow, ClaimPending, MarkDropped, RescheduleSamePending
    <3>2. ASSUME NEW s \in Subs, NEW w \in Webhooks, WebhookStep(s, w)
          PROVE  nextId' = nextId \/ nextId' = nextId + 1
      BY Zenon, <3>2 DEF WebhookStep, IngestPending, InsertLeaseLess, AckDLQ, ReplayDLQ
    <3>3. ASSUME NEW s \in Subs, SubscriptionStep(s) PROVE nextId' = nextId
      BY Zenon, <3>3 DEF SubscriptionStep, CreateSubscription, UpdateSubscription, DeleteSubscription
    <3>4. SweepStep => nextId' = nextId
      BY DEF SweepStep, RearmLeaseLessPending, ForceAckOldDLQ, DeleteExpired, PruneIdempotency
    <3>5. nextId' = nextId \/ nextId' = nextId + 1
      BY Zenon, <1>2, <3>1, <3>2, <3>3, <3>4 DEF Quiet
    <3> QED
      BY <1>0, <3>5
  <2>2. ASSUME NEW k \in RowIds
        PROVE  /\ k < nextId => (Pending(k)' => Pending(k)) /\ (Live(k)' => Live(k))
               /\ LeaseKept(k) /\ NoOutcome(k)
    BY ZenonT(40), <1>2, QuietRowKeeps, WebhookStepKeeps, OtherStepKeeps DEF Quiet
  <2> QED
    BY Zenon, <2>1, <2>2 DEF RowsKept, OldRowsKept
<1> QED
  BY Zenon, <1>1, <1>2

\* A settled row keeps its lease time; a retry is inserted at nextId.
LEMMA SettleKeeps ==
    ASSUME StoreInv, NEW i \in RowIds, MarkSuccess(i) \/ HandleFailure(i)
    PROVE  /\ RowsKept
           /\ ~Pending(i)' /\ i < nextId'
           /\ \A k \in RowIds : k # i => NoOutcome(k)
<1>1. logs \in [RowIds -> Row] /\ nextId \in Nat /\ \A k \in RowIds : logs[k] \in Row
  BY RowFacts DEF StoreInv, StoreTypeOK
<1>2. i \in Nat /\ (Pending(i) => i < nextId)
  BY RowFacts DEF RowIds
<1>3. CASE MarkSuccess(i)
  <2>1. nextId' = nextId /\ Pending(i) /\ logs'[i].status = "success"
    BY Zenon, <1>1, <1>3 DEF MarkSuccess, Row
  <2>2. ASSUME NEW k \in RowIds
        PROVE  (Pending(k)' => Pending(k)) /\ (Live(k)' => Live(k)) /\ LeaseKept(k)
               /\ (k # i => NoOutcome(k))
    BY Zenon, <1>1, <1>3 DEF MarkSuccess, Live, Pending, LeaseKept, NoOutcome, Row
  <2> QED
    BY <1>1, <1>2, <2>1, <2>2 DEF RowsKept, OldRowsKept, Pending
<1>4. CASE FinalizeFailure(i)
  <2>1. nextId' = nextId /\ Pending(i) /\ logs'[i].status = "final_failure"
    BY Zenon, <1>1, <1>4 DEF FinalizeFailure, Row
  <2>2. ASSUME NEW k \in RowIds
        PROVE  (Pending(k)' => Pending(k)) /\ (Live(k)' => Live(k)) /\ LeaseKept(k)
               /\ (k # i => NoOutcome(k))
    BY Zenon, <1>1, <1>4 DEF FinalizeFailure, Live, Pending, LeaseKept, NoOutcome, Row
  <2> QED
    BY <1>1, <1>2, <2>1, <2>2 DEF RowsKept, OldRowsKept, Pending
<1>5. CASE FailAndScheduleRetry(i)
  <2>1. nextId' = nextId + 1 /\ Pending(i) /\ i # nextId
    BY <1>1, <1>2, <1>5 DEF FailAndScheduleRetry
  <2>2. logs'[i].status = "failed_attempt"
    BY Zenon, <1>1, <1>5, <2>1 DEF FailAndScheduleRetry, Row, PendingRow
  <2>3. ASSUME NEW k \in RowIds
        PROVE  /\ k < nextId => (Pending(k)' => Pending(k)) /\ (Live(k)' => Live(k))
               /\ LeaseKept(k)
               /\ k # i => NoOutcome(k)
    BY SMTT(30), <1>1, <1>5 DEF FailAndScheduleRetry, PendingRow, Live, Pending, LeaseKept, NoOutcome, Row, RowIds
  <2> QED
    BY <1>1, <1>2, <2>1, <2>2, <2>3 DEF RowsKept, OldRowsKept, Pending
<1> QED
  BY ZenonT(40), <1>3, <1>4, <1>5 DEF HandleFailure

\* The clock ends the lease of one row.
LEMMA ElapseKeeps ==
    ASSUME StoreInv, NEW i \in RowIds, Elapse(i)
    PROVE  OldRowsKept /\ \A k \in RowIds : NoOutcome(k) /\ (k # i => LeaseKept(k))
<1>1. logs \in [RowIds -> Row] /\ nextId \in Nat /\ nextId' = nextId
  BY DEF StoreInv, StoreTypeOK, Elapse
<1>2. ASSUME NEW k \in RowIds
      PROVE  (Pending(k)' => Pending(k)) /\ (Live(k)' => Live(k)) /\ NoOutcome(k)
             /\ (k # i => LeaseKept(k))
  <2>1. logs[k] \in Row
    BY Zenon, <1>1
  <2> QED
    BY Zenon, <1>1, <2>1 DEF Elapse, Live, Pending, LeaseKept, NoOutcome, Row
<1>3. nextId' \in Nat /\ nextId <= nextId'
  BY <1>1
<1> QED
  BY <1>2, <1>3 DEF OldRowsKept

\* What was past or spent stays so.
LEMMA PastStays ==
    ASSUME StoreInv, OldRowsKept, NEW i
    PROVE  (Past(i) => Past(i)') /\ (Spent(i) => Spent(i)')
<1>1. nextId \in Nat /\ (i \in RowIds => i \in Nat)
  BY DEF StoreInv, StoreTypeOK, RowIds
<1>2. CASE i \in RowIds /\ i < nextId
  <2>1. i < nextId'
    BY <1>1, <1>2 DEF OldRowsKept
  <2> QED
    BY Zenon, <1>2, <2>1 DEF OldRowsKept, Past, Spent
<1> QED
  BY Zenon, <1>2 DEF Past, Spent


-----------------------------------------------------------------------------
(* A step of one goroutine in Process *)

\* What the goroutine's next state owes to the rows and to the others.
Sound(p, r) ==
    /\ r.pc # "idle" => r.id \in RowIds
    /\ r.held => \/ proc[p].held /\ r.id = proc[p].id
                 \/ /\ r.id \in RowIds /\ r.id < nextId /\ Pending(r.id)
                    /\ logs[r.id].due = "now" /\ logs'[r.id].due = "later"
    /\ r.pc \in {"ok", "bad"} => r.pc \in answers'[r.id]
    /\ r.pc = "push" => r.id < nextId' /\ logs'[r.id].status # "pending"

AnswersGrow ==
    /\ answers' \in [RowIds -> SUBSET {"ok", "bad"}]
    /\ \A k \in RowIds : answers[k] \subseteq answers'[k]

\* A goroutine that does not move keeps what it relies on.
LEMMA OtherFine ==
    ASSUME StoreInv, DelivererInv, OldRowsKept, AnswersGrow, NEW q \in Procs,
           proc'[q].pc = proc[q].pc, proc'[q].id = proc[q].id, proc'[q].held => proc[q].held,
           \A k \in RowIds : proc'[q].held /\ k = proc[q].id => LeaseKept(k)
    PROVE  Fine(q)'
<1> PICK i : i = proc[q].id
  BY Zenon
<1>1. nextId \in Nat
  BY DEF StoreInv, StoreTypeOK
<1>2. /\ proc[q].pc # "idle" => i \in RowIds
      /\ proc[q].held => /\ i \in RowIds /\ i < nextId
                         /\ Pending(i) => logs[i].due = "later"
      /\ proc[q].pc \in {"ok", "bad"} => proc[q].pc \in answers[i]
      /\ proc[q].pc = "push" => Past(i)
  BY Zenon DEF DelivererInv, Fine
<1>3. ASSUME proc'[q].held
      PROVE  i \in RowIds /\ i < nextId' /\ (logs'[i].status = "pending" => logs'[i].due = "later")
  <2>1. i \in RowIds /\ i < nextId /\ (Pending(i) => logs[i].due = "later")
    BY Zenon, <1>2, <1>3
  <2>2. nextId' \in Nat /\ nextId <= nextId' /\ LeaseKept(i)
        /\ (logs'[i].status = "pending" => logs[i].status = "pending")
    BY Zenon, <1>3, <2>1 DEF OldRowsKept, Pending
  <2>3. i < nextId'
    BY <1>1, <2>1, <2>2 DEF RowIds
  <2> QED
    BY Zenon, <2>1, <2>2, <2>3 DEF LeaseKept, Pending
<1>4. proc[q].pc \in {"ok", "bad"} => proc[q].pc \in answers'[i]
  <2>1. proc[q].pc \in {"ok", "bad"} => proc[q].pc # "idle"
    BY Zenon
  <2> QED
    BY Zenon, <1>2, <2>1 DEF AnswersGrow
<1>5. proc[q].pc = "push" => i \in RowIds /\ i < nextId' /\ logs'[i].status # "pending"
  BY Zenon, <1>2, PastStays DEF Past, Pending
<1> QED
  BY Zenon, <1>2, <1>3, <1>4, <1>5 DEF Fine, Past, Pending

\* The step of one goroutine leaves the others' leases and knowledge intact.
LEMMA OneMoves ==
    ASSUME StoreInv, DelivererInv, RowsKept, AnswersGrow, hand' \in RowIds \cup {0},
           NEW p \in Procs, NEW r \in ProcState,
           proc' = [proc EXCEPT ![p] = r], Sound(p, r)
    PROVE  DelivererInv'
<1>1. proc \in [Procs -> ProcState] /\ proc' \in [Procs -> ProcState] /\ nextId \in Nat
  BY DEF DelivererInv, DelivererTypeOK, ProcState, StoreInv, StoreTypeOK
<1>2. proc'[p] = r /\ \A q \in Procs : q # p => proc'[q] = proc[q]
  BY Zenon, <1>1
<1>3. ASSUME NEW q \in Procs
      PROVE  /\ proc[q].pc # "idle" => proc[q].id \in RowIds
             /\ proc[q].held => /\ proc[q].id \in RowIds /\ proc[q].id < nextId
                                /\ Pending(proc[q].id) => logs[proc[q].id].due = "later"
             /\ proc[q].pc \in {"ok", "bad"} => proc[q].pc \in answers[proc[q].id]
             /\ proc[q].pc = "push" => Past(proc[q].id)
  BY Zenon DEF DelivererInv, Fine
<1>4. ASSUME NEW q \in Procs, q # p
      PROVE  Fine(q)'
  BY Zenon, <1>2, <1>4, OtherFine DEF RowsKept
<1>5. Fine(p)'
  <2>1. r.pc # "idle" => r.id \in RowIds
    BY Zenon DEF Sound
  <2>2. ASSUME r.held
        PROVE  r.id \in RowIds /\ r.id < nextId'
               /\ (logs'[r.id].status = "pending" => logs'[r.id].due = "later")
    <3>1. CASE proc[p].held /\ r.id = proc[p].id
      <4>1. r.id \in RowIds /\ r.id < nextId /\ (Pending(r.id) => logs[r.id].due = "later")
        BY Zenon, <1>3, <3>1
      <4>2. nextId' \in Nat /\ nextId <= nextId' /\ LeaseKept(r.id)
            /\ (logs'[r.id].status = "pending" => logs[r.id].status = "pending")
        BY Zenon, <4>1 DEF RowsKept, OldRowsKept, Pending
      <4>3. r.id < nextId'
        BY <1>1, <4>1, <4>2 DEF RowIds
      <4> QED
        BY Zenon, <4>1, <4>2, <4>3 DEF LeaseKept, Pending
    <3>2. CASE /\ r.id \in RowIds /\ r.id < nextId /\ Pending(r.id)
               /\ logs[r.id].due = "now" /\ logs'[r.id].due = "later"
      <4>1. r.id < nextId'
        BY <1>1, <3>2 DEF RowIds, RowsKept, OldRowsKept
      <4> QED
        BY Zenon, <3>2, <4>1
    <3> QED
      BY Zenon, <2>2, <3>1, <3>2 DEF Sound
  <2>3. r.pc \in {"ok", "bad"} => r.pc \in answers'[r.id]
    BY Zenon DEF Sound
  <2>4. r.pc = "push" => r.id \in RowIds /\ r.id < nextId' /\ logs'[r.id].status # "pending"
    BY Zenon DEF Sound
  <2> QED
    BY Zenon, <1>2, <2>1, <2>2, <2>3, <2>4 DEF Fine, Past, Pending
<1>6. LeaseExclusive'
  <2>1. ASSUME NEW q \in Procs, q # p, r.held, proc[q].held
        PROVE  proc[q].id # r.id
    <3>1. CASE proc[p].held /\ r.id = proc[p].id
      BY Zenon, <2>1, <3>1 DEF DelivererInv, LeaseExclusive
    <3>2. CASE Pending(r.id) /\ logs[r.id].due = "now"
      BY Zenon, <1>3, <2>1, <3>2
    <3> QED
      BY Zenon, <2>1, <3>1, <3>2 DEF Sound
  <2>2. ASSUME NEW q1 \in Procs, NEW q2 \in Procs, q1 # p, q2 # p,
               proc[q1].held, proc[q2].held, proc[q1].id = proc[q2].id
        PROVE  q1 = q2
    BY Zenon, <2>2 DEF DelivererInv, LeaseExclusive
  <2> QED
    BY <1>2, <2>1, <2>2 DEF LeaseExclusive
<1> QED
  BY Zenon, <1>1, <1>4, <1>5, <1>6 DEF DelivererInv, DelivererTypeOK, ProcState, AnswersGrow

\* The tables' part of a step of the program: an outcome rests on an answer.
TablesStep ==
    \/ Quiet
    \/ \E i \in RowIds : \/ MarkSuccess(i) /\ "ok" \in answers[i]
                         \/ HandleFailure(i) /\ "bad" \in answers[i]

\* Such a step keeps old rows and leases, and every outcome justified.
LEMMA TablesStepKeeps ==
    ASSUME StoreInv, OutcomeJustified, TablesStep, AnswersGrow
    PROVE  RowsKept /\ OutcomeJustified' /\ [StoreNext]_storeVars
<1>1. CASE Quiet
  <2>1. RowsKept /\ \A k \in RowIds : NoOutcome(k)
    BY Zenon, <1>1, QuietKeeps
  <2>2. OutcomeJustified'
    BY Zenon, <2>1 DEF NoOutcome, OutcomeJustified, AnswersGrow
  <2>3. [StoreNext]_storeVars
    BY Zenon, <1>1 DEF Quiet, QuietRow, StoreNext, RowStep
  <2> QED
    BY Zenon, <2>1, <2>2, <2>3
<1>2. ASSUME NEW i \in RowIds, MarkSuccess(i), "ok" \in answers[i]
      PROVE  RowsKept /\ OutcomeJustified' /\ StoreNext
  <2>1. RowsKept /\ \A k \in RowIds : k # i => NoOutcome(k)
    BY Zenon, <1>2, SettleKeeps
  <2>2. logs[i] \in Row /\ logs \in [RowIds -> Row] /\ ~logs[i].inDLQ
    BY Zenon, <1>2, RowFacts DEF MarkSuccess
  <2>3. logs'[i].status = "success" /\ ~logs'[i].inDLQ
    BY Zenon, <1>2, <2>2 DEF MarkSuccess, Row
  <2>4. OutcomeJustified'
    BY Zenon, <1>2, <2>1, <2>3 DEF NoOutcome, OutcomeJustified, AnswersGrow
  <2> QED
    BY Zenon, <1>2, <2>1, <2>4 DEF StoreNext, RowStep
<1>3. ASSUME NEW i \in RowIds, HandleFailure(i), "bad" \in answers[i]
      PROVE  RowsKept /\ OutcomeJustified' /\ StoreNext
  <2>1. RowsKept /\ \A k \in RowIds : k # i => NoOutcome(k)
    BY Zenon, <1>3, SettleKeeps
  <2>2. logs[i] \in Row /\ logs \in [RowIds -> Row] /\ Pending(i) /\ i # nextId
    BY <1>3, RowFacts DEF HandleFailure, FailAndScheduleRetry, FinalizeFailure, RowIds
  <2>3. logs'[i].status # "success"
    BY <1>3, <2>2 DEF HandleFailure, FailAndScheduleRetry, FinalizeFailure, Row, PendingRow
  <2>4. OutcomeJustified'
    BY Zenon, <1>3, <2>1, <2>3 DEF NoOutcome, OutcomeJustified, AnswersGrow
  <2> QED
    BY Zenon, <1>3, <2>1, <2>4 DEF StoreNext, RowStep
<1> QED
  BY Zenon, <1>1, <1>2, <1>3 DEF TablesStep

\* Process returns.
LEMMA ReturnMoves ==
    ASSUME StoreInv, DelivererInv, RowsKept, UNCHANGED <<hand, answers>>,
           NEW p \in Procs, Return(p)
    PROVE  DelivererInv'
<1>1. PICK r \in ProcState : r = Returned
  BY Zenon DEF ProcState, Returned
<1>2. Sound(p, r)
  BY <1>1 DEF Sound, Returned
<1>3. proc' = [proc EXCEPT ![p] = r]
  BY Zenon, <1>1 DEF Return
<1>4. AnswersGrow /\ hand' \in RowIds \cup {0}
  BY DEF AnswersGrow, DelivererInv, DelivererTypeOK
<1> QED
  BY Zenon, <1>1, <1>2, <1>3, <1>4, OneMoves

\* Process goes on to a call that relies on nothing new.
LEMMA GotoMoves ==
    ASSUME StoreInv, DelivererInv, RowsKept, UNCHANGED <<hand, answers>>,
           NEW p \in Procs, proc[p].pc # "idle",
           NEW c \in Calls \ {"ok", "bad", "push"}, Goto(p, c)
    PROVE  DelivererInv'
<1>1. proc \in [Procs -> ProcState] /\ proc[p] \in ProcState /\ proc[p].id \in RowIds
  BY DEF DelivererInv, DelivererTypeOK, ProcState, Fine
<1>2. PICK r \in ProcState : r = [proc[p] EXCEPT !.pc = c]
  BY Zenon, <1>1 DEF ProcState
<1>3. r.pc = c /\ r.id = proc[p].id /\ r.held = proc[p].held
  BY Zenon, <1>1, <1>2 DEF ProcState
<1>4. Sound(p, r)
  BY Zenon, <1>1, <1>3 DEF Sound
<1>5. proc' = [proc EXCEPT ![p] = r]
  BY Zenon, <1>1, <1>2 DEF Goto
<1>6. AnswersGrow /\ hand' \in RowIds \cup {0}
  BY DEF AnswersGrow, DelivererInv, DelivererTypeOK
<1> QED
  BY Zenon, <1>2, <1>4, <1>5, <1>6, OneMoves

\* Process starts on an id, whoever else works on it.
LEMMA StartMoves ==
    ASSUME StoreInv, DelivererInv, RowsKept, UNCHANGED answers, hand' \in RowIds \cup {0},
           NEW p \in Procs, NEW i \in RowIds, Start(p, i)
    PROVE  DelivererInv'
<1>1. PICK r \in ProcState : r = [Returned EXCEPT !.pc = "load", !.id = i]
  BY Zenon DEF ProcState, Returned, Calls
<1>2. r.pc = "load" /\ r.id = i /\ ~r.held
  BY Zenon, <1>1 DEF Returned
<1>3. Sound(p, r)
  BY <1>2 DEF Sound
<1>4. proc' = [proc EXCEPT ![p] = r]
  BY Zenon, <1>1 DEF Start
<1>5. AnswersGrow
  BY Zenon DEF AnswersGrow, DelivererInv, DelivererTypeOK
<1> QED
  BY Zenon, <1>1, <1>3, <1>4, <1>5, OneMoves

\* Every call of Process is sound.
LEMMA ProcessKeeps ==
    ASSUME StoreInv, DelivererInv, OutcomeJustified, NEW p \in Procs, Process(p)
    PROVE  TablesStep /\ AnswersGrow /\ DelivererInv'
<1>1. proc \in [Procs -> ProcState] /\ proc[p] \in ProcState
      /\ (proc[p].pc # "idle" => proc[p].id \in RowIds)
      /\ (proc[p].pc \in {"ok", "bad"} => proc[p].pc \in answers[proc[p].id])
  BY DEF DelivererInv, DelivererTypeOK, ProcState, Fine
<1>2. PICK i : i = proc[p].id
  OBVIOUS
<1>3. answers \in [RowIds -> SUBSET {"ok", "bad"}] /\ hand \in RowIds \cup {0}
  BY DEF DelivererInv, DelivererTypeOK
<1>4. answers' = answers => AnswersGrow
  BY Zenon, <1>3 DEF AnswersGrow
<1>5. UNCHANGED storeVars => TablesStep
  BY DEF TablesStep, Quiet
<1>6. TablesStep /\ AnswersGrow => RowsKept
  BY Zenon, TablesStepKeeps
<1>7. CASE Load(p)
  <2>1. UNCHANGED <<hand, answers>> /\ UNCHANGED storeVars /\ proc[p].pc # "idle"
    BY Zenon, <1>7 DEF Load, At
  <2>2. TablesStep /\ AnswersGrow /\ RowsKept
    BY Zenon, <1>4, <1>5, <1>6, <2>1
  <2>3. CASE Return(p)
    BY Zenon, <2>1, <2>2, <2>3, ReturnMoves
  <2>4. CASE Pending(proc[p].id)
    <3>1. proc' = [proc EXCEPT ![p].pc = "claim", ![p].sub = logs[proc[p].id].sub]
      BY Zenon, <1>7, <2>4 DEF Load
    <3>2. logs[i].sub \in Subs \cup {None} /\ i \in RowIds
      BY ZenonT(40), <1>1, <1>2, <2>1, RowFacts DEF Row
    <3>3. PICK r \in ProcState : r = [proc[p] EXCEPT !.pc = "claim", !.sub = logs[i].sub]
      BY Zenon, <1>1, <3>2 DEF ProcState, Calls
    <3>4. r.pc = "claim" /\ r.id = i /\ r.held = proc[p].held
      BY Zenon, <1>1, <1>2, <3>3 DEF ProcState
    <3>5. proc' = [proc EXCEPT ![p] = r]
      BY Zenon, <1>1, <1>2, <3>1, <3>3
    <3>6. Sound(p, r)
      BY Zenon, <1>2, <3>2, <3>4 DEF Sound
    <3>7. hand' \in RowIds \cup {0}
      BY Zenon, <1>3, <2>1
    <3> QED
      BY Zenon, <2>2, <3>3, <3>5, <3>6, <3>7, OneMoves
  <2> QED
    BY Zenon, <1>7, <2>2, <2>3, <2>4 DEF Load
<1>8. CASE Claim(p)
  <2>1. UNCHANGED <<hand, answers>> /\ proc[p].pc = "claim" /\ proc[p].pc # "idle" /\ i \in RowIds
    BY Zenon, <1>1, <1>2, <1>8 DEF Claim, At
  <2>2. AnswersGrow
    BY Zenon, <1>4, <2>1
  <2>3. CASE UNCHANGED storeVars /\ Goto(p, "reread")
    <3>1. TablesStep /\ RowsKept
      BY ZenonT(40), <1>5, <1>6, <2>2, <2>3
    <3> QED
      BY ZenonT(40), <2>1, <2>2, <2>3, <3>1, GotoMoves DEF Calls
  <2>4. CASE /\ ClaimPending(proc[p].id)
             /\ proc' = [proc EXCEPT ![p].pc = "getsub", ![p].held = TRUE]
    <3>1. ClaimPending(i)
      BY Zenon, <1>2, <2>4
    <3>2. TablesStep /\ RowsKept
      BY ZenonT(40), <1>6, <2>1, <2>2, <3>1 DEF TablesStep, Quiet, QuietRow
    <3>3. PICK r \in ProcState : r = [proc[p] EXCEPT !.pc = "getsub", !.held = TRUE]
      BY Zenon, <1>1 DEF ProcState, Calls
    <3>4. r.pc = "getsub" /\ r.id = i
      BY Zenon, <1>1, <1>2, <3>3 DEF ProcState
    <3>5. proc' = [proc EXCEPT ![p] = r]
      BY Zenon, <1>1, <2>4, <3>3
    <3>6. i < nextId /\ Pending(i) /\ logs[i].due = "now" /\ logs \in [RowIds -> Row]
      BY ZenonT(40), <2>1, <3>1, RowFacts DEF ClaimPending, Claimable
    <3>7. logs'[i].due = "later"
      BY Zenon, <2>1, <3>1, <3>6 DEF ClaimPending, Row
    <3>8. Sound(p, r)
      BY ZenonT(40), <2>1, <3>4, <3>6, <3>7 DEF Sound
    <3>9. hand' \in RowIds \cup {0}
      BY Zenon, <1>3, <2>1
    <3> QED
      BY Zenon, <2>2, <3>2, <3>3, <3>5, <3>8, <3>9, OneMoves
  <2> QED
    BY Zenon, <1>8, <2>3, <2>4 DEF Claim
<1>9. CASE Reread(p) \/ GetSub(p) \/ Admit(p) \/ Deny(p)
  <2>1. UNCHANGED <<hand, answers>> /\ UNCHANGED storeVars /\ proc[p].pc # "idle"
    BY Zenon, <1>9 DEF Reread, GetSub, Admit, Deny, At
  <2>2. TablesStep /\ AnswersGrow /\ RowsKept
    BY Zenon, <1>4, <1>5, <1>6, <2>1
  <2>3. \/ Return(p)
        \/ \E c \in {"zadd", "drop", "admit", "http", "resched"} : Goto(p, c)
    BY Zenon, <1>9 DEF Reread, GetSub, Admit, Deny
  <2>4. {"zadd", "drop", "admit", "http", "resched"} \subseteq Calls \ {"ok", "bad", "push"}
    BY Zenon DEF Calls
  <2> QED
    BY ZenonT(40), <2>1, <2>2, <2>3, <2>4, ReturnMoves, GotoMoves
<1>10. CASE DropInactive(p) \/ RescheduleNoAttempt(p)
  <2>1. UNCHANGED <<hand, answers>> /\ proc[p].pc # "idle" /\ i \in RowIds
    BY ZenonT(40), <1>1, <1>2, <1>10 DEF DropInactive, RescheduleNoAttempt, At
  <2>2. Quiet
    BY ZenonT(40), <1>2, <1>10, <2>1 DEF DropInactive, RescheduleNoAttempt, Quiet, QuietRow
  <2>3. TablesStep /\ AnswersGrow /\ RowsKept
    BY ZenonT(40), <1>4, <1>6, <2>1, <2>2 DEF TablesStep
  <2>4. Return(p) \/ Goto(p, "zadd")
    BY ZenonT(40), <1>10 DEF DropInactive, RescheduleNoAttempt
  <2> QED
    BY ZenonT(40), <2>1, <2>3, <2>4, ReturnMoves, GotoMoves DEF Calls
<1>11. ASSUME NEW a \in {"ok", "bad"}, Attempt(p, a)
       PROVE  TablesStep /\ AnswersGrow /\ DelivererInv'
  <2>1. UNCHANGED hand /\ UNCHANGED storeVars /\ i \in RowIds
    BY Zenon, <1>1, <1>2, <1>11 DEF Attempt, At
  <2>2. answers' = [answers EXCEPT ![i] = @ \cup {a}]
    BY Zenon, <1>2, <1>11 DEF Attempt
  <2>3. AnswersGrow /\ a \in answers'[i]
    BY ZenonT(40), <1>3, <1>11, <2>1, <2>2 DEF AnswersGrow
  <2>4. TablesStep /\ RowsKept
    BY ZenonT(40), <1>5, <1>6, <2>1, <2>3
  <2>5. PICK r \in ProcState : r = [proc[p] EXCEPT !.pc = a]
    BY Zenon, <1>1, <1>11 DEF ProcState, Calls
  <2>6. r.pc = a /\ r.id = i /\ r.held = proc[p].held
    BY Zenon, <1>1, <1>2, <2>5 DEF ProcState
  <2>7. proc' = [proc EXCEPT ![p] = r]
    BY Zenon, <1>1, <1>11, <2>5 DEF Attempt, Goto
  <2>8. Sound(p, r)
    BY ZenonT(40), <1>2, <1>11, <2>1, <2>3, <2>6 DEF Sound
  <2>9. hand' \in RowIds \cup {0}
    BY Zenon, <1>3, <2>1
  <2> QED
    BY Zenon, <2>3, <2>4, <2>5, <2>7, <2>8, <2>9, OneMoves
<1>12. CASE RecordDeliverySuccess(p)
  <2>1. UNCHANGED <<hand, answers>> /\ i \in RowIds /\ "ok" \in answers[i] /\ Return(p)
    BY Zenon, <1>1, <1>2, <1>12 DEF RecordDeliverySuccess, At
  <2>2. TablesStep
    BY Zenon, <1>2, <1>5, <1>12, <2>1 DEF RecordDeliverySuccess, TablesStep
  <2>3. AnswersGrow /\ RowsKept
    BY Zenon, <1>4, <1>6, <2>1, <2>2
  <2> QED
    BY Zenon, <2>1, <2>2, <2>3, ReturnMoves
<1>13. CASE RetryOrFinalize(p)
  <2>1. UNCHANGED <<hand, answers>> /\ i \in RowIds /\ "bad" \in answers[i]
    BY Zenon, <1>1, <1>2, <1>13 DEF RetryOrFinalize, At
  <2>2. AnswersGrow /\ hand' \in RowIds \cup {0}
    BY Zenon, <1>3, <1>4, <2>1
  <2>3. CASE Return(p) /\ UNCHANGED storeVars
    BY ZenonT(40), <1>5, <1>6, <2>1, <2>2, <2>3, ReturnMoves
  <2>4. CASE /\ HandleFailure(i) /\ FailAndScheduleRetry(i)
             /\ proc' = [proc EXCEPT ![p] = [Returned EXCEPT !.pc = "zadd", !.id = nextId]]
    <3>1. TablesStep /\ RowsKept
      BY Zenon, <1>6, <2>1, <2>2, <2>4 DEF TablesStep
    <3>2. nextId \in RowIds
      BY Zenon, <2>4 DEF FailAndScheduleRetry
    <3>3. PICK r \in ProcState : r = [Returned EXCEPT !.pc = "zadd", !.id = nextId]
      BY Zenon, <3>2 DEF ProcState, Returned, Calls
    <3>4. r.pc = "zadd" /\ r.id = nextId /\ ~r.held
      BY Zenon, <3>3 DEF Returned
    <3>5. Sound(p, r)
      BY Zenon, <3>2, <3>4 DEF Sound
    <3>6. proc' = [proc EXCEPT ![p] = r]
      BY Zenon, <2>4, <3>3
    <3> QED
      BY Zenon, <2>2, <3>1, <3>3, <3>5, <3>6, OneMoves
  <2>5. CASE HandleFailure(i) /\ Goto(p, "push")
    <3>1. TablesStep /\ RowsKept
      BY ZenonT(40), <1>6, <2>1, <2>2, <2>5 DEF TablesStep
    <3>2. PICK r \in ProcState : r = [proc[p] EXCEPT !.pc = "push"]
      BY Zenon, <1>1 DEF ProcState, Calls
    <3>3. r.pc = "push" /\ r.id = i /\ r.held = proc[p].held
      BY Zenon, <1>1, <1>2, <3>2 DEF ProcState
    <3>4. i < nextId' /\ logs'[i].status # "pending"
      BY ZenonT(40), <2>1, <2>5, SettleKeeps DEF Pending
    <3>5. Sound(p, r)
      BY ZenonT(40), <1>2, <2>1, <3>3, <3>4 DEF Sound
    <3>6. proc' = [proc EXCEPT ![p] = r]
      BY Zenon, <1>1, <2>5, <3>2 DEF Goto
    <3> QED
      BY Zenon, <2>2, <3>1, <3>2, <3>5, <3>6, OneMoves
  <2> QED
    BY ZenonT(40), <1>2, <1>13, <2>3, <2>4, <2>5 DEF RetryOrFinalize, HandleFailure
<1>14. CASE ZAdd(p) \/ PushDead(p)
  <2>1. UNCHANGED <<hand, answers>> /\ UNCHANGED storeVars /\ Return(p)
    BY <1>14 DEF ZAdd, PushDead
  <2>2. TablesStep /\ AnswersGrow /\ RowsKept
    BY ZenonT(40), <1>4, <1>5, <1>6, <2>1
  <2> QED
    BY ZenonT(40), <2>1, <2>2, ReturnMoves
<1> QED
  BY ZenonT(40), <1>7, <1>8, <1>9, <1>10, <1>11, <1>12, <1>13, <1>14 DEF Process

\* Nobody in Process moves.
LEMMA NobodyMoves ==
    ASSUME StoreInv, DelivererInv, RowsKept, UNCHANGED <<proc, answers>>, hand' \in RowIds \cup {0}
    PROVE  DelivererInv'
<1>1. AnswersGrow
  BY Zenon DEF AnswersGrow, DelivererInv, DelivererTypeOK
<1>2. \A q \in Procs : Fine(q)'
  BY Zenon, <1>1, OtherFine DEF RowsKept
<1> QED
  BY Zenon, <1>2 DEF DelivererInv, DelivererTypeOK, LeaseExclusive

\* The clock ends the leases on one row, its holder's among them.
LEMMA ElapseMoves ==
    ASSUME StoreInv, DelivererInv, NEW i \in RowIds, LeaseElapses(i)
    PROVE  DelivererInv'
<1>1. proc \in [Procs -> ProcState] /\ UNCHANGED <<hand, answers>>
  BY DEF DelivererInv, DelivererTypeOK, ProcState, LeaseElapses
<1>2. AnswersGrow
  BY <1>1 DEF AnswersGrow, DelivererInv, DelivererTypeOK
<1>3. OldRowsKept /\ \A k \in RowIds : k # i => LeaseKept(k)
  BY Zenon, ElapseKeeps DEF LeaseElapses
<1>4. ASSUME NEW q \in Procs
      PROVE  /\ proc'[q] \in ProcState /\ proc'[q].pc = proc[q].pc /\ proc'[q].id = proc[q].id
             /\ proc'[q].held => proc[q].held /\ proc[q].id # i
  <2>1. proc[q] \in ProcState
    BY ZenonT(40), <1>1
  <2>2. CASE proc[q].id = i
    <3>1. proc'[q] = [proc[q] EXCEPT !.held = FALSE]
      BY Zenon, <2>2 DEF LeaseElapses
    <3> QED
      BY Zenon, <2>1, <3>1 DEF ProcState
  <2>3. CASE proc[q].id # i
    BY Zenon, <2>1, <2>3 DEF LeaseElapses
  <2> QED
    BY Zenon, <2>2, <2>3
<1>5. \A q \in Procs : Fine(q)'
  BY Zenon, <1>2, <1>3, <1>4, OtherFine
<1>6. LeaseExclusive'
  BY ZenonT(40), <1>4 DEF LeaseExclusive, DelivererInv
<1>7. proc' \in [Procs -> ProcState]
  BY Zenon, <1>4 DEF LeaseElapses
<1> QED
  BY ZenonT(40), <1>1, <1>5, <1>6, <1>7 DEF DelivererInv, DelivererTypeOK, ProcState

\* A crash leaves no goroutine in Process.
LEMMA CrashMoves ==
    ASSUME DelivererInv, Crash
    PROVE  DelivererInv'
<1>1. proc' = [p \in Procs |-> Returned] /\ hand' = 0 /\ answers' = answers
  BY Zenon DEF Crash
<1>2. proc' \in [Procs -> ProcState]
  BY Zenon, <1>1 DEF ProcState, Returned
<1>3. \A p \in Procs : Fine(p)'
  BY Zenon, <1>1 DEF Fine, Returned
<1>4. LeaseExclusive'
  BY Zenon, <1>1 DEF LeaseExclusive, Returned
<1> QED
  BY ZenonT(40), <1>1, <1>2, <1>3, <1>4 DEF DelivererInv, DelivererTypeOK, ProcState

-----------------------------------------------------------------------------
(* Every step of the service *)

\* The worker pool: dequeue, hand over, Process.
LEMMA PoolKeeps ==
    ASSUME SystemInv, PoolStep
    PROVE  TablesStep /\ AnswersGrow /\ DelivererInv'
<1>1. StoreInv /\ DelivererInv /\ OutcomeJustified /\ hand \in RowIds \cup {0}
  BY DEF SystemInv, DelivererInv, DelivererTypeOK
<1>2. ASSUME UNCHANGED storeVars, UNCHANGED answers
      PROVE  TablesStep /\ AnswersGrow /\ RowsKept
  <2>1. TablesStep /\ AnswersGrow
    BY Zenon, <1>1, <1>2 DEF TablesStep, Quiet, AnswersGrow, DelivererInv, DelivererTypeOK
  <2> QED
    BY Zenon, <1>1, <2>1, TablesStepKeeps
<1>3. ASSUME NEW i \in RowIds, PoolDequeue(i)
      PROVE  TablesStep /\ AnswersGrow /\ DelivererInv'
  <2>1. UNCHANGED storeVars /\ UNCHANGED <<proc, answers>> /\ hand' = i
    BY Zenon, <1>3 DEF PoolDequeue
  <2> QED
    BY ZenonT(40), <1>1, <1>2, <2>1, NobodyMoves
<1>4. ASSUME NEW p \in Workers, PoolGo(p)
      PROVE  TablesStep /\ AnswersGrow /\ DelivererInv'
  <2>1. /\ UNCHANGED storeVars /\ UNCHANGED answers /\ hand' = 0
        /\ hand \in RowIds /\ Start(p, hand) /\ p \in Procs
    BY Zenon, <1>1, <1>4 DEF PoolGo, Procs
  <2>2. PICK i \in RowIds : i = hand
    BY Zenon, <2>1
  <2> QED
    BY Zenon, <1>1, <1>2, <2>1, <2>2, StartMoves DEF Start
<1> QED
  BY ZenonT(40), <1>1, <1>3, <1>4, ProcessKeeps DEF PoolStep

\* The API: requests start Process only on a row they inserted.
LEMMA ApiKeeps ==
    ASSUME SystemInv, ApiStep
    PROVE  TablesStep /\ AnswersGrow /\ DelivererInv'
<1>1. StoreInv /\ DelivererInv /\ OutcomeJustified /\ hand \in RowIds \cup {0}
  BY DEF SystemInv, DelivererInv, DelivererTypeOK
<1>2. ASSUME Quiet, UNCHANGED answers
      PROVE  TablesStep /\ AnswersGrow /\ RowsKept
  <2>1. TablesStep /\ AnswersGrow
    BY Zenon, <1>1, <1>2 DEF TablesStep, AnswersGrow, DelivererInv, DelivererTypeOK
  <2> QED
    BY Zenon, <1>1, <2>1, TablesStepKeeps
<1>3. ASSUME Quiet, UNCHANGED delivererVars
      PROVE  TablesStep /\ AnswersGrow /\ DelivererInv'
  <2>1. UNCHANGED <<hand, proc, answers>>
    BY Zenon, <1>3 DEF delivererVars
  <2> QED
    BY ZenonT(40), <1>1, <1>2, <1>3, <2>1, NobodyMoves
<1>4. ASSUME NEW h \in Requests, Ingest(h)
      PROVE  TablesStep /\ AnswersGrow /\ DelivererInv'
  <2>1. CASE (\E s \in Subs : IngestAuthenticated(h, s)) \/ IngestRefused(h)
    BY Zenon, <1>3, <2>1 DEF IngestAuthenticated, IngestRefused, Quiet
  <2>2. ASSUME NEW k \in Keys \cup {None}, NEW w \in Webhooks, IngestFirst(h, k, w)
        PROVE  TablesStep /\ AnswersGrow /\ DelivererInv'
    <3>1. req[h].sub \in Subs /\ IngestPending(req[h].sub, k, w) /\ UNCHANGED <<hand, answers>>
      BY Zenon, <1>4, <2>2 DEF IngestFirst, SystemInv, Requested
    <3>2. PICK s \in Subs : IngestPending(s, k, w)
      BY Zenon, <3>1
    <3>3. Quiet /\ nextId \in RowIds /\ h \in Procs
      BY Zenon, <3>2 DEF Quiet, WebhookStep, IngestPending, Procs
    <3>4. TablesStep /\ AnswersGrow /\ RowsKept
      BY Zenon, <1>2, <3>1, <3>3
    <3>5. CASE UNCHANGED proc
      BY ZenonT(40), <1>1, <3>1, <3>4, <3>5, NobodyMoves
    <3>6. CASE Start(h, nextId)
      <4>1. PICK i \in RowIds : i = nextId
        BY Zenon, <3>3
      <4> QED
        BY Zenon, <1>1, <3>1, <3>3, <3>4, <3>6, <4>1, StartMoves DEF Start
    <3> QED
      BY Zenon, <2>2, <3>5, <3>6 DEF IngestFirst
  <2> QED
    BY ZenonT(40), <1>4, <2>1, <2>2 DEF Ingest
<1>5. ASSUME NEW h \in Requests, PostCommit(h) \/ Triage(h)
      PROVE  Quiet /\ UNCHANGED delivererVars
  BY Zenon, <1>5 DEF PostCommit, PostEnqueue, PostRemove, Triage, HandleReplay, HandleAck, Quiet, WebhookStep
<1>6. ASSUME NEW s \in Subs, Create(s) \/ Update(s) \/ Delete(s)
      PROVE  Quiet /\ UNCHANGED delivererVars
  BY Zenon, <1>6 DEF Create, Update, Delete, Quiet, SubscriptionStep
<1> QED
  BY ZenonT(40), <1>3, <1>4, <1>5, <1>6 DEF ApiStep

\* The periodic workers leave Process alone.
LEMMA MaintenanceKeeps ==
    ASSUME SystemInv, MaintenanceStep
    PROVE  TablesStep /\ AnswersGrow /\ DelivererInv'
<1>1. StoreInv /\ DelivererInv /\ OutcomeJustified /\ hand \in RowIds \cup {0}
  BY DEF SystemInv, DelivererInv, DelivererTypeOK
<1>2. UNCHANGED <<hand, proc, answers>>
  BY DEF MaintenanceStep, delivererVars
<1>3. ASSUME Recover PROVE Quiet
  BY Zenon, <1>3 DEF Recover, ScanDue, ScanEnqueue, ScanRearm, ScanDone, Quiet, SweepStep
<1>4. ASSUME Cleanup PROVE Quiet
  BY Zenon, <1>4 DEF Cleanup, Quiet, SweepStep
<1>5. ASSUME Reconcile PROVE Quiet
  BY Zenon, <1>5 DEF Reconcile, ForceAck, RemoveForced, CheckMissing, CheckStale, ListInDLQ,
              ListRedis, PushMissing, RemoveStale, ReconDone, Quiet, SweepStep
<1>6. Quiet
  BY Zenon, <1>3, <1>4, <1>5 DEF MaintenanceStep, Poll, Quiet
<1>7. TablesStep /\ AnswersGrow
  BY ZenonT(40), <1>1, <1>2, <1>6 DEF TablesStep, AnswersGrow, DelivererInv, DelivererTypeOK
<1>8. RowsKept
  BY Zenon, <1>1, <1>7, TablesStepKeeps
<1> QED
  BY ZenonT(40), <1>1, <1>2, <1>7, <1>8, NobodyMoves

\* Failing calls, crashes and the loss of Redis touch no table.
LEMMA FaultKeeps ==
    ASSUME SystemInv, Fault
    PROVE  TablesStep /\ AnswersGrow /\ DelivererInv'
<1>1. StoreInv /\ DelivererInv /\ OutcomeJustified /\ hand \in RowIds \cup {0}
  BY DEF SystemInv, DelivererInv, DelivererTypeOK
<1>2. UNCHANGED storeVars /\ UNCHANGED answers
  BY Zenon DEF Fault, CallFails, RequestFails, RecoverFails, ScanQueryFails, ScanEnqueueFails,
         ReconcileFails, Crash, RedisLoss, delivererVars
<1>3. TablesStep /\ AnswersGrow
  BY Zenon, <1>1, <1>2 DEF TablesStep, Quiet, AnswersGrow, DelivererInv, DelivererTypeOK
<1>4. RowsKept
  BY Zenon, <1>1, <1>3, TablesStepKeeps
<1>5. ASSUME NEW p \in Procs, CallFails(p) PROVE DelivererInv'
  BY ZenonT(40), <1>1, <1>4, <1>5, ReturnMoves DEF CallFails
<1>6. CASE Crash
  BY ZenonT(40), <1>1, <1>3, <1>6, CrashMoves
<1>7. CASE UNCHANGED delivererVars
  <2>1. UNCHANGED <<hand, proc, answers>>
    BY Zenon, <1>7 DEF delivererVars
  <2> QED
    BY ZenonT(40), <1>1, <1>3, <1>4, <2>1, NobodyMoves
<1> QED
  BY ZenonT(40), <1>3, <1>5, <1>6, <1>7 DEF Fault, RequestFails, RedisLoss

\* The tables under any step: old rows are kept, and it is a step of DeliveryStore.
LEMMA StepKeeps ==
    ASSUME SystemInv, Next
    PROVE  OldRowsKept /\ DelivererInv' /\ OutcomeJustified' /\ [StoreNext]_storeVars /\ StoreInv'
<1>1. StoreInv /\ DelivererInv /\ OutcomeJustified
  BY DEF SystemInv
<1>2. ASSUME TablesStep, AnswersGrow, DelivererInv'
      PROVE  OldRowsKept /\ DelivererInv' /\ OutcomeJustified' /\ [StoreNext]_storeVars
  BY Zenon, <1>1, <1>2, TablesStepKeeps DEF RowsKept
<1>3. ASSUME NEW i \in RowIds, LeaseElapses(i)
      PROVE  OldRowsKept /\ DelivererInv' /\ OutcomeJustified' /\ [StoreNext]_storeVars
  <2>1. Elapse(i) /\ answers' = answers
    BY Zenon, <1>3 DEF LeaseElapses
  <2>2. OldRowsKept /\ \A k \in RowIds : NoOutcome(k)
    BY Zenon, <1>1, <2>1, ElapseKeeps
  <2>3. OutcomeJustified'
    BY Zenon, <1>1, <2>1, <2>2 DEF NoOutcome, OutcomeJustified
  <2>4. StoreNext
    BY Zenon, <2>1 DEF StoreNext, RowStep
  <2> QED
    BY ZenonT(40), <1>1, <1>3, <2>2, <2>3, <2>4, ElapseMoves
<1>4. ASSUME NEW s \in Subs, NEW w \in Webhooks, InsertLeaseLess(s, w), UNCHANGED delivererVars
      PROVE  OldRowsKept /\ DelivererInv' /\ OutcomeJustified' /\ [StoreNext]_storeVars
  <2>1. UNCHANGED <<hand, proc, answers>> /\ hand \in RowIds \cup {0}
    BY Zenon, <1>1, <1>4 DEF delivererVars, DelivererInv, DelivererTypeOK
  <2>2. TablesStep /\ AnswersGrow
    BY Zenon, <1>1, <1>4, <2>1 DEF TablesStep, Quiet, WebhookStep, AnswersGrow, DelivererInv, DelivererTypeOK
  <2>3. RowsKept
    BY Zenon, <1>1, <2>2, TablesStepKeeps
  <2> QED
    BY ZenonT(40), <1>1, <1>2, <2>1, <2>2, <2>3, NobodyMoves
<1>5. OldRowsKept /\ DelivererInv' /\ OutcomeJustified' /\ [StoreNext]_storeVars
  BY ZenonT(40), <1>2, <1>3, <1>4, PoolKeeps, ApiKeeps, MaintenanceKeeps, FaultKeeps DEF Next, EnvironmentStep
<1> QED
  BY ZenonT(40), <1>1, <1>5, NextInv

\* Acknowledgements and replays clear the flag of a row whose attempts are over.
LEMMA ClearedIsSpent ==
    ASSUME StoreInv, NEW i \in RowIds, logs[i].inDLQ, i < nextId',
           i < nextId => logs'[i] = [logs[i] EXCEPT !.inDLQ = FALSE]
    PROVE  Spent(i)'
<1>1. logs[i] \in Row /\ logs[i].status = "final_failure" /\ i < nextId
  BY Zenon, RowFacts
<1>2. logs'[i].status = "final_failure" /\ ~logs'[i].inDLQ
  BY Zenon, <1>1 DEF Row
<1> QED
  BY Zenon, <1>2 DEF Spent, Live, Pending

ReqState == [pc: {"idle", "ingest", "enqueue", "remove"},
             sub: Subs \cup {None}, new: RowIds \cup {0}, old: RowIds \cup {0}]

\* One request goes on, the others wait.
LEMMA OneRequest ==
    ASSUME SystemInv, OldRowsKept, NEW h \in Requests, NEW r \in ReqState,
           req' = [req EXCEPT ![h] = r],
           r.pc = "ingest" => r.sub \in Subs,
           r.old # 0 => Spent(r.old)',
           r.pc = "remove" => r.old # 0
    PROVE  ApiTypeOK' /\ \A g \in Requests : Requested(g)'
<1>1. req \in [Requests -> ReqState]
  BY Zenon DEF SystemInv, ApiTypeOK, ReqState
<1>2. req'[h] = r /\ \A g \in Requests : g # h => req'[g] = req[g]
  BY Zenon, <1>1
<1>3. Requested(h)'
  BY Zenon, <1>2 DEF Requested
<1>4. ASSUME NEW g \in Requests, g # h PROVE Requested(g)'
  <2>1. PICK o : o = req[g].old
    BY Zenon
  <2>2. o # 0 => Spent(o)
    BY Zenon, <2>1 DEF SystemInv, Requested
  <2>3. o # 0 => Spent(o)'
    BY Zenon, <2>2, PastStays DEF SystemInv
  <2> QED
    BY ZenonT(40), <1>2, <1>4, <2>1, <2>3 DEF SystemInv, Requested
<1> QED
  BY Zenon, <1>1, <1>3, <1>4 DEF ApiTypeOK, ReqState

\* Requests wait while others go on.
LEMMA NoRequest ==
    ASSUME SystemInv, OldRowsKept, UNCHANGED req
    PROVE  ApiTypeOK' /\ \A g \in Requests : Requested(g)'
<1>1. ASSUME NEW g \in Requests PROVE Requested(g)'
  <2>1. PICK o : o = req[g].old
    BY Zenon
  <2>2. o # 0 => Spent(o)'
    BY Zenon, <2>1, PastStays DEF SystemInv, Requested
  <2> QED
    BY Zenon, <2>1, <2>2 DEF SystemInv, Requested
<1> QED
  BY Zenon, <1>1 DEF SystemInv, ApiTypeOK

\* After the enqueue only the removal of a replayed dead letter is left.
LEMMA AfterEnqueueKeeps ==
    ASSUME SystemInv, OldRowsKept, NEW h \in Requests, AfterEnqueue(h)
    PROVE  ApiTypeOK' /\ \A g \in Requests : Requested(g)'
<1>1. req \in [Requests -> ReqState] /\ req[h] \in ReqState /\ Requested(h)
  BY DEF SystemInv, ApiTypeOK, ReqState
<1>2. CASE req[h].old = 0
  <2>1. req' = [req EXCEPT ![h] = Answered]
    BY ZenonT(40), <1>1, <1>2 DEF AfterEnqueue
  <2>2. Answered \in ReqState /\ Answered.pc = "idle" /\ Answered.old = 0
    BY DEF Answered, ReqState
  <2> QED
    BY Zenon, <2>1, <2>2, OneRequest
<1>3. CASE req[h].old # 0
  <2>1. PICK r \in ReqState : r = [req[h] EXCEPT !.pc = "remove"]
    BY Zenon, <1>1 DEF ReqState
  <2>2. r.pc = "remove" /\ r.old = req[h].old
    BY Zenon, <1>1, <2>1 DEF ReqState
  <2>3. req' = [req EXCEPT ![h] = r]
    BY Zenon, <1>1, <1>3, <2>1 DEF AfterEnqueue
  <2>4. PICK o : o = r.old
    BY Zenon
  <2>5. Spent(o)'
    BY ZenonT(40), <1>1, <1>3, <2>2, <2>4, PastStays DEF Requested, SystemInv
  <2> QED
    BY Zenon, <1>3, <2>2, <2>3, <2>4, <2>5, OneRequest
<1> QED
  BY ZenonT(40), <1>2, <1>3

\* What the requests rely on stays true.
LEMMA RequestsKeep ==
    ASSUME SystemInv, Next, OldRowsKept
    PROVE  ApiTypeOK' /\ \A g \in Requests : Requested(g)'
<1>1. req \in [Requests -> ReqState] /\ StoreInv
  BY Zenon DEF SystemInv, ApiTypeOK, ReqState
<1>2. Answered \in ReqState /\ Answered.pc = "idle" /\ Answered.old = 0
  BY DEF Answered, ReqState
<1>3. ASSUME NEW h \in Requests, req' = [req EXCEPT ![h] = Answered]
      PROVE  ApiTypeOK' /\ \A g \in Requests : Requested(g)'
  BY Zenon, <1>2, <1>3, OneRequest
<1>4. ASSUME NEW h \in Requests, NEW s \in Subs, IngestAuthenticated(h, s)
      PROVE  ApiTypeOK' /\ \A g \in Requests : Requested(g)'
  <2>1. PICK r \in ReqState : r = [Answered EXCEPT !.pc = "ingest", !.sub = s]
    BY Zenon DEF Answered, ReqState
  <2>2. r.pc = "ingest" /\ r.sub = s /\ r.old = 0
    BY Zenon, <2>1 DEF Answered
  <2> QED
    BY Zenon, <1>4, <2>1, <2>2, OneRequest DEF IngestAuthenticated
<1>5. ASSUME NEW h \in Requests, NEW k \in Keys \cup {None}, NEW w \in Webhooks, IngestFirst(h, k, w)
      PROVE  ApiTypeOK' /\ \A g \in Requests : Requested(g)'
  <2>1. CASE req' = [req EXCEPT ![h] = Answered]
    BY Zenon, <1>3, <2>1
  <2>2. CASE req' = [req EXCEPT ![h].pc = "enqueue", ![h].new = nextId]
    <3>1. nextId \in RowIds /\ req[h] \in ReqState
      BY Zenon, <1>1, <1>5 DEF IngestFirst, IngestPending
    <3>2. PICK r \in ReqState : r = [req[h] EXCEPT !.pc = "enqueue", !.new = nextId]
      BY Zenon, <3>1 DEF ReqState
    <3>3. r.pc = "enqueue" /\ r.old = req[h].old
      BY Zenon, <3>1, <3>2 DEF ReqState
    <3>4. req' = [req EXCEPT ![h] = r]
      BY Zenon, <1>1, <2>2, <3>2
    <3>5. PICK o : o = r.old
      BY Zenon
    <3>6. o # 0 => Spent(o)'
      BY ZenonT(40), <1>1, <3>3, <3>5, PastStays DEF Requested, SystemInv
    <3> QED
      BY Zenon, <3>3, <3>4, <3>5, <3>6, OneRequest
  <2> QED
    BY Zenon, <1>5, <2>1, <2>2 DEF IngestFirst
<1>6. ASSUME NEW s \in Subs, NEW w \in Webhooks, NEW c \in RowIds, ReplayDLQ(s, w, c) \/ AckDLQ(s, w, c)
      PROVE  Spent(c)'
  <2>1. c \in InDLQ(s, w) /\ logs[c].inDLQ /\ nextId \in Nat /\ nextId' \in Nat /\ nextId <= nextId'
    BY <1>1, <1>6 DEF ReplayDLQ, AckDLQ, InDLQ, OldRowsKept, StoreInv, StoreTypeOK
  <2>2. c < nextId /\ c < nextId'
    BY <1>1, <2>1, RowFacts DEF RowIds
  <2>3. ClearFlag(InDLQ(s, w)) \in [RowIds -> {ClearFlag(InDLQ(s, w))[i] : i \in RowIds}]
        /\ ClearFlag(InDLQ(s, w))[c] = [logs[c] EXCEPT !.inDLQ = FALSE]
    BY Zenon, <2>1 DEF ClearFlag
  <2>4. c # nextId
    BY <2>1, <2>2 DEF RowIds
  <2>5. logs'[c] = [logs[c] EXCEPT !.inDLQ = FALSE]
    BY Zenon, <1>6, <2>3, <2>4 DEF ReplayDLQ, AckDLQ
  <2> QED
    BY ZenonT(40), <1>1, <2>1, <2>2, <2>5, ClearedIsSpent
<1>7. ASSUME NEW h \in Requests, NEW s \in Subs, NEW w \in Webhooks, NEW c \in RowIds,
             HandleReplay(h, s, w, c)
      PROVE  ApiTypeOK' /\ \A g \in Requests : Requested(g)'
  <2>1. Spent(c)' /\ nextId \in RowIds
    BY Zenon, <1>6, <1>7 DEF HandleReplay, ReplayDLQ
  <2>2. PICK r \in ReqState : r = [pc |-> "enqueue", sub |-> s, new |-> nextId, old |-> c]
    BY Zenon, <2>1 DEF ReqState
  <2> QED
    BY Zenon, <1>7, <2>1, <2>2, OneRequest DEF HandleReplay
<1>8. ASSUME NEW h \in Requests, NEW s \in Subs, NEW w \in Webhooks, NEW c \in RowIds,
             HandleAck(h, s, w, c)
      PROVE  ApiTypeOK' /\ \A g \in Requests : Requested(g)'
  <2>1. Spent(c)' /\ c # 0
    BY <1>6, <1>8 DEF HandleAck, RowIds
  <2>2. PICK r \in ReqState : r = [pc |-> "remove", sub |-> s, new |-> 0, old |-> c]
    BY Zenon DEF ReqState
  <2> QED
    BY Zenon, <1>8, <2>1, <2>2, OneRequest DEF HandleAck
<1>9. CASE ApiStep
  <2>1. ASSUME NEW h \in Requests, Ingest(h)
        PROVE  ApiTypeOK' /\ \A g \in Requests : Requested(g)'
    BY Zenon, <1>3, <1>4, <1>5, <2>1 DEF Ingest, IngestRefused
  <2>2. ASSUME NEW h \in Requests, PostCommit(h)
        PROVE  ApiTypeOK' /\ \A g \in Requests : Requested(g)'
    BY Zenon, <1>3, <2>2, AfterEnqueueKeeps DEF PostCommit, PostEnqueue, PostRemove
  <2>3. ASSUME NEW h \in Requests, Triage(h)
        PROVE  ApiTypeOK' /\ \A g \in Requests : Requested(g)'
    BY Zenon, <1>7, <1>8, <2>3 DEF Triage
  <2>4. ASSUME NEW s \in Subs, Create(s) \/ Update(s) \/ Delete(s)
        PROVE  UNCHANGED req
    BY Zenon, <2>4 DEF Create, Update, Delete
  <2> QED
    BY Zenon, <1>9, <2>1, <2>2, <2>3, <2>4, NoRequest DEF ApiStep
<1>10. CASE Fault
  <2>1. ASSUME NEW h \in Requests, RequestFails(h)
        PROVE  ApiTypeOK' /\ \A g \in Requests : Requested(g)'
    BY Zenon, <1>3, <2>1, AfterEnqueueKeeps DEF RequestFails
  <2>2. CASE Crash
    <3>1. req' = [h \in Requests |-> Answered]
      BY Zenon, <2>2 DEF Crash
    <3> QED
      BY Zenon, <1>2, <3>1 DEF ApiTypeOK, ReqState, Requested
  <2> QED
    BY Zenon, <1>10, <2>1, <2>2, NoRequest DEF Fault, RedisLoss
<1> QED
  BY Zenon, <1>9, <1>10, NoRequest DEF Next, PoolStep, MaintenanceStep, EnvironmentStep

\* Only rows past their attempts are pushed on the dead-letter list.
LEMMA ListKeeps ==
    ASSUME SystemInv, Next, OldRowsKept
    PROVE  ListedPast'
<1>1. StoreInv /\ ListedPast /\ dlq \in [RowIds -> Nat]
  BY DEF SystemInv, ListedPast
<1>2. \A i : Past(i) => Past(i)'
  BY Zenon, <1>1, PastStays
<1>3. ASSUME dlq' \in [RowIds -> Nat], \A i \in RowIds : dlq'[i] > 0 => dlq[i] > 0 \/ Past(i)
      PROVE  ListedPast'
  BY Zenon, <1>1, <1>2, <1>3 DEF ListedPast
<1>4. CASE UNCHANGED dlq
  BY ZenonT(40), <1>1, <1>3, <1>4
<1>5. ASSUME NEW i, Remove(i) PROVE ListedPast'
  <2>1. dlq' \in [RowIds -> Nat] /\ \A k \in RowIds : dlq'[k] = dlq[k] \/ dlq'[k] = 0
    BY Zenon, <1>1, <1>5 DEF Remove
  <2> QED
    BY <1>3, <2>1
<1>6. ASSUME NEW i, Past(i), Push(i) PROVE ListedPast'
  <2>1. dlq' \in [RowIds -> Nat] /\ \A k \in RowIds : k # i => dlq'[k] = dlq[k]
    BY <1>1, <1>6 DEF Push, Past
  <2> QED
    BY ZenonT(40), <1>3, <1>6, <2>1
<1>7. CASE LoseRedis
  <2>1. dlq' \in [RowIds -> Nat] /\ \A k \in RowIds : dlq'[k] = 0
    BY Zenon, <1>7 DEF LoseRedis, Empty
  <2> QED
    BY <1>3, <2>1
<1>8. CASE PoolStep
  <2>1. ASSUME NEW i \in RowIds, PoolDequeue(i) PROVE UNCHANGED dlq
    BY Zenon, <2>1 DEF PoolDequeue, Dequeue
  <2>2. ASSUME NEW p \in Workers, PoolGo(p) PROVE UNCHANGED dlq
    BY Zenon, <2>2 DEF PoolGo, redisVars
  <2>3. ASSUME NEW p \in Procs, Process(p), ~PushDead(p) PROVE UNCHANGED dlq
    BY Zenon, <2>3 DEF Process, Load, Claim, Reread, GetSub, DropInactive, Admit, Deny, RescheduleNoAttempt,
                Attempt, RecordDeliverySuccess, RetryOrFinalize, ZAdd, Schedule, redisVars
  <2>4. ASSUME NEW p \in Procs, PushDead(p) PROVE ListedPast'
    BY Zenon, <1>6, <2>4 DEF PushDead, At, SystemInv, DelivererInv, Fine
  <2> QED
    BY Zenon, <1>4, <1>8, <2>1, <2>2, <2>3, <2>4 DEF PoolStep
<1>9. CASE ApiStep
  <2>1. ASSUME NEW h \in Requests, Ingest(h) \/ Triage(h) PROVE UNCHANGED dlq
    BY ZenonT(40), <2>1 DEF Ingest, IngestAuthenticated, IngestFirst, IngestRefused, Triage, HandleReplay,
                HandleAck, redisVars
  <2>2. ASSUME NEW h \in Requests, PostCommit(h) PROVE UNCHANGED dlq \/ Remove(req[h].old)
    BY Zenon, <2>2 DEF PostCommit, PostEnqueue, PostRemove, Enqueue
  <2>3. ASSUME NEW s \in Subs, Create(s) \/ Update(s) \/ Delete(s) PROVE UNCHANGED dlq
    BY Zenon, <2>3 DEF Create, Update, Delete, redisVars
  <2> QED
    BY Zenon, <1>4, <1>5, <1>9, <2>1, <2>2, <2>3 DEF ApiStep
<1>10. CASE MaintenanceStep
  <2>1. ASSUME NEW D \in SUBSET RowIds, Poll(D) PROVE UNCHANGED dlq
    BY Zenon, <2>1 DEF Poll, ClaimDue
  <2>2. ASSUME Recover \/ Cleanup PROVE UNCHANGED dlq
    BY Zenon, <2>2 DEF Recover, ScanDue, ScanEnqueue, ScanRearm, ScanDone, Enqueue, Cleanup, redisVars
  <2>3. ASSUME NEW i \in RowIds, RemoveForced(i) \/ CheckMissing(i) \/ CheckStale(i)
        PROVE  UNCHANGED dlq \/ Remove(i)
    BY Zenon, <2>3 DEF RemoveForced, CheckMissing, CheckStale, redisVars
  <2>4. CASE PushMissing
    BY Zenon, <1>6, <2>4 DEF PushMissing, SystemInv, Reconciling
  <2>5. CASE RemoveStale
    BY Zenon, <1>5, <2>5 DEF RemoveStale
  <2>6. ASSUME (\E D \in SUBSET RowIds : ForceAck(D)) \/ ListInDLQ \/ ListRedis \/ ReconDone
        PROVE  UNCHANGED dlq
    BY Zenon, <2>6 DEF ForceAck, ListInDLQ, ListRedis, ReconDone, redisVars
  <2> QED
    BY Zenon, <1>4, <1>5, <1>10, <2>1, <2>2, <2>3, <2>4, <2>5, <2>6 DEF MaintenanceStep, Reconcile
<1>11. CASE EnvironmentStep
  <2>1. UNCHANGED dlq
    BY Zenon, <1>11 DEF EnvironmentStep, LeaseElapses, redisVars
  <2> QED
    BY Zenon, <1>4, <2>1
<1>12. CASE Fault
  <2>1. UNCHANGED dlq \/ LoseRedis
    BY Zenon, <1>12 DEF Fault, CallFails, RequestFails, RecoverFails, ScanQueryFails, ScanEnqueueFails,
                 ReconcileFails, Crash, RedisLoss, redisVars
  <2> QED
    BY Zenon, <1>4, <1>7, <2>1
<1> QED
  BY Zenon, <1>8, <1>9, <1>10, <1>11, <1>12 DEF Next

ReconState == [pc: {"idle", "forced", "flagged", "repair", "push", "remove"},
               todo: SUBSET RowIds, stale: SUBSET RowIds, id: RowIds \cup {0}]

\* The recovery scan writes no more than its own snapshot.
LEMMA RecoveryKeeps ==
    ASSUME SystemInv, Next
    PROVE  recovery' \in [pc: {"idle", "due", "rearmed"}, todo: SUBSET RowIds]
<1>1. recovery \in [pc: {"idle", "due", "rearmed"}, todo: SUBSET RowIds]
  BY DEF SystemInv, MaintenanceTypeOK
<1>2. ASSUME NEW i, recovery' = [recovery EXCEPT !.todo = @ \ {i}]
      PROVE  recovery' \in [pc: {"idle", "due", "rearmed"}, todo: SUBSET RowIds]
  BY Zenon, <1>1, <1>2
<1>3. RecoveryResting \in [pc: {"idle", "due", "rearmed"}, todo: SUBSET RowIds]
  BY Zenon DEF RecoveryResting
<1>4. DuePending \subseteq RowIds /\ LeaseLess \subseteq RowIds
  BY Zenon DEF DuePending, LeaseLess
<1>5. ASSUME Recover PROVE recovery' \in [pc: {"idle", "due", "rearmed"}, todo: SUBSET RowIds]
  BY <1>2, <1>3, <1>4, <1>5 DEF Recover, ScanDue, ScanEnqueue, ScanRearm, ScanDone
<1>6. ASSUME RecoverFails PROVE recovery' \in [pc: {"idle", "due", "rearmed"}, todo: SUBSET RowIds]
  BY Zenon, <1>2, <1>3, <1>6 DEF RecoverFails, ScanQueryFails, ScanEnqueueFails
<1>7. ASSUME Cleanup \/ Reconcile \/ \E D \in SUBSET RowIds : Poll(D) PROVE UNCHANGED recovery
  BY Zenon, <1>7 DEF Cleanup, Reconcile, ForceAck, RemoveForced, CheckMissing, CheckStale, ListInDLQ, ListRedis,
              PushMissing, RemoveStale, ReconDone, Poll, maintenanceVars
<1>8. ASSUME Fault, ~RecoverFails, ~Crash PROVE UNCHANGED recovery
  BY Zenon, <1>8 DEF Fault, ReconcileFails, RedisLoss, maintenanceVars
<1>9. ASSUME PoolStep \/ ApiStep \/ EnvironmentStep PROVE UNCHANGED recovery
  BY Zenon, <1>9 DEF PoolStep, ApiStep, EnvironmentStep, maintenanceVars
<1> QED
  BY ZenonT(40), <1>1, <1>3, <1>5, <1>6, <1>7, <1>8, <1>9 DEF Next, MaintenanceStep, Crash

\* What the reconciler read, some calls ago, is still true of old rows.
LEMMA ReconKeeps ==
    ASSUME SystemInv, Next, OldRowsKept
    PROVE  recon' \in ReconState /\ Reconciling'
<1>1. recon \in ReconState /\ Reconciling /\ StoreInv
  BY Zenon DEF SystemInv, MaintenanceTypeOK, ReconState
<1>2. \A i : (Past(i) => Past(i)') /\ (Spent(i) => Spent(i)')
  BY Zenon, <1>1, PastStays
<1>3. \A i \in RowIds : logs[i].inDLQ => Past(i)
  BY Zenon, <1>1, RowFacts DEF Past, Pending
<1>4. ASSUME NEW r \in ReconState, recon' = r,
             r.pc = "forced" => r.stale = {} /\ \A i \in r.todo : Spent(i)',
             r.pc \in {"flagged", "repair", "push", "remove"} =>
                    \A i \in r.todo \cup r.stale : Past(i),
             r.pc = "push" => Past(r.id), r.pc = "remove" => Spent(r.id)
      PROVE  recon' \in ReconState /\ Reconciling'
  <2>1. r.pc = "push" => Past(r.id)'
    BY Zenon, <1>2, <1>4
  <2>2. r.pc = "remove" => Spent(r.id)'
    BY Zenon, <1>2, <1>4
  <2>3. r.pc \in {"flagged", "repair", "push", "remove"} => \A i \in r.todo \cup r.stale : Past(i)'
    BY Zenon, <1>2, <1>4
  <2> QED
    BY Zenon, <1>4, <2>1, <2>2, <2>3 DEF Reconciling
<1>5. CASE UNCHANGED recon
  BY ZenonT(40), <1>1, <1>2, <1>4, <1>5 DEF Reconciling
<1>6. CASE recon' = ReconResting
  <2>1. ReconResting \in ReconState /\ ReconResting.pc = "idle"
    BY Zenon DEF ReconResting, ReconState
  <2> QED
    BY Zenon, <1>4, <1>6, <2>1
<1>7. ASSUME NEW i, recon.pc \in {"forced", "repair"}, recon' = [recon EXCEPT !.todo = @ \ {i}]
      PROVE  recon' \in ReconState /\ Reconciling'
  <2>1. PICK r \in ReconState : r = [recon EXCEPT !.todo = @ \ {i}]
    BY Zenon, <1>1 DEF ReconState
  <2>2. r.pc = recon.pc /\ r.todo \subseteq recon.todo /\ r.stale = recon.stale
    BY Zenon, <1>1, <2>1 DEF ReconState
  <2> QED
    BY Zenon, <1>1, <1>2, <1>4, <1>7, <2>1, <2>2 DEF Reconciling
<1>8. ASSUME NEW i, recon.pc = "repair", recon' = [recon EXCEPT !.stale = @ \ {i}]
      PROVE  recon' \in ReconState /\ Reconciling'
  <2>1. PICK r \in ReconState : r = [recon EXCEPT !.stale = @ \ {i}]
    BY Zenon, <1>1 DEF ReconState
  <2>2. r.pc = "repair" /\ r.todo = recon.todo /\ r.stale \subseteq recon.stale
    BY ZenonT(40), <1>1, <1>8, <2>1 DEF ReconState
  <2> QED
    BY Zenon, <1>1, <1>4, <1>8, <2>1, <2>2 DEF Reconciling
<1>9. ASSUME recon.pc \in {"push", "remove"}, recon' = [recon EXCEPT !.pc = "repair", !.id = 0]
      PROVE  recon' \in ReconState /\ Reconciling'
  <2>1. PICK r \in ReconState : r = [recon EXCEPT !.pc = "repair", !.id = 0]
    BY Zenon, <1>1 DEF ReconState
  <2>2. r.pc = "repair" /\ r.todo = recon.todo /\ r.stale = recon.stale
    BY ZenonT(40), <1>1, <2>1 DEF ReconState
  <2> QED
    BY Zenon, <1>1, <1>4, <1>9, <2>1, <2>2 DEF Reconciling
<1>10. ASSUME NEW D \in SUBSET RowIds, ForceAck(D)
       PROVE  recon' \in ReconState /\ Reconciling'
  <2>1. PICK r \in ReconState : r = [ReconResting EXCEPT !.pc = "forced", !.todo = D]
    BY Zenon DEF ReconState, ReconResting
  <2>2. r.pc = "forced" /\ r.todo = D /\ r.stale = {}
    BY Zenon, <2>1 DEF ReconResting
  <2>3. ASSUME NEW i \in D PROVE Spent(i)'
    <3>1. i \in RowIds /\ logs[i].inDLQ /\ nextId' = nextId /\ logs' = ClearFlag(D)
      BY Zenon, <1>10 DEF ForceAck, ForceAckOldDLQ
    <3>2. logs'[i] = [logs[i] EXCEPT !.inDLQ = FALSE]
      BY Zenon, <3>1 DEF ClearFlag
    <3>3. i < nextId'
      BY ZenonT(40), <1>1, <3>1, RowFacts
    <3> QED
      BY ZenonT(40), <1>1, <3>1, <3>2, <3>3, ClearedIsSpent
  <2> QED
    BY Zenon, <1>4, <1>10, <2>1, <2>2, <2>3 DEF ForceAck
<1>11. CASE ListInDLQ
  <2>1. PICK r \in ReconState : r = [recon EXCEPT !.pc = "flagged", !.todo = {i \in RowIds : logs[i].inDLQ}]
    BY ZenonT(40), <1>1 DEF ReconState
  <2>2. r.pc = "flagged" /\ r.todo = {i \in RowIds : logs[i].inDLQ} /\ r.stale = recon.stale
    BY Zenon, <1>1, <2>1 DEF ReconState
  <2> QED
    BY ZenonT(40), <1>1, <1>3, <1>4, <1>11, <2>1, <2>2 DEF ListInDLQ, Reconciling
<1>12. CASE ListRedis
  <2>1. Listed \subseteq RowIds /\ \A i \in Listed : Past(i)
    BY DEF Listed, SystemInv, ListedPast
  <2>2. PICK r \in ReconState :
            r = [recon EXCEPT !.pc = "repair", !.todo = @ \ Listed, !.stale = Listed \ recon.todo]
    BY Zenon, <1>1, <2>1 DEF ReconState
  <2>3. r.pc = "repair" /\ r.todo \subseteq recon.todo /\ r.stale \subseteq Listed
    BY ZenonT(40), <1>1, <2>2 DEF ReconState
  <2> QED
    BY Zenon, <1>1, <1>4, <1>12, <2>1, <2>2, <2>3 DEF ListRedis, Reconciling
<1>13. ASSUME NEW i \in RowIds, CheckMissing(i)
       PROVE  recon' \in ReconState /\ Reconciling'
  <2>1. CASE logs[i].inDLQ
    <3>1. PICK r \in ReconState : r = [recon EXCEPT !.pc = "push", !.todo = @ \ {i}, !.id = i]
      BY Zenon, <1>1 DEF ReconState
    <3>2. r.pc = "push" /\ r.todo \subseteq recon.todo /\ r.stale = recon.stale /\ r.id = i
      BY ZenonT(40), <1>1, <3>1 DEF ReconState
    <3> QED
      BY Zenon, <1>1, <1>3, <1>4, <1>13, <2>1, <3>1, <3>2 DEF CheckMissing, Reconciling
  <2>2. CASE ~logs[i].inDLQ
    BY SMTT(30), <1>7, <1>13, <2>2 DEF CheckMissing
  <2> QED
    BY ZenonT(40), <2>1, <2>2
<1>14. ASSUME NEW i \in RowIds, CheckStale(i)
       PROVE  recon' \in ReconState /\ Reconciling'
  <2>1. CASE ~logs[i].inDLQ
    <3>1. PICK r \in ReconState : r = [recon EXCEPT !.pc = "remove", !.stale = @ \ {i}, !.id = i]
      BY Zenon, <1>1 DEF ReconState
    <3>2. r.pc = "remove" /\ r.todo = recon.todo /\ r.stale \subseteq recon.stale /\ r.id = i
      BY Zenon, <1>1, <3>1 DEF ReconState
    <3>3. Spent(i)
      BY Zenon, <1>1, <1>14, <2>1 DEF CheckStale, Reconciling, Past, Spent, Live
    <3> QED
      BY Zenon, <1>1, <1>4, <1>14, <2>1, <3>1, <3>2, <3>3 DEF CheckStale, Reconciling
  <2>2. CASE logs[i].inDLQ
    BY Zenon, <1>8, <1>14, <2>2 DEF CheckStale
  <2> QED
    BY Zenon, <2>1, <2>2
<1>15. ASSUME Reconcile PROVE recon' \in ReconState /\ Reconciling'
  <2>1. ASSUME NEW i \in RowIds, RemoveForced(i) PROVE recon' \in ReconState /\ Reconciling'
    BY <1>7, <2>1 DEF RemoveForced
  <2>2. CASE PushMissing \/ RemoveStale
    BY Zenon, <1>9, <2>2 DEF PushMissing, RemoveStale
  <2>3. CASE ReconDone
    BY Zenon, <1>6, <2>3 DEF ReconDone
  <2> QED
    BY Zenon, <1>10, <1>11, <1>12, <1>13, <1>14, <1>15, <2>1, <2>2, <2>3 DEF Reconcile
<1>16. ASSUME ReconcileFails PROVE recon' \in ReconState /\ Reconciling'
  BY <1>6, <1>7, <1>8, <1>9, <1>16 DEF ReconcileFails
<1>17. ASSUME Recover \/ Cleanup \/ \E D \in SUBSET RowIds : Poll(D) PROVE UNCHANGED recon
  BY Zenon, <1>17 DEF Cleanup, Recover, ScanDue, ScanEnqueue, ScanRearm, ScanDone, Poll, maintenanceVars
<1>18. ASSUME Fault, ~ReconcileFails, ~Crash PROVE UNCHANGED recon
  BY Zenon, <1>18 DEF Fault, RecoverFails, ScanQueryFails, ScanEnqueueFails, RedisLoss, maintenanceVars
<1>19. ASSUME PoolStep \/ ApiStep \/ EnvironmentStep PROVE UNCHANGED recon
  BY Zenon, <1>19 DEF PoolStep, ApiStep, EnvironmentStep, maintenanceVars
<1> QED
  BY Zenon, <1>5, <1>6, <1>15, <1>16, <1>17, <1>18, <1>19 DEF Next, MaintenanceStep, Crash

-----------------------------------------------------------------------------
(* The invariant and the theorems *)

\* The invariant holds at the start.
LEMMA SystemInitInv == Init => SystemInv
<1> SUFFICES ASSUME Init PROVE SystemInv
  BY ZenonT(40)
<1>1. StoreInv
  BY Zenon, InitInv DEF Init
<1>2. DelivererInv
  BY Zenon DEF Init, DelivererInit, DelivererInv, DelivererTypeOK, Fine, LeaseExclusive, Returned
<1>3. \A i \in RowIds : logs[i].status = "absent" /\ ~logs[i].inDLQ
  BY Zenon DEF Init, StoreInit, NoRow
<1>4. OutcomeJustified
  BY Zenon, <1>3 DEF OutcomeJustified
<1>5. ApiTypeOK /\ \A h \in Requests : Requested(h)
  BY Zenon DEF Init, ApiInit, ApiTypeOK, Answered, Requested
<1>6. MaintenanceTypeOK /\ Reconciling
  BY Zenon DEF Init, MaintenanceInit, MaintenanceTypeOK, RecoveryResting, ReconResting, Reconciling
<1>7. ListedPast
  BY DEF Init, RedisInit, Empty, ListedPast
<1> QED
  BY Zenon, <1>1, <1>2, <1>4, <1>5, <1>6, <1>7 DEF SystemInv

\* Every step preserves it and is a step of the tables.
LEMMA SystemNextInv == SystemInv /\ [Next]_vars => SystemInv' /\ [StoreNext]_storeVars
<1>1. ASSUME SystemInv, Next PROVE SystemInv' /\ [StoreNext]_storeVars
  <2>1. OldRowsKept /\ DelivererInv' /\ OutcomeJustified' /\ [StoreNext]_storeVars /\ StoreInv'
    BY Zenon, <1>1, StepKeeps
  <2>2. ApiTypeOK' /\ (\A h \in Requests : Requested(h)') /\ ListedPast'
    BY ZenonT(40), <1>1, <2>1, RequestsKeep, ListKeeps
  <2>3. MaintenanceTypeOK' /\ Reconciling'
    BY ZenonT(40), <1>1, <2>1, RecoveryKeeps, ReconKeeps DEF MaintenanceTypeOK, ReconState
  <2> QED
    BY ZenonT(40), <2>1, <2>2, <2>3 DEF SystemInv
<1>2. ASSUME SystemInv, UNCHANGED vars PROVE SystemInv' /\ [StoreNext]_storeVars
  <2>1. UNCHANGED storeVars /\ UNCHANGED <<hand, proc, answers, recovery, recon, req, dlq>>
    BY Zenon, <1>2 DEF vars, delivererVars, maintenanceVars, redisVars
  <2>2. logs' = logs /\ nextId' = nextId
    BY Zenon, <2>1 DEF storeVars
  <2>3. StoreInv'
    BY ZenonT(40), <1>2, <2>1, NextInv DEF SystemInv
  <2>4. DelivererInv' /\ OutcomeJustified'
    BY ZenonT(40), <1>2, <2>1, <2>2 DEF SystemInv, DelivererInv, DelivererTypeOK, Fine, Past, Pending,
                             LeaseExclusive, OutcomeJustified
  <2>5. ApiTypeOK' /\ \A h \in Requests : Requested(h)'
    BY ZenonT(40), <1>2, <2>1, <2>2 DEF SystemInv, ApiTypeOK, Requested, Spent, Live, Pending
  <2>6. MaintenanceTypeOK' /\ Reconciling' /\ ListedPast'
    BY ZenonT(40), <1>2, <2>1, <2>2 DEF SystemInv, MaintenanceTypeOK, Reconciling, ListedPast, Past, Spent, Live, Pending
  <2> QED
    BY ZenonT(40), <2>1, <2>3, <2>4, <2>5, <2>6 DEF SystemInv
<1> QED
  BY Zenon, <1>1, <1>2

\* The inductive invariant of the running service (DeliverySystem as main.run composes
\* it) holds throughout.
THEOREM SystemInvariant == Spec => []SystemInv
<1>1. Init => SystemInv
  BY Zenon, SystemInitInv
<1>2. SystemInv /\ [Next]_vars => SystemInv'
  BY Zenon, SystemNextInv
<1> QED
  BY <1>1, <1>2, PTL DEF Spec

\* Whatever the goroutines, requests and periodic workers do, in any number and
\* order and with any faults, the tables see whole DeliveryStore transactions
\* (the calls of worker.Deliverer, the handlers and the maintenance workers).
THEOREM ServiceImplementsStore == Spec => ImplementsStore
<1>1. Init => StoreInit
  BY Zenon DEF Init
<1>2. SystemInv /\ [Next]_vars => [StoreNext]_storeVars
  BY Zenon, SystemNextInv
<1> QED
  BY <1>1, <1>2, SystemInvariant, PTL DEF Spec, ImplementsStore, StoreSpec

\* What handleWebhookStatus answers about every webhook while the whole service
\* runs, crashes and restarts, follows the promised life cycle: the life cycle is
\* the store's, and the service takes no step on the tables that is not the store's.
THEOREM ServiceImplementsOutcome == Spec => ImplementsOutcome
BY ServiceImplementsStore, StoreImplementsOutcome, PTL DEF ImplementsStore

\* Two goroutines never hold a running visibility lease on the same row: the
\* ClaimPending CAS excludes whatever Redis delivers twice.
THEOREM LeaseTheorem == Spec => []LeaseExclusive
<1>1. SystemInv => LeaseExclusive
  BY ZenonT(40) DEF SystemInv, DelivererInv
<1> QED
  BY <1>1, SystemInvariant, PTL

\* A row is settled only by an answer to an attempt of that row
\* (Deliverer.Process with its crashes, denials and late writers).
THEOREM OutcomeTheorem == Spec => []OutcomeJustified
<1>1. SystemInv => OutcomeJustified
  BY ZenonT(40) DEF SystemInv
<1> QED
  BY <1>1, SystemInvariant, PTL

\* No LREM is ever due for a row that is a dead letter (the DLQ handlers and
\* DLQReconciler.reconcile, whatever changed since they read the row).
THEOREM RemovalTheorem == Spec => []RemovesOnlySettled
<1>1. SystemInv => RemovesOnlySettled
  BY DEF SystemInv, Requested, Reconciling, RemovesOnlySettled, Spent, Live
<1> QED
  BY <1>1, SystemInvariant, PTL

\* What the store keeps, the running service keeps: one live row per webhook, a
\* retry for every failure that was not the last, budgets, keys, settled rows that
\* stay settled, a status that shows the work and only advances (store.go and
\* handler_status.go under worker, api and maintenance goroutines and faults).
THEOREM ServiceKeepsTables ==
  Spec => /\ []OneLiveRow /\ []NewestRowIsCurrent /\ []RetryHasSuccessor
          /\ []BudgetRespected /\ []KeyNamesAcceptedWebhook /\ []ReportsTheWork
          /\ SettledStaysSettled /\ WorkOnlyCascades /\ StatusOnlyAdvances
BY ServiceImplementsStore, OneLiveRowTheorem, NewestRowTheorem, RetrySuccessorTheorem,
   BudgetTheorem, KeyTheorem, ReportTheorem, SettledTheorem, CascadeTheorem,
   StatusTheorem, PTL DEF ImplementsStore

=============================================================================
