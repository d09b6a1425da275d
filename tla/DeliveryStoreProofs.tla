------------------------ MODULE DeliveryStoreProofs ------------------------
(***************************************************************************)
(* What TLAPS proves of DeliveryStore, for every set of webhooks,          *)
(* subscriptions and keys and every bound.                                 *)
(*                                                                         *)
(* StoreInv is inductive.  Transactions come in two kinds, and a lemma     *)
(* carries the conjuncts that relate rows across each: one that inserts no *)
(* row leaves every row's identity as it is and makes none live again, or  *)
(* deletes it (KeptRows); one that inserts a row puts it after every other *)
(* row of its webhook, none of which is live any more (NewRow).            *)
(*                                                                         *)
(* The status a webhook is reported with is that of its last row, which is *)
(* there as long as the webhook has rows (HasNewest).  Each kind of        *)
(* transaction moves it as WebhookOutcome allows, or leaves it alone.      *)
(***************************************************************************)
EXTENDS StoreRefinement, TLAPS

\* Row i keeps its identity and is not revived.
Kept(i) ==
    /\ logs'[i].webhook = logs[i].webhook
    /\ logs'[i].sub = logs[i].sub
    /\ logs'[i].attempt = logs[i].attempt
    /\ logs'[i].replay = logs[i].replay
    /\ Present(i) /\ Present(i)'
    /\ Live(i)' => Live(i)

\* Every row is untouched, kept or deleted.
NoInsertion == \A i \in RowIds : logs'[i] = logs[i] \/ Kept(i) \/ logs'[i] = NoRow

\* A retried row was a retried row before, and what follows it is still there.
RetriesKept ==
    \A i \in RowIds : logs'[i].status = "failed_attempt" =>
        /\ logs[i].status = "failed_attempt"
        /\ logs'[i] = logs[i] \/ Kept(i)
        /\ \A j \in RowIds : i < j /\ SameWebhook(i, j) => logs'[j] = logs[j] \/ Kept(j)

USE DEF Present, Pending, Live

\* Transactions that insert nothing preserve what relates the rows of a webhook.
LEMMA KeptRows ==
    ASSUME Shape, NewestRowIsCurrent, NoInsertion,
           nextId' = nextId, minted \subseteq minted'
    PROVE  Shape' /\ NewestRowIsCurrent'
<1>1. ASSUME NEW i \in RowIds, NEW j \in RowIds, i < j, SameWebhook(i, j)'
      PROVE  (Precedes(i, j) /\ ~Live(i))'
  <2>1. SameWebhook(i, j)
    BY <1>1 DEF NoInsertion, Kept, SameWebhook, NoRow
  <2>2. Precedes(i, j) /\ ~Live(i)
    BY <1>1, <2>1 DEF NewestRowIsCurrent
  <2>. QED
    BY <1>1, <2>2 DEF NoInsertion, Kept, Precedes, SameWebhook, NoRow
<1>2. NewestRowIsCurrent'
  BY <1>1 DEF NewestRowIsCurrent, RowIds
<1>3. ASSUME NEW i \in RowIds
      PROVE  /\ (i >= nextId \/ ~Present(i) => logs[i] = NoRow)'
             /\ (Present(i) => logs[i].webhook \in minted /\ logs[i].sub \in Subs)'
  <2>1. NoRow.status = "absent"
    BY DEF NoRow
  <2>2. /\ i >= nextId \/ ~Present(i) => logs[i] = NoRow
        /\ Present(i) => logs[i].webhook \in minted /\ logs[i].sub \in Subs
    BY DEF Shape
  <2>3. CASE logs'[i] = logs[i]
    BY <2>2, <2>3
  <2>4. CASE Kept(i)
    BY <2>1, <2>2, <2>4 DEF Kept
  <2>5. CASE logs'[i] = NoRow
    BY <2>1, <2>5
  <2>. QED
    BY <2>3, <2>4, <2>5 DEF NoInsertion
<1>4. ASSUME NEW i \in RowIds, NEW j \in RowIds, SameWebhook(i, j)'
      PROVE  (logs[i].sub = logs[j].sub)'
  <2>1. SameWebhook(i, j)
    BY <1>4 DEF NoInsertion, Kept, SameWebhook, NoRow
  <2>. QED
    BY <1>4, <2>1 DEF NoInsertion, Kept, Shape, SameWebhook, NoRow
<1>. QED
  BY <1>2, <1>3, <1>4 DEF Shape

\* An insertion preserves it too, if the new row comes after every other row of
\* its webhook and is the only live one.
LEMMA NewRow ==
    ASSUME Shape, NewestRowIsCurrent, NEW n \in RowIds, nextId = n,
           NEW w, NEW s \in Subs,
           logs'[n].webhook = w, logs'[n].sub = s, Present(n)',
           \A i \in RowIds : i # n => logs'[i] = logs[i] \/ Kept(i),
           \A i \in RowIds : i # n /\ Present(i) /\ logs[i].webhook = w =>
               Precedes(i, n)' /\ ~Live(i)' /\ logs[i].sub = s,
           nextId' = n + 1, minted \subseteq minted', w \in minted'
    PROVE  Shape' /\ NewestRowIsCurrent'
<1>. NoRow.status = "absent"
  BY DEF NoRow
<1>0. RowIds \subseteq Nat /\ n \in Nat
  BY DEF RowIds
<1>1. \A i \in RowIds : i # n =>
        /\ logs'[i].webhook = logs[i].webhook /\ logs'[i].sub = logs[i].sub
        /\ logs'[i].attempt = logs[i].attempt /\ logs'[i].replay = logs[i].replay
        /\ Present(i)' <=> Present(i)
        /\ Live(i)' => Live(i)
  BY DEF Kept
<1>2. \A i \in RowIds : i # n /\ (i > n \/ ~Present(i)) => logs[i] = NoRow /\ logs'[i] = NoRow
  <2>. SUFFICES ASSUME NEW i \in RowIds, i # n, i > n \/ ~Present(i)
                PROVE  logs[i] = NoRow /\ logs'[i] = NoRow
    OBVIOUS
  <2>1. logs[i] = NoRow
    BY <1>0 DEF Shape
  <2>2. ~Kept(i)
    BY <2>1 DEF Kept
  <2>. QED
    BY <2>1, <2>2
<1>3. ASSUME NEW i \in RowIds, NEW j \in RowIds, i < j, SameWebhook(i, j)'
      PROVE  (Precedes(i, j) /\ ~Live(i))'
  <2>1. j <= n /\ i # n
    BY <1>0, <1>2, <1>3 DEF SameWebhook
  <2>2. CASE j = n
    BY <1>1, <1>3, <2>1, <2>2 DEF SameWebhook
  <2>3. CASE j # n
    <3>1. SameWebhook(i, j)
      BY Zenon, <1>1, <1>3, <2>1, <2>3 DEF SameWebhook
    <3>2. Precedes(i, j) /\ ~Live(i)
      BY <1>3, <3>1 DEF NewestRowIsCurrent
    <3>. QED
      BY <1>1, <2>1, <2>3, <3>2 DEF Precedes
  <2>. QED
    BY <2>2, <2>3
<1>4. NewestRowIsCurrent'
  BY <1>3 DEF NewestRowIsCurrent
<1>5. ASSUME NEW i \in RowIds
      PROVE  /\ (i >= nextId \/ ~Present(i) => logs[i] = NoRow)'
             /\ (Present(i) => logs[i].webhook \in minted /\ logs[i].sub \in Subs)'
  <2>1. CASE i = n
    BY <1>0, <2>1
  <2>2. CASE i # n
    <3>1. Present(i) => logs[i].webhook \in minted /\ logs[i].sub \in Subs
      BY DEF Shape
    <3>2. i \in Nat
      BY <1>0
    <3>. QED
      BY <1>0, <1>1, <1>2, <2>2, <3>1, <3>2
  <2>. QED
    BY <2>1, <2>2
<1>6. ASSUME NEW i \in RowIds, NEW j \in RowIds, SameWebhook(i, j)'
      PROVE  (logs[i].sub = logs[j].sub)'
  <2>1. CASE i = n \/ j = n
    BY <1>1, <1>6, <2>1 DEF SameWebhook
  <2>2. CASE i # n /\ j # n
    <3>1. SameWebhook(i, j)
      BY Zenon, <1>1, <1>6, <2>2 DEF SameWebhook
    <3>. QED
      BY <1>1, <3>1, <2>2 DEF Shape
  <2>. QED
    BY Zenon, <2>1, <2>2
<1>. QED
  BY <1>4, <1>5, <1>6 DEF Shape

\* Every failed_attempt row keeps its successor.
LEMMA SuccessorsKept ==
    ASSUME RetryHasSuccessor, RetriesKept
    PROVE  RetryHasSuccessor'
<1>. SUFFICES ASSUME NEW i \in RowIds, logs'[i].status = "failed_attempt"
              PROVE  \E j \in RowIds : /\ i < j
                                       /\ SameWebhook(i, j)'
                                       /\ logs'[j].replay = logs'[i].replay
                                       /\ logs'[j].attempt = logs'[i].attempt + 1
  BY DEF RetryHasSuccessor
<1>1. PICK j \in RowIds : /\ i < j
                          /\ SameWebhook(i, j)
                          /\ logs[j].replay = logs[i].replay
                          /\ logs[j].attempt = logs[i].attempt + 1
  BY DEF RetryHasSuccessor, RetriesKept
<1>2. /\ logs'[i] = logs[i] \/ Kept(i)
      /\ logs'[j] = logs[j] \/ Kept(j)
  BY Zenon, <1>1 DEF RetriesKept
<1>. QED
  BY <1>1, <1>2 DEF SameWebhook, Kept

\* Idempotency keys go on naming accepted webhooks.
LEMMA KeysKept ==
    ASSUME KeyNamesAcceptedWebhook, NoInsertion, idem' = idem, minted \subseteq minted',
           \A s \in Subs : subs[s].state = "live" => subs'[s].state = "live"
    PROVE  KeyNamesAcceptedWebhook'
<1>. SUFFICES ASSUME NEW e \in Subs \X Keys, NEW f \in Subs \X Keys, idem[e] # None
              PROVE  /\ idem[e] \in minted'
                     /\ subs'[e[1]].state = "live"
                     /\ idem[e] = idem[f] => e = f
                     /\ \A i \in RowIds : logs'[i].webhook = idem[e] => logs'[i].sub = e[1]
  BY DEF KeyNamesAcceptedWebhook
<1>1. /\ idem[e] \in minted
      /\ subs[e[1]].state = "live"
      /\ idem[e] = idem[f] => e = f
      /\ \A i \in RowIds : logs[i].webhook = idem[e] => logs[i].sub = e[1]
  BY DEF KeyNamesAcceptedWebhook
<1>2. e[1] \in Subs
  OBVIOUS
<1>. QED
  BY <1>1, <1>2 DEF NoInsertion, Kept, NoRow

-----------------------------------------------------------------------------
(* One lemma per kind of transaction. *)

\* No subscription is deleted.
KeepsLive == \A s \in Subs : subs[s].state = "live" => subs'[s].state = "live"

\* A transaction that inserts nothing preserves the whole invariant, given that
\* it keeps the types and the attempt budget.
LEMMA NoInsertionInv ==
    ASSUME StoreInv, NoInsertion, RetriesKept, KeepsLive,
           UNCHANGED <<idem, minted, nextId>>, StoreTypeOK', BudgetRespected'
    PROVE  StoreInv'
<1>1. Shape' /\ NewestRowIsCurrent'
  BY KeptRows DEF StoreInv
<1>2. RetryHasSuccessor'
  BY SuccessorsKept DEF StoreInv
<1>3. KeyNamesAcceptedWebhook'
  BY KeysKept DEF StoreInv, KeepsLive
<1>. QED
  BY <1>1, <1>2, <1>3 DEF StoreInv

\* A transition of one pending row: claim, success, failure, drop, reschedule.
LEMMA RowUpdated ==
    ASSUME StoreInv, NEW i \in RowIds, Pending(i),
           NEW r \in Row, logs' = [logs EXCEPT ![i] = r],
           r.webhook = logs[i].webhook, r.sub = logs[i].sub,
           r.attempt = logs[i].attempt, r.replay = logs[i].replay,
           r.status \in {"pending", "success", "final_failure"},
           r.inDLQ => r.status = "final_failure" /\ r.attempt = MaxRetryAttempts,
           subs' \in [Subs -> Subscription], KeepsLive,
           UNCHANGED <<idem, minted, nextId>>
    PROVE  StoreInv'
<1>. logs \in [RowIds -> Row]
  BY DEF StoreInv, StoreTypeOK
<1>0. logs'[i] = r /\ \A j \in RowIds : j # i => logs'[j] = logs[j]
  OBVIOUS
<1>1. Kept(i) /\ \A j \in RowIds : j # i => logs'[j] = logs[j]
  BY <1>0 DEF Kept
<1>2. NoInsertion
  BY <1>1 DEF NoInsertion
<1>3. RetriesKept
  <2>1. \A j \in RowIds : logs'[j] = logs[j] \/ Kept(j)
    BY <1>1
  <2>2. logs'[i].status # "failed_attempt"
    OBVIOUS
  <2>. QED
    BY <1>1, <2>1, <2>2 DEF RetriesKept
<1>4. StoreTypeOK'
  BY DEF StoreInv, StoreTypeOK
<1>5. BudgetRespected'
  BY <1>0 DEF StoreInv, BudgetRespected
<1>. QED
  BY <1>2, <1>3, <1>4, <1>5, NoInsertionInv

\* Acknowledgements, by the API or forced.
LEMMA FlagsCleared ==
    ASSUME StoreInv, NEW D, \A i \in RowIds : i \in D => logs[i].inDLQ,
           logs' = ClearFlag(D), UNCHANGED <<subs, idem, minted, nextId>>
    PROVE  StoreInv'
<1>. logs \in [RowIds -> Row]
  BY DEF StoreInv, StoreTypeOK
<1>1. ASSUME NEW i \in RowIds
      PROVE  /\ logs'[i] = logs[i] \/ Kept(i)
             /\ logs'[i] \in Row
             /\ logs'[i].status = logs[i].status
             /\ logs'[i].attempt = logs[i].attempt
             /\ logs'[i].inDLQ => logs[i].inDLQ
  <2>1. logs'[i] = IF i \in D THEN [logs[i] EXCEPT !.inDLQ = FALSE] ELSE logs[i]
    BY DEF ClearFlag
  <2>2. CASE i \in D
    <3>1. logs[i].status = "final_failure"
      BY <2>2 DEF StoreInv, BudgetRespected
    <3>2. logs'[i] = [logs[i] EXCEPT !.inDLQ = FALSE] /\ logs[i] \in Row
      BY <2>1, <2>2
    <3>3. logs'[i] \in Row
      BY Zenon, <3>2 DEF Row
    <3>4. /\ logs'[i].status = logs[i].status /\ logs'[i].webhook = logs[i].webhook
          /\ logs'[i].sub = logs[i].sub /\ logs'[i].attempt = logs[i].attempt
          /\ logs'[i].replay = logs[i].replay /\ logs'[i].inDLQ = FALSE
      BY <3>2 DEF Row
    <3>5. Kept(i)
      BY <2>2, <3>1, <3>4 DEF Kept, Live, Pending, Present
    <3>. QED
      BY <3>3, <3>4, <3>5
  <2>. QED
    BY <2>1, <2>2
<1>2. NoInsertion /\ RetriesKept
  BY <1>1 DEF NoInsertion, RetriesKept
<1>3. StoreTypeOK'
  BY Zenon, <1>1 DEF StoreInv, StoreTypeOK, ClearFlag
<1>4. BudgetRespected'
  BY <1>1 DEF StoreInv, BudgetRespected
<1>. QED
  BY <1>2, <1>3, <1>4, NoInsertionInv DEF KeepsLive

\* Deletions, by retention or by the cascade: a chain is cut at its old end, or
\* goes as a whole.
LEMMA RowsDeleted ==
    ASSUME StoreInv, NEW D,
           logs' = [i \in RowIds |-> IF i \in D THEN NoRow ELSE logs[i]],
           \A i, j \in RowIds : i \notin D /\ j \in D /\ i < j /\ SameWebhook(i, j)
               => logs[i].status # "failed_attempt"
    PROVE  /\ NoInsertion /\ RetriesKept /\ BudgetRespected'
           /\ logs' \in [RowIds -> Row]
<1>. logs \in [RowIds -> Row]
  BY DEF StoreInv, StoreTypeOK
<1>0. NoRow \in Row /\ NoRow.status = "absent" /\ NoRow.inDLQ = FALSE
  BY DEF NoRow, Row, Statuses, DueTimes
<1>1. \A i \in RowIds : logs'[i] = IF i \in D THEN NoRow ELSE logs[i]
  OBVIOUS
<1>2. NoInsertion
  BY <1>1 DEF NoInsertion
<1>3. RetriesKept
  BY <1>0, <1>1 DEF RetriesKept
<1>4. logs' \in [RowIds -> Row]
  BY <1>0
<1>5. BudgetRespected'
  BY <1>0, <1>1 DEF StoreInv, BudgetRespected
<1>. QED
  BY <1>2, <1>3, <1>4, <1>5

\* A new pending row at the end: what every insertion has to show for it.
LEMMA RowInserted ==
    ASSUME StoreInv, NEW n \in RowIds, nextId = n, nextId' = n + 1,
           NEW w \in Webhooks, NEW s \in Subs, NEW a \in 1..MaxRetryAttempts, NEW r \in Nat,
           NEW d \in DueTimes,
           logs'[n] = PendingRow(w, s, a, r, d),
           \A i \in RowIds : i # n => logs'[i] = logs[i] \/ Kept(i),
           \A i \in RowIds : i # n /\ Present(i) /\ logs[i].webhook = w =>
               Precedes(i, n)' /\ ~Live(i)' /\ logs[i].sub = s,
           minted \subseteq minted', w \in minted',
           UNCHANGED idem, KeepsLive,
           \A e \in Subs \X Keys : idem[e] = w => e[1] = s
    PROVE  Shape' /\ NewestRowIsCurrent' /\ KeyNamesAcceptedWebhook'
<1>1. /\ logs'[n].webhook = w /\ logs'[n].sub = s /\ logs'[n].status = "pending"
  BY DEF PendingRow
<1>2. Shape' /\ NewestRowIsCurrent'
  <2>1. Present(n)'
    BY Zenon, <1>1
  <2>. QED
    BY <1>1, <2>1, NewRow DEF StoreInv
<1>3. KeyNamesAcceptedWebhook'
  <2>. SUFFICES ASSUME NEW e \in Subs \X Keys, NEW f \in Subs \X Keys, idem[e] # None
                PROVE  /\ idem[e] \in minted'
                       /\ subs'[e[1]].state = "live"
                       /\ idem[e] = idem[f] => e = f
                       /\ \A i \in RowIds : logs'[i].webhook = idem[e] => logs'[i].sub = e[1]
    BY ZenonT(40) DEF KeyNamesAcceptedWebhook
  <2>1. /\ idem[e] \in minted
        /\ subs[e[1]].state = "live"
        /\ idem[e] = idem[f] => e = f
        /\ \A i \in RowIds : logs[i].webhook = idem[e] => logs[i].sub = e[1]
    BY Zenon DEF StoreInv, KeyNamesAcceptedWebhook
  <2>2. \A i \in RowIds : i # n => logs'[i].webhook = logs[i].webhook /\ logs'[i].sub = logs[i].sub
    BY Zenon DEF Kept
  <2>3. e[1] \in Subs
    OBVIOUS
  <2>. QED
    BY ZenonT(40), <1>1, <2>1, <2>2, <2>3 DEF KeepsLive
<1>. QED
  BY Zenon, <1>2, <1>3

-----------------------------------------------------------------------------
(* The transactions. *)

\* The row of a pending delivery is typed and belongs to a subscription.
LEMMA PendingRowFacts ==
    ASSUME StoreInv, NEW i \in RowIds, Pending(i)
    PROVE  /\ logs[i] \in Row /\ logs[i].sub \in Subs /\ logs[i].webhook \in minted
           /\ logs[i].webhook \in Webhooks
           /\ ~logs[i].inDLQ
           /\ logs[i].attempt \in 1..MaxRetryAttempts
           /\ logs[i].replay \in Nat
<1>1. logs[i] \in Row
  BY DEF StoreInv, StoreTypeOK
<1>2. logs[i].webhook \in minted /\ logs[i].sub \in Subs /\ minted \subseteq Webhooks
  BY DEF StoreInv, StoreTypeOK, Shape
<1>3. ~logs[i].inDLQ /\ logs[i].attempt \in 1..MaxRetryAttempts
  BY DEF StoreInv, BudgetRespected
<1>. QED
  BY <1>1, <1>2, <1>3 DEF Row

\* A live row is the newest of its webhook, and the others are behind it.
LEMMA LiveIsNewest ==
    ASSUME StoreInv, NEW i \in RowIds, Live(i), NEW j \in RowIds, j # i,
           Present(j), logs[j].webhook = logs[i].webhook
    PROVE  j < i /\ Precedes(j, i) /\ ~Live(j) /\ logs[j].sub = logs[i].sub
<1>1. Present(i)
  BY DEF StoreInv, BudgetRespected
<1>2. SameWebhook(i, j) /\ SameWebhook(j, i)
  BY <1>1 DEF SameWebhook
<1>3. ~(i < j)
  BY <1>2 DEF StoreInv, NewestRowIsCurrent
<1>4. j < i
  BY <1>3 DEF RowIds
<1>. QED
  BY <1>2, <1>4 DEF StoreInv, NewestRowIsCurrent, Shape

\* ClaimPending, RescheduleSamePending, Elapse.
LEMMA DueMoves ==
    ASSUME StoreInv, NEW i \in RowIds, Pending(i), NEW d \in DueTimes,
           logs' = [logs EXCEPT ![i].due = d], UNCHANGED <<subs, idem, minted, nextId>>
    PROVE  StoreInv'
<1>. DEFINE r == [logs[i] EXCEPT !.due = d]
<1>1. logs[i] \in Row /\ ~logs[i].inDLQ
  BY PendingRowFacts
<1>2. /\ r \in Row /\ r.webhook = logs[i].webhook /\ r.sub = logs[i].sub
      /\ r.attempt = logs[i].attempt /\ r.replay = logs[i].replay
      /\ r.status = "pending" /\ ~r.inDLQ
  BY <1>1 DEF Row
<1>3. logs' = [logs EXCEPT ![i] = r] /\ subs' \in [Subs -> Subscription] /\ KeepsLive
  BY DEF StoreInv, StoreTypeOK, KeepsLive
<1>. QED
  <2>. HIDE DEF r
  <2>. QED
    BY Zenon, <1>2, <1>3, RowUpdated

\* MarkSuccess settles the row and resets the failure count of its subscription.
LEMMA MarkSuccessInv ==
    ASSUME StoreInv, NEW i \in RowIds, MarkSuccess(i)
    PROVE  StoreInv'
<1>. DEFINE r == [logs[i] EXCEPT !.status = "success"]
<1>. Pending(i)
  BY DEF MarkSuccess
<1>1. logs[i] \in Row /\ logs[i].sub \in Subs /\ ~logs[i].inDLQ
  BY PendingRowFacts
<1>2. /\ r \in Row /\ r.webhook = logs[i].webhook /\ r.sub = logs[i].sub
      /\ r.attempt = logs[i].attempt /\ r.replay = logs[i].replay
      /\ r.status = "success" /\ ~r.inDLQ
  BY <1>1 DEF Row, Statuses
<1>3. logs' = [logs EXCEPT ![i] = r] /\ UNCHANGED <<idem, minted, nextId>>
  BY DEF MarkSuccess
<1>4. subs' \in [Subs -> Subscription] /\ KeepsLive
  BY ZenonT(40), <1>1 DEF MarkSuccess, StoreInv, StoreTypeOK, KeepsLive, Subscription
<1>. QED
  <2>. HIDE DEF r
  <2>. QED
    BY Zenon, <1>2, <1>3, <1>4, RowUpdated

\* MarkDropped settles the row without flagging it.
LEMMA MarkDroppedInv ==
    ASSUME StoreInv, NEW i \in RowIds, MarkDropped(i)
    PROVE  StoreInv'
<1>. DEFINE r == [logs[i] EXCEPT !.status = "final_failure", !.inDLQ = FALSE, !.due = "null"]
<1>. Pending(i)
  BY DEF MarkDropped
<1>1. logs[i] \in Row
  BY PendingRowFacts
<1>2. /\ r \in Row /\ r.webhook = logs[i].webhook /\ r.sub = logs[i].sub
      /\ r.attempt = logs[i].attempt /\ r.replay = logs[i].replay
      /\ r.status = "final_failure" /\ ~r.inDLQ
  BY Zenon, <1>1 DEF Row, Statuses, DueTimes
<1>3. logs' = [logs EXCEPT ![i] = r] /\ UNCHANGED <<idem, minted, nextId>>
  BY Zenon DEF MarkDropped
<1>4. subs' \in [Subs -> Subscription] /\ KeepsLive
  BY DEF MarkDropped, StoreInv, StoreTypeOK, KeepsLive
<1>. QED
  <2>. HIDE DEF r
  <2>. QED
    BY Zenon, <1>2, <1>3, <1>4, RowUpdated

\* FinalizeFailure flags a row whose attempts are spent, and may switch its
\* subscription off.
LEMMA FinalizeFailureInv ==
    ASSUME StoreInv, NEW i \in RowIds, logs[i].attempt >= MaxRetryAttempts, FinalizeFailure(i)
    PROVE  StoreInv'
<1>. DEFINE r == [logs[i] EXCEPT !.status = "final_failure", !.inDLQ = TRUE]
<1>. Pending(i)
  BY DEF FinalizeFailure
<1>1. logs[i] \in Row /\ logs[i].sub \in Subs /\ logs[i].attempt = MaxRetryAttempts
  BY PendingRowFacts, StoreAssumption
<1>2. /\ r \in Row /\ r.webhook = logs[i].webhook /\ r.sub = logs[i].sub
      /\ r.attempt = logs[i].attempt /\ r.replay = logs[i].replay
      /\ r.status = "final_failure" /\ r.attempt = MaxRetryAttempts
  BY Zenon, <1>1 DEF Row, Statuses
<1>3. logs' = [logs EXCEPT ![i] = r] /\ UNCHANGED <<idem, minted, nextId>>
  BY Zenon DEF FinalizeFailure
<1>4. subs' \in [Subs -> Subscription] /\ KeepsLive
  <2>. DEFINE s == logs[i].sub
              b == subs[s].failures + 1
              on == (b < AutoDisableThreshold) /\ subs[s].active
  <2>1. subs \in [Subs -> Subscription] /\ s \in Subs
    BY <1>1 DEF StoreInv, StoreTypeOK
  <2>2. subs[s] \in Subscription
    BY <2>1
  <2>3. b \in Nat /\ on \in BOOLEAN
    BY <2>2 DEF Subscription
  <2>4. subs' = [subs EXCEPT ![s].failures = b, ![s].active = on]
    BY <2>1 DEF FinalizeFailure
  <2>. HIDE DEF s, b, on
  <2>. QED
    BY ZenonT(40), <2>1, <2>3, <2>4 DEF KeepsLive, Subscription
<1>. QED
  <2>. HIDE DEF r
  <2>. QED
    BY Zenon, <1>2, <1>3, <1>4, RowUpdated

\* The successor row continues the chain: same replay, next attempt.
LEMMA FailAndScheduleRetryInv ==
    ASSUME StoreInv, NEW i \in RowIds, logs[i].attempt < MaxRetryAttempts,
           FailAndScheduleRetry(i)
    PROVE  StoreInv'
<1>. DEFINE w == logs[i].webhook
            s == logs[i].sub
            a == logs[i].attempt + 1
            r == logs[i].replay
<1>. Pending(i)
  BY DEF FailAndScheduleRetry
<1>0. PICK n \in RowIds : n = nextId
  BY Zenon DEF FailAndScheduleRetry
<1>1. /\ logs \in [RowIds -> Row] /\ logs[i] \in Row /\ s \in Subs /\ w \in minted /\ w \in Webhooks
      /\ a \in 1..MaxRetryAttempts /\ r \in Nat /\ ~logs[i].inDLQ
  BY PendingRowFacts, StoreAssumption DEF StoreInv, StoreTypeOK
<1>2. i # n /\ i < n
  <2>1. i < nextId
    BY DEF StoreInv, StoreTypeOK, Shape, NoRow, RowIds
  <2>. QED
    BY <1>0, <2>1 DEF RowIds
<1>3. /\ logs'[n] = PendingRow(w, s, a, r, "later")
      /\ logs'[i] = [logs[i] EXCEPT !.status = "failed_attempt"]
      /\ \A j \in RowIds : j # n /\ j # i => logs'[j] = logs[j]
      /\ logs' \in [RowIds -> Row]
      /\ nextId' = n + 1 /\ UNCHANGED <<subs, idem, minted>>
  BY SMTT(30), <1>0, <1>1, <1>2 DEF FailAndScheduleRetry, PendingRow, Row, Statuses, DueTimes
<1>4. Kept(i) /\ ~Live(i)' /\ logs'[i].status = "failed_attempt"
  BY <1>1, <1>3 DEF Kept, Row
<1>5. /\ logs'[n].status = "pending" /\ logs'[n].webhook = w /\ logs'[n].sub = s
      /\ logs'[n].attempt = a /\ logs'[n].replay = r /\ logs'[n].inDLQ = FALSE
  BY <1>3 DEF PendingRow
<1>6. ASSUME NEW j \in RowIds, j # n, Present(j), logs[j].webhook = w
      PROVE  Precedes(j, n)' /\ ~Live(j)' /\ logs[j].sub = s
  <2>1. CASE j = i
    BY <1>1, <1>4, <1>5, <2>1 DEF Precedes, Kept, Row
  <2>2. CASE j # i
    <3>1. Precedes(j, i) /\ ~Live(j) /\ logs[j].sub = s
      BY <1>6, <2>2, LiveIsNewest
    <3>2. logs[j] \in Row
      BY <1>1
    <3>. QED
      BY <1>1, <1>3, <1>5, <1>6, <2>2, <3>1, <3>2 DEF Precedes, Row
  <2>. QED
    BY Zenon, <2>1, <2>2
<1>7. Shape' /\ NewestRowIsCurrent' /\ KeyNamesAcceptedWebhook'
  <2>1. \A e \in Subs \X Keys : idem[e] = w => e[1] = s
    BY <1>1, StoreAssumption DEF StoreInv, KeyNamesAcceptedWebhook
  <2>2. \A j \in RowIds : j # n => logs'[j] = logs[j] \/ Kept(j)
    BY <1>3, <1>4
  <2>3. "later" \in DueTimes /\ KeepsLive
    BY Zenon, <1>3 DEF DueTimes, KeepsLive
  <2>. HIDE DEF w, s, a, r
  <2>. QED
    BY <1>0, <1>1, <1>3, <1>6, <2>1, <2>2, <2>3, RowInserted
<1>8. RetryHasSuccessor'
  <2>. SUFFICES ASSUME NEW j \in RowIds, logs'[j].status = "failed_attempt"
                PROVE  \E k \in RowIds : /\ j < k
                                         /\ SameWebhook(j, k)'
                                         /\ logs'[k].replay = logs'[j].replay
                                         /\ logs'[k].attempt = logs'[j].attempt + 1
    BY Zenon DEF RetryHasSuccessor
  <2>1. CASE j = i
    BY Zenon, <1>2, <1>4, <1>5, <2>1 DEF SameWebhook, Kept
  <2>2. CASE j # i
    <3>1. j # n /\ logs'[j] = logs[j]
      BY <1>3, <1>5, <2>2
    <3>2. PICK k \in RowIds : /\ j < k
                              /\ SameWebhook(j, k)
                              /\ logs[k].replay = logs[j].replay
                              /\ logs[k].attempt = logs[j].attempt + 1
      BY Zenon, <3>1 DEF StoreInv, RetryHasSuccessor
    <3>3. k # n
      <4>1. logs[n] = NoRow
        BY <1>0 DEF StoreInv, Shape, RowIds
      <4>. QED
        BY <3>2, <4>1 DEF SameWebhook, NoRow
    <3>4. CASE k = i
      BY Zenon, <1>4, <3>1, <3>2, <3>4 DEF SameWebhook, Kept
    <3>5. CASE k # i
      BY ZenonT(40), <1>3, <3>1, <3>2, <3>3, <3>5 DEF SameWebhook
    <3>. QED
      BY Zenon, <3>4, <3>5
  <2>. QED
    BY <2>1, <2>2
<1>9. StoreTypeOK' /\ BudgetRespected'
  <2>1. nextId' \in 1..(MaxRows + 1)
    BY <1>0, <1>3, StoreAssumption DEF RowIds
  <2>. StoreTypeOK'
    BY Zenon, <1>3, <2>1 DEF StoreInv, StoreTypeOK
  <2>2. BudgetRespected'
    BY SMTT(30), <1>1, <1>3, <1>4, <1>5 DEF StoreInv, BudgetRespected, Kept, Row
  <2>. QED
    BY <2>1, <2>2
<1>. QED
  BY <1>7, <1>8, <1>9 DEF StoreInv

\* The first row of a webhook nobody has used before.
LEMMA FirstRow ==
    ASSUME StoreInv, nextId \in RowIds, NEW w \in Webhooks, w \notin minted, NEW s \in Subs,
           NEW d \in DueTimes,
           logs' = [logs EXCEPT ![nextId] = PendingRow(w, s, 1, 0, d)],
           minted' = minted \cup {w}, nextId' = nextId + 1
    PROVE  /\ Shape' /\ NewestRowIsCurrent' /\ RetryHasSuccessor' /\ BudgetRespected'
           /\ logs' \in [RowIds -> Row] /\ minted' \subseteq Webhooks
           /\ nextId' \in 1..(MaxRows + 1)
           /\ \A i \in RowIds : \/ logs'[i] = logs[i] /\ (Present(i) => logs[i].webhook # w)
                                \/ logs'[i].webhook = w /\ logs'[i].sub = s
<1>0. PICK n \in RowIds : n = nextId
  BY Zenon
<1>1. logs \in [RowIds -> Row] /\ minted \subseteq Webhooks /\ logs[n] = NoRow
  BY <1>0 DEF StoreInv, StoreTypeOK, Shape, RowIds
<1>2. /\ logs'[n] = PendingRow(w, s, 1, 0, d)
      /\ \A i \in RowIds : i # n => logs'[i] = logs[i]
      /\ logs' \in [RowIds -> Row]
  BY Zenon, <1>0, <1>1 DEF PendingRow, Row, Statuses
<1>3. /\ logs'[n].webhook = w /\ logs'[n].sub = s /\ logs'[n].status = "pending"
      /\ logs'[n].attempt = 1 /\ ~logs'[n].inDLQ
  BY <1>2 DEF PendingRow
<1>4. \A i \in RowIds : Present(i) => logs[i].webhook # w
  BY Zenon DEF StoreInv, Shape
<1>5. Shape' /\ NewestRowIsCurrent'
  <2>1. Present(n)'
    BY <1>3
  <2>. QED
    BY <1>0, <1>2, <1>3, <1>4, <2>1, NewRow DEF StoreInv
<1>6. RetryHasSuccessor'
  <2>1. \A j \in RowIds : Present(j) => j # n
    BY <1>1 DEF NoRow
  <2>2. RetriesKept
    BY Zenon, <1>2, <1>3, <2>1 DEF RetriesKept, SameWebhook
  <2>. QED
    BY Zenon, <2>2, SuccessorsKept DEF StoreInv
<1>7. BudgetRespected'
  BY <1>2, <1>3, StoreAssumption DEF StoreInv, BudgetRespected
<1>8. nextId' \in 1..(MaxRows + 1)
  BY <1>0, StoreAssumption DEF RowIds
<1>. QED
  BY Zenon, <1>1, <1>2, <1>3, <1>4, <1>5, <1>6, <1>7, <1>8

\* IngestPending inserts the first row of a webhook together with its key.
LEMMA IngestPendingInv ==
    ASSUME StoreInv, NEW s \in Subs, NEW k \in Keys \cup {None}, NEW w \in Webhooks,
           IngestPending(s, k, w)
    PROVE  StoreInv'
<1>1. /\ Shape' /\ NewestRowIsCurrent' /\ RetryHasSuccessor' /\ BudgetRespected'
      /\ logs' \in [RowIds -> Row] /\ minted' \subseteq Webhooks
      /\ nextId' \in 1..(MaxRows + 1)
      /\ \A i \in RowIds : \/ logs'[i] = logs[i] /\ (Present(i) => logs[i].webhook # w)
                           \/ logs'[i].webhook = w /\ logs'[i].sub = s
  <2>1. "now" \in DueTimes
    BY DEF DueTimes
  <2>. QED
    BY ZenonT(40), <2>1, FirstRow DEF IngestPending
<1>2. idem \in [Subs \X Keys -> Webhooks \cup {None}]
  BY Zenon DEF StoreInv, StoreTypeOK
<1>3. StoreTypeOK'
  <2>1. idem' \in [Subs \X Keys -> Webhooks \cup {None}]
    BY Zenon, <1>2 DEF IngestPending
  <2>. QED
    BY Zenon, <1>1, <2>1 DEF IngestPending, StoreInv, StoreTypeOK
<1>4. \A i \in RowIds : ~Present(i) => logs[i].webhook = None
  BY DEF StoreInv, Shape, NoRow
<1>5. KeyNamesAcceptedWebhook'
  <2>. SUFFICES ASSUME NEW e \in Subs \X Keys, NEW f \in Subs \X Keys, idem'[e] # None
                PROVE  /\ idem'[e] \in minted'
                       /\ subs'[e[1]].state = "live"
                       /\ idem'[e] = idem'[f] => e = f
                       /\ \A i \in RowIds : logs'[i].webhook = idem'[e] => logs'[i].sub = e[1]
    BY DEF KeyNamesAcceptedWebhook
  <2>0. /\ w # None /\ w \notin minted /\ subs' = subs /\ minted' = minted \cup {w}
        /\ subs[s].state = "live"
    BY Zenon, StoreAssumption DEF IngestPending
  <2>1. \A g \in Subs \X Keys : idem[g] # None =>
            /\ idem[g] \in minted
            /\ subs[g[1]].state = "live"
            /\ \A h \in Subs \X Keys : idem[g] = idem[h] => g = h
            /\ \A i \in RowIds : logs[i].webhook = idem[g] => logs[i].sub = g[1]
    BY ZenonT(40) DEF StoreInv, KeyNamesAcceptedWebhook
  <2>2. \A g \in Subs \X Keys : idem'[g] = idem[g] \/ (idem'[g] = w /\ g = <<s, k>>)
    BY Zenon, <1>2 DEF IngestPending
  <2>3. CASE idem'[e] = w /\ e = <<s, k>>
    <3>1. e[1] = s
      BY <2>3
    <3>2. idem'[e] = idem'[f] => e = f
      BY ZenonT(40), <2>0, <2>1, <2>2, <2>3
    <3>3. \A i \in RowIds : logs'[i].webhook = w => logs'[i].sub = s
      BY Zenon, <1>1, <1>4, <2>0
    <3>. QED
      BY ZenonT(40), <2>0, <2>3, <3>1, <3>2, <3>3
  <2>4. CASE idem'[e] = idem[e]
    <3>1. idem[e] # w
      BY Zenon, <2>0, <2>1, <2>4
    <3>2. idem'[e] = idem'[f] => e = f
      BY Zenon, <2>1, <2>2, <2>4, <3>1
    <3>3. \A i \in RowIds : logs'[i].webhook = idem[e] => logs'[i].sub = e[1]
      BY <1>1, <2>1, <2>4, <3>1
    <3>. QED
      BY Zenon, <2>0, <2>1, <2>4, <3>2, <3>3
  <2>. QED
    BY Zenon, <2>2, <2>3, <2>4
<1>. QED
  BY SMTT(30), <1>1, <1>3, <1>5 DEF StoreInv

\* So does a row from outside, without a key.
LEMMA InsertLeaseLessInv ==
    ASSUME StoreInv, NEW s \in Subs, NEW w \in Webhooks, InsertLeaseLess(s, w)
    PROVE  StoreInv'
<1>1. /\ Shape' /\ NewestRowIsCurrent' /\ RetryHasSuccessor' /\ BudgetRespected'
      /\ logs' \in [RowIds -> Row] /\ minted' \subseteq Webhooks
      /\ nextId' \in 1..(MaxRows + 1)
      /\ \A i \in RowIds : \/ logs'[i] = logs[i] /\ (Present(i) => logs[i].webhook # w)
                           \/ logs'[i].webhook = w /\ logs'[i].sub = s
  <2>1. "null" \in DueTimes
    BY DEF DueTimes
  <2>. QED
    BY Zenon, <2>1, FirstRow DEF InsertLeaseLess
<1>2. StoreTypeOK'
  BY Zenon, <1>1 DEF InsertLeaseLess, StoreInv, StoreTypeOK
<1>3. KeyNamesAcceptedWebhook'
  <2>1. idem' = idem /\ subs' = subs /\ minted \subseteq minted' /\ w \notin minted
    BY DEF InsertLeaseLess
  <2>. QED
    BY <1>1, <2>1 DEF StoreInv, KeyNamesAcceptedWebhook
<1>. QED
  BY <1>1, <1>2, <1>3 DEF StoreInv

\* The replay starts a new chain in place of the one row it takes off the DLQ:
\* InDLQ(s, w) is that row alone, so the flag of no other row is lost.
LEMMA ReplayDLQInv ==
    ASSUME StoreInv, NEW s \in Subs, NEW w \in Webhooks, NEW c \in RowIds, ReplayDLQ(s, w, c)
    PROVE  StoreInv'
<1>. DEFINE r == logs[c].replay + 1
<1>0. PICK n \in RowIds : n = nextId
  BY Zenon DEF ReplayDLQ
<1>1. /\ logs \in [RowIds -> Row] /\ logs[c] \in Row /\ r \in Nat
      /\ logs[c].inDLQ /\ logs[c].sub = s /\ logs[c].webhook = w
  BY DEF ReplayDLQ, InDLQ, StoreInv, StoreTypeOK, Row
<1>2. logs[c].status = "final_failure" /\ w \in minted
  BY Zenon, <1>1 DEF StoreInv, BudgetRespected, Shape
<1>3. c # n /\ logs[n] = NoRow
  <2>1. logs[n] = NoRow
    BY <1>0 DEF StoreInv, Shape, RowIds
  <2>. QED
    BY <1>2, <2>1 DEF NoRow
<1>4. InDLQ(s, w) = {c}
  BY <1>1, <1>2, LiveIsNewest DEF InDLQ, StoreInv, BudgetRespected
<1>5. /\ logs'[n] = PendingRow(w, s, 1, r, "now")
      /\ logs'[c] = [logs[c] EXCEPT !.inDLQ = FALSE]
      /\ \A j \in RowIds : j # n /\ j # c => logs'[j] = logs[j]
      /\ logs' \in [RowIds -> Row]
      /\ nextId' = n + 1 /\ UNCHANGED <<subs, idem, minted>>
  BY ZenonT(40), <1>0, <1>1, <1>3, <1>4 DEF ReplayDLQ, ClearFlag, PendingRow, Row, Statuses, DueTimes
<1>6. Kept(c) /\ ~Live(c)' /\ logs'[c].status = "final_failure" /\ ~logs'[c].inDLQ
  BY <1>1, <1>2, <1>5 DEF Kept, Row
<1>7. /\ logs'[n].status = "pending" /\ logs'[n].webhook = w /\ logs'[n].sub = s
      /\ logs'[n].attempt = 1 /\ logs'[n].replay = r /\ logs'[n].inDLQ = FALSE
  BY <1>5 DEF PendingRow
<1>8. ASSUME NEW j \in RowIds, j # n, Present(j), logs[j].webhook = w
      PROVE  Precedes(j, n)' /\ ~Live(j)' /\ logs[j].sub = s
  <2>1. CASE j = c
    BY <1>1, <1>6, <1>7, <2>1 DEF Precedes, Kept, Row
  <2>2. CASE j # c
    <3>1. Precedes(j, c) /\ ~Live(j) /\ logs[j].sub = s
      BY ZenonT(40), <1>1, <1>8, <2>2, LiveIsNewest
    <3>2. logs[j] \in Row
      BY <1>1
    <3>. QED
      BY <1>1, <1>5, <1>7, <1>8, <2>2, <3>1, <3>2 DEF Precedes, Row
  <2>. QED
    BY <2>1, <2>2
<1>9. \A j \in RowIds : j # n => logs'[j] = logs[j] \/ Kept(j)
  BY Zenon, <1>5, <1>6
<1>10. Shape' /\ NewestRowIsCurrent' /\ KeyNamesAcceptedWebhook'
  <2>1. \A e \in Subs \X Keys : idem[e] = w => e[1] = s
    BY <1>1, StoreAssumption DEF StoreInv, KeyNamesAcceptedWebhook
  <2>2. "now" \in DueTimes /\ KeepsLive /\ 1 \in 1..MaxRetryAttempts
    BY <1>5, StoreAssumption DEF DueTimes, KeepsLive
  <2>. HIDE DEF r
  <2>. QED
    BY <1>0, <1>1, <1>2, <1>5, <1>8, <1>9, <2>1, <2>2, RowInserted
<1>11. RetryHasSuccessor'
  <2>0. \A j \in RowIds : Present(j) => j # n
    BY <1>3 DEF NoRow
  <2>1. \A j \in RowIds : logs'[j].status = "failed_attempt" =>
            j # n /\ logs[j].status = "failed_attempt"
    BY Zenon, <1>5, <1>6, <1>7
  <2>2. RetriesKept
    BY <1>9, <2>0, <2>1 DEF RetriesKept, SameWebhook
  <2>. QED
    BY Zenon, <2>2, SuccessorsKept DEF StoreInv
<1>12. StoreTypeOK' /\ BudgetRespected'
  <2>1. nextId' \in 1..(MaxRows + 1)
    BY <1>0, <1>5, StoreAssumption DEF RowIds
  <2>2. StoreTypeOK'
    BY <1>5, <2>1 DEF StoreInv, StoreTypeOK
  <2>3. \A j \in RowIds : j # n /\ j # c => logs'[j] = logs[j]
    BY Zenon, <1>5
  <2>4. logs'[c].attempt = logs[c].attempt
    BY Zenon, <1>6 DEF Kept
  <2>5. BudgetRespected'
    <3>. SUFFICES ASSUME NEW j \in RowIds
                  PROVE  /\ Present(j)' => logs'[j].attempt \in 1..MaxRetryAttempts
                         /\ logs'[j].inDLQ => /\ logs'[j].status = "final_failure"
                                              /\ logs'[j].attempt = MaxRetryAttempts
      BY Zenon DEF BudgetRespected
    <3>1. /\ Present(j) => logs[j].attempt \in 1..MaxRetryAttempts
          /\ logs[j].inDLQ => /\ logs[j].status = "final_failure"
                              /\ logs[j].attempt = MaxRetryAttempts
      BY Zenon DEF StoreInv, BudgetRespected
    <3>2. 1 \in 1..MaxRetryAttempts
      BY StoreAssumption
    <3>3. CASE j = n
      BY Zenon, <1>7, <3>2, <3>3
    <3>4. CASE j = c
      BY Zenon, <1>2, <1>6, <2>4, <3>1, <3>4
    <3>5. CASE j # n /\ j # c
      BY Zenon, <2>3, <3>1, <3>5
    <3>. QED
      BY Zenon, <3>3, <3>4, <3>5
  <2>. QED
    BY <2>2, <2>5
<1>. QED
  BY Zenon, <1>10, <1>11, <1>12 DEF StoreInv

\* Re-arming moves next_retry_at of pending rows and nothing else.
LEMMA RearmLeaseLessPendingInv ==
    ASSUME StoreInv, RearmLeaseLessPending
    PROVE  StoreInv'
<1>. logs \in [RowIds -> Row]
  BY DEF StoreInv, StoreTypeOK
<1>1. ASSUME NEW i \in RowIds
      PROVE  /\ logs'[i] = logs[i] \/ Kept(i)
             /\ logs'[i] \in Row
             /\ logs'[i].status = logs[i].status
             /\ logs'[i].attempt = logs[i].attempt
             /\ logs'[i].inDLQ = logs[i].inDLQ
  <2>1. logs'[i] = IF i \in LeaseLess THEN [logs[i] EXCEPT !.due = "now"] ELSE logs[i]
    BY DEF RearmLeaseLessPending
  <2>2. CASE i \in LeaseLess
    <3>1. Pending(i)
      BY Zenon, <2>2 DEF LeaseLess
    <3>. QED
      BY <2>1, <2>2, <3>1 DEF Kept, Row, DueTimes
  <2>. QED
    BY <2>1, <2>2
<1>2. NoInsertion /\ RetriesKept
  BY <1>1 DEF NoInsertion, RetriesKept
<1>3. StoreTypeOK'
  BY Zenon, <1>1 DEF StoreInv, StoreTypeOK, RearmLeaseLessPending
<1>4. BudgetRespected'
  BY <1>1 DEF StoreInv, BudgetRespected
<1>. QED
  BY <1>2, <1>3, <1>4, NoInsertionInv DEF KeepsLive, RearmLeaseLessPending

\* Retention cuts a chain at its old end: a row that is kept though it is older
\* than a deleted one is live, so it is not a failed_attempt.
LEMMA DeleteExpiredInv ==
    ASSUME StoreInv, NEW h \in Nat, DeleteExpired(h)
    PROVE  StoreInv'
<1>1. \A i, j \in RowIds : i \notin Expired(h) /\ j \in Expired(h) /\ i < j /\ SameWebhook(i, j)
          => logs[i].status # "failed_attempt"
  <2>. SUFFICES ASSUME NEW i \in RowIds, NEW j \in RowIds, i \notin Expired(h), j \in Expired(h),
                       i < j, logs[i].status = "failed_attempt"
                PROVE  FALSE
    BY Zenon
  <2>1. ~Live(i) /\ Present(i)
    BY DEF StoreInv, BudgetRespected
  <2>2. i < h
    BY DEF Expired, RowIds
  <2>. QED
    BY <2>1, <2>2 DEF Expired
<1>2. NoInsertion /\ RetriesKept /\ BudgetRespected' /\ logs' \in [RowIds -> Row]
  BY ZenonT(40), <1>1, RowsDeleted DEF DeleteExpired
<1>3. StoreTypeOK' /\ KeepsLive /\ UNCHANGED <<idem, minted, nextId>>
  BY <1>2 DEF DeleteExpired, StoreInv, StoreTypeOK, KeepsLive
<1>. QED
  BY ZenonT(40), <1>2, <1>3, NoInsertionInv

\* The cascade takes a chain as a whole, since all rows of a webhook belong to
\* one subscription, and the keys of that subscription with it.
LEMMA DeleteSubscriptionInv ==
    ASSUME StoreInv, NEW s \in Subs, DeleteSubscription(s)
    PROVE  StoreInv'
<1>. DEFINE D == {i \in RowIds : logs[i].sub = s}
<1>1. NoInsertion /\ RetriesKept /\ BudgetRespected' /\ logs' \in [RowIds -> Row]
  <2>1. logs' = [i \in RowIds |-> IF i \in D THEN NoRow ELSE logs[i]]
    BY Zenon DEF DeleteSubscription
  <2>2. \A i, j \in RowIds : i \notin D /\ j \in D => ~SameWebhook(i, j)
    BY Zenon DEF StoreInv, Shape
  <2>. HIDE DEF D
  <2>. QED
    BY Zenon, <2>1, <2>2, RowsDeleted
<1>2. Shape' /\ NewestRowIsCurrent' /\ RetryHasSuccessor'
  BY Zenon, <1>1, KeptRows, SuccessorsKept DEF StoreInv, DeleteSubscription
<1>3. StoreTypeOK'
  <2>1. subs' \in [Subs -> Subscription]
    BY Zenon DEF DeleteSubscription, StoreInv, StoreTypeOK, Subscription
  <2>2. idem' \in [Subs \X Keys -> Webhooks \cup {None}]
    BY Zenon DEF DeleteSubscription, StoreInv, StoreTypeOK
  <2>. QED
    BY Zenon, <1>1, <2>1, <2>2 DEF DeleteSubscription, StoreInv, StoreTypeOK
<1>4. KeyNamesAcceptedWebhook'
  <2>. SUFFICES ASSUME NEW e \in Subs \X Keys, NEW f \in Subs \X Keys, idem'[e] # None
                PROVE  /\ idem'[e] \in minted'
                       /\ subs'[e[1]].state = "live"
                       /\ idem'[e] = idem'[f] => e = f
                       /\ \A i \in RowIds : logs'[i].webhook = idem'[e] => logs'[i].sub = e[1]
    BY Zenon DEF KeyNamesAcceptedWebhook
  <2>1. /\ \A g \in Subs \X Keys : idem'[g] = IF g[1] = s THEN None ELSE idem[g]
        /\ subs \in [Subs -> Subscription]
        /\ subs' = [subs EXCEPT ![s] = [state |-> "gone", active |-> FALSE, failures |-> 0]]
        /\ minted' = minted
        /\ \A i \in RowIds : logs'[i] = IF logs[i].sub = s THEN NoRow ELSE logs[i]
    BY Zenon DEF DeleteSubscription, StoreInv, StoreTypeOK
  <2>2. e[1] # s /\ e[1] \in Subs /\ idem'[e] = idem[e] /\ idem'[f] \in {None, idem[f]}
    BY Zenon, <2>1
  <2>3. /\ idem[e] \in minted
        /\ subs[e[1]].state = "live"
        /\ idem[e] = idem[f] => e = f
        /\ \A i \in RowIds : logs[i].webhook = idem[e] => logs[i].sub = e[1]
    BY Zenon, <2>2 DEF StoreInv, KeyNamesAcceptedWebhook
  <2>4. subs'[e[1]] = subs[e[1]]
    BY Zenon, <2>1, <2>2
  <2>5. \A i \in RowIds : logs'[i].webhook = idem'[e] => logs'[i].sub = e[1]
    BY <2>1, <2>2, <2>3 DEF NoRow
  <2>. QED
    BY Zenon, <2>1, <2>2, <2>3, <2>4, <2>5
<1>. QED
  BY Zenon, <1>1, <1>2, <1>3, <1>4 DEF StoreInv

\* Pruning only forgets keys.
LEMMA PruneIdempotencyInv ==
    ASSUME StoreInv, NEW P, PruneIdempotency(P)
    PROVE  StoreInv'
<1>1. /\ Shape' /\ NewestRowIsCurrent' /\ RetryHasSuccessor' /\ BudgetRespected'
  BY DEF PruneIdempotency, StoreInv, Shape, NewestRowIsCurrent, RetryHasSuccessor,
         BudgetRespected, SameWebhook, Precedes
<1>2. StoreTypeOK'
  <2>1. idem' \in [Subs \X Keys -> Webhooks \cup {None}]
    BY Zenon DEF PruneIdempotency, StoreInv, StoreTypeOK
  <2>. QED
    BY <2>1 DEF PruneIdempotency, StoreInv, StoreTypeOK
<1>3. KeyNamesAcceptedWebhook'
  <2>1. \A g \in Subs \X Keys : idem'[g] = IF g \in P THEN None ELSE idem[g]
    BY DEF PruneIdempotency
  <2>2. UNCHANGED <<logs, subs, minted>>
    BY DEF PruneIdempotency
  <2>. QED
    BY <2>1, <2>2 DEF StoreInv, KeyNamesAcceptedWebhook
<1>. QED
  BY Zenon, <1>1, <1>2, <1>3 DEF StoreInv

\* Creating or switching a subscription leaves the rows alone.
LEMMA SubscriptionWritten ==
    ASSUME StoreInv, subs' \in [Subs -> Subscription], KeepsLive,
           UNCHANGED <<logs, idem, minted, nextId>>
    PROVE  StoreInv'
<1>1. NoInsertion /\ RetriesKept
  BY Zenon DEF NoInsertion, RetriesKept
<1>2. StoreTypeOK' /\ BudgetRespected'
  BY DEF StoreInv, StoreTypeOK, BudgetRespected
<1>. QED
  BY Zenon, <1>1, <1>2, NoInsertionInv

-----------------------------------------------------------------------------
(* The induction. *)

\* The empty tables satisfy the invariant.
LEMMA InitInv == StoreInit => StoreInv
<1>. SUFFICES ASSUME StoreInit PROVE StoreInv
  OBVIOUS
<1>1. \A i \in RowIds : logs[i] = NoRow
  BY Zenon DEF StoreInit
<1>2. NoRow \in Row /\ NoRow.status = "absent" /\ ~NoRow.inDLQ
  BY Zenon DEF NoRow, Row, Statuses, DueTimes
<1>3. StoreTypeOK
  BY <1>2, StoreAssumption DEF StoreInit, StoreTypeOK, Subscription
<1>4. Shape /\ NewestRowIsCurrent /\ RetryHasSuccessor /\ BudgetRespected
  BY Zenon, <1>1, <1>2 DEF Shape, NewestRowIsCurrent, RetryHasSuccessor, BudgetRespected, SameWebhook
<1>5. KeyNamesAcceptedWebhook
  BY DEF StoreInit, KeyNamesAcceptedWebhook
<1>. QED
  BY <1>3, <1>4, <1>5 DEF StoreInv

\* Every transaction preserves the invariant.
LEMMA NextInv == StoreInv /\ [StoreNext]_storeVars => StoreInv'
<1>. SUFFICES ASSUME StoreInv, [StoreNext]_storeVars PROVE StoreInv'
  OBVIOUS
<1>1. ASSUME NEW i \in RowIds, RowStep(i) PROVE StoreInv'
  <2>1. CASE ClaimPending(i)
    BY Zenon, <2>1, DueMoves DEF ClaimPending, Claimable, DueTimes
  <2>2. CASE MarkSuccess(i)
    BY Zenon, <2>2, MarkSuccessInv
  <2>3. CASE HandleFailure(i)
    BY ZenonT(40), <2>3, FailAndScheduleRetryInv, FinalizeFailureInv DEF HandleFailure
  <2>4. CASE MarkDropped(i)
    BY <2>4, MarkDroppedInv
  <2>5. CASE RescheduleSamePending(i)
    BY Zenon, <2>5, DueMoves DEF RescheduleSamePending, DueTimes
  <2>6. CASE Elapse(i)
    <3>. DEFINE d == IF logs[i].due = "later" THEN "now" ELSE "orphan"
    <3>1. d \in DueTimes
      BY DEF DueTimes
    <3>2. Pending(i) /\ logs' = [logs EXCEPT ![i].due = d] /\ UNCHANGED <<subs, idem, minted, nextId>>
      BY Zenon, <2>6 DEF Elapse
    <3>. HIDE DEF d
    <3>. QED
      BY Zenon, <3>1, <3>2, DueMoves
  <2>. QED
    BY <1>1, <2>1, <2>2, <2>3, <2>4, <2>5, <2>6 DEF RowStep
<1>2. ASSUME NEW s \in Subs, NEW w \in Webhooks, WebhookStep(s, w) PROVE StoreInv'
  <2>1. ASSUME NEW k \in Keys \cup {None}, IngestPending(s, k, w) PROVE StoreInv'
    BY <2>1, IngestPendingInv
  <2>2. CASE InsertLeaseLess(s, w)
    BY ZenonT(40), <2>2, InsertLeaseLessInv
  <2>3. ASSUME NEW c \in RowIds, AckDLQ(s, w, c) PROVE StoreInv'
    <3>1. \A i \in RowIds : i \in InDLQ(s, w) => logs[i].inDLQ
      BY DEF InDLQ
    <3>2. logs' = ClearFlag(InDLQ(s, w)) /\ UNCHANGED <<subs, idem, minted, nextId>>
      BY <2>3 DEF AckDLQ
    <3>. QED
      BY <3>1, <3>2, FlagsCleared
  <2>4. ASSUME NEW c \in RowIds, ReplayDLQ(s, w, c) PROVE StoreInv'
    BY <2>4, ReplayDLQInv
  <2>. QED
    BY ZenonT(40), <1>2, <2>1, <2>2, <2>3, <2>4 DEF WebhookStep
<1>3. ASSUME NEW s \in Subs, SubscriptionStep(s) PROVE StoreInv'
  <2>1. ASSUME NEW a \in BOOLEAN, CreateSubscription(s, a) PROVE StoreInv'
    BY ZenonT(40), <2>1, SubscriptionWritten DEF CreateSubscription, StoreInv, StoreTypeOK, Subscription, KeepsLive
  <2>2. ASSUME NEW a \in BOOLEAN, UpdateSubscription(s, a) PROVE StoreInv'
    BY ZenonT(40), <2>2, SubscriptionWritten DEF UpdateSubscription, StoreInv, StoreTypeOK, Subscription, KeepsLive
  <2>3. CASE DeleteSubscription(s)
    BY <2>3, DeleteSubscriptionInv
  <2>. QED
    BY Zenon, <1>3, <2>1, <2>2, <2>3 DEF SubscriptionStep
<1>4. ASSUME SweepStep PROVE StoreInv'
  <2>1. CASE RearmLeaseLessPending
    BY Zenon, <2>1, RearmLeaseLessPendingInv
  <2>2. ASSUME NEW D \in SUBSET RowIds, ForceAckOldDLQ(D) PROVE StoreInv'
    BY <2>2, FlagsCleared DEF ForceAckOldDLQ
  <2>3. ASSUME NEW h \in 1..nextId, DeleteExpired(h) PROVE StoreInv'
    <3>1. h \in Nat
      BY DEF StoreInv, StoreTypeOK
    <3>. QED
      BY ZenonT(40), <2>3, <3>1, DeleteExpiredInv
  <2>4. ASSUME NEW P \in SUBSET (Subs \X Keys), PruneIdempotency(P) PROVE StoreInv'
    BY Zenon, <2>4, PruneIdempotencyInv
  <2>. QED
    BY <1>4, <2>1, <2>2, <2>3, <2>4 DEF SweepStep
<1>5. CASE UNCHANGED storeVars
  <2>1. UNCHANGED <<logs, subs, idem, minted, nextId>>
    BY <1>5 DEF storeVars
  <2>. QED
    BY <2>1, SubscriptionWritten DEF StoreInv, StoreTypeOK, KeepsLive
<1>. QED
  BY <1>1, <1>2, <1>3, <1>4, <1>5 DEF StoreNext

\* The tables satisfy the invariant after any sequence of transactions.
THEOREM StoreInvariant == StoreSpec => []StoreInv
<1>. QED
  BY InitInv, NextInv, PTL DEF StoreSpec

\* At most one row of a webhook is ever pending or in the DLQ, however workers,
\* sweeps and API calls are ordered: the single id AckDLQ and ReplayDLQ read back
\* is the only one.
THEOREM OneLiveRowTheorem == StoreSpec => []OneLiveRow
<1>1. StoreInv => OneLiveRow
  <2>. SUFFICES ASSUME StoreInv, NEW i \in RowIds, NEW j \in RowIds, Live(i), Live(j),
                       logs[i].webhook = logs[j].webhook, i # j
                PROVE  FALSE
    BY ZenonT(40) DEF OneLiveRow
  <2>1. Present(j)
    BY DEF StoreInv, BudgetRespected
  <2>. QED
    BY Zenon, <2>1, LiveIsNewest
<1>. QED
  BY <1>1, StoreInvariant, PTL

\* Attempt numbers of a webhook grow with insertion and only its newest row can
\* be live, so the row the status handler reports is the one work is done on.
THEOREM NewestRowTheorem == StoreSpec => []NewestRowIsCurrent
<1>1. StoreInv => NewestRowIsCurrent
  BY DEF StoreInv
<1>. QED
  BY <1>1, StoreInvariant, PTL

\* No failed_attempt row is ever without its successor, under retention too.
THEOREM RetrySuccessorTheorem == StoreSpec => []RetryHasSuccessor
<1>1. StoreInv => RetryHasSuccessor
  BY DEF StoreInv
<1>. QED
  BY <1>1, StoreInvariant, PTL

\* No chain exceeds the attempt budget and only spent chains are dead letters.
THEOREM BudgetTheorem == StoreSpec => []BudgetRespected
<1>1. StoreInv => BudgetRespected
  BY DEF StoreInv
<1>. QED
  BY <1>1, StoreInvariant, PTL

\* A key always names a webhook accepted for its own subscription.
THEOREM KeyTheorem == StoreSpec => []KeyNamesAcceptedWebhook
<1>1. StoreInv => KeyNamesAcceptedWebhook
  BY DEF StoreInv
<1>. QED
  BY <1>1, StoreInvariant, PTL

-----------------------------------------------------------------------------
(* What a single transaction may do to a row. *)

\* The row is not revived, and not deleted while it is live.
Untouched(k) ==
    /\ Present(k) /\ ~Live(k) => ~Live(k)'
    /\ Live(k) => Present(k)'

\* Only the cascade deletes live rows, and no transaction revives one: row
\* transitions need a pending row, insertions use an id that was never used.
LEMMA StepOnRow ==
    ASSUME StoreInv, StoreNext, NEW k \in RowIds
    PROVE  \/ Untouched(k)
           \/ \E s \in Subs : DeleteSubscription(s) /\ logs[k].sub = s
<1>. logs \in [RowIds -> Row]
  BY ZenonT(40) DEF StoreInv, StoreTypeOK
<1>0. /\ logs[k].inDLQ => logs[k].status = "final_failure"
      /\ k = nextId => ~Present(k) /\ ~logs[k].inDLQ
  BY DEF StoreInv, BudgetRespected, Shape, NoRow, RowIds
<1>1. ASSUME NEW i \in RowIds, RowStep(i) PROVE Untouched(k)
  <2>1. CASE ClaimPending(i) \/ RescheduleSamePending(i) \/ Elapse(i)
    BY ZenonT(40), <1>0, <2>1 DEF ClaimPending, Claimable, RescheduleSamePending, Elapse, Untouched, Row
  <2>2. CASE MarkSuccess(i) \/ MarkDropped(i) \/ FinalizeFailure(i)
    BY ZenonT(40), <1>0, <2>2 DEF MarkSuccess, MarkDropped, FinalizeFailure, Untouched, Row
  <2>3. CASE FailAndScheduleRetry(i)
    BY <1>0, <2>3 DEF FailAndScheduleRetry, PendingRow, Untouched, Row
  <2>. QED
    BY <1>1, <2>1, <2>2, <2>3 DEF RowStep, HandleFailure
<1>2. ASSUME NEW s \in Subs, NEW w \in Webhooks, WebhookStep(s, w) PROVE Untouched(k)
  <2>1. ASSUME NEW x \in Keys \cup {None}, IngestPending(s, x, w) PROVE Untouched(k)
    BY Zenon, <1>0, <2>1 DEF IngestPending, PendingRow, Untouched
  <2>2. CASE InsertLeaseLess(s, w)
    BY <1>0, <2>2 DEF InsertLeaseLess, PendingRow, Untouched
  <2>3. ASSUME NEW c \in RowIds, AckDLQ(s, w, c) PROVE Untouched(k)
    BY <1>0, <2>3 DEF AckDLQ, ClearFlag, Untouched, Row
  <2>4. ASSUME NEW c \in RowIds, ReplayDLQ(s, w, c) PROVE Untouched(k)
    BY <1>0, <2>4 DEF ReplayDLQ, ClearFlag, PendingRow, Untouched, Row
  <2>. QED
    BY Zenon, <1>2, <2>1, <2>2, <2>3, <2>4 DEF WebhookStep
<1>3. ASSUME NEW s \in Subs, SubscriptionStep(s)
      PROVE  Untouched(k) \/ (DeleteSubscription(s) /\ logs[k].sub = s)
  <2>1. CASE logs' = logs
    BY Zenon, <1>0, <2>1 DEF Untouched
  <2>2. CASE DeleteSubscription(s) /\ logs[k].sub # s
    <3>1. logs'[k] = logs[k]
      BY Zenon, <2>2 DEF DeleteSubscription
    <3>. QED
      BY Zenon, <1>0, <3>1 DEF Untouched
  <2>. QED
    BY Zenon, <1>3, <2>1, <2>2 DEF SubscriptionStep, CreateSubscription, UpdateSubscription
<1>4. ASSUME SweepStep PROVE Untouched(k)
  <2>1. CASE RearmLeaseLessPending
    BY <1>0, <2>1 DEF RearmLeaseLessPending, Untouched, Row
  <2>2. ASSUME NEW D \in SUBSET RowIds, ForceAckOldDLQ(D) PROVE Untouched(k)
    BY ZenonT(40), <1>0, <2>2 DEF ForceAckOldDLQ, ClearFlag, Untouched, Row
  <2>3. ASSUME NEW h \in 1..nextId, DeleteExpired(h) PROVE Untouched(k)
    BY Zenon, <1>0, <2>3 DEF DeleteExpired, Expired, NoRow, Untouched
  <2>4. ASSUME NEW P \in SUBSET (Subs \X Keys), PruneIdempotency(P) PROVE Untouched(k)
    BY <1>0, <2>4 DEF PruneIdempotency, Untouched
  <2>. QED
    BY <1>4, <2>1, <2>2, <2>3, <2>4 DEF SweepStep
<1>. QED
  BY <1>1, <1>2, <1>3, <1>4 DEF StoreNext

\* No transaction turns a row that was finished, acknowledged or replayed into
\* work again.
THEOREM SettledTheorem == StoreSpec => SettledStaysSettled
<1>1. ASSUME StoreInv, StoreNext, NEW k \in RowIds, Present(k), ~Live(k)
      PROVE  ~Live(k)'
  <2>1. ASSUME NEW s \in Subs, DeleteSubscription(s), logs[k].sub = s PROVE ~Live(k)'
    BY Zenon, <2>1 DEF DeleteSubscription, NoRow
  <2>. QED
    BY Zenon, <1>1, <2>1, StepOnRow DEF Untouched
<1>2. StoreInv /\ [StoreNext]_storeVars =>
          [\A i \in RowIds : Present(i) /\ ~Live(i) => ~Live(i)']_storeVars
  BY <1>1
<1>. QED
  BY <1>2, StoreInvariant, PTL DEF StoreSpec, SettledStaysSettled

\* A live row disappears only with its subscription.
THEOREM CascadeTheorem == StoreSpec => WorkOnlyCascades
<1>1. ASSUME StoreInv, StoreNext, NEW k \in RowIds, Live(k), ~Present(k)'
      PROVE  subs[logs[k].sub].state = "live" /\ subs'[logs[k].sub].state = "gone"
  <2>1. ASSUME NEW s \in Subs, DeleteSubscription(s)
        PROVE  subs[s].state = "live" /\ subs'[s].state = "gone"
    BY Zenon, <1>1, <2>1 DEF DeleteSubscription, StoreInv, StoreTypeOK
  <2>. QED
    BY Zenon, <1>1, <2>1, StepOnRow DEF Untouched
<1>2. StoreInv /\ [StoreNext]_storeVars =>
          [\A i \in RowIds : Live(i) /\ ~Present(i)' =>
              subs[logs[i].sub].state = "live" /\ subs'[logs[i].sub].state = "gone"]_storeVars
  BY ZenonT(40), <1>1
<1>. QED
  BY <1>2, StoreInvariant, PTL DEF StoreSpec, WorkOnlyCascades

-----------------------------------------------------------------------------
(* The store implements what it promises of a webhook *)

\* Row n is the last one inserted for webhook w and not yet deleted.
Newest(w, n) == n \in RowsOf(w) /\ \A j \in RowsOf(w) : j <= n

\* A webhook that has rows has a last one.
HasNewest == \A w \in Webhooks : RowsOf(w) # {} => \E n \in RowIds : Newest(w, n)

\* handleWebhookStatus reports a webhook by its last row.
NewestIsReported ==
    \A w, n : Newest(w, n) => WebhookStatus(w) = Reported(logs[n])

\* The row handleWebhookStatus reports is the last one inserted.
LEMMA ReportsNewest == StoreInv => NewestIsReported
<1>. SUFFICES ASSUME NEW w, NEW n, StoreInv, Newest(w, n)
              PROVE  WebhookStatus(w) = Reported(logs[n])
  BY Zenon DEF NewestIsReported
<1>. DEFINE R == RowsOf(w)
<1>0. n \in R /\ R \subseteq RowIds /\ RowIds \subseteq Nat /\ \A j \in R : j <= n
  BY DEF Newest, RowsOf, RowIds
<1>1. \A i, j \in R : i < j => Precedes(i, j)
  BY DEF RowsOf, StoreInv, NewestRowIsCurrent, SameWebhook
<1>2. \A j \in R \ {n} : Precedes(j, n)
  <2>0. \A j \in R : j \in Nat
    BY Zenon, <1>0
  <2>1. \A j \in R : j # n => j < n
    BY <1>0, <2>0
  <2>. QED
    BY <1>0, <1>1, <2>1
<1>3. \A i, j \in R : ~(Precedes(i, j) /\ Precedes(j, i))
  <2>1. \A i \in R : logs[i].replay \in Nat /\ logs[i].attempt \in Nat
    BY Zenon, <1>0 DEF StoreInv, StoreTypeOK, Row
  <2>. QED
    BY <2>1 DEF Precedes
<1>4. ASSUME NEW i \in R, \A j \in R \ {i} : Precedes(j, i) PROVE i = n
  BY <1>0, <1>2, <1>3, <1>4
<1>5. Current(R) = n
  <2>. HIDE DEF R
  <2>. QED
    BY Zenon, <1>0, <1>2, <1>4 DEF Current
<1>. QED
  BY <1>0, <1>5 DEF WebhookStatus

\* The same of the state after a step.
LEMMA ReportsNewestNext ==
    ASSUME StoreInv', NEW w, NEW n, Newest(w, n)'
    PROVE  WebhookStatus(w)' = Reported(logs[n])'
<1>1. (StoreInv => NewestIsReported)'
  BY ReportsNewest, PTL
<1>. QED
  BY <1>1 DEF NewestIsReported

\* Row i stays, in or out of the table, and of the same webhook.
SameRow(i) == logs'[i].webhook = logs[i].webhook /\ (Present(i)' <=> Present(i))

\* What a step may do to the rows of w: nothing, drop them all, drop rows but not
\* the last, or put the next row behind them.
LEMMA NewestMoves ==
    ASSUME StoreInv', NEW w, RowsOf(w) # {} => \E n \in RowIds : Newest(w, n),
           \/ RowsOf(w)' = RowsOf(w)
           \/ RowsOf(w)' = {}
           \/ RowsOf(w)' \subseteq RowsOf(w) /\ \E n \in RowsOf(w)' : Newest(w, n)
           \/ nextId \in RowsOf(w)' /\ nextId' = nextId + 1
    PROVE  RowsOf(w)' # {} => \E n \in RowIds : Newest(w, n)'
<1>1. CASE RowsOf(w)' = RowsOf(w)
  BY <1>1 DEF Newest
<1>2. CASE RowsOf(w)' \subseteq RowsOf(w) /\ \E n \in RowsOf(w)' : Newest(w, n)
  <2>1. PICK n \in RowsOf(w)' : Newest(w, n)
    BY ZenonT(40), <1>2
  <2>2. n \in RowIds
    BY <2>1 DEF Newest, RowsOf
  <2>. QED
    BY Zenon, <1>2, <2>1, <2>2 DEF Newest
<1>3. CASE nextId \in RowsOf(w)' /\ nextId' = nextId + 1
  <2>1. nextId \in RowIds /\ RowIds \subseteq Nat
    BY <1>3 DEF RowsOf, RowIds
  <2>2. \A i \in RowIds : i >= nextId' => ~Present(i)'
    BY <2>1, <1>3 DEF StoreInv, Shape, NoRow
  <2>3. \A i \in RowsOf(w)' : i \in RowIds /\ Present(i)'
    BY Zenon DEF RowsOf
  <2>4. \A i \in RowsOf(w)' : i <= nextId
    BY <1>3, <2>1, <2>2, <2>3
  <2>. QED
    BY Zenon, <1>3, <2>1, <2>4 DEF Newest
<1>. QED
  BY Zenon, <1>1, <1>2, <1>3

\* A transaction that writes rows in place, and inserts at most the next one.
LEMMA RowsStay ==
    ASSUME StoreInv, StoreInv', HasNewest, NEW m \in Nat, m = nextId,
           \A i \in RowIds : i # m => SameRow(i),
           m \in RowIds => SameRow(m) \/ (Present(m)' /\ nextId' = m + 1)
    PROVE  HasNewest'
<1>. SUFFICES ASSUME NEW w \in Webhooks
              PROVE  RowsOf(w)' # {} => \E n \in RowIds : Newest(w, n)'
  BY Zenon DEF HasNewest
<1>0. m \in RowIds => logs[m] = NoRow
  BY DEF StoreInv, StoreTypeOK, Shape, RowIds
<1>1. m \in RowIds => ~Present(m)
  BY <1>0 DEF NoRow
<1>2. CASE m \in RowsOf(w)' /\ nextId' = m + 1
  BY Zenon, <1>2, NewestMoves DEF HasNewest
<1>3. CASE ~(m \in RowsOf(w)' /\ nextId' = m + 1)
  <2>1. ASSUME NEW i \in RowIds PROVE i \in RowsOf(w)' <=> i \in RowsOf(w)
    <3>1. CASE SameRow(i)
      BY Zenon, <3>1 DEF SameRow, RowsOf
    <3>2. CASE i = m /\ nextId' = m + 1
      BY Zenon, <1>1, <1>3, <3>2 DEF RowsOf
    <3>. QED
      BY Zenon, <3>1, <3>2
  <2>2. RowsOf(w)' = RowsOf(w)
    BY <2>1 DEF RowsOf
  <2>. QED
    BY Zenon, <2>2, NewestMoves DEF HasNewest
<1>. QED
  BY Zenon, <1>2, <1>3

\* Retention takes the rows of w before the horizon that are not live, and no row
\* of w before its last is live: it takes the last only with all others.
LEMMA ExpiryKeepsNewest ==
    ASSUME StoreInv, NEW h \in 1..nextId, DeleteExpired(h), NEW w \in Webhooks,
           NEW n \in RowIds, Newest(w, n)
    PROVE  /\ RowsOf(w)' \subseteq RowsOf(w)
           /\ n \in Expired(h) => RowsOf(w)' = {}
           /\ n \notin Expired(h) => n \in RowsOf(w)' /\ logs'[n] = logs[n]
<1>0. RowIds \subseteq Nat /\ h \in Nat /\ w # None
  BY StoreAssumption DEF StoreInv, StoreTypeOK, RowIds
<1>1. \A i \in RowIds : logs'[i] = IF i \in Expired(h) THEN NoRow ELSE logs[i]
  BY Zenon DEF DeleteExpired
<1>2. NoRow.webhook # w
  BY Zenon, <1>0 DEF NoRow
<1>3. \A i \in RowIds : i \in RowsOf(w)' <=> i \in RowsOf(w) /\ i \notin Expired(h)
  <2>. SUFFICES ASSUME NEW i \in RowIds
                PROVE  i \in RowsOf(w)' <=> i \in RowsOf(w) /\ i \notin Expired(h)
    OBVIOUS
  <2>1. CASE i \in Expired(h)
    BY Zenon, <1>1, <1>2, <2>1 DEF RowsOf
  <2>2. CASE i \notin Expired(h)
    BY Zenon, <1>1, <2>2 DEF RowsOf
  <2>. QED
    BY ZenonT(40), <2>1, <2>2
<1>4. RowsOf(w)' \subseteq RowsOf(w)
  BY <1>3 DEF RowsOf
<1>5. ASSUME n \in Expired(h), NEW i \in RowsOf(w) PROVE i \in Expired(h)
  <2>1. i \in RowIds /\ Present(i) /\ logs[i].webhook = w /\ n \in RowsOf(w) /\ i <= n
    BY Zenon DEF Newest, RowsOf
  <2>2. n < h /\ Present(n) /\ ~Live(n) /\ logs[n].webhook = w
    BY Zenon, <1>5, <2>1 DEF Expired, RowsOf
  <2>3. CASE i < n
    <3>1. ~Live(i)
      BY Zenon, <2>1, <2>2, <2>3 DEF StoreInv, NewestRowIsCurrent, SameWebhook
    <3>2. i < h
      BY <1>0, <2>1, <2>2
    <3>. QED
      BY Zenon, <2>1, <3>1, <3>2 DEF Expired
  <2>4. i \in Nat /\ n \in Nat
    BY Zenon, <1>0, <2>1
  <2>5. i < n \/ i = n
    BY <2>1, <2>4
  <2>. QED
    BY Zenon, <1>5, <2>3, <2>5
<1>6. RowsOf(w) \subseteq RowIds /\ RowsOf(w)' \subseteq RowIds /\ n \in RowsOf(w)
  BY Zenon DEF RowsOf, Newest
<1>. QED
  BY Zenon, <1>1, <1>3, <1>4, <1>5, <1>6

\* The cascade takes all rows of a webhook or none: they are of one subscription.
LEMMA CascadeKeepsRows ==
    ASSUME StoreInv, NEW s \in Subs, DeleteSubscription(s), NEW w \in Webhooks, NEW n \in RowsOf(w)
    PROVE  IF logs[n].sub = s THEN RowsOf(w)' = {} ELSE RowsOf(w)' = RowsOf(w) /\ logs'[n] = logs[n]
<1>1. \A i \in RowIds : logs'[i] = IF logs[i].sub = s THEN NoRow ELSE logs[i]
  BY SMTT(30) DEF DeleteSubscription
<1>2. \A i \in RowsOf(w) : i \in RowIds /\ logs[i].sub = logs[n].sub
  BY Zenon DEF RowsOf, StoreInv, Shape, SameWebhook
<1>3. NoRow.webhook # w
  BY StoreAssumption DEF NoRow
<1>4. \A i \in RowIds : i \in RowsOf(w)' => logs'[i] = logs[i] /\ i \in RowsOf(w)
  BY Zenon, <1>1, <1>3 DEF RowsOf
<1>5. RowsOf(w)' \subseteq RowIds
  BY DEF RowsOf
<1>6. CASE logs[n].sub = s
  <2>1. \A i \in RowsOf(w) : logs'[i] = NoRow
    BY Zenon, <1>1, <1>2, <1>6
  <2>2. \A i \in RowsOf(w) : i \notin RowsOf(w)'
    BY Zenon, <1>3, <2>1 DEF RowsOf
  <2>. QED
    BY Zenon, <1>4, <1>5, <1>6, <2>2
<1>7. CASE logs[n].sub # s
  <2>1. \A i \in RowsOf(w) : logs'[i] = logs[i]
    BY Zenon, <1>1, <1>2, <1>7
  <2>2. \A i \in RowsOf(w) : i \in RowsOf(w)'
    BY Zenon, <1>2, <2>1 DEF RowsOf
  <2>. QED
    BY Zenon, <1>4, <1>5, <1>7, <2>1, <2>2
<1>. QED
  BY Zenon, <1>6, <1>7

\* Every transaction leaves a webhook that has rows with a last one.
LEMMA NewestStep == StoreInv /\ StoreInv' /\ HasNewest /\ [StoreNext]_storeVars => HasNewest'
<1>. SUFFICES ASSUME StoreInv, StoreInv', HasNewest, [StoreNext]_storeVars PROVE HasNewest'
  BY Zenon
<1>0. logs \in [RowIds -> Row]
  BY Zenon DEF StoreInv, StoreTypeOK
<1>m. PICK m \in Nat : m = nextId
  BY DEF StoreInv, StoreTypeOK
<1>1. ASSUME NEW i \in RowIds, RowStep(i) PROVE HasNewest'
  <2>1. CASE ClaimPending(i) \/ RescheduleSamePending(i) \/ Elapse(i)
    <3>1. \A j \in RowIds : SameRow(j)
      BY <1>0, <2>1 DEF ClaimPending, RescheduleSamePending, Elapse, SameRow, Row
    <3>. QED
      BY Zenon, <1>m, <3>1, RowsStay
  <2>2. CASE MarkSuccess(i) \/ MarkDropped(i) \/ FinalizeFailure(i)
    <3>1. \A j \in RowIds : SameRow(j)
      BY SMTT(30), <1>0, <2>2 DEF MarkSuccess, MarkDropped, FinalizeFailure, SameRow, Row
    <3>. QED
      BY Zenon, <1>m, <3>1, RowsStay
  <2>3. CASE FailAndScheduleRetry(i)
    <3>1. nextId' = m + 1 /\ (m \in RowIds => Present(m)')
      BY <1>0, <1>m, <2>3 DEF FailAndScheduleRetry, PendingRow
    <3>2. \A j \in RowIds : j # m => SameRow(j)
      BY ZenonT(40), <1>0, <1>m, <2>3 DEF FailAndScheduleRetry, SameRow, Row
    <3>. QED
      BY Zenon, <1>m, <3>1, <3>2, RowsStay
  <2>. QED
    BY Zenon, <1>1, <2>1, <2>2, <2>3 DEF RowStep, HandleFailure
<1>2. ASSUME NEW s \in Subs, NEW w \in Webhooks, WebhookStep(s, w) PROVE HasNewest'
  <2>1. ASSUME NEW k \in Keys \cup {None}, IngestPending(s, k, w) PROVE HasNewest'
    <3>1. nextId' = m + 1 /\ (m \in RowIds => Present(m)')
      BY ZenonT(40), <1>0, <1>m, <2>1 DEF IngestPending, PendingRow
    <3>2. \A j \in RowIds : j # m => SameRow(j)
      BY <1>0, <1>m, <2>1 DEF IngestPending, SameRow
    <3>. QED
      BY Zenon, <1>m, <3>1, <3>2, RowsStay
  <2>2. CASE InsertLeaseLess(s, w)
    <3>1. nextId' = m + 1 /\ (m \in RowIds => Present(m)')
      BY Zenon, <1>0, <1>m, <2>2 DEF InsertLeaseLess, PendingRow
    <3>2. \A j \in RowIds : j # m => SameRow(j)
      BY <1>0, <1>m, <2>2 DEF InsertLeaseLess, SameRow
    <3>. QED
      BY Zenon, <1>m, <3>1, <3>2, RowsStay
  <2>3. ASSUME NEW c \in RowIds, AckDLQ(s, w, c) PROVE HasNewest'
    <3>1. \A j \in RowIds : SameRow(j)
      BY <1>0, <2>3 DEF AckDLQ, ClearFlag, SameRow, Row
    <3>. QED
      BY Zenon, <1>m, <3>1, RowsStay
  <2>4. ASSUME NEW c \in RowIds, ReplayDLQ(s, w, c) PROVE HasNewest'
    <3>1. nextId' = m + 1 /\ (m \in RowIds => Present(m)')
      BY <1>0, <1>m, <2>4 DEF ReplayDLQ, ClearFlag, PendingRow
    <3>2. \A j \in RowIds : j # m => SameRow(j)
      BY Zenon, <1>0, <1>m, <2>4 DEF ReplayDLQ, ClearFlag, SameRow, Row
    <3>. QED
      BY Zenon, <1>m, <3>1, <3>2, RowsStay
  <2>. QED
    BY Zenon, <1>2, <2>1, <2>2, <2>3, <2>4 DEF WebhookStep
<1>3. ASSUME logs' = logs PROVE HasNewest'
  <2>1. \A j \in RowIds : SameRow(j)
    BY <1>3 DEF SameRow
  <2>. QED
    BY Zenon, <1>m, <2>1, RowsStay
<1>4. ASSUME NEW s \in Subs, DeleteSubscription(s) PROVE HasNewest'
  <2>. SUFFICES ASSUME NEW w \in Webhooks
                PROVE  RowsOf(w)' # {} => \E n \in RowIds : Newest(w, n)'
    BY Zenon DEF HasNewest
  <2>1. CASE RowsOf(w) = {}
    <3>1. \A i \in RowIds : logs'[i] = logs[i] \/ logs'[i] = NoRow
      BY ZenonT(40), <1>4 DEF DeleteSubscription
    <3>2. RowsOf(w)' = {}
      BY <2>1, <3>1 DEF RowsOf, NoRow
    <3>. QED
      BY Zenon, <3>2
  <2>2. ASSUME NEW n \in RowsOf(w) PROVE RowsOf(w)' = {} \/ RowsOf(w)' = RowsOf(w)
    BY Zenon, <1>4, <2>2, CascadeKeepsRows
  <2>. QED
    BY Zenon, <2>1, <2>2, NewestMoves DEF HasNewest
<1>5. ASSUME NEW h \in 1..nextId, DeleteExpired(h) PROVE HasNewest'
  <2>. SUFFICES ASSUME NEW w \in Webhooks
                PROVE  RowsOf(w)' # {} => \E n \in RowIds : Newest(w, n)'
    BY DEF HasNewest
  <2>1. CASE RowsOf(w) = {}
    <3>1. \A i \in RowIds : logs'[i] = logs[i] \/ logs'[i] = NoRow
      BY ZenonT(40), <1>5 DEF DeleteExpired
    <3>2. RowsOf(w)' = {}
      BY <2>1, <3>1 DEF RowsOf, NoRow
    <3>. QED
      BY Zenon, <3>2
  <2>2. CASE RowsOf(w) # {}
    <3>1. PICK n \in RowIds : Newest(w, n)
      BY Zenon, <2>2 DEF HasNewest
    <3>2. \/ RowsOf(w)' = {}
          \/ RowsOf(w)' \subseteq RowsOf(w) /\ n \in RowsOf(w)'
      BY Zenon, <1>5, <3>1, ExpiryKeepsNewest
    <3>. QED
      BY Zenon, <3>1, <3>2, NewestMoves
  <2>. QED
    BY Zenon, <2>1, <2>2
<1>6. ASSUME SweepStep PROVE HasNewest'
  <2>1. CASE RearmLeaseLessPending
    <3>1. \A j \in RowIds : SameRow(j)
      BY <1>0, <2>1 DEF RearmLeaseLessPending, SameRow, Row
    <3>. QED
      BY Zenon, <1>m, <3>1, RowsStay
  <2>2. ASSUME NEW D \in SUBSET RowIds, ForceAckOldDLQ(D) PROVE HasNewest'
    <3>1. \A j \in RowIds : SameRow(j)
      BY <1>0, <2>2 DEF ForceAckOldDLQ, ClearFlag, SameRow, Row
    <3>. QED
      BY Zenon, <1>m, <3>1, RowsStay
  <2>. QED
    BY Zenon, <1>3, <1>5, <1>6, <2>1, <2>2 DEF SweepStep, PruneIdempotency
<1>. QED
  BY Zenon, <1>1, <1>2, <1>3, <1>4, <1>6 DEF StoreNext, SubscriptionStep, CreateSubscription,
     UpdateSubscription, storeVars

\* A webhook that has rows always has a last one, whatever retention has taken.
LEMMA NewestInvariant == StoreSpec => [](StoreInv /\ HasNewest)
<1>1. StoreInit => HasNewest
  BY DEF StoreInit, HasNewest, RowsOf, NoRow
<1>. QED
  BY <1>1, StoreInvariant, NewestStep, PTL DEF StoreSpec

\* What handleWebhookStatus reads of row i stays as it is.
SameReport(i) ==
    /\ logs'[i].status = logs[i].status /\ logs'[i].inDLQ = logs[i].inDLQ
    /\ logs'[i].webhook = logs[i].webhook /\ logs'[i].sub = logs[i].sub
    /\ logs'[i].attempt = logs[i].attempt /\ logs'[i].replay = logs[i].replay

\* A webhook none of whose rows changes visibly keeps its status.
LEMMA StatusKept ==
    ASSUME StoreInv, StoreInv', HasNewest, NEW w \in Webhooks, w \in minted' <=> w \in minted,
           \A i \in RowIds : logs[i].webhook = w \/ logs'[i].webhook = w => SameReport(i)
    PROVE  WebhookStatus(w)' = WebhookStatus(w)
<1>1. RowsOf(w)' = RowsOf(w)
  BY Zenon DEF RowsOf, SameReport
<1>2. CASE RowsOf(w) = {}
  BY Zenon, <1>1, <1>2 DEF WebhookStatus, Unreported
<1>3. CASE RowsOf(w) # {}
  <2>1. PICK n \in RowIds : Newest(w, n)
    BY Zenon, <1>3 DEF HasNewest
  <2>2. Newest(w, n)'
    BY Zenon, <1>1, <2>1 DEF Newest
  <2>3. WebhookStatus(w) = Reported(logs[n]) /\ WebhookStatus(w)' = Reported(logs[n])'
    BY Zenon, <2>1, <2>2, ReportsNewest, ReportsNewestNext DEF NewestIsReported
  <2>4. SameReport(n)
    BY Zenon, <2>1 DEF Newest, RowsOf
  <2>. QED
    BY ZenonT(40), <2>3, <2>4 DEF Reported, PhaseOf, SameReport
<1>. QED
  BY Zenon, <1>2, <1>3

\* A live row is the one reported.
LEMMA LiveIsReported ==
    ASSUME StoreInv, NEW n \in RowIds, Live(n), NEW w, logs[n].webhook = w
    PROVE  Newest(w, n) /\ WebhookStatus(w) = Reported(logs[n])
<1>1. Present(n) /\ n \in Nat
  BY DEF StoreInv, BudgetRespected, RowIds
<1>2. \A j \in RowsOf(w) : j <= n
  <2>. SUFFICES ASSUME NEW j \in RowsOf(w), j # n PROVE j <= n
    BY <1>1
  <2>1. j \in RowIds /\ Present(j) /\ logs[j].webhook = w /\ j \in Nat
    BY DEF RowsOf, RowIds
  <2>2. j < n
    BY Zenon, <2>1, LiveIsNewest
  <2>. QED
    BY <1>1, <2>1, <2>2
<1>3. Newest(w, n)
  BY Zenon, <1>1, <1>2 DEF Newest, RowsOf
<1>. QED
  BY Zenon, <1>3, ReportsNewest DEF NewestIsReported

\* A live row that changes in place is still the one reported.
LEMMA LiveChanges ==
    ASSUME StoreInv, StoreInv', HasNewest, NEW n \in RowIds, Live(n), NEW w, logs[n].webhook = w,
           Present(n)', logs'[n].webhook = w,
           \A i \in RowIds \ {n} : logs'[i] = logs[i]
    PROVE  WebhookStatus(w) = Reported(logs[n]) /\ WebhookStatus(w)' = Reported(logs[n])'
<1>1. Newest(w, n) /\ WebhookStatus(w) = Reported(logs[n])
  BY Zenon, LiveIsReported
<1>2. RowsOf(w)' = RowsOf(w)
  BY Zenon, <1>1 DEF RowsOf, Newest
<1>3. Newest(w, n)'
  BY Zenon, <1>1, <1>2 DEF Newest
<1>. QED
  BY Zenon, <1>1, <1>3, ReportsNewestNext

\* A blank row is absent and names no webhook.
LEMMA BlankFields == NoRow.status = "absent" /\ NoRow.webhook = None
BY DEF NoRow

\* The row the next insert takes is blank.
LEMMA NextIsBlank ==
    ASSUME StoreInv, nextId \in RowIds
    PROVE  logs[nextId] = NoRow
<1>1. nextId >= nextId
  BY DEF RowIds
<1>. QED
  BY Zenon, <1>1 DEF StoreInv, Shape

\* A row inserted for w is the one reported from then on.
LEMMA InsertedIsReported ==
    ASSUME StoreInv', NEW n \in RowIds, Present(n)', NEW w, logs'[n].webhook = w,
           nextId' = n + 1
    PROVE  WebhookStatus(w)' = Reported(logs[n])'
<1>1. \A i \in RowIds : i > n => ~Present(i)'
  BY DEF StoreInv, Shape, RowIds, NoRow
<1>2. Newest(w, n)'
  BY <1>1 DEF Newest, RowsOf, RowIds
<1>. QED
  BY Zenon, <1>2, ReportsNewestNext

\* Subscriptions keep their life-cycle state.
SameOwners == \A s \in Subs : subs'[s].state = subs[s].state

\* No webhook but w changes its status.
OnlyMoves(w) == \A x \in Webhooks \ {w} : WebhookStatus(x)' = WebhookStatus(x)

\* One webhook moves from status u to status v.
Moves(w, u, v) ==
    /\ SameOwners
    /\ OnlyMoves(w)
    /\ WebhookStatus(w) = u
    /\ WebhookStatus(w)' = v

\* Where only one webhook moves, the report of every other stays.
LEMMA OthersKept ==
    ASSUME StoreInv, StoreInv', HasNewest, NEW w \in Webhooks,
           minted' \in {minted, minted \cup {w}},
           \A i \in RowIds : \/ SameReport(i)
                            \/ /\ logs[i].webhook \in {w, None}
                               /\ logs'[i].webhook \in {w, None}
    PROVE  OnlyMoves(w)
<1>. SUFFICES ASSUME NEW x \in Webhooks \ {w} PROVE WebhookStatus(x)' = WebhookStatus(x)
  BY Zenon DEF OnlyMoves
<1>1. x # None /\ (x \in minted' <=> x \in minted)
  BY Zenon, StoreAssumption
<1>2. \A i \in RowIds : logs[i].webhook = x \/ logs'[i].webhook = x => SameReport(i)
  BY <1>1
<1>. QED
  BY Zenon, <1>1, <1>2, StatusKept

\* A move of one webhook that the outcome allows is a step of it.
LEMMA MoveIsStep ==
    ASSUME NEW w \in Webhooks, NEW u, NEW v, Moves(w, u, v)
    PROVE  /\ [x \in Webhooks |-> WebhookStatus(x)]' =
                [[x \in Webhooks |-> WebhookStatus(x)] EXCEPT ![w] = v]
           /\ {s \in Subs : subs[s].state = "gone"}' = {s \in Subs : subs[s].state = "gone"}
<1>1. {s \in Subs : subs[s].state = "gone"}' = {s \in Subs : subs[s].state = "gone"}
  BY DEF Moves, SameOwners
<1>. QED
  BY Zenon, <1>1 DEF Moves, OnlyMoves

\* A webhook that moves to another phase does so in the table of statuses.
LEMMA MoveOfPhase ==
    ASSUME NEW w \in Webhooks, NEW u, NEW c, Moves(w, u, [u EXCEPT !.phase = c])
    PROVE  /\ [x \in Webhooks |-> WebhookStatus(x)]' =
                [[x \in Webhooks |-> WebhookStatus(x)] EXCEPT ![w].phase = c]
           /\ {s \in Subs : subs[s].state = "gone"}' = {s \in Subs : subs[s].state = "gone"}
           /\ [x \in Webhooks |-> WebhookStatus(x)][w] = u
<1>1. [x \in Webhooks |-> WebhookStatus(x)][w] = u
  BY Zenon DEF Moves
<1>2. PICK f : f = [x \in Webhooks |-> WebhookStatus(x)]
  BY Zenon
<1>3. [f EXCEPT ![w].phase = c] = [f EXCEPT ![w] = [u EXCEPT !.phase = c]]
  BY <1>1, <1>2
<1>4. PICK v : v = [u EXCEPT !.phase = c]
  BY Zenon
<1>5. Moves(w, u, v)
  BY Zenon, <1>4
<1>6. /\ [x \in Webhooks |-> WebhookStatus(x)]' = [f EXCEPT ![w] = v]
      /\ {s \in Subs : subs[s].state = "gone"}' = {s \in Subs : subs[s].state = "gone"}
  BY Zenon, <1>2, <1>5, MoveIsStep
<1>. QED
  BY Zenon, <1>1, <1>2, <1>3, <1>4, <1>6

\* A pending row that is settled in place moves its webhook only.
LEMMA PendingSettles ==
    ASSUME StoreInv, StoreInv', HasNewest, NEW i \in RowIds, Pending(i), NEW w, logs[i].webhook = w,
           logs'[i].webhook = w, Present(i)', \A j \in RowIds \ {i} : logs'[j] = logs[j],
           minted' = minted, SameOwners
    PROVE  /\ w \in Webhooks
           /\ Moves(w, Reported(logs[i]), Reported(logs[i])')
           /\ Reported(logs[i]).phase = "pending"
<1>1. w \in Webhooks
  BY Zenon, PendingRowFacts
<1>2. WebhookStatus(w) = Reported(logs[i]) /\ WebhookStatus(w)' = Reported(logs[i])'
  BY Zenon, LiveChanges
<1>3. OnlyMoves(w)
  BY Zenon, <1>1, OthersKept DEF SameReport
<1>. QED
  BY Zenon, <1>1, <1>2, <1>3 DEF Moves, Reported, PhaseOf

\* MarkSuccess delivers the webhook.
LEMMA ReportedMarkSuccess ==
    ASSUME StoreInv, StoreInv', HasNewest, NEW i \in RowIds, MarkSuccess(i)
    PROVE  Outcome!OutcomeNext
<1>. DEFINE u == Reported(logs[i])
            v == [u EXCEPT !.phase = "delivered"]
<1>0. logs \in [RowIds -> Row] /\ subs \in [Subs -> Subscription]
  BY DEF StoreInv, StoreTypeOK
<1>1. PICK w : w = logs[i].webhook
  OBVIOUS
<1>2. /\ logs'[i].status = "success"
      /\ logs'[i].webhook = w /\ logs'[i].sub = logs[i].sub
      /\ logs'[i].attempt = logs[i].attempt /\ logs'[i].replay = logs[i].replay
      /\ \A j \in RowIds \ {i} : logs'[j] = logs[j]
  BY ZenonT(40), <1>0, <1>1 DEF MarkSuccess, Row
<1>3. SameOwners
  BY <1>0, PendingRowFacts DEF MarkSuccess, SameOwners, Subscription
<1>4. w \in Webhooks /\ Moves(w, u, Reported(logs[i])') /\ u.phase = "pending"
  BY Zenon, <1>1, <1>2, <1>3, PendingSettles DEF MarkSuccess
<1>5. Reported(logs[i])' = v
  BY <1>2 DEF Reported, PhaseOf
<1>6. Outcome!Deliver(w)
  <2>. HIDE DEF u
  <2>1. Moves(w, u, [u EXCEPT !.phase = "delivered"])
    BY Zenon, <1>4, <1>5
  <2>2. /\ [x \in Webhooks |-> WebhookStatus(x)]' =
              [[x \in Webhooks |-> WebhookStatus(x)] EXCEPT ![w].phase = "delivered"]
        /\ {s \in Subs : subs[s].state = "gone"}' = {s \in Subs : subs[s].state = "gone"}
        /\ [x \in Webhooks |-> WebhookStatus(x)][w] = u
    BY Zenon, <1>4, <2>1, MoveOfPhase
  <2>. QED
    BY Zenon, <1>4, <2>2 DEF Outcome!Deliver, Outcome!Phase
<1>. QED
  BY Zenon, <1>4, <1>6 DEF Outcome!OutcomeNext

\* MarkDropped closes it.
LEMMA ReportedMarkDropped ==
    ASSUME StoreInv, StoreInv', HasNewest, NEW i \in RowIds, MarkDropped(i)
    PROVE  Outcome!OutcomeNext
<1>. DEFINE u == Reported(logs[i])
            v == [u EXCEPT !.phase = "closed"]
<1>0. logs \in [RowIds -> Row]
  BY DEF StoreInv, StoreTypeOK
<1>1. PICK w : w = logs[i].webhook
  OBVIOUS
<1>2. /\ logs'[i].status = "final_failure" /\ logs'[i].inDLQ = FALSE
      /\ logs'[i].webhook = w /\ logs'[i].sub = logs[i].sub
      /\ logs'[i].attempt = logs[i].attempt /\ logs'[i].replay = logs[i].replay
      /\ \A j \in RowIds \ {i} : logs'[j] = logs[j]
  BY <1>0, <1>1 DEF MarkDropped, Row
<1>3. SameOwners
  BY DEF MarkDropped, SameOwners
<1>4. w \in Webhooks /\ Moves(w, u, Reported(logs[i])') /\ u.phase = "pending"
  BY Zenon, <1>1, <1>2, <1>3, PendingSettles DEF MarkDropped
<1>5. Reported(logs[i])' = v
  BY <1>2 DEF Reported, PhaseOf
<1>6. Outcome!Drop(w)
  <2>. HIDE DEF u
  <2>1. Moves(w, u, [u EXCEPT !.phase = "closed"])
    BY Zenon, <1>4, <1>5
  <2>2. /\ [x \in Webhooks |-> WebhookStatus(x)]' =
              [[x \in Webhooks |-> WebhookStatus(x)] EXCEPT ![w].phase = "closed"]
        /\ {s \in Subs : subs[s].state = "gone"}' = {s \in Subs : subs[s].state = "gone"}
        /\ [x \in Webhooks |-> WebhookStatus(x)][w] = u
    BY Zenon, <1>4, <2>1, MoveOfPhase
  <2>. QED
    BY Zenon, <1>4, <2>2 DEF Outcome!Drop, Outcome!Phase
<1>. QED
  BY Zenon, <1>4, <1>6 DEF Outcome!OutcomeNext

\* The last attempt failing makes it a dead letter.
LEMMA ReportedFinalizeFailure ==
    ASSUME StoreInv, StoreInv', HasNewest, NEW i \in RowIds, FinalizeFailure(i),
           logs[i].attempt >= MaxRetryAttempts
    PROVE  Outcome!OutcomeNext
<1>. DEFINE u == Reported(logs[i])
            v == [u EXCEPT !.phase = "dead"]
<1>0. logs \in [RowIds -> Row] /\ subs \in [Subs -> Subscription]
  BY Zenon DEF StoreInv, StoreTypeOK
<1>1. PICK w : w = logs[i].webhook
  BY Zenon
<1>2. /\ logs'[i].status = "final_failure" /\ logs'[i].inDLQ = TRUE
      /\ logs'[i].webhook = w /\ logs'[i].sub = logs[i].sub
      /\ logs'[i].attempt = logs[i].attempt /\ logs'[i].replay = logs[i].replay
      /\ \A j \in RowIds \ {i} : logs'[j] = logs[j]
  BY ZenonT(40), <1>0, <1>1 DEF FinalizeFailure, Row
<1>3. SameOwners
  BY <1>0, PendingRowFacts DEF FinalizeFailure, SameOwners, Subscription
<1>4. w \in Webhooks /\ Moves(w, u, Reported(logs[i])') /\ u.phase = "pending"
  BY Zenon, <1>1, <1>2, <1>3, PendingSettles DEF FinalizeFailure
<1>5. Reported(logs[i])' = v
  BY <1>2 DEF Reported, PhaseOf
<1>6. u.attempt = MaxRetryAttempts
  <2>1. logs[i].attempt \in 1..MaxRetryAttempts
    BY PendingRowFacts DEF FinalizeFailure
  <2>. QED
    BY <2>1, StoreAssumption DEF Reported
<1>7. Outcome!DeadLetter(w)
  <2>. HIDE DEF u
  <2>1. Moves(w, u, [u EXCEPT !.phase = "dead"])
    BY Zenon, <1>4, <1>5
  <2>2. /\ [x \in Webhooks |-> WebhookStatus(x)]' =
              [[x \in Webhooks |-> WebhookStatus(x)] EXCEPT ![w].phase = "dead"]
        /\ {s \in Subs : subs[s].state = "gone"}' = {s \in Subs : subs[s].state = "gone"}
        /\ [x \in Webhooks |-> WebhookStatus(x)][w] = u
    BY Zenon, <1>4, <2>1, MoveOfPhase
  <2>. QED
    BY Zenon, <1>4, <1>6, <2>2 DEF Outcome!DeadLetter, Outcome!Phase
<1>. QED
  BY Zenon, <1>4, <1>7 DEF Outcome!OutcomeNext

\* A failed attempt with budget left moves it to the next attempt.
LEMMA ReportedRetry ==
    ASSUME StoreInv, StoreInv', HasNewest, NEW i \in RowIds, FailAndScheduleRetry(i),
           logs[i].attempt < MaxRetryAttempts
    PROVE  Outcome!OutcomeNext
<1>. DEFINE u == Reported(logs[i])
            v == [u EXCEPT !.attempt = u.attempt + 1]
<1>0. logs \in [RowIds -> Row] /\ nextId \in RowIds
  BY DEF StoreInv, StoreTypeOK, FailAndScheduleRetry
<1>1. PICK w, n : w = logs[i].webhook /\ n = nextId
  BY Zenon
<1>2. logs[n] = NoRow /\ n # i
  BY Zenon, <1>0, <1>1, NextIsBlank, BlankFields DEF FailAndScheduleRetry
<1>3. /\ logs'[n] = PendingRow(w, logs[i].sub, logs[i].attempt + 1, logs[i].replay, "later")
      /\ logs'[i].webhook = w
      /\ \A j \in RowIds \ {i, n} : logs'[j] = logs[j]
  BY <1>0, <1>1, <1>2 DEF FailAndScheduleRetry, Row
<1>3a. /\ logs'[n].status = "pending" /\ logs'[n].webhook = w /\ logs'[n].sub = logs[i].sub
       /\ logs'[n].attempt = logs[i].attempt + 1 /\ logs'[n].replay = logs[i].replay
  <2>. DEFINE row == PendingRow(w, logs[i].sub, logs[i].attempt + 1, logs[i].replay, "later")
  <2>1. /\ row.status = "pending" /\ row.webhook = w /\ row.sub = logs[i].sub
        /\ row.attempt = logs[i].attempt + 1 /\ row.replay = logs[i].replay
    BY Zenon DEF PendingRow
  <2>. QED
    BY Zenon, <1>3, <2>1
<1>4. SameOwners /\ minted' = minted /\ nextId' = n + 1
  BY <1>1 DEF FailAndScheduleRetry, SameOwners
<1>5. w \in Webhooks /\ WebhookStatus(w) = u
  BY Zenon, <1>1, PendingRowFacts, LiveIsReported DEF FailAndScheduleRetry
<1>6. WebhookStatus(w)' = Reported(logs[n])'
  BY Zenon, <1>0, <1>1, <1>3a, <1>4, InsertedIsReported
<1>7. Reported(logs[n])' = v
  <2>1. PICK s, r, a : s = logs[i].sub /\ r = logs[i].replay /\ a = logs[i].attempt
    BY Zenon
  <2>2. u = [phase |-> "pending", sub |-> s, replay |-> r, attempt |-> a]
    BY Zenon, <2>1 DEF Reported, PhaseOf, FailAndScheduleRetry
  <2>3. Reported(logs[n])' = [phase |-> "pending", sub |-> s, replay |-> r, attempt |-> a + 1]
    BY Zenon, <1>3a, <2>1 DEF Reported, PhaseOf
  <2>. HIDE DEF u
  <2>4. v = [phase |-> "pending", sub |-> s, replay |-> r, attempt |-> a + 1]
    BY <2>2
  <2>. QED
    BY Zenon, <2>3, <2>4
<1>8. OnlyMoves(w)
  <2>1. \A j \in RowIds \ {i, n} : SameReport(j)
    BY Zenon, <1>3 DEF SameReport
  <2>2. /\ logs[i].webhook = w /\ logs'[i].webhook = w
        /\ logs[n].webhook = None /\ logs'[n].webhook = w
    BY Zenon, <1>1, <1>2, <1>3, <1>3a, BlankFields
  <2>. QED
    BY Zenon, <1>4, <1>5, <2>1, <2>2, OthersKept
<1>9. Moves(w, u, v)
  BY Zenon, <1>4, <1>5, <1>6, <1>7, <1>8 DEF Moves
<1>10. u.phase = "pending" /\ u.attempt < MaxRetryAttempts
  BY DEF FailAndScheduleRetry, Reported, PhaseOf
<1>11. Outcome!Retry(w)
  <2>. HIDE DEF u
  <2>. QED
    BY Zenon, <1>5, <1>9, <1>10, MoveIsStep DEF Outcome!Retry, Outcome!Phase
<1>. QED
  BY Zenon, <1>5, <1>11 DEF Outcome!OutcomeNext

\* A first row is an acceptance: ids are minted once, so no row of w is there.
LEMMA ReportedFirstRow ==
    ASSUME StoreInv, StoreInv', HasNewest, NEW s \in Subs, NEW w \in Webhooks \ minted, NEW d,
           subs[s].state = "live", nextId \in RowIds,
           logs' = [logs EXCEPT ![nextId] = PendingRow(w, s, 1, 0, d)],
           minted' = minted \cup {w}, nextId' = nextId + 1, subs' = subs
    PROVE  Outcome!OutcomeNext
<1>. DEFINE v == [phase |-> "pending", sub |-> s, replay |-> 0, attempt |-> 1]
<1>0. logs \in [RowIds -> Row]
  BY Zenon DEF StoreInv, StoreTypeOK
<1>1. PICK n : n = nextId
  BY Zenon
<1>2. logs[n] = NoRow /\ n \in RowIds
  BY Zenon, <1>0, <1>1, NextIsBlank
<1>3. /\ logs'[n] = PendingRow(w, s, 1, 0, d)
      /\ \A j \in RowIds \ {n} : logs'[j] = logs[j]
  BY Zenon, <1>0, <1>1
<1>3a. /\ logs'[n].status = "pending" /\ logs'[n].webhook = w /\ logs'[n].sub = s
       /\ logs'[n].attempt = 1 /\ logs'[n].replay = 0
  <2>. DEFINE row == PendingRow(w, s, 1, 0, d)
  <2>1. /\ row.status = "pending" /\ row.webhook = w /\ row.sub = s
        /\ row.attempt = 1 /\ row.replay = 0
    BY Zenon DEF PendingRow
  <2>. QED
    BY Zenon, <1>3, <2>1
<1>4. RowsOf(w) = {}
  BY ZenonT(40) DEF RowsOf, StoreInv, Shape
<1>5. WebhookStatus(w) = Outcome!Unknown
  BY Zenon, <1>4 DEF WebhookStatus, Unreported, Outcome!Unknown
<1>6. WebhookStatus(w)' = Reported(logs[n])'
  <2>1. Present(n)' /\ logs'[n].webhook = w /\ nextId' = n + 1
    BY Zenon, <1>1, <1>3a
  <2>. QED
    BY Zenon, <1>2, <2>1, InsertedIsReported
<1>7. Reported(logs[n])' = v
  BY Zenon, <1>3a DEF Reported, PhaseOf
<1>8. OnlyMoves(w)
  <2>1. \A j \in RowIds \ {n} : SameReport(j)
    BY Zenon, <1>3 DEF SameReport
  <2>2. logs[n].webhook = None /\ logs'[n].webhook = w
    BY Zenon, <1>2, <1>3a, BlankFields
  <2>. QED
    BY Zenon, <2>1, <2>2, OthersKept
<1>9. Moves(w, Outcome!Unknown, v)
  BY ZenonT(40), <1>5, <1>6, <1>7, <1>8 DEF Moves, SameOwners
<1>10. Outcome!Accept(w, s)
  <2>1. /\ [x \in Webhooks |-> WebhookStatus(x)]' =
              [[x \in Webhooks |-> WebhookStatus(x)] EXCEPT ![w] = v]
        /\ {t \in Subs : subs[t].state = "gone"}' = {t \in Subs : subs[t].state = "gone"}
    BY Zenon, <1>9, MoveIsStep
  <2>2. Outcome!Phase(w) = "unknown"
    <3>1. Outcome!Unknown.phase = "unknown"
      BY DEF Outcome!Unknown
    <3>. QED
      BY Zenon, <1>5, <3>1 DEF Outcome!Phase
  <2>3. s \notin {t \in Subs : subs[t].state = "gone"}
    BY Zenon
  <2>. QED
    BY Zenon, <2>1, <2>2, <2>3 DEF Outcome!Accept
<1>. QED
  BY Zenon, <1>10 DEF Outcome!OutcomeNext

\* ReplayDLQ restarts a dead letter: the row it inserts succeeds the flagged one.
LEMMA ReportedReplay ==
    ASSUME StoreInv, StoreInv', HasNewest, NEW s \in Subs, NEW w \in Webhooks, NEW c \in RowIds,
           ReplayDLQ(s, w, c)
    PROVE  Outcome!OutcomeNext
<1>. DEFINE u == Reported(logs[c])
            v == [u EXCEPT !.phase = "pending", !.replay = u.replay + 1, !.attempt = 1]
<1>0. logs \in [RowIds -> Row] /\ nextId \in RowIds
  BY DEF StoreInv, StoreTypeOK, ReplayDLQ
<1>1. PICK n : n = nextId
  BY Zenon
<1>2. logs[n] = NoRow /\ n \in RowIds
  BY Zenon, <1>0, <1>1, NextIsBlank
<1>3. logs[c].inDLQ /\ logs[c].sub = s /\ logs[c].webhook = w
  BY DEF ReplayDLQ, InDLQ
<1>4. /\ logs'[n] = PendingRow(w, s, 1, logs[c].replay + 1, "now")
      /\ \A j \in RowIds \ {n} :
            \/ logs'[j] = logs[j]
            \/ logs[j].webhook = w /\ logs'[j].webhook = w
  BY Zenon, <1>0, <1>1 DEF ReplayDLQ, ClearFlag, InDLQ, Row
<1>4a. /\ logs'[n].status = "pending" /\ logs'[n].webhook = w /\ logs'[n].sub = s
       /\ logs'[n].attempt = 1 /\ logs'[n].replay = logs[c].replay + 1
  <2>. DEFINE row == PendingRow(w, s, 1, logs[c].replay + 1, "now")
  <2>1. /\ row.status = "pending" /\ row.webhook = w /\ row.sub = s
        /\ row.attempt = 1 /\ row.replay = logs[c].replay + 1
    BY Zenon DEF PendingRow
  <2>. QED
    BY Zenon, <1>4, <2>1
<1>5. minted' = minted /\ SameOwners /\ nextId' = n + 1
  BY Zenon, <1>1 DEF ReplayDLQ, SameOwners
<1>6. WebhookStatus(w) = u
  BY Zenon, <1>3, LiveIsReported
<1>7. WebhookStatus(w)' = Reported(logs[n])'
  BY Zenon, <1>2, <1>4a, <1>5, InsertedIsReported
<1>8. Reported(logs[n])' = v
  <2>2. Reported(logs[n])' = [phase |-> "pending", sub |-> s, replay |-> logs[c].replay + 1,
                              attempt |-> 1]
    BY Zenon, <1>4a DEF Reported, PhaseOf
  <2>3. PICK p, r, a : p = PhaseOf(logs[c]) /\ r = logs[c].replay /\ a = logs[c].attempt
    BY Zenon
  <2>4. u = [phase |-> p, sub |-> s, replay |-> r, attempt |-> a] /\ r \in Nat
    BY Zenon, <1>0, <1>3, <2>3 DEF Reported, Row
  <2>5. PICK m : m = r + 1
    OBVIOUS
  <2>6. PICK x : x = [u EXCEPT !.phase = "pending"]
    BY Zenon
  <2>7. PICK y : y = [x EXCEPT !.replay = m]
    BY Zenon
  <2>8. x = [phase |-> "pending", sub |-> s, replay |-> r, attempt |-> a]
    BY <2>4, <2>6
  <2>9. y = [phase |-> "pending", sub |-> s, replay |-> m, attempt |-> a]
    BY <2>7, <2>8
  <2>10. [y EXCEPT !.attempt = 1] = [phase |-> "pending", sub |-> s, replay |-> m, attempt |-> 1]
    BY <2>9
  <2>11. u.replay = r
    BY Zenon, <2>3 DEF Reported
  <2>. QED
    BY Zenon, <2>2, <2>3, <2>5, <2>6, <2>7, <2>10, <2>11
<1>9. OnlyMoves(w)
  <2>1. logs[n].webhook = None /\ logs'[n].webhook = w
    BY Zenon, <1>2, <1>4a, BlankFields
  <2>. QED
    BY Zenon, <1>4, <1>5, <2>1, OthersKept DEF SameReport
<1>10. Moves(w, u, v)
  BY Zenon, <1>5, <1>6, <1>7, <1>8, <1>9 DEF Moves
<1>11. u.phase = "dead"
  BY ZenonT(40), <1>3 DEF StoreInv, BudgetRespected, Reported, PhaseOf
<1>12. Outcome!Replay(w)
  <2>. HIDE DEF u
  <2>. QED
    BY <1>6, <1>10, <1>11, MoveIsStep DEF Outcome!Replay, Outcome!Phase
<1>. QED
  BY ZenonT(40), <1>12 DEF Outcome!OutcomeNext

\* Acknowledging, or the age limit: the flagged rows D are closed.
LEMMA ReportedClose ==
    ASSUME StoreInv, StoreInv', HasNewest, NEW D \in SUBSET RowIds, \A i \in D : logs[i].inDLQ,
           logs' = ClearFlag(D), UNCHANGED <<subs, minted>>
    PROVE  Outcome!OutcomeNext
<1>. DEFINE W == {w \in Webhooks : \E i \in D : logs[i].webhook = w}
<1>0. logs \in [RowIds -> Row]
  BY DEF StoreInv, StoreTypeOK
<1>1. \A i \in RowIds : logs'[i] = IF i \in D THEN [logs[i] EXCEPT !.inDLQ = FALSE] ELSE logs[i]
  BY Zenon DEF ClearFlag
<1>2. ASSUME NEW w \in W
      PROVE  /\ WebhookStatus(w).phase = "dead"
             /\ WebhookStatus(w)' = [WebhookStatus(w) EXCEPT !.phase = "closed"]
  <2>1. PICK i \in D : logs[i].webhook = w
    BY Zenon
  <2>2. i \in RowIds /\ logs[i].inDLQ /\ logs[i].status = "final_failure"
    BY Zenon DEF StoreInv, BudgetRespected
  <2>3. Newest(w, i) /\ WebhookStatus(w) = Reported(logs[i])
    BY Zenon, <2>1, <2>2, LiveIsReported
  <2>4. \A j \in RowIds : /\ logs'[j].webhook = logs[j].webhook
                          /\ logs'[j].status = logs[j].status
    BY ZenonT(40), <1>0, <1>1 DEF Row
  <2>5. Newest(w, i)'
    BY Zenon, <2>3, <2>4 DEF Newest, RowsOf
  <2>6. WebhookStatus(w)' = Reported(logs[i])'
    BY Zenon, <2>5, ReportsNewestNext
  <2>7. logs[i] \in Row
    BY <1>0, <2>2
  <2>8. logs'[i] = [logs[i] EXCEPT !.inDLQ = FALSE]
    BY ZenonT(40), <1>1, <2>2
  <2>. QED
    BY <2>2, <2>3, <2>6, <2>7, <2>8 DEF Reported, PhaseOf, Row
<1>3. ASSUME NEW w \in Webhooks \ W PROVE WebhookStatus(w)' = WebhookStatus(w)
  <2>1. \A i \in RowIds : logs'[i].webhook = logs[i].webhook
    BY Zenon, <1>0, <1>1 DEF Row
  <2>2. \A i \in RowIds : logs[i].webhook = w => i \notin D
    OBVIOUS
  <2>3. \A i \in RowIds : logs[i].webhook = w => logs'[i] = logs[i]
    BY Zenon, <1>1, <2>2
  <2>. QED
    BY ZenonT(40), <2>1, <2>3, StatusKept DEF SameReport
<1>4. Outcome!Close(W)
  <2>. HIDE DEF W
  <2>1. W \subseteq Webhooks
    BY DEF W
  <2>2. [w \in Webhooks |-> WebhookStatus(w)]' =
            [w \in Webhooks |-> IF w \in W THEN [WebhookStatus(w) EXCEPT !.phase = "closed"]
                                           ELSE WebhookStatus(w)]
    BY <1>2, <1>3
  <2>3. \A w \in W : [x \in Webhooks |-> WebhookStatus(x)][w].phase = "dead"
    BY Zenon, <1>2, <2>1
  <2>. QED
    BY Zenon, <2>1, <2>2, <2>3 DEF Outcome!Close, Outcome!Phase
<1>5. W \in SUBSET Webhooks
  BY Zenon
<1>. QED
  BY Zenon, <1>4, <1>5 DEF Outcome!OutcomeNext

\* Retention forgets a webhook once its newest row has expired: its older rows
\* have expired with it, and the newest is neither live nor a failed attempt.
LEMMA ReportedDeleteExpired ==
    ASSUME StoreInv, StoreInv', HasNewest, NEW h \in 1..nextId, DeleteExpired(h)
    PROVE  Outcome!OutcomeNext
<1>. DEFINE W == {w \in Webhooks : RowsOf(w) # {} /\ RowsOf(w)' = {}}
<1>0. /\ logs \in [RowIds -> Row] /\ RowIds \subseteq Nat /\ h \in Nat
      /\ nextId \in Nat /\ minted' = minted /\ subs' = subs
  BY StoreAssumption DEF StoreInv, StoreTypeOK, RowIds, DeleteExpired
<1>1. \A i \in RowIds : logs'[i] = IF i \in Expired(h) THEN NoRow ELSE logs[i]
  BY Zenon DEF DeleteExpired
<1>2. ASSUME NEW w \in Webhooks, NEW n \in RowIds, Newest(w, n), n \in Expired(h)
      PROVE  RowsOf(w)' = {} /\ WebhookStatus(w).phase \in {"delivered", "closed"}
  <2>2. RowsOf(w)' = {}
    BY Zenon, <1>2, ExpiryKeepsNewest
  <2>3. logs[n].status # "failed_attempt"
    <3>. SUFFICES ASSUME logs[n].status = "failed_attempt" PROVE FALSE
      BY Zenon
    <3>1. PICK j \in RowIds : n < j /\ SameWebhook(n, j)
      BY Zenon DEF StoreInv, RetryHasSuccessor
    <3>2. j \in RowsOf(w) /\ j <= n
      BY Zenon, <1>2, <3>1 DEF Newest, RowsOf, SameWebhook
    <3>. QED
      BY <1>0, <3>1, <3>2
  <2>4. logs[n] \in Row /\ Present(n) /\ ~Live(n)
    BY <1>0, <1>2 DEF Expired
  <2>5. PhaseOf(logs[n]) \in {"delivered", "closed"}
    BY Zenon, <2>3, <2>4 DEF Row, Statuses, PhaseOf
  <2>6. WebhookStatus(w) = Reported(logs[n])
    BY Zenon, <1>2, ReportsNewest DEF NewestIsReported
  <2>. QED
    BY <2>2, <2>5, <2>6 DEF Reported
<1>3. ASSUME NEW w \in Webhooks, NEW n \in RowIds, Newest(w, n), n \notin Expired(h)
      PROVE  RowsOf(w)' # {} /\ WebhookStatus(w)' = WebhookStatus(w)
  <2>2. RowsOf(w)' \subseteq RowsOf(w) /\ n \in RowsOf(w)' /\ logs'[n] = logs[n]
    BY Zenon, <1>3, ExpiryKeepsNewest
  <2>4. Newest(w, n)'
    BY Zenon, <1>3, <2>2 DEF Newest
  <2>5. WebhookStatus(w) = Reported(logs[n]) /\ WebhookStatus(w)' = Reported(logs[n])'
    BY Zenon, <1>3, <2>4, ReportsNewest, ReportsNewestNext DEF NewestIsReported
  <2>. QED
    BY Zenon, <2>2, <2>5 DEF Reported, PhaseOf
<1>4. ASSUME NEW w \in W
      PROVE  /\ WebhookStatus(w).phase \in {"delivered", "closed"}
             /\ WebhookStatus(w)' = Outcome!Forgotten
  <2>1. PICK n \in RowIds : Newest(w, n)
    BY Zenon DEF HasNewest
  <2>2. n \in Expired(h)
    BY Zenon, <1>3, <2>1
  <2>3. w \in minted
    BY Zenon, <2>1 DEF Newest, RowsOf, StoreInv, Shape
  <2>4. WebhookStatus(w)' = Unreported(w)'
    BY Zenon DEF WebhookStatus
  <2>. QED
    BY Zenon, <1>0, <1>2, <2>1, <2>2, <2>3, <2>4 DEF Unreported, Outcome!Forgotten
<1>5. ASSUME NEW w \in Webhooks \ W PROVE WebhookStatus(w)' = WebhookStatus(w)
  <2>1. CASE RowsOf(w) = {}
    <3>1. RowsOf(w)' = {}
      BY <1>1, <2>1, StoreAssumption DEF RowsOf, NoRow
    <3>. QED
      BY Zenon, <1>0, <2>1, <3>1 DEF WebhookStatus, Unreported
  <2>2. CASE RowsOf(w) # {}
    <3>1. PICK n \in RowIds : Newest(w, n)
      BY Zenon, <2>2 DEF HasNewest
    <3>. QED
      BY Zenon, <1>2, <1>3, <2>2, <3>1
  <2>. QED
    BY Zenon, <2>1, <2>2
<1>6. Outcome!Forget(W)
  <2>. HIDE DEF W
  <2>1. W \subseteq Webhooks
    BY Zenon DEF W
  <2>2. [w \in Webhooks |-> WebhookStatus(w)]' =
            [w \in Webhooks |-> IF w \in W THEN Outcome!Forgotten ELSE WebhookStatus(w)]
    BY Zenon, <1>4, <1>5
  <2>3. \A w \in W : [x \in Webhooks |-> WebhookStatus(x)][w].phase \in {"delivered", "closed"}
    BY Zenon, <1>4, <2>1
  <2>. QED
    BY Zenon, <1>0, <2>1, <2>2, <2>3 DEF Outcome!Forget, Outcome!Phase
<1>7. W \in SUBSET Webhooks
  BY Zenon
<1>. QED
  BY ZenonT(40), <1>6, <1>7 DEF Outcome!OutcomeNext

\* The cascade takes every row of the webhooks the subscription owns and no other.
LEMMA ReportedDeleteSubscription ==
    ASSUME StoreInv, StoreInv', HasNewest, NEW s \in Subs, DeleteSubscription(s)
    PROVE  Outcome!OutcomeNext
<1>0. subs \in [Subs -> Subscription] /\ minted' = minted /\ None \notin Webhooks /\ None \notin Subs
  BY Zenon, StoreAssumption DEF StoreInv, StoreTypeOK, DeleteSubscription
<1>1. \A i \in RowIds : logs'[i] = IF logs[i].sub = s THEN NoRow ELSE logs[i]
  BY SMTT(30) DEF DeleteSubscription
<1>2. ASSUME NEW w \in Webhooks, RowsOf(w) = {}
      PROVE  WebhookStatus(w)' = WebhookStatus(w) /\ WebhookStatus(w).sub # s
  <2>1. RowsOf(w)' = {}
    BY <1>0, <1>1, <1>2 DEF RowsOf, NoRow
  <2>. QED
    BY ZenonT(40), <1>0, <1>2, <2>1 DEF WebhookStatus, Unreported
<1>3. ASSUME NEW w \in Webhooks, RowsOf(w) # {}
      PROVE  WebhookStatus(w)' = IF WebhookStatus(w).sub = s THEN Outcome!Forgotten
                                                             ELSE WebhookStatus(w)
  <2>1. PICK n \in RowIds : Newest(w, n)
    BY Zenon, <1>3 DEF HasNewest
  <2>2. WebhookStatus(w) = Reported(logs[n]) /\ Reported(logs[n]).sub = logs[n].sub
    BY Zenon, <2>1, ReportsNewest DEF NewestIsReported, Reported
  <2>3. n \in RowsOf(w)
    BY Zenon, <2>1 DEF Newest
  <2>4. CASE logs[n].sub = s
    <3>1. RowsOf(w)' = {}
      BY Zenon, <2>3, <2>4, CascadeKeepsRows
    <3>2. w \in minted
      BY Zenon, <2>1 DEF Newest, RowsOf, StoreInv, Shape
    <3>3. WebhookStatus(w)' = Outcome!Forgotten
      BY Zenon, <1>0, <3>1, <3>2 DEF WebhookStatus, Unreported, Outcome!Forgotten
    <3>. QED
      BY Zenon, <2>2, <2>4, <3>3
  <2>5. CASE logs[n].sub # s
    <3>1. RowsOf(w)' = RowsOf(w) /\ logs'[n] = logs[n]
      BY Zenon, <2>3, <2>5, CascadeKeepsRows
    <3>2. Newest(w, n)'
      BY Zenon, <2>1, <3>1 DEF Newest
    <3>3. WebhookStatus(w)' = Reported(logs[n])'
      BY Zenon, <3>2, ReportsNewestNext
    <3>. QED
      BY Zenon, <2>2, <2>5, <3>1, <3>3 DEF Reported, PhaseOf
  <2>. QED
    BY Zenon, <2>4, <2>5
<1>4. {t \in Subs : subs[t].state = "gone"}' = {t \in Subs : subs[t].state = "gone"} \cup {s}
  BY Zenon, <1>0 DEF DeleteSubscription, Subscription
<1>5. subs[s].state = "live"
  BY Zenon DEF DeleteSubscription
<1>6. \A w \in Webhooks : WebhookStatus(w)' =
        IF WebhookStatus(w).sub = s THEN Outcome!Forgotten ELSE WebhookStatus(w)
  BY Zenon, <1>2, <1>3
<1>7. Outcome!DeleteOwner(s)
  BY Zenon, <1>4, <1>5, <1>6 DEF Outcome!DeleteOwner
<1>. QED
  BY Zenon, <1>7 DEF Outcome!OutcomeNext

\* The other transactions change nothing the status shows.
LEMMA ReportedSame ==
    ASSUME StoreInv, StoreInv', HasNewest, \A i \in RowIds : SameReport(i), minted' = minted, SameOwners
    PROVE  UNCHANGED Outcome!outcomeVars
<1>1. \A w \in Webhooks : WebhookStatus(w)' = WebhookStatus(w)
  BY Zenon, StatusKept
<1>2. {s \in Subs : subs[s].state = "gone"}' = {s \in Subs : subs[s].state = "gone"}
  BY Zenon DEF SameOwners
<1>. QED
  BY Zenon, <1>1, <1>2 DEF Outcome!outcomeVars

\* Every transaction is a step of the promised outcome or is not seen at all.
LEMMA ReportedStep ==
    StoreInv /\ StoreInv' /\ HasNewest /\ [StoreNext]_storeVars => [Outcome!OutcomeNext]_(Outcome!outcomeVars)
<1>. SUFFICES ASSUME StoreInv, StoreInv', HasNewest, [StoreNext]_storeVars
              PROVE  Outcome!OutcomeNext \/ UNCHANGED Outcome!outcomeVars
  BY Zenon
<1>0. logs \in [RowIds -> Row] /\ subs \in [Subs -> Subscription]
  BY Zenon DEF StoreInv, StoreTypeOK
<1>1. ASSUME NEW i \in RowIds, RowStep(i)
      PROVE  Outcome!OutcomeNext \/ UNCHANGED Outcome!outcomeVars
  <2>1. CASE ClaimPending(i) \/ RescheduleSamePending(i) \/ Elapse(i)
    <3>1. (\A j \in RowIds : SameReport(j)) /\ minted' = minted /\ SameOwners
      BY <1>0, <2>1 DEF ClaimPending, RescheduleSamePending, Elapse, SameReport, SameOwners, Row
    <3>. QED
      BY ZenonT(40), <3>1, ReportedSame
  <2>. QED
    BY Zenon, <1>1, <2>1, ReportedMarkSuccess, ReportedMarkDropped, ReportedFinalizeFailure,
       ReportedRetry DEF RowStep, HandleFailure
<1>2. ASSUME NEW s \in Subs, NEW w \in Webhooks, WebhookStep(s, w) PROVE Outcome!OutcomeNext
  <2>1. ASSUME NEW k \in Keys \cup {None}, IngestPending(s, k, w) PROVE Outcome!OutcomeNext
    BY Zenon, <2>1, ReportedFirstRow DEF IngestPending
  <2>2. CASE InsertLeaseLess(s, w)
    BY Zenon, <2>2, ReportedFirstRow DEF InsertLeaseLess
  <2>3. ASSUME NEW c \in RowIds, AckDLQ(s, w, c) PROVE Outcome!OutcomeNext
    <3>1. InDLQ(s, w) \in SUBSET RowIds /\ \A i \in InDLQ(s, w) : logs[i].inDLQ
      BY Zenon DEF InDLQ
    <3>. QED
      BY Zenon, <2>3, <3>1, ReportedClose DEF AckDLQ
  <2>4. ASSUME NEW c \in RowIds, ReplayDLQ(s, w, c) PROVE Outcome!OutcomeNext
    BY Zenon, <2>4, ReportedReplay
  <2>. QED
    BY Zenon, <1>2, <2>1, <2>2, <2>3, <2>4 DEF WebhookStep
<1>3. ASSUME NEW s \in Subs, SubscriptionStep(s)
      PROVE  Outcome!OutcomeNext \/ UNCHANGED Outcome!outcomeVars
  <2>1. ASSUME NEW a \in BOOLEAN, CreateSubscription(s, a) \/ UpdateSubscription(s, a)
        PROVE  UNCHANGED Outcome!outcomeVars
    <3>1. \A t \in Subs : (subs'[t].state = "gone") <=> (subs[t].state = "gone")
      BY <1>0, <2>1 DEF CreateSubscription, UpdateSubscription, Subscription
    <3>2. \A w \in Webhooks : WebhookStatus(w)' = WebhookStatus(w)
      BY Zenon, <2>1, StatusKept DEF CreateSubscription, UpdateSubscription, SameReport
    <3>. QED
      BY Zenon, <3>1, <3>2 DEF Outcome!outcomeVars
  <2>. QED
    BY Zenon, <1>3, <2>1, ReportedDeleteSubscription DEF SubscriptionStep
<1>4. ASSUME SweepStep PROVE Outcome!OutcomeNext \/ UNCHANGED Outcome!outcomeVars
  <2>1. CASE RearmLeaseLessPending
    <3>1. (\A j \in RowIds : SameReport(j)) /\ minted' = minted /\ SameOwners
      BY Zenon, <1>0, <2>1 DEF RearmLeaseLessPending, SameReport, SameOwners, Row
    <3>. QED
      BY <3>1, ReportedSame
  <2>2. ASSUME NEW D \in SUBSET RowIds, ForceAckOldDLQ(D) PROVE Outcome!OutcomeNext
    BY Zenon, <2>2, ReportedClose DEF ForceAckOldDLQ
  <2>3. ASSUME NEW P \in SUBSET (Subs \X Keys), PruneIdempotency(P)
        PROVE  UNCHANGED Outcome!outcomeVars
    BY Zenon, <2>3, ReportedSame DEF PruneIdempotency, SameReport, SameOwners
  <2>. QED
    BY Zenon, <1>4, <2>1, <2>2, <2>3, ReportedDeleteExpired DEF SweepStep
<1>5. CASE UNCHANGED storeVars
  BY <1>5, ReportedSame DEF storeVars, SameReport, SameOwners
<1>. QED
  BY Zenon, <1>1, <1>2, <1>3, <1>4, <1>5 DEF StoreNext

\* What GET /status/{webhook_id} reports of every webhook, under every order of
\* transactions, is a behaviour of the promised life cycle: the projection of the
\* rows never goes backwards and never shows a superseded attempt.
THEOREM StoreImplementsOutcome == StoreSpec => ImplementsOutcome
<1>1. StoreInit => Outcome!OutcomeInit
  <2>. SUFFICES ASSUME StoreInit PROVE Outcome!OutcomeInit
    OBVIOUS
  <2>1. \A w \in Webhooks : RowsOf(w) = {} /\ w \notin minted
    BY DEF StoreInit, RowsOf, NoRow
  <2>2. \A w \in Webhooks : WebhookStatus(w) = Outcome!Unknown
    BY Zenon, <2>1 DEF WebhookStatus, Unreported, Outcome!Unknown
  <2>3. {s \in Subs : subs[s].state = "gone"} = {}
    BY DEF StoreInit
  <2>. QED
    BY Zenon, <2>2, <2>3 DEF Outcome!OutcomeInit
<1>. QED
  BY <1>1, ReportedStep, StoreInvariant, NewestInvariant, PTL DEF StoreSpec, ImplementsOutcome, Outcome!OutcomeSpec

\* What is live is reported, and what is reported as work is live.
LEMMA WorkReported ==
    ASSUME StoreInv, HasNewest
    PROVE  ReportsTheWork
<1>. SUFFICES ASSUME NEW w \in Webhooks
              PROVE  /\ \A i \in RowIds : Live(i) /\ logs[i].webhook = w =>
                                             WebhookStatus(w) = Reported(logs[i])
                     /\ WebhookStatus(w).phase \in {"pending", "dead"} =>
                            \E i \in RowIds : Live(i) /\ logs[i].webhook = w
                     /\ WebhookStatus(w).phase # "failed_attempt"
  BY Zenon DEF ReportsTheWork
<1>1. \A i \in RowIds : Live(i) /\ logs[i].webhook = w => WebhookStatus(w) = Reported(logs[i])
  BY Zenon, LiveIsReported
<1>2. CASE RowsOf(w) = {}
  <2>1. WebhookStatus(w).phase \in {"unknown", "forgotten"}
    BY Zenon, <1>2 DEF WebhookStatus, Unreported
  <2>. QED
    BY Zenon, <1>1, <2>1
<1>3. CASE RowsOf(w) # {}
  <2>1. PICK n \in RowIds : Newest(w, n)
    BY Zenon, <1>3 DEF HasNewest
  <2>2. Present(n) /\ logs[n].webhook = w /\ \A j \in RowsOf(w) : j <= n
    BY Zenon, <2>1 DEF Newest, RowsOf
  <2>3. WebhookStatus(w).phase = PhaseOf(logs[n])
    <3>1. WebhookStatus(w) = Reported(logs[n])
      BY Zenon, <2>1, ReportsNewest DEF NewestIsReported
    <3>2. Reported(logs[n]).phase = PhaseOf(logs[n])
      BY Zenon DEF Reported
    <3>. QED
      BY Zenon, <3>1, <3>2
  <2>4. PhaseOf(logs[n]) \in {"pending", "dead"} => Live(n)
    BY DEF PhaseOf
  <2>5. logs[n].status # "failed_attempt"
    <3>1. SUFFICES ASSUME logs[n].status = "failed_attempt" PROVE FALSE
      OBVIOUS
    <3>2. PICK j \in RowIds : n < j /\ SameWebhook(n, j)
      BY Zenon, <3>1 DEF StoreInv, RetryHasSuccessor
    <3>3. j <= n
      BY Zenon, <2>2, <3>2 DEF SameWebhook, RowsOf
    <3>. QED
      BY <3>2, <3>3 DEF RowIds
  <2>6. logs[n].status \in {"pending", "success", "final_failure"}
    BY Zenon, <2>2, <2>5 DEF StoreInv, StoreTypeOK, Row, Statuses
  <2>7. PhaseOf(logs[n]) # "failed_attempt"
    BY <2>6 DEF PhaseOf
  <2>. QED
    BY Zenon, <1>1, <2>2, <2>3, <2>4, <2>7
<1>. QED
  BY Zenon, <1>2, <1>3

\* What handleWebhookStatus shows is the work there is, whatever the order of the
\* transactions: one that is told "delivered" has nothing left to wait for.
THEOREM ReportTheorem == StoreSpec => []ReportsTheWork
BY NewestInvariant, WorkReported, PTL

-----------------------------------------------------------------------------
(* The reported status only advances *)

\* What a webhook may be reported as.
Status == [phase: {"unknown", "pending", "delivered", "dead", "closed", "failed_attempt", "forgotten"},
           sub: Subs \cup {None}, replay: Nat, attempt: Nat]

\* A webhook that was never accepted has no owner and no numbers.
Plausible(u) == u \in Status /\ (u.phase = "unknown" => u.sub = None /\ u.replay = 0 /\ u.attempt = 0)

\* What handleWebhookStatus reports is one of these.
LEMMA StatusPlausible ==
    ASSUME StoreInv, HasNewest, NEW w \in Webhooks
    PROVE  Plausible(WebhookStatus(w))
<1>1. CASE RowsOf(w) = {}
  <2>1. WebhookStatus(w) = Unreported(w)
    BY Zenon, <1>1 DEF WebhookStatus
  <2>2. Plausible(Unreported(w))
    BY DEF Unreported, Plausible, Status
  <2>. QED
    BY Zenon, <2>1, <2>2
<1>2. CASE RowsOf(w) # {}
  <2>1. PICK n \in RowIds : Newest(w, n)
    BY Zenon, <1>2 DEF HasNewest
  <2>2. WebhookStatus(w) = Reported(logs[n])
    BY Zenon, <2>1, ReportsNewest DEF NewestIsReported
  <2>3. PICK r \in Row : r = logs[n]
    BY Zenon DEF StoreInv, StoreTypeOK
  <2>4. r.sub \in Subs \cup {None} /\ r.replay \in Nat /\ r.attempt \in Nat
    BY DEF Row
  <2>5. PhaseOf(r) \in {"pending", "delivered", "dead", "closed", "failed_attempt"}
    BY ZenonT(40) DEF PhaseOf, Row
  <2>6. Plausible(Reported(r))
    BY <2>4, <2>5 DEF Reported, Plausible, Status
  <2>. QED
    BY Zenon, <2>2, <2>3, <2>6
<1>. QED
  BY Zenon, <1>1, <1>2

\* Each step WebhookOutcome allows advances the statuses it changes.
LEMMA StepAdvances ==
    ASSUME StoreInv, HasNewest, Outcome!OutcomeNext, NEW w \in Webhooks
    PROVE  \/ WebhookStatus(w)' = WebhookStatus(w)
           \/ Advances(WebhookStatus(w), WebhookStatus(w)')
<1>1. PICK f, g : /\ f = [x \in Webhooks |-> WebhookStatus(x)]
                  /\ g = [x \in Webhooks |-> WebhookStatus(x)]'
  BY Zenon
<1>2. PICK u, v : u = f[w] /\ v = g[w]
  BY Zenon
<1>3. u = WebhookStatus(w) /\ v = WebhookStatus(w)'
  BY Zenon, <1>1, <1>2
<1>4. DOMAIN f = Webhooks /\ u \in Status
      /\ (u.phase = "unknown" => u.sub = None /\ u.replay = 0 /\ u.attempt = 0)
  BY Zenon, <1>1, <1>3, StatusPlausible DEF Plausible
<1>. SUFFICES v = u \/ Advances(u, v)
  BY Zenon, <1>3
<1>5. ASSUME NEW x \in Webhooks, NEW s \in Subs, Outcome!Accept(x, s) PROVE v = u \/ Advances(u, v)
  <2>1. /\ f[x].phase = "unknown"
        /\ g = [f EXCEPT ![x] = [phase |-> "pending", sub |-> s, replay |-> 0, attempt |-> 1]]
    BY Zenon, <1>1, <1>5 DEF Outcome!Accept, Outcome!Phase
  <2>2. CASE x # w
    BY Zenon, <1>2, <1>4, <2>1, <2>2
  <2>3. CASE x = w
    <3>1. v = [phase |-> "pending", sub |-> s, replay |-> 0, attempt |-> 1] /\ u.phase = "unknown"
      BY Zenon, <1>2, <1>4, <2>1, <2>3
    <3>. QED
      BY <1>4, <3>1 DEF Advances, Below
  <2>. QED
    BY Zenon, <2>2, <2>3
<1>6. ASSUME NEW x \in Webhooks, NEW c \in {"delivered", "dead", "closed"}, f[x].phase = "pending",
             g = [f EXCEPT ![x].phase = c]
      PROVE  v = u \/ Advances(u, v)
  <2>1. CASE x # w
    BY Zenon, <1>2, <1>4, <1>6, <2>1
  <2>2. CASE x = w
    <3>1. v = [u EXCEPT !.phase = c] /\ u.phase = "pending"
      BY Zenon, <1>2, <1>4, <1>6, <2>2
    <3>2. v.phase = c /\ v.replay = u.replay /\ v.attempt = u.attempt
      BY <1>4, <3>1 DEF Status
    <3>. QED
      BY Zenon, <1>6, <3>1, <3>2 DEF Advances, SameNumbers
  <2>. QED
    BY Zenon, <2>1, <2>2
<1>7. ASSUME NEW x \in Webhooks, Outcome!Deliver(x) \/ Outcome!DeadLetter(x) \/ Outcome!Drop(x)
      PROVE  v = u \/ Advances(u, v)
  <2>1. CASE Outcome!Deliver(x)
    BY Zenon, <1>1, <1>6, <2>1 DEF Outcome!Deliver, Outcome!Phase
  <2>2. CASE Outcome!DeadLetter(x)
    BY Zenon, <1>1, <1>6, <2>2 DEF Outcome!DeadLetter, Outcome!Phase
  <2>3. CASE Outcome!Drop(x)
    BY Zenon, <1>1, <1>6, <2>3 DEF Outcome!Drop, Outcome!Phase
  <2>. QED
    BY Zenon, <1>7, <2>1, <2>2, <2>3
<1>8. ASSUME NEW x \in Webhooks, Outcome!Retry(x) PROVE v = u \/ Advances(u, v)
  <2>1. f[x].phase = "pending" /\ g = [f EXCEPT ![x].attempt = @ + 1]
    BY Zenon, <1>1, <1>8 DEF Outcome!Retry, Outcome!Phase
  <2>2. CASE x # w
    BY Zenon, <1>2, <1>4, <2>1, <2>2
  <2>3. CASE x = w
    <3>1. v = [u EXCEPT !.attempt = u.attempt + 1] /\ u.phase = "pending"
      BY Zenon, <1>2, <1>4, <2>1, <2>3
    <3>2. v.phase = u.phase /\ v.replay = u.replay /\ v.attempt = u.attempt + 1 /\ u.attempt \in Nat
      BY ZenonT(40), <1>4, <3>1 DEF Status
    <3>. QED
      BY <3>1, <3>2 DEF Advances, Below
  <2>. QED
    BY Zenon, <2>2, <2>3
<1>9. ASSUME NEW x \in Webhooks, Outcome!Replay(x) PROVE v = u \/ Advances(u, v)
  <2>1. /\ f[x].phase = "dead"
        /\ g = [f EXCEPT ![x].phase = "pending", ![x].replay = @ + 1, ![x].attempt = 1]
    BY Zenon, <1>1, <1>9 DEF Outcome!Replay, Outcome!Phase
  <2>2. CASE x # w
    BY ZenonT(40), <1>2, <1>4, <2>1, <2>2
  <2>3. CASE x = w
    <3>1. v.phase = "pending" /\ v.replay = u.replay + 1 /\ u.replay \in Nat /\ u.phase = "dead"
      BY ZenonT(40), <1>2, <1>4, <2>1, <2>3 DEF Status
    <3>. QED
      BY <3>1 DEF Advances, Below
  <2>. QED
    BY Zenon, <2>2, <2>3
<1>10. ASSUME NEW W \in SUBSET Webhooks, Outcome!Close(W) PROVE v = u \/ Advances(u, v)
  <2>1. /\ \A x \in W : f[x].phase = "dead"
        /\ g = [x \in Webhooks |-> IF x \in W THEN [f[x] EXCEPT !.phase = "closed"] ELSE f[x]]
    BY Zenon, <1>1, <1>10 DEF Outcome!Close, Outcome!Phase
  <2>2. CASE w \notin W
    BY Zenon, <1>2, <2>1, <2>2
  <2>3. CASE w \in W
    <3>1. v = [u EXCEPT !.phase = "closed"] /\ u.phase = "dead"
      BY Zenon, <1>2, <2>1, <2>3
    <3>2. v.phase = "closed" /\ v.replay = u.replay /\ v.attempt = u.attempt
      BY ZenonT(40), <1>4, <3>1 DEF Status
    <3>. QED
      BY Zenon, <3>1, <3>2 DEF Advances, SameNumbers
  <2>. QED
    BY Zenon, <2>2, <2>3
<1>11. Outcome!Forgotten.phase = "forgotten"
  BY DEF Outcome!Forgotten
<1>12. ASSUME NEW W \in SUBSET Webhooks, Outcome!Forget(W) PROVE v = u \/ Advances(u, v)
  <2>1. /\ \A x \in W : f[x].phase \in {"delivered", "closed"}
        /\ g = [x \in Webhooks |-> IF x \in W THEN Outcome!Forgotten ELSE f[x]]
    BY Zenon, <1>1, <1>12 DEF Outcome!Forget, Outcome!Phase
  <2>2. w \in W => u.phase \in {"delivered", "closed"} /\ v = Outcome!Forgotten
    BY Zenon, <1>2, <2>1
  <2>3. w \notin W => v = u
    BY Zenon, <1>2, <2>1
  <2>. QED
    BY Zenon, <1>11, <2>2, <2>3 DEF Advances
<1>13. ASSUME NEW s \in Subs, Outcome!DeleteOwner(s) PROVE v = u \/ Advances(u, v)
  <2>1. g = [x \in Webhooks |-> IF f[x].sub = s THEN Outcome!Forgotten ELSE f[x]]
    BY Zenon, <1>1, <1>13 DEF Outcome!DeleteOwner
  <2>2. IF u.sub = s THEN v = Outcome!Forgotten ELSE v = u
    BY Zenon, <1>2, <2>1
  <2>3. u.sub = s => u.phase # "unknown"
    BY Zenon, <1>4, StoreAssumption
  <2>. QED
    BY Zenon, <1>11, <2>2, <2>3 DEF Advances
<1>. QED
  BY Zenon, <1>5, <1>7, <1>8, <1>9, <1>10, <1>12, <1>13 DEF Outcome!OutcomeNext

\* Whatever the store's transactions do, the status handleWebhookStatus reports of
\* a webhook only advances: to a later attempt, to its end, or out of the tables.
THEOREM StatusTheorem == StoreSpec => StatusOnlyAdvances
<1>1. StoreInv /\ HasNewest /\ StoreInv' /\ [StoreNext]_storeVars =>
          [\A w \in Webhooks : \/ WebhookStatus(w)' = WebhookStatus(w)
                               \/ Advances(WebhookStatus(w), WebhookStatus(w)')]_storeVars
  <2>. SUFFICES ASSUME StoreInv, HasNewest, StoreInv', [StoreNext]_storeVars, NEW w \in Webhooks
                PROVE  \/ WebhookStatus(w)' = WebhookStatus(w)
                       \/ Advances(WebhookStatus(w), WebhookStatus(w)')
    BY Zenon
  <2>1. CASE Outcome!OutcomeNext
    BY Zenon, <2>1, StepAdvances
  <2>2. CASE UNCHANGED Outcome!outcomeVars
    <3>1. [x \in Webhooks |-> WebhookStatus(x)]' = [x \in Webhooks |-> WebhookStatus(x)]
      BY Zenon, <2>2 DEF Outcome!outcomeVars
    <3>. QED
      BY Zenon, <3>1
  <2>. QED
    BY Zenon, <2>1, <2>2, ReportedStep
<1>. QED
  BY <1>1, StoreInvariant, NewestInvariant, PTL DEF StoreSpec, StatusOnlyAdvances
=============================================================================
