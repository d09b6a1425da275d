--------------------------- MODULE StoreRefinement ---------------------------
(***************************************************************************)
(* DeliveryStore implements WebhookOutcome.  The mapping is the projection *)
(* handleWebhookStatus computes: the rows of a webhook ordered by          *)
(* (replay_number, attempt_number), the last one being the current outcome.*)
(***************************************************************************)
EXTENDS DeliveryStore

RowsOf(w) == {i \in RowIds : Present(i) /\ logs[i].webhook = w}

\* The last row of ListByWebhookID, out of the rows R of a webhook.
Current(R) == CHOOSE i \in R : \A j \in R \ {i} : Precedes(j, i)

PhaseOf(r) ==
    CASE r.status = "pending" -> "pending"
      [] r.status = "success" -> "delivered"
      [] r.status = "final_failure" /\ r.inDLQ -> "dead"
      [] r.status = "final_failure" /\ ~r.inDLQ -> "closed"
      [] OTHER -> "failed_attempt"

Reported(r) == [phase |-> PhaseOf(r), sub |-> r.sub, replay |-> r.replay, attempt |-> r.attempt]

Unreported(w) == [phase |-> IF w \in minted THEN "forgotten" ELSE "unknown",
                  sub |-> None, replay |-> 0, attempt |-> 0]

\* handleWebhookStatus.
WebhookStatus(w) ==
    LET R == RowsOf(w)
    IN  IF R = {} THEN Unreported(w) ELSE Reported(logs[Current(R)])

Outcome == INSTANCE WebhookOutcome WITH
    outcome <- [w \in Webhooks |-> WebhookStatus(w)],
    deleted <- {s \in Subs : subs[s].state = "gone"}

\* Every transaction of the store is a step of the promised outcome, or changes
\* nothing an operator can see: the reported status never goes backwards, never
\* shows a superseded attempt, and never leaves the life cycle of the webhook.
ImplementsOutcome == Outcome!OutcomeSpec

\* handleWebhookStatus reports the work there is: the row that is left to deliver
\* or to triage is the one it shows, "delivered", "closed" or "forgotten" means that
\* none is left, and an attempt that has a successor is never shown as the outcome.
ReportsTheWork ==
    \A w \in Webhooks :
        /\ \A i \in RowIds : Live(i) /\ logs[i].webhook = w => WebhookStatus(w) = Reported(logs[i])
        /\ WebhookStatus(w).phase \in {"pending", "dead"} =>
               \E i \in RowIds : Live(i) /\ logs[i].webhook = w
        /\ WebhookStatus(w).phase # "failed_attempt"

\* The numbers (replay_number, attempt_number) of status u are below those of v.
Below(u, v) == u.replay < v.replay \/ (u.replay = v.replay /\ u.attempt < v.attempt)

SameNumbers(u, v) == u.replay = v.replay /\ u.attempt = v.attempt

\* A later attempt, the end of this one, or the end of the record.
Advances(u, v) ==
    \/ v.phase = "pending" /\ u.phase \in {"unknown", "pending", "dead"} /\ Below(u, v)
    \/ u.phase = "pending" /\ v.phase \in {"delivered", "dead", "closed"} /\ SameNumbers(u, v)
    \/ u.phase = "dead" /\ v.phase = "closed" /\ SameNumbers(u, v)
    \/ u.phase # "unknown" /\ v.phase = "forgotten"

\* Whoever polls handleWebhookStatus never sees a webhook go back: when its status
\* changes, the attempt is a later one, or this one ended, or the record did.
StatusOnlyAdvances ==
    [][\A w \in Webhooks : \/ WebhookStatus(w)' = WebhookStatus(w)
                           \/ Advances(WebhookStatus(w), WebhookStatus(w)')]_storeVars
=============================================================================
