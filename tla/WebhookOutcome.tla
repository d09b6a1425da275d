--------------------------- MODULE WebhookOutcome ---------------------------
(***************************************************************************)
(* What the service promises about one accepted webhook, as an operator    *)
(* sees it on GET /status/{webhook_id}: it is pending on some attempt of   *)
(* some delivery chain until it is delivered, dead-lettered or dropped;    *)
(* only a dead letter can be replayed; what is settled stays settled until *)
(* retention forgets it.  Deleting a subscription forgets its webhooks.    *)
(***************************************************************************)
EXTENDS Naturals

CONSTANTS Webhooks, Subs, None, MaxRetryAttempts

VARIABLES
    outcome,  \* per webhook: phase, owner, replay and attempt number
    deleted   \* subscriptions that no longer exist

outcomeVars == <<outcome, deleted>>

Unknown == [phase |-> "unknown", sub |-> None, replay |-> 0, attempt |-> 0]

Forgotten == [phase |-> "forgotten", sub |-> None, replay |-> 0, attempt |-> 0]

OutcomeInit ==
    /\ outcome = [w \in Webhooks |-> Unknown]
    /\ deleted = {}

Phase(w) == outcome[w].phase

Accept(w, s) ==
    /\ Phase(w) = "unknown"
    /\ s \notin deleted
    /\ outcome' = [outcome EXCEPT
                     ![w] = [phase |-> "pending", sub |-> s, replay |-> 0, attempt |-> 1]]
    /\ UNCHANGED deleted

Deliver(w) ==
    /\ Phase(w) = "pending"
    /\ outcome' = [outcome EXCEPT ![w].phase = "delivered"]
    /\ UNCHANGED deleted

Retry(w) ==
    /\ Phase(w) = "pending"
    /\ outcome[w].attempt < MaxRetryAttempts
    /\ outcome' = [outcome EXCEPT ![w].attempt = @ + 1]
    /\ UNCHANGED deleted

DeadLetter(w) ==
    /\ Phase(w) = "pending"
    /\ outcome[w].attempt = MaxRetryAttempts
    /\ outcome' = [outcome EXCEPT ![w].phase = "dead"]
    /\ UNCHANGED deleted

Drop(w) ==
    /\ Phase(w) = "pending"
    /\ outcome' = [outcome EXCEPT ![w].phase = "closed"]
    /\ UNCHANGED deleted

Replay(w) ==
    /\ Phase(w) = "dead"
    /\ outcome' = [outcome EXCEPT ![w].phase = "pending", ![w].replay = @ + 1,
                                  ![w].attempt = 1]
    /\ UNCHANGED deleted

\* One acknowledgement, or the age limit closing several dead letters at once.
Close(W) ==
    /\ \A w \in W : Phase(w) = "dead"
    /\ outcome' = [w \in Webhooks |-> IF w \in W THEN [outcome[w] EXCEPT !.phase = "closed"]
                                                 ELSE outcome[w]]
    /\ UNCHANGED deleted

Forget(W) ==
    /\ \A w \in W : Phase(w) \in {"delivered", "closed"}
    /\ outcome' = [w \in Webhooks |-> IF w \in W THEN Forgotten ELSE outcome[w]]
    /\ UNCHANGED deleted

DeleteOwner(s) ==
    /\ s \notin deleted
    /\ deleted' = deleted \cup {s}
    /\ outcome' = [w \in Webhooks |-> IF outcome[w].sub = s THEN Forgotten ELSE outcome[w]]

OutcomeNext ==
    \/ \E w \in Webhooks : \/ \E s \in Subs : Accept(w, s)
                           \/ Deliver(w)
                           \/ Retry(w)
                           \/ DeadLetter(w)
                           \/ Drop(w)
                           \/ Replay(w)
    \/ \E W \in SUBSET Webhooks : Close(W) \/ Forget(W)
    \/ \E s \in Subs : DeleteOwner(s)

OutcomeSpec == OutcomeInit /\ [][OutcomeNext]_outcomeVars
=============================================================================
