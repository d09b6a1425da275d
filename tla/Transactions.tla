---------------------------- MODULE Transactions ----------------------------
(***************************************************************************)
(* The transactions of internal/store statement by statement: inTx's       *)
(* begin, statements, commit and rollback under PostgreSQL's READ          *)
(* COMMITTED, which DeliveryStore takes as single steps.                   *)
(*                                                                         *)
(* A statement reads committed rows, waits for the row locks it needs, and *)
(* evaluates its WHERE clause when it has them; what it writes is seen by  *)
(* others at the commit.  A foreign-key check takes KEY SHARE on the       *)
(* subscription, a counter update NO KEY UPDATE, a delete FOR UPDATE and   *)
(* then every row of the cascade.  A client can lose its connection at any *)
(* point, and the server aborts one member of a wait cycle.                *)
(*                                                                         *)
(* subscription.State holds the subscription's stripe around MarkSuccess,  *)
(* FinalizeFailure, Update and Delete; the clients are goroutines of one   *)
(* process.                                                                *)
(***************************************************************************)
EXTENDS DeliveryStore, FiniteSets

CONSTANTS
    Clients,   \* goroutines with a database connection
    MaxFaults  \* bound: connections lost and stale subscriptions in a run

\* Rows run out before replays do.
ASSUME TransactionsAssumption ==
    MaxFaults \in Nat /\ MaxReplays >= MaxRows

VARIABLES
    tx,      \* per client: its open transaction
    faults

vars == <<storeVars, tx, faults>>

NoSub == [state |-> "new", active |-> FALSE, failures |-> 0]

\* image: the rows it has locked, as they will be; new: the row it inserts;
\* owner: the subscription row as it will be; lock: what it holds on that row;
\* slot: it has inserted its idempotency key.
NoTx == [op |-> "none", step |-> "none", row |-> 0, sub |-> None, key |-> None,
         webhook |-> None, image |-> <<>>, new |-> NoRow, owner |-> NoSub,
         lock |-> "none", slot |-> FALSE]

Ops == {"none", "ingest", "success", "final", "retry", "replay", "delete"}

TransactionSteps == {"none", "key", "keyCheck", "select", "cas", "owner", "insert", "cascade", "commit"}

Locks == {"none", "keyshare", "nokey", "update"}

Open(c) == tx[c].op # "none"

At(c, step) == tx[c].step = step

TxTypeOK ==
    /\ StoreTypeOK
    /\ DOMAIN tx = Clients /\ faults \in 0..MaxFaults
    /\ \A c \in Clients :
        /\ tx[c].op \in Ops /\ tx[c].step \in TransactionSteps /\ tx[c].lock \in Locks
        /\ DOMAIN tx[c].image \subseteq RowIds
        /\ \A i \in DOMAIN tx[c].image : tx[c].image[i] \in Row
        /\ tx[c].new \in Row /\ tx[c].owner \in Subscription

Init == StoreInit /\ tx = [c \in Clients |-> NoTx] /\ faults = 0

-----------------------------------------------------------------------------
(* Locks *)

Incompatible == {<<"keyshare", "update">>, <<"nokey", "nokey">>, <<"nokey", "update">>,
                 <<"update", "keyshare">>, <<"update", "nokey">>, <<"update", "update">>}

Others(c) == Clients \ {c}

RowHolders(c, i) == {d \in Others(c) : i \in DOMAIN tx[d].image}

OwnerHolders(c, lock) ==
    {d \in Others(c) : tx[d].sub = tx[c].sub /\ <<lock, tx[d].lock>> \in Incompatible}

\* An insert of the same key, or the delete of the one that is there.
KeyHolders(c) ==
    {d \in Others(c) : /\ tx[d].sub = tx[c].sub
                       /\ \/ tx[d].slot /\ tx[d].key = tx[c].key
                          \/ tx[d].op = "delete" /\ At(d, "commit")}

Rows(s) == {i \in RowIds : logs[i].sub = s}

\* The rows a statement changes at once: the pending row, or the dead letter.
Target(c) ==
    IF tx[c].op = "replay" THEN InDLQ(tx[c].sub, tx[c].webhook)
                           ELSE {i \in {tx[c].row} : Pending(i)}

\* Whom the next statement of c waits for.
WaitsFor(c) ==
    CASE At(c, "key") -> KeyHolders(c)
      [] At(c, "keyCheck") \/ At(c, "insert") -> OwnerHolders(c, "keyshare")
      [] At(c, "cas") -> UNION {RowHolders(c, i) : i \in Target(c)}
      [] At(c, "owner") /\ tx[c].op = "delete" -> OwnerHolders(c, "update")
      [] At(c, "owner") /\ tx[c].op # "delete" -> OwnerHolders(c, "nokey")
      [] At(c, "cascade") -> UNION {RowHolders(c, i) : i \in Rows(tx[c].sub)}
      [] OTHER -> {}

\* Every member waits for a member.
Deadlocked(C) == C # {} /\ \A c \in C : WaitsFor(c) \cap C # {}

\* Mutant: the methods do not take the stripe.
StripeIgnored(s) == TRUE

StripeFree(s) ==
    \A c \in Clients : tx[c].op \in {"success", "final", "delete"} => tx[c].sub # s

-----------------------------------------------------------------------------
(* Begin, and the statements *)

Set(c, t) == tx' = [tx EXCEPT ![c] = t] /\ UNCHANGED <<storeVars, faults>>

Begin(c, t) == ~Open(c) /\ Set(c, t)

\* The bound on rows leaves room for every open transaction.
Room == nextId + Cardinality({c \in Clients : tx[c].op \in {"ingest", "retry", "replay"}}) <= MaxRows

\* The handler has read the subscription, which a stale cache entry may outlive.
BeginIngest(c, s, k, w) ==
    /\ w \notin minted /\ \A d \in Clients : tx[d].op = "ingest" => tx[d].webhook # w
    /\ Room /\ ~Open(c)
    /\ \/ subs[s].state = "live" /\ UNCHANGED faults
       \/ subs[s].state = "gone" /\ faults < MaxFaults /\ faults' = faults + 1
    /\ tx' = [tx EXCEPT ![c] =
            [NoTx EXCEPT !.op = "ingest", !.step = IF k = None THEN "insert" ELSE "key",
                         !.sub = s, !.key = k, !.webhook = w]]
    /\ UNCHANGED storeVars

\* The caller has loaded the row; handleFailure goes by its attempt_number.
BeginOutcome(c, i) ==
    /\ Present(i)
    /\ \E op \in {"success", IF logs[i].attempt < MaxRetryAttempts THEN "retry" ELSE "final"} :
        /\ IF op = "retry" THEN Room ELSE StripeFree(logs[i].sub)
        /\ Begin(c, [NoTx EXCEPT !.op = op, !.step = "cas", !.row = i, !.sub = logs[i].sub])

BeginReplay(c, s, w) ==
    /\ Room
    /\ Begin(c, [NoTx EXCEPT !.op = "replay", !.step = "cas", !.sub = s, !.webhook = w])

BeginDelete(c, s) ==
    /\ StripeFree(s)
    /\ Begin(c, [NoTx EXCEPT !.op = "delete", !.step = "owner", !.sub = s])

\* Mutant: only a commit gives the connection back.
EndWithoutRollback(c) == Set(c, [tx[c] EXCEPT !.step = "none"])

\* A transaction that changes nothing, or rolls back.
End(c) == Set(c, NoTx)

\* Mutant: the key is stored before the transaction.
InsertKeyAlone(c) ==
    /\ At(c, "key") /\ idem[<<tx[c].sub, tx[c].key>>] = None
    /\ idem' = [idem EXCEPT ![<<tx[c].sub, tx[c].key>>] = tx[c].webhook]
    /\ tx' = [tx EXCEPT ![c].step = "insert"]
    /\ UNCHANGED <<logs, subs, minted, nextId, faults>>

\* INSERT ... ON CONFLICT DO NOTHING.
InsertKey(c) ==
    /\ At(c, "key") /\ WaitsFor(c) = {}
    /\ IF idem[<<tx[c].sub, tx[c].key>>] = None
       THEN Set(c, [tx[c] EXCEPT !.step = "keyCheck", !.slot = TRUE])
       ELSE Set(c, [tx[c] EXCEPT !.step = "select"])

\* The foreign-key check at the end of that INSERT.
CheckKey(c) ==
    /\ At(c, "keyCheck") /\ WaitsFor(c) = {}
    /\ IF subs[tx[c].sub].state = "live"
       THEN Set(c, [tx[c] EXCEPT !.step = "insert", !.lock = "keyshare"])
       ELSE End(c)

\* The stored webhook_id, or an error when the key is gone in the meantime.
SelectKey(c) == At(c, "select") /\ End(c)

\* The row as the transaction's UPDATE leaves it.
Settle(op, r) ==
    CASE op = "success" -> [r EXCEPT !.status = "success"]
      [] op = "final" -> [r EXCEPT !.status = "final_failure", !.inDLQ = TRUE]
      [] op = "retry" -> [r EXCEPT !.status = "failed_attempt"]
      [] op = "replay" -> [r EXCEPT !.inDLQ = FALSE]

\* UPDATE ... WHERE status = 'pending', or WHERE in_dlq = TRUE.
Cas(c) ==
    /\ At(c, "cas") /\ WaitsFor(c) = {}
    /\ IF Target(c) = {}
       THEN End(c)
       ELSE Set(c, [tx[c] EXCEPT
                !.step = IF tx[c].op \in {"success", "final"} THEN "owner" ELSE "insert",
                !.image = [i \in Target(c) |-> Settle(tx[c].op, logs[i])]])

\* The subscription after a success resets, or a failure bumps, its counter.
Counted(op, s) ==
    IF op = "success"
    THEN [s EXCEPT !.failures = 0]
    ELSE [s EXCEPT !.failures = @ + 1,
                   !.active = (s.failures + 1 < AutoDisableThreshold) /\ @]

\* The UPDATE of the failure counter.
Count(c) ==
    LET s == subs[tx[c].sub]
        counted == Counted(tx[c].op, s)
    IN  /\ At(c, "owner") /\ tx[c].op # "delete" /\ WaitsFor(c) = {}
        /\ IF s.state # "live" \/ counted = s
           THEN Set(c, [tx[c] EXCEPT !.step = "commit"])
           ELSE Set(c, [tx[c] EXCEPT !.step = "commit", !.lock = "nokey", !.owner = counted])

\* The row an INSERT ... SELECT makes of the row it was given.
Successor(c) ==
    CASE tx[c].op = "ingest" -> PendingRow(tx[c].webhook, tx[c].sub, 1, 0, "now")
      [] tx[c].op = "retry" ->
            LET r == logs[tx[c].row] IN PendingRow(r.webhook, r.sub, r.attempt + 1, r.replay, "later")
      [] tx[c].op = "replay" ->
            LET r == logs[CHOOSE i \in DOMAIN tx[c].image : TRUE]
            IN  PendingRow(r.webhook, r.sub, 1, r.replay + 1, "now")

\* INSERT INTO delivery_logs, with its foreign-key check.
InsertRow(c) ==
    /\ At(c, "insert") /\ WaitsFor(c) = {}
    /\ IF subs[tx[c].sub].state = "live"
       THEN Set(c, [tx[c] EXCEPT !.step = "commit", !.lock = "keyshare", !.new = Successor(c)])
       ELSE End(c)

\* Mutant: Delete commits its DELETE, and removes the rows with a statement after it.
LockOwnerAlone(c) ==
    /\ At(c, "owner") /\ tx[c].op = "delete" /\ WaitsFor(c) = {}
    /\ IF subs[tx[c].sub].state = "live"
       THEN /\ subs' = [subs EXCEPT ![tx[c].sub] = [state |-> "gone", active |-> FALSE, failures |-> 0]]
            /\ tx' = [tx EXCEPT ![c].step = "cascade"]
            /\ UNCHANGED <<logs, nextId, idem, minted, faults>>
       ELSE End(c)

\* DELETE FROM subscriptions.
LockOwner(c) ==
    /\ At(c, "owner") /\ tx[c].op = "delete" /\ WaitsFor(c) = {}
    /\ IF subs[tx[c].sub].state = "live"
       THEN Set(c, [tx[c] EXCEPT !.step = "cascade", !.lock = "update",
                                 !.owner = [state |-> "gone", active |-> FALSE, failures |-> 0]])
       ELSE End(c)

\* ON DELETE CASCADE, one row after the other.
Cascade(c) ==
    LET held == DOMAIN tx[c].image
    IN  /\ At(c, "cascade")
        /\ \/ \E i \in Rows(tx[c].sub) \ held :
                /\ RowHolders(c, i) = {}
                /\ Set(c, [tx[c] EXCEPT !.image = [j \in held \cup {i} |-> NoRow]])
           \/ /\ Rows(tx[c].sub) \subseteq held
              /\ Set(c, [tx[c] EXCEPT !.step = "commit"])

\* Everything the transaction wrote becomes visible.  A commit whose
\* answer is lost is this step too.  Room has left a row for it.
Commit(c) ==
    LET t == tx[c]
    IN  /\ At(c, "commit")
        /\ t.new # NoRow => nextId \in RowIds
        /\ logs' = [i \in RowIds |-> IF i \in DOMAIN t.image THEN t.image[i]
                                     ELSE IF t.new # NoRow /\ i = nextId THEN t.new ELSE logs[i]]
        /\ nextId' = IF t.new # NoRow THEN nextId + 1 ELSE nextId
        /\ subs' = IF t.owner = NoSub THEN subs ELSE [subs EXCEPT ![t.sub] = t.owner]
        /\ idem' = [e \in Subs \X Keys |->
                        IF t.op = "delete" /\ e[1] = t.sub THEN None
                        ELSE IF t.slot /\ e = <<t.sub, t.key>> THEN t.webhook ELSE idem[e]]
        /\ minted' = IF t.op = "ingest" THEN minted \cup {t.webhook} ELSE minted
        /\ tx' = [tx EXCEPT ![c] = NoTx]
        /\ UNCHANGED faults

Statement(c) ==
    \/ InsertKey(c)
    \/ CheckKey(c)
    \/ SelectKey(c)
    \/ Cas(c)
    \/ Count(c)
    \/ InsertRow(c)
    \/ LockOwner(c)
    \/ Cascade(c)
    \/ Commit(c)

\* inTx's deferred Rollback, or the server's when the connection is gone.
Rollback(c) ==
    /\ Open(c) /\ faults < MaxFaults
    /\ tx' = [tx EXCEPT ![c] = NoTx]
    /\ faults' = faults + 1
    /\ UNCHANGED storeVars

\* The server aborts a member of a wait cycle.
DeadlockVictim(c) ==
    /\ \E C \in SUBSET Clients : c \in C /\ Deadlocked(C)
    /\ End(c)

-----------------------------------------------------------------------------
(* Statements that are transactions of their own.  Those that only change  *)
(* next_retry_at, which no transaction reads, and the retention sweeps are *)
(* left to DeliveryStore.                                                  *)

Unlocked(i) == \A c \in Clients : i \notin DOMAIN tx[c].image

SingleStatement ==
    /\ \/ \E i \in RowIds : Unlocked(i) /\ MarkDropped(i)
       \/ \E s \in Subs, w \in Webhooks, i \in RowIds : Unlocked(i) /\ AckDLQ(s, w, i)
       \/ \E s \in Subs, a \in BOOLEAN : CreateSubscription(s, a)
       \/ \E s \in Subs, a \in BOOLEAN : StripeFree(s) /\ UpdateSubscription(s, a)
       \/ \E P \in SUBSET (Subs \X Keys) : PruneIdempotency(P)
    /\ UNCHANGED <<tx, faults>>

BeginSome(c) ==
    \/ \E s \in Subs, k \in Keys \cup {None}, w \in Webhooks : BeginIngest(c, s, k, w)
    \/ \E i \in RowIds : BeginOutcome(c, i)
    \/ \E s \in Subs, w \in Webhooks : BeginReplay(c, s, w)
    \/ \E s \in Subs : BeginDelete(c, s)

Next ==
    \/ \E c \in Clients : BeginSome(c) \/ Statement(c) \/ Rollback(c) \/ DeadlockVictim(c)
    \/ SingleStatement

\* The server looks for wait cycles, and gives a row to the statement that has
\* waited for it longest, so that later ones do not overtake it for ever.
Fairness == \A c \in Clients : SF_vars(Statement(c)) /\ WF_vars(DeadlockVictim(c))

Spec == Init /\ [][Next]_vars /\ Fairness
-----------------------------------------------------------------------------

\* What the statements of a transaction do between them is one step of
\* DeliveryStore, whatever other transactions do in between: a won CAS still holds
\* at the commit, the counter is the one that was counted from, a key and its row
\* appear together, and a transaction that is rolled back leaves nothing.
ImplementsStore == StoreSpec

\* A transaction that has won its row finds its subscription there until it ends,
\* also while the subscription is being deleted: FinalizeFailure's "Subscription
\* vanished" case never happens, and a successor's foreign key never fails.
WonRowKeepsItsSubscription ==
    \A c \in Clients :
        tx[c].op # "delete" /\ DOMAIN tx[c].image # {} =>
            /\ subs[tx[c].sub].state = "live"
            /\ \A i \in DOMAIN tx[c].image : Present(i)

\* Transactions wait for each other in a circle only where a subscription is
\* deleted while a retry or a replay of it has locked its row and has yet to insert
\* the next one; MarkSuccess and FinalizeFailure are kept out by the stripe.
CyclesNeedDeleteAndInsert ==
    \A C \in SUBSET Clients : Deadlocked(C) =>
        /\ \E c \in C : tx[c].op = "delete"
        /\ \E c \in C : tx[c].op \in {"retry", "replay"}
        /\ \A c \in C : tx[c].op \notin {"success", "final"}

\* Every transaction ends: by its commit, with nothing to do, or as a victim.
EveryTransactionEnds == \A c \in Clients : Open(c) ~> ~Open(c)
=============================================================================
