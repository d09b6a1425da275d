-------------------------- MODULE StatementProofs --------------------------
(***************************************************************************)
(* The statements of one transaction at a time: what each reads and locks  *)
(* keeps the invariant of TransactionsProofs, and what a transaction has   *)
(* noted when it commits is one step of DeliveryStore.                     *)
(*                                                                         *)
(* The invariant says of every open transaction that what it has read      *)
(* still holds (Holds), because of the locks and the stripe, which keep    *)
(* any two of them apart (Apart).  Its commit changes no row and no        *)
(* subscription but those it holds and the row it inserts (Framed).        *)
(***************************************************************************)
EXTENDS Transactions, TLAPS

Inserting == {"ingest", "retry", "replay"}

Striped == {"success", "final", "delete"}

Deleted == [state |-> "gone", active |-> FALSE, failures |-> 0]

TxRecord == [op: Ops, step: TransactionSteps, row: RowIds \cup {0}, sub: Subs \cup {None},
             key: Keys \cup {None}, webhook: Webhooks \cup {None},
             image: UNION {[D -> Row] : D \in SUBSET RowIds}, new: Row, owner: Subscription,
             lock: Locks, slot: BOOLEAN]

\* An ingest owns its webhook id and its key until it commits.
IngestHolds(c) ==
    LET t == tx[c]
    IN  /\ t.step \in {"key", "keyCheck", "select", "insert", "commit"}
        /\ t.key = None => t.step \in {"insert", "commit"}
        /\ t.slot = TRUE <=> t.key # None /\ t.step \in {"keyCheck", "insert", "commit"}
        /\ t.sub \in Subs /\ t.webhook \in Webhooks /\ t.webhook \notin minted
        /\ t.slot = TRUE => idem[<<t.sub, t.key>>] = None
        /\ DOMAIN t.image = {} /\ t.owner = NoSub
        /\ t.lock = IF t.step = "commit" \/ (t.step = "insert" /\ t.key # None)
                    THEN "keyshare" ELSE "none"
        /\ t.new = IF t.step = "commit" THEN PendingRow(t.webhook, t.sub, 1, 0, "now") ELSE NoRow

\* A won row is still pending, and is what the transaction's image was made of.
RowHolds(c) ==
    LET t == tx[c]
    IN  /\ t.slot = FALSE /\ t.sub \in Subs
        /\ t.row \in RowIds /\ t.row < nextId
        /\ Present(t.row) => /\ logs[t.row].sub = t.sub
                             /\ t.op = "retry" => logs[t.row].attempt < MaxRetryAttempts
                             /\ t.op = "final" => logs[t.row].attempt >= MaxRetryAttempts
        /\ t.step = "cas" => DOMAIN t.image = {} /\ t.lock = "none"
        /\ t.step # "cas" => /\ DOMAIN t.image = {t.row} /\ Pending(t.row)
                             /\ t.image[t.row] = Settle(t.op, logs[t.row])

\* The counter is the one that was counted from: the stripe keeps others off it.
OutcomeHolds(c) ==
    LET t == tx[c]
    IN  /\ RowHolds(c)
        /\ t.step \in {"cas", "owner", "commit"} /\ t.new = NoRow
        /\ t.step = "owner" => t.lock = "none"
        /\ t.step # "commit" => t.owner = NoSub
        /\ t.step = "commit" =>
            \/ t.owner = NoSub /\ t.lock = "none" /\ Counted(t.op, subs[t.sub]) = subs[t.sub]
            \/ t.owner = Counted(t.op, subs[t.sub]) /\ t.lock = "nokey"

RetryHolds(c) ==
    LET t == tx[c]
    IN  /\ RowHolds(c)
        /\ t.step \in {"cas", "insert", "commit"} /\ t.owner = NoSub
        /\ t.step # "commit" => t.new = NoRow /\ t.lock = "none"
        /\ t.step = "commit" =>
            /\ t.lock = "keyshare"
            /\ t.new = PendingRow(logs[t.row].webhook, t.sub, logs[t.row].attempt + 1,
                                  logs[t.row].replay, "later")

\* The dead letters a replay has locked are those of its webhook.
ReplayHolds(c) ==
    LET t == tx[c]
    IN  /\ t.step \in {"cas", "insert", "commit"} /\ t.owner = NoSub /\ t.slot = FALSE
        /\ t.sub \in Subs /\ t.webhook \in Webhooks
        /\ t.step = "cas" => DOMAIN t.image = {}
        /\ t.step # "cas" =>
            /\ DOMAIN t.image = InDLQ(t.sub, t.webhook) /\ DOMAIN t.image # {}
            /\ \A i \in DOMAIN t.image : t.image[i] = Settle("replay", logs[i])
        /\ t.step # "commit" => t.new = NoRow /\ t.lock = "none"
        /\ t.step = "commit" =>
            /\ t.lock = "keyshare"
            /\ \A i \in DOMAIN t.image :
                t.new = PendingRow(t.webhook, t.sub, 1, logs[i].replay + 1, "now")

\* The rows a deletion has locked are of its subscription, in the end all of them.
DeleteHolds(c) ==
    LET t == tx[c]
    IN  /\ t.step \in {"owner", "cascade", "commit"} /\ t.slot = FALSE /\ t.new = NoRow
        /\ t.sub \in Subs
        /\ \A i \in DOMAIN t.image : t.image[i] = NoRow /\ logs[i].sub = t.sub
        /\ t.step = "owner" => DOMAIN t.image = {} /\ t.lock = "none" /\ t.owner = NoSub
        /\ t.step # "owner" => t.lock = "update" /\ t.owner = Deleted
        /\ t.step = "commit" => Rows(t.sub) \subseteq DOMAIN t.image

Holds(c) ==
    /\ tx[c] \in TxRecord
    /\ tx[c].op = "none" => tx[c] = NoTx
    /\ tx[c].op = "ingest" => IngestHolds(c)
    /\ tx[c].op \in {"success", "final"} => OutcomeHolds(c)
    /\ tx[c].op = "retry" => RetryHolds(c)
    /\ tx[c].op = "replay" => ReplayHolds(c)
    /\ tx[c].op = "delete" => DeleteHolds(c)
    /\ tx[c].lock # "none" => subs[tx[c].sub].state = "live"

\* Two transactions hold no row, no subscription in conflicting modes, no key, no
\* webhook id and no stripe in common.
Apart(c, d) ==
    /\ DOMAIN tx[c].image \cap DOMAIN tx[d].image = {}
    /\ tx[c].sub = tx[d].sub =>
        /\ <<tx[c].lock, tx[d].lock>> \notin Incompatible
        /\ ~(tx[c].op \in Striped /\ tx[d].op \in Striped)
        /\ tx[c].slot = TRUE /\ tx[d].slot = TRUE => tx[c].key # tx[d].key
    /\ tx[c].op = "ingest" /\ tx[d].op = "ingest" => tx[c].webhook # tx[d].webhook

\* A row's subscription is there, and a row's replay number is below its id.
TablesHold ==
    /\ StoreInv
    /\ \A i \in RowIds : Present(i) => subs[logs[i].sub].state = "live" /\ logs[i].replay < i

TxInv ==
    /\ TablesHold
    /\ DOMAIN tx = Clients
    /\ \A c \in Clients : Holds(c)
    /\ \A c, d \in Clients : c # d => Apart(c, d)

USE DEF Present, Pending, Live

-----------------------------------------------------------------------------
(* Steps of one transaction that leave the tables alone. *)

\* No row in sight, nothing held.
LEMMA NoTxFacts ==
    /\ NoTx \in TxRecord
    /\ NoTx.op = "none" /\ NoTx.step = "none" /\ NoTx.row = 0 /\ NoTx.sub = None
    /\ NoTx.key = None /\ NoTx.webhook = None /\ DOMAIN NoTx.image = {}
    /\ NoTx.new = NoRow /\ NoTx.owner = NoSub /\ NoTx.lock = "none" /\ NoTx.slot = FALSE
<1>1. NoRow \in Row
  BY DEF NoRow, Row, Statuses, DueTimes
<1>2. NoSub \in Subscription
  BY DEF NoSub, Subscription
<1>3. <<>> \in UNION {[D -> Row] : D \in SUBSET RowIds} /\ DOMAIN <<>> = {}
  <2>1. DOMAIN <<>> = {}
    OBVIOUS
  <2>2. <<>> \in [{} -> Row]
    OBVIOUS
  <2> QED BY <2>1, <2>2
<1> QED BY Zenon, <1>1, <1>2, <1>3 DEF NoTx, TxRecord, Ops, TransactionSteps, Locks

\* What the store relies on stays true while the tables stay as they are.
LEMMA TablesSame ==
    ASSUME StoreInv, UNCHANGED storeVars
    PROVE  StoreInv'
<1>1. /\ logs' = logs /\ subs' = subs /\ idem' = idem /\ minted' = minted /\ nextId' = nextId
  BY DEF storeVars
<1>2. StoreTypeOK'
  BY Zenon, <1>1 DEF StoreInv, StoreTypeOK
<1>3. Shape'
  BY Zenon, <1>1 DEF StoreInv, Shape, SameWebhook
<1>4. NewestRowIsCurrent'
  BY Zenon, <1>1 DEF StoreInv, NewestRowIsCurrent, SameWebhook, Precedes
<1>6. RetryHasSuccessor'
  BY Zenon, <1>1 DEF StoreInv, RetryHasSuccessor, SameWebhook
<1>5. BudgetRespected' /\ KeyNamesAcceptedWebhook'
  BY Zenon, <1>1 DEF StoreInv, BudgetRespected, KeyNamesAcceptedWebhook
<1> QED BY <1>2, <1>3, <1>4, <1>5, <1>6 DEF StoreInv

\* A step of c that changes no table.
LEMMA LocalStep ==
    ASSUME TxInv, NEW c \in Clients, UNCHANGED storeVars, DOMAIN tx' = Clients,
           \A d \in Clients : d # c => tx'[d] = tx[d],
           Holds(c)', \A d \in Clients : d # c => Apart(c, d)'
    PROVE  TxInv'
<1>1. /\ logs' = logs /\ subs' = subs /\ idem' = idem /\ minted' = minted /\ nextId' = nextId
  BY DEF storeVars
<1>2. TablesHold'
  <2>1. StoreInv'
    BY Zenon, TablesSame DEF TxInv, TablesHold
  <2>2. (\A i \in RowIds : Present(i) => subs[logs[i].sub].state = "live" /\ logs[i].replay < i)'
    BY <1>1 DEF TxInv, TablesHold
  <2> QED BY <2>1, <2>2 DEF TablesHold
<1>3. ASSUME NEW d \in Clients, d # c PROVE Holds(d)'
  <2>1. Holds(d) /\ tx'[d] = tx[d]
    BY <1>3 DEF TxInv
  <2>2. IngestHolds(d) => IngestHolds(d)'
    BY ZenonT(40), <1>1, <2>1 DEF IngestHolds
  <2>3. RowHolds(d) => RowHolds(d)'
    BY Zenon, <1>1, <2>1 DEF RowHolds
  <2>4. OutcomeHolds(d) => OutcomeHolds(d)'
    BY Zenon, <1>1, <2>1, <2>3 DEF OutcomeHolds
  <2>5. RetryHolds(d) => RetryHolds(d)'
    BY Zenon, <1>1, <2>1, <2>3 DEF RetryHolds
  <2>6. ReplayHolds(d) => ReplayHolds(d)'
    BY ZenonT(40), <1>1, <2>1 DEF ReplayHolds, InDLQ
  <2>7. DeleteHolds(d) => DeleteHolds(d)'
    BY <1>1, <2>1 DEF DeleteHolds, Rows
  <2> QED BY <1>1, <2>1, <2>2, <2>4, <2>5, <2>6, <2>7 DEF Holds
<1>4. ASSUME NEW d \in Clients, NEW e \in Clients, d # e PROVE Apart(d, e)'
  <2>1. CASE d = c
    BY Zenon, <1>4, <2>1
  <2>2. CASE e = c
    <3>1. Apart(c, d)'
      BY Zenon, <1>4, <2>2
    <3> QED BY <2>2, <3>1 DEF Apart, Incompatible
  <2>3. CASE d # c /\ e # c
    BY <1>4, <2>3 DEF TxInv, Apart
  <2> QED BY <2>1, <2>2, <2>3
<1> QED BY <1>2, <1>3, <1>4 DEF TxInv

\* A transaction that ends without a commit.
LEMMA ClosedStep ==
    ASSUME TxInv, NEW c \in Clients, UNCHANGED storeVars, tx' = [tx EXCEPT ![c] = NoTx]
    PROVE  TxInv'
<1>1. /\ DOMAIN tx' = Clients /\ tx'[c] = NoTx
      /\ \A d \in Clients : d # c => tx'[d] = tx[d]
  BY DEF TxInv
<1>2. Holds(c)'
  BY Zenon, <1>1, NoTxFacts DEF Holds
<1>3. ASSUME NEW d \in Clients, d # c PROVE Apart(c, d)'
  BY <1>1, NoTxFacts DEF Apart, Incompatible, Striped
<1> QED BY <1>1, <1>2, <1>3, LocalStep

\* A transaction that has only begun holds neither row nor lock nor key.
LEMMA BeginStep ==
    ASSUME TxInv, NEW c \in Clients, ~Open(c), UNCHANGED storeVars, NEW t,
           tx' = [tx EXCEPT ![c] = t],
           Holds(c)', DOMAIN t.image = {}, t.lock = "none", t.slot = FALSE,
           t.op \in Striped => StripeFree(t.sub),
           t.op = "ingest" => \A d \in Clients : tx[d].op = "ingest" => tx[d].webhook # t.webhook
    PROVE  TxInv'
<1>1. /\ DOMAIN tx' = Clients /\ tx'[c] = t
      /\ \A d \in Clients : d # c => tx'[d] = tx[d]
  BY Zenon DEF TxInv
<1>2. ASSUME NEW d \in Clients, d # c PROVE Apart(c, d)'
  <2>1. tx'[d] = tx[d] /\ tx'[c] = t
    BY <1>1, <1>2
  <2>2. t.op \in Striped /\ tx[d].op \in Striped => tx[d].sub # t.sub
    BY DEF StripeFree, Striped
  <2> QED BY <2>1, <2>2 DEF Apart, Incompatible
<1> QED BY <1>1, <1>2, LocalStep

\* An ingest begins with a webhook id nobody else has.
LEMMA BeginIngestStep ==
    ASSUME TxInv, NEW c \in Clients, NEW s \in Subs, NEW k \in Keys \cup {None}, NEW w \in Webhooks,
           BeginIngest(c, s, k, w)
    PROVE  TxInv'
<1> DEFINE t == [NoTx EXCEPT !.op = "ingest", !.step = IF k = None THEN "insert" ELSE "key",
                             !.sub = s, !.key = k, !.webhook = w]
<1>1. /\ t \in TxRecord /\ t.op = "ingest" /\ t.step = (IF k = None THEN "insert" ELSE "key")
      /\ t.sub = s /\ t.key = k /\ t.webhook = w /\ DOMAIN t.image = {} /\ t.new = NoRow
      /\ t.owner = NoSub /\ t.lock = "none" /\ t.slot = FALSE
  BY ZenonT(40), NoTxFacts DEF TxRecord, Ops, TransactionSteps
<1>2. /\ tx' = [tx EXCEPT ![c] = t] /\ UNCHANGED storeVars /\ ~Open(c)
      /\ w \notin minted /\ \A d \in Clients : tx[d].op = "ingest" => tx[d].webhook # w
  BY DEF BeginIngest
<1> HIDE DEF t
<1>3. tx'[c] = t
  BY <1>2 DEF TxInv
<1>4. IngestHolds(c)'
  <2>1. minted' = minted
    BY <1>2 DEF storeVars
  <2>2. CASE k = None
    BY <1>1, <1>2, <1>3, <2>1, <2>2 DEF IngestHolds
  <2>3. CASE k # None
    BY <1>1, <1>2, <1>3, <2>1, <2>3 DEF IngestHolds
  <2> QED BY <2>2, <2>3
<1>5. Holds(c)'
  BY <1>1, <1>3, <1>4 DEF Holds
<1> QED BY Zenon, <1>1, <1>2, <1>5, BeginStep DEF Striped

\* The outcome of an attempt begins with the row that was loaded.
LEMMA BeginOutcomeStep ==
    ASSUME TxInv, NEW c \in Clients, NEW i \in RowIds, BeginOutcome(c, i)
    PROVE  TxInv'
<1>1. PICK op \in {"success", IF logs[i].attempt < MaxRetryAttempts THEN "retry" ELSE "final"} :
        /\ IF op = "retry" THEN Room ELSE StripeFree(logs[i].sub)
        /\ Begin(c, [NoTx EXCEPT !.op = op, !.step = "cas", !.row = i, !.sub = logs[i].sub])
  BY Zenon DEF BeginOutcome
<1> DEFINE t == [NoTx EXCEPT !.op = op, !.step = "cas", !.row = i, !.sub = logs[i].sub]
<1>2. /\ Present(i) /\ logs[i].sub \in Subs /\ i < nextId
      /\ nextId \in Nat /\ logs[i].attempt \in Nat
  BY DEF BeginOutcome, TxInv, TablesHold, StoreInv, StoreTypeOK, Shape, RowIds, Row, NoRow
<1>3. /\ op \in {"success", "retry", "final"}
      /\ op = "retry" => logs[i].attempt < MaxRetryAttempts
      /\ op = "final" => logs[i].attempt >= MaxRetryAttempts
  BY <1>1, <1>2, StoreAssumption
<1>4. /\ t \in TxRecord /\ t.op = op /\ t.step = "cas" /\ t.row = i /\ t.sub = logs[i].sub
      /\ DOMAIN t.image = {} /\ t.new = NoRow /\ t.owner = NoSub /\ t.lock = "none" /\ t.slot = FALSE
  BY ZenonT(40), <1>2, <1>3, NoTxFacts DEF TxRecord, Ops, TransactionSteps
<1>5. tx' = [tx EXCEPT ![c] = t] /\ UNCHANGED storeVars /\ ~Open(c)
  BY <1>1 DEF Begin, Set
<1> HIDE DEF t
<1>6. tx'[c] = t
  BY <1>5 DEF TxInv
<1>7. RowHolds(c)'
  BY <1>2, <1>3, <1>4, <1>5, <1>6 DEF RowHolds, storeVars
<1>8. Holds(c)'
  BY <1>3, <1>4, <1>6, <1>7 DEF Holds, OutcomeHolds, RetryHolds
<1>9. t.op \in Striped => StripeFree(t.sub)
  BY <1>1, <1>3, <1>4 DEF Striped
<1> QED BY Zenon, <1>3, <1>4, <1>5, <1>8, <1>9, BeginStep

\* A replay begins with a webhook and its subscription.
LEMMA BeginReplayStep ==
    ASSUME TxInv, NEW c \in Clients, NEW s \in Subs, NEW w \in Webhooks, BeginReplay(c, s, w)
    PROVE  TxInv'
<1> DEFINE t == [NoTx EXCEPT !.op = "replay", !.step = "cas", !.sub = s, !.webhook = w]
<1>1. /\ t \in TxRecord /\ t.op = "replay" /\ t.step = "cas" /\ t.sub = s /\ t.webhook = w
      /\ DOMAIN t.image = {} /\ t.new = NoRow /\ t.owner = NoSub /\ t.lock = "none" /\ t.slot = FALSE
  BY Zenon, NoTxFacts DEF TxRecord, Ops, TransactionSteps
<1>2. tx' = [tx EXCEPT ![c] = t] /\ UNCHANGED storeVars /\ ~Open(c)
  BY DEF BeginReplay, Begin, Set
<1> HIDE DEF t
<1>3. tx'[c] = t
  BY <1>2 DEF TxInv
<1>4. Holds(c)'
  BY <1>1, <1>3 DEF Holds, ReplayHolds
<1> QED BY Zenon, <1>1, <1>2, <1>4, BeginStep DEF Striped

\* A deletion begins with the stripe.
LEMMA BeginDeleteStep ==
    ASSUME TxInv, NEW c \in Clients, NEW s \in Subs, BeginDelete(c, s)
    PROVE  TxInv'
<1> DEFINE t == [NoTx EXCEPT !.op = "delete", !.step = "owner", !.sub = s]
<1>1. /\ t \in TxRecord /\ t.op = "delete" /\ t.step = "owner" /\ t.sub = s
      /\ DOMAIN t.image = {} /\ t.new = NoRow /\ t.owner = NoSub /\ t.lock = "none" /\ t.slot = FALSE
  BY ZenonT(40), NoTxFacts DEF TxRecord, Ops, TransactionSteps
<1>2. tx' = [tx EXCEPT ![c] = t] /\ UNCHANGED storeVars /\ ~Open(c) /\ StripeFree(s)
  BY DEF BeginDelete, Begin, Set
<1> HIDE DEF t
<1>3. tx'[c] = t
  BY <1>2 DEF TxInv
<1>4. Holds(c)'
  BY <1>1, <1>3 DEF Holds, DeleteHolds
<1> QED BY Zenon, <1>1, <1>2, <1>4, BeginStep

\* Which transactions a statement belongs to.
LEMMA StepOfOp ==
    ASSUME NEW c \in Clients, Holds(c)
    PROVE  /\ tx[c].step \in {"key", "keyCheck", "select"} => tx[c].op = "ingest"
           /\ tx[c].step = "cas" => tx[c].op \in {"success", "final", "retry", "replay"}
           /\ tx[c].step = "owner" => tx[c].op \in {"success", "final", "delete"}
           /\ tx[c].step = "insert" => tx[c].op \in {"ingest", "retry", "replay"}
           /\ tx[c].step = "cascade" => tx[c].op = "delete"
           /\ tx[c].step = "commit" => tx[c].op # "none"
<1>1. tx[c].op \in Ops /\ (tx[c].op = "none" => tx[c].step = "none")
  BY NoTxFacts DEF Holds, TxRecord
<1>2. tx[c].op = "ingest" => tx[c].step \in {"key", "keyCheck", "select", "insert", "commit"}
  BY ZenonT(40) DEF Holds, IngestHolds
<1>3. tx[c].op \in {"success", "final"} => tx[c].step \in {"cas", "owner", "commit"}
  BY Zenon DEF Holds, OutcomeHolds
<1>4. tx[c].op = "retry" => tx[c].step \in {"cas", "insert", "commit"}
  BY Zenon DEF Holds, RetryHolds
<1>5. tx[c].op = "replay" => tx[c].step \in {"cas", "insert", "commit"}
  BY DEF Holds, ReplayHolds
<1>6. tx[c].op = "delete" => tx[c].step \in {"owner", "cascade", "commit"}
  BY ZenonT(40) DEF Holds, DeleteHolds
<1> QED BY Zenon, <1>1, <1>2, <1>3, <1>4, <1>5, <1>6 DEF Ops

\* Whom each statement waits for.
LEMMA WaitsForWhom ==
    ASSUME NEW c \in Clients
    PROVE  /\ At(c, "key") => WaitsFor(c) = KeyHolders(c)
           /\ At(c, "keyCheck") \/ At(c, "insert") => WaitsFor(c) = OwnerHolders(c, "keyshare")
           /\ At(c, "cas") => WaitsFor(c) = UNION {RowHolders(c, i) : i \in Target(c)}
           /\ At(c, "owner") /\ tx[c].op = "delete" => WaitsFor(c) = OwnerHolders(c, "update")
           /\ At(c, "owner") /\ tx[c].op # "delete" => WaitsFor(c) = OwnerHolders(c, "nokey")
           /\ At(c, "cascade") => WaitsFor(c) = UNION {RowHolders(c, i) : i \in Rows(tx[c].sub)}
           /\ At(c, "select") \/ At(c, "commit") \/ At(c, "none") => WaitsFor(c) = {}
BY Zenon DEF WaitsFor, At

\* A statement of c that takes only locks which nobody else's exclude.
LEMMA AdvanceStep ==
    ASSUME TxInv, NEW c \in Clients, NEW t, Set(c, t),
           t.op = tx[c].op, t.sub = tx[c].sub, t.key = tx[c].key, t.webhook = tx[c].webhook,
           \A i \in DOMAIN t.image : i \in DOMAIN tx[c].image \/ RowHolders(c, i) = {},
           t.lock = tx[c].lock \/ OwnerHolders(c, t.lock) = {},
           t.slot = tx[c].slot \/ KeyHolders(c) = {},
           Holds(c)'
    PROVE  TxInv'
<1>1. /\ DOMAIN tx' = Clients /\ tx'[c] = t /\ UNCHANGED storeVars
      /\ \A d \in Clients : d # c => tx'[d] = tx[d]
  BY Zenon DEF TxInv, Set
<1>2. ASSUME NEW d \in Clients, d # c PROVE Apart(c, d)'
  <2>1. Apart(c, d) /\ tx'[d] = tx[d] /\ tx'[c] = t
    BY Zenon, <1>1, <1>2 DEF TxInv
  <2>2. DOMAIN t.image \cap DOMAIN tx[d].image = {}
    BY Zenon, <1>2, <2>1 DEF Apart, RowHolders, Others
  <2>3. t.sub = tx[d].sub => <<t.lock, tx[d].lock>> \notin Incompatible
    BY ZenonT(40), <1>2, <2>1 DEF Apart, OwnerHolders, Others
  <2>4. t.sub = tx[d].sub /\ t.slot = TRUE /\ tx[d].slot = TRUE => t.key # tx[d].key
    BY <1>2, <2>1 DEF Apart, KeyHolders, Others
  <2> QED BY ZenonT(40), <2>1, <2>2, <2>3, <2>4 DEF Apart
<1> QED BY <1>1, <1>2, LocalStep

\* The key's INSERT: nobody else has inserted it.
LEMMA InsertKeyStep ==
    ASSUME TxInv, NEW c \in Clients, InsertKey(c)
    PROVE  TxInv'
<1>1. Holds(c) /\ tx[c] \in TxRecord /\ tx[c].step = "key" /\ tx[c].op = "ingest"
  BY SMTT(30), StepOfOp DEF TxInv, Holds, InsertKey, At
<1>2. /\ IngestHolds(c) /\ tx[c].key # None /\ tx[c].lock = "none" /\ tx[c].new = NoRow
      /\ tx[c].slot \in BOOLEAN /\ tx[c].slot # TRUE
  BY Zenon, <1>1 DEF Holds, IngestHolds, TxRecord
<1>3. KeyHolders(c) = {}
  BY WaitsForWhom DEF InsertKey
<1>4. ASSUME NEW t, NEW step \in {"keyCheck", "select"}, Set(c, t),
             t = [tx[c] EXCEPT !.step = step, !.slot = (step = "keyCheck")],
             step = "keyCheck" => idem[<<tx[c].sub, tx[c].key>>] = None
      PROVE  TxInv'
  <2>1. /\ t \in TxRecord /\ t.op = "ingest" /\ t.step = step
        /\ t.sub = tx[c].sub /\ t.key = tx[c].key /\ t.webhook = tx[c].webhook
        /\ t.image = tx[c].image /\ t.new = tx[c].new /\ t.owner = tx[c].owner
        /\ t.lock = tx[c].lock /\ t.slot = (step = "keyCheck")
    BY ZenonT(40), <1>1, <1>4 DEF TxRecord, TransactionSteps
  <2>2. tx'[c] = t /\ idem' = idem /\ minted' = minted
    BY <1>4 DEF TxInv, Set, storeVars
  <2>3. IngestHolds(c)'
    <3>1. CASE step = "keyCheck"
      <4>1. t.slot = TRUE /\ t.step = "keyCheck"
        BY Zenon, <2>1, <3>1
      <4>2. idem'[<<t.sub, t.key>>] = None
        BY Zenon, <1>4, <2>1, <2>2, <3>1
      <4> QED BY ZenonT(40), <1>2, <2>1, <2>2, <4>1, <4>2 DEF IngestHolds
    <3>2. CASE step = "select"
      BY ZenonT(40), <1>2, <1>4, <2>1, <2>2, <3>2 DEF IngestHolds
    <3> QED BY ZenonT(40), <3>1, <3>2
  <2>4. Holds(c)'
    BY <1>2, <2>1, <2>2, <2>3 DEF Holds
  <2> QED BY ZenonT(40), <1>1, <1>3, <1>4, <2>1, <2>4, AdvanceStep
<1>5. CASE idem[<<tx[c].sub, tx[c].key>>] = None
  <2>1. Set(c, [tx[c] EXCEPT !.step = "keyCheck", !.slot = TRUE])
    BY <1>5 DEF InsertKey
  <2> QED BY Zenon, <1>4, <1>5, <2>1
<1>6. CASE idem[<<tx[c].sub, tx[c].key>>] # None
  <2>1. Set(c, [tx[c] EXCEPT !.step = "select"])
    BY <1>6 DEF InsertKey
  <2>2. [tx[c] EXCEPT !.step = "select"] = [tx[c] EXCEPT !.step = "select", !.slot = ("select" = "keyCheck")]
    BY ZenonT(40), <1>1, <1>2 DEF TxRecord
  <2> QED BY <1>4, <2>1, <2>2
<1> QED BY Zenon, <1>5, <1>6

\* The key's foreign-key check.
LEMMA CheckKeyStep ==
    ASSUME TxInv, NEW c \in Clients, CheckKey(c)
    PROVE  TxInv'
<1>1. Holds(c) /\ tx[c] \in TxRecord /\ tx[c].step = "keyCheck" /\ tx[c].op = "ingest"
  BY StepOfOp DEF TxInv, Holds, CheckKey, At
<1>2. /\ IngestHolds(c) /\ tx[c].key # None /\ tx[c].new = NoRow /\ tx[c].slot = TRUE
  BY <1>1 DEF Holds, IngestHolds
<1>3. OwnerHolders(c, "keyshare") = {}
  BY ZenonT(40), WaitsForWhom DEF CheckKey
<1>4. CASE subs[tx[c].sub].state = "live"
  <2> DEFINE t == [tx[c] EXCEPT !.step = "insert", !.lock = "keyshare"]
  <2>1. /\ t \in TxRecord /\ t.op = "ingest" /\ t.step = "insert"
        /\ t.sub = tx[c].sub /\ t.key = tx[c].key /\ t.webhook = tx[c].webhook
        /\ t.image = tx[c].image /\ t.new = tx[c].new /\ t.owner = tx[c].owner
        /\ t.lock = "keyshare" /\ t.slot = tx[c].slot
    BY Zenon, <1>1 DEF TxRecord, TransactionSteps, Locks
  <2>2. Set(c, t)
    BY <1>4 DEF CheckKey
  <2> HIDE DEF t
  <2>3. tx'[c] = t /\ idem' = idem /\ minted' = minted /\ subs' = subs
    BY <2>2 DEF TxInv, Set, storeVars
  <2>4. IngestHolds(c)'
    BY Zenon, <1>2, <2>1, <2>3 DEF IngestHolds
  <2>5. Holds(c)'
    BY Zenon, <1>4, <2>1, <2>3, <2>4 DEF Holds
  <2> QED BY Zenon, <1>1, <1>3, <2>1, <2>2, <2>5, AdvanceStep
<1>5. CASE subs[tx[c].sub].state # "live"
  BY <1>5, ClosedStep DEF CheckKey, End, Set
<1> QED BY <1>4, <1>5

\* The row or the dead letters that the UPDATE finds are nobody else's.
LEMMA CasStep ==
    ASSUME TxInv, NEW c \in Clients, Cas(c)
    PROVE  TxInv'
<1>1. Holds(c) /\ tx[c] \in TxRecord /\ tx[c].step = "cas"
  BY Zenon DEF TxInv, Holds, Cas, At
<1>2. tx[c].op \in {"success", "final", "retry", "replay"}
  BY <1>1, StepOfOp
<1>3. \A i \in Target(c) : RowHolders(c, i) = {}
  BY ZenonT(40), WaitsForWhom DEF Cas
<1>4. logs \in [RowIds -> Row]
  BY DEF TxInv, TablesHold, StoreInv, StoreTypeOK
<1>5. CASE Target(c) = {}
  BY ZenonT(40), <1>5, ClosedStep DEF Cas, End, Set
<1>6. CASE Target(c) # {}
  <2> DEFINE step == IF tx[c].op \in {"success", "final"} THEN "owner" ELSE "insert"
             image == [i \in Target(c) |-> Settle(tx[c].op, logs[i])]
             t == [tx[c] EXCEPT !.step = step, !.image = image]
  <2>1. Set(c, t)
    BY <1>6 DEF Cas
  <2>2. Target(c) \subseteq RowIds
    <3>1. CASE tx[c].op = "replay"
      BY Zenon, <3>1 DEF Target, InDLQ
    <3>2. CASE tx[c].op # "replay"
      <4>1. RowHolds(c)
        BY Zenon, <1>1, <1>2, <3>2 DEF Holds, OutcomeHolds, RetryHolds
      <4> QED BY ZenonT(40), <3>2, <4>1 DEF Target, RowHolds
    <3> QED BY <3>1, <3>2
  <2>3. image \in [Target(c) -> Row]
    <3>1. \A i \in Target(c) : Settle(tx[c].op, logs[i]) \in Row
      BY ZenonT(40), <1>2, <1>4, <2>2 DEF Settle, Row, Statuses
    <3> QED BY <3>1
  <2>4. image \in UNION {[D -> Row] : D \in SUBSET RowIds}
    BY <2>2, <2>3
  <2>5. step \in {"owner", "insert"} /\ (step = "owner" <=> tx[c].op \in {"success", "final"})
    OBVIOUS
  <2>6. DOMAIN image = Target(c) /\ \A i \in Target(c) : image[i] = Settle(tx[c].op, logs[i])
    OBVIOUS
  <2> HIDE DEF step, image
  <2>7. /\ t \in TxRecord /\ t.op = tx[c].op /\ t.step = step /\ t.row = tx[c].row
        /\ t.sub = tx[c].sub /\ t.key = tx[c].key /\ t.webhook = tx[c].webhook
        /\ t.image = image /\ t.new = tx[c].new /\ t.owner = tx[c].owner
        /\ t.lock = tx[c].lock /\ t.slot = tx[c].slot
    BY Zenon, <1>1, <2>4, <2>5 DEF TxRecord, TransactionSteps
  <2> HIDE DEF t
  <2>8. /\ tx'[c] = t /\ idem' = idem /\ minted' = minted /\ subs' = subs
        /\ logs' = logs /\ nextId' = nextId
    BY <2>1 DEF TxInv, Set, storeVars
  <2>9. Holds(c)'
    <3>1. ASSUME tx[c].op # "replay" PROVE RowHolds(c)'
      <4>1. RowHolds(c)
        BY <1>1, <1>2, <3>1 DEF Holds, OutcomeHolds, RetryHolds
      <4>2. Target(c) = {tx[c].row} /\ Pending(tx[c].row)
        BY <1>6, <3>1 DEF Target
      <4> QED BY ZenonT(40), <1>2, <2>5, <2>6, <2>7, <2>8, <4>1, <4>2 DEF RowHolds
    <3>2. CASE tx[c].op \in {"success", "final"}
      <4>1. OutcomeHolds(c)
        BY SMTT(30), <1>1, <3>2 DEF Holds
      <4>2. OutcomeHolds(c)'
        BY ZenonT(40), <1>1, <2>5, <2>7, <2>8, <3>1, <3>2, <4>1 DEF OutcomeHolds, RowHolds
      <4>3. t.lock = "none"
        BY ZenonT(40), <1>1, <2>7, <4>1 DEF OutcomeHolds, RowHolds
      <4> QED BY <2>7, <2>8, <3>2, <4>2, <4>3 DEF Holds
    <3>3. CASE tx[c].op = "retry"
      <4>1. RetryHolds(c)
        BY Zenon, <1>1, <3>3 DEF Holds
      <4>2. RetryHolds(c)' /\ t.lock = "none"
        BY Zenon, <1>1, <2>5, <2>7, <2>8, <3>1, <3>3, <4>1 DEF RetryHolds
      <4> QED BY Zenon, <2>7, <2>8, <3>3, <4>2 DEF Holds
    <3>4. CASE tx[c].op = "replay"
      <4>1. ReplayHolds(c)
        BY Zenon, <1>1, <3>4 DEF Holds
      <4>2. Target(c) = InDLQ(tx[c].sub, tx[c].webhook)
        BY Zenon, <3>4 DEF Target
      <4>3. InDLQ(tx[c].sub, tx[c].webhook)' = Target(c)
        BY Zenon, <2>7, <2>8, <4>2 DEF InDLQ
      <4>4. ReplayHolds(c)' /\ t.lock = "none"
        BY ZenonT(40), <1>1, <1>6, <2>5, <2>6, <2>7, <2>8, <3>4, <4>1, <4>3 DEF ReplayHolds
      <4> QED BY Zenon, <2>7, <2>8, <3>4, <4>4 DEF Holds
    <3> QED BY Zenon, <1>2, <3>2, <3>3, <3>4
  <2> QED BY Zenon, <1>3, <2>1, <2>6, <2>7, <2>9, AdvanceStep
<1> QED BY Zenon, <1>5, <1>6

\* A webhook has one live row.
LEMMA OnlyLive ==
    ASSUME TxInv, NEW i \in RowIds, NEW j \in RowIds, Live(i), Live(j),
           logs[i].webhook = logs[j].webhook
    PROVE  i = j
<1>1. Present(i) /\ Present(j) /\ SameWebhook(i, j) /\ SameWebhook(j, i)
  BY DEF TxInv, TablesHold, StoreInv, BudgetRespected, SameWebhook
<1>2. ~(i < j) /\ ~(j < i)
  BY <1>1 DEF TxInv, TablesHold, StoreInv, NewestRowIsCurrent
<1> QED BY <1>2 DEF RowIds

\* What is locked is there.
LEMMA HeldRows ==
    ASSUME TxInv, NEW c \in Clients
    PROVE  /\ \A i \in DOMAIN tx[c].image : i \in RowIds /\ Present(i) /\ logs[i].sub = tx[c].sub
           /\ tx[c].lock # "none" => tx[c].sub \in Subs
<1>1. Holds(c) /\ tx[c] \in TxRecord /\ tx[c].op \in Ops /\ DOMAIN tx[c].image \subseteq RowIds
  <2>1. Holds(c) /\ tx[c] \in TxRecord
    BY Zenon DEF TxInv, Holds
  <2>2. PICK t : t = tx[c]
    BY Zenon
  <2>3. t.op \in Ops /\ t.image \in UNION {[D -> Row] : D \in SUBSET RowIds}
    BY Zenon, <2>1, <2>2 DEF TxRecord
  <2>4. PICK D \in SUBSET RowIds : t.image \in [D -> Row]
    BY Zenon, <2>3
  <2>. QED
    BY Zenon, <2>1, <2>2, <2>3, <2>4
<1>2. CASE tx[c].op \in {"none", "ingest"}
  BY Zenon, <1>1, <1>2, NoTxFacts DEF Holds, IngestHolds
<1>3. CASE tx[c].op \in {"success", "final", "retry"}
  <2>1. RowHolds(c)
    BY Zenon, <1>1, <1>3 DEF Holds, OutcomeHolds, RetryHolds
  <2> QED BY Zenon, <2>1 DEF RowHolds
<1>4. CASE tx[c].op = "replay"
  <2>1. ReplayHolds(c)
    BY Zenon, <1>1, <1>4 DEF Holds
  <2>2. \A i \in InDLQ(tx[c].sub, tx[c].webhook) : i \in RowIds /\ Present(i) /\ logs[i].sub = tx[c].sub
    BY Zenon DEF InDLQ, TxInv, TablesHold, StoreInv, BudgetRespected
  <2> QED BY Zenon, <2>1, <2>2 DEF ReplayHolds
<1>5. CASE tx[c].op = "delete"
  <2>1. DeleteHolds(c)
    BY Zenon, <1>1, <1>5 DEF Holds
  <2>2. \A i \in RowIds : logs[i].sub \in Subs => Present(i)
    BY StoreAssumption DEF TxInv, TablesHold, StoreInv, Shape, NoRow
  <2> QED BY Zenon, <1>1, <2>1, <2>2 DEF DeleteHolds
<1> QED BY Zenon, <1>1, <1>2, <1>3, <1>4, <1>5 DEF Ops

\* The row a transaction has won has its subscription.
LEMMA WonRow ==
    ASSUME TxInv, NEW c \in Clients, RowHolds(c), tx[c].step # "cas"
    PROVE  /\ subs[tx[c].sub].state = "live" /\ subs[tx[c].sub] \in Subscription
           /\ logs[tx[c].row] \in Row /\ logs[tx[c].row].sub = tx[c].sub
           /\ Pending(tx[c].row) /\ tx[c].row \in RowIds /\ tx[c].sub \in Subs
<1>1. /\ Pending(tx[c].row) /\ tx[c].row \in RowIds /\ tx[c].sub \in Subs
      /\ logs[tx[c].row].sub = tx[c].sub
  BY DEF RowHolds
<1>2. logs[tx[c].row] \in Row /\ subs[tx[c].sub] \in Subscription
  BY Zenon, <1>1 DEF TxInv, TablesHold, StoreInv, StoreTypeOK
<1>3. subs[logs[tx[c].row].sub].state = "live"
  BY <1>1 DEF TxInv, TablesHold
<1> QED BY Zenon, <1>1, <1>2, <1>3

\* Counting leaves a subscription in its state.
LEMMA CountedType ==
    ASSUME NEW op, NEW s \in Subscription
    PROVE  Counted(op, s) \in Subscription /\ Counted(op, s).state = s.state
<1>1. CASE op = "success"
  BY <1>1 DEF Counted, Subscription
<1>2. CASE op # "success"
  <2>1. s.failures \in Nat /\ s.failures + 1 \in Nat
    BY DEF Subscription
  <2>2. ((s.failures + 1 < AutoDisableThreshold) /\ s.active) \in BOOLEAN
    OBVIOUS
  <2>3. ASSUME NEW a \in BOOLEAN, NEW n \in Nat
        PROVE  /\ [s EXCEPT !.failures = n, !.active = a] \in Subscription
               /\ [s EXCEPT !.failures = n, !.active = a].state = s.state
    BY Zenon, <2>3 DEF Subscription
  <2> DEFINE a == (s.failures + 1 < AutoDisableThreshold) /\ s.active
             n == s.failures + 1
  <2>4. Counted(op, s) = [s EXCEPT !.failures = n, !.active = a]
    BY <1>2 DEF Counted
  <2>5. a \in BOOLEAN /\ n \in Nat
    BY <2>1, <2>2
  <2>6. PICK b \in BOOLEAN, m \in Nat : Counted(op, s) = [s EXCEPT !.failures = m, !.active = b]
    <3> HIDE DEF a, n
    <3> QED BY <2>4, <2>5, Zenon
  <2>7. [s EXCEPT !.failures = m, !.active = b] \in Subscription
    BY <2>3, Zenon
  <2>8. [s EXCEPT !.failures = m, !.active = b].state = s.state
    BY <2>3, Zenon
  <2> QED BY <2>6, <2>7, <2>8, Zenon
<1> QED BY <1>1, <1>2

\* The counter's UPDATE: it changes a live subscription or nothing.
LEMMA CountStep ==
    ASSUME TxInv, NEW c \in Clients, Count(c)
    PROVE  TxInv'
<1>1. Holds(c) /\ tx[c] \in TxRecord /\ tx[c].step = "owner" /\ tx[c].op # "delete"
  BY DEF TxInv, Holds, Count, At
<1>2. tx[c].op \in {"success", "final"}
  BY Zenon, <1>1, StepOfOp
<1>3. OutcomeHolds(c) /\ RowHolds(c)
  BY Zenon, <1>1, <1>2 DEF Holds, OutcomeHolds
<1>4. tx[c].owner = NoSub /\ tx[c].lock = "none"
  BY ZenonT(40), <1>1, <1>3 DEF OutcomeHolds
<1>5. subs[tx[c].sub].state = "live" /\ subs[tx[c].sub] \in Subscription
  BY <1>1, <1>3, WonRow
<1>6. OwnerHolders(c, "nokey") = {}
  BY Zenon, <1>1, WaitsForWhom DEF Count
<1>7. ASSUME NEW t \in TxRecord, Set(c, t),
             t.op = tx[c].op, t.step = "commit", t.row = tx[c].row, t.sub = tx[c].sub,
             t.key = tx[c].key, t.webhook = tx[c].webhook, t.image = tx[c].image,
             t.new = tx[c].new, t.slot = tx[c].slot,
             \/ /\ t.owner = NoSub /\ t.lock = "none"
                /\ Counted(tx[c].op, subs[tx[c].sub]) = subs[tx[c].sub]
             \/ t.owner = Counted(tx[c].op, subs[tx[c].sub]) /\ t.lock = "nokey"
      PROVE  TxInv'
  <2>1. /\ tx'[c] = t /\ idem' = idem /\ minted' = minted /\ subs' = subs
        /\ logs' = logs /\ nextId' = nextId
    BY Zenon, <1>7 DEF TxInv, Set, storeVars
  <2>2. RowHolds(c)'
    BY Zenon, <1>1, <1>3, <1>7, <2>1 DEF RowHolds
  <2>3. OutcomeHolds(c)'
    BY Zenon, <1>3, <1>7, <2>1, <2>2 DEF OutcomeHolds
  <2>4. Holds(c)'
    BY ZenonT(40), <1>2, <1>5, <1>7, <2>1, <2>3 DEF Holds
  <2> QED BY Zenon, <1>4, <1>6, <1>7, <2>4, AdvanceStep
<1>8. CASE Counted(tx[c].op, subs[tx[c].sub]) = subs[tx[c].sub]
  <2> DEFINE t == [tx[c] EXCEPT !.step = "commit"]
  <2>1. Set(c, t)
    BY <1>8 DEF Count
  <2>2. /\ t \in TxRecord /\ t.op = tx[c].op /\ t.step = "commit" /\ t.row = tx[c].row
        /\ t.sub = tx[c].sub /\ t.key = tx[c].key /\ t.webhook = tx[c].webhook
        /\ t.image = tx[c].image /\ t.new = tx[c].new /\ t.slot = tx[c].slot
        /\ t.owner = NoSub /\ t.lock = "none"
    BY ZenonT(40), <1>1, <1>4 DEF TxRecord, TransactionSteps
  <2> HIDE DEF t
  <2> QED BY Zenon, <1>7, <1>8, <2>1, <2>2
<1>9. CASE Counted(tx[c].op, subs[tx[c].sub]) # subs[tx[c].sub]
  <2> DEFINE counted == Counted(tx[c].op, subs[tx[c].sub])
             t == [tx[c] EXCEPT !.step = "commit", !.lock = "nokey", !.owner = counted]
  <2>1. Set(c, t)
    BY Zenon, <1>5, <1>9 DEF Count
  <2>2. counted \in Subscription
    BY <1>5, CountedType
  <2> HIDE DEF counted
  <2>3. /\ t \in TxRecord /\ t.op = tx[c].op /\ t.step = "commit" /\ t.row = tx[c].row
        /\ t.sub = tx[c].sub /\ t.key = tx[c].key /\ t.webhook = tx[c].webhook
        /\ t.image = tx[c].image /\ t.new = tx[c].new /\ t.slot = tx[c].slot
        /\ t.owner = counted /\ t.lock = "nokey"
    BY Zenon, <1>1, <2>2 DEF TxRecord, TransactionSteps, Locks
  <2> HIDE DEF t
  <2> QED BY Zenon, <1>7, <2>1, <2>3 DEF counted
<1> QED BY Zenon, <1>8, <1>9

\* The deletion's lock on the subscription.
LEMMA LockOwnerStep ==
    ASSUME TxInv, NEW c \in Clients, LockOwner(c)
    PROVE  TxInv'
<1>1. Holds(c) /\ tx[c] \in TxRecord /\ tx[c].step = "owner" /\ tx[c].op = "delete" /\ DeleteHolds(c)
  BY DEF TxInv, Holds, LockOwner, At
<1>2. OwnerHolders(c, "update") = {}
  BY ZenonT(40), <1>1, WaitsForWhom DEF LockOwner
<1>3. CASE subs[tx[c].sub].state = "live"
  <2> DEFINE t == [tx[c] EXCEPT !.step = "cascade", !.lock = "update", !.owner = Deleted]
  <2>1. Set(c, t)
    BY Zenon, <1>3 DEF LockOwner, Deleted
  <2>2. Deleted \in Subscription
    BY DEF Deleted, Subscription
  <2>3. /\ t \in TxRecord /\ t.op = "delete" /\ t.step = "cascade"
        /\ t.sub = tx[c].sub /\ t.key = tx[c].key /\ t.webhook = tx[c].webhook
        /\ t.image = tx[c].image /\ t.new = tx[c].new /\ t.slot = tx[c].slot
        /\ t.owner = Deleted /\ t.lock = "update"
    BY ZenonT(40), <1>1, <2>2 DEF TxRecord, TransactionSteps, Locks
  <2> HIDE DEF t
  <2>4. tx'[c] = t /\ subs' = subs /\ logs' = logs
    BY <2>1 DEF TxInv, Set, storeVars
  <2>5. DeleteHolds(c)'
    BY ZenonT(40), <1>1, <2>3, <2>4 DEF DeleteHolds
  <2>6. Holds(c)'
    BY Zenon, <1>3, <2>3, <2>4, <2>5 DEF Holds
  <2> QED BY Zenon, <1>1, <1>2, <2>1, <2>3, <2>6, AdvanceStep
<1>4. CASE subs[tx[c].sub].state # "live"
  BY <1>4, ClosedStep DEF LockOwner, End, Set
<1> QED BY <1>3, <1>4

\* The cascade takes the rows one after the other.
LEMMA CascadeStep ==
    ASSUME TxInv, NEW c \in Clients, Cascade(c)
    PROVE  TxInv'
<1>1. Holds(c) /\ tx[c] \in TxRecord /\ tx[c].step = "cascade"
  BY DEF TxInv, Holds, Cascade, At
<1>2. tx[c].op = "delete"
  BY ZenonT(40), <1>1, StepOfOp
<1>3. DeleteHolds(c) /\ subs[tx[c].sub].state = "live" /\ tx[c].lock = "update" /\ tx[c].owner = Deleted
  BY Zenon, <1>1, <1>2 DEF Holds, DeleteHolds
<1>4. DOMAIN tx[c].image \subseteq RowIds
  BY Zenon, <1>1 DEF TxRecord
<1>5. ASSUME NEW i \in Rows(tx[c].sub) \ DOMAIN tx[c].image, RowHolders(c, i) = {},
             Set(c, [tx[c] EXCEPT !.image = [j \in DOMAIN tx[c].image \cup {i} |-> NoRow]])
      PROVE  TxInv'
  <2> DEFINE image == [j \in DOMAIN tx[c].image \cup {i} |-> NoRow]
             t == [tx[c] EXCEPT !.image = image]
  <2>1. i \in RowIds /\ logs[i].sub = tx[c].sub
    BY <1>5 DEF Rows
  <2>2. image \in UNION {[D -> Row] : D \in SUBSET RowIds}
    <3>1. NoRow \in Row
      BY DEF NoRow, Row, Statuses, DueTimes
    <3>2. image \in [DOMAIN tx[c].image \cup {i} -> Row]
      BY Zenon, <3>1
    <3>3. DOMAIN tx[c].image \cup {i} \in SUBSET RowIds
      BY Zenon, <1>4, <2>1
    <3> QED BY Zenon, <3>2, <3>3
  <2>3. /\ DOMAIN image = DOMAIN tx[c].image \cup {i}
        /\ \A j \in DOMAIN tx[c].image \cup {i} : image[j] = NoRow
    OBVIOUS
  <2> HIDE DEF image
  <2>4. /\ t \in TxRecord /\ t.op = "delete" /\ t.step = "cascade"
        /\ t.sub = tx[c].sub /\ t.key = tx[c].key /\ t.webhook = tx[c].webhook
        /\ t.image = image /\ t.new = tx[c].new /\ t.slot = tx[c].slot
        /\ t.owner = tx[c].owner /\ t.lock = tx[c].lock
    BY Zenon, <1>1, <1>2, <2>2 DEF TxRecord
  <2>5. Set(c, t)
    BY <1>5 DEF image
  <2> HIDE DEF t
  <2>6. tx'[c] = t /\ subs' = subs /\ logs' = logs
    BY Zenon, <2>5 DEF TxInv, Set, storeVars
  <2>7. DeleteHolds(c)'
    BY ZenonT(40), <1>3, <2>1, <2>3, <2>4, <2>6 DEF DeleteHolds
  <2>8. Holds(c)'
    BY Zenon, <1>3, <2>4, <2>6, <2>7 DEF Holds
  <2> QED BY ZenonT(40), <1>2, <1>5, <2>3, <2>4, <2>5, <2>8, AdvanceStep
<1>6. ASSUME Rows(tx[c].sub) \subseteq DOMAIN tx[c].image, Set(c, [tx[c] EXCEPT !.step = "commit"])
      PROVE  TxInv'
  <2> DEFINE t == [tx[c] EXCEPT !.step = "commit"]
  <2>1. /\ t \in TxRecord /\ t.op = "delete" /\ t.step = "commit"
        /\ t.sub = tx[c].sub /\ t.key = tx[c].key /\ t.webhook = tx[c].webhook
        /\ t.image = tx[c].image /\ t.new = tx[c].new /\ t.slot = tx[c].slot
        /\ t.owner = tx[c].owner /\ t.lock = tx[c].lock
    BY <1>1, <1>2 DEF TxRecord, TransactionSteps
  <2>2. Set(c, t)
    BY <1>6
  <2> HIDE DEF t
  <2>3. tx'[c] = t /\ subs' = subs /\ logs' = logs
    BY <2>2 DEF TxInv, Set, storeVars
  <2>4. DeleteHolds(c)'
    BY ZenonT(40), <1>3, <1>6, <2>1, <2>3 DEF DeleteHolds, Rows
  <2>5. Holds(c)'
    BY Zenon, <1>3, <2>1, <2>3, <2>4 DEF Holds
  <2> QED BY Zenon, <1>2, <2>1, <2>2, <2>5, AdvanceStep
<1> QED BY Zenon, <1>5, <1>6 DEF Cascade

\* The new row, with its foreign-key check.
LEMMA InsertRowStep ==
    ASSUME TxInv, NEW c \in Clients, InsertRow(c)
    PROVE  TxInv'
<1>1. Holds(c) /\ tx[c] \in TxRecord /\ tx[c].step = "insert"
  BY DEF TxInv, Holds, InsertRow, At
<1>2. tx[c].op \in {"ingest", "retry", "replay"}
  BY Zenon, <1>1, StepOfOp
<1>3. OwnerHolders(c, "keyshare") = {}
  BY <1>1, WaitsForWhom DEF InsertRow
<1>4. logs \in [RowIds -> Row]
  BY DEF TxInv, TablesHold, StoreInv, StoreTypeOK
<1>5. CASE subs[tx[c].sub].state # "live"
  BY Zenon, <1>5, ClosedStep DEF InsertRow, End, Set
<1>6. CASE subs[tx[c].sub].state = "live"
  <2> DEFINE new == Successor(c)
             t == [tx[c] EXCEPT !.step = "commit", !.lock = "keyshare", !.new = new]
  <2>1. Set(c, t)
    BY Zenon, <1>6 DEF InsertRow
  <2>2. ASSUME NEW w \in Webhooks \cup {None}, NEW s \in Subs \cup {None}, NEW n \in Nat, NEW r \in Nat,
               NEW d \in DueTimes
        PROVE  PendingRow(w, s, n, r, d) \in Row
    BY Zenon DEF PendingRow, Row, Statuses
  <2>3. CASE tx[c].op = "ingest"
    <3>1. IngestHolds(c)
      BY <1>1, <2>3 DEF Holds
    <3>2. new = PendingRow(tx[c].webhook, tx[c].sub, 1, 0, "now")
      BY Zenon, <2>3 DEF Successor
    <3>3. new \in Row
      <4>1. "now" \in DueTimes /\ 1 \in Nat /\ 0 \in Nat
        BY ZenonT(40) DEF DueTimes
      <4>2. tx[c].webhook \in Webhooks /\ tx[c].sub \in Subs
        BY <3>1 DEF IngestHolds
      <4> HIDE DEF new
      <4> QED BY Zenon, <2>2, <3>2, <4>1, <4>2
    <3> HIDE DEF new
    <3>4. /\ t \in TxRecord /\ t.op = tx[c].op /\ t.step = "commit"
          /\ t.sub = tx[c].sub /\ t.key = tx[c].key /\ t.webhook = tx[c].webhook
          /\ t.image = tx[c].image /\ t.new = new /\ t.owner = tx[c].owner
          /\ t.lock = "keyshare" /\ t.slot = tx[c].slot
      BY ZenonT(40), <1>1, <3>3 DEF TxRecord, TransactionSteps, Locks
    <3> HIDE DEF t
    <3>5. tx'[c] = t /\ idem' = idem /\ minted' = minted /\ subs' = subs
      BY <2>1 DEF TxInv, Set, storeVars
    <3>6. IngestHolds(c)'
      BY ZenonT(40), <1>1, <3>1, <3>2, <3>4, <3>5 DEF IngestHolds
    <3>7. Holds(c)'
      BY Zenon, <1>6, <2>3, <3>4, <3>5, <3>6 DEF Holds
    <3> QED BY ZenonT(40), <1>3, <2>1, <3>4, <3>7, AdvanceStep
  <2>4. CASE tx[c].op = "retry"
    <3>1. RetryHolds(c) /\ RowHolds(c)
      BY ZenonT(40), <1>1, <2>4 DEF Holds, RetryHolds
    <3>2. logs[tx[c].row] \in Row /\ logs[tx[c].row].sub = tx[c].sub
      BY <1>1, <3>1, WonRow
    <3>3. new = PendingRow(logs[tx[c].row].webhook, tx[c].sub, logs[tx[c].row].attempt + 1,
                           logs[tx[c].row].replay, "later")
      BY Zenon, <2>4, <3>2 DEF Successor
    <3>4. new \in Row
      <4>1. /\ "later" \in DueTimes /\ logs[tx[c].row].attempt + 1 \in Nat
            /\ logs[tx[c].row].replay \in Nat /\ logs[tx[c].row].webhook \in Webhooks \cup {None}
            /\ tx[c].sub \in Subs \cup {None}
        BY <3>1, <3>2 DEF DueTimes, Row, RowHolds
      <4> HIDE DEF new
      <4> QED BY ZenonT(40), <2>2, <3>3, <4>1
    <3> HIDE DEF new
    <3>5. /\ t \in TxRecord /\ t.op = tx[c].op /\ t.step = "commit" /\ t.row = tx[c].row
          /\ t.sub = tx[c].sub /\ t.key = tx[c].key /\ t.webhook = tx[c].webhook
          /\ t.image = tx[c].image /\ t.new = new /\ t.owner = tx[c].owner
          /\ t.lock = "keyshare" /\ t.slot = tx[c].slot
      BY ZenonT(40), <1>1, <3>4 DEF TxRecord, TransactionSteps, Locks
    <3> HIDE DEF t
    <3>6. tx'[c] = t /\ logs' = logs /\ subs' = subs /\ nextId' = nextId
      BY <2>1 DEF TxInv, Set, storeVars
    <3>7. RowHolds(c)'
      BY Zenon, <1>1, <3>1, <3>5, <3>6 DEF RowHolds
    <3>8. RetryHolds(c)'
      BY Zenon, <3>1, <3>3, <3>5, <3>6, <3>7 DEF RetryHolds
    <3>9. Holds(c)'
      BY Zenon, <1>6, <2>4, <3>5, <3>6, <3>8 DEF Holds
    <3> QED BY Zenon, <1>3, <2>1, <3>5, <3>9, AdvanceStep
  <2>5. CASE tx[c].op = "replay"
    <3>1. ReplayHolds(c)
      BY Zenon, <1>1, <2>5 DEF Holds
    <3>2. PICK i \in DOMAIN tx[c].image : i = CHOOSE j \in DOMAIN tx[c].image : TRUE
      BY ZenonT(40), <1>1, <3>1 DEF ReplayHolds
    <3>3. i \in RowIds /\ logs[i] \in Row /\ logs[i].sub = tx[c].sub /\ logs[i].webhook = tx[c].webhook
      BY Zenon, <1>1, <1>4, <3>1, <3>2 DEF ReplayHolds, InDLQ
    <3>4. new = PendingRow(tx[c].webhook, tx[c].sub, 1, logs[i].replay + 1, "now")
      BY Zenon, <2>5, <3>2, <3>3 DEF Successor
    <3>5. new \in Row
      <4>1. /\ "now" \in DueTimes /\ 1 \in Nat
            /\ logs[i].replay + 1 \in Nat /\ tx[c].webhook \in Webhooks \cup {None}
            /\ tx[c].sub \in Subs \cup {None}
        BY <3>1, <3>3 DEF DueTimes, Row, ReplayHolds
      <4> HIDE DEF new
      <4> QED BY ZenonT(40), <2>2, <3>4, <4>1
    <3> HIDE DEF new
    <3>6. /\ t \in TxRecord /\ t.op = tx[c].op /\ t.step = "commit"
          /\ t.sub = tx[c].sub /\ t.key = tx[c].key /\ t.webhook = tx[c].webhook
          /\ t.image = tx[c].image /\ t.new = new /\ t.owner = tx[c].owner
          /\ t.lock = "keyshare" /\ t.slot = tx[c].slot
      BY ZenonT(40), <1>1, <3>5 DEF TxRecord, TransactionSteps, Locks
    <3> HIDE DEF t
    <3>7. tx'[c] = t /\ logs' = logs /\ subs' = subs
      BY <2>1 DEF TxInv, Set, storeVars
    <3>8. ASSUME NEW j \in DOMAIN tx[c].image PROVE j = i
      <4>1. j \in RowIds /\ logs[j].webhook = tx[c].webhook /\ logs[j].inDLQ = TRUE /\ logs[i].inDLQ = TRUE
        BY ZenonT(40), <1>1, <1>4, <3>1, <3>2, <3>8 DEF ReplayHolds, InDLQ, Row
      <4> QED BY Zenon, <3>3, <4>1, OnlyLive
    <3>9. InDLQ(tx[c].sub, tx[c].webhook)' = InDLQ(tx[c].sub, tx[c].webhook)
      BY Zenon, <3>6, <3>7 DEF InDLQ
    <3>10. ReplayHolds(c)'
      BY Zenon, <1>1, <3>1, <3>4, <3>6, <3>7, <3>8, <3>9 DEF ReplayHolds
    <3>11. Holds(c)'
      BY Zenon, <1>6, <2>5, <3>6, <3>7, <3>10 DEF Holds
    <3> QED BY Zenon, <1>3, <2>1, <3>6, <3>11, AdvanceStep
  <2> QED BY Zenon, <1>2, <2>3, <2>4, <2>5
<1> QED BY <1>5, <1>6

-----------------------------------------------------------------------------
(* The commit of each transaction is the step DeliveryStore makes of it. *)

\* A commit writes what the transaction has noted, and only that.
LEMMA CommitWrites ==
    ASSUME TxInv, NEW c \in Clients, Commit(c)
    PROVE  /\ tx[c].step = "commit" /\ tx[c] \in TxRecord /\ tx[c].op # "none"
           /\ DOMAIN logs' = RowIds /\ DOMAIN logs = RowIds
           /\ \A i \in DOMAIN tx[c].image : i \in RowIds /\ logs'[i] = tx[c].image[i]
           /\ \A i \in RowIds : i \notin DOMAIN tx[c].image /\ (tx[c].new = NoRow \/ i # nextId) =>
                    logs'[i] = logs[i]
           /\ tx[c].new # NoRow /\ nextId \in RowIds /\ nextId \notin DOMAIN tx[c].image =>
                    logs'[nextId] = tx[c].new
           /\ nextId' = IF tx[c].new # NoRow THEN nextId + 1 ELSE nextId
           /\ tx[c].owner = NoSub => subs' = subs
           /\ tx[c].owner # NoSub => subs' = [subs EXCEPT ![tx[c].sub] = tx[c].owner]
           /\ tx[c].op # "delete" /\ tx[c].slot = FALSE => idem' = idem
           /\ tx[c].op # "ingest" => minted' = minted
<1>1. tx[c].step = "commit" /\ tx[c] \in TxRecord /\ Holds(c)
  BY ZenonT(40) DEF TxInv, Holds, Commit, At
<1>2. tx[c].op # "none"
  BY ZenonT(40), <1>1, StepOfOp
<1>3. logs \in [RowIds -> Row] /\ idem \in [Subs \X Keys -> Webhooks \cup {None}]
  BY DEF TxInv, TablesHold, StoreInv, StoreTypeOK
<1>4. DOMAIN tx[c].image \subseteq RowIds
  BY Zenon, <1>1 DEF TxRecord
<1>5. tx[c].op # "delete" /\ tx[c].slot = FALSE => idem' = idem
  BY ZenonT(40), <1>3 DEF Commit
<1> QED BY Zenon, <1>1, <1>2, <1>3, <1>4, <1>5 DEF Commit

\* The key and the first row appear together.
LEMMA CommitIngest ==
    ASSUME TxInv, NEW c \in Clients, Commit(c), tx[c].op = "ingest"
    PROVE  IngestPending(tx[c].sub, tx[c].key, tx[c].webhook)
<1>1. Holds(c) /\ IngestHolds(c) /\ tx[c].step = "commit" /\ tx[c].slot \in BOOLEAN
  BY ZenonT(40), CommitWrites DEF TxInv, Holds, TxRecord
<1>2. /\ tx[c].lock = "keyshare" /\ DOMAIN tx[c].image = {} /\ tx[c].owner = NoSub
      /\ tx[c].new = PendingRow(tx[c].webhook, tx[c].sub, 1, 0, "now")
      /\ tx[c].sub \in Subs /\ tx[c].webhook \notin minted
      /\ tx[c].slot = TRUE <=> tx[c].key # None
      /\ tx[c].slot = TRUE => idem[<<tx[c].sub, tx[c].key>>] = None
  BY Zenon, <1>1 DEF IngestHolds
<1>3. subs[tx[c].sub].state = "live"
  BY Zenon, <1>1, <1>2 DEF Holds
<1>4. tx[c].new # NoRow
  BY <1>2 DEF PendingRow, NoRow
<1>5. nextId \in RowIds
  BY SMTT(30), <1>4 DEF Commit
<1>6. logs' = [logs EXCEPT ![nextId] = PendingRow(tx[c].webhook, tx[c].sub, 1, 0, "now")]
  <2>1. logs' = [i \in RowIds |-> IF i = nextId THEN tx[c].new ELSE logs[i]]
    BY Zenon, <1>2, <1>4 DEF Commit
  <2> QED BY Zenon, <1>2, <2>1, CommitWrites
<1>7. idem \in [Subs \X Keys -> Webhooks \cup {None}]
  BY ZenonT(40) DEF TxInv, TablesHold, StoreInv, StoreTypeOK
<1>8. idem' = IF tx[c].key = None THEN idem ELSE [idem EXCEPT ![<<tx[c].sub, tx[c].key>>] = tx[c].webhook]
  <2>1. CASE tx[c].key = None
    BY Zenon, <1>1, <1>2, <2>1, CommitWrites
  <2>2. CASE tx[c].key # None
    <3>1. idem' = [e \in Subs \X Keys |-> IF e = <<tx[c].sub, tx[c].key>> THEN tx[c].webhook ELSE idem[e]]
      BY <1>2, <2>2 DEF Commit
    <3> QED BY ZenonT(40), <1>7, <2>2, <3>1
  <2> QED BY ZenonT(40), <2>1, <2>2
<1>9. subs' = subs /\ nextId' = nextId + 1 /\ minted' = minted \cup {tx[c].webhook}
  BY ZenonT(40), <1>2, <1>4, CommitWrites DEF Commit
<1> QED BY ZenonT(40), <1>2, <1>3, <1>5, <1>6, <1>8, <1>9 DEF IngestPending

\* The subscription's row after MarkSuccess or FinalizeFailure.
LEMMA CommitCount ==
    ASSUME TxInv, NEW c \in Clients, Commit(c), tx[c].op \in {"success", "final"}
    PROVE  /\ tx[c].sub \in Subs /\ subs[tx[c].sub] \in Subscription
           /\ subs' = [subs EXCEPT ![tx[c].sub] = Counted(tx[c].op, subs[tx[c].sub])]
<1>1. OutcomeHolds(c) /\ RowHolds(c) /\ tx[c].step = "commit"
  BY ZenonT(40), CommitWrites DEF TxInv, Holds, OutcomeHolds
<1>2. /\ tx[c].sub \in Subs /\ subs[tx[c].sub] \in Subscription
      /\ subs[tx[c].sub].state = "live"
  BY Zenon, <1>1, WonRow
<1>3. subs \in [Subs -> Subscription]
  BY ZenonT(40) DEF TxInv, TablesHold, StoreInv, StoreTypeOK
<1>4. Counted(tx[c].op, subs[tx[c].sub]) # NoSub
  BY SMTT(30), <1>2, CountedType DEF NoSub
<1>5. CASE tx[c].owner = NoSub /\ Counted(tx[c].op, subs[tx[c].sub]) = subs[tx[c].sub]
  BY Zenon, <1>2, <1>3, <1>5, CommitWrites
<1>6. CASE tx[c].owner = Counted(tx[c].op, subs[tx[c].sub])
  BY Zenon, <1>2, <1>4, <1>6, CommitWrites
<1> QED BY ZenonT(40), <1>1, <1>5, <1>6 DEF OutcomeHolds

\* The rows after MarkSuccess or FinalizeFailure.
LEMMA CommitOutcome ==
    ASSUME TxInv, NEW c \in Clients, Commit(c), tx[c].op \in {"success", "final"}
    PROVE  /\ tx[c].row \in RowIds /\ Pending(tx[c].row) /\ logs[tx[c].row].sub = tx[c].sub
           /\ logs' = [logs EXCEPT ![tx[c].row] = Settle(tx[c].op, logs[tx[c].row])]
           /\ UNCHANGED <<idem, minted, nextId>>
<1>1. OutcomeHolds(c) /\ RowHolds(c) /\ tx[c].step = "commit"
  BY Zenon, CommitWrites DEF TxInv, Holds, OutcomeHolds
<1>2. /\ tx[c].row \in RowIds /\ Pending(tx[c].row) /\ logs[tx[c].row].sub = tx[c].sub
      /\ DOMAIN tx[c].image = {tx[c].row} /\ tx[c].image[tx[c].row] = Settle(tx[c].op, logs[tx[c].row])
      /\ tx[c].new = NoRow /\ tx[c].slot = FALSE
  BY ZenonT(40), <1>1 DEF OutcomeHolds, RowHolds
<1>3. logs' = [logs EXCEPT ![tx[c].row] = tx[c].image[tx[c].row]]
  <2>1. logs' = [i \in RowIds |-> IF i = tx[c].row THEN tx[c].image[tx[c].row] ELSE logs[i]]
    BY Zenon, <1>2 DEF Commit
  <2> QED BY ZenonT(40), <1>2, <2>1, CommitWrites
<1> QED BY ZenonT(40), <1>2, <1>3, CommitWrites

\* A success settles its row and resets the counter.
LEMMA CommitSuccess ==
    ASSUME TxInv, NEW c \in Clients, Commit(c), tx[c].op = "success"
    PROVE  MarkSuccess(tx[c].row)
<1>1. logs' = [logs EXCEPT ![tx[c].row].status = "success"]
  BY Zenon, CommitOutcome DEF Settle
<1>2. subs' = [subs EXCEPT ![tx[c].sub].failures = 0]
  BY ZenonT(40), CommitCount DEF Counted
<1> QED BY ZenonT(40), <1>1, <1>2, CommitOutcome DEF MarkSuccess

\* The last failure flags its row and bumps the counter.
LEMMA CommitFinal ==
    ASSUME TxInv, NEW c \in Clients, Commit(c), tx[c].op = "final"
    PROVE  FinalizeFailure(tx[c].row) /\ logs[tx[c].row].attempt >= MaxRetryAttempts
<1> DEFINE i == tx[c].row
           s == tx[c].sub
           bumped == subs[s].failures + 1
           on == bumped < AutoDisableThreshold
<1>1. logs' = [logs EXCEPT ![i].status = "final_failure", ![i].inDLQ = TRUE]
  <2>1. logs' = [logs EXCEPT ![i] = [logs[i] EXCEPT !.status = "final_failure", !.inDLQ = TRUE]]
    BY Zenon, CommitOutcome DEF Settle
  <2>2. logs \in [RowIds -> Row] /\ i \in RowIds
    BY CommitOutcome DEF TxInv, TablesHold, StoreInv, StoreTypeOK
  <2> HIDE DEF i
  <2> QED BY ZenonT(40), <2>1, <2>2 DEF Row
<1>2. subs' = [subs EXCEPT ![s].failures = bumped, ![s].active = on /\ @]
  <2>1. subs' = [subs EXCEPT ![s] = [subs[s] EXCEPT !.failures = bumped, !.active = on /\ @]]
    BY Zenon, CommitCount DEF Counted
  <2>2. subs \in [Subs -> Subscription] /\ s \in Subs /\ subs[s] \in Subscription
    BY ZenonT(40), CommitCount DEF TxInv, TablesHold, StoreInv, StoreTypeOK
  <2> HIDE DEF s, bumped, on
  <2> QED BY ZenonT(40), <2>1, <2>2 DEF Subscription
<1>3. logs[i].attempt >= MaxRetryAttempts
  BY Zenon, CommitOutcome, CommitWrites DEF TxInv, Holds, OutcomeHolds, RowHolds
<1> QED BY Zenon, <1>1, <1>2, <1>3, CommitOutcome DEF FinalizeFailure

\* A failure settles its row and inserts the next attempt.
LEMMA CommitRetry ==
    ASSUME TxInv, NEW c \in Clients, Commit(c), tx[c].op = "retry"
    PROVE  FailAndScheduleRetry(tx[c].row) /\ logs[tx[c].row].attempt < MaxRetryAttempts
<1> DEFINE i == tx[c].row
           new == PendingRow(logs[i].webhook, logs[i].sub, logs[i].attempt + 1, logs[i].replay, "later")
<1>1. RetryHolds(c) /\ RowHolds(c) /\ tx[c].step = "commit"
  BY ZenonT(40), CommitWrites DEF TxInv, Holds, RetryHolds
<1>2. /\ i \in RowIds /\ i < nextId /\ Pending(i) /\ logs[i].sub = tx[c].sub
      /\ DOMAIN tx[c].image = {i} /\ tx[c].image[i] = Settle("retry", logs[i])
      /\ tx[c].slot = FALSE /\ logs[i].attempt < MaxRetryAttempts
  BY ZenonT(40), <1>1 DEF RowHolds
<1>3. tx[c].new = new /\ tx[c].owner = NoSub
  BY Zenon, <1>1, <1>2 DEF RetryHolds
<1>4. new # NoRow
  BY ZenonT(40) DEF PendingRow, NoRow
<1>5. nextId \in RowIds
  BY <1>3, <1>4 DEF Commit
<1> HIDE DEF i, new
<1>6. logs' = [logs EXCEPT ![i].status = "failed_attempt", ![nextId] = new]
  <2>1. logs' = [j \in RowIds |-> IF j = i THEN Settle("retry", logs[i])
                                  ELSE IF j = nextId THEN new ELSE logs[j]]
    BY ZenonT(40), <1>2, <1>3, <1>4 DEF Commit
  <2>2. Settle("retry", logs[i]) = [logs[i] EXCEPT !.status = "failed_attempt"]
    BY Zenon DEF Settle
  <2>3. i # nextId
    <3>1. nextId \in Nat
      BY <1>5 DEF RowIds
    <3>2. ~(nextId < nextId)
      BY <3>1
    <3> QED BY Zenon, <1>2, <3>2
  <2>4. logs \in [RowIds -> Row]
    BY SMTT(30) DEF TxInv, TablesHold, StoreInv, StoreTypeOK
  <2> QED BY Zenon, <1>2, <1>5, <2>1, <2>2, <2>3, <2>4
<1>7. nextId' = nextId + 1 /\ UNCHANGED <<subs, idem, minted>>
  BY ZenonT(40), <1>2, <1>3, <1>4, CommitWrites
<1> QED BY ZenonT(40), <1>2, <1>5, <1>6, <1>7 DEF FailAndScheduleRetry, i, new

\* A replay clears its dead letter and inserts the new chain's first row.
LEMMA CommitReplay ==
    ASSUME TxInv, NEW c \in Clients, Commit(c), tx[c].op = "replay"
    PROVE  \E i \in RowIds : i \in DOMAIN tx[c].image /\ ReplayDLQ(tx[c].sub, tx[c].webhook, i)
<1>1. ReplayHolds(c) /\ tx[c].step = "commit"
  BY ZenonT(40), CommitWrites DEF TxInv, Holds
<1>2. PICK i \in DOMAIN tx[c].image : TRUE
  BY <1>1 DEF ReplayHolds
<1> DEFINE D == InDLQ(tx[c].sub, tx[c].webhook)
           new == PendingRow(tx[c].webhook, tx[c].sub, 1, logs[i].replay + 1, "now")
<1>3. /\ DOMAIN tx[c].image = D /\ \A j \in D : tx[c].image[j] = [logs[j] EXCEPT !.inDLQ = FALSE]
      /\ tx[c].new = new /\ tx[c].owner = NoSub /\ tx[c].slot = FALSE
  BY Zenon, <1>1, <1>2 DEF ReplayHolds, Settle
<1>4. new # NoRow
  BY DEF PendingRow, NoRow
<1>5. nextId \in RowIds
  BY Zenon, <1>3, <1>4 DEF Commit
<1>6. nextId \notin D
  <2>1. logs[nextId] = NoRow
    BY <1>5 DEF TxInv, TablesHold, StoreInv, Shape, RowIds
  <2> QED BY <2>1 DEF NoRow, InDLQ
<1>7. i \in RowIds /\ i \in D
  BY Zenon, <1>2, <1>3 DEF InDLQ
<1>8. logs[i].replay < MaxReplays
  <2>1. Present(i) /\ logs[i].replay \in Nat
    BY Zenon, <1>7 DEF InDLQ, TxInv, TablesHold, StoreInv, BudgetRespected, StoreTypeOK, Row
  <2>2. logs[i].replay < i
    BY <1>7, <2>1 DEF TxInv, TablesHold
  <2>3. i \in 1..MaxRows /\ MaxRows \in Nat /\ MaxReplays \in Nat /\ MaxRows <= MaxReplays
    BY Zenon, <1>7, StoreAssumption, TransactionsAssumption DEF RowIds
  <2> QED BY <2>1, <2>2, <2>3
<1> HIDE DEF new, D
<1>9. logs' = [ClearFlag(D) EXCEPT ![nextId] = new]
  <2>1. logs' = [j \in RowIds |-> IF j \in D THEN [logs[j] EXCEPT !.inDLQ = FALSE]
                                  ELSE IF j = nextId THEN new ELSE logs[j]]
    BY <1>3, <1>4 DEF Commit
  <2> QED BY Zenon, <1>5, <1>6, <2>1 DEF ClearFlag
<1>10. nextId' = nextId + 1 /\ UNCHANGED <<subs, idem, minted>>
  BY ZenonT(40), <1>3, <1>4, CommitWrites
<1>11. ReplayDLQ(tx[c].sub, tx[c].webhook, i)
  BY ZenonT(40), <1>5, <1>7, <1>8, <1>9, <1>10 DEF ReplayDLQ, D, new
<1> QED BY Zenon, <1>7, <1>2, <1>11

\* A deletion takes the subscription with its rows and keys.
LEMMA CommitDelete ==
    ASSUME TxInv, NEW c \in Clients, Commit(c), tx[c].op = "delete"
    PROVE  DeleteSubscription(tx[c].sub)
<1> DEFINE s == tx[c].sub
<1>1. Holds(c) /\ DeleteHolds(c) /\ tx[c].step = "commit"
  BY ZenonT(40), CommitWrites DEF TxInv, Holds
<1>2. /\ tx[c].slot = FALSE /\ tx[c].new = NoRow /\ s \in Subs /\ tx[c].lock = "update"
      /\ tx[c].owner = Deleted /\ Rows(s) \subseteq DOMAIN tx[c].image
      /\ \A i \in DOMAIN tx[c].image : tx[c].image[i] = NoRow /\ logs[i].sub = s
  BY Zenon, <1>1 DEF DeleteHolds
<1>3. subs[s].state = "live"
  BY Zenon, <1>1, <1>2 DEF Holds
<1>4. Deleted # NoSub
  BY SMTT(30) DEF Deleted, NoSub
<1>5. subs' = [subs EXCEPT ![s] = Deleted]
  BY ZenonT(40), <1>2, <1>4, CommitWrites
<1>6. logs' = [i \in RowIds |-> IF logs[i].sub = s THEN NoRow ELSE logs[i]]
  <2>1. \A i \in RowIds : i \in DOMAIN tx[c].image <=> logs[i].sub = s
    BY Zenon, <1>2 DEF Rows
  <2>2. logs' = [i \in RowIds |-> IF i \in DOMAIN tx[c].image THEN tx[c].image[i] ELSE logs[i]]
    BY ZenonT(40), <1>2 DEF Commit
  <2> HIDE DEF s
  <2> QED BY Zenon, <1>2, <2>1, <2>2
<1>7. idem' = [e \in Subs \X Keys |-> IF e[1] = s THEN None ELSE idem[e]]
  BY SMTT(30), <1>2 DEF Commit
<1>8. UNCHANGED <<minted, nextId>>
  BY Zenon, <1>2, CommitWrites
<1> QED BY ZenonT(40), <1>3, <1>5, <1>6, <1>7, <1>8 DEF DeleteSubscription, Deleted

\* A commit is a step of DeliveryStore.
LEMMA CommitIs ==
    ASSUME TxInv, NEW c \in Clients, Commit(c)
    PROVE  StoreNext
<1>1. tx[c].op \in Ops /\ tx[c].op # "none" /\ tx[c] \in TxRecord /\ tx[c].step = "commit" /\ Holds(c)
  BY ZenonT(40), CommitWrites DEF TxInv, TxRecord
<1>2. CASE tx[c].op = "ingest"
  <2>1. tx[c].sub \in Subs /\ tx[c].webhook \in Webhooks /\ tx[c].key \in Keys \cup {None}
    BY ZenonT(40), <1>1, <1>2 DEF Holds, IngestHolds, TxRecord
  <2> QED BY ZenonT(40), <1>2, <2>1, CommitIngest DEF StoreNext, WebhookStep
<1>3. CASE tx[c].op = "success"
  BY ZenonT(40), <1>3, CommitSuccess, CommitOutcome DEF StoreNext, RowStep
<1>4. CASE tx[c].op = "final"
  BY ZenonT(40), <1>4, CommitFinal, CommitOutcome DEF StoreNext, RowStep, HandleFailure
<1>5. CASE tx[c].op = "retry"
  <2>1. tx[c].row \in RowIds
    BY ZenonT(40), <1>1, <1>5 DEF Holds, RetryHolds, RowHolds
  <2> QED BY ZenonT(40), <1>5, <2>1, CommitRetry DEF StoreNext, RowStep, HandleFailure
<1>6. CASE tx[c].op = "replay"
  <2>1. tx[c].sub \in Subs /\ tx[c].webhook \in Webhooks
    BY ZenonT(40), <1>1, <1>6 DEF Holds, ReplayHolds
  <2> QED BY ZenonT(40), <1>6, <2>1, CommitReplay DEF StoreNext, WebhookStep
<1>7. CASE tx[c].op = "delete"
  <2>1. tx[c].sub \in Subs
    BY Zenon, <1>1, <1>7 DEF Holds, DeleteHolds
  <2> QED BY ZenonT(40), <1>7, <2>1, CommitDelete DEF StoreNext, SubscriptionStep
<1> QED BY ZenonT(40), <1>1, <1>2, <1>3, <1>4, <1>5, <1>6, <1>7 DEF Ops

-----------------------------------------------------------------------------
(* What a commit does to the tables. *)

\* The rows it leaves, changes and adds, and the subscription it changes.
Framed(c) ==
    /\ tx[c].sub \in Subs
    /\ \A i \in RowIds : Present(i) /\ i \notin DOMAIN tx[c].image => logs'[i] = logs[i]
    /\ \A i \in DOMAIN tx[c].image :
        /\ i \in RowIds /\ Present(i) /\ logs[i].sub = tx[c].sub
        /\ tx[c].op = "delete" => logs'[i] = NoRow
        /\ tx[c].op # "delete" => /\ logs'[i].sub = logs[i].sub /\ logs'[i].attempt = logs[i].attempt
                                  /\ logs'[i].replay = logs[i].replay
    /\ \A i \in RowIds : ~Present(i) /\ Present(i)' =>
        /\ tx[c].op \in Inserting /\ tx[c].lock = "keyshare"
        /\ logs'[i].sub = tx[c].sub /\ logs'[i].replay < i
    /\ \A s \in Subs : \/ subs'[s] = subs[s]
                       \/ /\ s = tx[c].sub /\ tx[c].op \in Striped
                          /\ tx[c].op = "delete" => tx[c].lock = "update" /\ Rows(s) \subseteq DOMAIN tx[c].image
                          /\ tx[c].op # "delete" => subs'[s].state = subs[s].state
    /\ nextId' = IF tx[c].op \in Inserting THEN nextId + 1 ELSE nextId

\* A blank row belongs to no subscription.
LEMMA BlankOwner == NoRow.status = "absent" /\ NoRow.sub \notin Subs
BY StoreAssumption DEF NoRow

\* A commit never takes row ids back.
LEMMA IdsGrow ==
    ASSUME TxInv, NEW c \in Clients, Framed(c), NEW i \in RowIds, i < nextId
    PROVE  i < nextId'
<1>1. nextId \in Nat /\ i \in Nat
  BY DEF TxInv, TablesHold, StoreInv, StoreTypeOK, RowIds
<1>2. nextId' = nextId \/ nextId' = nextId + 1
  BY Zenon DEF Framed
<1> QED BY <1>1, <1>2

\* Rows are there below nextId, and blank from it on.
LEMMA BlankRows ==
    ASSUME TxInv, NEW i \in RowIds
    PROVE  /\ logs[i] \in Row /\ nextId \in Nat /\ i \in Nat
           /\ Present(i) => i < nextId /\ logs[i].sub \in Subs
           /\ ~Present(i) => logs[i] = NoRow
<1>1. logs[i] \in Row /\ nextId \in Nat /\ i \in Nat
  BY DEF TxInv, TablesHold, StoreInv, StoreTypeOK, RowIds
<1>2. (i >= nextId \/ ~Present(i) => logs[i] = NoRow) /\ (Present(i) => logs[i].sub \in Subs)
  BY DEF TxInv, TablesHold, StoreInv, Shape
<1>3. Present(i) => ~(i >= nextId)
  BY Zenon, <1>2, BlankOwner
<1>4. ~(i >= nextId) => i < nextId
  BY <1>1
<1> QED BY Zenon, <1>1, <1>2, <1>3, <1>4

\* A commit inserts at nextId.
LEMMA InsertsAtEnd ==
    ASSUME TxInv, NEW c \in Clients, Commit(c), NEW i \in RowIds, i < nextId, ~Present(i)
    PROVE  logs'[i] = logs[i]
<1>1. i # nextId /\ logs[i] = NoRow
  BY BlankRows
<1>2. i \notin DOMAIN tx[c].image
  BY Zenon, HeldRows DEF TxInv
<1> QED BY Zenon, <1>1, <1>2, CommitWrites

\* A webhook has one live row after a step, too.
LEMMA OnlyLiveAfter ==
    ASSUME StoreInv', NEW i \in RowIds, NEW j \in RowIds, Live(i)', Live(j)',
           logs'[i].webhook = logs'[j].webhook
    PROVE  i = j
<1>1. SameWebhook(i, j)' /\ SameWebhook(j, i)'
  BY Zenon DEF StoreInv, BudgetRespected, SameWebhook
<1>2. ~(i < j) /\ ~(j < i)
  BY Zenon, <1>1 DEF StoreInv, NewestRowIsCurrent
<1> QED BY <1>2 DEF RowIds

\* An ingest adds a row.
LEMMA FrameIngest ==
    ASSUME TxInv, NEW c \in Clients, Commit(c), tx[c].op = "ingest"
    PROVE  Framed(c)
<1>1. IngestHolds(c) /\ tx[c].step = "commit"
  BY ZenonT(40), CommitWrites DEF TxInv, Holds
<1>2. tx[c].sub \in Subs /\ DOMAIN tx[c].image = {} /\ tx[c].lock = "keyshare"
  BY Zenon, <1>1 DEF IngestHolds
<1>3. IngestPending(tx[c].sub, tx[c].key, tx[c].webhook)
  BY Zenon, CommitIngest
<1> DEFINE new == PendingRow(tx[c].webhook, tx[c].sub, 1, 0, "now")
<1>4. logs' = [logs EXCEPT ![nextId] = new] /\ nextId \in RowIds /\ nextId' = nextId + 1 /\ subs' = subs
  BY Zenon, <1>3 DEF IngestPending
<1>5. new.sub = tx[c].sub /\ new.replay = 0
  BY Zenon DEF PendingRow
<1> HIDE DEF new
<1>6. ASSUME NEW i \in RowIds
      PROVE  /\ Present(i) => logs'[i] = logs[i]
             /\ ~Present(i) /\ Present(i)' => logs'[i].sub = tx[c].sub /\ logs'[i].replay < i
  <2>1. DOMAIN logs = RowIds
    BY Zenon DEF TxInv, TablesHold, StoreInv, StoreTypeOK
  <2>2. CASE i # nextId
    BY Zenon, <1>4, <1>6, <2>1, <2>2
  <2>3. CASE i = nextId
    <3>1. i \in Nat /\ 0 < i /\ ~(i < i)
      BY <1>6 DEF RowIds
    <3>2. ~Present(i)
      BY Zenon, <1>6, <2>3, <3>1, BlankRows
    <3>3. logs'[i] = new
      BY Zenon, <1>4, <1>6, <2>1, <2>3
    <3> QED BY Zenon, <1>5, <3>1, <3>2, <3>3
  <2> QED BY Zenon, <2>2, <2>3
<1> QED BY ZenonT(40), <1>2, <1>4, <1>6 DEF Framed, Inserting

\* An outcome settles a row and counts.
LEMMA FrameOutcome ==
    ASSUME TxInv, NEW c \in Clients, Commit(c), tx[c].op \in {"success", "final"}
    PROVE  Framed(c)
<1> DEFINE r == tx[c].row
           new == Settle(tx[c].op, logs[r])
           s == tx[c].sub
           count == Counted(tx[c].op, subs[s])
<1>1. /\ r \in RowIds /\ Pending(r) /\ logs[r].sub = s
      /\ logs' = [logs EXCEPT ![r] = new] /\ nextId' = nextId
  BY Zenon, CommitOutcome
<1>2. logs[r] \in Row
  BY Zenon, <1>1, BlankRows
<1>3. new.sub = logs[r].sub /\ new.attempt = logs[r].attempt /\ new.replay = logs[r].replay
  BY Zenon, <1>2 DEF Settle, Row
<1>4. s \in Subs /\ subs' = [subs EXCEPT ![s] = count] /\ count.state = subs[s].state
  BY ZenonT(40), CommitCount, CountedType
<1>5. DOMAIN tx[c].image = {r}
  BY Zenon, CommitWrites DEF TxInv, Holds, OutcomeHolds, RowHolds
<1>6. DOMAIN logs = RowIds /\ DOMAIN subs = Subs
  BY DEF TxInv, TablesHold, StoreInv, StoreTypeOK
<1> HIDE DEF r, new, s, count
<1>7. \A i \in RowIds : i # r => logs'[i] = logs[i]
  BY Zenon, <1>1, <1>6
<1>8. logs'[r] = new /\ subs'[s] = count
  BY ZenonT(40), <1>1, <1>4, <1>6
<1>9. \A q \in Subs : q # s => subs'[q] = subs[q]
  BY ZenonT(40), <1>4, <1>6
<1> QED BY ZenonT(40), <1>1, <1>3, <1>4, <1>5, <1>7, <1>8, <1>9 DEF Framed, Inserting, Striped, s

\* A retry settles a row and adds one.
LEMMA FrameRetry ==
    ASSUME TxInv, NEW c \in Clients, Commit(c), tx[c].op = "retry"
    PROVE  Framed(c)
<1> DEFINE r == tx[c].row
           new == PendingRow(logs[r].webhook, logs[r].sub, logs[r].attempt + 1, logs[r].replay, "later")
<1>1. RetryHolds(c) /\ RowHolds(c) /\ tx[c].step = "commit"
  BY Zenon, CommitWrites DEF TxInv, Holds, RetryHolds
<1>2. /\ r \in RowIds /\ Pending(r) /\ logs[r].sub = tx[c].sub /\ DOMAIN tx[c].image = {r}
      /\ tx[c].sub \in Subs /\ tx[c].lock = "keyshare"
  BY Zenon, <1>1 DEF RowHolds, RetryHolds
<1>3. /\ logs' = [logs EXCEPT ![r].status = "failed_attempt", ![nextId] = new]
      /\ nextId \in RowIds /\ nextId' = nextId + 1 /\ subs' = subs
  BY Zenon, CommitRetry DEF FailAndScheduleRetry
<1>4. new.sub = logs[r].sub /\ new.replay = logs[r].replay
  BY Zenon DEF PendingRow
<1>5. /\ logs[r] \in Row /\ r < nextId /\ logs[r].replay < r /\ nextId \in Nat /\ r \in Nat
  BY Zenon, <1>2, BlankRows DEF TxInv, TablesHold
<1>6. logs \in [RowIds -> Row]
  BY DEF TxInv, TablesHold, StoreInv, StoreTypeOK
<1> HIDE DEF r, new
<1>7. /\ logs'[nextId] = new /\ logs'[r] = [logs[r] EXCEPT !.status = "failed_attempt"]
      /\ \A i \in RowIds : i # r /\ i # nextId => logs'[i] = logs[i]
  BY <1>2, <1>3, <1>5, <1>6
<1>8. logs'[r].sub = logs[r].sub /\ logs'[r].attempt = logs[r].attempt /\ logs'[r].replay = logs[r].replay
  BY ZenonT(40), <1>5, <1>7 DEF Row
<1>9. logs[r].replay \in Nat /\ new.replay < nextId
  BY <1>4, <1>5 DEF Row
<1>10. ~Present(nextId)
  BY <1>3, BlankRows
<1> QED BY ZenonT(40), <1>2, <1>3, <1>4, <1>7, <1>8, <1>9, <1>10 DEF Framed, Inserting

\* A replay clears a flag and adds a row.
LEMMA FrameReplay ==
    ASSUME TxInv, NEW c \in Clients, Commit(c), tx[c].op = "replay"
    PROVE  Framed(c)
<1>1. PICK r \in RowIds : r \in DOMAIN tx[c].image /\ ReplayDLQ(tx[c].sub, tx[c].webhook, r)
  BY Zenon, CommitReplay
<1> DEFINE D == InDLQ(tx[c].sub, tx[c].webhook)
           new == PendingRow(tx[c].webhook, tx[c].sub, 1, logs[r].replay + 1, "now")
<1>2. ReplayHolds(c) /\ tx[c].step = "commit"
  BY Zenon, CommitWrites DEF TxInv, Holds
<1>3. tx[c].sub \in Subs /\ tx[c].lock = "keyshare" /\ DOMAIN tx[c].image = D
  BY Zenon, <1>2 DEF ReplayHolds
<1>4. /\ logs' = [ClearFlag(D) EXCEPT ![nextId] = new]
      /\ nextId \in RowIds /\ nextId' = nextId + 1 /\ subs' = subs
  BY Zenon, <1>1 DEF ReplayDLQ
<1>5. new.sub = tx[c].sub /\ new.replay = logs[r].replay + 1
  BY Zenon DEF PendingRow
<1>6. \A i \in D : i \in RowIds /\ Present(i) /\ logs[i].sub = tx[c].sub
  BY Zenon DEF InDLQ, TxInv, TablesHold, StoreInv, BudgetRespected
<1>7. ~Present(nextId) /\ nextId \notin D
  <2>1. nextId \in Nat
    BY Zenon, <1>4, BlankRows
  <2>2. ~(nextId < nextId)
    BY <2>1
  <2> QED BY Zenon, <1>4, <1>6, <2>2, BlankRows
<1>8. new.replay < nextId
  <2> HIDE DEF new
  <2>1. Present(r) /\ logs[r].replay \in Nat /\ r < nextId /\ r \in Nat /\ nextId \in Nat
    BY Zenon, <1>1, <1>3, <1>6, BlankRows DEF Row
  <2>2. logs[r].replay < r
    BY <2>1 DEF TxInv, TablesHold
  <2> QED BY <1>5, <2>1, <2>2
<1> HIDE DEF D, new
<1>9. /\ logs'[nextId] = new
      /\ \A i \in RowIds : i \in D => logs'[i] = [logs[i] EXCEPT !.inDLQ = FALSE]
      /\ \A i \in RowIds : i \notin D /\ i # nextId => logs'[i] = logs[i]
  BY ZenonT(40), <1>4, <1>7 DEF ClearFlag
<1>10. ASSUME NEW i \in D
       PROVE  /\ logs'[i].sub = logs[i].sub /\ logs'[i].attempt = logs[i].attempt
              /\ logs'[i].replay = logs[i].replay
  <2>1. i \in RowIds /\ logs[i] \in Row
    BY ZenonT(40), <1>6, <1>10, BlankRows
  <2>2. logs'[i] = [logs[i] EXCEPT !.inDLQ = FALSE]
    BY Zenon, <1>9, <1>10, <2>1
  <2> QED BY ZenonT(40), <2>1, <2>2 DEF Row
<1> QED BY ZenonT(40), <1>3, <1>4, <1>5, <1>6, <1>7, <1>8, <1>9, <1>10 DEF Framed, Inserting

\* A deletion removes rows and their subscription.
LEMMA FrameDelete ==
    ASSUME TxInv, NEW c \in Clients, Commit(c), tx[c].op = "delete"
    PROVE  Framed(c)
<1> DEFINE s == tx[c].sub
<1>1. DeleteHolds(c) /\ tx[c].step = "commit" /\ DOMAIN tx[c].image \subseteq RowIds
  BY Zenon, CommitWrites DEF TxInv, Holds, TxRecord
<1>2. /\ s \in Subs /\ tx[c].lock = "update" /\ Rows(s) \subseteq DOMAIN tx[c].image
      /\ \A i \in DOMAIN tx[c].image : logs[i].sub = s
  BY Zenon, <1>1 DEF DeleteHolds
<1>3. /\ subs' = [subs EXCEPT ![s] = Deleted]
      /\ logs' = [i \in RowIds |-> IF logs[i].sub = s THEN NoRow ELSE logs[i]]
      /\ nextId' = nextId
  BY Zenon, CommitDelete DEF DeleteSubscription, Deleted
<1>4. ASSUME NEW i \in RowIds
      PROVE  /\ i \notin DOMAIN tx[c].image => logs'[i] = logs[i]
             /\ i \in DOMAIN tx[c].image => logs'[i] = NoRow
  BY Zenon, <1>2, <1>3 DEF Rows
<1>5. \A i \in DOMAIN tx[c].image : Present(i)
  BY Zenon, <1>1, <1>2, BlankRows, BlankOwner
<1>6. DOMAIN subs = Subs
  BY Zenon DEF TxInv, TablesHold, StoreInv, StoreTypeOK
<1>7. \A q \in Subs : q # s => subs'[q] = subs[q]
  BY Zenon, <1>3, <1>6
<1>8. NoRow.status = "absent"
  BY Zenon DEF NoRow
<1> QED BY ZenonT(40), <1>1, <1>2, <1>3, <1>4, <1>5, <1>7, <1>8 DEF Framed, Inserting, Striped

\* Every commit is framed.
LEMMA CommitFrame ==
    ASSUME TxInv, NEW c \in Clients, Commit(c)
    PROVE  Framed(c)
<1>1. tx[c].op \in Ops \ {"none"}
  BY Zenon, CommitWrites DEF TxRecord
<1> QED BY ZenonT(40), <1>1, FrameIngest, FrameOutcome, FrameRetry, FrameReplay, FrameDelete DEF Ops
=============================================================================
