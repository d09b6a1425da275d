------------------------- MODULE TransactionsProofs -------------------------
(***************************************************************************)
(* The transactions of internal/store are serializable: for any number of  *)
(* connections, what the statements of one do between them is one step of  *)
(* DeliveryStore, so that all that is proved of DeliveryStore holds of the *)
(* interleaved statements too.                                             *)
(***************************************************************************)
EXTENDS StatementProofs, DeliveryStoreProofs

USE DEF Present, Pending, Live

-----------------------------------------------------------------------------
(* What a commit does to the other transactions. *)

\* The locks of others outlast the commit: their rows are as they were.
LEMMA OthersRows ==
    ASSUME TxInv, NEW c \in Clients, Commit(c), NEW d \in Clients, d # c
    PROVE  /\ tx'[d] = tx[d] /\ Apart(c, d) /\ Holds(d)
           /\ \A i \in DOMAIN tx[d].image : i \in RowIds /\ Present(i) /\ logs'[i] = logs[i]
           /\ tx[d].lock # "none" => subs'[tx[d].sub].state = "live"
<1>1. tx'[d] = tx[d] /\ Apart(c, d) /\ Holds(d)
  BY Zenon DEF Commit, TxInv
<1>2. Framed(c) /\ tx[d] \in TxRecord
  BY ZenonT(40), <1>1, CommitFrame DEF Holds
<1>3. ASSUME NEW i \in DOMAIN tx[d].image PROVE i \in RowIds /\ Present(i) /\ logs'[i] = logs[i]
  <2>1. i \in RowIds /\ i \notin DOMAIN tx[c].image
    BY ZenonT(40), <1>1, <1>2, <1>3 DEF TxRecord, Apart
  <2>2. Present(i)
    BY ZenonT(40), <1>1, <1>3, HeldRows
  <2> QED BY ZenonT(40), <1>2, <2>1, <2>2 DEF Framed
<1>4. ASSUME tx[d].lock # "none" PROVE subs'[tx[d].sub].state = "live"
  <2>1. subs[tx[d].sub].state = "live" /\ tx[d].lock \in {"keyshare", "nokey", "update"}
    BY ZenonT(40), <1>1, <1>2, <1>4 DEF Holds, TxRecord, Locks
  <2>2. tx[d].sub \in Subs
    BY ZenonT(40), <1>1, <1>2, <1>4, HeldRows
  <2>3. tx[c].lock = "update" => tx[c].sub # tx[d].sub
    BY ZenonT(40), <1>1, <2>1 DEF Apart, Incompatible
  <2> QED BY ZenonT(40), <1>2, <2>1, <2>2, <2>3 DEF Framed
<1> QED BY ZenonT(40), <1>1, <1>3, <1>4

\* A webhook whose dead letter stays as it is has no other, before or after.
LEMMA DeadLetterKept ==
    ASSUME TxInv, StoreInv', NEW s, NEW w, NEW r \in RowIds, logs'[r] = logs[r],
           logs[r].inDLQ, logs[r].sub = s, logs[r].webhook = w
    PROVE  InDLQ(s, w)' = InDLQ(s, w)
<1>1. ASSUME NEW j \in RowIds, logs'[j].inDLQ, logs'[j].webhook = w PROVE j = r
  BY Zenon, <1>1, OnlyLiveAfter
<1>2. ASSUME NEW j \in RowIds, logs[j].inDLQ, logs[j].webhook = w PROVE j = r
  BY Zenon, <1>2, OnlyLive
<1>3. InDLQ(s, w) = {r}
  BY Zenon, <1>2 DEF InDLQ
<1>4. InDLQ(s, w)' = {r}
  BY Zenon, <1>1 DEF InDLQ
<1> QED BY Zenon, <1>3, <1>4

\* The commit of c leaves what d has read as it was.
LEMMA OthersHold ==
    ASSUME TxInv, NEW c \in Clients, Commit(c), NEW d \in Clients, d # c, StoreInv'
    PROVE  Holds(d)'
<1>1. /\ tx'[d] = tx[d] /\ Apart(c, d) /\ Holds(d) /\ tx[d] \in TxRecord
      /\ \A i \in DOMAIN tx[d].image : i \in RowIds /\ Present(i) /\ logs'[i] = logs[i]
      /\ tx[d].lock # "none" => subs'[tx[d].sub].state = "live"
  BY ZenonT(40), OthersRows DEF Holds
<1>2. Framed(c) /\ Holds(c) /\ tx[c] \in TxRecord
  BY Zenon, CommitFrame DEF TxInv, Holds
<1>3. \A i \in RowIds : i < nextId => i < nextId'
  BY Zenon, <1>2, IdsGrow
<1>4. ASSUME tx[d].op = "ingest" PROVE IngestHolds(d)'
  <2>1. IngestHolds(d)
    BY Zenon, <1>1, <1>4 DEF Holds
  <2>2. tx[d].webhook \notin minted'
    BY Zenon, <1>1, <1>4, <2>1 DEF IngestHolds, Apart, Commit
  <2>3. ASSUME tx[d].slot = TRUE PROVE idem'[<<tx[d].sub, tx[d].key>>] = None
    <3>1. tx[d].sub \in Subs /\ tx[d].key \in Keys /\ idem[<<tx[d].sub, tx[d].key>>] = None
      BY Zenon, <1>1, <2>1, <2>3 DEF IngestHolds, TxRecord
    <3>2. tx[c].slot = TRUE => <<tx[d].sub, tx[d].key>> # <<tx[c].sub, tx[c].key>>
      BY Zenon, <1>1, <2>3 DEF Apart
    <3>3. tx[c].slot \in BOOLEAN
      BY Zenon, <1>2 DEF TxRecord
    <3> DEFINE e == <<tx[d].sub, tx[d].key>>
    <3>4. e \in Subs \X Keys
      BY Zenon, <3>1
    <3>5. idem'[e] = IF tx[c].op = "delete" /\ e[1] = tx[c].sub THEN None
                     ELSE IF tx[c].slot /\ e = <<tx[c].sub, tx[c].key>> THEN tx[c].webhook ELSE idem[e]
      BY Zenon, <3>4 DEF Commit
    <3> QED BY Zenon, <3>1, <3>2, <3>3, <3>5
  <2> QED BY ZenonT(40), <1>1, <2>1, <2>2, <2>3 DEF IngestHolds
<1>5. ASSUME RowHolds(d), tx[d].op \in {"success", "final", "retry"} PROVE RowHolds(d)'
  <2> DEFINE r == tx[d].row
  <2>1. r \in RowIds /\ r < nextId /\ r < nextId'
    <3>1. r \in RowIds /\ r < nextId
      BY Zenon, <1>5 DEF RowHolds
    <3> QED BY Zenon, <1>3, <3>1
  <2>2. logs'[r].status # "absent" => Present(r) /\ logs'[r].sub = logs[r].sub /\ logs'[r].attempt = logs[r].attempt
    <3>1. CASE ~Present(r)
      <4>1. logs'[r] = logs[r]
        BY ZenonT(40), <2>1, <3>1, InsertsAtEnd
      <4> QED BY ZenonT(40), <3>1, <4>1
    <3>2. CASE Present(r) /\ r \notin DOMAIN tx[c].image
      BY ZenonT(40), <1>2, <2>1, <3>2 DEF Framed
    <3>3. CASE Present(r) /\ r \in DOMAIN tx[c].image
      <4>1. CASE tx[c].op = "delete"
        <5>1. logs'[r] = NoRow
          BY Zenon, <1>2, <3>3, <4>1 DEF Framed
        <5> QED BY Zenon, <5>1, BlankOwner
      <4>2. CASE tx[c].op # "delete"
        BY Zenon, <1>2, <2>1, <3>3, <4>2 DEF Framed
      <4> QED BY ZenonT(40), <4>1, <4>2
    <3> QED BY ZenonT(40), <3>1, <3>2, <3>3
  <2>3. tx[d].step # "cas" => logs'[r] = logs[r]
    BY Zenon, <1>1, <1>5 DEF RowHolds
  <2> QED BY ZenonT(40), <1>1, <1>5, <2>1, <2>2, <2>3 DEF RowHolds
<1>6. ASSUME tx[d].op \in {"success", "final"} PROVE OutcomeHolds(d)'
  <2>1. OutcomeHolds(d) /\ RowHolds(d)'
    BY Zenon, <1>1, <1>5, <1>6 DEF Holds, OutcomeHolds
  <2>2. subs'[tx[d].sub] = subs[tx[d].sub]
    <3>1. tx[d].sub \in Subs
      BY Zenon, <2>1 DEF OutcomeHolds, RowHolds
    <3> QED BY Zenon, <1>1, <1>2, <1>6, <3>1 DEF Framed, Apart, Striped
  <2> QED BY Zenon, <1>1, <2>1, <2>2 DEF OutcomeHolds
<1>7. ASSUME tx[d].op = "retry" PROVE RetryHolds(d)'
  <2>1. RetryHolds(d) /\ RowHolds(d) /\ RowHolds(d)'
    BY Zenon, <1>1, <1>5, <1>7 DEF Holds, RetryHolds
  <2>2. tx[d].step = "commit" => logs'[tx[d].row] = logs[tx[d].row]
    BY Zenon, <1>1, <2>1 DEF RowHolds
  <2> QED BY Zenon, <1>1, <2>1, <2>2 DEF RetryHolds
<1>8. ASSUME tx[d].op = "replay" PROVE ReplayHolds(d)'
  <2>1. ReplayHolds(d)
    BY Zenon, <1>1, <1>8 DEF Holds
  <2>2. ASSUME tx[d].step # "cas" PROVE InDLQ(tx[d].sub, tx[d].webhook)' = InDLQ(tx[d].sub, tx[d].webhook)
    <3>1. PICK r \in InDLQ(tx[d].sub, tx[d].webhook) : TRUE
      BY Zenon, <2>1, <2>2 DEF ReplayHolds
    <3>2. /\ r \in RowIds /\ logs'[r] = logs[r]
          /\ logs[r].inDLQ /\ logs[r].sub = tx[d].sub /\ logs[r].webhook = tx[d].webhook
      BY Zenon, <1>1, <2>1, <2>2, <3>1 DEF ReplayHolds, InDLQ
    <3>3. PICK s, w : s = tx[d].sub /\ w = tx[d].webhook
      BY Zenon
    <3>4. InDLQ(s, w)' = InDLQ(s, w)
      BY Zenon, <3>2, <3>3, DeadLetterKept
    <3> QED BY Zenon, <1>1, <3>3, <3>4
  <2>3. \A i \in DOMAIN tx[d].image : logs'[i] = logs[i]
    BY Zenon, <1>1
  <2> QED BY ZenonT(40), <1>1, <2>1, <2>2, <2>3 DEF ReplayHolds
<1>9. ASSUME tx[d].op = "delete" PROVE DeleteHolds(d)'
  <2>1. DeleteHolds(d)
    BY Zenon, <1>1, <1>9 DEF Holds
  <2>2. ASSUME tx[d].step = "commit", NEW i \in RowIds, logs'[i].sub = tx[d].sub
        PROVE  i \in DOMAIN tx[d].image
    <3>1. tx[d].lock = "update" /\ tx[d].sub \in Subs /\ Rows(tx[d].sub) \subseteq DOMAIN tx[d].image
      BY ZenonT(40), <2>1, <2>2 DEF DeleteHolds
    <3>2. Present(i)'
      <4>1. ~Present(i)' => logs'[i] = NoRow
        BY Zenon, <2>2 DEF StoreInv, Shape
      <4> QED BY Zenon, <2>2, <3>1, <4>1, BlankOwner
    <3>3. CASE ~Present(i)
      BY Zenon, <1>1, <1>2, <2>2, <3>1, <3>2, <3>3 DEF Framed, Apart, Incompatible
    <3>4. CASE Present(i) /\ i \notin DOMAIN tx[c].image
      BY Zenon, <1>2, <2>2, <3>1, <3>4 DEF Framed, Rows
    <3>5. CASE Present(i) /\ i \in DOMAIN tx[c].image
      <4>1. IF tx[c].op = "delete" THEN logs'[i] = NoRow ELSE logs'[i].sub = logs[i].sub
        BY Zenon, <1>2, <3>5 DEF Framed
      <4>2. logs[i].sub = tx[d].sub
        BY Zenon, <2>2, <3>2, <4>1, BlankOwner
      <4> QED BY Zenon, <2>2, <3>1, <3>5, <4>2 DEF Rows
    <3> QED BY ZenonT(40), <3>3, <3>4, <3>5
  <2>3. tx[d].step = "commit" => Rows(tx[d].sub)' \subseteq DOMAIN tx[d].image
    BY Zenon, <1>1, <2>2 DEF Rows
  <2> QED BY ZenonT(40), <1>1, <2>1, <2>3 DEF DeleteHolds
<1> QED BY ZenonT(40), <1>1, <1>4, <1>6, <1>7, <1>8, <1>9 DEF Holds

\* The tables after a commit.
LEMMA CommitTables ==
    ASSUME TxInv, NEW c \in Clients, Commit(c), StoreInv'
    PROVE  TablesHold'
<1>1. Framed(c) /\ Holds(c) /\ tx[c] \in TxRecord
  BY Zenon, CommitFrame DEF TxInv, Holds
<1>2. ASSUME NEW i \in RowIds, Present(i)'
      PROVE  subs'[logs'[i].sub].state = "live" /\ logs'[i].replay < i
  <2>1. CASE ~Present(i)
    <3>1. /\ tx[c].op \in Inserting /\ tx[c].lock = "keyshare" /\ tx[c].sub \in Subs
          /\ logs'[i].sub = tx[c].sub /\ logs'[i].replay < i
      BY Zenon, <1>1, <1>2, <2>1 DEF Framed
    <3>2. subs[tx[c].sub].state = "live" /\ subs'[tx[c].sub] = subs[tx[c].sub]
      BY ZenonT(40), <1>1, <3>1 DEF Holds, Framed, Inserting, Striped
    <3> QED BY Zenon, <3>1, <3>2
  <2>2. CASE Present(i)
    <3>1. subs[logs[i].sub].state = "live" /\ logs[i].replay < i /\ logs[i].sub \in Subs
      BY ZenonT(40), <2>2, BlankRows DEF TxInv, TablesHold
    <3>2. logs'[i] # NoRow
      BY Zenon, <1>2, BlankOwner
    <3>3. ASSUME i \in DOMAIN tx[c].image
          PROVE  /\ tx[c].op # "delete"
                 /\ logs'[i].sub = logs[i].sub /\ logs'[i].replay = logs[i].replay
      <4>1. tx[c].op = "delete" => logs'[i] = NoRow
        BY Zenon, <1>1, <3>3 DEF Framed
      <4>2. tx[c].op # "delete" => logs'[i].sub = logs[i].sub /\ logs'[i].replay = logs[i].replay
        BY Zenon, <1>1, <3>3 DEF Framed
      <4> QED BY Zenon, <3>2, <4>1, <4>2
    <3>4. logs'[i].sub = logs[i].sub /\ logs'[i].replay = logs[i].replay
      <4>1. i \notin DOMAIN tx[c].image => logs'[i] = logs[i]
        BY Zenon, <1>1, <1>2, <2>2 DEF Framed
      <4> QED BY Zenon, <3>3, <4>1
    <3>5. tx[c].op = "delete" => ~(Rows(logs[i].sub) \subseteq DOMAIN tx[c].image)
      <4>1. i \in Rows(logs[i].sub)
        BY Zenon, <2>2 DEF Rows
      <4> QED BY Zenon, <3>3, <4>1
    <3>6. subs'[logs[i].sub].state = "live"
      BY ZenonT(40), <1>1, <3>1, <3>5 DEF Framed
    <3> QED BY ZenonT(40), <3>1, <3>4, <3>6
  <2> QED BY Zenon, <2>1, <2>2
<1> QED BY Zenon, <1>2 DEF TablesHold

\* A commit leaves every other transaction as it is.
LEMMA CommitStep ==
    ASSUME TxInv, NEW c \in Clients, Commit(c)
    PROVE  TxInv'
<1>1. StoreInv'
  <2>1. StoreNext
    BY Zenon, CommitIs
  <2> QED BY ZenonT(40), <2>1, NextInv DEF TxInv, TablesHold
<1>2. TablesHold'
  BY ZenonT(40), <1>1, CommitTables
<1>3. /\ DOMAIN tx' = Clients /\ tx'[c] = NoTx
      /\ \A d \in Clients : d # c => tx'[d] = tx[d]
  BY Zenon DEF TxInv, Commit
<1>4. Holds(c)'
  BY ZenonT(40), <1>3, NoTxFacts DEF Holds
<1>5. \A d \in Clients : Holds(d)'
  BY ZenonT(40), <1>1, <1>4, OthersHold
<1>6. ASSUME NEW d \in Clients, NEW e \in Clients, d # e PROVE Apart(d, e)'
  <2>1. CASE d = c
    BY ZenonT(40), <1>3, <1>6, <2>1, NoTxFacts DEF Apart, Incompatible, Striped
  <2>2. CASE e = c
    BY ZenonT(40), <1>3, <1>6, <2>2, NoTxFacts DEF Apart, Incompatible, Striped
  <2>3. CASE d # c /\ e # c
    <3>1. Apart(d, e) /\ tx'[d] = tx[d] /\ tx'[e] = tx[e]
      BY Zenon, <1>3, <1>6, <2>3 DEF TxInv
    <3> QED BY Zenon, <3>1 DEF Apart
  <2> QED BY ZenonT(40), <2>1, <2>2, <2>3
<1> QED BY ZenonT(40), <1>2, <1>3, <1>5, <1>6 DEF TxInv

-----------------------------------------------------------------------------
(* Statements that are transactions of their own. *)

\* A step that leaves locked rows and counted subscriptions alone, inserts and
\* deletes no row and inserts no key.
LEMMA QuietStep ==
    ASSUME TxInv, StoreInv', tx' = tx, nextId' = nextId, minted' = minted,
           \A c \in Clients : \A i \in DOMAIN tx[c].image : logs'[i] = logs[i],
           \A i \in RowIds : \/ logs'[i] = logs[i]
                             \/ /\ Present(i) /\ logs'[i].sub = logs[i].sub
                                /\ logs'[i].attempt = logs[i].attempt /\ logs'[i].replay = logs[i].replay,
           \A s \in Subs : subs[s].state = "live" => subs'[s].state = "live",
           \A c \in Clients : tx[c].op \in {"success", "final"} /\ tx[c].step = "commit" =>
                subs'[tx[c].sub] = subs[tx[c].sub],
           \A e \in Subs \X Keys : idem'[e] = idem[e] \/ idem'[e] = None
    PROVE  TxInv'
<1>1. TablesHold'
  <2>1. (\A i \in RowIds : Present(i) => subs[logs[i].sub].state = "live" /\ logs[i].replay < i)'
    BY ZenonT(40), BlankRows DEF TxInv, TablesHold
  <2> QED BY Zenon, <2>1 DEF TablesHold
<1>2. ASSUME NEW d \in Clients PROVE Holds(d)'
  <2>1. /\ Holds(d) /\ tx'[d] = tx[d] /\ tx[d] \in TxRecord
        /\ \A i \in DOMAIN tx[d].image : i \in RowIds /\ Present(i) /\ logs'[i] = logs[i]
        /\ tx[d].lock # "none" => tx[d].sub \in Subs
    BY ZenonT(40), HeldRows DEF TxInv, Holds
  <2>2. ASSUME tx[d].op = "ingest" PROVE IngestHolds(d)'
    <3>1. IngestHolds(d)
      BY Zenon, <2>1, <2>2 DEF Holds
    <3>2. tx[d].slot = TRUE => idem'[<<tx[d].sub, tx[d].key>>] = None
      BY ZenonT(40), <2>1, <3>1 DEF IngestHolds, TxRecord
    <3> QED BY Zenon, <2>1, <3>1, <3>2 DEF IngestHolds
  <2>3. ASSUME RowHolds(d) PROVE RowHolds(d)'
    <3>1. /\ tx[d].row \in RowIds
          /\ logs'[tx[d].row].status # "absent" =>
                /\ Present(tx[d].row) /\ logs'[tx[d].row].sub = logs[tx[d].row].sub
                /\ logs'[tx[d].row].attempt = logs[tx[d].row].attempt
      BY Zenon, <2>3 DEF RowHolds
    <3>2. tx[d].step # "cas" => logs'[tx[d].row] = logs[tx[d].row]
      BY ZenonT(40), <2>1, <2>3 DEF RowHolds
    <3>3. PICK t : t = tx[d] /\ t = tx'[d]
      BY Zenon, <2>1
    <3>4. /\ t.slot = FALSE /\ t.sub \in Subs /\ t.row \in RowIds /\ t.row < nextId
          /\ t.step = "cas" => DOMAIN t.image = {} /\ t.lock = "none"
          /\ t.step # "cas" => DOMAIN t.image = {t.row} /\ Pending(t.row)
                             /\ t.image[t.row] = Settle(t.op, logs[t.row])
          /\ Present(t.row) => /\ logs[t.row].sub = t.sub
                               /\ t.op = "retry" => logs[t.row].attempt < MaxRetryAttempts
                               /\ t.op = "final" => logs[t.row].attempt >= MaxRetryAttempts
      BY ZenonT(40), <2>3, <3>3 DEF RowHolds
    <3>5. Present(t.row)' => /\ logs'[t.row].sub = t.sub
                             /\ t.op = "retry" => logs'[t.row].attempt < MaxRetryAttempts
                             /\ t.op = "final" => logs'[t.row].attempt >= MaxRetryAttempts
      BY ZenonT(40), <3>1, <3>3, <3>4
    <3>6. t.step # "cas" => Pending(t.row)' /\ t.image[t.row] = Settle(t.op, logs'[t.row])
      BY ZenonT(40), <3>2, <3>3, <3>4
    <3>7. t.row < nextId'
      BY ZenonT(40), <3>4
    <3> QED BY ZenonT(40), <3>3, <3>4, <3>5, <3>6, <3>7 DEF RowHolds
  <2>4. ASSUME tx[d].op \in {"success", "final"} PROVE OutcomeHolds(d)'
    <3>1. OutcomeHolds(d) /\ RowHolds(d)'
      BY ZenonT(40), <2>1, <2>3, <2>4 DEF Holds, OutcomeHolds
    <3>2. tx[d].step = "commit" => subs'[tx[d].sub] = subs[tx[d].sub]
      BY ZenonT(40), <2>4
    <3> QED BY ZenonT(40), <2>1, <3>1, <3>2 DEF OutcomeHolds
  <2>5. ASSUME tx[d].op = "retry" PROVE RetryHolds(d)'
    <3>1. RetryHolds(d) /\ RowHolds(d) /\ RowHolds(d)'
      BY ZenonT(40), <2>1, <2>3, <2>5 DEF Holds, RetryHolds
    <3>2. tx[d].step = "commit" => logs'[tx[d].row] = logs[tx[d].row]
      BY ZenonT(40), <2>1, <3>1 DEF RowHolds
    <3> QED BY ZenonT(40), <2>1, <3>1, <3>2 DEF RetryHolds
  <2>6. ASSUME tx[d].op = "replay" PROVE ReplayHolds(d)'
    <3>1. ReplayHolds(d)
      BY ZenonT(40), <2>1, <2>6 DEF Holds
    <3>2. ASSUME tx[d].step # "cas" PROVE InDLQ(tx[d].sub, tx[d].webhook)' = InDLQ(tx[d].sub, tx[d].webhook)
      <4>1. PICK r \in InDLQ(tx[d].sub, tx[d].webhook) : TRUE
        BY Zenon, <3>1, <3>2 DEF ReplayHolds
      <4>2. /\ r \in RowIds /\ logs'[r] = logs[r]
            /\ logs[r].inDLQ /\ logs[r].sub = tx[d].sub /\ logs[r].webhook = tx[d].webhook
        BY Zenon, <2>1, <3>1, <3>2, <4>1 DEF ReplayHolds, InDLQ
      <4>3. PICK s, w : s = tx[d].sub /\ w = tx[d].webhook
        BY ZenonT(40)
      <4>4. InDLQ(s, w)' = InDLQ(s, w)
        BY Zenon, <4>2, <4>3, DeadLetterKept
      <4> QED BY Zenon, <2>1, <4>3, <4>4
    <3>3. \A i \in DOMAIN tx[d].image : logs'[i] = logs[i]
      BY Zenon, <2>1
    <3> QED BY ZenonT(40), <2>1, <3>1, <3>2, <3>3 DEF ReplayHolds
  <2>7. ASSUME tx[d].op = "delete" PROVE DeleteHolds(d)'
    <3>1. DeleteHolds(d)
      BY Zenon, <2>1, <2>7 DEF Holds
    <3>2. Rows(tx[d].sub)' = Rows(tx[d].sub)
      BY Zenon, <2>1 DEF Rows
    <3> QED BY ZenonT(40), <2>1, <3>1, <3>2 DEF DeleteHolds
  <2>8. tx[d].lock # "none" => subs'[tx[d].sub].state = "live"
    BY ZenonT(40), <2>1 DEF Holds
  <2> QED BY Zenon, <2>1, <2>2, <2>4, <2>5, <2>6, <2>7, <2>8 DEF Holds
<1>3. \A c, d \in Clients : c # d => Apart(c, d)'
  BY ZenonT(40) DEF TxInv, Apart
<1> QED BY Zenon, <1>1, <1>2, <1>3 DEF TxInv

\* They are steps of DeliveryStore.
LEMMA SingleStatementIs ==
    ASSUME SingleStatement
    PROVE  StoreNext
<1>1. ASSUME NEW i \in RowIds, MarkDropped(i) PROVE StoreNext
  BY Zenon, <1>1 DEF StoreNext, RowStep
<1>2. ASSUME NEW s \in Subs, NEW w \in Webhooks, NEW i \in RowIds, AckDLQ(s, w, i) PROVE StoreNext
  BY Zenon, <1>2 DEF StoreNext, WebhookStep
<1>3. ASSUME NEW s \in Subs, NEW a \in BOOLEAN, CreateSubscription(s, a) PROVE StoreNext
  BY Zenon, <1>3 DEF StoreNext, SubscriptionStep
<1>4. ASSUME NEW s \in Subs, NEW a \in BOOLEAN, UpdateSubscription(s, a) PROVE StoreNext
  BY Zenon, <1>4 DEF StoreNext, SubscriptionStep
<1>5. ASSUME NEW P \in SUBSET (Subs \X Keys), PruneIdempotency(P) PROVE StoreNext
  BY Zenon, <1>5 DEF StoreNext, SweepStep
<1> QED BY Zenon, <1>1, <1>2, <1>3, <1>4, <1>5 DEF SingleStatement

\* They leave every open transaction as it is.
LEMMA SingleStatementStep ==
    ASSUME TxInv, SingleStatement
    PROVE  TxInv'
<1>1. StoreInv'
  <2>1. StoreNext
    BY Zenon, SingleStatementIs
  <2> QED BY ZenonT(40), <2>1, NextInv DEF TxInv, TablesHold
<1>2. tx' = tx
  BY ZenonT(40) DEF SingleStatement
<1>3. /\ logs \in [RowIds -> Row] /\ subs \in [Subs -> Subscription]
      /\ idem \in [Subs \X Keys -> Webhooks \cup {None}]
  BY ZenonT(40) DEF TxInv, TablesHold, StoreInv, StoreTypeOK
<1>4. \A c \in Clients : tx[c].op \in {"success", "final"} /\ tx[c].step = "commit" =>
            tx[c].sub \in Subs /\ subs[tx[c].sub].state = "live"
  <2>1. ASSUME NEW c \in Clients, tx[c].op \in {"success", "final"}, tx[c].step = "commit"
        PROVE  RowHolds(c)
    BY ZenonT(40), <2>1 DEF TxInv, Holds, OutcomeHolds
  <2> QED BY ZenonT(40), <2>1, WonRow
<1>5. ASSUME NEW i \in RowIds, Unlocked(i), MarkDropped(i) PROVE TxInv'
  <2>1. /\ Pending(i) /\ UNCHANGED <<subs, idem, minted, nextId>>
        /\ logs' = [logs EXCEPT ![i].status = "final_failure", ![i].inDLQ = FALSE, ![i].due = "null"]
    BY Zenon, <1>5 DEF MarkDropped
  <2>2. logs[i] \in Row
    BY ZenonT(40), <1>3, <1>5
  <2>3. /\ \A j \in RowIds : j # i => logs'[j] = logs[j]
        /\ logs'[i].sub = logs[i].sub /\ logs'[i].attempt = logs[i].attempt /\ logs'[i].replay = logs[i].replay
    BY ZenonT(40), <1>3, <1>5, <2>1, <2>2 DEF Row
  <2>4. \A c \in Clients : \A j \in DOMAIN tx[c].image : logs'[j] = logs[j]
    BY ZenonT(40), <1>5, <2>3, HeldRows DEF Unlocked
  <2> QED BY Zenon, <1>1, <1>2, <2>1, <2>3, <2>4, QuietStep
<1>6. ASSUME NEW s \in Subs, NEW w \in Webhooks, NEW i \in RowIds, Unlocked(i), AckDLQ(s, w, i)
      PROVE  TxInv'
  <2>1. /\ i \in InDLQ(s, w) /\ UNCHANGED <<subs, idem, minted, nextId>>
        /\ logs' = ClearFlag(InDLQ(s, w))
    BY Zenon, <1>6 DEF AckDLQ
  <2>2. InDLQ(s, w) = {i}
    BY ZenonT(40), <1>6, <2>1, OnlyLive DEF InDLQ
  <2>3. logs[i] \in Row /\ Present(i)
    BY ZenonT(40), <1>3, <1>6, <2>1 DEF InDLQ, TxInv, TablesHold, StoreInv, BudgetRespected
  <2>4. logs'[i] = [logs[i] EXCEPT !.inDLQ = FALSE] /\ \A j \in RowIds : j # i => logs'[j] = logs[j]
    BY ZenonT(40), <2>1, <2>2 DEF ClearFlag
  <2>5. logs'[i].sub = logs[i].sub /\ logs'[i].attempt = logs[i].attempt /\ logs'[i].replay = logs[i].replay
    BY ZenonT(40), <2>3, <2>4 DEF Row
  <2>6. \A c \in Clients : \A j \in DOMAIN tx[c].image : logs'[j] = logs[j]
    BY ZenonT(40), <1>6, <2>4, HeldRows DEF Unlocked
  <2> QED BY Zenon, <1>1, <1>2, <2>1, <2>3, <2>4, <2>5, <2>6, QuietStep
<1>7. ASSUME NEW s \in Subs, NEW a \in BOOLEAN, CreateSubscription(s, a) PROVE TxInv'
  <2>1. /\ subs[s].state = "new" /\ UNCHANGED <<logs, idem, minted, nextId>>
        /\ \A q \in Subs : q # s => subs'[q] = subs[q]
    BY ZenonT(40), <1>3, <1>7 DEF CreateSubscription
  <2>2. \A q \in Subs : subs[q].state = "live" => subs'[q] = subs[q]
    BY Zenon, <2>1
  <2> QED BY ZenonT(40), <1>1, <1>2, <1>4, <2>1, <2>2, QuietStep
<1>8. ASSUME NEW s \in Subs, NEW a \in BOOLEAN, StripeFree(s), UpdateSubscription(s, a) PROVE TxInv'
  <2>1. /\ subs' = [subs EXCEPT ![s].active = a] /\ UNCHANGED <<logs, idem, minted, nextId>>
    BY Zenon, <1>8 DEF UpdateSubscription
  <2>2. /\ \A q \in Subs : q # s => subs'[q] = subs[q]
        /\ subs'[s].state = subs[s].state
    BY ZenonT(40), <1>3, <1>8, <2>1 DEF Subscription
  <2>3. \A c \in Clients : tx[c].op \in {"success", "final"} => tx[c].sub # s
    BY ZenonT(40), <1>8 DEF StripeFree
  <2>4. \A c \in Clients : tx[c].op \in {"success", "final"} /\ tx[c].step = "commit" =>
            subs'[tx[c].sub] = subs[tx[c].sub]
    BY ZenonT(40), <1>4, <2>2, <2>3
  <2>5. \A q \in Subs : subs[q].state = "live" => subs'[q].state = "live"
    BY ZenonT(40), <2>2
  <2> QED BY ZenonT(40), <1>1, <1>2, <2>1, <2>4, <2>5, QuietStep
<1>9. ASSUME NEW P \in SUBSET (Subs \X Keys), PruneIdempotency(P) PROVE TxInv'
  <2>1. /\ idem' = [e \in Subs \X Keys |-> IF e \in P THEN None ELSE idem[e]]
        /\ UNCHANGED <<logs, subs, minted, nextId>>
    BY Zenon, <1>9 DEF PruneIdempotency
  <2>2. \A e \in Subs \X Keys : idem'[e] = idem[e] \/ idem'[e] = None
    BY ZenonT(40), <2>1
  <2> QED BY ZenonT(40), <1>1, <1>2, <2>1, <2>2, QuietStep
<1> QED BY ZenonT(40), <1>5, <1>6, <1>7, <1>8, <1>9 DEF SingleStatement

-----------------------------------------------------------------------------
(* The theorems. *)

\* No transaction is open at first.
LEMMA TxInit == Init => TxInv
<1> SUFFICES ASSUME Init PROVE TxInv
  BY Zenon
<1>1. StoreInit /\ tx = [c \in Clients |-> NoTx] /\ StoreInv
  BY ZenonT(40), InitInv DEF Init
<1>2. \A i \in RowIds : ~Present(i)
  BY ZenonT(40), <1>1 DEF StoreInit, NoRow
<1>3. \A c \in Clients : Holds(c)
  BY ZenonT(40), <1>1, NoTxFacts DEF Holds
<1>4. \A c, d \in Clients : Apart(c, d)
  BY ZenonT(40), <1>1, NoTxFacts DEF Apart, Incompatible, Striped
<1> QED BY ZenonT(40), <1>1, <1>2, <1>3, <1>4 DEF TxInv, TablesHold

\* Every step preserves the invariant.
LEMMA TxNext == TxInv /\ [Next]_vars => TxInv'
<1> SUFFICES ASSUME TxInv, [Next]_vars PROVE TxInv'
  BY Zenon
<1>1. ASSUME NEW c \in Clients, BeginSome(c) PROVE TxInv'
  BY ZenonT(40), <1>1, BeginIngestStep, BeginOutcomeStep, BeginReplayStep, BeginDeleteStep DEF BeginSome
<1>2. ASSUME NEW c \in Clients, Statement(c) PROVE TxInv'
  <2>1. CASE SelectKey(c)
    BY Zenon, <2>1, ClosedStep DEF SelectKey, End, Set
  <2> QED BY ZenonT(40), <1>2, <2>1, InsertKeyStep, CheckKeyStep, CasStep, CountStep, InsertRowStep,
             LockOwnerStep, CascadeStep, CommitStep DEF Statement
<1>3. ASSUME NEW c \in Clients, Rollback(c) PROVE TxInv'
  BY Zenon, <1>3, ClosedStep DEF Rollback
<1>4. ASSUME NEW c \in Clients, DeadlockVictim(c) PROVE TxInv'
  BY Zenon, <1>4, ClosedStep DEF DeadlockVictim, End, Set
<1>5. CASE SingleStatement
  BY ZenonT(40), <1>5, SingleStatementStep
<1>6. CASE UNCHANGED vars
  <2>1. tx' = tx /\ logs' = logs /\ subs' = subs /\ idem' = idem /\ minted' = minted /\ nextId' = nextId
    BY ZenonT(40), <1>6 DEF vars, storeVars
  <2>2. StoreInv'
    BY ZenonT(40), <1>6, NextInv DEF TxInv, TablesHold, vars
  <2> QED BY ZenonT(40), <2>1, <2>2, QuietStep
<1> QED BY ZenonT(40), <1>1, <1>2, <1>3, <1>4, <1>5, <1>6 DEF Next

\* The invariant holds throughout.
LEMMA TxInvariant == Spec => []TxInv
<1>1. Spec => Init /\ [][Next]_vars
  BY PTL DEF Spec
<1> QED BY <1>1, TxInit, TxNext, PTL

\* Only a commit or a single statement changes the tables.
LEMMA TxRefines == TxInv /\ [Next]_vars => [StoreNext]_storeVars
<1> SUFFICES ASSUME TxInv, [Next]_vars PROVE [StoreNext]_storeVars
  BY Zenon
<1>1. ASSUME NEW c \in Clients, BeginSome(c) PROVE UNCHANGED storeVars
  BY Zenon, <1>1 DEF BeginSome, BeginIngest, BeginOutcome, BeginReplay, BeginDelete, Begin, Set
<1>2. ASSUME NEW c \in Clients, Statement(c) PROVE [StoreNext]_storeVars
  <2>1. CASE Commit(c)
    BY ZenonT(40), <2>1, CommitIs
  <2>2. CASE InsertKey(c) \/ CheckKey(c) \/ SelectKey(c)
    BY ZenonT(40), <2>2 DEF InsertKey, CheckKey, SelectKey, End, Set
  <2>3. CASE Cas(c)
    BY ZenonT(40), <2>3 DEF Cas, End, Set
  <2>4. CASE Count(c)
    BY ZenonT(40), <2>4 DEF Count, Set
  <2>5. CASE InsertRow(c)
    BY ZenonT(40), <2>5 DEF InsertRow, End, Set
  <2>6. CASE LockOwner(c) \/ Cascade(c)
    BY Zenon, <2>6 DEF LockOwner, Cascade, End, Set
  <2> QED BY ZenonT(40), <1>2, <2>1, <2>2, <2>3, <2>4, <2>5, <2>6 DEF Statement
<1>3. ASSUME NEW c \in Clients, Rollback(c) \/ DeadlockVictim(c) PROVE UNCHANGED storeVars
  BY ZenonT(40), <1>3 DEF Rollback, DeadlockVictim, End, Set
<1>4. CASE SingleStatement
  BY ZenonT(40), <1>4, SingleStatementIs
<1>5. CASE UNCHANGED vars
  BY ZenonT(40), <1>5 DEF vars
<1> QED BY ZenonT(40), <1>1, <1>2, <1>3, <1>4, <1>5 DEF Next

\* The interleaved statements of any number of transactions implement the
\* single steps of DeliveryStore: what MarkSuccess, FinalizeFailure,
\* FailAndScheduleRetry, IngestPending, ReplayDLQ and Delete decided on still holds
\* when they commit, so the theorems on DeliveryStore hold of them too.
THEOREM SerializableTheorem == Spec => ImplementsStore
<1>1. Spec => Init /\ [][Next]_vars
  BY PTL DEF Spec
<1>2. Init => StoreInit
  BY DEF Init
<1> QED BY <1>1, <1>2, TxInvariant, TxRefines, PTL DEF ImplementsStore, StoreSpec

\* So what handleWebhookStatus reports between any two statements of interleaved
\* transactions follows the promised life cycle of each webhook.
THEOREM TransactionsImplementOutcome == Spec => ImplementsOutcome
BY SerializableTheorem, StoreImplementsOutcome, PTL DEF ImplementsStore

\* A transaction that has won its row finds its subscription there until it ends:
\* FinalizeFailure's "Subscription vanished" case and a failing foreign key of a
\* successor cannot happen, for any number of connections.
THEOREM WonRowTheorem == Spec => []WonRowKeepsItsSubscription
<1>1. TxInv => WonRowKeepsItsSubscription
  <2> SUFFICES ASSUME TxInv, NEW c \in Clients, NEW i \in DOMAIN tx[c].image
               PROVE  subs[tx[c].sub].state = "live" /\ Present(i)
    BY Zenon DEF WonRowKeepsItsSubscription
  <2>1. i \in RowIds /\ Present(i) /\ logs[i].sub = tx[c].sub
    BY ZenonT(40), HeldRows
  <2> QED BY ZenonT(40), <2>1 DEF TxInv, TablesHold
<1> QED BY <1>1, TxInvariant, PTL

\* Where a transaction is that holds a row, the subscription or a key.
LEMMA LockOfOp ==
    ASSUME TxInv, NEW c \in Clients
    PROVE  /\ DOMAIN tx[c].image # {} =>
                /\ tx[c].op \in {"success", "final", "retry", "replay", "delete"}
                /\ tx[c].op = "delete" => tx[c].step \in {"cascade", "commit"}
                /\ tx[c].step \in {"owner", "insert", "cascade", "commit"}
           /\ tx[c].lock = "update" => tx[c].step \in {"cascade", "commit"}
           /\ tx[c].lock = "nokey" => tx[c].step = "commit"
           /\ tx[c].lock = "keyshare" => tx[c].step \in {"insert", "commit"}
           /\ tx[c].slot = TRUE => tx[c].step \in {"keyCheck", "insert", "commit"}
<1>1. Holds(c) /\ tx[c] \in TxRecord /\ tx[c].op \in Ops
  BY ZenonT(40) DEF TxInv, Holds, TxRecord
<1>2. CASE tx[c].op = "none"
  BY ZenonT(40), <1>1, <1>2, NoTxFacts DEF Holds
<1>3. CASE tx[c].op = "ingest"
  <2>1. /\ DOMAIN tx[c].image = {}
        /\ tx[c].slot = TRUE => tx[c].step \in {"keyCheck", "insert", "commit"}
        /\ tx[c].lock = IF tx[c].step = "commit" \/ (tx[c].step = "insert" /\ tx[c].key # None)
                        THEN "keyshare" ELSE "none"
    BY ZenonT(40), <1>1, <1>3 DEF Holds, IngestHolds
  <2>2. PICK lock, step, n : lock = tx[c].lock /\ step = tx[c].step /\ n = (tx[c].key # None)
    BY ZenonT(40)
  <2>3. lock = IF step = "commit" \/ (step = "insert" /\ n) THEN "keyshare" ELSE "none"
    BY Zenon, <2>1, <2>2
  <2>4. lock \notin {"update", "nokey"} /\ (lock = "keyshare" => step \in {"insert", "commit"})
    BY ZenonT(40), <2>3
  <2> QED BY Zenon, <2>1, <2>2, <2>4
<1>4. CASE tx[c].op \in {"success", "final"}
  <2>1. OutcomeHolds(c) /\ RowHolds(c)
    BY ZenonT(40), <1>1, <1>4 DEF Holds, OutcomeHolds
  <2>2. tx[c].slot = FALSE /\ (tx[c].step = "cas" => DOMAIN tx[c].image = {} /\ tx[c].lock = "none")
    BY ZenonT(40), <2>1 DEF RowHolds
  <2>3. /\ tx[c].step \in {"cas", "owner", "commit"} /\ (tx[c].step = "owner" => tx[c].lock = "none")
        /\ tx[c].step = "commit" => tx[c].lock \in {"none", "nokey"}
    BY ZenonT(40), <2>1 DEF OutcomeHolds
  <2> QED BY ZenonT(40), <1>4, <2>2, <2>3
<1>5. CASE tx[c].op = "retry"
  <2>1. RetryHolds(c) /\ RowHolds(c)
    BY ZenonT(40), <1>1, <1>5 DEF Holds, RetryHolds
  <2>2. tx[c].slot = FALSE /\ (tx[c].step = "cas" => DOMAIN tx[c].image = {} /\ tx[c].lock = "none")
    BY ZenonT(40), <2>1 DEF RowHolds
  <2>3. /\ tx[c].step \in {"cas", "insert", "commit"} /\ (tx[c].step # "commit" => tx[c].lock = "none")
        /\ tx[c].step = "commit" => tx[c].lock = "keyshare"
    BY ZenonT(40), <2>1 DEF RetryHolds
  <2> QED BY ZenonT(40), <1>5, <2>2, <2>3
<1>6. CASE tx[c].op = "replay"
  BY ZenonT(40), <1>1, <1>6 DEF Holds, ReplayHolds
<1>7. CASE tx[c].op = "delete"
  BY ZenonT(40), <1>1, <1>7 DEF Holds, DeleteHolds
<1> QED BY ZenonT(40), <1>1, <1>2, <1>3, <1>4, <1>5, <1>6, <1>7 DEF Ops

\* The stripe keeps others off the counter: its UPDATE never waits.
LEMMA OutcomeWaits ==
    ASSUME TxInv, NEW c \in Clients, tx[c].op \in {"success", "final"}, WaitsFor(c) # {}
    PROVE  tx[c].step = "cas"
<1>1. tx[c].step \in {"cas", "owner", "commit"}
  BY ZenonT(40) DEF TxInv, Holds, OutcomeHolds
<1>2. ASSUME tx[c].step = "owner" PROVE FALSE
  <2>1. PICK d \in OwnerHolders(c, "nokey") : TRUE
    BY ZenonT(40), <1>2, WaitsForWhom DEF At
  <2>2. d \in Clients /\ d # c /\ tx[d].sub = tx[c].sub /\ tx[d].lock \in {"nokey", "update"}
    BY ZenonT(40), <2>1 DEF OwnerHolders, Others, Incompatible
  <2>3. Apart(c, d) /\ Holds(d) /\ tx[d].op \in Ops
    BY ZenonT(40), <2>2 DEF TxInv, Holds, TxRecord
  <2>4. tx[d].op \in Striped
    <3>1. CASE tx[d].op = "none"
      BY ZenonT(40), <2>2, <2>3, <3>1, NoTxFacts DEF Holds
    <3>2. CASE tx[d].op = "ingest"
      BY ZenonT(40), <2>2, <2>3, <3>2 DEF Holds, IngestHolds
    <3>3. CASE tx[d].op = "retry"
      BY ZenonT(40), <2>2, <2>3, <3>3 DEF Holds, RetryHolds
    <3>4. CASE tx[d].op = "replay"
      BY ZenonT(40), <2>2, <2>3, <3>4 DEF Holds, ReplayHolds
    <3> QED BY ZenonT(40), <2>3, <3>1, <3>2, <3>3, <3>4 DEF Ops, Striped
  <2> QED BY ZenonT(40), <2>2, <2>3, <2>4 DEF Apart, Striped
<1>3. tx[c].step # "commit"
  BY ZenonT(40), WaitsForWhom DEF At
<1> QED BY ZenonT(40), <1>1, <1>2, <1>3

\* The rows an UPDATE is after are of its subscription.
LEMMA TargetSub ==
    ASSUME TxInv, NEW c \in Clients, tx[c].step = "cas", NEW i \in Target(c)
    PROVE  logs[i].sub = tx[c].sub
<1>1. Holds(c) /\ tx[c].op \in {"success", "final", "retry", "replay"}
  BY ZenonT(40), StepOfOp DEF TxInv
<1>2. CASE tx[c].op = "replay"
  BY ZenonT(40), <1>2 DEF Target, InDLQ
<1>3. CASE tx[c].op # "replay"
  <2>1. RowHolds(c)
    BY ZenonT(40), <1>1, <1>3 DEF Holds, OutcomeHolds, RetryHolds
  <2> QED BY ZenonT(40), <1>3, <2>1 DEF Target, RowHolds
<1> QED BY ZenonT(40), <1>2, <1>3

\* Who waits for somebody who waits.
LEMMA Blocked ==
    ASSUME TxInv, NEW c \in Clients, NEW d \in WaitsFor(c), WaitsFor(d) # {}
    PROVE  /\ d \in Clients /\ d # c
           /\ tx[c].step \in {"key", "keyCheck", "insert", "cas", "cascade"}
           /\ tx[c].step = "key" => tx[d].step \in {"keyCheck", "insert"}
           /\ tx[c].step \in {"keyCheck", "insert"} => tx[d].step = "cascade" /\ tx[d].sub = tx[c].sub
           /\ tx[c].step = "cas" => tx[d].step \in {"insert", "cascade"} /\ tx[d].sub = tx[c].sub
           /\ tx[c].step = "cascade" => tx[d].op \in {"retry", "replay"}
<1>1. d \in Clients /\ d # c
  BY ZenonT(40) DEF WaitsFor, KeyHolders, OwnerHolders, RowHolders, Others
<1>2. Holds(c) /\ Holds(d) /\ Apart(c, d) /\ tx[c] \in TxRecord /\ tx[d] \in TxRecord
  BY ZenonT(40), <1>1 DEF TxInv, Holds
<1>3. tx[d].step \notin {"none", "select", "commit"}
  BY ZenonT(40), <1>1, WaitsForWhom DEF At
<1>4. tx[c].step \in TransactionSteps /\ tx[c].step \notin {"none", "select", "commit"}
  BY ZenonT(40), <1>2, WaitsForWhom DEF At, TxRecord
<1>5. tx[d].lock = "update" => tx[d].step = "cascade"
  BY ZenonT(40), <1>1, <1>2, <1>3, LockOfOp
<1>6. \A i \in DOMAIN tx[d].image :
        /\ tx[d].step \in {"owner", "insert", "cascade"} /\ i \in RowIds /\ logs[i].sub = tx[d].sub
        /\ tx[d].op \in {"success", "final", "retry", "replay", "delete"}
  BY ZenonT(40), <1>1, <1>2, <1>3, HeldRows, LockOfOp
<1>7. tx[d].op \in {"success", "final"} => tx[d].step = "cas"
  BY ZenonT(40), <1>1, OutcomeWaits
<1>8. CASE tx[c].step = "key"
  <2>1. d \in KeyHolders(c)
    BY ZenonT(40), <1>8, WaitsForWhom DEF At
  <2>2. tx[d].slot
    BY ZenonT(40), <1>3, <2>1 DEF KeyHolders, At
  <2>3. tx[d].step \in {"keyCheck", "insert"}
    BY Zenon, <1>1, <1>2, <1>3, <2>2, LockOfOp DEF TxRecord
  <2> QED BY ZenonT(40), <1>1, <1>8, <2>3
<1>9. CASE tx[c].step \in {"keyCheck", "insert"}
  <2>1. d \in OwnerHolders(c, "keyshare")
    BY ZenonT(40), <1>9, WaitsForWhom DEF At
  <2>2. tx[d].lock = "update" /\ tx[d].sub = tx[c].sub
    BY ZenonT(40), <2>1 DEF OwnerHolders, Incompatible
  <2> QED BY ZenonT(40), <1>1, <1>5, <1>9, <2>2
<1>10. CASE tx[c].step = "cas"
  <2>1. PICK i \in Target(c) : d \in RowHolders(c, i)
    BY <1>10, WaitsForWhom DEF At
  <2>2. i \in DOMAIN tx[d].image
    BY Zenon, <2>1 DEF RowHolders
  <2>3. logs[i].sub = tx[c].sub
    BY Zenon, <1>1, <1>2, <1>10, <2>1, TargetSub
  <2>4. tx[d].step # "owner"
    BY ZenonT(40), <1>1, <1>2, <1>6, <1>7, <2>2, StepOfOp, LockOfOp
  <2> QED BY ZenonT(40), <1>1, <1>6, <1>10, <2>2, <2>3, <2>4
<1>11. CASE tx[c].step = "owner"
  <2>1. CASE tx[c].op = "delete"
    <3>1. d \in OwnerHolders(c, "update")
      BY Zenon, <1>11, <2>1, WaitsForWhom DEF At
    <3>2. tx[d].lock \in {"keyshare", "nokey", "update"} /\ tx[d].sub = tx[c].sub
      BY Zenon, <3>1 DEF OwnerHolders, Incompatible
    <3>3. tx[d].op \notin Striped
      BY Zenon, <1>2, <2>1, <3>2 DEF Apart, Striped
    <3>4. tx[d].lock = "keyshare" /\ tx[d].step = "insert"
      BY ZenonT(40), <1>1, <1>2, <1>3, <3>2, <3>3, LockOfOp, StepOfOp DEF Striped
    <3>5. PICK e \in OwnerHolders(d, "keyshare") : TRUE
      BY <1>1, <3>4, WaitsForWhom DEF At
    <3>6. e \in Clients /\ e # d /\ tx[e].sub = tx[d].sub /\ tx[e].lock = "update"
      BY Zenon, <3>5 DEF OwnerHolders, Others, Incompatible
    <3>7. Apart(d, e)
      BY Zenon, <1>1, <3>6 DEF TxInv
    <3> QED BY Zenon, <3>4, <3>6, <3>7 DEF Apart, Incompatible
  <2>2. CASE tx[c].op # "delete"
    <3>1. tx[c].op \in {"success", "final"}
      BY Zenon, <1>2, <1>11, <2>2, StepOfOp
    <3> QED BY Zenon, <1>11, <3>1, OutcomeWaits
  <2> QED BY Zenon, <2>1, <2>2
<1>12. CASE tx[c].step = "cascade"
  <2>1. PICK i \in Rows(tx[c].sub) : d \in RowHolders(c, i)
    BY <1>12, WaitsForWhom DEF At
  <2>2. i \in DOMAIN tx[d].image /\ logs[i].sub = tx[c].sub
    BY Zenon, <2>1 DEF RowHolders, Rows
  <2>3. tx[c].op = "delete" /\ tx[d].sub = tx[c].sub
    <3>1. tx[c].op = "delete"
      BY ZenonT(40), <1>2, <1>12, StepOfOp
    <3> QED BY ZenonT(40), <1>6, <2>2, <3>1
  <2>4. tx[d].op \notin Striped
    BY Zenon, <1>2, <2>3 DEF Apart, Striped
  <2> QED BY Zenon, <1>1, <1>6, <1>12, <2>2, <2>4 DEF Striped
<1> QED BY ZenonT(40), <1>4, <1>8, <1>9, <1>10, <1>11, <1>12 DEF TransactionSteps

\* Connections wait for each other in a circle only where a deletion meets a retry or
\* a replay of its subscription, however many there are: these are the transactions
\* PostgreSQL may abort, and MarkSuccess and FinalizeFailure are not among them.
THEOREM CyclesTheorem == Spec => []CyclesNeedDeleteAndInsert
<1>1. TxInv => CyclesNeedDeleteAndInsert
  <2> SUFFICES ASSUME TxInv, NEW C \in SUBSET Clients, Deadlocked(C)
               PROVE  /\ \E c \in C : tx[c].op = "delete"
                      /\ \E c \in C : tx[c].op \in {"retry", "replay"}
                      /\ \A c \in C : tx[c].op \notin {"success", "final"}
    BY Zenon DEF CyclesNeedDeleteAndInsert
  <2> DEFINE Behind(c, d) ==
                /\ d \in Clients /\ d # c
                /\ tx[c].step \in {"key", "keyCheck", "insert", "cas", "cascade"}
                /\ tx[c].step = "key" => tx[d].step \in {"keyCheck", "insert"}
                /\ tx[c].step \in {"keyCheck", "insert"} => tx[d].step = "cascade" /\ tx[d].sub = tx[c].sub
                /\ tx[c].step = "cas" => tx[d].step \in {"insert", "cascade"} /\ tx[d].sub = tx[c].sub
                /\ tx[c].step = "cascade" => tx[d].op \in {"retry", "replay"}
  <2>1. ASSUME NEW c \in C PROVE \E d \in C : Behind(c, d)
    <3>1. PICK d \in C : d \in WaitsFor(c) /\ WaitsFor(d) # {}
      BY Zenon, <2>1 DEF Deadlocked
    <3> QED BY Zenon, <2>1, <3>1, Blocked
  <2> HIDE DEF Behind
  <2>2. \A c \in C : Holds(c) /\ (tx[c].step = "cascade" => tx[c].op = "delete")
    BY Zenon, StepOfOp DEF TxInv
  <2>3. \E e \in C : tx[e].step = "cascade"
    <3>1. PICK c \in C : TRUE
      BY Zenon DEF Deadlocked
    <3>2. PICK d \in C : Behind(c, d)
      BY ZenonT(40), <2>1
    <3>3. PICK e \in C : Behind(d, e)
      BY ZenonT(40), <2>1
    <3> QED BY ZenonT(40), <3>2, <3>3 DEF Behind
  <2>4. ASSUME NEW c \in C, tx[c].op \in {"success", "final"} PROVE FALSE
    <3>1. tx[c].step = "cas"
      BY ZenonT(40), <2>4, OutcomeWaits DEF Deadlocked
    <3>2. PICK d \in C : Behind(c, d)
      BY ZenonT(40), <2>1, <2>4
    <3>3. tx[d].step \in {"insert", "cascade"} /\ tx[d].sub = tx[c].sub
      BY ZenonT(40), <3>1, <3>2 DEF Behind
    <3>4. PICK e \in C : tx[e].step = "cascade" /\ tx[e].sub = tx[c].sub
      <4>1. PICK e \in C : Behind(d, e)
        BY Zenon, <2>1
      <4>2. tx[d].step = "insert" => tx[e].step = "cascade" /\ tx[e].sub = tx[d].sub
        BY ZenonT(40), <4>1 DEF Behind
      <4> QED BY ZenonT(40), <3>3, <4>2
    <3>5. tx[e].op = "delete" /\ e # c /\ e \in Clients /\ c \in Clients
      BY ZenonT(40), <2>2, <2>4, <3>1, <3>4
    <3>6. Apart(c, e)
      BY ZenonT(40), <3>5 DEF TxInv
    <3> QED BY ZenonT(40), <2>4, <3>4, <3>5, <3>6 DEF Apart, Striped
  <2>5. PICK e \in C : tx[e].step = "cascade"
    BY ZenonT(40), <2>3
  <2>6. tx[e].op = "delete"
    BY ZenonT(40), <2>2, <2>5
  <2>7. \E d \in C : tx[d].op \in {"retry", "replay"}
    BY ZenonT(40), <2>1, <2>5 DEF Behind
  <2> QED BY Zenon, <2>4, <2>6, <2>7
<1> QED BY <1>1, TxInvariant, PTL

\* What the store keeps when transactions are single steps, it keeps when their
\* statements interleave and connections are rolled back (the BeginTx...Commit
\* blocks of store.go under READ COMMITTED).
THEOREM TransactionsKeepTables ==
  Spec => /\ []OneLiveRow /\ []NewestRowIsCurrent /\ []RetryHasSuccessor
          /\ []BudgetRespected /\ []KeyNamesAcceptedWebhook /\ []ReportsTheWork
          /\ SettledStaysSettled /\ WorkOnlyCascades /\ StatusOnlyAdvances
BY SerializableTheorem, OneLiveRowTheorem, NewestRowTheorem, RetrySuccessorTheorem,
   BudgetTheorem, KeyTheorem, ReportTheorem, SettledTheorem, CascadeTheorem,
   StatusTheorem, PTL DEF ImplementsStore

=============================================================================
