----------------------- MODULE SubscriptionStateProofs -----------------------
(***************************************************************************)
(* What one process may read through its cache, for any TTL, any number of *)
(* goroutines and any number of failing commands.                          *)
(*                                                                         *)
(* The inductive invariant CacheInv relates the entry to the mark that     *)
(* guards it (Marked) and to the ages of the versions it hides (Young).    *)
(* Both rest on the stripe: what a goroutine has fetched and not yet       *)
(* written to Redis is the row itself (Sees).  The last part is about an   *)
(* update, which writes back what such a read returned (Known).            *)
(***************************************************************************)
EXTENDS SubscriptionState, WellFoundedInduction, TLAPS

\* All goroutines are in one replica.
OneProcess == \A t, u \in Threads : Home[t] = Home[u]

Content == [active: BOOLEAN, secret: Nat]

Contents == [1..MaxVersions -> Content]

Reader == [pc: {"idle", "fetch", "bypass", "fill", "purge", "evict", "done"},
           val: Versions, floor: Versions, settled: SUBSET (1..Gone)]

\* The type invariant, without the bounds of the run.
Typed ==
    /\ row \in 1..Gone
    /\ content \in Contents
    /\ cache \in [version: 0..MaxVersions, left: 0..TTL]
    /\ late \in [version: 0..MaxVersions, left: 0..MaxLate]
    /\ dirty \in [Processes -> 0..TTL]
    /\ thread \in [Threads -> Reader]
    /\ returned \in Versions
    /\ age \in [1..Gone -> 0..(Stale + 1)]
    /\ tardy \in BOOLEAN /\ restarts \in Nat

\* A mutation that has returned is committed; what is not committed has no age.
Committed ==
    /\ returned <= row
    /\ \A v \in 1..Gone : v > row => age[v] = 0

\* What t has read, has yet to write to Redis or to evict, and what it must see.
Sees(t) ==
    /\ At(t, "done") => thread[t].val # 0
    /\ At(t, "fill") => thread[t].val = row /\ row # Gone
    /\ At(t, "evict") => thread[t].val <= row
    /\ thread[t].floor <= returned
    /\ \A v \in thread[t].settled : v <= row
    /\ At(t, "done") /\ restarts = 0 /\ tardy = FALSE => thread[t].val >= thread[t].floor
    /\ At(t, "done") => \A v \in thread[t].settled : thread[t].val >= v

\* The entry in the cache hides only versions younger than itself and the SET's delay.
Young ==
    /\ cache.version # 0 =>
        /\ cache.left >= 1
        /\ \A v \in 1..Gone : v > cache.version => age[v] <= 1 + MaxLate + (TTL - cache.left)
    /\ late.version # 0 =>
        \A v \in 1..Gone : v > late.version => age[v] <= 1 + MaxLate - late.left

\* An entry older than a mutation that has returned is marked for as long as it lives.
Marked ==
    restarts = 0 /\ tardy = FALSE /\ cache.version # 0 /\ cache.version < returned =>
        \A t \in Threads : dirty[Home[t]] >= cache.left

CacheInv == Typed /\ Committed /\ (\A t \in Threads : Sees(t)) /\ Young /\ Marked

-----------------------------------------------------------------------------

\* A mutating method commits a newer version and well-formed content, or evicts.
LEMMA MutateShape ==
    ASSUME Typed, NEW t \in Threads, Sees(t), Mutate(t)
    PROVE  \/ evictLocked(t)
           \/ /\ \E v \in 1..Gone : v > row /\ Commit(t, v)
              /\ content' \in Contents
              /\ row' # Gone => content'[row'].secret >= content[row].secret
<1> USE CacheAssumption
<1>1. ASSUME NEW given \in {{}, {TRUE}, {FALSE}}, Update(t, given)
      PROVE  /\ \E v \in 1..Gone : v > row /\ Commit(t, v)
             /\ content' \in Contents
             /\ row' # Gone => content'[row'].secret >= content[row].secret
  <2>1. thread[t].val \in 1..MaxVersions /\ row \in 1..MaxVersions /\ row + 1 \in 1..MaxVersions
    <3>1. thread[t].val \in Versions /\ thread[t].val # 0 /\ thread[t].val # Gone
      BY Zenon, <1>1 DEF Update, Typed, Sees, At, Reader
    <3>2. row < MaxVersions /\ row \in 1..Gone
      BY <1>1 DEF Update, Write, Typed
    <3> QED BY <3>1, <3>2 DEF Versions, Gone
  <2>2. merge(t, given) \in BOOLEAN
    <3>1. CASE given = {}
      BY Zenon, <3>1, <2>1 DEF merge, Typed, Contents, Content
    <3>2. CASE given = {TRUE}
      BY Zenon, <3>2 DEF merge
    <3>3. CASE given = {FALSE}
      BY Zenon, <3>3 DEF merge
    <3> QED BY Zenon, <1>1, <3>1, <3>2, <3>3
  <2>3. content' = [content EXCEPT ![row + 1] = [content[row] EXCEPT !.active = merge(t, given)]]
    BY <1>1 DEF Update, Write
  <2>4. content' \in Contents
    <3>1. content[row] \in Content /\ content \in Contents
      BY <2>1 DEF Typed, Contents
    <3>2. [content[row] EXCEPT !.active = merge(t, given)] \in Content
      BY <3>1, <2>2 DEF Content
    <3> QED BY <2>1, <2>3, <3>1, <3>2 DEF Contents
  <2>5. row + 1 \in 1..Gone /\ row + 1 > row /\ Commit(t, row + 1)
    BY <1>1, <2>1 DEF Update, Write, Gone
  <2>6. content'[row + 1].secret = content[row].secret /\ content[row].secret \in Nat /\ row' = row + 1
    BY <2>1, <2>3, <2>5 DEF Typed, Contents, Content, Commit
  <2> QED BY <2>4, <2>5, <2>6
<1>2. ASSUME RotateSecret(t)
      PROVE  /\ \E v \in 1..Gone : v > row /\ Commit(t, v)
             /\ content' \in Contents
             /\ row' # Gone => content'[row'].secret >= content[row].secret
  <2>1. row \in 1..MaxVersions /\ row + 1 \in 1..MaxVersions
    <3>1. row \in 1..Gone /\ row < MaxVersions
      BY Zenon, <1>2 DEF RotateSecret, Typed
    <3> QED BY <3>1 DEF Gone
  <2>2. content' = [content EXCEPT ![row + 1] = [content[row] EXCEPT !.secret = @ + 1]]
    BY <1>2 DEF RotateSecret, Write
  <2>3. content' \in Contents
    <3>1. content[row] \in Content /\ content \in Contents
      BY <2>1 DEF Typed, Contents
    <3>2. [content[row] EXCEPT !.secret = @ + 1] \in Content
      BY <3>1 DEF Content
    <3> QED BY <2>1, <2>2, <3>1, <3>2 DEF Contents
  <2>4. row + 1 \in 1..Gone /\ row + 1 > row /\ Commit(t, row + 1)
    BY <1>2, <2>1 DEF RotateSecret, Write, Gone
  <2>5. /\ content'[row + 1].secret = content[row].secret + 1
        /\ content[row].secret \in Nat /\ row' = row + 1
    BY <2>1, <2>2, <2>4 DEF Typed, Contents, Content, Commit
  <2> QED BY <2>3, <2>4, <2>5
<1>3. ASSUME RecordOutcome(t)
      PROVE  /\ \E v \in 1..Gone : v > row /\ Commit(t, v)
             /\ content' \in Contents
             /\ row' # Gone => content'[row'].secret >= content[row].secret
  <2>1. row \in 1..MaxVersions /\ row + 1 \in 1..MaxVersions
    <3>1. row < MaxVersions /\ row \in 1..Gone
      BY Zenon, <1>3 DEF RecordOutcome, Typed
    <3> QED BY <3>1 DEF Gone
  <2>2. PICK active \in {FALSE, content[row].active} :
          Write(t, [content[row] EXCEPT !.active = active])
    BY Zenon, <1>3 DEF RecordOutcome
  <2>3. active \in BOOLEAN
    BY Zenon, <2>1, <2>2 DEF Typed, Contents, Content
  <2>4. content' = [content EXCEPT ![row + 1] = [content[row] EXCEPT !.active = active]]
    BY <2>2 DEF Write
  <2>5. content' \in Contents
    <3>1. content[row] \in Content /\ content \in Contents
      BY <2>1 DEF Typed, Contents
    <3>2. [content[row] EXCEPT !.active = active] \in Content
      BY <3>1, <2>3 DEF Content
    <3> QED BY <2>1, <2>4, <3>1, <3>2 DEF Contents
  <2>6. row + 1 \in 1..Gone /\ row + 1 > row /\ Commit(t, row + 1)
    BY <2>1, <2>2 DEF Write, Gone
  <2>7. content'[row + 1].secret = content[row].secret /\ content[row].secret \in Nat /\ row' = row + 1
    BY <2>1, <2>4, <2>6 DEF Typed, Contents, Content, Commit
  <2> QED BY <2>5, <2>6, <2>7
<1>4. ASSUME Delete(t)
      PROVE  /\ \E v \in 1..Gone : v > row /\ Commit(t, v)
             /\ content' \in Contents
             /\ row' # Gone => content'[row'].secret >= content[row].secret
  <2>1. Commit(t, Gone) /\ content' = content
    BY <1>4 DEF Delete
  <2>2. Gone \in 1..Gone /\ Gone > row
    <3>1. row \in 1..Gone /\ row # Gone
      BY Zenon, <2>1 DEF Commit, Typed
    <3> QED BY <3>1 DEF Gone
  <2>3. row' = Gone
    BY <2>1 DEF Commit
  <2> QED BY Zenon, <2>1, <2>2, <2>3 DEF Typed
<1> QED BY <1>1, <1>2, <1>3, <1>4 DEF Mutate

\* A goroutine that returns v keeps what it had to see.
LEMMA ReturnShape ==
    ASSUME Typed, NEW t \in Threads, NEW v \in 1..Gone, Return(t, v)
    PROVE  /\ thread' \in [Threads -> Reader]
           /\ \A u \in Threads : u # t => thread'[u] = thread[u]
           /\ thread'[t].pc = "done" /\ thread'[t].val = v
           /\ thread'[t].floor = thread[t].floor /\ thread'[t].settled = thread[t].settled
<1> USE CacheAssumption
<1>1. thread[t] \in Reader /\ v \in Versions
  BY DEF Typed, Versions, Gone
<1>2. thread'[t] = [[thread[t] EXCEPT !.pc = "done"] EXCEPT !.val = v]
  BY DEF Typed, Return
<1>3. thread'[t] \in Reader
  BY Zenon, <1>1, <1>2 DEF Reader
<1>4. \A u \in Threads : u # t => thread'[u] = thread[u]
  BY DEF Typed, Return
<1>5. DOMAIN thread' = Threads /\ thread' = [u \in Threads |-> thread'[u]]
  BY Zenon DEF Typed, Return
<1>6. thread' \in [Threads -> Reader]
  BY Zenon, <1>3, <1>4, <1>5 DEF Typed
<1> QED BY <1>1, <1>2, <1>4, <1>6 DEF Reader

\* A step that moves one goroutine and leaves cache, marks and row alone.
LEMMA QuietStep ==
    ASSUME CacheInv, NEW t \in Threads, UNCHANGED <<shared, history, restarts>>,
           thread' \in [Threads -> Reader],
           \A u \in Threads : u # t => thread'[u] = thread[u],
           Sees(t)'
    PROVE  CacheInv'
<1>1. Typed' BY DEF CacheInv, Typed, shared, history
<1>2. Committed' BY DEF CacheInv, Committed, shared, history
<1>3. \A u \in Threads : Sees(u)'
  <2> SUFFICES ASSUME NEW u \in Threads, u # t PROVE Sees(u)'
    OBVIOUS
  <2>1. Sees(u) BY DEF CacheInv
  <2> QED BY <2>1 DEF Sees, At, shared, history
<1>4. Young' BY DEF CacheInv, Young, shared, history
<1>5. Marked' BY DEF CacheInv, Marked, shared, history
<1> QED BY <1>1, <1>2, <1>3, <1>4, <1>5 DEF CacheInv

\* What GetByID finds in the cache is not older than what had returned when it
\* began, nor than what is settled.
LEMMA LookupStep ==
    ASSUME CacheInv, NEW t \in Threads, Lookup(t)
    PROVE  CacheInv'
<1> USE CacheAssumption
<1>1. UNCHANGED <<shared, history, restarts>>
  BY Zenon DEF Lookup
<1>2. PICK pc \in {"fetch", "bypass", "done"}, v \in Versions :
        /\ thread' = [thread EXCEPT ![t] =
              [pc |-> pc, val |-> v, floor |-> returned, settled |-> Settled]]
        /\ pc = "done" => dirty[Home[t]] = 0 /\ cache.version # 0 /\ v = cache.version
  BY SMTT(30) DEF Lookup, CacheInv, Typed, Versions, Gone
<1>3. returned \in Versions /\ Settled \subseteq 1..Gone
  BY DEF CacheInv, Typed, Settled
<1>4. /\ thread' \in [Threads -> Reader]
      /\ \A u \in Threads : u # t => thread'[u] = thread[u]
      /\ thread'[t] = [pc |-> pc, val |-> v, floor |-> returned, settled |-> Settled]
  BY Zenon, <1>2, <1>3 DEF CacheInv, Typed, Reader
<1>5. returned' = returned /\ row' = row /\ restarts' = restarts /\ tardy' = tardy
  BY <1>1 DEF shared, history
<1>6. ASSUME NEW w \in Settled PROVE w <= row
  BY <1>6 DEF Settled, CacheInv, Committed, Typed, Stale, Gone
<1>7. ASSUME pc = "done", NEW w \in Settled PROVE v >= w
  <2>1. cache.version \in 0..MaxVersions /\ cache.left \in 1..TTL /\ v = cache.version
    BY <1>2, <1>7 DEF CacheInv, Typed, Young
  <2>2. w \in 1..Gone /\ age[w] = TTL + MaxLate + 1
    BY <1>7 DEF Settled, Stale
  <2>3. w > cache.version => age[w] <= 1 + MaxLate + (TTL - cache.left)
    BY <1>2, <1>7, <2>2 DEF CacheInv, Young
  <2> QED BY <2>1, <2>2, <2>3 DEF Gone
<1>8. ASSUME pc = "done", restarts = 0, tardy = FALSE PROVE v >= returned
  <2>1. cache.version \in 0..MaxVersions /\ cache.left \in 1..TTL /\ v = cache.version
    BY <1>2, <1>8 DEF CacheInv, Typed, Young
  <2>2. cache.version < returned => dirty[Home[t]] >= cache.left
    BY <1>2, <1>8 DEF CacheInv, Marked
  <2> QED BY <1>2, <1>3, <1>8, <2>1, <2>2 DEF Versions, Gone
<1>9. Sees(t)'
  <2>1. /\ thread'[t].pc = pc /\ thread'[t].val = v
        /\ thread'[t].floor = returned /\ thread'[t].settled = Settled
    BY <1>4
  <2>2. pc = "done" => v # 0
    BY <1>2
  <2>3. returned <= returned
    BY <1>3 DEF Versions, Gone
  <2> QED BY Zenon, <2>1, <2>2, <2>3, <1>2, <1>5, <1>6, <1>7, <1>8 DEF Sees, At
<1> QED BY Zenon, <1>1, <1>4, <1>9, QuietStep

\* A goroutine that gives up or has handed over its result.
LEMMA IdleStep ==
    ASSUME Typed, NEW t \in Threads, thread' = [thread EXCEPT ![t] = Idle]
    PROVE  /\ thread' \in [Threads -> Reader]
           /\ \A u \in Threads : u # t => thread'[u] = thread[u]
           /\ thread'[t] = Idle
<1>1. Idle \in Reader
  BY CacheAssumption DEF Idle, Reader, Versions, Gone
<1> QED BY <1>1 DEF Typed

\* An idle goroutine has nothing to see.
LEMMA IdleSees ==
    ASSUME Typed', NEW t \in Threads, thread'[t] = Idle
    PROVE  Sees(t)'
<1>1. thread'[t].pc = "idle" /\ thread'[t].floor = 0 /\ thread'[t].settled = {}
  BY DEF Idle
<1>2. 0 <= returned'
  BY CacheAssumption DEF Typed, Versions, Gone
<1> QED BY <1>1, <1>2 DEF Sees, At

\* The other steps of GetByID that leave the cache alone.
LEMMA QueryStep ==
    ASSUME CacheInv, NEW t \in Threads, Bypass(t) \/ QueryFails(t) \/ Fetch(t) \/ Take(t)
    PROVE  CacheInv'
<1> USE CacheAssumption
<1>1. UNCHANGED <<shared, history, restarts>>
  BY DEF Bypass, QueryFails, Fetch, Take
<1>2. /\ row' = row /\ returned' = returned /\ restarts' = restarts /\ tardy' = tardy
      /\ row \in 1..Gone /\ returned \in Versions /\ returned <= row
  BY <1>1 DEF shared, history, CacheInv, Typed, Committed
<1>3. Typed /\ Sees(t) /\ thread[t] \in Reader
  BY Zenon DEF CacheInv, Typed
<1>4. CASE Bypass(t)
  <2>1. /\ thread' \in [Threads -> Reader]
        /\ \A u \in Threads : u # t => thread'[u] = thread[u]
        /\ thread'[t].pc = "done" /\ thread'[t].val = row
        /\ thread'[t].floor = thread[t].floor /\ thread'[t].settled = thread[t].settled
    BY Zenon, <1>2, <1>3, <1>4, ReturnShape DEF Bypass
  <2>2. row # 0 /\ row >= thread[t].floor /\ \A v \in thread[t].settled : row >= v
    BY <1>2, <1>3 DEF Sees, Reader, Versions, Gone
  <2>3. Sees(t)'
    BY <1>2, <1>3, <2>1, <2>2 DEF Sees, At
  <2> QED BY Zenon, <1>1, <2>1, <2>3, QuietStep
<1>5. CASE QueryFails(t) \/ Take(t)
  <2>1. /\ thread' \in [Threads -> Reader]
        /\ \A u \in Threads : u # t => thread'[u] = thread[u]
        /\ thread'[t] = Idle
    BY Zenon, <1>3, <1>5, IdleStep DEF QueryFails, Take
  <2>2. Typed'
    BY Zenon, <1>1, <1>3, <2>1 DEF Typed, shared, history
  <2> QED BY Zenon, <1>1, <2>1, <2>2, IdleSees, QuietStep
<1>6. CASE Fetch(t)
  <2> DEFINE next == IF row = Gone THEN "purge" ELSE "fill"
  <2>1. thread' = [thread EXCEPT ![t].pc = next, ![t].val = row]
    BY <1>6 DEF Fetch
  <2>2. next \in {"purge", "fill"} /\ (next = "fill" => row # Gone)
    OBVIOUS
  <2> HIDE DEF next
  <2>3. thread'[t] = [[thread[t] EXCEPT !.pc = next] EXCEPT !.val = row]
    BY <2>1 DEF CacheInv, Typed
  <2>4. /\ thread'[t] \in Reader
        /\ thread'[t].pc = next /\ thread'[t].val = row
        /\ thread'[t].floor = thread[t].floor /\ thread'[t].settled = thread[t].settled
    <3>1. row \in Versions
      BY <1>2 DEF Versions, Gone
    <3> QED BY Zenon, <1>3, <2>2, <2>3, <3>1 DEF Reader
  <2>5. /\ \A u \in Threads : u # t => thread'[u] = thread[u]
        /\ thread' = [u \in Threads |-> thread'[u]]
    BY Zenon, <2>1 DEF CacheInv, Typed
  <2>6. thread' \in [Threads -> Reader]
    BY Zenon, <1>3, <2>4, <2>5 DEF Typed
  <2>7. Sees(t)'
    BY <1>2, <1>3, <2>2, <2>4 DEF Sees, At
  <2> QED BY <1>1, <2>5, <2>6, <2>7, QuietStep
<1> QED BY <1>4, <1>5, <1>6

\* The row goes into the cache under the stripe: it hides nothing, and if its SET
\* fails the entry that is there is marked.
LEMMA FillStep ==
    ASSUME CacheInv, OneProcess, NEW t \in Threads, Fill(t)
    PROVE  CacheInv'
<1> USE CacheAssumption
<1> DEFINE new == [version |-> row, left |-> TTL]
<1>1. /\ thread[t].val = row /\ row \in 1..MaxVersions /\ thread[t] \in Reader
      /\ Typed /\ Sees(t) /\ returned <= row /\ returned \in Versions
  <2>1. /\ thread[t].val = row /\ row \in 1..Gone /\ row # Gone /\ thread[t] \in Reader
        /\ Typed /\ Sees(t) /\ returned <= row /\ returned \in Versions
    BY Zenon DEF Fill, CacheInv, Sees, At, Typed, Committed
  <2>2. row \in 1..MaxVersions
    BY <2>1 DEF Gone
  <2> QED BY Zenon, <2>1, <2>2
<1>2. /\ row' = row /\ content' = content /\ returned' = returned /\ age' = age
      /\ tardy' = tardy /\ restarts' = restarts
  BY DEF Fill, history
<1>3. /\ thread' \in [Threads -> Reader]
      /\ \A u \in Threads : u # t => thread'[u] = thread[u]
      /\ thread'[t].pc = "done" /\ thread'[t].val = row
      /\ thread'[t].floor = thread[t].floor /\ thread'[t].settled = thread[t].settled
  BY ZenonT(40), <1>1, ReturnShape DEF Fill, Typed
<1>4. \/ cache' = new /\ late' = late
      \/ markDirty(t) /\ cache' = cache /\ late' = late
      \/ markDirty(t) /\ cache' = cache /\ late' = [version |-> row, left |-> MaxLate]
  BY <1>1 DEF Fill
<1>5. dirty' \in [Processes -> 0..TTL]
  <2>1. dirty \in [Processes -> 0..TTL] /\ (markDirty(t) \/ clearDirty(t))
    BY Zenon, <1>1 DEF Fill, Typed
  <2> QED BY <2>1 DEF markDirty, clearDirty
<1>6. Typed'
  BY SMTT(30), <1>1, <1>2, <1>3, <1>4, <1>5 DEF Typed
<1>7. Committed'
  BY <1>2 DEF CacheInv, Committed
<1>8. \A u \in Threads : Sees(u)'
  <2>1. row # 0 /\ row >= thread[t].floor /\ \A v \in thread[t].settled : row >= v
    BY <1>1 DEF Sees, Reader, Versions, Gone
  <2>2. Sees(t)'
    BY Zenon, <1>1, <1>2, <1>3, <2>1 DEF Sees, At
  <2>3. ASSUME NEW u \in Threads, u # t PROVE Sees(u)'
    BY <1>2, <1>3, <2>3 DEF CacheInv, Sees, At
  <2> QED BY <2>2, <2>3
<1>9. ASSUME NEW v \in 1..Gone, v > row PROVE age[v] = 0
  BY Zenon, <1>9 DEF CacheInv, Committed
<1>10. Young'
  <2>1. ASSUME cache' = new
        PROVE  /\ cache'.left >= 1
               /\ \A v \in 1..Gone : v > cache'.version => age[v] <= 1 + MaxLate + (TTL - cache'.left)
    BY <1>9, <2>1
  <2>2. ASSUME late' = [version |-> row, left |-> MaxLate]
        PROVE  \A v \in 1..Gone : v > late'.version => age[v] <= 1 + MaxLate - late'.left
    BY <1>9, <2>2
  <2> QED BY Zenon, <1>2, <1>4, <2>1, <2>2 DEF CacheInv, Young
<1>11. Marked'
  <2>1. ASSUME cache' = new PROVE ~(cache'.version < returned')
    BY <1>1, <1>2, <2>1 DEF Versions, Gone
  <2>2. ASSUME markDirty(t), cache' = cache, NEW u \in Threads PROVE dirty'[Home[u]] >= cache'.left
    <3>1. Home[u] = Home[t] /\ Home[t] \in Processes
      BY DEF OneProcess
    <3>2. dirty'[Home[t]] = TTL
      BY <2>2, <3>1 DEF markDirty, CacheInv, Typed
    <3> QED BY <1>1, <2>2, <3>1, <3>2 DEF Typed
  <2> QED BY Zenon, <1>4, <2>1, <2>2 DEF Marked
<1> QED BY <1>6, <1>7, <1>8, <1>10, <1>11 DEF CacheInv

\* Only the mark and the entry of a gone or evicted row change: what is left of
\* the entry is marked for its whole life, if a mutation has returned since.
LEMMA EvictStep ==
    ASSUME CacheInv, OneProcess, NEW t \in Threads, Purge(t) \/ evictLocked(t)
    PROVE  CacheInv'
<1> USE CacheAssumption
<1>1. Typed /\ Sees(t) /\ Committed /\ thread[t] \in Reader
  BY Zenon DEF CacheInv, Typed
<1>2. /\ row' = row /\ content' = content /\ late' = late /\ age' = age
      /\ tardy' = tardy /\ restarts' = restarts
  BY Zenon DEF Purge, evictLocked, history
<1>3. /\ cache' \in {cache, Absent}
      /\ dirty' \in {dirty, [dirty EXCEPT ![Home[t]] = 0], [dirty EXCEPT ![Home[t]] = TTL]}
  BY DEF Purge, evictLocked, clearDirty, markDirty
<1>4. dirty' \in [Processes -> 0..TTL] /\ cache' \in [version: 0..MaxVersions, left: 0..TTL]
  <2>1. Absent \in [version: 0..MaxVersions, left: 0..TTL]
    BY DEF Absent
  <2>2. cache' \in [version: 0..MaxVersions, left: 0..TTL]
    BY Zenon, <1>1, <1>3, <2>1 DEF Typed
  <2>3. dirty \in [Processes -> 0..TTL] /\ 0 \in 0..TTL /\ TTL \in 0..TTL
    BY <1>1 DEF Typed
  <2>4. dirty' \in [Processes -> 0..TTL]
    BY <1>3, <2>3
  <2> QED BY <2>2, <2>4
<1>5. /\ thread' \in [Threads -> Reader]
      /\ \A u \in Threads : u # t => thread'[u] = thread[u]
  <2>1. CASE Purge(t)
    <3>1. Gone \in 1..Gone
      BY DEF Gone
    <3> QED BY <1>1, <2>1, <3>1, ReturnShape DEF Purge
  <2>2. CASE evictLocked(t)
    BY Zenon, <1>1, <2>2, IdleStep DEF evictLocked
  <2> QED BY ZenonT(40), <2>1, <2>2
<1>6. returned' \in Versions /\ returned <= returned' /\ returned' <= row
  <2>1. CASE Purge(t)
    BY <1>1, <2>1 DEF Purge, history, Typed, Committed, Versions, Gone
  <2>2. CASE evictLocked(t)
    <3>1. /\ thread[t].val \in Versions /\ thread[t].val <= row
          /\ returned' = IF thread[t].val > returned THEN thread[t].val ELSE returned
      BY <1>1, <2>2 DEF evictLocked, Sees, At, Reader
    <3>2. returned \in 0..Gone /\ row \in 1..Gone /\ returned <= row
      BY Zenon, <1>1 DEF Typed, Committed, Versions
    <3>3. returned \in Nat /\ row \in Nat /\ thread[t].val \in Nat
      BY <3>1, <3>2 DEF Versions
    <3>4. returned' \in {returned, thread[t].val}
      BY Zenon, <3>1
    <3>5. returned <= returned' /\ returned' <= row
      BY <3>1, <3>2, <3>3
    <3> QED BY Zenon, <3>1, <3>2, <3>4, <3>5 DEF Versions
  <2> QED BY ZenonT(40), <2>1, <2>2
<1>7. Typed'
  BY ZenonT(40), <1>1, <1>2, <1>4, <1>5, <1>6 DEF Typed
<1>8. Committed'
  BY <1>1, <1>2, <1>6 DEF Committed
<1>9. \A u \in Threads : Sees(u)'
  <2>1. Sees(t)'
    <3>1. CASE Purge(t)
      <4>1. Gone \in 1..Gone
        BY DEF Gone
      <4>2. /\ thread'[t].pc = "done" /\ thread'[t].val = Gone
            /\ thread'[t].floor = thread[t].floor /\ thread'[t].settled = thread[t].settled
            /\ returned' = returned
        BY ZenonT(40), <1>1, <3>1, <4>1, ReturnShape DEF Purge, history
      <4>3. /\ Gone # 0 /\ Gone >= thread[t].floor
            /\ \A v \in thread[t].settled : Gone >= v
        BY <1>1 DEF Reader, Versions, Gone
      <4> QED BY Zenon, <1>1, <1>2, <4>2, <4>3 DEF Sees, At
    <3>2. CASE evictLocked(t)
      BY Zenon, <1>1, <1>7, <3>2, IdleStep, IdleSees DEF evictLocked
    <3> QED BY Zenon, <3>1, <3>2
  <2>2. ASSUME NEW u \in Threads, u # t PROVE Sees(u)'
    <3>1. Sees(u) /\ thread'[u] = thread[u] /\ thread[u].floor \in Versions
      BY Zenon, <1>5, <2>2 DEF CacheInv, Typed, Reader
    <3>2. thread[u].floor <= returned'
      <4>1. /\ thread[u].floor \in 0..Gone /\ thread[u].floor <= returned
            /\ returned \in 0..Gone /\ returned' \in 0..Gone /\ returned <= returned'
        BY Zenon, <1>1, <1>6, <3>1 DEF Sees, Typed, Versions
      <4> QED BY <4>1 DEF Gone
    <3> QED BY Zenon, <1>2, <3>1, <3>2 DEF Sees, At
  <2> QED BY <2>1, <2>2
<1>10. Young'
  BY <1>2, <1>3 DEF CacheInv, Young, Absent
<1>11. Marked'
  <2> SUFFICES ASSUME restarts = 0, tardy = FALSE, cache' = cache, cache.version # 0,
                      cache.version < returned', NEW u \in Threads
               PROVE  dirty'[Home[u]] >= cache.left
    <3>1. Absent.version = 0
      BY DEF Absent
    <3>2. cache' = Absent => Marked'
      BY <3>1 DEF Marked
    <3>3. cache' = cache => Marked'
      BY Zenon, <1>2 DEF Marked
    <3> QED BY <1>3, <3>2, <3>3
  <2>1. Home[u] = Home[t] /\ Home[t] \in Processes
    BY DEF OneProcess
  <2>2. cache # Absent
    BY DEF Absent
  <2>3. CASE Purge(t)
    BY Zenon, <2>2, <2>3 DEF Purge, history, CacheInv, Marked
  <2>4. CASE evictLocked(t)
    <3>1. markDirty(t)
      BY Zenon, <2>2, <2>4 DEF evictLocked
    <3>2. dirty'[Home[t]] = TTL
      BY <1>1, <2>1, <3>1 DEF markDirty, Typed
    <3> QED BY <1>1, <2>1, <3>2 DEF Typed
  <2> QED BY <2>3, <2>4
<1> QED BY Zenon, <1>7, <1>8, <1>9, <1>10, <1>11 DEF CacheInv

\* A commit meets nobody between a SELECT and its SET, because of the stripe.
LEMMA CommitStep ==
    ASSUME CacheInv, OneProcess, NEW t \in Threads, NEW n \in 1..Gone, n > row, Commit(t, n),
           content' \in Contents
    PROVE  CacheInv'
<1> USE CacheAssumption
<1>1. /\ Typed /\ Committed /\ row \in 1..Gone /\ row' = n /\ row <= row'
      /\ returned \in Versions /\ returned <= row
  <2>1. /\ Typed /\ Committed /\ row \in 1..Gone /\ row' = n
        /\ returned \in Versions /\ returned <= row
    BY Zenon DEF CacheInv, Commit, Typed, Committed
  <2>2. row <= n
    BY <2>1 DEF Gone
  <2> QED BY Zenon, <2>1, <2>2
<1>2. /\ cache' = cache /\ late' = late /\ dirty' = dirty /\ returned' = returned
      /\ tardy' = tardy /\ restarts' = restarts /\ age' = [age EXCEPT ![n] = 1]
  BY DEF Commit
<1>3. PICK r \in {Idle, [Idle EXCEPT !.pc = "evict", !.val = n]} : thread' = [thread EXCEPT ![t] = r]
  BY DEF Commit
<1>4. /\ r \in Reader /\ r.pc \in {"idle", "evict"} /\ (r.pc = "evict" => r.val = n)
      /\ r.floor = 0 /\ r.settled = {}
  <2>1. Idle \in Reader /\ n \in Versions
    BY DEF Idle, Reader, Versions, Gone
  <2>2. CASE r = Idle
    BY <2>1, <2>2 DEF Idle
  <2>3. CASE r = [Idle EXCEPT !.pc = "evict", !.val = n]
    <3>1. r = [pc |-> "evict", val |-> n, floor |-> 0, settled |-> {}]
      BY Zenon, <2>3 DEF Idle
    <3> QED BY <2>1, <3>1 DEF Idle, Reader
  <2> QED BY <1>3, <2>2, <2>3
<1>5. /\ thread' \in [Threads -> Reader] /\ thread'[t] = r
      /\ \A u \in Threads : u # t => thread'[u] = thread[u]
  BY <1>1, <1>3, <1>4 DEF Typed
<1>6. age \in [1..Gone -> 0..(Stale + 1)] /\ age' \in [1..Gone -> 0..(Stale + 1)]
  <2>1. age \in [1..Gone -> 0..(Stale + 1)]
    BY Zenon, <1>1 DEF Typed
  <2>2. 1 \in 0..(Stale + 1)
    BY DEF Stale
  <2> QED BY Zenon, <1>2, <2>1, <2>2
<1>7. Typed'
  BY Zenon, <1>1, <1>2, <1>5, <1>6 DEF Typed
<1>8. Committed'
  <2>1. returned' <= row'
    BY <1>1, <1>2 DEF Versions, Gone
  <2>2. ASSUME NEW v \in 1..Gone, v > row' PROVE age'[v] = 0
    <3>1. v # n /\ v > row
      BY <1>1, <2>2 DEF Gone
    <3> QED BY <1>1, <1>2, <1>6, <3>1 DEF Committed
  <2> QED BY <2>1, <2>2 DEF Committed
<1>9. \A u \in Threads : Sees(u)'
  <2>1. Sees(t)'
    <3>1. 0 <= returned' /\ n <= row'
      BY <1>1, <1>2 DEF Versions, Gone
    <3> QED BY <1>4, <1>5, <3>1 DEF Sees, At
  <2>2. ASSUME NEW u \in Threads, u # t PROVE Sees(u)'
    <3>1. Sees(u) /\ thread'[u] = thread[u] /\ thread[u] \in Reader
      BY <1>1, <1>5, <2>2 DEF CacheInv, Typed
    <3>2. thread[u].pc \in {"idle", "done"}
      BY DEF Commit, Locked, OneProcess
    <3>3. \A v \in thread[u].settled : v <= row'
      BY <1>1, <3>1 DEF Sees, Reader, Gone
    <3> QED BY Zenon, <1>2, <3>1, <3>2, <3>3 DEF Sees, At
  <2> QED BY <2>1, <2>2
<1>10. Young'
  <2>1. ASSUME cache.version # 0, NEW v \in 1..Gone, v > cache.version
        PROVE  age'[v] <= 1 + MaxLate + (TTL - cache.left)
    <3>1. CASE v = n
      <4>1. age'[v] = 1
        BY <1>2, <1>6, <3>1
      <4>2. cache.left \in 0..TTL
        BY <1>1 DEF Typed
      <4> QED BY <4>1, <4>2
    <3>2. CASE v # n
      <4>1. age'[v] = age[v]
        BY <1>2, <1>6, <3>2
      <4> QED BY <2>1, <4>1 DEF CacheInv, Young
    <3> QED BY <3>1, <3>2
  <2>2. ASSUME late.version # 0, NEW v \in 1..Gone, v > late.version
        PROVE  age'[v] <= 1 + MaxLate - late.left
    <3>1. CASE v = n
      <4>1. age'[v] = 1
        BY <1>2, <1>6, <3>1
      <4>2. late.left \in 0..MaxLate
        BY <1>1 DEF Typed
      <4> QED BY <4>1, <4>2
    <3>2. CASE v # n
      <4>1. age'[v] = age[v]
        BY <1>2, <1>6, <3>2
      <4> QED BY <2>2, <4>1 DEF CacheInv, Young
    <3> QED BY <3>1, <3>2
  <2> QED BY <1>2, <2>1, <2>2 DEF CacheInv, Young
<1>11. Marked'
  BY <1>2 DEF CacheInv, Marked
<1> QED BY Zenon, <1>7, <1>8, <1>9, <1>10, <1>11 DEF CacheInv

\* A SET that comes late brings an entry as old as its delay.
LEMMA LateSetStep ==
    ASSUME CacheInv, LateSet
    PROVE  CacheInv'
<1> USE CacheAssumption
<1>1. /\ cache' = [version |-> late.version, left |-> TTL] /\ late' = Absent /\ tardy' = TRUE
      /\ row' = row /\ content' = content /\ dirty' = dirty /\ thread' = thread
      /\ returned' = returned /\ age' = age /\ restarts' = restarts
  BY DEF LateSet
<1>2. Absent \in [version: 0..MaxVersions, left: 0..MaxLate] /\ Absent.version = 0
  BY DEF Absent
<1>3. late \in [version: 0..MaxVersions, left: 0..MaxLate] /\ age \in [1..Gone -> 0..(Stale + 1)]
  BY Zenon DEF CacheInv, Typed
<1>4. Typed'
  BY <1>1, <1>2, <1>3 DEF CacheInv, Typed
<1>5. Committed'
  BY Zenon, <1>1 DEF CacheInv, Committed
<1>6. \A u \in Threads : Sees(u)'
  BY ZenonT(40), <1>1 DEF CacheInv, Sees, At
<1>7. Young'
  <2>1. ASSUME late.version # 0, NEW v \in 1..Gone, v > late.version
        PROVE  age[v] <= 1 + MaxLate + (TTL - TTL)
    <3>1. age[v] <= 1 + MaxLate - late.left
      BY <2>1 DEF CacheInv, Young
    <3>2. age[v] \in Nat /\ late.left \in Nat
      BY <1>3 DEF Stale
    <3> QED BY <3>1, <3>2
  <2>2. TTL >= 1
    OBVIOUS
  <2> QED BY Zenon, <1>1, <1>2, <2>1, <2>2 DEF Young
<1>8. Marked'
  BY Zenon, <1>1 DEF Marked
<1> QED BY Zenon, <1>4, <1>5, <1>6, <1>7, <1>8 DEF CacheInv

\* The entry, its mark and the versions it hides age together.
LEMMA TickStep ==
    ASSUME CacheInv, Tick
    PROVE  CacheInv'
<1> USE CacheAssumption
<1>1. /\ row' = row /\ content' = content /\ thread' = thread
      /\ returned' = returned /\ tardy' = tardy /\ restarts' = restarts
  BY Zenon DEF Tick
<1>2. /\ cache \in [version: 0..MaxVersions, left: 0..TTL]
      /\ late \in [version: 0..MaxVersions, left: 0..MaxLate]
      /\ dirty \in [Processes -> 0..TTL]
      /\ age \in [1..Gone -> 0..(Stale + 1)]
  BY Zenon DEF CacheInv, Typed
<1>3. /\ Absent.version = 0
      /\ Absent \in [version: 0..MaxVersions, left: 0..TTL]
      /\ Absent \in [version: 0..MaxVersions, left: 0..MaxLate]
  BY DEF Absent
<1>4. /\ cache' \in [version: 0..MaxVersions, left: 0..TTL]
      /\ cache'.version # 0 => /\ cache'.version = cache.version
                               /\ cache.left > 1 /\ cache'.left = cache.left - 1
  <2>1. CASE cache.left <= 1
    BY SMTT(30), <1>3, <2>1 DEF Tick
  <2>2. CASE ~(cache.left <= 1)
    <3>1. cache' = [cache EXCEPT !.left = cache.left - 1]
      BY <2>2 DEF Tick
    <3>2. cache.left \in 0..TTL /\ cache.left - 1 \in 0..TTL /\ cache.left > 1
      BY <1>2, <2>2
    <3> QED BY Zenon, <1>2, <3>1, <3>2
  <2> QED BY <2>1, <2>2
<1>5. /\ late' \in [version: 0..MaxVersions, left: 0..MaxLate]
      /\ late'.version # 0 => /\ late'.version = late.version
                              /\ late.left > 0 /\ late'.left = late.left - 1
  <2>1. CASE late.left = 0
    BY <1>3, <2>1 DEF Tick
  <2>2. CASE late.left # 0
    <3>1. late' = [late EXCEPT !.left = late.left - 1]
      BY <2>2 DEF Tick
    <3>2. late.left \in 0..MaxLate /\ late.left - 1 \in 0..MaxLate /\ late.left > 0
      BY <1>2, <2>2
    <3> QED BY Zenon, <1>2, <3>1, <3>2
  <2> QED BY <2>1, <2>2
<1>6. /\ dirty' \in [Processes -> 0..TTL]
      /\ \A r \in Processes : dirty'[r] = IF dirty[r] = 0 THEN 0 ELSE dirty[r] - 1
  <2>1. \A n \in 0..TTL : (IF n = 0 THEN 0 ELSE n - 1) \in 0..TTL
    OBVIOUS
  <2>2. dirty' = [r \in Processes |-> IF dirty[r] = 0 THEN 0 ELSE dirty[r] - 1]
    BY Zenon DEF Tick
  <2> QED BY Zenon, <1>2, <2>1, <2>2
<1>7. /\ age' \in [1..Gone -> 0..(Stale + 1)]
      /\ \A v \in 1..Gone : age'[v] <= age[v] + 1 /\ (age[v] = 0 => age'[v] = 0)
  <2>1. Stale \in Nat
    BY DEF Stale
  <2>2. age' = [v \in 1..Gone |-> IF age[v] \in 1..Stale THEN age[v] + 1 ELSE age[v]]
    BY Zenon DEF Tick
  <2>3. ASSUME NEW v \in 1..Gone
        PROVE  /\ age'[v] \in 0..(Stale + 1)
               /\ age'[v] <= age[v] + 1 /\ (age[v] = 0 => age'[v] = 0)
    <3>1. age[v] \in 0..(Stale + 1) /\ age'[v] = IF age[v] \in 1..Stale THEN age[v] + 1 ELSE age[v]
      BY Zenon, <1>2, <2>2
    <3> QED BY <2>1, <3>1
  <2> QED BY <2>2, <2>3
<1>8. Typed'
  BY Zenon, <1>1, <1>4, <1>5, <1>6, <1>7 DEF CacheInv, Typed
<1>9. Committed'
  BY <1>1, <1>7 DEF CacheInv, Committed
<1>10. \A u \in Threads : Sees(u)'
  BY ZenonT(40), <1>1 DEF CacheInv, Sees, At
<1>11. Young'
  <2>1. ASSUME NEW v \in 1..Gone PROVE age[v] \in Nat /\ age'[v] \in Nat /\ age'[v] <= age[v] + 1
    BY <1>2, <1>7 DEF Stale
  <2>2. ASSUME cache'.version # 0, NEW v \in 1..Gone, v > cache'.version
        PROVE  age'[v] <= 1 + MaxLate + (TTL - cache'.left)
    <3>1. age[v] <= 1 + MaxLate + (TTL - cache.left)
      BY Zenon, <1>4, <2>2 DEF CacheInv, Young
    <3>2. cache.left \in Nat /\ cache'.left = cache.left - 1
      BY <1>2, <1>4, <2>2
    <3> QED BY <2>1, <3>1, <3>2
  <2>3. ASSUME late'.version # 0, NEW v \in 1..Gone, v > late'.version
        PROVE  age'[v] <= 1 + MaxLate - late'.left
    <3>1. age[v] <= 1 + MaxLate - late.left
      BY Zenon, <1>5, <2>3 DEF CacheInv, Young
    <3>2. late.left \in Nat /\ late'.left = late.left - 1
      BY <1>2, <1>5, <2>3
    <3> QED BY <2>1, <3>1, <3>2
  <2>4. cache'.version # 0 => cache'.left >= 1
    BY <1>2, <1>4
  <2> QED BY Zenon, <2>2, <2>3, <2>4 DEF Young
<1>12. Marked'
  <2> SUFFICES ASSUME restarts = 0, tardy = FALSE, cache'.version # 0,
                      cache'.version < returned, NEW u \in Threads
               PROVE  dirty'[Home[u]] >= cache'.left
    BY Zenon, <1>1 DEF Marked
  <2>1. dirty[Home[u]] >= cache.left
    BY Zenon, <1>4 DEF CacheInv, Marked
  <2>2. Home[u] \in Processes /\ dirty[Home[u]] \in Nat /\ cache.left \in Nat
    BY <1>2
  <2> QED BY <1>4, <1>6, <2>1, <2>2
<1> QED BY <1>8, <1>9, <1>10, <1>11, <1>12 DEF CacheInv

\* A restart loses marks and goroutines; from then on only Young is promised.
LEMMA RestartStep ==
    ASSUME CacheInv, NEW r \in Processes, Restart(r)
    PROVE  CacheInv'
<1> USE CacheAssumption
<1>1. /\ row' = row /\ content' = content /\ cache' = cache /\ late' = late
      /\ returned' = returned /\ tardy' = tardy /\ age' = age
      /\ restarts' = restarts + 1 /\ restarts \in Nat
      /\ dirty' = [dirty EXCEPT ![r] = 0]
      /\ thread' = [t \in Threads |-> IF Home[t] = r THEN Idle ELSE thread[t]]
  BY Zenon DEF Restart, history, CacheInv, Typed
<1>2. Idle \in Reader
  BY DEF Idle, Reader, Versions, Gone
<1>3. Typed'
  <2>1. thread' \in [Threads -> Reader]
    BY Zenon, <1>1, <1>2 DEF CacheInv, Typed
  <2>2. dirty' \in [Processes -> 0..TTL]
    BY <1>1 DEF CacheInv, Typed
  <2> QED BY <1>1, <2>1, <2>2 DEF CacheInv, Typed
<1>4. Committed'
  BY <1>1 DEF CacheInv, Committed
<1>5. ASSUME NEW u \in Threads PROVE Sees(u)'
  <2>1. CASE Home[u] = r
    BY Zenon, <1>1, <1>3, <2>1, IdleSees
  <2>2. CASE Home[u] # r
    <3>1. thread'[u] = thread[u] /\ restarts' # 0
      BY <1>1, <2>2
    <3> QED BY ZenonT(40), <1>1, <3>1 DEF CacheInv, Sees, At
  <2> QED BY Zenon, <2>1, <2>2
<1>6. Young'
  BY <1>1 DEF CacheInv, Young
<1>7. Marked'
  <2>1. restarts' # 0
    BY <1>1
  <2> QED BY ZenonT(40), <2>1 DEF Marked
<1> QED BY Zenon, <1>3, <1>4, <1>5, <1>6, <1>7 DEF CacheInv

-----------------------------------------------------------------------------

\* Every step keeps the invariant.
LEMMA CacheInvStep ==
    ASSUME CacheInv, OneProcess, [Next]_vars
    PROVE  CacheInv'
<1>1. ASSUME NEW t \in Threads, GetByID(t) PROVE CacheInv'
  BY ZenonT(40), <1>1, LookupStep, QueryStep, FillStep, EvictStep DEF GetByID
<1>2. ASSUME NEW t \in Threads, Mutate(t) PROVE CacheInv'
  <2>1. Typed /\ Sees(t)
    BY DEF CacheInv
  <2>2. CASE evictLocked(t)
    BY <2>2, EvictStep
  <2>3. CASE (\E v \in 1..Gone : v > row /\ Commit(t, v)) /\ content' \in Contents
    BY <2>3, CommitStep
  <2> QED BY ZenonT(40), <1>2, <2>1, <2>2, <2>3, MutateShape
<1>3. CASE UNCHANGED vars
  <2>1. UNCHANGED <<row, content, cache, late, dirty, thread, returned, age, tardy, restarts>>
    BY ZenonT(40), <1>3 DEF vars, shared, history
  <2>2. Typed' /\ Committed'
    BY ZenonT(40), <2>1 DEF CacheInv, Typed, Committed
  <2>3. \A t \in Threads : Sees(t)'
    BY ZenonT(40), <2>1 DEF CacheInv, Sees, At
  <2>4. Young' /\ Marked'
    BY <2>1 DEF CacheInv, Young, Marked
  <2> QED BY ZenonT(40), <2>2, <2>3, <2>4 DEF CacheInv
<1> QED BY ZenonT(40), <1>1, <1>2, <1>3, LateSetStep, TickStep, RestartStep DEF Next

\* The invariant holds at the start: an empty cache, and version 1 settled.
LEMMA CacheInvInit ==
    ASSUME Init
    PROVE  CacheInv
<1> USE CacheAssumption
<1>1. Stale \in Nat /\ Gone \in Nat /\ Gone >= 2 /\ 1 \in Versions
  BY DEF Stale, Gone, Versions
<1>2. Idle \in Reader
  BY <1>1 DEF Idle, Reader, Versions
<1>3. Typed
  <2>1. thread \in [Threads -> Reader] /\ dirty \in [Processes -> 0..TTL]
    BY <1>2 DEF Init
  <2>2. age \in [1..Gone -> 0..(Stale + 1)]
    BY <1>1 DEF Init
  <2>3. content \in Contents
    BY ZenonT(40) DEF Init, Contents, Content
  <2>4. /\ cache \in [version: 0..MaxVersions, left: 0..TTL]
        /\ late \in [version: 0..MaxVersions, left: 0..MaxLate]
    BY DEF Init, Absent
  <2>5. row \in 1..Gone /\ returned \in Versions /\ tardy \in BOOLEAN /\ restarts \in Nat
    <3>1. row = 1 /\ returned = 1 /\ restarts = 0 /\ tardy \in BOOLEAN
      BY Zenon DEF Init
    <3> QED BY <1>1, <3>1
  <2> QED BY ZenonT(40), <2>1, <2>2, <2>3, <2>4, <2>5 DEF Typed
<1>4. Committed
  BY <1>1 DEF Init, Committed
<1>5. ASSUME NEW t \in Threads PROVE Sees(t)
  BY DEF Init, Idle, Sees, At
<1>6. Young /\ Marked
  BY DEF Init, Absent, Young, Marked
<1> QED BY <1>3, <1>4, <1>5, <1>6 DEF CacheInv

\* The invariant says of a read that has returned what the two properties say.
LEMMA CacheInvReads ==
    ASSUME CacheInv
    PROVE  FreshRead /\ StaleAtMostTTL
<1>1. tardy \in BOOLEAN
  BY Zenon DEF CacheInv, Typed
<1>2. FreshRead
  BY ZenonT(40), <1>1 DEF CacheInv, Sees, FreshRead
<1>3. StaleAtMostTTL
  BY DEF CacheInv, Sees, StaleAtMostTTL
<1> QED BY <1>2, <1>3

\* Of one process, whatever fails: as long as it is not restarted and no SET is
\* executed after its error, GetByID returns nothing older than a mutation that
\* had returned when it began.
THEOREM FreshReadTheorem ==
    ASSUME OneProcess
    PROVE  Spec => []FreshRead
<1>1. Init => CacheInv
  BY CacheInvInit
<1>2. CacheInv /\ [Next]_vars => CacheInv'
  BY CacheInvStep
<1>3. CacheInv => FreshRead
  BY CacheInvReads
<1> QED BY <1>1, <1>2, <1>3, PTL DEF Spec

\* Of one process, restarts and late SETs included: GetByID returns nothing that
\* was superseded more than CACHE_TTL and the SET's delay before it began.
THEOREM StaleTheorem ==
    ASSUME OneProcess
    PROVE  Spec => []StaleAtMostTTL
<1>1. Init => CacheInv
  BY CacheInvInit
<1>2. CacheInv /\ [Next]_vars => CacheInv'
  BY CacheInvStep
<1>3. CacheInv => StaleAtMostTTL
  BY CacheInvReads
<1> QED BY <1>1, <1>2, <1>3, PTL DEF Spec

\* No step, an update that read an old row included, takes a rotated secret back.
THEOREM RotationTheorem ==
    ASSUME OneProcess
    PROVE  Spec => RotationKept
<1> DEFINE SecretKept == row' # Gone /\ row # Gone => content'[row'].secret >= content[row].secret
<1>1. Init => CacheInv
  BY CacheInvInit
<1>2. CacheInv /\ [Next]_vars => CacheInv'
  BY CacheInvStep
<1>3. CacheInv /\ [Next]_vars => [SecretKept]_vars
  <2> SUFFICES ASSUME CacheInv, Next PROVE SecretKept
    OBVIOUS
  <2>1. ASSUME UNCHANGED <<row, content>> PROVE SecretKept
    <3>1. row # Gone => content[row].secret \in Nat
      BY CacheAssumption DEF CacheInv, Typed, Contents, Content, Gone
    <3> QED BY <2>1, <3>1
  <2>2. ASSUME NEW t \in Threads, Mutate(t) PROVE SecretKept
    <3>1. Typed /\ Sees(t)
      BY DEF CacheInv
    <3>2. evictLocked(t) => UNCHANGED <<row, content>>
      BY DEF evictLocked
    <3> QED BY <2>1, <2>2, <3>1, <3>2, MutateShape
  <2>3. ASSUME NEW t \in Threads, GetByID(t) PROVE UNCHANGED <<row, content>>
    BY <2>3 DEF GetByID, Lookup, Bypass, QueryFails, Fetch, Fill, Purge, Take, shared
  <2>4. (LateSet \/ Tick \/ \E r \in Processes : Restart(r)) => UNCHANGED <<row, content>>
    BY DEF LateSet, Tick, Restart
  <2> QED BY ZenonT(40), <2>1, <2>2, <2>3, <2>4 DEF Next
<1> QED BY <1>1, <1>2, <1>3, PTL DEF Spec, RotationKept

-----------------------------------------------------------------------------
(* A read-modify-write through the cache *)

\* A nonempty set of natural numbers has a least element.
LEMMA LeastElement ==
    ASSUME NEW T, T \subseteq Nat, T # {}
    PROVE  \E n \in T : \A m \in T : n <= m
<1>1. PICK n \in T : \A m \in T : ~(<<m, n>> \in OpToRel(<, Nat))
  BY Zenon, NatLessThanWellFounded, WFMin
<1>2. \A m \in T : ~(m < n)
  BY Zenon, <1>1 DEF OpToRel
<1> QED BY <1>2

\* What the cache, a delayed SET and a goroutine hold has been the row; a
\* goroutine that found no row will not find one again.
Known ==
    /\ cache.version <= row /\ late.version <= row
    /\ \A t \in Threads : thread[t].val <= row /\ (At(t, "purge") => thread[t].val = Gone)

\* Every step keeps it: a version is read from the row, or from the cache that
\* was filled from the row, and the row only moves on.
LEMMA KnownStep ==
    ASSUME CacheInv, Known, [Next]_vars
    PROVE  Known'
<1> USE CacheAssumption
<1>1. /\ row \in 1..Gone /\ Gone \in Nat /\ thread \in [Threads -> Reader]
      /\ cache.version \in Nat /\ late.version \in Nat /\ Typed
      /\ \A u \in Threads : thread[u].val \in Nat
  <2>1. Typed /\ Gone \in Nat
    BY DEF CacheInv, Gone
  <2>2. \A u \in Threads : thread[u].val \in Versions
    BY <2>1 DEF Typed, Reader
  <2> QED BY SMTT(30), <2>1, <2>2 DEF Typed, Versions
<1>2. Absent.version = 0 /\ Idle.val = 0 /\ Idle.pc = "idle"
  BY Zenon DEF Absent, Idle
<1>3. ASSUME NEW t \in Threads, row' = row,
             cache'.version <= row, late'.version <= row,
             \A u \in Threads : u # t => thread'[u] = thread[u],
             thread'[t].val <= row,
             thread'[t].pc = "purge" => thread'[t].val = Gone
      PROVE  Known'
  BY Zenon, <1>3 DEF Known, At
<1>4. ASSUME NEW t \in Threads, Lookup(t) PROVE Known'
  <2>1. UNCHANGED <<row, cache, late>>
    BY <1>4 DEF Lookup, shared
  <2>2. PICK new : /\ new.pc \in {"fetch", "done", "bypass"} /\ new.val \in {0, cache.version}
                   /\ thread' = [thread EXCEPT ![t] = new]
    BY Zenon, <1>4 DEF Lookup
  <2>3. thread'[t] = new /\ \A u \in Threads : u # t => thread'[u] = thread[u]
    BY ZenonT(40), <1>1, <2>2
  <2> QED BY SMTT(30), <1>1, <1>3, <2>1, <2>2, <2>3 DEF Known
<1>5. ASSUME NEW t \in Threads, QueryFails(t) \/ Take(t) PROVE Known'
  <2>1. thread' = [thread EXCEPT ![t] = Idle] /\ UNCHANGED <<row, cache, late>>
    BY <1>5 DEF QueryFails, Take, shared
  <2>2. thread'[t] = Idle /\ \A u \in Threads : u # t => thread'[u] = thread[u]
    BY Zenon, <1>1, <2>1
  <2> QED BY <1>1, <1>2, <1>3, <2>1, <2>2 DEF Known
<1>6. ASSUME NEW t \in Threads, Bypass(t) PROVE Known'
  <2>1. Return(t, row) /\ UNCHANGED <<row, cache, late>>
    BY Zenon, <1>6 DEF Bypass, shared
  <2>2. /\ thread'[t].pc = "done" /\ thread'[t].val = row
        /\ \A u \in Threads : u # t => thread'[u] = thread[u]
    BY <1>1, <2>1, ReturnShape
  <2> QED BY <1>1, <1>3, <2>1, <2>2 DEF Known
<1>7. ASSUME NEW t \in Threads, Fetch(t) PROVE Known'
  <2>1. UNCHANGED <<row, cache, late>>
    BY <1>7 DEF Fetch, shared
  <2>2. PICK pc \in {"purge", "fill"} :
            /\ pc = "purge" => row = Gone
            /\ thread' = [thread EXCEPT ![t].pc = pc, ![t].val = row]
    BY Zenon, <1>7 DEF Fetch
  <2>3. /\ thread'[t].pc = pc /\ thread'[t].val = row
        /\ \A u \in Threads : u # t => thread'[u] = thread[u]
    BY ZenonT(40), <1>1, <2>2 DEF Reader
  <2> QED BY <1>1, <1>3, <2>1, <2>2, <2>3 DEF Known
<1>8. ASSUME NEW t \in Threads, Fill(t) PROVE Known'
  <2>1. /\ Return(t, thread[t].val) /\ row' = row /\ thread[t].val = row
        /\ cache' \in {cache, [version |-> thread[t].val, left |-> TTL]}
        /\ late' \in {late, [version |-> thread[t].val, left |-> MaxLate]}
    BY Zenon, <1>8 DEF Fill, CacheInv, Sees
  <2>2. /\ thread'[t].pc = "done" /\ thread'[t].val = row
        /\ \A u \in Threads : u # t => thread'[u] = thread[u]
    BY ZenonT(40), <1>1, <2>1, ReturnShape
  <2>3. cache'.version <= row /\ late'.version <= row
    BY SMTT(30), <1>1, <2>1 DEF Known
  <2> QED BY SMTT(30), <1>1, <1>3, <2>1, <2>2, <2>3
<1>9. ASSUME NEW t \in Threads, Purge(t) PROVE Known'
  <2>1. /\ Return(t, Gone) /\ row' = row /\ late' = late /\ cache' \in {cache, Absent}
    BY ZenonT(40), <1>9 DEF Purge
  <2>2. Gone \in 1..Gone /\ Gone <= row
    BY <1>1, <1>9 DEF Purge, Known, Gone
  <2>3. /\ thread'[t].pc = "done" /\ thread'[t].val = Gone
        /\ \A u \in Threads : u # t => thread'[u] = thread[u]
    BY ZenonT(40), <1>1, <2>1, <2>2, ReturnShape
  <2>4. cache'.version <= row /\ late'.version <= row
    BY <1>1, <1>2, <2>1 DEF Known
  <2> QED BY ZenonT(40), <1>1, <1>3, <2>1, <2>2, <2>3, <2>4
<1>10. ASSUME NEW t \in Threads, evictLocked(t) PROVE Known'
  <2>1. /\ thread' = [thread EXCEPT ![t] = Idle] /\ row' = row /\ late' = late
        /\ cache' \in {cache, Absent}
    BY <1>10 DEF evictLocked
  <2>2. thread'[t] = Idle /\ \A u \in Threads : u # t => thread'[u] = thread[u]
    BY Zenon, <1>1, <2>1
  <2>3. cache'.version <= row /\ late'.version <= row
    BY <1>1, <1>2, <2>1 DEF Known
  <2> QED BY <1>1, <1>2, <1>3, <2>1, <2>2, <2>3
<1>11. ASSUME NEW t \in Threads, NEW v \in 1..Gone, v > row, Commit(t, v) PROVE Known'
  <2>1. row' = v /\ UNCHANGED <<cache, late>>
    BY <1>11 DEF Commit
  <2>2. /\ thread'[t].val \in {0, v} /\ thread'[t].pc \in {"evict", "idle"}
        /\ \A u \in Threads : u # t => thread'[u] = thread[u]
    <3>1. /\ [Idle EXCEPT !.pc = "evict", !.val = v].pc = "evict"
          /\ [Idle EXCEPT !.pc = "evict", !.val = v].val = v
      BY ZenonT(40) DEF Idle
    <3> QED BY Zenon, <1>1, <1>2, <1>11, <3>1 DEF Commit
  <2>3. cache.version <= v /\ late.version <= v
    BY <1>1, <1>11 DEF Known
  <2>4. ASSUME NEW u \in Threads
        PROVE  thread'[u].val <= v /\ (thread'[u].pc = "purge" => thread'[u].val = Gone)
    <3>1. CASE u = t
      BY <1>1, <2>2, <3>1
    <3>2. CASE u # t
      BY <1>1, <1>11, <2>2, <3>2 DEF Known, At
    <3> QED BY ZenonT(40), <3>1, <3>2
  <2> QED BY <2>1, <2>3, <2>4 DEF Known, At
<1>12. ASSUME LateSet PROVE Known'
  <2>1. /\ cache'.version = late.version /\ late' = Absent /\ UNCHANGED <<row, thread>>
    BY Zenon, <1>12 DEF LateSet
  <2> QED BY <1>1, <1>2, <2>1 DEF Known, At
<1>13. ASSUME Tick PROVE Known'
  <2>1. UNCHANGED <<row, thread>>
    BY <1>13 DEF Tick
  <2>2. cache'.version \in {0, cache.version} /\ late'.version \in {0, late.version}
    <3>1. /\ [cache EXCEPT !.left = cache.left - 1].version = cache.version
          /\ [late EXCEPT !.left = late.left - 1].version = late.version
      BY ZenonT(40), <1>1 DEF Typed
    <3> QED BY <1>2, <1>13, <3>1 DEF Tick
  <2> QED BY <1>1, <2>1, <2>2 DEF Known, At
<1>14. ASSUME NEW r \in Processes, Restart(r) PROVE Known'
  <2>1. /\ UNCHANGED <<row, cache, late>>
        /\ thread' = [t \in Threads |-> IF Home[t] = r THEN Idle ELSE thread[t]]
    BY <1>14 DEF Restart, shared
  <2>2. \A u \in Threads : thread'[u] = Idle \/ thread'[u] = thread[u]
    BY Zenon, <2>1
  <2> QED BY <1>1, <1>2, <2>1, <2>2 DEF Known, At
<1>15. CASE UNCHANGED vars
  BY Zenon, <1>15 DEF vars, shared, Known, At
<1>16. ASSUME NEW t \in Threads, Mutate(t) PROVE Known'
  <2>1. Sees(t)
    BY DEF CacheInv
  <2> QED BY <1>1, <1>10, <1>11, <1>16, <2>1, MutateShape
<1>17. ASSUME NEW t \in Threads, GetByID(t) PROVE Known'
  BY ZenonT(40), <1>4, <1>5, <1>6, <1>7, <1>8, <1>9, <1>17 DEF GetByID
<1> QED BY Zenon, <1>12, <1>13, <1>14, <1>15, <1>16, <1>17 DEF Next

\* A field that differs between two versions was changed by one in between.
LEMMA ChangedBetween ==
    ASSUME NEW f, NEW a \in Nat, NEW b \in Nat, a <= b, f[a] # f[b]
    PROVE  \E v \in (a + 1)..b : f[v] # f[v - 1]
<1> DEFINE T == {v \in (a + 1)..b : f[v] # f[a]}
<1>1. T \subseteq Nat /\ b \in T
  OBVIOUS
<1>2. PICK v \in T : \A w \in T : v <= w
  <2> HIDE DEF T
  <2> QED BY Zenon, <1>1, LeastElement
<1>3. v - 1 \notin T
  BY <1>1, <1>2
<1>4. f[v - 1] = f[a]
  BY <1>2, <1>3
<1> QED BY <1>2, <1>4

\* Of one process: an update that was not given is_active writes what GetByID
\* returned, so it can undo only a change later than what had returned when that
\* read began.
THEOREM UpdateTheorem ==
    ASSUME OneProcess
    PROVE  Spec => UpdateUndoesOnlyConcurrent
<1> USE CacheAssumption
<1> DEFINE Undone(t) == /\ Update(t, {}) /\ content'[row'].active # content[row].active
                        /\ restarts = 0 /\ ~tardy
           Concurrent(t) == \E v \in (thread[t].floor + 1)..row :
                                content[v].active # content[v - 1].active
<1>1. Init => CacheInv /\ Known
  <2> SUFFICES ASSUME Init PROVE CacheInv /\ Known
    BY Zenon
  <2>1. \A t \in Threads : thread[t] = Idle
    BY DEF Init
  <2>2. row = 1 /\ cache = Absent /\ late = Absent
    BY DEF Init
  <2> QED BY <2>1, <2>2, CacheInvInit DEF Known, At, Absent, Idle
<1>2. CacheInv /\ Known /\ [Next]_vars => (CacheInv /\ Known)'
  BY ZenonT(40), CacheInvStep, KnownStep
<1>3. ASSUME CacheInv, Known, NEW t \in Threads, Undone(t) PROVE Concurrent(t)
  <2>1. /\ thread[t].val \in 1..MaxVersions /\ row \in 1..MaxVersions /\ row + 1 \in 1..MaxVersions
        /\ thread[t].floor \in Nat /\ content \in Contents
    <3>1. thread[t].val \in Versions /\ thread[t].val # 0 /\ thread[t].val # Gone
      BY ZenonT(40), <1>3 DEF Update, CacheInv, Typed, Sees, At, Reader
    <3>2. row < MaxVersions /\ row \in 1..Gone /\ thread[t].floor \in Versions /\ content \in Contents
      BY <1>3 DEF Update, Write, CacheInv, Typed, Reader
    <3> QED BY <3>1, <3>2 DEF Versions, Gone
  <2>2. thread[t].floor <= thread[t].val /\ thread[t].val <= row
    <3>1. tardy = FALSE
      BY <1>3 DEF CacheInv, Typed
    <3> QED BY <1>3, <3>1 DEF Update, CacheInv, Sees, Known
  <2>3. content'[row'].active = content[thread[t].val].active
    <3>1. /\ content' = [content EXCEPT ![row + 1] =
                            [content[row] EXCEPT !.active = content[thread[t].val].active]]
          /\ row' = row + 1
      BY <1>3 DEF Update, Write, Commit, merge
    <3>2. content[row] \in Content
      BY <2>1 DEF Contents
    <3>3. [content[row] EXCEPT !.active = content[thread[t].val].active].active
              = content[thread[t].val].active
      BY <3>2 DEF Content
    <3> QED BY <2>1, <3>1, <3>3 DEF Contents
  <2>4. PICK f : f = [v \in 1..MaxVersions |-> content[v].active]
    BY Zenon
  <2>5. f[thread[t].val] # f[row]
    BY ZenonT(40), <1>3, <2>1, <2>3, <2>4
  <2>6. PICK v \in (thread[t].val + 1)..row : f[v] # f[v - 1]
    BY <2>1, <2>2, <2>5, ChangedBetween
  <2>7. v \in (thread[t].floor + 1)..row /\ v \in 1..MaxVersions /\ v - 1 \in 1..MaxVersions
    BY <2>1, <2>2, <2>6
  <2> QED BY ZenonT(40), <2>4, <2>6, <2>7
<1>4. CacheInv /\ Known /\ [Next]_vars => [\A t \in Threads : Undone(t) => Concurrent(t)]_vars
  <2> HIDE DEF Undone, Concurrent
  <2> QED BY <1>3
<1> QED BY <1>1, <1>2, <1>4, PTL DEF Spec, UpdateUndoesOnlyConcurrent
=============================================================================
