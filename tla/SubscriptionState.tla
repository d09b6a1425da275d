-------------------------- MODULE SubscriptionState --------------------------
(***************************************************************************)
(* subscription.State (internal/subscription/state.go): the read-through   *)
(* Redis cache of one subscription, in front of PostgreSQL.                *)
(*                                                                         *)
(* A method holds the subscription's lock stripe from its first to its     *)
(* last statement; stripes and the dirty map belong to one process, the    *)
(* cache entry and the row to all.  Every mutation writes a new version of *)
(* the row; versions are numbered, and the last one is the deleted row.    *)
(* A Redis command that returns an error may have been executed or not,    *)
(* and a SET may be executed after that; a commit that returns an error    *)
(* may have happened or not.                                               *)
(***************************************************************************)
EXTENDS Naturals

CONSTANTS
    Processes,    \* replicas of the service
    Threads,      \* goroutines that use the subscription
    Home,         \* [Threads -> Processes]
    TTL,          \* CACHE_TTL, in ticks
    MaxLate,      \* bound: ticks by which Redis executes a SET after its error
    MaxVersions,  \* bound: versions of the row
    MaxFaults,    \* bound: failing Redis commands and queries in a run
    MaxRestarts   \* bound: process restarts in a run

ASSUME CacheAssumption ==
    /\ Home \in [Threads -> Processes]
    /\ TTL \in Nat \ {0} /\ MaxLate \in Nat /\ MaxVersions \in Nat \ {0}
    /\ MaxFaults \in Nat /\ MaxRestarts \in Nat

Gone == MaxVersions + 1

VARIABLES
    row,       \* subscriptions: current version
    content,   \* what a version says: is_active, and secret_key by number
    cache,     \* subscription:{id}: version and remaining TTL, version 0 if absent
    late,      \* a SET on its way: version and ticks in which it can arrive
    dirty,     \* per process: remaining time the key is marked, 0 if it is not
    thread,    \* per goroutine: next step, value read, what it had to see
    returned,  \* history: newest version whose mutation has returned
    age,       \* history: ticks since each version was committed, plus 1; 0 before
    tardy,     \* history: a SET was executed after its error
    faults, restarts

shared == <<row, content, cache, late, dirty>>
history == <<returned, age, tardy>>
vars == <<shared, thread, history, faults, restarts>>

Absent == [version |-> 0, left |-> 0]

Idle == [pc |-> "idle", val |-> 0, floor |-> 0, settled |-> {}]

\* What an entry of the cache can be old by.
Stale == TTL + MaxLate

Versions == 0..Gone

TypeOK ==
    /\ row \in 1..Gone
    /\ content \in [1..MaxVersions -> [active: BOOLEAN, secret: 1..MaxVersions]]
    /\ cache \in [version: 0..MaxVersions, left: 0..TTL]
    /\ late \in [version: 0..MaxVersions, left: 0..MaxLate]
    /\ dirty \in [Processes -> 0..TTL]
    /\ thread \in [Threads -> [pc: {"idle", "fetch", "bypass", "fill", "purge", "evict", "done"},
                               val: Versions, floor: Versions, settled: SUBSET (1..Gone)]]
    /\ returned \in Versions /\ age \in [1..Gone -> 0..(Stale + 1)] /\ tardy \in BOOLEAN
    /\ faults \in 0..MaxFaults /\ restarts \in 0..MaxRestarts

Init ==
    /\ row = 1 /\ content = [v \in 1..MaxVersions |-> [active |-> TRUE, secret |-> 1]]
    /\ cache = Absent /\ late = Absent /\ dirty = [r \in Processes |-> 0]
    /\ thread = [t \in Threads |-> Idle]
    /\ returned = 1 /\ age = [v \in 1..Gone |-> IF v = 1 THEN Stale + 1 ELSE 0]
    /\ tardy = FALSE
    /\ faults = 0 /\ restarts = 0

\* The versions that were committed at least Stale ago.
Settled == {v \in 1..Gone : age[v] = Stale + 1}

At(t, pc) == thread[t].pc = pc

\* The stripe is free for t: no goroutine of its process is inside a method.
Locked(t) ==
    \A u \in Threads : Home[u] = Home[t] => thread[u].pc \in {"idle", "done"}

Ok == UNCHANGED faults

Fails == faults < MaxFaults /\ faults' = faults + 1

\* Mutant: the mark runs out before the entry it guards against.
markDirtyBriefly(t) == dirty' = [dirty EXCEPT ![Home[t]] = TTL - 1]

markDirty(t) == dirty' = [dirty EXCEPT ![Home[t]] = TTL]

clearDirty(t) == dirty' = [dirty EXCEPT ![Home[t]] = 0]

Return(t, v) == thread' = [thread EXCEPT ![t].pc = "done", ![t].val = v]

-----------------------------------------------------------------------------
(* GetByID *)

\* Mutant: a hit extends the entry's life.
LookupSliding(t) ==
    /\ At(t, "idle") /\ Locked(t) /\ dirty[Home[t]] = 0
    /\ thread' = [thread EXCEPT ![t] =
            [pc |-> IF cache.version = 0 THEN "fetch" ELSE "done", val |-> cache.version,
             floor |-> returned, settled |-> Settled]]
    /\ cache' = IF cache.version = 0 THEN cache ELSE [cache EXCEPT !.left = TTL]
    /\ Ok /\ UNCHANGED <<row, content, late, dirty, history, restarts>>

\* Lock, dirty check and GET.
Lookup(t) ==
    LET begun(pc, v) == [pc |-> pc, val |-> v, floor |-> returned, settled |-> Settled]
    IN  /\ At(t, "idle") /\ Locked(t)
        /\ \/ /\ dirty[Home[t]] > 0
              /\ Ok /\ thread' = [thread EXCEPT ![t] = begun("fetch", 0)]
           \/ /\ dirty[Home[t]] = 0 /\ cache.version = 0
              /\ Ok /\ thread' = [thread EXCEPT ![t] = begun("fetch", 0)]
           \/ /\ dirty[Home[t]] = 0 /\ cache.version # 0
              /\ Ok /\ thread' = [thread EXCEPT ![t] = begun("done", cache.version)]
           \/ /\ dirty[Home[t]] = 0
              /\ Fails /\ thread' = [thread EXCEPT ![t] = begun("bypass", 0)]
        /\ UNCHANGED <<shared, history, restarts>>

\* Redis is unavailable: the row is returned and not cached.
Bypass(t) ==
    /\ At(t, "bypass")
    /\ Return(t, row)
    /\ Ok /\ UNCHANGED <<shared, history, restarts>>

\* The SELECT fails: the caller gets the error and no subscription.
QueryFails(t) ==
    /\ thread[t].pc \in {"fetch", "bypass"}
    /\ thread' = [thread EXCEPT ![t] = Idle]
    /\ Fails /\ UNCHANGED <<shared, history, restarts>>

Fetch(t) ==
    /\ At(t, "fetch")
    /\ thread' = [thread EXCEPT ![t].pc = IF row = Gone THEN "purge" ELSE "fill", ![t].val = row]
    /\ Ok /\ UNCHANGED <<shared, history, restarts>>

Fill(t) ==
    /\ At(t, "fill")
    /\ Return(t, thread[t].val)
    /\ \/ /\ Ok /\ clearDirty(t)
          /\ cache' = [version |-> thread[t].val, left |-> TTL]
          /\ UNCHANGED late
       \/ /\ Fails /\ markDirty(t)
          /\ cache' \in {cache, [version |-> thread[t].val, left |-> TTL]}
          /\ UNCHANGED late
       \/ /\ Fails /\ markDirty(t)
          /\ late = Absent /\ late' = [version |-> thread[t].val, left |-> MaxLate]
          /\ UNCHANGED cache
    /\ UNCHANGED <<row, content, history, restarts>>

\* Redis gets to a SET whose caller has had an error.
LateSet ==
    /\ late # Absent
    /\ cache' = [version |-> late.version, left |-> TTL]
    /\ late' = Absent
    /\ tardy' = TRUE
    /\ Ok /\ UNCHANGED <<row, content, dirty, thread, returned, age, restarts>>

\* The row is gone: DEL, and ErrNotFound whether or not it worked.
Purge(t) ==
    /\ At(t, "purge")
    /\ Return(t, Gone)
    /\ \/ Ok /\ clearDirty(t) /\ cache' = Absent
       \/ Fails /\ UNCHANGED dirty /\ cache' \in {cache, Absent}
    /\ UNCHANGED <<row, content, late, history, restarts>>

-----------------------------------------------------------------------------
(* Update, RotateSecret, Delete, RecordDeliverySuccess, RecordFinalFailure *)

\* The statement of the method commits version v; the method goes on to evict it,
\* or has got an error and returns at once.
Commit(t, v) ==
    /\ Locked(t)
    /\ row # Gone /\ row' = v
    /\ \/ Ok /\ thread' = [thread EXCEPT ![t] = [Idle EXCEPT !.pc = "evict", !.val = v]]
       \/ Fails /\ thread' = [thread EXCEPT ![t] = Idle]
    /\ age' = [age EXCEPT ![v] = 1]
    /\ UNCHANGED <<cache, late, dirty, returned, tardy, restarts>>

\* One of the methods that write the row's own values and new ones.
Write(t, new) ==
    /\ row < MaxVersions
    /\ Commit(t, row + 1)
    /\ content' = [content EXCEPT ![row + 1] = new]

\* Mutant: a field that is not given gets its default.
mergeDefault(t, given) == IF given = {} THEN TRUE ELSE CHOOSE b \in given : TRUE

\* is_active as handleUpdateSubscription writes it: as given, or as it was read.
merge(t, given) ==
    IF given = {} THEN content[thread[t].val].active ELSE CHOOSE b \in given : TRUE

\* Mutant: every column is written as it was read.
UpdateAll(t, given) ==
    /\ At(t, "done") /\ thread[t].val # Gone
    /\ Write(t, [content[thread[t].val] EXCEPT !.active = merge(t, given)])

\* After GetByID: the operator-mutable fields, without comparing them with the row.
Update(t, given) ==
    /\ At(t, "done") /\ thread[t].val # Gone
    /\ Write(t, [content[row] EXCEPT !.active = merge(t, given)])

RotateSecret(t) ==
    /\ At(t, "idle") /\ row < MaxVersions
    /\ Write(t, [content[row] EXCEPT !.secret = @ + 1])

\* RecordFinalFailure counts and may disable; RecordDeliverySuccess resets the count.
RecordOutcome(t) ==
    /\ At(t, "idle") /\ row < MaxVersions
    /\ \E active \in {FALSE, content[row].active} : Write(t, [content[row] EXCEPT !.active = active])

Delete(t) ==
    /\ At(t, "idle")
    /\ Commit(t, Gone)
    /\ UNCHANGED content

evictLocked(t) ==
    /\ At(t, "evict")
    /\ thread' = [thread EXCEPT ![t] = Idle]
    /\ \/ Ok /\ clearDirty(t) /\ cache' = Absent
       \/ Fails /\ markDirty(t) /\ cache' \in {cache, Absent}
    /\ returned' = IF thread[t].val > returned THEN thread[t].val ELSE returned
    /\ UNCHANGED <<row, content, late, age, tardy, restarts>>

-----------------------------------------------------------------------------
(* The caller takes the result; time; restarts *)

\* The caller only reads, or has an update that finds no row any more.
Take(t) ==
    /\ At(t, "done")
    /\ thread' = [thread EXCEPT ![t] = Idle]
    /\ Ok /\ UNCHANGED <<shared, history, restarts>>

\* Redis expires the entry, the dirty mark runs out.  A mark outlives an entry
\* of the same age, because After is strict.
Tick ==
    /\ cache' = IF cache.left <= 1 THEN Absent ELSE [cache EXCEPT !.left = @ - 1]
    /\ dirty' = [r \in Processes |-> IF dirty[r] = 0 THEN 0 ELSE dirty[r] - 1]
    /\ late' = IF late.left = 0 THEN Absent ELSE [late EXCEPT !.left = @ - 1]
    /\ age' = [v \in 1..Gone |-> IF age[v] \in 1..Stale THEN age[v] + 1 ELSE age[v]]
    /\ Ok /\ UNCHANGED <<row, content, thread, returned, tardy, restarts>>

\* The process starts again with an empty dirty map; its goroutines are gone.
Restart(r) ==
    /\ restarts < MaxRestarts
    /\ restarts' = restarts + 1
    /\ dirty' = [dirty EXCEPT ![r] = 0]
    /\ thread' = [t \in Threads |-> IF Home[t] = r THEN Idle ELSE thread[t]]
    /\ Ok /\ UNCHANGED <<row, content, cache, late, history>>

GetByID(t) ==
    \/ Lookup(t)
    \/ Bypass(t)
    \/ QueryFails(t)
    \/ Fetch(t)
    \/ Fill(t)
    \/ Purge(t)
    \/ Take(t)

Mutate(t) ==
    \/ \E given \in {{}, {TRUE}, {FALSE}} : Update(t, given)
    \/ RotateSecret(t)
    \/ RecordOutcome(t)
    \/ Delete(t)
    \/ evictLocked(t)

Next ==
    \/ \E t \in Threads : GetByID(t) \/ Mutate(t)
    \/ LateSet
    \/ Tick
    \/ \E r \in Processes : Restart(r)

Spec == Init /\ [][Next]_vars

-----------------------------------------------------------------------------

\* While the process runs, a read never returns a version older than a mutation
\* that had returned when the read began, although evictions and refills of the
\* cache may fail: "A committed mutation invalidates Redis before releasing that
\* stripe, closing the commit-to-evict race."  A SET that Redis executes after its
\* caller has had an error defeats this, since a later eviction clears the mark.
FreshRead ==
    restarts = 0 /\ ~tardy =>
        \A t \in Threads : At(t, "done") => thread[t].val >= thread[t].floor

\* Where a restart loses the dirty mark or cuts a mutation off from its eviction,
\* a commit reports an error or a SET comes late, a read is stale for no longer
\* than CACHE_TTL and the SET's delay.
StaleAtMostTTL ==
    \A t \in Threads : At(t, "done") => \A v \in thread[t].settled : thread[t].val >= v

\* handleUpdateSubscription "applies a partial update": it reads, merges and writes
\* in two methods.  What it writes for a field it was not given can undo a change,
\* such as an auto-disablement, only if that change had not returned when the
\* update began.
UpdateUndoesOnlyConcurrent ==
    [][\A t \in Threads :
        /\ Update(t, {}) /\ content'[row'].active # content[row].active
        /\ restarts = 0 /\ ~tardy
        => \E v \in (thread[t].floor + 1)..row : content[v].active # content[v - 1].active]_vars

\* A rotated secret stays rotated, whatever updates read before the rotation
\* ("secret rotation remains a separate operation").
RotationKept ==
    [][row' # Gone /\ row # Gone => content'[row'].secret >= content[row].secret]_vars
=============================================================================
