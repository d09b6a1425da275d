---------------------------- MODULE ControlsProofs ----------------------------
(***************************************************************************)
(* What holds of the runtime controls for any number of goroutines, any    *)
(* limit, threshold and deadlines: the permits whatever the breaker        *)
(* answers; what is left of the breaker's protocol (a reservation that is  *)
(* given back, a half-open breaker that waits for somebody, one probe) when*)
(* its atomic operations interleave in any way; and that Process with both *)
(* in it is a behaviour of each.                                           *)
(***************************************************************************)
EXTENDS DeliveryControls, FiniteSetTheorems, TLAPS

-----------------------------------------------------------------------------
(* The permits *)

\* A goroutine refers to a semaphore from Get until Process returns.
RefersToOne ==
    \A g \in Goroutines : job[g].sem = None <=> job[g].pc \in {"idle", "get"}

\* While a delivery refers to the registry's semaphore, the time since the last
\* Get and the time that delivery has left fit into one deadline.
UsedRecently ==
    \A g \in Goroutines :
        job[g].sem # None /\ job[g].sem = slot.sem => slot.idle + job[g].left <= DrainTimeout

\* A semaphore in use is the registry's, or a policy change retired it.
CurrentOrRetired ==
    DrainTimeout <= RegistryIdleTTL =>
        \A g \in Goroutines :
            job[g].sem # None => job[g].sem = slot.sem \/ job[g].sem \in retired

PermitsInv ==
    /\ PermitsTypeOK
    /\ RefersToOne
    /\ PermitsAccounted
    /\ UsedRecently
    /\ CurrentOrRetired

-----------------------------------------------------------------------------

\* The goroutines that hold permits are finitely many.
LEMMA HoldersFinite ==
    /\ IsFiniteSet(Holders)
    /\ \A s : IsFiniteSet(HoldersOf(s)) /\ Cardinality(HoldersOf(s)) \in Nat
<1>1. IsFiniteSet(Goroutines)
  BY PermitsAssumption
<1>2. IsFiniteSet(Holders)
  BY <1>1, FS_Subset DEF Holders
<1>3. \A s : IsFiniteSet(HoldersOf(s))
  BY <1>2, FS_Subset DEF HoldersOf
<1> QED
  BY <1>2, <1>3, FS_CardinalityType

\* The counts change only with the permits: a step that moves no goroutine into
\* or out of the region between TryAcquire and Release keeps them.
LEMMA SameHolders ==
    ASSUME PermitsAccounted, tokens' = tokens,
           \A s \in Semaphores : HoldersOf(s)' = HoldersOf(s)
    PROVE  PermitsAccounted'
BY DEF PermitsAccounted

\* No semaphore is out at first.
LEMMA PermitsInitInv == PermitsInit => PermitsInv
<1> SUFFICES ASSUME PermitsInit PROVE PermitsInv
  OBVIOUS
<1> USE PermitsAssumption DEF PermitsInit, NoSlot, NoJob
<1>1. PermitsTypeOK
  BY DEF PermitsTypeOK, Steps
<1>2. RefersToOne
  BY DEF RefersToOne
<1>3. PermitsAccounted
  <2>1. \A s : HoldersOf(s) = {}
    BY DEF HoldersOf, Holders, Holding
  <2> QED
    BY <2>1, FS_EmptySet DEF PermitsAccounted
<1>4. UsedRecently /\ CurrentOrRetired
  BY DEF UsedRecently, CurrentOrRetired
<1> QED
  BY <1>1, <1>2, <1>3, <1>4 DEF PermitsInv

-----------------------------------------------------------------------------
(* One lemma per step of Process *)

\* Reading the subscription takes nothing.
LEMMA LoadSubscriptionInv ==
    ASSUME PermitsInv, NEW g \in Goroutines, LoadSubscription(g)
    PROVE  PermitsInv'
<1> USE PermitsAssumption DEF PermitsInv, LoadSubscription, At
<1>1. PermitsTypeOK'
  BY DEF PermitsTypeOK, Steps
<1>2. RefersToOne'
  BY DEF PermitsTypeOK, RefersToOne
<1>3. PermitsAccounted'
  <2>1. \A s : HoldersOf(s)' = HoldersOf(s)
    BY DEF HoldersOf, Holders, Holding, PermitsTypeOK
  <2> QED
    BY <2>1, SameHolders
<1>4. UsedRecently'
  BY DEF PermitsTypeOK, UsedRecently
<1>5. CurrentOrRetired'
  BY DEF PermitsTypeOK, CurrentOrRetired
<1> QED
  BY <1>1, <1>2, <1>3, <1>4, <1>5

\* A semaphore is found or made, with no permit out.
LEMMA semForInv ==
    ASSUME PermitsInv, NEW g \in Goroutines, semFor(g)
    PROVE  PermitsInv'
<1> USE PermitsAssumption DEF PermitsInv, semFor, At
<1>1. CASE slot.sem # None
  <2>1. /\ slot' = [slot EXCEPT !.idle = 0]
        /\ job' = [job EXCEPT ![g].pc = "try", ![g].sem = slot.sem]
        /\ UNCHANGED <<sub, tokens, retired>>
    BY <1>1 DEF Get
  <2>2. PermitsTypeOK'
    <3>1. job'[g] = [pc |-> "try", sem |-> slot.sem, left |-> job[g].left]
      BY ZenonT(40), <2>1 DEF PermitsTypeOK
    <3>2. \A h \in Goroutines : h # g => job'[h] = job[h]
      BY <2>1 DEF PermitsTypeOK
    <3> QED
      BY <2>1, <3>1, <3>2 DEF PermitsTypeOK, Steps
  <2>3. RefersToOne'
    BY <1>1, <2>1 DEF PermitsTypeOK, RefersToOne
  <2>4. PermitsAccounted'
    <3>1. \A s : HoldersOf(s)' = HoldersOf(s)
      BY <2>1 DEF HoldersOf, Holders, Holding, PermitsTypeOK
    <3> QED
      BY <2>1, <3>1, SameHolders
  <2>5. UsedRecently'
    BY <1>1, <2>1 DEF PermitsTypeOK, UsedRecently
  <2>6. CurrentOrRetired'
    BY <1>1, <2>1 DEF PermitsTypeOK, CurrentOrRetired
  <2> QED
    BY <2>2, <2>3, <2>4, <2>5, <2>6
<1>2. CASE slot.sem = None
  <2>1. PICK s \in Semaphores :
          /\ Unreachable(s)
          /\ slot' = [sem |-> s, idle |-> 0]
          /\ job' = [job EXCEPT ![g].pc = "try", ![g].sem = s]
          /\ tokens' = [tokens EXCEPT ![s] = 0]
          /\ UNCHANGED <<sub, retired>>
    BY <1>2 DEF Get
  <2>2. PermitsTypeOK'
    <3>1. job'[g] = [pc |-> "try", sem |-> s, left |-> job[g].left]
      BY ZenonT(40), <2>1 DEF PermitsTypeOK
    <3>2. \A h \in Goroutines : h # g => job'[h] = job[h]
      BY <2>1 DEF PermitsTypeOK
    <3> QED
      BY <2>1, <3>1, <3>2 DEF PermitsTypeOK, Steps
  <2>3. RefersToOne'
    BY <2>1 DEF PermitsTypeOK, RefersToOne
  <2>4. PermitsAccounted'
    <3>1. \A u : HoldersOf(u)' = HoldersOf(u)
      BY <2>1 DEF HoldersOf, Holders, Holding, PermitsTypeOK
    <3>2. HoldersOf(s) = {}
      BY <2>1 DEF HoldersOf, Holders, Unreachable, Unused
    <3>3. tokens'[s] = 0 /\ Cardinality(HoldersOf(s)') = 0
      BY Zenon, <2>1, <3>1, <3>2, FS_EmptySet DEF PermitsTypeOK
    <3>4. \A u \in Semaphores : u # s => tokens'[u] = tokens[u]
      BY Zenon, <2>1 DEF PermitsTypeOK
    <3> QED
      BY <3>1, <3>3, <3>4 DEF PermitsAccounted
  <2>5. UsedRecently'
    BY <2>1 DEF PermitsTypeOK, UsedRecently, Unreachable, Unused
  <2>6. CurrentOrRetired'
    BY <1>2, <2>1 DEF PermitsTypeOK, CurrentOrRetired
  <2> QED
    BY <2>2, <2>3, <2>4, <2>5, <2>6
<1> QED
  BY <1>1, <1>2

\* Process returns: the others keep their semaphores and what is known of them.
LEMMA FinishInv ==
    ASSUME PermitsInv, NEW g \in Goroutines, Finish(g), UNCHANGED <<sub, slot>>
    PROVE  /\ job' \in [Goroutines -> [pc: Steps, sem: Semaphores \cup {None}, left: 0..DrainTimeout]]
           /\ retired' \subseteq Semaphores
           /\ RefersToOne'
           /\ UsedRecently'
           /\ CurrentOrRetired'
<1> USE PermitsAssumption DEF PermitsInv, Finish, NoJob
<1>1. job' \in [Goroutines -> [pc: Steps, sem: Semaphores \cup {None}, left: 0..DrainTimeout]]
  BY DEF PermitsTypeOK, Steps
<1>2. retired' \subseteq Semaphores
  BY DEF PermitsTypeOK
<1>3. RefersToOne'
  BY DEF PermitsTypeOK, RefersToOne
<1>4. UsedRecently'
  BY DEF PermitsTypeOK, UsedRecently
<1>5. CurrentOrRetired'
  <2> SUFFICES ASSUME DrainTimeout <= RegistryIdleTTL, NEW h \in Goroutines, job'[h].sem # None
               PROVE  job'[h].sem = slot.sem \/ job'[h].sem \in retired'
    BY DEF CurrentOrRetired
  <2>1. h # g /\ job'[h] = job[h]
    BY DEF PermitsTypeOK
  <2>2. job[h].sem = slot.sem \/ job[h].sem \in retired
    BY <2>1 DEF CurrentOrRetired
  <2> QED
    BY <2>1, <2>2
<1> QED
  BY Zenon, <1>1, <1>2, <1>3, <1>4, <1>5

\* A permit is taken from the semaphore looked up.
LEMMA TryAcquireInv ==
    ASSUME PermitsInv, NEW g \in Goroutines, TryAcquire(g)
    PROVE  PermitsInv'
<1> USE PermitsAssumption DEF PermitsInv, At
<1>0. PICK s \in Semaphores : job[g].sem = s /\ job[g].pc = "try"
  BY DEF TryAcquire, RefersToOne, PermitsTypeOK
<1>1. CASE tokens[s] < PerSubConcurrency
  <2>1. /\ tokens' = [tokens EXCEPT ![s] = @ + 1]
        /\ job' = [job EXCEPT ![g].pc = "allow"]
        /\ UNCHANGED <<sub, slot, retired>>
    <3>1. ~(tokens[s] >= PerSubConcurrency)
      BY <1>0, <1>1 DEF PermitsTypeOK
    <3> QED
      BY <1>0, <3>1 DEF TryAcquire, Go
  <2>2. PermitsTypeOK'
    BY <1>0, <2>1 DEF PermitsTypeOK, Steps
  <2>3. RefersToOne'
    BY <1>0, <2>1 DEF PermitsTypeOK, RefersToOne
  <2>4. PermitsAccounted'
    <3>1. HoldersOf(s)' = HoldersOf(s) \cup {g} /\ g \notin HoldersOf(s)
      BY <1>0, <2>1 DEF HoldersOf, Holders, Holding, PermitsTypeOK
    <3>2. \A u : u # s => HoldersOf(u)' = HoldersOf(u)
      BY <1>0, <2>1 DEF HoldersOf, Holders, Holding, PermitsTypeOK
    <3>3. Cardinality(HoldersOf(s)') = Cardinality(HoldersOf(s)) + 1
      BY Zenon, <3>1, HoldersFinite, FS_AddElement
    <3>4. tokens'[s] = tokens[s] + 1 /\ \A u \in Semaphores : u # s => tokens'[u] = tokens[u]
      BY <1>0, <2>1 DEF PermitsTypeOK
    <3>5. tokens'[s] = Cardinality(HoldersOf(s)') /\ tokens'[s] <= PerSubConcurrency
      BY <1>0, <1>1, <3>3, <3>4 DEF PermitsAccounted, PermitsTypeOK
    <3> QED
      BY <3>2, <3>4, <3>5 DEF PermitsAccounted
  <2>5. UsedRecently'
    BY <2>1 DEF PermitsTypeOK, UsedRecently
  <2>6. CurrentOrRetired'
    BY <2>1 DEF PermitsTypeOK, CurrentOrRetired
  <2> QED
    BY <2>2, <2>3, <2>4, <2>5, <2>6
<1>2. CASE tokens[s] >= PerSubConcurrency
  <2>1. Finish(g) /\ UNCHANGED <<sub, slot, tokens>>
    <3>1. ~(tokens[s] < PerSubConcurrency)
      BY <1>0, <1>2 DEF PermitsTypeOK
    <3> QED
      BY <1>0, <3>1 DEF TryAcquire
  <2>2. \A u : HoldersOf(u)' = HoldersOf(u)
    BY <1>0, <2>1 DEF HoldersOf, Holders, Holding, Finish, NoJob, PermitsTypeOK
  <2>3. PermitsAccounted'
    BY <2>1, <2>2, SameHolders
  <2>4. PermitsTypeOK'
    BY <2>1, FinishInv DEF PermitsTypeOK
  <2> QED
    BY <2>1, <2>3, <2>4, FinishInv
<1> QED
  BY <1>0, <1>1, <1>2 DEF PermitsTypeOK

\* It goes back where it was taken.
LEMMA ReleaseInv ==
    ASSUME PermitsInv, NEW g \in Goroutines, Release(g)
    PROVE  PermitsInv'
<1> USE PermitsAssumption DEF PermitsInv, At
<1>0. PICK s \in Semaphores :
        job[g].sem = s /\ job[g].pc = "release" /\ Finish(g) /\ UNCHANGED <<sub, slot>>
  BY DEF Release, RefersToOne, PermitsTypeOK
<1>1. g \in HoldersOf(s)
  BY Zenon, <1>0 DEF HoldersOf, Holders, Holding
<1>2. HoldersOf(s)' = HoldersOf(s) \ {g}
  BY <1>0 DEF HoldersOf, Holders, Holding, Finish, NoJob, PermitsTypeOK
<1>3. \A u : u # s => HoldersOf(u)' = HoldersOf(u)
  BY <1>0 DEF HoldersOf, Holders, Holding, Finish, NoJob, PermitsTypeOK
<1>4. Cardinality(HoldersOf(s)') = Cardinality(HoldersOf(s)) - 1
  BY ZenonT(40), <1>1, <1>2, HoldersFinite, FS_RemoveElement
<1>5. tokens'[s] = tokens[s] - 1 /\ \A u \in Semaphores : u # s => tokens'[u] = tokens[u]
  BY <1>0 DEF Release, PermitsTypeOK
<1>6. tokens[s] # 0
  <2>1. Cardinality(HoldersOf(s)) # 0
    BY <1>1, HoldersFinite, FS_EmptySet
  <2> QED
    BY <1>0, <2>1 DEF PermitsAccounted
<1>7. tokens' \in [Semaphores -> Nat]
  BY <1>0, <1>5, <1>6 DEF Release, PermitsTypeOK
<1>8. PermitsAccounted'
  <2>1. tokens'[s] = Cardinality(HoldersOf(s)') /\ tokens'[s] <= PerSubConcurrency
    BY <1>0, <1>4, <1>5 DEF PermitsAccounted, PermitsTypeOK
  <2> QED
    BY <1>3, <1>5, <2>1 DEF PermitsAccounted
<1>9. PermitsTypeOK'
  BY <1>0, <1>7, FinishInv DEF PermitsTypeOK
<1> QED
  BY Zenon, <1>0, <1>8, <1>9, FinishInv

\* A goroutine that holds a permit moves on within the region.
LEMMA MoveInv ==
    ASSUME PermitsInv, NEW g \in Goroutines, job[g].pc \in Holding,
           NEW pc \in Holding, Go(g, pc)
    PROVE  /\ job' \in [Goroutines -> [pc: Steps, sem: Semaphores \cup {None}, left: 0..DrainTimeout]]
           /\ \A h \in Goroutines : job'[h].sem = job[h].sem /\ job'[h].left = job[h].left
           /\ RefersToOne'
           /\ tokens' = tokens => PermitsAccounted'
<1> USE DEF PermitsInv, Go
<1>1. job' \in [Goroutines -> [pc: Steps, sem: Semaphores \cup {None}, left: 0..DrainTimeout]]
  BY DEF PermitsTypeOK, Steps, Holding
<1>2. \A h \in Goroutines : job'[h].sem = job[h].sem /\ job'[h].left = job[h].left
  BY DEF PermitsTypeOK
<1>3. RefersToOne'
  BY DEF PermitsTypeOK, RefersToOne, Holding
<1>4. \A s : HoldersOf(s)' = HoldersOf(s)
  BY DEF HoldersOf, Holders, PermitsTypeOK
<1>5. tokens' = tokens => PermitsAccounted'
  BY <1>4, SameHolders
<1> QED
  BY <1>1, <1>2, <1>3, <1>5

\* The steps of Process that only move on: the breaker's answer, the request and
\* the scheduling of a retry.
LEMMA OnlyMovesInv ==
    ASSUME PermitsInv, NEW g \in Goroutines, job[g].pc \in Holding,
           NEW pc \in Holding, Go(g, pc), UNCHANGED <<sub, slot, tokens, retired>>
    PROVE  PermitsInv'
<1>1. PermitsTypeOK'
  BY Zenon, MoveInv DEF PermitsInv, PermitsTypeOK
<1>2. UsedRecently'
  BY MoveInv DEF PermitsInv, UsedRecently
<1>3. CurrentOrRetired'
  BY MoveInv DEF PermitsInv, CurrentOrRetired
<1> QED
  BY Zenon, <1>1, <1>2, <1>3, MoveInv DEF PermitsInv

\* A policy change takes the semaphore out of the registry; those who use it are
\* accounted for in `retired`.
LEMMA RemoveInv ==
    ASSUME PermitsInv, Remove,
           \A g \in Goroutines : job'[g].sem = job[g].sem /\ job'[g].left = job[g].left
    PROVE  /\ slot' \in [sem: Semaphores \cup {None}, idle: 0..(RegistryIdleTTL + 1)]
           /\ retired' \subseteq Semaphores
           /\ UsedRecently'
           /\ CurrentOrRetired'
<1> USE PermitsAssumption DEF PermitsInv, Remove, NoSlot
<1>1. slot' \in [sem: Semaphores \cup {None}, idle: 0..(RegistryIdleTTL + 1)]
  OBVIOUS
<1>2. retired' \subseteq Semaphores
  BY DEF PermitsTypeOK
<1>3. UsedRecently'
  BY DEF UsedRecently
<1>4. CurrentOrRetired'
  BY DEF CurrentOrRetired, Unused
<1> QED
  BY Zenon, <1>1, <1>2, <1>3, <1>4

\* A final failure does not touch the permits.
LEMMA RecordFinalFailureInv ==
    ASSUME PermitsInv, NEW g \in Goroutines, RecordFinalFailure(g)
    PROVE  PermitsInv'
<1>1. job[g].pc \in Holding /\ "release" \in Holding /\ Go(g, "release") /\ tokens' = tokens
  BY DEF RecordFinalFailure, At, Holding
<1>2. sub' \in {"active", "inactive", "gone"}
  BY DEF RecordFinalFailure, PermitsInv, PermitsTypeOK
<1>3. CASE sub' = "inactive"
  <2>1. Remove
    BY Zenon, <1>3 DEF RecordFinalFailure
  <2>2. PermitsTypeOK'
    BY Zenon, <1>1, <1>2, <2>1, MoveInv, RemoveInv DEF PermitsInv, PermitsTypeOK
  <2> QED
    BY <1>1, <2>1, <2>2, MoveInv, RemoveInv DEF PermitsInv
<1>4. CASE sub' # "inactive"
  <2>1. UNCHANGED <<slot, retired>>
    BY Zenon, <1>4 DEF RecordFinalFailure
  <2>2. PermitsTypeOK'
    BY Zenon, <1>1, <1>2, <2>1, MoveInv DEF PermitsInv, PermitsTypeOK
  <2>3. UsedRecently'
    BY Zenon, <1>1, <2>1, MoveInv DEF PermitsInv, UsedRecently
  <2>4. CurrentOrRetired'
    BY <1>1, <2>1, MoveInv DEF PermitsInv, CurrentOrRetired
  <2> QED
    BY <1>1, <2>2, <2>3, <2>4, MoveInv DEF PermitsInv
<1> QED
  BY <1>3, <1>4

-----------------------------------------------------------------------------
(* Management requests and time *)

\* Nor does an update.
LEMMA UpdateSubscriptionInv ==
    ASSUME PermitsInv, UpdateSubscription
    PROVE  PermitsInv'
<1> USE DEF PermitsInv, UpdateSubscription
<1>1. PermitsTypeOK'
  BY DEF PermitsTypeOK
<1>2. RefersToOne' /\ UsedRecently' /\ CurrentOrRetired'
  BY DEF RefersToOne, UsedRecently, CurrentOrRetired
<1>3. PermitsAccounted'
  BY SameHolders DEF HoldersOf, Holders
<1> QED
  BY <1>1, <1>2, <1>3

\* Nor does a deletion.
LEMMA DeleteSubscriptionInv ==
    ASSUME PermitsInv, DeleteSubscription
    PROVE  PermitsInv'
<1> USE DEF PermitsInv, DeleteSubscription
<1>1. RefersToOne'
  BY DEF RefersToOne
<1>2. PermitsAccounted'
  BY SameHolders DEF HoldersOf, Holders
<1>3. PermitsTypeOK' /\ UsedRecently' /\ CurrentOrRetired'
  BY RemoveInv DEF PermitsTypeOK
<1> QED
  BY <1>1, <1>2, <1>3

\* An entry old enough to be swept is used by no delivery whose deadline is
\* within the idle time.
LEMMA SweepInv ==
    ASSUME PermitsInv, Sweep
    PROVE  PermitsInv'
<1> USE PermitsAssumption DEF PermitsInv, Sweep, NoSlot
<1>1. PermitsTypeOK'
  BY DEF PermitsTypeOK
<1>2. RefersToOne'
  BY DEF RefersToOne
<1>3. PermitsAccounted'
  BY SameHolders DEF HoldersOf, Holders
<1>4. UsedRecently'
  BY Zenon DEF UsedRecently, PermitsTypeOK
<1>5. CurrentOrRetired'
  <2> SUFFICES ASSUME DrainTimeout <= RegistryIdleTTL, NEW g \in Goroutines, job[g].sem # None
               PROVE  job[g].sem = slot'.sem \/ job[g].sem \in retired
    BY DEF CurrentOrRetired
  <2>1. CASE job[g].sem \in retired
    BY <2>1
  <2>2. CASE job[g].sem = slot.sem
    <3>1. slot.idle <= RegistryIdleTTL
      BY <2>2 DEF UsedRecently, PermitsTypeOK
    <3>2. slot' = slot
      BY <3>1 DEF PermitsTypeOK
    <3> QED
      BY Zenon, <2>2, <3>2
  <2> QED
    BY Zenon, <2>1, <2>2 DEF CurrentOrRetired
<1> QED
  BY ZenonT(40), <1>1, <1>2, <1>3, <1>4, <1>5

\* Time passes over the permits.
LEMMA PermitsTickInv ==
    ASSUME PermitsInv, PermitsTick
    PROVE  PermitsInv'
<1> USE PermitsAssumption DEF PermitsInv, PermitsTick
<1>1. \A g \in Goroutines :
        /\ job'[g].pc = job[g].pc /\ job'[g].sem = job[g].sem
        /\ job[g].sem # None => job'[g].left = job[g].left - 1
  BY DEF Elapse, Busy, RefersToOne, PermitsTypeOK
<1>2. slot'.sem = slot.sem /\ slot'.idle <= slot.idle + 1
  BY DEF Elapse, PermitsTypeOK
<1>3. PermitsTypeOK'
  <2>1. slot' \in [sem: Semaphores \cup {None}, idle: 0..(RegistryIdleTTL + 1)]
    BY DEF Elapse, PermitsTypeOK
  <2>2. job' \in [Goroutines -> [pc: Steps, sem: Semaphores \cup {None}, left: 0..DrainTimeout]]
    BY DEF Elapse, MayWait, PermitsTypeOK
  <2> QED
    BY <2>1, <2>2 DEF PermitsTypeOK
<1>4. RefersToOne'
  BY <1>1 DEF RefersToOne
<1>5. PermitsAccounted'
  <2>1. \A s : HoldersOf(s)' = HoldersOf(s)
    BY Zenon, <1>1 DEF HoldersOf, Holders
  <2> QED
    BY <2>1, SameHolders
<1>6. UsedRecently'
  <2> SUFFICES ASSUME NEW g \in Goroutines, job'[g].sem # None, job'[g].sem = slot'.sem
               PROVE  slot'.idle + job'[g].left <= DrainTimeout
    BY Zenon DEF UsedRecently
  <2>1. slot.idle + job[g].left <= DrainTimeout
    BY <1>1, <1>2 DEF UsedRecently
  <2>2. slot.idle \in Nat /\ job[g].left \in Nat /\ slot'.idle \in Nat
    BY <1>3 DEF PermitsTypeOK
  <2> QED
    BY <1>1, <1>2, <2>1, <2>2
<1>7. CurrentOrRetired'
  BY <1>1, <1>2 DEF CurrentOrRetired
<1> QED
  BY ZenonT(40), <1>3, <1>4, <1>5, <1>6, <1>7

\* The invariant is inductive.
LEMMA PermitsNextInv == PermitsInv /\ [PermitsNext]_permitVars => PermitsInv'
<1> SUFFICES ASSUME PermitsInv, [PermitsNext]_permitVars PROVE PermitsInv'
  OBVIOUS
<1>1. ASSUME NEW g \in Goroutines, Deliver(g) PROVE PermitsInv'
  <2>1. CASE FailAndScheduleRetry(g)
    BY <2>1, OnlyMovesInv DEF FailAndScheduleRetry, At, Holding
  <2> QED
    BY Zenon, <1>1, <2>1, LoadSubscriptionInv, semForInv, TryAcquireInv, RecordFinalFailureInv, ReleaseInv
    DEF Deliver
<1>2. ASSUME NEW g \in Goroutines, Admit(g) PROVE PermitsInv'
  BY <1>2, OnlyMovesInv DEF Admit, At, Holding
<1>3. ASSUME NEW g \in Goroutines, Attempt(g) PROVE PermitsInv'
  BY <1>3, OnlyMovesInv DEF Attempt, At, Holding
<1>4. CASE UNCHANGED permitVars
  <2> USE <1>4 DEF PermitsInv, permitVars
  <2>1. PermitsTypeOK' /\ RefersToOne' /\ UsedRecently' /\ CurrentOrRetired'
    BY DEF PermitsTypeOK, RefersToOne, UsedRecently, CurrentOrRetired
  <2>2. PermitsAccounted'
    BY SameHolders DEF HoldersOf, Holders
  <2> QED
    BY Zenon, <2>1, <2>2
<1> QED
  BY Zenon, <1>1, <1>2, <1>3, <1>4, UpdateSubscriptionInv, DeleteSubscriptionInv, SweepInv, PermitsTickInv
  DEF PermitsNext

\* If no delivery uses a retired semaphore, all hold permits of one.
LEMMA LimitKept == PermitsInv => LimitExceededOnlyByPolicy
<1> SUFFICES ASSUME PermitsInv, DrainTimeout <= RegistryIdleTTL,
                    \A g \in Holders : job[g].sem \notin retired
             PROVE  ~(Cardinality(Holders) > PerSubConcurrency)
  BY DEF LimitExceededOnlyByPolicy
<1> USE PermitsAssumption DEF PermitsInv
<1>1. \A g \in Holders : job[g].sem \in Semaphores /\ job[g].sem = slot.sem
  BY DEF CurrentOrRetired, RefersToOne, Holders, Holding, PermitsTypeOK
<1>2. CASE Holders = {}
  BY <1>2, FS_EmptySet
<1>3. CASE Holders # {}
  <2>1. slot.sem \in Semaphores /\ Holders = HoldersOf(slot.sem)
    BY <1>1, <1>3 DEF HoldersOf
  <2> QED
    BY <2>1, HoldersFinite DEF PermitsAccounted
<1> QED
  BY <1>2, <1>3

\* The permits of every semaphore are accounted for, and the limit is exceeded
\* only by a policy change, whatever the breaker answers.
THEOREM PermitsCorrect == PermitsSpec => [](PermitsAccounted /\ LimitExceededOnlyByPolicy)
<1>1. PermitsInv => PermitsAccounted /\ LimitExceededOnlyByPolicy
  BY LimitKept DEF PermitsInv
<1> QED
  BY PermitsInitInv, PermitsNextInv, <1>1, PTL DEF PermitsSpec

-----------------------------------------------------------------------------
(* The breaker *)

\* The values the atomics and the goroutines range over, without the bounds of
\* a run.
Atomics == [state: {"closed", "open", "half-open"}, failures: Nat, generation: Nat,
            probing: BOOLEAN, cooled: BOOLEAN]

Ranges ==
    /\ cb \in Atomics
    /\ caller \in [Callers -> [op: Ops, token: Nat, probe: BOOLEAN]]

\* The reservation is about to be used, or to be given back.
Answerable(p) == caller[p].op \in {"half", "s_probing", "f_era", "f_probing"}

\* A reservation outside the half-open state has somebody who will either enter
\* that state or release it.
ProbeAccounted ==
    cb.probing = TRUE /\ cb.state # "half-open" => \E p \in Callers : Answerable(p)

\* p is about to start the era of a probe, or its result will be accepted, or has
\* been and is about to take the breaker out of half-open.
Awaits(p) ==
    \/ caller[p].op = "newera"
    \/ /\ caller[p].op \in {"flight", "s_state", "s_close", "f_state", "f_opened", "f_open"}
       /\ caller[p].token = cb.generation

\* A half-open breaker has such a goroutine until a RecordFailure raises the
\* generation under it.
EraAwaited == cb.state = "half-open" /\ ~late => \E p \in Callers : Awaits(p)

\* A probe has its reservation until somebody else clears the flag.
ProbeReserved == \A p \in ProbesOut : p \in robbed \/ cb.probing = TRUE

BreakerInv ==
    /\ Ranges
    /\ ProbeAccounted
    /\ EraAwaited
    /\ ProbeReserved
    /\ SecondProbeOnlyAfterRelease

\* Initially the breaker is closed and nothing is reserved.
LEMMA BreakerInitInv == Init => BreakerInv
<1> SUFFICES ASSUME Init PROVE BreakerInv
  OBVIOUS
<1>1. Outside \in [op: Ops, token: Nat, probe: BOOLEAN]
  BY DEF Outside, Ops
<1>2. Ranges
  BY <1>1 DEF Init, Ranges, Atomics
<1>3. ProbeAccounted /\ EraAwaited
  BY DEF Init, ProbeAccounted, EraAwaited
<1>4. ProbesOut = {}
  BY DEF Init, Outside, ProbesOut, CarriesProbe
<1> QED
  BY <1>2, <1>3, <1>4 DEF BreakerInv, ProbeReserved, SecondProbeOnlyAfterRelease

\* A reservation outside the half-open state after a step of p is one p now
\* answers for, or one that somebody else already answered for.
AccountedBy(p) ==
    \/ cb'.probing = FALSE
    \/ cb'.state = "half-open"
    \/ Answerable(p)'
    \/ ~Answerable(p) /\ cb.probing = TRUE /\ cb.state # "half-open"

\* A half-open breaker after a step of p awaits p, or whomever it awaited.
AwaitsAfter(p) ==
    cb'.state = "half-open" /\ ~late' =>
        \/ Awaits(p)'
        \/ ~Awaits(p) /\ cb.state = "half-open" /\ ~late /\ cb'.generation = cb.generation

\* A step of p reserves the free flag, or clears it and robs the probes that are
\* out, or leaves it and adds no probe.
ReservedAfter(p) ==
    \/ cb.probing = FALSE /\ cb'.probing = TRUE /\ robbed' = robbed
    \/ robbed' = ProbesOut /\ ~CarriesProbe(p)'
    \/ /\ cb'.probing = cb.probing
       /\ CarriesProbe(p)' => CarriesProbe(p)
       /\ robbed' = robbed \/ (robbed' = robbed \ {p} /\ ~CarriesProbe(p)')

\* What the histories keep of a step.
LEMMA Remembered ==
  ASSUME NEW p \in Callers, NEW op, Remember(p, op)
  PROVE  /\ op # "half" /\ late => late'
         /\ op \in {"f_era", "f_tripped"} /\ cb.state = "half-open" => late'
         /\ op \in {"s_probing", "f_probing"} => robbed' = ProbesOut
         /\ op = "flight" => robbed' = robbed \ {p}
         /\ op \notin {"s_probing", "f_probing", "flight"} => robbed' = robbed
<1>1. op # "half" /\ late => late'
  BY Zenon DEF Remember
<1>2. op \in {"f_era", "f_tripped"} /\ cb.state = "half-open" => late'
  BY Zenon DEF Remember
<1>3. /\ op \in {"s_probing", "f_probing"} => robbed' = ProbesOut
      /\ op = "flight" => robbed' = robbed \ {p}
      /\ op \notin {"s_probing", "f_probing", "flight"} => robbed' = robbed
  BY Zenon DEF Remember
<1> QED
  BY Zenon, <1>1, <1>2, <1>3

\* What a step of goroutine p has to show.
LEMMA CallerStepInv ==
  ASSUME BreakerInv, NEW p \in Callers, Ranges',
         \A q \in Callers \ {p} : caller'[q] = caller[q],
         AccountedBy(p), AwaitsAfter(p), ReservedAfter(p)
  PROVE  BreakerInv'
<1>1. ProbeAccounted'
  <2> SUFFICES ASSUME cb'.probing = TRUE, cb'.state # "half-open"
               PROVE  \E q \in Callers : Answerable(q)'
    BY Zenon DEF ProbeAccounted
  <2>1. CASE ~Answerable(p) /\ cb.probing = TRUE /\ cb.state # "half-open"
    <3>1. PICK q \in Callers : Answerable(q)
      BY <2>1 DEF BreakerInv, ProbeAccounted
    <3>2. Answerable(q)'
      BY <2>1, <3>1 DEF Answerable
    <3> QED
      BY <3>2
  <2> QED
    BY Zenon, <2>1 DEF AccountedBy
<1>2. EraAwaited'
  <2> SUFFICES ASSUME cb'.state = "half-open", ~late'
               PROVE  \E q \in Callers : Awaits(q)'
    BY Zenon DEF EraAwaited
  <2>1. CASE ~Awaits(p) /\ cb.state = "half-open" /\ ~late /\ cb'.generation = cb.generation
    <3>1. PICK q \in Callers : Awaits(q)
      BY Zenon, <2>1 DEF BreakerInv, EraAwaited
    <3>2. q # p /\ caller'[q] = caller[q]
      BY Zenon, <2>1, <3>1
    <3>3. Awaits(q)'
      BY Zenon, <2>1, <3>1, <3>2 DEF Awaits
    <3> QED
      BY Zenon, <3>3
  <2> QED
    BY Zenon, <2>1 DEF AwaitsAfter
<1>3. \A q \in Callers \ {p} : CarriesProbe(q)' <=> CarriesProbe(q)
  BY Zenon DEF CarriesProbe
<1>4. ProbeReserved' /\ SecondProbeOnlyAfterRelease'
  <2>1. CASE cb.probing = FALSE /\ cb'.probing = TRUE /\ robbed' = robbed
    <3>1. \A q \in ProbesOut : q \in robbed
      BY Zenon, <2>1 DEF BreakerInv, ProbeReserved
    <3>2. \A q \in ProbesOut' : q = p \/ q \in robbed'
      BY Zenon, <1>3, <2>1, <3>1 DEF ProbesOut
    <3>3. ProbeReserved'
      BY Zenon, <2>1 DEF ProbeReserved
    <3>4. SecondProbeOnlyAfterRelease'
      BY Zenon, <3>2 DEF SecondProbeOnlyAfterRelease
    <3> QED
      BY Zenon, <3>3, <3>4
  <2>2. CASE robbed' = ProbesOut /\ ~CarriesProbe(p)'
    <3>1. \A q \in ProbesOut' : q \in robbed'
      BY Zenon, <1>3, <2>2 DEF ProbesOut
    <3> QED
      BY Zenon, <3>1 DEF ProbeReserved, SecondProbeOnlyAfterRelease
  <2>3. CASE /\ cb'.probing = cb.probing
             /\ CarriesProbe(p)' => CarriesProbe(p)
             /\ robbed' = robbed \/ (robbed' = robbed \ {p} /\ ~CarriesProbe(p)')
    <3>1. \A q \in ProbesOut' : q \in ProbesOut /\ (q \in robbed => q \in robbed')
      BY Zenon, <1>3, <2>3 DEF ProbesOut
    <3>2. ProbeReserved'
      BY Zenon, <2>3, <3>1 DEF BreakerInv, ProbeReserved
    <3>3. SecondProbeOnlyAfterRelease'
      BY Zenon, <3>1 DEF BreakerInv, SecondProbeOnlyAfterRelease
    <3> QED
      BY Zenon, <3>2, <3>3
  <2> QED
    BY Zenon, <2>1, <2>2, <2>3 DEF ReservedAfter
<1> QED
  BY Zenon, <1>1, <1>2, <1>4 DEF BreakerInv

\* The two flags may be written with any truth value.
LEMMA FlagWrites ==
  ASSUME Ranges, NEW b \in BOOLEAN
  PROVE  [cb EXCEPT !.probing = b] \in Atomics /\ [cb EXCEPT !.cooled = b] \in Atomics
<1>1. /\ cb.state \in {"closed", "open", "half-open"} /\ cb.failures \in Nat
      /\ cb.generation \in Nat /\ cb.probing \in BOOLEAN /\ cb.cooled \in BOOLEAN
  BY DEF Ranges, Atomics
<1>2. [cb EXCEPT !.probing = b] \in Atomics
  BY <1>1, Zenon DEF Ranges, Atomics
<1>3. [cb EXCEPT !.cooled = b] \in Atomics
  BY <1>1, Zenon DEF Ranges, Atomics
<1> QED
  BY <1>2, <1>3

\* A goroutine that only moves on stays in range.
LEMMA MovesOn ==
  ASSUME Ranges, NEW p \in Callers, NEW op \in Ops, cb' \in Atomics,
         caller' = [caller EXCEPT ![p] = Goto(p, op)]
  PROVE  Ranges'
<1>1. Goto(p, op) \in [op: Ops, token: Nat, probe: BOOLEAN]
  BY DEF Goto, Ranges
<1> QED
  BY <1>1 DEF Ranges

\* Allow reserves the probe only on its way to half-open.
LEMMA AllowInv ==
  ASSUME BreakerInv, NEW p \in Callers, AllowState(p) \/ Allow(p)
  PROVE  BreakerInv'
<1>0. Ranges
  BY Zenon DEF BreakerInv
<1>1. CASE AllowState(p)
  <2>1. Ranges'
    BY <1>0, <1>1 DEF AllowState, Do, Goto, Outside, Ops, Ranges, Atomics
  <2>2. \A q \in Callers \ {p} : caller'[q] = caller[q]
    BY <1>0, <1>1 DEF AllowState, Do, Ranges
  <2>3. AccountedBy(p)
    BY ZenonT(40), <1>0, <1>1 DEF AllowState, Do, Goto, Outside, Ranges, Atomics, Answerable, AccountedBy
  <2>4. AwaitsAfter(p)
    BY ZenonT(40), <1>0, <1>1, Remembered DEF AllowState, Do, Goto, Outside, Ranges, Atomics, Awaits, AwaitsAfter
  <2>5. ReservedAfter(p)
    BY ZenonT(40), <1>0, <1>1, Remembered DEF AllowState, Do, Goto, Outside, Ranges, Atomics, CarriesProbe, ReservedAfter
  <2> QED
    BY ZenonT(40), <2>1, <2>2, <2>3, <2>4, <2>5, CallerStepInv
<1>2. CASE AllowToken(p)
  <2>1. Ranges'
    BY Zenon, <1>0, <1>2 DEF AllowToken, Do, Goto, Outside, Ops, Ranges, Atomics
  <2>2. \A q \in Callers \ {p} : caller'[q] = caller[q]
    BY Zenon, <1>0, <1>2 DEF AllowToken, Do, Ranges
  <2>3. AccountedBy(p)
    BY ZenonT(40), <1>0, <1>2 DEF AllowToken, Do, Goto, Outside, Ranges, Atomics, Answerable, AccountedBy
  <2>4. AwaitsAfter(p)
    BY ZenonT(40), <1>0, <1>2, Remembered DEF AllowToken, Do, Goto, Outside, Ranges, Atomics, Awaits, AwaitsAfter
  <2>5. ReservedAfter(p)
    BY ZenonT(40), <1>0, <1>2, Remembered DEF AllowToken, Do, Goto, Outside, Ranges, Atomics, CarriesProbe, ReservedAfter
  <2> QED
    BY ZenonT(40), <2>1, <2>2, <2>3, <2>4, <2>5, CallerStepInv
<1>3. CASE AllowElapsed(p)
  <2>1. Ranges'
    BY <1>0, <1>3 DEF AllowElapsed, Do, Goto, Outside, Ops, Ranges, Atomics
  <2>2. \A q \in Callers \ {p} : caller'[q] = caller[q]
    BY <1>0, <1>3 DEF AllowElapsed, Do, Ranges
  <2>3. AccountedBy(p)
    BY ZenonT(40), <1>0, <1>3 DEF AllowElapsed, Do, Goto, Outside, Ranges, Atomics, Answerable, AccountedBy
  <2>4. AwaitsAfter(p)
    BY ZenonT(40), <1>0, <1>3, Remembered DEF AllowElapsed, Do, Goto, Outside, Ranges, Atomics, Awaits, AwaitsAfter
  <2>5. ReservedAfter(p)
    BY ZenonT(40), <1>0, <1>3, Remembered DEF AllowElapsed, Do, Goto, Outside, Ranges, Atomics, CarriesProbe, ReservedAfter
  <2> QED
    BY ZenonT(40), <2>1, <2>2, <2>3, <2>4, <2>5, CallerStepInv
<1>4. CASE AllowProbe(p)
  <2>1. Ranges'
    <3>1. Outside \in [op: Ops, token: Nat, probe: BOOLEAN]
      BY DEF Outside, Ops
    <3>2. Goto(p, "half") \in [op: Ops, token: Nat, probe: BOOLEAN]
      BY <1>0 DEF Goto, Ranges, Ops
    <3>3. caller' = [caller EXCEPT ![p] = Outside] \/ caller' = [caller EXCEPT ![p] = Goto(p, "half")]
      BY Zenon, <1>4 DEF AllowProbe, Do
    <3>4. caller' \in [Callers -> [op: Ops, token: Nat, probe: BOOLEAN]]
      BY <1>0, <3>1, <3>2, <3>3 DEF Ranges
    <3>5. cb' = [cb EXCEPT !.probing = TRUE]
      BY <1>4 DEF AllowProbe, Do
    <3>6. cb' \in Atomics
      BY Zenon, <1>0, <3>5, FlagWrites
    <3> QED
      BY <3>4, <3>6 DEF Ranges
  <2>2. \A q \in Callers \ {p} : caller'[q] = caller[q]
    BY <1>0, <1>4 DEF AllowProbe, Do, Ranges
  <2>3. AccountedBy(p)
    BY ZenonT(40), <1>0, <1>4 DEF AllowProbe, Do, Goto, Outside, Ranges, Atomics, Answerable, AccountedBy
  <2>4. AwaitsAfter(p)
    BY ZenonT(40), <1>0, <1>4, Remembered DEF AllowProbe, Do, Goto, Outside, Ranges, Atomics, Awaits, AwaitsAfter
  <2>5. ReservedAfter(p)
    BY ZenonT(40), <1>0, <1>4, Remembered DEF AllowProbe, Do, Goto, Outside, Ranges, Atomics, CarriesProbe, ReservedAfter
  <2> QED
    BY ZenonT(40), <2>1, <2>2, <2>3, <2>4, <2>5, CallerStepInv
<1>5. CASE AllowHalfOpen(p)
  <2>1. Ranges'
    BY <1>0, <1>5 DEF AllowHalfOpen, Do, Goto, Outside, Ops, Ranges, Atomics
  <2>2. \A q \in Callers \ {p} : caller'[q] = caller[q]
    BY <1>0, <1>5 DEF AllowHalfOpen, Do, Ranges
  <2>3. AccountedBy(p)
    BY ZenonT(40), <1>0, <1>5 DEF AllowHalfOpen, Do, Goto, Outside, Ranges, Atomics, Answerable, AccountedBy
  <2>4. AwaitsAfter(p)
    BY ZenonT(40), <1>0, <1>5, Remembered DEF AllowHalfOpen, Do, Goto, Outside, Ranges, Atomics, Awaits, AwaitsAfter
  <2>5. ReservedAfter(p)
    BY ZenonT(40), <1>0, <1>5, Remembered DEF AllowHalfOpen, Do, Goto, Outside, Ranges, Atomics, CarriesProbe, ReservedAfter
  <2> QED
    BY ZenonT(40), <2>1, <2>2, <2>3, <2>4, <2>5, CallerStepInv
<1>6. CASE AllowNewEra(p)
  <2>1. Ranges'
    BY <1>0, <1>6 DEF AllowNewEra, Do, Goto, Outside, Ops, Ranges, Atomics
  <2>2. \A q \in Callers \ {p} : caller'[q] = caller[q]
    BY <1>0, <1>6 DEF AllowNewEra, Do, Ranges
  <2>3. AccountedBy(p)
    BY Zenon, <1>0, <1>6 DEF AllowNewEra, Do, Goto, Outside, Ranges, Atomics, Answerable, AccountedBy
  <2>4. AwaitsAfter(p)
    BY ZenonT(40), <1>0, <1>6, Remembered DEF AllowNewEra, Do, Goto, Outside, Ranges, Atomics, Awaits, AwaitsAfter
  <2>5. ReservedAfter(p)
    BY ZenonT(40), <1>0, <1>6, Remembered DEF AllowNewEra, Do, Goto, Outside, Ranges, Atomics, CarriesProbe, ReservedAfter
  <2> QED
    BY ZenonT(40), <2>1, <2>2, <2>3, <2>4, <2>5, CallerStepInv
<1> QED
  BY ZenonT(40), <1>1, <1>2, <1>3, <1>4, <1>5, <1>6 DEF Allow

\* RecordSuccess leaves half-open only on its way to releasing the probe.
LEMMA SuccessInv ==
  ASSUME BreakerInv, NEW p \in Callers, RecordSuccess(p)
  PROVE  BreakerInv'
<1>0. Ranges
  BY DEF BreakerInv
<1>1. CASE Do(p, "flight", cb, Current(p, "s_state"))
  <2>1. Ranges'
    BY <1>0, <1>1 DEF Do, Goto, Outside, Ops, Ranges, Atomics, Current
  <2>2. \A q \in Callers \ {p} : caller'[q] = caller[q]
    BY <1>0, <1>1 DEF Do, Ranges
  <2>3. AccountedBy(p)
    BY Zenon, <1>0, <1>1 DEF Do, Goto, Outside, Ranges, Atomics, Answerable, Current, AccountedBy
  <2>4. AwaitsAfter(p)
    BY ZenonT(40), <1>0, <1>1, Remembered DEF Do, Goto, Outside, Ranges, Atomics, Current, Awaits, AwaitsAfter
  <2>5. ReservedAfter(p)
    BY ZenonT(40), <1>0, <1>1, Remembered DEF Do, Goto, Outside, Ranges, Atomics, Current, CarriesProbe, ReservedAfter
  <2> QED
    BY ZenonT(40), <2>1, <2>2, <2>3, <2>4, <2>5, CallerStepInv
<1>2. CASE SuccessState(p)
  <2>1. Ranges'
    BY <1>0, <1>2 DEF SuccessState, Do, Goto, Outside, Ops, Ranges, Atomics
  <2>2. \A q \in Callers \ {p} : caller'[q] = caller[q]
    BY Zenon, <1>0, <1>2 DEF SuccessState, Do, Ranges
  <2>3. AccountedBy(p)
    BY Zenon, <1>0, <1>2 DEF SuccessState, Do, Goto, Outside, Ranges, Atomics, Answerable, AccountedBy
  <2>4. AwaitsAfter(p)
    BY ZenonT(40), <1>0, <1>2, Remembered DEF SuccessState, Do, Goto, Outside, Ranges, Atomics, Awaits, AwaitsAfter
  <2>5. ReservedAfter(p)
    BY ZenonT(40), <1>0, <1>2, Remembered DEF SuccessState, Do, Goto, Outside, Ranges, Atomics, CarriesProbe, ReservedAfter
  <2> QED
    BY ZenonT(40), <2>1, <2>2, <2>3, <2>4, <2>5, CallerStepInv
<1>3. CASE SuccessClose(p)
  <2>1. Ranges'
    BY <1>0, <1>3 DEF SuccessClose, Do, Goto, Outside, Ops, Ranges, Atomics
  <2>2. \A q \in Callers \ {p} : caller'[q] = caller[q]
    BY Zenon, <1>0, <1>3 DEF SuccessClose, Do, Ranges
  <2>3. AccountedBy(p)
    BY ZenonT(40), <1>0, <1>3 DEF SuccessClose, Do, Goto, Outside, Ranges, Atomics, Answerable, AccountedBy
  <2>4. AwaitsAfter(p)
    BY ZenonT(40), <1>0, <1>3, Remembered DEF SuccessClose, Do, Goto, Outside, Ranges, Atomics, Awaits, AwaitsAfter
  <2>5. ReservedAfter(p)
    BY ZenonT(40), <1>0, <1>3, Remembered DEF SuccessClose, Do, Goto, Outside, Ranges, Atomics, CarriesProbe, ReservedAfter
  <2> QED
    BY ZenonT(40), <2>1, <2>2, <2>3, <2>4, <2>5, CallerStepInv
<1>4. CASE SuccessProbing(p)
  <2>1. Ranges'
    <3>1. cb' = [cb EXCEPT !.probing = FALSE] /\ caller' = [caller EXCEPT ![p] = Goto(p, "s_failures")]
      BY <1>4 DEF SuccessProbing, Do
    <3>2. cb' \in Atomics /\ "s_failures" \in Ops
      BY Zenon, <1>0, <3>1, FlagWrites DEF Ops
    <3> QED
      BY Zenon, <1>0, <3>1, <3>2, MovesOn
  <2>2. \A q \in Callers \ {p} : caller'[q] = caller[q]
    BY <1>0, <1>4 DEF SuccessProbing, Do, Ranges
  <2>3. AccountedBy(p)
    BY ZenonT(40), <1>0, <1>4 DEF SuccessProbing, Do, Goto, Outside, Ranges, Atomics, Answerable, AccountedBy
  <2>4. AwaitsAfter(p)
    BY ZenonT(40), <1>0, <1>4, Remembered DEF SuccessProbing, Do, Goto, Outside, Ranges, Atomics, Awaits, AwaitsAfter
  <2>5. ReservedAfter(p)
    BY ZenonT(40), <1>0, <1>4, Remembered DEF SuccessProbing, Do, Goto, Outside, Ranges, Atomics, CarriesProbe, ReservedAfter
  <2> QED
    BY ZenonT(40), <2>1, <2>2, <2>3, <2>4, <2>5, CallerStepInv
<1>5. CASE SuccessFailures(p)
  <2>1. Ranges'
    BY ZenonT(40), <1>0, <1>5 DEF SuccessFailures, Do, Goto, Outside, Ops, Ranges, Atomics
  <2>2. \A q \in Callers \ {p} : caller'[q] = caller[q]
    BY <1>0, <1>5 DEF SuccessFailures, Do, Ranges
  <2>3. AccountedBy(p)
    BY Zenon, <1>0, <1>5 DEF SuccessFailures, Do, Goto, Outside, Ranges, Atomics, Answerable, AccountedBy
  <2>4. AwaitsAfter(p)
    BY ZenonT(40), <1>0, <1>5, Remembered DEF SuccessFailures, Do, Goto, Outside, Ranges, Atomics, Awaits, AwaitsAfter
  <2>5. ReservedAfter(p)
    BY ZenonT(40), <1>0, <1>5, Remembered DEF SuccessFailures, Do, Goto, Outside, Ranges, Atomics, CarriesProbe, ReservedAfter
  <2> QED
    BY ZenonT(40), <2>1, <2>2, <2>3, <2>4, <2>5, CallerStepInv
<1> QED
  BY ZenonT(40), <1>1, <1>2, <1>3, <1>4, <1>5 DEF RecordSuccess

\* RecordFailure leaves half-open only on its way to releasing the probe, and
\* opens a closed breaker whose reservation, if any, somebody else answers for.
LEMMA FailureInv ==
  ASSUME BreakerInv, NEW p \in Callers, RecordFailure(p)
  PROVE  BreakerInv'
<1>0. Ranges
  BY DEF BreakerInv
<1>1. CASE Do(p, "flight", cb, Current(p, "f_state"))
  <2>1. Ranges'
    BY <1>0, <1>1 DEF Do, Goto, Outside, Ops, Ranges, Atomics, Current
  <2>2. \A q \in Callers \ {p} : caller'[q] = caller[q]
    BY Zenon, <1>0, <1>1 DEF Do, Ranges
  <2>3. AccountedBy(p)
    BY Zenon, <1>0, <1>1 DEF Do, Goto, Outside, Ranges, Atomics, Answerable, Current, AccountedBy
  <2>4. AwaitsAfter(p)
    BY ZenonT(40), <1>0, <1>1, Remembered DEF Do, Goto, Outside, Ranges, Atomics, Current, Awaits, AwaitsAfter
  <2>5. ReservedAfter(p)
    BY ZenonT(40), <1>0, <1>1, Remembered DEF Do, Goto, Outside, Ranges, Atomics, Current, CarriesProbe, ReservedAfter
  <2> QED
    BY ZenonT(40), <2>1, <2>2, <2>3, <2>4, <2>5, CallerStepInv
<1>2. CASE FailureState(p)
  <2>1. Ranges'
    BY <1>0, <1>2 DEF FailureState, Do, Goto, Outside, Ops, Ranges, Atomics
  <2>2. \A q \in Callers \ {p} : caller'[q] = caller[q]
    BY Zenon, <1>0, <1>2 DEF FailureState, Do, Ranges
  <2>3. AccountedBy(p)
    BY Zenon, <1>0, <1>2 DEF FailureState, Do, Goto, Outside, Ranges, Atomics, Answerable, AccountedBy
  <2>4. AwaitsAfter(p)
    BY ZenonT(40), <1>0, <1>2, Remembered DEF FailureState, Do, Goto, Outside, Ranges, Atomics, Awaits, AwaitsAfter
  <2>5. ReservedAfter(p)
    BY ZenonT(40), <1>0, <1>2, Remembered DEF FailureState, Do, Goto, Outside, Ranges, Atomics, CarriesProbe, ReservedAfter
  <2> QED
    BY ZenonT(40), <2>1, <2>2, <2>3, <2>4, <2>5, CallerStepInv
<1>3. CASE ProbeOpenedAt(p)
  <2>1. Ranges'
    <3>1. cb' = [cb EXCEPT !.cooled = FALSE] /\ caller' = [caller EXCEPT ![p] = Goto(p, "f_open")]
      BY <1>3 DEF ProbeOpenedAt, Do
    <3>2. cb' \in Atomics /\ "f_open" \in Ops
      BY Zenon, <1>0, <3>1, FlagWrites DEF Ops
    <3> QED
      BY Zenon, <1>0, <3>1, <3>2, MovesOn
  <2>2. \A q \in Callers \ {p} : caller'[q] = caller[q]
    BY Zenon, <1>0, <1>3 DEF ProbeOpenedAt, Do, Ranges
  <2>3. AccountedBy(p)
    BY Zenon, <1>0, <1>3 DEF ProbeOpenedAt, Do, Goto, Outside, Ranges, Atomics, Answerable, AccountedBy
  <2>4. AwaitsAfter(p)
    BY ZenonT(40), <1>0, <1>3, Remembered DEF ProbeOpenedAt, Do, Goto, Outside, Ranges, Atomics, Awaits, AwaitsAfter
  <2>5. ReservedAfter(p)
    BY ZenonT(40), <1>0, <1>3, Remembered DEF ProbeOpenedAt, Do, Goto, Outside, Ranges, Atomics, CarriesProbe, ReservedAfter
  <2> QED
    BY ZenonT(40), <2>1, <2>2, <2>3, <2>4, <2>5, CallerStepInv
<1>4. CASE ProbeOpen(p)
  <2>1. Ranges'
    BY ZenonT(40), <1>0, <1>4 DEF ProbeOpen, Do, Goto, Outside, Ops, Ranges, Atomics
  <2>2. \A q \in Callers \ {p} : caller'[q] = caller[q]
    BY Zenon, <1>0, <1>4 DEF ProbeOpen, Do, Ranges
  <2>3. AccountedBy(p)
    BY ZenonT(40), <1>0, <1>4 DEF ProbeOpen, Do, Goto, Outside, Ranges, Atomics, Answerable, AccountedBy
  <2>4. AwaitsAfter(p)
    BY ZenonT(40), <1>0, <1>4, Remembered DEF ProbeOpen, Do, Goto, Outside, Ranges, Atomics, Awaits, AwaitsAfter
  <2>5. ReservedAfter(p)
    BY ZenonT(40), <1>0, <1>4, Remembered DEF ProbeOpen, Do, Goto, Outside, Ranges, Atomics, CarriesProbe, ReservedAfter
  <2> QED
    BY ZenonT(40), <2>1, <2>2, <2>3, <2>4, <2>5, CallerStepInv
<1>5. CASE ProbeEra(p)
  <2>1. Ranges'
    BY <1>0, <1>5 DEF ProbeEra, Do, Goto, Outside, Ops, Ranges, Atomics
  <2>2. \A q \in Callers \ {p} : caller'[q] = caller[q]
    BY Zenon, <1>0, <1>5 DEF ProbeEra, Do, Ranges
  <2>3. AccountedBy(p)
    BY ZenonT(40), <1>0, <1>5 DEF ProbeEra, Do, Goto, Outside, Ranges, Atomics, Answerable, AccountedBy
  <2>4. AwaitsAfter(p)
    BY ZenonT(40), <1>0, <1>5, Remembered DEF ProbeEra, Do, Goto, Outside, Ranges, Atomics, Awaits, AwaitsAfter
  <2>5. ReservedAfter(p)
    BY ZenonT(40), <1>0, <1>5, Remembered DEF ProbeEra, Do, Goto, Outside, Ranges, Atomics, CarriesProbe, ReservedAfter
  <2> QED
    BY ZenonT(40), <2>1, <2>2, <2>3, <2>4, <2>5, CallerStepInv
<1>6. CASE ProbeDone(p)
  <2>1. Ranges'
    BY Zenon, <1>0, <1>6 DEF ProbeDone, Do, Goto, Outside, Ops, Ranges, Atomics
  <2>2. \A q \in Callers \ {p} : caller'[q] = caller[q]
    BY Zenon, <1>0, <1>6 DEF ProbeDone, Do, Ranges
  <2>3. AccountedBy(p)
    BY Zenon, <1>0, <1>6 DEF ProbeDone, Do, Goto, Outside, Ranges, Atomics, Answerable, AccountedBy
  <2>4. AwaitsAfter(p)
    BY ZenonT(40), <1>0, <1>6, Remembered DEF ProbeDone, Do, Goto, Outside, Ranges, Atomics, Awaits, AwaitsAfter
  <2>5. ReservedAfter(p)
    BY ZenonT(40), <1>0, <1>6, Remembered DEF ProbeDone, Do, Goto, Outside, Ranges, Atomics, CarriesProbe, ReservedAfter
  <2> QED
    BY ZenonT(40), <2>1, <2>2, <2>3, <2>4, <2>5, CallerStepInv
<1>7. CASE FailureCount(p)
  <2>1. Ranges'
    BY <1>0, <1>7 DEF FailureCount, Do, Goto, Outside, Ops, Ranges, Atomics
  <2>2. \A q \in Callers \ {p} : caller'[q] = caller[q]
    BY <1>0, <1>7 DEF FailureCount, Do, Ranges
  <2>3. AccountedBy(p)
    BY <1>0, <1>7 DEF FailureCount, Do, Goto, Outside, Ranges, Atomics, Answerable, AccountedBy
  <2>4. AwaitsAfter(p)
    BY ZenonT(40), <1>0, <1>7, Remembered DEF FailureCount, Do, Goto, Outside, Ranges, Atomics, Awaits, AwaitsAfter
  <2>5. ReservedAfter(p)
    BY ZenonT(40), <1>0, <1>7, Remembered DEF FailureCount, Do, Goto, Outside, Ranges, Atomics, CarriesProbe, ReservedAfter
  <2> QED
    BY ZenonT(40), <2>1, <2>2, <2>3, <2>4, <2>5, CallerStepInv
<1>8. CASE TripOpenedAt(p)
  <2>1. Ranges'
    <3>1. cb' = [cb EXCEPT !.cooled = FALSE] /\ caller' = [caller EXCEPT ![p] = Goto(p, "f_trip")]
      BY <1>8 DEF TripOpenedAt, Do
    <3>2. cb' \in Atomics /\ "f_trip" \in Ops
      BY Zenon, <1>0, <3>1, FlagWrites DEF Ops
    <3> QED
      BY Zenon, <1>0, <3>1, <3>2, MovesOn
  <2>2. \A q \in Callers \ {p} : caller'[q] = caller[q]
    BY Zenon, <1>0, <1>8 DEF TripOpenedAt, Do, Ranges
  <2>3. AccountedBy(p)
    BY Zenon, <1>0, <1>8 DEF TripOpenedAt, Do, Goto, Outside, Ranges, Atomics, Answerable, AccountedBy
  <2>4. AwaitsAfter(p)
    BY ZenonT(40), <1>0, <1>8, Remembered DEF TripOpenedAt, Do, Goto, Outside, Ranges, Atomics, Awaits, AwaitsAfter
  <2>5. ReservedAfter(p)
    BY ZenonT(40), <1>0, <1>8, Remembered DEF TripOpenedAt, Do, Goto, Outside, Ranges, Atomics, CarriesProbe, ReservedAfter
  <2> QED
    BY ZenonT(40), <2>1, <2>2, <2>3, <2>4, <2>5, CallerStepInv
<1>9. CASE Trip(p)
  <2>1. Ranges'
    BY <1>0, <1>9 DEF Trip, Do, Goto, Outside, Ops, Ranges, Atomics
  <2>2. \A q \in Callers \ {p} : caller'[q] = caller[q]
    BY Zenon, <1>0, <1>9 DEF Trip, Do, Ranges
  <2>3. AccountedBy(p)
    BY Zenon, <1>0, <1>9 DEF Trip, Do, Goto, Outside, Ranges, Atomics, Answerable, AccountedBy
  <2>4. AwaitsAfter(p)
    BY ZenonT(40), <1>0, <1>9, Remembered DEF Trip, Do, Goto, Outside, Ranges, Atomics, Awaits, AwaitsAfter
  <2>5. ReservedAfter(p)
    BY ZenonT(40), <1>0, <1>9, Remembered DEF Trip, Do, Goto, Outside, Ranges, Atomics, CarriesProbe, ReservedAfter
  <2> QED
    BY ZenonT(40), <2>1, <2>2, <2>3, <2>4, <2>5, CallerStepInv
<1>10. CASE TripEra(p)
  <2>1. Ranges'
    BY <1>0, <1>10 DEF TripEra, Do, Goto, Outside, Ops, Ranges, Atomics
  <2>2. \A q \in Callers \ {p} : caller'[q] = caller[q]
    BY Zenon, <1>0, <1>10 DEF TripEra, Do, Ranges
  <2>3. AccountedBy(p)
    BY Zenon, <1>0, <1>10 DEF TripEra, Do, Goto, Outside, Ranges, Atomics, Answerable, AccountedBy
  <2>4. AwaitsAfter(p)
    BY ZenonT(40), <1>0, <1>10, Remembered DEF TripEra, Do, Goto, Outside, Ranges, Atomics, Awaits, AwaitsAfter
  <2>5. ReservedAfter(p)
    BY ZenonT(40), <1>0, <1>10, Remembered DEF TripEra, Do, Goto, Outside, Ranges, Atomics, CarriesProbe, ReservedAfter
  <2> QED
    BY ZenonT(40), <2>1, <2>2, <2>3, <2>4, <2>5, CallerStepInv
<1> QED
  BY ZenonT(40), <1>1, <1>2, <1>3, <1>4, <1>5, <1>6, <1>7, <1>8, <1>9, <1>10 DEF RecordFailure

\* Every step of the breaker preserves the invariant.
LEMMA BreakerNextInv == BreakerInv /\ [Next]_vars => BreakerInv'
<1> SUFFICES ASSUME BreakerInv, [Next]_vars PROVE BreakerInv'
  OBVIOUS
<1>1. CASE \E p \in Callers : AllowState(p) \/ Allow(p)
  BY Zenon, <1>1, AllowInv
<1>2. CASE \E p \in Callers : RecordSuccess(p)
  BY Zenon, <1>2, SuccessInv
<1>3. CASE \E p \in Callers : RecordFailure(p)
  BY Zenon, <1>3, FailureInv
<1>4. CASE CoolDown
  <2>1. /\ cb' \in Atomics /\ caller' = caller /\ late' = late /\ robbed' = robbed
        /\ cb'.state = cb.state /\ cb'.generation = cb.generation /\ cb'.probing = cb.probing
    BY Zenon, <1>4 DEF CoolDown, BreakerInv, Ranges, Atomics
  <2> QED
    BY Zenon, <2>1 DEF BreakerInv, Ranges, ProbeAccounted, Answerable, EraAwaited, Awaits,
                       ProbeReserved, SecondProbeOnlyAfterRelease, ProbesOut, CarriesProbe
<1>5. CASE UNCHANGED vars
  <2>1. cb' = cb /\ caller' = caller /\ late' = late /\ robbed' = robbed
    BY Zenon, <1>5 DEF vars
  <2> QED
    BY Zenon, <2>1 DEF BreakerInv, Ranges, ProbeAccounted, Answerable, EraAwaited, Awaits,
                       ProbeReserved, SecondProbeOnlyAfterRelease, ProbesOut, CarriesProbe
<1> QED
  BY Zenon, <1>1, <1>2, <1>3, <1>4, <1>5 DEF Next

\* An open breaker at rest has no probe reserved, for any number of goroutines
\* and however the atomic operations of circuit_breaker.go interleave: the first
\* Allow after the reset timeout is admitted.
THEOREM OpenAdmitsProbeTheorem == Spec => []OpenAdmitsProbe
<1>1. BreakerInv => OpenAdmitsProbe
  BY Zenon DEF BreakerInv, Ranges, Atomics, ProbeAccounted, Answerable, OpenAdmitsProbe, AtRest
<1> QED
  BY <1>1, BreakerInitInv, BreakerNextInv, PTL DEF Spec

\* A half-open breaker at rest waits for a request whose result counts, unless a
\* RecordFailure of an earlier era has raised the generation since Allow set that
\* state: for any number of goroutines and any interleaving, lines 82 and 89 of
\* circuit_breaker.go are the only ones that can leave it refusing everybody.
THEOREM WedgedTheorem == Spec => []WedgedOnlyByLateEra
<1>1. BreakerInv => WedgedOnlyByLateEra
  <2> SUFFICES ASSUME BreakerInv, AtRest, cb.state = "half-open", ~late
               PROVE  \E p \in Callers : caller[p].op = "flight" /\ caller[p].token = cb.generation
    BY Zenon DEF WedgedOnlyByLateEra
  <2>1. PICK p \in Callers : Awaits(p)
    BY Zenon DEF BreakerInv, EraAwaited
  <2>2. caller[p].op \in {"out", "flight"}
    BY Zenon DEF AtRest
  <2> QED
    BY Zenon, <2>1, <2>2 DEF Awaits
<1> QED
  BY <1>1, BreakerInitInv, BreakerNextInv, PTL DEF Spec

\* Of two probes that are out together one has lost its reservation to another
\* goroutine's report, for any number of goroutines and any interleaving: the
\* compare-and-swap of Allow never admits two by itself.
THEOREM SecondProbeTheorem == Spec => []SecondProbeOnlyAfterRelease
<1>1. BreakerInv => SecondProbeOnlyAfterRelease
  BY Zenon DEF BreakerInv
<1> QED
  BY <1>1, BreakerInitInv, BreakerNextInv, PTL DEF Spec

-----------------------------------------------------------------------------
(* The two in Process *)

\* While a method of the breaker runs, Process does not move; when it has
\* returned, Process goes one way or the other.
LEMMA ContinueMoves ==
    ASSUME PermitsInv, NEW g \in Goroutines, NEW admitted, NEW otherwise,
           Continue(g, admitted, otherwise)
    PROVE  \/ Go(g, admitted) /\ UNCHANGED <<sub, slot, tokens, retired>>
           \/ Go(g, otherwise) /\ UNCHANGED <<sub, slot, tokens, retired>>
           \/ UNCHANGED permitVars
<1>1. CASE caller'[g].op = "flight"
  BY Zenon, <1>1 DEF Continue, Go
<1>2. CASE caller'[g].op = "out"
  BY Zenon, <1>2 DEF Continue, Go
<1>3. CASE caller'[g].op \notin {"flight", "out"}
  <2>1. job' = [job EXCEPT ![g].pc = @]
    BY Zenon, <1>3 DEF Continue
  <2>2. job' = job
    BY Zenon, <2>1 DEF PermitsInv, PermitsTypeOK
  <2> QED
    BY Zenon, <2>2 DEF Continue, permitVars
<1> QED
  BY ZenonT(40), <1>1, <1>2, <1>3

\* Every step of Process with the breaker is a step without it, or none.
LEMMA ControlsStep ==
    ASSUME PermitsInv, [ControlsNext]_controlVars
    PROVE  [PermitsNext]_permitVars
<1>1. ASSUME NEW g \in Goroutines, AskBreaker(g) PROVE [PermitsNext]_permitVars
  BY ZenonT(40), <1>1, ContinueMoves DEF AskBreaker, PermitsNext, Admit
<1>2. ASSUME NEW g \in Goroutines, ReportToBreaker(g) PROVE [PermitsNext]_permitVars
  <2>1. At(g, "send") /\ (Continue(g, "send", "release") \/ Continue(g, "send", "failed"))
    BY Zenon, <1>2 DEF ReportToBreaker
  <2>2. Go(g, "send") /\ UNCHANGED <<sub, slot, tokens, retired>> => UNCHANGED permitVars
    BY <2>1 DEF Go, At, PermitsInv, PermitsTypeOK, permitVars
  <2> QED
    BY ZenonT(40), <2>1, <2>2, ContinueMoves DEF PermitsNext, Attempt
<1>3. CASE UNCHANGED controlVars
  BY Zenon, <1>3 DEF controlVars
<1> QED
  BY ZenonT(40), <1>1, <1>2, <1>3 DEF ControlsNext, PermitsNext

\* Process with the breaker, step by atomic step, implements Process with a
\* breaker that may answer anything.
THEOREM ControlsImplementPermits == ControlsSpec => PermitsSpec
<1>1. ControlsInit => PermitsInit
  BY DEF ControlsInit
<1>2. PermitsInit => PermitsInv
  BY Zenon, PermitsInitInv
<1>3. PermitsInv /\ [ControlsNext]_controlVars => [PermitsNext]_permitVars
  BY Zenon, ControlsStep
<1> QED
  BY <1>1, <1>2, <1>3, PermitsNextInv, PTL DEF ControlsSpec, PermitsSpec

\* So the accounts of the permits hold of it too.
THEOREM ControlsPermitsAccounted == ControlsSpec => []PermitsAccounted
BY ControlsImplementPermits, PermitsCorrect, PTL

\* And so does the limit.
THEOREM ControlsLimit == ControlsSpec => []LimitExceededOnlyByPolicy
BY ControlsImplementPermits, PermitsCorrect, PTL

\* For the breaker, the rest of Process is a caller that makes its calls in order.
LEMMA ControlsBreakerStep ==
    ASSUME [ControlsNext]_controlVars
    PROVE  [Next]_vars
<1>1. Goroutines = Callers
  BY Zenon, ControlsAssumption
<1>2. ASSUME NEW g \in Goroutines, AskBreaker(g) PROVE Next
  BY Zenon, <1>1, <1>2 DEF AskBreaker, Next
<1>3. ASSUME NEW g \in Goroutines, ReportToBreaker(g) PROVE Next
  BY Zenon, <1>1, <1>3 DEF ReportToBreaker, Next
<1>4. CASE UNCHANGED breakerVars
  BY Zenon, <1>4 DEF breakerVars, vars
<1>5. CASE CoolDown /\ UNCHANGED <<permitVars, calls>>
  BY Zenon, <1>5 DEF Next
<1>6. CASE UNCHANGED controlVars
  BY Zenon, <1>6 DEF controlVars, breakerVars, vars
<1> QED
  BY Zenon, <1>2, <1>3, <1>4, <1>5, <1>6 DEF ControlsNext

\* Process uses the breaker as its protocol asks: every request that was admitted
\* reports its result once.
THEOREM ControlsImplementBreaker == ControlsSpec => Spec
<1>1. ControlsInit => Init
  BY DEF ControlsInit
<1> QED
  BY <1>1, ControlsBreakerStep, PTL DEF ControlsSpec, Spec

\* So no reservation is left behind in an open breaker there.
THEOREM ControlsOpenAdmitsProbe == ControlsSpec => []OpenAdmitsProbe
BY ControlsImplementBreaker, OpenAdmitsProbeTheorem, PTL

\* Nor can anything but a late RecordFailure leave it wedged there.
THEOREM ControlsWedged == ControlsSpec => []WedgedOnlyByLateEra
BY ControlsImplementBreaker, WedgedTheorem, PTL

\* And two probes are out there only after a report has released one.
THEOREM ControlsSecondProbe == ControlsSpec => []SecondProbeOnlyAfterRelease
BY ControlsImplementBreaker, SecondProbeTheorem, PTL
=============================================================================
