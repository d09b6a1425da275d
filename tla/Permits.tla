------------------------------- MODULE Permits -------------------------------
(***************************************************************************)
(* The per-subscription concurrency limit: the semaphore a delivery takes  *)
(* (infra/semaphore), the registry that creates, sweeps and removes it     *)
(* (infra/registry), the policy changes that replace it (subscription      *)
(* State.resetRuntime) and the way Deliverer.Process uses it.              *)
(*                                                                         *)
(* One subscription.  A semaphore is an object: after a removal the next   *)
(* Get makes another one, while goroutines still hold permits of the old.  *)
(* Time is counted down in ticks; a delivery's calls return by the         *)
(* deadline of its context.                                                *)
(***************************************************************************)
EXTENDS Integers, FiniteSets

CONSTANTS
    Goroutines,         \* the pool's goroutines
    Semaphores,         \* identities of semaphore objects
    None,
    PerSubConcurrency,  \* PER_SUB_CONCURRENCY
    DrainTimeout,       \* DRAIN_TIMEOUT, a delivery's deadline, in ticks
    RegistryIdleTTL     \* REGISTRY_IDLE_TTL, in ticks

\* There is always an object that nobody else refers to.
ASSUME PermitsAssumption ==
    /\ IsFiniteSet(Goroutines) /\ IsFiniteSet(Semaphores)
    /\ Cardinality(Semaphores) >= Cardinality(Goroutines)
    /\ None \notin Semaphores
    /\ PerSubConcurrency \in Nat \ {0}
    /\ DrainTimeout \in Nat \ {0} /\ RegistryIdleTTL \in Nat \ {0}

VARIABLES
    sub,      \* the subscription's row
    slot,     \* the registry's entry: semaphore and ticks since lastUsed
    tokens,   \* permits taken of each semaphore
    job,      \* per goroutine: next step of Process, its semaphore, ticks left
    retired   \* history: semaphores removed by a policy change, not by the sweep

permitVars == <<sub, slot, tokens, job, retired>>

NoSlot == [sem |-> None, idle |-> 0]

NoJob == [pc |-> "idle", sem |-> None, left |-> 0]

Steps == {"idle", "get", "try", "allow", "send", "failed", "release"}

\* The steps between TryAcquire and the deferred Release.
Holding == {"allow", "send", "failed", "release"}

PermitsTypeOK ==
    /\ sub \in {"active", "inactive", "gone"}
    /\ slot \in [sem: Semaphores \cup {None}, idle: 0..(RegistryIdleTTL + 1)]
    /\ tokens \in [Semaphores -> Nat]
    /\ job \in [Goroutines -> [pc: Steps, sem: Semaphores \cup {None}, left: 0..DrainTimeout]]
    /\ retired \subseteq Semaphores

PermitsInit ==
    /\ sub = "active"
    /\ slot = NoSlot
    /\ tokens = [s \in Semaphores |-> 0]
    /\ job = [g \in Goroutines |-> NoJob]
    /\ retired = {}

At(g, pc) == job[g].pc = pc

Go(g, pc) == job' = [job EXCEPT ![g].pc = pc]

\* Process returns, and g lets go of its semaphore.
Finish(g) ==
    /\ job' = [job EXCEPT ![g] = NoJob]
    /\ retired' = {s \in retired : \E h \in Goroutines \ {g} : job[h].sem = s}

Busy(g) == job[g].pc # "idle"

Holders == {g \in Goroutines : job[g].pc \in Holding}

HoldersOf(s) == {g \in Holders : job[g].sem = s}

Unused(s) == \A g \in Goroutines : job[g].sem # s

\* No goroutine can reach the object any more, nor can the registry.
Unreachable(s) == s # slot.sem /\ Unused(s)

-----------------------------------------------------------------------------
(* registry.go *)

Get(g) ==
    \/ /\ slot.sem # None
       /\ slot' = [slot EXCEPT !.idle = 0]
       /\ job' = [job EXCEPT ![g].pc = "try", ![g].sem = slot.sem]
       /\ UNCHANGED tokens
    \/ /\ slot.sem = None
       /\ \E s \in Semaphores :
            /\ Unreachable(s)
            /\ slot' = [sem |-> s, idle |-> 0]
            /\ job' = [job EXCEPT ![g].pc = "try", ![g].sem = s]
            /\ tokens' = [tokens EXCEPT ![s] = 0]

\* The entry is deleted; whoever has the object keeps it.
Remove ==
    /\ slot' = NoSlot
    /\ retired' = IF slot.sem = None \/ Unused(slot.sem) THEN retired ELSE retired \cup {slot.sem}

\* Mutant: entries are evicted whatever their age.
SweepAnyAge ==
    /\ slot' = NoSlot
    /\ UNCHANGED <<sub, tokens, job, retired>>

\* An entry goes when its lastUsed is before now - idleTTL.
Sweep ==
    /\ slot' = IF slot.idle > RegistryIdleTTL THEN NoSlot ELSE slot
    /\ UNCHANGED <<sub, tokens, job, retired>>

-----------------------------------------------------------------------------
(* Deliverer.Process, around the semaphore *)

\* Process begins under a deadline of DrainTimeout (Pool.Start), claims the row
\* and reads the subscription; without an active one it returns.
LoadSubscription(g) ==
    /\ At(g, "idle")
    /\ sub = "active"
    /\ job' = [job EXCEPT ![g] = [pc |-> "get", sem |-> None, left |-> DrainTimeout]]
    /\ UNCHANGED <<sub, slot, tokens, retired>>

semFor(g) ==
    /\ At(g, "get")
    /\ Get(g)
    /\ UNCHANGED <<sub, retired>>

\* At capacity the row is rescheduled and Process returns.
TryAcquire(g) ==
    LET s == job[g].sem
    IN  /\ At(g, "try")
        /\ \/ /\ tokens[s] < PerSubConcurrency
              /\ tokens' = [tokens EXCEPT ![s] = @ + 1]
              /\ Go(g, "allow")
              /\ UNCHANGED retired
           \/ /\ tokens[s] >= PerSubConcurrency
              /\ Finish(g)
              /\ UNCHANGED tokens
        /\ UNCHANGED <<sub, slot>>

\* The breaker admits the request, or the row is rescheduled.
Admit(g) ==
    /\ At(g, "allow")
    /\ Go(g, "send") \/ Go(g, "release")
    /\ UNCHANGED <<sub, slot, tokens, retired>>

\* The HTTP request ends and its result is reported to the breaker; the rest of
\* the success path leaves the policy alone.
Attempt(g) ==
    /\ At(g, "send")
    /\ Go(g, "release") \/ Go(g, "failed")
    /\ UNCHANGED <<sub, slot, tokens, retired>>

\* A retry is scheduled.
FailAndScheduleRetry(g) ==
    /\ At(g, "failed")
    /\ Go(g, "release")
    /\ UNCHANGED <<sub, slot, tokens, retired>>

\* FinalizeFailure may reach AUTO_DISABLE_THRESHOLD; it reports `disabled` for
\* every subscription that is inactive afterwards, whoever deactivated it.
RecordFinalFailure(g) ==
    /\ At(g, "failed")
    /\ Go(g, "release")
    /\ sub' \in (IF sub = "active" THEN {"active", "inactive"} ELSE {sub})
    /\ IF sub' = "inactive" THEN Remove ELSE UNCHANGED <<slot, retired>>
    /\ UNCHANGED tokens

\* Mutant: the permit goes to the semaphore the registry has now.
ReleaseCurrent(g) ==
    /\ At(g, "release")
    /\ tokens' = IF slot.sem = None THEN tokens ELSE [tokens EXCEPT ![slot.sem] = @ - 1]
    /\ Finish(g)
    /\ UNCHANGED <<sub, slot>>

\* The deferred Release: to the object the permit was taken from.
Release(g) ==
    /\ At(g, "release")
    /\ tokens' = [tokens EXCEPT ![job[g].sem] = @ - 1]
    /\ Finish(g)
    /\ UNCHANGED <<sub, slot>>

\* Process but for the breaker's part in it.
Deliver(g) ==
    \/ LoadSubscription(g)
    \/ semFor(g)
    \/ TryAcquire(g)
    \/ FailAndScheduleRetry(g)
    \/ RecordFinalFailure(g)
    \/ Release(g)

-----------------------------------------------------------------------------
(* Management requests and time *)

\* Update leaves the runtime state alone.
UpdateSubscription ==
    /\ sub # "gone"
    /\ sub' \in {"active", "inactive"}
    /\ UNCHANGED <<slot, tokens, job, retired>>

DeleteSubscription ==
    /\ sub # "gone"
    /\ sub' = "gone"
    /\ Remove
    /\ UNCHANGED <<tokens, job>>

\* No context is past its deadline.
MayWait == \A g \in Goroutines : Busy(g) => job[g].left > 0

Elapse ==
    /\ slot' = IF slot.sem # None /\ slot.idle <= RegistryIdleTTL
               THEN [slot EXCEPT !.idle = @ + 1] ELSE slot
    /\ job' = [g \in Goroutines |-> IF Busy(g) THEN [job[g] EXCEPT !.left = @ - 1] ELSE job[g]]

PermitsTick ==
    /\ MayWait
    /\ Elapse
    /\ UNCHANGED <<sub, tokens, retired>>

PermitsNext ==
    \/ \E g \in Goroutines : Deliver(g) \/ Admit(g) \/ Attempt(g)
    \/ UpdateSubscription
    \/ DeleteSubscription
    \/ Sweep
    \/ PermitsTick

PermitsSpec == PermitsInit /\ [][PermitsNext]_permitVars

-----------------------------------------------------------------------------

\* The permits taken of a semaphore are those of the deliveries that will return
\* them, over removals, re-creations and denials: Release ("Safe to call only
\* after a successful TryAcquire") never blocks, and no permit is lost for good.
PermitsAccounted ==
    \A s \in Semaphores :
        /\ tokens[s] = Cardinality(HoldersOf(s))
        /\ tokens[s] <= PerSubConcurrency

\* More than PER_SUB_CONCURRENCY deliveries of a subscription are under way only
\* while some of them hold permits of a semaphore that a deletion or a
\* (reported) disablement retired.  The idle sweep is never the cause as long as
\* no delivery outlives REGISTRY_IDLE_TTL.
LimitExceededOnlyByPolicy ==
    DrainTimeout <= RegistryIdleTTL /\ Cardinality(Holders) > PerSubConcurrency =>
        \E g \in Holders : job[g].sem \in retired
=============================================================================
