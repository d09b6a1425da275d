--------------------------- MODULE CircuitBreaker ---------------------------
(***************************************************************************)
(* breaker.CircuitBreaker (internal/infra/breaker/circuit_breaker.go): one *)
(* breaker and the goroutines that deliver to its target.                  *)
(*                                                                         *)
(* The breaker has no lock.  Every load, store, add and compare-and-swap   *)
(* of its atomics is a step of its own, and the steps of the goroutines    *)
(* interleave freely.  Time is one fact: whether more than resetTimeout    *)
(* has passed since lastOpenedAt.  Stalls says how long a goroutine may be *)
(* held up inside a method: "short" of a resetTimeout, or as "long" as it  *)
(* likes.                                                                  *)
(***************************************************************************)
EXTENDS Naturals

CONSTANTS
    Callers,     \* goroutines between Allow and RecordSuccess/RecordFailure
    Threshold,   \* BREAKER_THRESHOLD
    Stalls,      \* "short" or "long"
    MaxCalls     \* bound: calls of Allow in a run

ASSUME BreakerAssumption ==
    /\ Threshold \in Nat \ {0}
    /\ Stalls \in {"short", "long"}
    /\ MaxCalls \in Nat

VARIABLES
    cb,      \* the atomics; cooled: now() - lastOpenedAt > resetTimeout
    caller,  \* per goroutine: next atomic operation, token, whether it is a probe
    calls,
    late,    \* history: since Allow last set half-open, a RecordFailure has raised
             \* the generation of the half-open breaker
    robbed   \* history: the probes whose reservation another goroutine has cleared

vars == <<cb, caller, calls, late, robbed>>

\* Next operation; "out" of the breaker, or in "flight" with the request.
Ops == {"out", "token", "elapsed", "probe", "half", "newera", "flight",
        "s_state", "s_close", "s_probing", "s_failures",
        "f_state", "f_opened", "f_open", "f_era", "f_probing",
        "f_count", "f_reopened", "f_trip", "f_tripped"}

Outside == [op |-> "out", token |-> 0, probe |-> FALSE]

TypeOK ==
    /\ cb \in [state: {"closed", "open", "half-open"}, failures: 0..MaxCalls,
               generation: 0..(2 * MaxCalls), probing: BOOLEAN, cooled: BOOLEAN]
    /\ caller \in [Callers -> [op: Ops, token: 0..(2 * MaxCalls), probe: BOOLEAN]]
    /\ calls \in 0..MaxCalls
    /\ late \in BOOLEAN /\ robbed \subseteq Callers

\* lastOpenedAt starts at the epoch.
Init ==
    /\ cb = [state |-> "closed", failures |-> 0, generation |-> 0,
             probing |-> FALSE, cooled |-> TRUE]
    /\ caller = [p \in Callers |-> Outside]
    /\ calls = 0
    /\ late = FALSE /\ robbed = {}

\* Nobody is inside a method.
AtRest == \A p \in Callers : caller[p].op \in {"out", "flight"}

Goto(p, op) == [caller[p] EXCEPT !.op = op]

\* p carries a probe: from the reservation to the target's answer.
CarriesProbe(p) ==
    caller[p].op \in {"half", "newera"} \/ (caller[p].op = "flight" /\ caller[p].probe)

ProbesOut == {p \in Callers : CarriesProbe(p)}

\* The histories, as p executes op.
Remember(p, op) ==
    /\ late' = CASE op = "half" -> FALSE
                 [] op \in {"f_era", "f_tripped"} -> late \/ cb.state = "half-open"
                 [] OTHER -> late
    /\ robbed' = CASE op \in {"s_probing", "f_probing"} -> ProbesOut
                   [] op = "flight" -> robbed \ {p}
                   [] OTHER -> robbed

\* Goroutine p executes op: the atomics become new, and p goes on as then.
Do(p, op, new, then) ==
    /\ caller[p].op = op
    /\ cb' = new
    /\ caller' = [caller EXCEPT ![p] = then]
    /\ Remember(p, op)

-----------------------------------------------------------------------------
(* Allow *)

AllowState(p) ==
    /\ calls < MaxCalls
    /\ calls' = calls + 1
    /\ Do(p, "out", cb, CASE cb.state = "closed" -> Goto(p, "token")
                          [] cb.state = "open" -> Goto(p, "elapsed")
                          [] cb.state = "half-open" -> Outside)

AllowToken(p) == Do(p, "token", cb, [op |-> "flight", token |-> cb.generation, probe |-> FALSE])

AllowElapsed(p) == Do(p, "elapsed", cb, IF cb.cooled THEN Goto(p, "probe") ELSE Outside)

\* Mutant: the flag is stored, not swapped.
AllowProbeStore(p) == Do(p, "probe", [cb EXCEPT !.probing = TRUE], Goto(p, "half"))

AllowProbe(p) == Do(p, "probe", [cb EXCEPT !.probing = TRUE],
                    IF cb.probing THEN Outside ELSE Goto(p, "half"))

AllowHalfOpen(p) == Do(p, "half", [cb EXCEPT !.state = "half-open"], Goto(p, "newera"))

AllowNewEra(p) == Do(p, "newera", [cb EXCEPT !.generation = @ + 1],
                     [op |-> "flight", token |-> cb.generation + 1, probe |-> TRUE])

Allow(p) ==
    \/ AllowToken(p)
    \/ AllowElapsed(p)
    \/ AllowProbe(p)
    \/ AllowHalfOpen(p)
    \/ AllowNewEra(p)

-----------------------------------------------------------------------------
(* RecordSuccess and RecordFailure, from the target's answer on *)

\* The first line of both.
Current(p, next) == IF cb.generation = caller[p].token THEN Goto(p, next) ELSE Outside

SuccessState(p) ==
    Do(p, "s_state", cb, Goto(p, IF cb.state = "half-open" THEN "s_close" ELSE "s_failures"))

SuccessClose(p) ==
    Do(p, "s_close", [cb EXCEPT !.state = IF @ = "half-open" THEN "closed" ELSE @],
       Goto(p, "s_probing"))

SuccessProbing(p) == Do(p, "s_probing", [cb EXCEPT !.probing = FALSE], Goto(p, "s_failures"))

SuccessFailures(p) == Do(p, "s_failures", [cb EXCEPT !.failures = 0], Outside)

RecordSuccess(p) ==
    \/ Do(p, "flight", cb, Current(p, "s_state"))
    \/ SuccessState(p)
    \/ SuccessClose(p)
    \/ SuccessProbing(p)
    \/ SuccessFailures(p)

\* Mutant: a failed probe is counted like any failure.
FailureAlwaysCounts(p) == Do(p, "f_state", cb, Goto(p, "f_count"))

FailureState(p) ==
    Do(p, "f_state", cb, Goto(p, IF cb.state = "half-open" THEN "f_opened" ELSE "f_count"))

ProbeOpenedAt(p) == Do(p, "f_opened", [cb EXCEPT !.cooled = FALSE], Goto(p, "f_open"))

ProbeOpen(p) == Do(p, "f_open", [cb EXCEPT !.state = "open"], Goto(p, "f_era"))

ProbeEra(p) == Do(p, "f_era", [cb EXCEPT !.generation = @ + 1], Goto(p, "f_probing"))

\* Mutant: the probe's failure leaves the reservation.
ProbeKeepsProbing(p) == Do(p, "f_probing", cb, Outside)

ProbeDone(p) == Do(p, "f_probing", [cb EXCEPT !.probing = FALSE], Outside)

FailureCount(p) ==
    Do(p, "f_count", [cb EXCEPT !.failures = @ + 1],
       IF cb.failures + 1 >= Threshold THEN Goto(p, "f_reopened") ELSE Outside)

TripOpenedAt(p) == Do(p, "f_reopened", [cb EXCEPT !.cooled = FALSE], Goto(p, "f_trip"))

Trip(p) ==
    Do(p, "f_trip", [cb EXCEPT !.state = IF @ = "closed" THEN "open" ELSE @],
       IF cb.state = "closed" THEN Goto(p, "f_tripped") ELSE Outside)

TripEra(p) == Do(p, "f_tripped", [cb EXCEPT !.generation = @ + 1], Outside)

RecordFailure(p) ==
    \/ Do(p, "flight", cb, Current(p, "f_state"))
    \/ FailureState(p)
    \/ ProbeOpenedAt(p)
    \/ ProbeOpen(p)
    \/ ProbeEra(p)
    \/ ProbeDone(p)
    \/ FailureCount(p)
    \/ TripOpenedAt(p)
    \/ Trip(p)
    \/ TripEra(p)

CoolDown ==
    /\ ~cb.cooled
    /\ Stalls = "long" \/ AtRest
    /\ cb' = [cb EXCEPT !.cooled = TRUE]
    /\ UNCHANGED <<caller, late, robbed>>

Next ==
    \/ \E p \in Callers : AllowState(p)
    \/ /\ CoolDown \/ \E p \in Callers : Allow(p) \/ RecordSuccess(p) \/ RecordFailure(p)
       /\ UNCHANGED calls

Spec == Init /\ [][Next]_vars

-----------------------------------------------------------------------------
(* Properties *)

\* A half-open breaker waits for somebody: a request is in flight whose result
\* will be accepted.  Without one no Allow is ever admitted again, since
\* half-open refuses everybody ("admits one probe after `resetTimeout`").
NotWedged ==
    AtRest /\ cb.state = "half-open" =>
        \E p \in Callers : caller[p].op = "flight" /\ caller[p].token = cb.generation

\* The one way to get there: since Allow set half-open, a goroutine that was
\* still inside RecordFailure of an earlier era has raised the generation (lines
\* 82 and 89 store the state first and the generation later), so that the probe
\* carries a stale token.  However the methods interleave, nothing else wedges
\* the breaker.
WedgedOnlyByLateEra ==
    AtRest /\ cb.state = "half-open" =>
        \/ \E p \in Callers : caller[p].op = "flight" /\ caller[p].token = cb.generation
        \/ late

\* "exactly one probe": of two probes that are out together, one has lost its
\* reservation to another goroutine's report, which releases `probing` for
\* whoever holds it.  However the methods interleave, two Allows never reserve
\* the probe by themselves.
SecondProbeOnlyAfterRelease ==
    \A p, q \in ProbesOut : p # q => p \in robbed \/ q \in robbed

\* An open breaker at rest has no probe reserved, so that the first Allow after
\* the reset timeout gets through.  Holds however the methods interleave.
OpenAdmitsProbe == AtRest /\ cb.state = "open" => ~cb.probing
=============================================================================
