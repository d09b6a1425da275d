--------------------------- MODULE DeliveryControls ---------------------------
(***************************************************************************)
(* The runtime controls around an HTTP attempt, as Deliverer.Process uses  *)
(* them: the subscription's semaphore first, the target's breaker second.  *)
(* Every goroutine that delivers is a caller of the breaker.               *)
(***************************************************************************)
EXTENDS Permits, CircuitBreaker

ASSUME ControlsAssumption == Callers = Goroutines

breakerVars == <<cb, caller, calls, late, robbed>>
controlVars == <<permitVars, breakerVars>>

ControlsTypeOK == PermitsTypeOK /\ TypeOK

ControlsInit == PermitsInit /\ Init

\* Process continues when the breaker's method has returned.
Continue(g, admitted, otherwise) ==
    /\ job' = [job EXCEPT ![g].pc = CASE caller'[g].op = "flight" -> admitted
                                      [] caller'[g].op = "out" -> otherwise
                                      [] OTHER -> @]
    /\ UNCHANGED <<sub, slot, tokens, retired>>

AskBreaker(g) ==
    /\ At(g, "allow")
    /\ AllowState(g) \/ (Allow(g) /\ UNCHANGED calls)
    /\ Continue(g, "send", "release")

ReportToBreaker(g) ==
    /\ At(g, "send")
    /\ \/ RecordSuccess(g) /\ Continue(g, "send", "release")
       \/ RecordFailure(g) /\ Continue(g, "send", "failed")
    /\ UNCHANGED calls

ControlsNext ==
    \/ \E g \in Goroutines : AskBreaker(g) \/ ReportToBreaker(g)
    \/ /\ \/ \E g \in Goroutines : Deliver(g)
          \/ UpdateSubscription
          \/ DeleteSubscription
          \/ Sweep
          \/ PermitsTick
       /\ UNCHANGED breakerVars
    \/ CoolDown /\ UNCHANGED <<permitVars, calls>>

ControlsSpec == ControlsInit /\ [][ControlsNext]_controlVars
=============================================================================
