------------------------------ MODULE Lifecycle ------------------------------
(***************************************************************************)
(* Running and stopping the service: lifecycle.Supervisor.Run around the   *)
(* HTTP server, the worker pool's loop (worker.Pool.Start) and the         *)
(* periodic processes (worker.runPeriodic, main.runSweep), as main.run     *)
(* composes them.  A delivery is its remaining time.                       *)
(*                                                                         *)
(* Goroutines that can run do so before time passes; what takes time is    *)
(* BRPOP, a delivery, an HTTP handler, Shutdown, a periodic pass and the   *)
(* wait for the next one.                                                  *)
(***************************************************************************)
EXTENDS Integers

CONSTANTS
    Goroutines,    \* the pool's goroutines, WORKER_CONCURRENCY of them
    Periodic,      \* the periodic processes
    DrainTimeout,  \* DRAIN_TIMEOUT, in ticks
    BrpopTimeout,  \* brpopTimeout, in ticks
    MaxHandlers    \* bound: HTTP requests at a time

ASSUME LifecycleAssumption ==
    /\ Goroutines # {}
    /\ DrainTimeout \in Nat \ {0} /\ BrpopTimeout \in Nat \ {0}
    /\ MaxHandlers \in Nat

VARIABLES
    ctx,       \* groupCtx
    elapsed,   \* history: ticks since it was cancelled, up to one past DrainBound
    late,      \* history: deliveries begun after that
    loop,      \* Pool.Start: next step, ticks left of BRPOP
    delivery,  \* per goroutine: ticks to its deadline, or Idle
    server,    \* ListenAndServe
    closer,    \* the goroutine that calls Shutdown: next step, ticks left
    handlers,  \* HTTP requests under way
    periodic,  \* per periodic process
    result     \* what Run has returned

poolVars == <<loop, delivery, late>>
serverVars == <<server, closer, handlers>>
lifecycleVars == <<ctx, elapsed, poolVars, serverVars, periodic, result>>

Idle == -1

Delivering(g) == delivery[g] # Idle

\* An id popped in the last BRPOP, or waiting for a goroutine until the last
\* delivery of before has ended, starts with a deadline of its own.
DrainBound ==
    DrainTimeout + (IF BrpopTimeout > DrainTimeout THEN BrpopTimeout ELSE DrainTimeout)

LifecycleTypeOK ==
    /\ ctx \in {"live", "cancelled"} /\ elapsed \in 0..(DrainBound + 1) /\ late \in Nat
    /\ loop \in [pc: {"check", "pop", "go", "wait", "done"}, left: 0..BrpopTimeout]
    /\ delivery \in [Goroutines -> Idle..DrainTimeout]
    /\ server \in {"serving", "closed", "failed"}
    /\ closer \in [pc: {"waiting", "closing", "ok", "timeout"}, left: 0..DrainTimeout]
    /\ handlers \in 0..MaxHandlers
    /\ periodic \in [Periodic -> {"waiting", "due", "running", "done"}]
    /\ result \in {"none", "ok", "error"}

\* Two processes run a pass at once (runAtStart), the others wait for a tick.
LifecycleInit ==
    /\ ctx = "live" /\ elapsed = 0 /\ late = 0
    /\ loop = [pc |-> "check", left |-> 0]
    /\ delivery = [g \in Goroutines |-> Idle]
    /\ server = "serving" /\ closer = [pc |-> "waiting", left |-> 0] /\ handlers = 0
    /\ periodic \in [Periodic -> {"waiting", "running"}]
    /\ result = "none"

-----------------------------------------------------------------------------
(* worker/pool.go *)

LoopGo(pc) == loop' = [loop EXCEPT !.pc = pc]

\* Mutant: ctx is looked at only when the queue is empty.
CheckContextRarely ==
    /\ loop.pc = "check"
    /\ loop' = IF ctx = "live" \/ loop.left > 0
               THEN [pc |-> "pop", left |-> BrpopTimeout] ELSE [pc |-> "wait", left |-> 0]
    /\ UNCHANGED <<ctx, elapsed, delivery, late, serverVars, periodic, result>>

CheckContext ==
    /\ loop.pc = "check"
    /\ loop' = IF ctx = "live" THEN [pc |-> "pop", left |-> BrpopTimeout]
                               ELSE [pc |-> "wait", left |-> 0]
    /\ UNCHANGED <<ctx, elapsed, delivery, late, serverVars, periodic, result>>

\* BRPOP answers with an id.
DequeueId ==
    /\ loop.pc = "pop"
    /\ LoopGo("go")
    /\ UNCHANGED <<ctx, elapsed, delivery, late, serverVars, periodic, result>>

\* ErrQueueEmpty after the timeout, or an error at any time (an id it took then
\* is left to the recovery scan).
DequeueNothing ==
    /\ loop.pc = "pop"
    /\ LoopGo("check")
    /\ UNCHANGED <<ctx, elapsed, delivery, late, serverVars, periodic, result>>

\* g.Go blocks while all goroutines are busy, whether ctx is cancelled or not.
StartDelivery(g) ==
    /\ loop.pc = "go"
    /\ ~Delivering(g)
    /\ delivery' = [delivery EXCEPT ![g] = DrainTimeout]
    /\ LoopGo("check")
    /\ late' = IF ctx = "live" THEN late ELSE late + 1
    /\ UNCHANGED <<ctx, elapsed, serverVars, periodic, result>>

\* g.Wait.
AwaitDeliveries ==
    /\ loop.pc = "wait"
    /\ \A g \in Goroutines : ~Delivering(g)
    /\ LoopGo("done")
    /\ UNCHANGED <<ctx, elapsed, delivery, late, serverVars, periodic, result>>

Pool ==
    \/ CheckContext
    \/ DequeueId
    \/ DequeueNothing
    \/ \E g \in Goroutines : StartDelivery(g)
    \/ AwaitDeliveries

\* Process returns, by the deadline of its context.
EndDelivery(g) ==
    /\ Delivering(g)
    /\ delivery' = [delivery EXCEPT ![g] = Idle]
    /\ UNCHANGED <<ctx, elapsed, loop, late, serverVars, periodic, result>>

-----------------------------------------------------------------------------
(* worker/periodic.go and main.runSweep *)

\* The select takes the tick, also if ctx is done as well.
StartPass(p) ==
    /\ periodic[p] = "due"
    /\ periodic' = [periodic EXCEPT ![p] = "running"]
    /\ UNCHANGED <<ctx, elapsed, poolVars, serverVars, result>>

EndPass(p) ==
    /\ periodic[p] = "running"
    /\ periodic' = [periodic EXCEPT ![p] = "waiting"]
    /\ UNCHANGED <<ctx, elapsed, poolVars, serverVars, result>>

StopProcess(p) ==
    /\ periodic[p] \in {"waiting", "due"}
    /\ ctx = "cancelled"
    /\ periodic' = [periodic EXCEPT ![p] = "done"]
    /\ UNCHANGED <<ctx, elapsed, poolVars, serverVars, result>>

PeriodicStep(p) == StartPass(p) \/ EndPass(p) \/ StopProcess(p)

-----------------------------------------------------------------------------
(* lifecycle/supervisor.go and net/http *)

\* SIGINT or SIGTERM.
Signal ==
    /\ ctx = "live"
    /\ ctx' = "cancelled"
    /\ UNCHANGED <<elapsed, poolVars, serverVars, periodic, result>>

\* Mutant: the goroutine returns nil and does not cancel its peers.
ListenFailsAlone ==
    /\ server = "serving"
    /\ server' = "failed"
    /\ UNCHANGED <<ctx, elapsed, poolVars, closer, handlers, periodic, result>>

\* ListenAndServe returns an error: the goroutine cancels its peers.
ListenFails ==
    /\ server = "serving"
    /\ server' = "failed"
    /\ ctx' = "cancelled"
    /\ UNCHANGED <<elapsed, poolVars, closer, handlers, periodic, result>>

Accept ==
    /\ server = "serving" /\ handlers < MaxHandlers
    /\ handlers' = handlers + 1
    /\ UNCHANGED <<ctx, elapsed, poolVars, server, closer, periodic, result>>

Answer ==
    /\ handlers > 0
    /\ handlers' = handlers - 1
    /\ UNCHANGED <<ctx, elapsed, poolVars, server, closer, periodic, result>>

\* Shutdown closes the listeners, and ListenAndServe returns ErrServerClosed.
StartShutdown ==
    /\ closer.pc = "waiting" /\ ctx = "cancelled"
    /\ closer' = [pc |-> "closing", left |-> DrainTimeout]
    /\ server' = IF server = "serving" THEN "closed" ELSE server
    /\ UNCHANGED <<ctx, elapsed, poolVars, handlers, periodic, result>>

\* Mutant: the deadline counts as success.
ShutdownGivesUpQuietly ==
    /\ closer.pc = "closing"
    /\ handlers = 0 \/ closer.left = 0
    /\ closer' = [pc |-> "ok", left |-> 0]
    /\ UNCHANGED <<ctx, elapsed, poolVars, server, handlers, periodic, result>>

\* Shutdown returns nil without requests, an error at its deadline.
EndShutdown ==
    /\ closer.pc = "closing"
    /\ \/ handlers = 0 /\ closer' = [pc |-> "ok", left |-> 0]
       \/ closer.left = 0 /\ closer' = [pc |-> "timeout", left |-> 0]
    /\ UNCHANGED <<ctx, elapsed, poolVars, server, handlers, periodic, result>>

\* g.Wait: every goroutine of the group has returned; main.run then closes the
\* connections to Redis and PostgreSQL.
Return ==
    /\ result = "none"
    /\ server # "serving" /\ closer.pc \in {"ok", "timeout"}
    /\ loop.pc = "done" /\ \A p \in Periodic : periodic[p] = "done"
    /\ result' = IF server = "failed" \/ closer.pc = "timeout" THEN "error" ELSE "ok"
    /\ UNCHANGED <<ctx, elapsed, poolVars, serverVars, periodic>>

-----------------------------------------------------------------------------
(* Time *)

\* No goroutine of the pool or the group can run.  Calls under groupCtx return
\* at once when it is cancelled; go-redis lets BRPOP run to its timeout.
AllWait ==
    /\ \A g \in Goroutines : delivery[g] # 0
    /\ CASE loop.pc = "check" -> FALSE
         [] loop.pc = "pop" -> loop.left > 0
         [] loop.pc = "go" -> \A g \in Goroutines : Delivering(g)
         [] loop.pc = "wait" -> \E g \in Goroutines : Delivering(g)
         [] OTHER -> TRUE
    /\ closer.pc = "waiting" => ctx = "live"
    /\ closer.pc = "closing" => closer.left > 0
    /\ \A p \in Periodic : /\ periodic[p] # "due"
                           /\ ctx = "cancelled" => periodic[p] = "done"

\* One tick.  The tickers of the processes in fired are due.
PassTime(fired) ==
    /\ AllWait
    /\ \A p \in fired : periodic[p] = "waiting"
    /\ periodic' = [p \in Periodic |-> IF p \in fired THEN "due" ELSE periodic[p]]
    /\ elapsed' = IF ctx = "cancelled" /\ elapsed <= DrainBound THEN elapsed + 1 ELSE elapsed
    /\ delivery' = [g \in Goroutines |-> IF Delivering(g) THEN delivery[g] - 1 ELSE Idle]
    /\ loop' = IF loop.pc = "pop" THEN [loop EXCEPT !.left = @ - 1] ELSE loop
    /\ closer' = IF closer.pc = "closing" THEN [closer EXCEPT !.left = @ - 1] ELSE closer
    /\ UNCHANGED <<ctx, late, server, handlers, result>>

LifecycleNext ==
    \/ Pool
    \/ \E g \in Goroutines : EndDelivery(g)
    \/ \E p \in Periodic : PeriodicStep(p)
    \/ Signal \/ ListenFails \/ Accept \/ Answer
    \/ StartShutdown \/ EndShutdown \/ Return
    \/ \E fired \in SUBSET Periodic : PassTime(fired)

\* Goroutines are scheduled, calls return by their deadlines and time passes.
\* Nothing makes a handler, a request or a signal come to its end.
LifecycleFairness ==
    /\ WF_lifecycleVars(Pool) /\ \A g \in Goroutines : WF_lifecycleVars(EndDelivery(g))
    /\ \A p \in Periodic : WF_lifecycleVars(PeriodicStep(p))
    /\ WF_lifecycleVars(StartShutdown) /\ WF_lifecycleVars(EndShutdown) /\ WF_lifecycleVars(Return)
    /\ WF_lifecycleVars(\E fired \in SUBSET Periodic : PassTime(fired))

LifecycleSpec == LifecycleInit /\ [][LifecycleNext]_lifecycleVars /\ LifecycleFairness

-----------------------------------------------------------------------------

\* Once ctx is cancelled the pool is done within DrainBound: although an id may
\* be popped, or wait for a goroutine, after the cancellation, at most one
\* delivery begins then ("stop *dequeuing*", pool.go:52), with a fresh deadline.
DrainBounded ==
    /\ late <= 1
    /\ loop.pc # "done" => elapsed <= DrainBound

\* No delivery and no periodic pass outlives Run, after which the connections are
\* closed; a handler may (Shutdown's deadline), and then Run returns an error.
CleanExit ==
    /\ result # "none" => /\ \A g \in Goroutines : ~Delivering(g)
                          /\ \A p \in Periodic : periodic[p] = "done"
    /\ result = "ok" => handlers = 0

\* "Any long-lived component exit cancels its peers": once the server has failed
\* or a signal has come, Run returns.
StopsAsAWhole == (server # "serving" \/ ctx = "cancelled") ~> result # "none"
=============================================================================
