-------------------------------- MODULE Ingest --------------------------------
(***************************************************************************)
(* Admission of a webhook in time: handleIngest with verifyIngest (drift   *)
(* window, secret rotation with its grace window), the rate limit and the  *)
(* idempotency keys, which are pruned.  The sender may send a signed       *)
(* request again, and the network may duplicate or delay it.               *)
(*                                                                         *)
(* The drift window is compared in whole seconds, everything else at the   *)
(* resolution of a tick.  Ages are capped where nothing tells them apart.  *)
(***************************************************************************)
EXTENDS TokenBucket, FiniteSets

CONSTANTS
    Handlers,              \* HTTP handlers
    Requests,              \* signed requests, each with an idempotency key
    SignatureDriftWindow,  \* SIGNATURE_DRIFT_WINDOW, in seconds
    SecretGraceWindow,     \* SECRET_GRACE_WINDOW, in ticks
    IdempotencyTTL,        \* IDEMPOTENCY_TTL, in ticks
    MaxSkew,               \* bound: the sender's clock differs by so many seconds
    HandlingTime,          \* bound: ticks from a handler's start to its insert
    MaxRotations           \* bound: rotations of the secret

ASSUME IngestAssumption ==
    /\ SignatureDriftWindow \in Nat \ {0} /\ SecretGraceWindow \in Nat
    /\ IdempotencyTTL \in Nat \ {0} /\ IdempotencyTTL >= SignatureDriftWindow * TicksPerSecond
    /\ MaxSkew \in Nat /\ HandlingTime \in Nat /\ MaxRotations \in Nat
    /\ Requests # {} /\ IsFiniteSet(Handlers)

VARIABLES
    phase,     \* ticks into the current second
    request,   \* per request: Unix time minus its timestamp, secret it is signed with
    rotated,   \* per version of the secret: ticks since it was installed
    version,   \* secret_key; previous_secret_key is the one before
    keys,      \* per request: ticks since its ingest_idempotency row, or Absent
    handler,   \* per handler: next step, request, secret it has read, ticks left
    accepted,  \* history: deliveries created per request
    refused    \* history: rotations between the signing and a refused signature

ingestVars == <<phase, request, rotated, version, keys, handler, accepted, refused>>
vars == <<bucketVars, ingestVars>>

Absent == -1

Unsigned == [signed |-> FALSE, age |-> 0, secret |-> 0]

NoHandler == [pc |-> "idle", req |-> CHOOSE r \in Requests : TRUE, secret |-> 0, left |-> 0]

\* int64(d.Seconds()), at least 1; in ticks.
secondsArg(d) ==
    (IF d \div TicksPerSecond < 1 THEN 1 ELSE d \div TicksPerSecond) * TicksPerSecond

TypeOK ==
    /\ BucketTypeOK
    /\ phase \in 0..(TicksPerSecond - 1)
    /\ request \in [Requests -> [signed: BOOLEAN, age: -MaxSkew..(SignatureDriftWindow + MaxSkew + 1),
                                 secret: 0..MaxRotations]]
    /\ version \in 0..MaxRotations
    /\ rotated \in [0..MaxRotations -> 0..SecretGraceWindow]
    /\ keys \in [Requests -> Absent..(secondsArg(IdempotencyTTL) + 1)]
    /\ handler \in [Handlers -> [pc: {"idle", "verify", "charge", "stray", "insert"}, req: Requests,
                                 secret: 0..MaxRotations, left: 0..HandlingTime]]
    /\ accepted \in [Requests -> Nat]
    /\ refused \in [Requests -> SUBSET (0..MaxRotations)]

\* The first secret is as old as can be.
Init ==
    /\ BucketInit
    /\ phase = 0
    /\ request = [r \in Requests |-> Unsigned]
    /\ version = 0 /\ rotated = [v \in 0..MaxRotations |-> SecretGraceWindow]
    /\ keys = [r \in Requests |-> Absent]
    /\ handler = [h \in Handlers |-> NoHandler]
    /\ accepted = [r \in Requests |-> 0]
    /\ refused = [r \in Requests |-> {}]

-----------------------------------------------------------------------------
(* The sender, and the administrator who rotates its secret *)

\* The sender signs with the secret in force and the time its own clock shows.
Sign(r) ==
    /\ ~request[r].signed
    /\ \E skew \in -MaxSkew..MaxSkew :
        request' = [request EXCEPT ![r] = [signed |-> TRUE, age |-> skew, secret |-> version]]
    /\ UNCHANGED <<bucketVars, phase, rotated, version, keys, handler, accepted, refused>>

RotateSecret ==
    /\ version < MaxRotations
    /\ version' = version + 1
    /\ rotated' = [rotated EXCEPT ![version + 1] = 0]
    /\ UNCHANGED <<bucketVars, phase, request, keys, handler, accepted, refused>>

-----------------------------------------------------------------------------
(* handleIngest *)

Goto(h, pc) == handler' = [handler EXCEPT ![h].pc = pc]

Done(h) == handler' = [handler EXCEPT ![h] = NoHandler]

\* GetByID, which answers what is committed (SubscriptionState has the cache it
\* goes through); the body is read afterwards.
Arrive(h, r) ==
    /\ handler[h].pc = "idle"
    /\ request[r].signed
    /\ handler' = [handler EXCEPT ![h] =
            [pc |-> "verify", req |-> r, secret |-> version, left |-> HandlingTime]]
    /\ UNCHANGED <<bucketVars, phase, request, rotated, version, keys, accepted, refused>>

InDriftWindow(r) ==
    request[r].age \in -SignatureDriftWindow..SignatureDriftWindow

\* Mutant: no grace.
VerifiesCurrentOnly(h, r) == request[r].secret = handler[h].secret

\* The message was signed with the secret read, or with the one before it and
\* the grace window is open.
Verifies(h, r) ==
    \/ request[r].secret = handler[h].secret
    \/ /\ request[r].secret = handler[h].secret - 1
       /\ rotated[handler[h].secret] < SecretGraceWindow

verifyIngest(h) ==
    LET r == handler[h].req
    IN  /\ handler[h].pc = "verify"
        /\ \/ /\ ~InDriftWindow(r)
              /\ Done(h)
              /\ UNCHANGED refused
           \/ /\ InDriftWindow(r) /\ Verifies(h, r)
              /\ Goto(h, "charge")
              /\ UNCHANGED refused
           \/ /\ InDriftWindow(r) /\ ~Verifies(h, r)
              /\ Done(h)
              /\ refused' = [refused EXCEPT ![r] = @ \cup {handler[h].secret - request[r].secret}]
        /\ UNCHANGED <<bucketVars, phase, request, rotated, version, keys, accepted>>

\* The quota is charged after authentication; a request over it, with a payload
\* that is not JSON or with an event that is filtered goes no further.
RateLimitAllow(h) ==
    /\ handler[h].pc \in {"charge", "stray"}
    /\ \E admitted \in BOOLEAN :
        /\ AllowRequest(admitted) \/ (handler[h].pc = "stray" /\ AllowRemoved(admitted))
        /\ Done(h) \/ (admitted /\ Goto(h, "insert"))
    /\ UNCHANGED <<phase, request, rotated, version, keys, accepted, refused>>

\* Mutant: a conflict of keys updates the row, and counts as an insert.
IngestOnConflictUpdate(h) ==
    LET r == handler[h].req
    IN  /\ handler[h].pc = "insert"
        /\ keys' = [keys EXCEPT ![r] = 0]
        /\ accepted' = [accepted EXCEPT ![r] = @ + 1]
        /\ Done(h)
        /\ UNCHANGED <<bucketVars, phase, request, rotated, version, refused>>

\* The transaction: a key that is there makes the request a duplicate.
IngestPending(h) ==
    LET r == handler[h].req
    IN  /\ handler[h].pc = "insert"
        /\ IF keys[r] = Absent
           THEN /\ keys' = [keys EXCEPT ![r] = 0]
                /\ accepted' = [accepted EXCEPT ![r] = @ + 1]
           ELSE UNCHANGED <<keys, accepted>>
        /\ Done(h)
        /\ UNCHANGED <<bucketVars, phase, request, rotated, version, refused>>

\* The cleanup worker, at any time.
PruneIdempotency ==
    /\ keys' = [r \in Requests |->
            IF keys[r] > secondsArg(IdempotencyTTL) THEN Absent ELSE keys[r]]
    /\ UNCHANGED <<bucketVars, phase, request, rotated, version, handler, accepted, refused>>

-----------------------------------------------------------------------------

Sweep ==
    /\ SweepBucket
    /\ UNCHANGED ingestVars

\* resetRuntime.  A handler that is about to charge the quota may already hold the
\* bucket that is removed.  The subscription can be active again at once.
ResetRuntime ==
    /\ ResetBucket
    /\ handler' = [h \in Handlers |->
            IF handler[h].pc = "charge" THEN [handler[h] EXCEPT !.pc = "stray"] ELSE handler[h]]
    /\ UNCHANGED <<phase, request, rotated, version, keys, accepted, refused>>

Tick ==
    /\ \A h \in Handlers : handler[h].pc # "idle" => handler[h].left > 0
    /\ BucketTick
    /\ phase' = (phase + 1) % TicksPerSecond
    /\ request' = [r \in Requests |->
            IF request[r].signed /\ phase' = 0 /\ request[r].age <= SignatureDriftWindow
            THEN [request[r] EXCEPT !.age = @ + 1] ELSE request[r]]
    /\ rotated' = [v \in DOMAIN rotated |-> Least(SecretGraceWindow, rotated[v] + 1)]
    /\ keys' = [r \in Requests |-> IF keys[r] = Absent THEN Absent
                                   ELSE Least(secondsArg(IdempotencyTTL) + 1, keys[r] + 1)]
    /\ handler' = [h \in Handlers |-> IF handler[h].pc = "idle" THEN handler[h]
                                      ELSE [handler[h] EXCEPT !.left = @ - 1]]
    /\ UNCHANGED <<version, accepted, refused>>

Next ==
    \/ \E r \in Requests : Sign(r) \/ \E h \in Handlers : Arrive(h, r)
    \/ \E h \in Handlers : verifyIngest(h) \/ RateLimitAllow(h) \/ IngestPending(h)
    \/ RotateSecret
    \/ PruneIdempotency
    \/ Sweep
    \/ ResetRuntime
    \/ Tick

Spec == Init /\ [][Next]_vars

-----------------------------------------------------------------------------

\* A request passes the drift window less than so many ticks after its signing: a
\* timestamp of the future, the window and the second that is cut off.
Lifetime == (MaxSkew + SignatureDriftWindow + 1) * TicksPerSecond

\* However often a signed request is sent, delayed or duplicated, it creates one
\* delivery, and another for each IDEMPOTENCY_TTL (in whole seconds, and the tick
\* after which the key is pruned) that fits into its lifetime and the handling of a
\* copy.  So it creates one if the TTL covers these; validate (config.go:189) asks
\* for the drift window alone, and at the defaults, where the two are equal, there
\* can be two.
AcceptedSeldom ==
    \A r \in Requests : accepted[r] >= 1 =>
        (accepted[r] - 1) * (secondsArg(IdempotencyTTL) + 1) <= Lifetime + HandlingTime - 1

\* A request signed with the secret in force is refused for its signature only
\* after two rotations since, however late it arrives inside the drift window:
\* the one previous secret that is kept covers a single rotation.
RefusedOnlyAfterTwo ==
    SecretGraceWindow >= Lifetime => \A r \in Requests : refused[r] \cap {0, 1} = {}

\* The limiter admits no more than the exact rate and burst: rounding and the sweep,
\* after which the next request finds a full bucket, never add a token.  Only a
\* reset does: a burst, and a request for every handler that held the old bucket.
OverIdealOnlyByResets ==
    SweepFills => Held <= ideal + resets * (Full + Cardinality(Handlers) * Token)
=============================================================================
