--------------------------- MODULE Health_proofs ---------------------------
(***************************************************************************)
(* Proofs about src/health: the circuit breaker, for every threshold and   *)
(* recovery timeout, and the health checker, for every finite set of       *)
(* backends.                                                               *)
(***************************************************************************)
EXTENDS CircuitBreakerHistory, Health, FiniteSetTheorems, TLAPS
-----------------------------------------------------------------------------
(* The circuit breaker. *)

\* A breaker method applied to a breaker yields a breaker.
LEMMA BreakerOpsTyped ==
  ASSUME NEW recovery \in Nat, NEW threshold \in Nat, NEW b \in Breaker(recovery)
  PROVE  /\ AllowRequest(b, recovery) \in Breaker(recovery)
         /\ RecordSuccess(b) \in Breaker(recovery)
         /\ RecordFailure(b, threshold) \in Breaker(recovery)
         /\ BreakerTick(b, recovery) \in Breaker(recovery)
<1>. USE DEF Breaker, CircuitState, Never
<1>1. AllowRequest(b, recovery) \in Breaker(recovery)
  BY DEF AllowRequest
<1>2. RecordSuccess(b) \in Breaker(recovery)
  BY DEF RecordSuccess
<1>3. RecordFailure(b, threshold) \in Breaker(recovery)
  <2>1. /\ b.failure_count + 1 \in Nat
        /\ 0 \in {Never} \cup 0..recovery
        /\ (IF b.failure_count + 1 >= threshold THEN "Open" ELSE b.state)
             \in CircuitState
    OBVIOUS
  <2>2. QED
    BY <2>1 DEF RecordFailure
<1>4. BreakerTick(b, recovery) \in Breaker(recovery)
  BY DEF BreakerTick
<1>5. QED
  BY <1>1, <1>2, <1>3, <1>4

\* The fields of a breaker have their types.
LEMMA BreakerFields ==
  ASSUME NEW recovery \in Nat, NEW b \in Breaker(recovery)
  PROVE  /\ b.state \in CircuitState
         /\ b.failure_count \in Nat
         /\ b.since_failure \in {Never} \cup 0..recovery
         /\ b.since_failure \in Int
BY DEF Breaker, Never

\* What each method does to each field.
LEMMA SuccessEffect ==
  ASSUME NEW recovery \in Nat, NEW b \in Breaker(recovery)
  PROVE  RecordSuccess(b).state = "Closed" /\ RecordSuccess(b).failure_count = 0
BY DEF RecordSuccess, Breaker

\* What record_failure does to each field.
LEMMA FailureEffect ==
  ASSUME NEW recovery \in Nat, NEW threshold \in Nat, NEW b \in Breaker(recovery)
  PROVE  /\ RecordFailure(b, threshold).failure_count = b.failure_count + 1
         /\ RecordFailure(b, threshold).since_failure = 0
         /\ RecordFailure(b, threshold).state =
              IF b.failure_count + 1 >= threshold THEN "Open" ELSE b.state
BY DEF RecordFailure, Breaker

\* What a tick does to each field.
LEMMA TickEffect ==
  ASSUME NEW recovery \in Nat, NEW b \in Breaker(recovery)
  PROVE  /\ BreakerTick(b, recovery).state = b.state
         /\ BreakerTick(b, recovery).failure_count = b.failure_count
         /\ b.since_failure # Never =>
              /\ BreakerTick(b, recovery).since_failure # Never
              /\ BreakerTick(b, recovery).since_failure <= b.since_failure + 1
<1>1. /\ BreakerTick(b, recovery).state = b.state
      /\ BreakerTick(b, recovery).failure_count = b.failure_count
  BY DEF BreakerTick, Breaker
<1>2. b.since_failure # Never =>
         /\ BreakerTick(b, recovery).since_failure # Never
         /\ BreakerTick(b, recovery).since_failure <= b.since_failure + 1
  BY DEF BreakerTick, Breaker, Never
<1>3. QED
  BY <1>1, <1>2
-----------------------------------------------------------------------------
\* Type correctness of the breaker and its caller, for any constants.
THEOREM BreakerTypeCorrect == Spec => []TypeOK
<1>1. Init => TypeOK
  BY DEF Init, TypeOK, NewBreaker, Breaker, CircuitState, Never
<1>2. TypeOK /\ [Next]_vars => TypeOK'
  BY BreakerOpsTyped, ThresholdAssumption, RecoveryAssumption
     DEF TypeOK, Next, vars, Admit, Succeed, Fail, Tick
<1>3. QED
  BY <1>1, <1>2, PTL DEF Spec
-----------------------------------------------------------------------------
(* The inductive invariant of a breaker with one caller.  An Open circuit
   has no call in flight (allow_request refused, or moved to HalfOpen), so
   a Closed breaker is the only one whose count is below the trip count. *)
TripInv ==
  /\ TypeOK
  /\ cb.state = "Closed" => cb.failure_count < TripCount
  /\ cb.state # "Closed" => cb.failure_count >= TripCount
  /\ cb.state = "Open" => call = "idle" /\ cb.since_failure # Never
  /\ cb.state = "HalfOpen" => call = "inflight"

\* Every step of the dispatcher or the clock keeps TripInv.
LEMMA TripInvInductive == TripInv /\ [Next]_vars => TripInv'
<1>. SUFFICES ASSUME TripInv, [Next]_vars
              PROVE  TripInv'
  OBVIOUS
<1>. USE ThresholdAssumption DEF TripInv, TypeOK, TripCount
<1>0. /\ cb \in Breaker(RecoveryTimeout)
      /\ cb.state \in CircuitState
      /\ cb.failure_count \in Nat
  BY RecoveryAssumption, BreakerFields
<1>1. CASE Admit
  <2>1. cb' \in Breaker(RecoveryTimeout)
    BY <1>0, <1>1, BreakerOpsTyped, ThresholdAssumption, RecoveryAssumption DEF Admit
  <2>2. QED
    BY <1>0, <1>1, <2>1 DEF Admit, AllowRequest, Allows, Breaker, CircuitState
<1>2. CASE Succeed
  <2>1. /\ cb' \in Breaker(RecoveryTimeout)
        /\ cb'.state = "Closed" /\ cb'.failure_count = 0
    BY <1>0, <1>2, BreakerOpsTyped, SuccessEffect,
       ThresholdAssumption, RecoveryAssumption DEF Succeed
  <2>2. QED
    BY <1>0, <1>2, <2>1 DEF Succeed
<1>3. CASE Fail
  <2>1. /\ cb' \in Breaker(RecoveryTimeout)
        /\ cb'.failure_count = cb.failure_count + 1
        /\ cb'.since_failure = 0
        /\ cb'.state = IF cb.failure_count + 1 >= FailureThreshold
                         THEN "Open" ELSE cb.state
    BY <1>0, <1>3, BreakerOpsTyped, FailureEffect,
       ThresholdAssumption, RecoveryAssumption DEF Fail
  <2>2. QED
    BY <1>0, <1>3, <2>1 DEF Fail, CircuitState, Never
<1>4. CASE Tick
  <2>1. /\ cb' \in Breaker(RecoveryTimeout)
        /\ cb'.state = cb.state
        /\ cb'.failure_count = cb.failure_count
        /\ cb.since_failure # Never => cb'.since_failure # Never
    BY <1>0, <1>4, BreakerOpsTyped, TickEffect,
       ThresholdAssumption, RecoveryAssumption DEF Tick
  <2>2. QED
    BY <1>0, <1>4, <2>1 DEF Tick
<1>5. CASE UNCHANGED vars
  BY <1>5 DEF vars
<1>6. QED
  BY <1>1, <1>2, <1>3, <1>4, <1>5 DEF Next

\* TripInv is strong enough.
LEMMA TripInvImplies == TripInv => OpenIffTripped /\ OneProbeAtATime
BY ThresholdAssumption
   DEF TripInv, TypeOK, TripCount, OpenIffTripped, OneProbeAtATime,
       Breaker, CircuitState

\* A new breaker satisfies TripInv.
LEMMA TripInvInit == Init => TripInv
BY ThresholdAssumption
   DEF Init, TripInv, TypeOK, TripCount, NewBreaker, Breaker, CircuitState, Never

\* record_failure opens the circuit exactly at the threshold and an open
\* circuit can always be timed (allow_request, record_failure).
THEOREM TripCorrect == Spec => []OpenIffTripped
BY TripInvInit, TripInvInductive, TripInvImplies, PTL DEF Spec

\* With the serial caller, allow_request's HalfOpen arm never lets a second
\* call through.
THEOREM ProbeCorrect == Spec => []OneProbeAtATime
BY TripInvInit, TripInvInductive, TripInvImplies, PTL DEF Spec
-----------------------------------------------------------------------------
\* The breaker before a backend that goes up and down is a breaker: what holds
\* of Spec holds of the runs that measure the isolation.
LEMMA HistoryImplements == HSpec => Spec
<1>1. HInit => Init
  BY DEF HInit
<1>2. [HNext]_hvars => [Next]_vars
  BY DEF HNext, HAdmit, HSucceed, HFail, HTick, BackendFlips, hvars, Next, vars
<1>3. QED
  BY <1>1, <1>2, PTL DEF HSpec, Spec

\* One more probe costs one more recovery timeout.
LEMMA OneMore ==
  ASSUME NEW p \in Nat, NEW r \in Nat
  PROVE  (p + 1) * r = p * r + r /\ p * r \in Nat
OBVIOUS

\* A failed call records one more failure, and opens the circuit at the threshold.
LEMMA FailStep ==
  ASSUME cb \in Breaker(RecoveryTimeout), Fail
  PROVE  /\ cb' \in Breaker(RecoveryTimeout)
         /\ cb'.failure_count = cb.failure_count + 1
         /\ cb'.since_failure = 0
         /\ cb'.state = IF cb.failure_count + 1 >= FailureThreshold
                          THEN "Open" ELSE cb.state
<1>1. cb' = RecordFailure(cb, FailureThreshold)
  BY DEF Fail
<1>2. FailureThreshold \in Nat /\ RecoveryTimeout \in Nat
  BY ThresholdAssumption, RecoveryAssumption
<1>3. RecordFailure(cb, FailureThreshold) \in Breaker(RecoveryTimeout)
  BY <1>2, BreakerOpsTyped
<1>4. QED
  BY <1>1, <1>2, <1>3, FailureEffect

\* Every step keeps the account of probes paid for by recovery timeouts.
LEMMA IsolationInductive == IsolationInv /\ [HNext]_hvars => IsolationInv'
<1>. SUFFICES ASSUME IsolationInv, [HNext]_hvars
              PROVE  IsolationInv'
  OBVIOUS
<1>. USE ThresholdAssumption, RecoveryAssumption, MaxTicksAssumption
     DEF IsolationInv, IsolationBound, HTypeOK, TypeOK, Measured
<1>0. /\ cb \in Breaker(RecoveryTimeout)
      /\ cb.state \in CircuitState
      /\ cb.failure_count \in Nat
      /\ cb.since_failure \in Int
      /\ probes * RecoveryTimeout \in Nat
      /\ (probes + 1) * RecoveryTimeout = probes * RecoveryTimeout + RecoveryTimeout
  BY RecoveryAssumption, BreakerFields, OneMore
<1>1. CASE HAdmit
  <2>0. cb' \in Breaker(RecoveryTimeout)
    BY <1>0, <1>1, BreakerOpsTyped, ThresholdAssumption, RecoveryAssumption DEF HAdmit, Admit
  <2>1. CASE cb.state = "Open"
    <3>1. cb.since_failure = RecoveryTimeout
      BY <1>0, <1>1, <2>1
         DEF HAdmit, Admit, Allows, Recovered, Breaker, Never
    <3>2. Measured => (probes + 1) * RecoveryTimeout <= since_trip
      BY <1>0, <2>1, <3>1
    <3>3. cb'.state = "HalfOpen" /\ cb'.failure_count = cb.failure_count
      BY <1>0, <1>1, <2>1, <3>1
         DEF HAdmit, Admit, AllowRequest, Allows, Breaker
    <3>4. QED
      BY <1>0, <1>1, <2>0, <2>1, <3>2, <3>3 DEF HAdmit, Admit
  <2>2. CASE cb.state # "Open"
    <3>1. cb' = cb
      BY <1>1, <2>2 DEF HAdmit, Admit, AllowRequest
    <3>2. QED
      BY <1>0, <1>1, <2>0, <2>2, <3>1 DEF HAdmit, Admit, CircuitState
  <2>3. QED
    BY <2>1, <2>2
<1>2. CASE HSucceed
  <2>1. cb' \in Breaker(RecoveryTimeout) /\ cb'.state = "Closed"
    BY <1>0, <1>2, BreakerOpsTyped, SuccessEffect,
       ThresholdAssumption, RecoveryAssumption DEF HSucceed, Succeed
  <2>2. QED
    BY <1>0, <1>2, <2>1 DEF HSucceed, Succeed
<1>3. CASE HFail
  <2>1. /\ cb' \in Breaker(RecoveryTimeout)
        /\ cb'.failure_count = cb.failure_count + 1
        /\ cb'.since_failure = 0
        /\ cb'.state = IF cb.failure_count + 1 >= FailureThreshold
                         THEN "Open" ELSE cb.state
    BY ONLY <1>0, <1>3, FailStep DEF HFail
  <2>2. QED
    BY <1>0, <1>3, <2>1 DEF HFail, Fail, CircuitState, Never
<1>4. CASE HTick
  <2>1. /\ cb' \in Breaker(RecoveryTimeout)
        /\ cb'.state = cb.state
        /\ cb'.failure_count = cb.failure_count
        /\ cb.since_failure # Never =>
             cb'.since_failure # Never /\ cb'.since_failure <= cb.since_failure + 1
    BY <1>0, <1>4, BreakerOpsTyped, TickEffect,
       ThresholdAssumption, RecoveryAssumption DEF HTick, Tick
  <2>2. cb'.since_failure \in Int
    BY <2>1, RecoveryAssumption, BreakerFields
  <2>3. QED
    BY <1>0, <1>4, <2>1, <2>2 DEF HTick, Tick, CircuitState
<1>5. CASE BackendFlips
  BY <1>5 DEF BackendFlips
<1>6. CASE UNCHANGED hvars
  BY <1>6 DEF hvars
<1>7. QED
  BY <1>1, <1>2, <1>3, <1>4, <1>5, <1>6 DEF HNext

\* A failing backend is called at most once per recovery timeout after its
\* circuit trips, for every threshold and every recovery timeout.
THEOREM Isolation == HSpec => []IsolationBound
<1>1. HInit => IsolationInv
  BY RecoveryAssumption
     DEF HInit, Init, IsolationInv, IsolationBound, HTypeOK, TypeOK,
         NewBreaker, Breaker, CircuitState, Never
<1>2. IsolationInv => IsolationBound
  BY DEF IsolationInv
<1>3. QED
  BY <1>1, <1>2, IsolationInductive, PTL DEF HSpec
-----------------------------------------------------------------------------
(* The health checker. *)

(* The inductive invariant of the checker.  While it pings or records, its
   place is one in the list, so the target is an HTTP backend and has an entry
   in every map; what it records it has seen; and since one step writes both,
   map and gauge agree.  Nothing writes the entry of a backend not in the
   list, which keeps the verdict main gave it. *)
CheckerInv ==
  /\ HealthTypeOK
  /\ gauge = health_map
  /\ pc \in {"ping", "record"} => next \in 1..Len(backends_list)
  /\ pc = "record" => result \in seen
  /\ \A b \in DOMAIN health_map \ Http : health_map[b] = "up"

\* The list has a backend of Http in every place.
LEMMA ListedHttp ==
  ASSUME IsFiniteSet(Http), backends_list \in SetToSeqs(Http)
  PROVE  /\ backends_list \in Seq(Http) /\ Len(backends_list) \in Nat
         /\ \A n \in 1..Len(backends_list) : backends_list[n] \in Http
<1>1. Cardinality(Http) \in Nat
  BY FS_CardinalityType
<1>2. backends_list \in [1..Cardinality(Http) -> Http]
  BY DEF SetToSeqs
<1>3. backends_list \in Seq(Http)
  BY <1>1, <1>2
<1>4. QED
  BY <1>3

\* The checker goes on to a place in the list, or to its next tick.
LEMMA VisitTyped ==
  ASSUME IsFiniteSet(Http), CheckerInv, NEW n \in Nat \ {0}, Visit(n)
  PROVE  /\ pc' \in {"wait", "ping"}
         /\ next' \in Nat /\ (next' = 1 \/ next' <= Len(backends_list))
         /\ pc' = "ping" => next' \in 1..Len(backends_list)
         /\ seen' \subseteq Status
<1>. USE DEF CheckerInv, HealthTypeOK
<1>1. Len(backends_list) \in Nat /\ \A k \in 1..Len(backends_list) : backends_list[k] \in Http
  BY ListedHttp
<1>2. CASE n > Len(backends_list)
  BY <1>1, <1>2 DEF Visit
<1>3. CASE ~(n > Len(backends_list))
  <2>1. n \in 1..Len(backends_list)
    BY <1>1, <1>3
  <2>2. server \in [DOMAIN server -> Status] /\ backends_list[n] \in DOMAIN server
    BY <1>1, <2>1
  <2>3. server[backends_list[n]] \in Status
    BY <2>2
  <2>4. pc' = "ping" /\ next' = n /\ seen' = {server[backends_list[n]]}
    BY <1>3 DEF Visit
  <2>5. QED
    BY <2>1, <2>3, <2>4
<1>4. QED
  BY <1>2, <1>3

\* A freshly started checker: every connected backend is taken to be healthy.
LEMMA CheckerInit ==
  ASSUME HealthInit
  PROVE  CheckerInv
<1>1. PICK connected \in SUBSET Stdio :
         /\ server \in [Http \cup connected -> Status]
         /\ health_map = [b \in Http \cup connected |-> "up"]
  BY DEF HealthInit
<1>2. DOMAIN server = Http \cup connected /\ DOMAIN health_map = Http \cup connected
  BY <1>1
<1>3. health_map \in [DOMAIN server -> Status]
  BY <1>1, <1>2 DEF Status
<1>4. gauge = health_map /\ server \in [DOMAIN server -> Status]
  BY <1>1, <1>2 DEF HealthInit
<1>5. HealthTypeOK
  BY <1>2, <1>3, <1>4 DEF HealthInit, HealthTypeOK, Backends, Status
<1>6. QED
  BY <1>1, <1>2, <1>4, <1>5 DEF HealthInit, CheckerInv

\* Every step of the checker, of a backend or of the shutdown keeps CheckerInv.
LEMMA CheckerStep ==
  ASSUME CheckerInv, [HealthNext]_healthVars
  PROVE  CheckerInv'
<1>. USE DEF CheckerInv, HealthTypeOK
<1>0. /\ IsFiniteSet(Http)
      /\ Len(backends_list) \in Nat
      /\ \A n \in 1..Len(backends_list) : backends_list[n] \in Http
  BY BackendsAssumption, ListedHttp
<1>1. CASE Sweep
  <2>1. Visit(1) /\ UNCHANGED <<server, health_map, gauge, backends_list, result, cancelled>>
    BY <1>1 DEF Sweep
  <2>2. /\ pc' \in {"wait", "ping"}
        /\ next' \in Nat /\ (next' = 1 \/ next' <= Len(backends_list))
        /\ pc' = "ping" => next' \in 1..Len(backends_list)
        /\ seen' \subseteq Status
    BY <1>0, <2>1, VisitTyped
  <2>3. QED
    BY <2>1, <2>2
<1>2. CASE Pinged
  BY <1>2 DEF Pinged
<1>3. CASE Record
  <2>1. /\ pc = "record" /\ target \in Http /\ target \in DOMAIN server
        /\ health_map' = [health_map EXCEPT ![target] = result]
        /\ gauge' = [gauge EXCEPT ![target] = result]
        /\ Visit(next + 1)
        /\ UNCHANGED <<server, backends_list, result, cancelled>>
    BY <1>0, <1>3 DEF Record, target
  <2>2. /\ pc' \in {"wait", "ping"}
        /\ next' \in Nat /\ (next' = 1 \/ next' <= Len(backends_list))
        /\ pc' = "ping" => next' \in 1..Len(backends_list)
        /\ seen' \subseteq Status
    <3>1. next + 1 \in Nat \ {0}
      OBVIOUS
    <3>2. QED
      BY <1>0, <2>1, <3>1, VisitTyped
  <2>3. /\ health_map' \in [DOMAIN server -> Status] /\ gauge' = health_map'
        /\ \A b \in DOMAIN health_map \ Http : health_map'[b] = health_map[b]
        /\ DOMAIN health_map' = DOMAIN health_map
    BY <2>1
  <2>4. QED
    BY <2>1, <2>2, <2>3
<1>4. CASE Stop
  BY <1>4 DEF Stop
<1>5. ASSUME NEW b \in DOMAIN server, Change(b)
      PROVE  CheckerInv'
  <2>1. server' \in [DOMAIN server -> Status] /\ server'[b] \in Status
    BY <1>5 DEF Change, Status
  <2>2. seen' \subseteq Status /\ seen \subseteq seen'
    BY <1>5, <2>1 DEF Change
  <2>3. UNCHANGED <<health_map, gauge, backends_list, pc, next, result, cancelled>>
    BY <1>5 DEF Change
  <2>4. QED
    BY <2>1, <2>2, <2>3
<1>6. CASE Cancel
  BY <1>6 DEF Cancel, checkerVars
<1>7. CASE UNCHANGED healthVars
  BY <1>7 DEF healthVars, checkerVars
<1>8. QED
  BY <1>1, <1>2, <1>3, <1>4, <1>5, <1>6, <1>7 DEF HealthNext, Checker

\* CheckerInv holds throughout.
LEMMA CheckerInductive == HealthSpec => []CheckerInv
BY CheckerInit, CheckerStep, PTL DEF HealthSpec

\* The checker never looks past the end of its list, and every map keeps an
\* entry for exactly the connected backends, however many there are.
THEOREM CheckerTypeCorrect == HealthSpec => []HealthTypeOK
<1>1. CheckerInv => HealthTypeOK
  BY DEF CheckerInv
<1>2. QED
  BY <1>1, CheckerInductive, PTL

\* HealthChecker::run writes an entry only for the backend it has just pinged
\* and only what that ping came to, and the gauge never differs from the map
\* that /ready and /health read.
THEOREM VerdictsCorrect == HealthSpec => VerdictsOwn
<1>. DEFINE Own ==
       \A b \in DOMAIN health_map :
         /\ health_map'[b] = gauge'[b]
         /\ health_map'[b] # health_map[b] =>
              pc = "record" /\ b = target /\ health_map'[b] \in seen
<1>1. ASSUME CheckerInv, CheckerInv', [HealthNext]_healthVars
      PROVE  [Own]_healthVars
  <2>1. health_map' = gauge'
    BY <1>1 DEF CheckerInv
  <2>2. \/ UNCHANGED health_map
        \/ /\ pc = "record" /\ result \in seen
           /\ health_map' = [health_map EXCEPT ![target] = result]
    BY <1>1 DEF CheckerInv, HealthNext, Checker, Sweep, Pinged, Record, Stop, Change, Cancel,
       healthVars
  <2>3. QED
    BY <2>1, <2>2
<1>2. QED
  BY <1>1, CheckerInductive, PTL DEF HealthSpec, VerdictsOwn

\* The part of ReadinessTracks that is not about the long run: once a stdio
\* backend is connected, readiness_handler answers 200 whatever becomes of the
\* backends that are checked, because run never visits it.
THEOREM UncheckedReady == HealthSpec => (DOMAIN health_map \ Http # {} => []Ready)
<1>. DEFINE Unchecked == DOMAIN health_map \ Http # {}
<1>1. ASSUME CheckerInv, CheckerInv', [HealthNext]_healthVars, Unchecked
      PROVE  Unchecked'
  <2>1. DOMAIN health_map' = DOMAIN health_map
    BY <1>1 DEF CheckerInv, HealthTypeOK, HealthNext, Checker, Sweep, Pinged, Record, Stop,
       Change, Cancel, healthVars
  <2>2. QED
    BY <1>1, <2>1
<1>2. ASSUME CheckerInv, Unchecked
      PROVE  Ready
  BY <1>2 DEF CheckerInv, Ready
<1>3. QED
  BY <1>1, <1>2, CheckerInductive, PTL DEF HealthSpec
=============================================================================
