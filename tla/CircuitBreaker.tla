--------------------------- MODULE CircuitBreaker ---------------------------
(***************************************************************************)
(* One backend's circuit breaker under its only caller, the serial         *)
(* dispatch loop (src/gateway.rs): allow_request, then the backend call,   *)
(* then record_success or record_failure, before the next allow_request.   *)
(* Gateway implements it once for every backend.                           *)
(***************************************************************************)
EXTENDS CircuitBreakerOps

CONSTANTS
  FailureThreshold,   \* circuit_breaker_threshold
  RecoveryTimeout     \* circuit_breaker_recovery_secs, in ticks

ASSUME ThresholdAssumption == FailureThreshold \in Nat
ASSUME RecoveryAssumption == RecoveryTimeout \in Nat

VARIABLES
  cb,         \* the breaker
  call        \* "inflight" from allow_request until the outcome is recorded

vars == <<cb, call>>

TypeOK ==
  /\ cb \in Breaker(RecoveryTimeout)
  /\ call \in {"idle", "inflight"}

Init == cb = NewBreaker /\ call = "idle"

\* The dispatcher asks and is let through; a refusal changes nothing.
Admit ==
  /\ call = "idle"
  /\ Allows(cb, RecoveryTimeout)
  /\ cb' = AllowRequest(cb, RecoveryTimeout)
  /\ call' = "inflight"

\* backend.send returned Ok.
Succeed ==
  /\ call = "inflight"
  /\ cb' = RecordSuccess(cb)
  /\ call' = "idle"

\* backend.send returned Err.
Fail ==
  /\ call = "inflight"
  /\ cb' = RecordFailure(cb, FailureThreshold)
  /\ call' = "idle"

Tick ==
  /\ cb' = BreakerTick(cb, RecoveryTimeout)
  /\ UNCHANGED call

Next == Admit \/ Succeed \/ Fail \/ Tick

Spec == Init /\ [][Next]_vars
-----------------------------------------------------------------------------
\* The failures in a row that open the circuit: a threshold of 0 still
\* needs one failure, since only record_failure opens.
TripCount == IF FailureThreshold = 0 THEN 1 ELSE FailureThreshold

(* While no call is in flight the circuit is Open exactly when the failures
   in a row have reached the threshold, and an Open circuit has a failure
   time to measure from (the code's `else { false }` arm for a missing one,
   which would keep the circuit open for ever, is never taken). *)
OpenIffTripped ==
  /\ call = "idle" => (cb.state = "Open") = (cb.failure_count >= TripCount)
  /\ cb.state = "Open" => cb.since_failure # Never

(* allow_request lets every call through while HalfOpen.  With the serial
   caller that never admits a second call: HalfOpen lasts only while the
   one probe is in flight, and the probe's failure re-opens the circuit
   because the count is still at the threshold. *)
OneProbeAtATime ==
  cb.state = "HalfOpen" => call = "inflight" /\ cb.failure_count >= TripCount
=============================================================================
