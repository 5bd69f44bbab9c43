----------------------- MODULE CircuitBreakerHistory -----------------------
(***************************************************************************)
(* CircuitBreaker before a backend that goes up and down on its own, with  *)
(* history variables that measure how well a failing one is isolated.      *)
(* They never keep a step from happening: the first MaxTicks of an outage  *)
(* are measured, and what comes after them is not.                         *)
(***************************************************************************)
EXTENDS CircuitBreaker

CONSTANTS
  MaxFailures,    \* bound on failure_count (the code's u32)
  MaxTicks        \* bound on what is measured of one outage

ASSUME MaxFailuresAssumption == MaxFailures \in Nat
ASSUME MaxTicksAssumption == MaxTicks \in Nat

VARIABLES
  backend,     \* "up" when calls to the backend succeed
  probes,      \* calls admitted since the circuit last tripped
  since_trip   \* ticks since it tripped

hvars == <<cb, call, backend, probes, since_trip>>

HTypeOK ==
  /\ TypeOK
  /\ backend \in {"up", "down"}
  /\ probes \in Nat
  /\ since_trip \in Nat

HInit == Init /\ backend \in {"up", "down"} /\ probes = 0 /\ since_trip = 0

Measured == since_trip < MaxTicks

HAdmit ==
  /\ Admit
  /\ probes' = IF cb.state # "Closed" /\ Measured THEN probes + 1 ELSE probes
  /\ UNCHANGED <<backend, since_trip>>

\* A success ends the outage.
HSucceed ==
  /\ backend = "up" /\ Succeed
  /\ probes' = 0 /\ since_trip' = 0
  /\ UNCHANGED backend

\* The failure that opens a closed circuit starts one.
HFail ==
  /\ backend = "down" /\ Fail
  /\ cb.failure_count < MaxFailures
  /\ IF cb.state = "Closed"
       THEN probes' = 0 /\ since_trip' = 0
       ELSE UNCHANGED <<probes, since_trip>>
  /\ UNCHANGED backend

HTick ==
  /\ Tick
  /\ since_trip' = IF cb.state # "Closed" /\ Measured THEN since_trip + 1 ELSE since_trip
  /\ UNCHANGED <<backend, probes>>

BackendFlips ==
  /\ backend' = IF backend = "up" THEN "down" ELSE "up"
  /\ UNCHANGED <<cb, call, probes, since_trip>>

HNext == HAdmit \/ HSucceed \/ HFail \/ HTick \/ BackendFlips

HSpec == HInit /\ [][HNext]_hvars

\* The client keeps calling, calls return (backend.send times out), and
\* time passes.
HFairSpec == HSpec /\ WF_hvars(HAdmit) /\ WF_hvars(HSucceed) /\ WF_hvars(HTick)
-----------------------------------------------------------------------------
(* However the calls are timed, a backend that keeps failing is called at
   most once per recovery_timeout from the moment its circuit tripped: the
   k-th probe comes no earlier than k recovery timeouts into the outage. *)
IsolationBound == probes * RecoveryTimeout <= since_trip

(* Why: while Open, the wait since the last failure comes on top of the
   recovery timeouts the earlier probes have already paid for. *)
IsolationInv ==
  /\ HTypeOK
  /\ cb.state = "Closed" => probes = 0 /\ since_trip = 0
  /\ cb.state = "HalfOpen" => call = "inflight" /\ cb.failure_count >= FailureThreshold
  /\ cb.state = "Open" =>
       /\ call = "idle"
       /\ cb.failure_count >= FailureThreshold
       /\ cb.since_failure # Never
       /\ Measured => probes * RecoveryTimeout + cb.since_failure <= since_trip
  /\ IsolationBound

(* docs/OPENCLAW.md: "When the failed backend recovers, it's automatically
   re-enabled."  A backend that stays up ends with its circuit closed,
   whatever failures came before, if the client keeps calling it. *)
AutoReenabled == <>[](backend = "up") => <>[](cb.state = "Closed")
=============================================================================
