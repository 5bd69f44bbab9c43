------------------------- MODULE CircuitBreakerOps -------------------------
(***************************************************************************)
(* CircuitBreaker (src/health/circuit_breaker.rs) as operators on a record *)
(* of its atomics.  Only the serial dispatch loop calls a breaker, so each *)
(* method is one step.                                                     *)
(*                                                                         *)
(* last_failure is kept as the time elapsed since it (Never for None), in  *)
(* ticks; the code only asks whether it has reached recovery_timeout, so   *)
(* the age saturates there.                                                *)
(***************************************************************************)
EXTENDS Integers

CircuitState == {"Closed", "Open", "HalfOpen"}

Never == -1

Breaker(recovery) ==
  [state : CircuitState, failure_count : Nat,
   since_failure : {Never} \cup 0..recovery]

NewBreaker == [state |-> "Closed", failure_count |-> 0, since_failure |-> Never]

BreakerTick(cb, recovery) ==
  [cb EXCEPT !.since_failure =
     IF cb.since_failure = Never \/ cb.since_failure >= recovery
       THEN cb.since_failure
       ELSE cb.since_failure + 1]

\* Faulty variant of Recovered: does not wait for the recovery timeout.
RecoveredAtOnce(cb, recovery) == cb.since_failure # Never

\* Faulty variant of Recovered: measures from a failure that is not there.
RecoveredNever(cb, recovery) == cb.since_failure = Never

\* last_failure is Some(t) and t.elapsed() >= recovery_timeout.
Recovered(cb, recovery) ==
  cb.since_failure # Never /\ cb.since_failure >= recovery

\* allow_request returns true.
Allows(cb, recovery) == cb.state = "Open" => Recovered(cb, recovery)

\* The breaker allow_request leaves behind: Open -> HalfOpen when recovered.
AllowRequest(cb, recovery) ==
  IF cb.state = "Open" /\ Recovered(cb, recovery)
    THEN [cb EXCEPT !.state = "HalfOpen"]
    ELSE cb

\* Faulty variant of RecordSuccess: a probe's success does not close.
RecordSuccessStaysOpen(cb) == [cb EXCEPT !.failure_count = 0]

RecordSuccess(cb) == [cb EXCEPT !.failure_count = 0, !.state = "Closed"]

\* Faulty variant of RecordFailure: opens one failure late.
RecordFailureLate(cb, threshold) ==
  [cb EXCEPT !.failure_count = cb.failure_count + 1,
             !.since_failure = 0,
             !.state = IF cb.failure_count >= threshold THEN "Open" ELSE cb.state]

RecordFailure(cb, threshold) ==
  [cb EXCEPT !.failure_count = cb.failure_count + 1,
             !.since_failure = 0,
             !.state = IF cb.failure_count + 1 >= threshold
                         THEN "Open" ELSE cb.state]
=============================================================================
