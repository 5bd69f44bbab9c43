------------------------------- MODULE Health -------------------------------
(***************************************************************************)
(* The health checker (src/health/checker.rs), the map and the gauge it    *)
(* keeps (src/health/server.rs, src/metrics/mod.rs) and what /ready makes  *)
(* of them, from the map main.rs starts them with.  Requests read the map  *)
(* under the lock the checker writes it under, /metrics reads the gauge    *)
(* under none.                                                             *)
(*                                                                         *)
(* A backend is "up" or "down" as a send finds it (HttpBackend has the     *)
(* retries and the time limit); it may change while a ping is under way.   *)
(* last_check and consecutive_failures are left out: nothing reads them.   *)
(***************************************************************************)
EXTENDS Naturals, Sequences, SequencesExt, FiniteSets

CONSTANTS
  Http,    \* the HTTP backends that main has a connection to
  Stdio    \* the stdio backends it may have one to

ASSUME BackendsAssumption == Http \cap Stdio = {} /\ IsFiniteSet(Http)

Backends == Http \cup Stdio
Status == {"up", "down"}

VARIABLES
  server,          \* the actual status of each backend that is connected
  health_map,      \* the map's verdict on each backend
  gauge,           \* backend_healthy
  backends_list,   \* the checker's list, in the order of a hash map
  pc, next,        \* the checker, and its place in the list
  seen,            \* the statuses the pinged backend has had since the ping
  result,          \* what the ping came to
  cancelled

checkerVars == <<pc, next, seen, result>>
healthVars == <<server, health_map, gauge, backends_list, checkerVars, cancelled>>

HealthInit ==
  /\ \E connected \in SUBSET Stdio :
       /\ server \in [Http \cup connected -> Status]
       /\ health_map = [b \in Http \cup connected |-> "up"]
  /\ gauge = health_map
  /\ backends_list \in SetToSeqs(Http)
  /\ pc = "wait" /\ next = 1 /\ seen = {} /\ result = "up"
  /\ cancelled = "no"
-----------------------------------------------------------------------------
(* The checker. *)

target == backends_list[next]

\* On to the next backend, or to the next tick.
Visit(n) ==
  IF n > Len(backends_list)
    THEN pc' = "wait" /\ next' = 1 /\ seen' = {}
    ELSE pc' = "ping" /\ next' = n /\ seen' = {server[backends_list[n]]}

Sweep ==
  /\ pc = "wait"
  /\ Visit(1)
  /\ UNCHANGED <<server, health_map, gauge, backends_list, result, cancelled>>

\* backend.send(ping_body) returns, and the write lock is taken.
Pinged ==
  /\ pc = "ping"
  /\ result' \in seen
  /\ pc' = "record"
  /\ UNCHANGED <<server, health_map, gauge, backends_list, next, seen, cancelled>>

\* Faulty variant of Record: a failure ends the sweep.
RecordBreaks ==
  /\ pc = "record"
  /\ health_map' = [health_map EXCEPT ![target] = result]
  /\ gauge' = [gauge EXCEPT ![target] = result]
  /\ Visit(IF result = "up" THEN next + 1 ELSE Len(backends_list) + 1)
  /\ UNCHANGED <<server, backends_list, result, cancelled>>

\* Faulty variant of Record: a recovery does not reach the gauge.
RecordMapOnly ==
  /\ pc = "record"
  /\ health_map' = [health_map EXCEPT ![target] = result]
  /\ gauge' = IF result = "down" THEN [gauge EXCEPT ![target] = result] ELSE gauge
  /\ Visit(next + 1)
  /\ UNCHANGED <<server, backends_list, result, cancelled>>

\* The outcome goes into the entry and the gauge, and the lock is released.
Record ==
  /\ pc = "record"
  /\ health_map' = [health_map EXCEPT ![target] = result]
  /\ gauge' = [gauge EXCEPT ![target] = result]
  /\ Visit(next + 1)
  /\ UNCHANGED <<server, backends_list, result, cancelled>>

\* The token is looked at between sweeps only.
Stop ==
  /\ pc = "wait" /\ cancelled = "yes"
  /\ pc' = "stopped"
  /\ UNCHANGED <<server, health_map, gauge, backends_list, next, seen, result, cancelled>>
-----------------------------------------------------------------------------
(* The others. *)

Change(b) ==
  /\ server' = [server EXCEPT ![b] = IF @ = "up" THEN "down" ELSE "up"]
  /\ seen' = IF pc = "ping" /\ b = target THEN seen \cup {server'[b]} ELSE seen
  /\ UNCHANGED <<health_map, gauge, backends_list, pc, next, result, cancelled>>

Cancel ==
  /\ cancelled = "no" /\ cancelled' = "yes"
  /\ UNCHANGED <<server, health_map, gauge, backends_list, checkerVars>>

\* Faulty variant of Ready: asks for every backend.
ReadyAll == \A b \in DOMAIN health_map : health_map[b] = "up"

\* /ready answers 200.
Ready == \E b \in DOMAIN health_map : health_map[b] = "up"

Checker == Sweep \/ Pinged \/ Record

HealthNext == Checker \/ Stop \/ (\E b \in DOMAIN server : Change(b)) \/ Cancel

HealthSpec == HealthInit /\ [][HealthNext]_healthVars

\* The interval ticks, a send returns, the lock is granted.
HealthFairSpec == HealthSpec /\ WF_healthVars(Checker)
-----------------------------------------------------------------------------
HealthTypeOK ==
  /\ Http \subseteq DOMAIN server /\ DOMAIN server \subseteq Backends
  /\ \A map \in {server, health_map, gauge} : map \in [DOMAIN server -> Status]
  /\ backends_list \in SetToSeqs(Http)
  /\ pc \in {"wait", "ping", "record", "stopped"}
  /\ next \in Nat /\ (next = 1 \/ next <= Len(backends_list))
  /\ seen \subseteq Status /\ result \in Status
  /\ cancelled \in {"no", "yes"}

\* A backend stays as it is, and the gateway is not told to stop.
Stays(b, status) == <>[](server[b] = status /\ cancelled = "no")

\* The checker comes to see it so, and does not change its mind.
Settles(b, status) == <>[](health_map[b] = status /\ gauge[b] = status)

(* An HTTP backend that goes down for good, or comes back for good, ends up so
   in the map and in the gauge, whatever the other backends are up to and in
   whatever order the list has them. *)
HealthTracks == \A b \in Http : \A s \in Status : Stays(b, s) => Settles(b, s)

(* /ready follows: it is 200 in the end when an HTTP backend stays up, and 503
   when all of them stay down and no stdio backend is connected.  With one
   connected, which nothing ever checks, it is 200 throughout. *)
ReadinessTracks ==
  LET unchecked == DOMAIN health_map \ Http
  IN  /\ unchecked = {} /\ (\A b \in Http : Stays(b, "down")) => <>[]~Ready
      /\ (\E b \in Http : Stays(b, "up")) => <>[]Ready
      /\ unchecked # {} => []Ready

(* A verdict is about its own backend and from its own ping: an entry changes
   only when its backend has just been pinged, to a status the backend had
   during that ping, and map and gauge agree whenever the lock is free. *)
VerdictsOwn ==
  [][\A b \in DOMAIN health_map :
       /\ health_map'[b] = gauge'[b]
       /\ health_map'[b] # health_map[b] =>
            pc = "record" /\ b = target /\ health_map'[b] \in seen]_healthVars
=============================================================================
