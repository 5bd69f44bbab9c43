------------------------- MODULE Supervisor_proofs -------------------------
(***************************************************************************)
(* Proofs about the supervisor of a stdio backend, for every max_restarts  *)
(* and any number of processes.                                            *)
(***************************************************************************)
EXTENDS Supervisor, TLAPS

\* With a process in hand, all the earlier ones have been signalled;
\* otherwise all of them.
Signals ==
  /\ AllSignalled
  /\ pc \in {"handshake", "report", "monitor"} => spawned >= 1 /\ 1..(spawned - 1) \subseteq signalled

\* restart_count keeps up with the attempts, and stays below the limit.
Counted ==
  MaxRestarts > 0 =>
    /\ pc \in {"spawn", "backoff"} => attempts <= restart_count /\ restart_count < MaxRestarts
    /\ pc \in {"handshake", "report", "monitor"} =>
         attempts <= restart_count + 1 /\ restart_count < MaxRestarts
    /\ attempts <= MaxRestarts

\* main registers one process and drops the tools of one, each only once.
Handles ==
  /\ HandleCurrent
  /\ main = "discovering" => registered = 0
  /\ main \in {"discovering", "leaving"} => lost = 0

(* The inductive invariant. *)
SInv == TypeOK /\ Signals /\ Counted /\ Handles /\ NoOrphans

\* Nothing has been spawned.
LEMMA SInvInit == Init => SInv
<1>. SUFFICES ASSUME Init PROVE SInv
  OBVIOUS
<1>1. TypeOK
  BY DEF Init, TypeOK
<1>2. Signals
  BY DEF Init, Signals, AllSignalled
<1>3. Counted
  BY RestartsAssumption DEF Init, Counted
<1>4. Handles /\ NoOrphans
  BY DEF Init, Handles, HandleCurrent, NoOrphans
<1>5. QED
  BY <1>1, <1>2, <1>3, <1>4 DEF SInv

\* Where a failure leads, and what it does to the count.
LEMMA RetryCases ==
  ASSUME NEW count \in Nat, Retry(count)
  PROVE  /\ restart_count' = count + 1 /\ restart_count' \in Nat
         /\ pc' \in {"stopped", "backoff"}
         /\ MaxRestarts > 0 /\ pc' = "backoff" => restart_count' < MaxRestarts
BY RestartsAssumption DEF Retry

\* Once the last process has been signalled, all have.
LEMMA KillAll ==
  ASSUME SInv, Kill, pc \in {"handshake", "report", "monitor"}
  PROVE  signalled' = 1..spawned
<1>1. spawned \in Nat /\ spawned >= 1 /\ signalled \subseteq 1..spawned
  BY DEF SInv, TypeOK, Signals
<1>2. 1..spawned = 1..(spawned - 1) \cup {spawned}
  BY <1>1
<1>3. QED
  BY <1>1, <1>2 DEF Kill, SInv, Signals

\* Cancelled before a spawn.
LEMMA StopBeforeSpawnKeeps == ASSUME SInv, StopBeforeSpawn PROVE SInv'
<1>1. TypeOK'
  BY RestartsAssumption DEF SInv, TypeOK, StopBeforeSpawn, At, childVars, mainVars
<1>2. Signals'
  BY RestartsAssumption DEF SInv, TypeOK, Signals, AllSignalled, StopBeforeSpawn, At, childVars, mainVars
<1>3. Counted'
  BY RestartsAssumption DEF SInv, TypeOK, Counted, StopBeforeSpawn, At, childVars, mainVars
<1>4. Handles'
  BY RestartsAssumption DEF SInv, TypeOK, Handles, HandleCurrent, StopBeforeSpawn, At, childVars, mainVars
<1>5. NoOrphans'
  BY RestartsAssumption DEF SInv, TypeOK, Signals, AllSignalled, NoOrphans, StopBeforeSpawn, At, childVars, mainVars
<1>6. QED
  BY <1>1, <1>2, <1>3, <1>4, <1>5 DEF SInv

\* A new process.
LEMMA SpawnOkKeeps == ASSUME SInv, SpawnOk PROVE SInv'
<1>1. TypeOK'
  BY RestartsAssumption DEF SInv, TypeOK, SpawnOk, At, childVars, mainVars
<1>2. Signals'
  BY RestartsAssumption DEF SInv, TypeOK, Signals, AllSignalled, SpawnOk, At, childVars, mainVars
<1>3. Counted'
  BY RestartsAssumption DEF SInv, TypeOK, Counted, SpawnOk, At, childVars, mainVars
<1>4. Handles'
  BY RestartsAssumption DEF SInv, TypeOK, Handles, HandleCurrent, SpawnOk, At, childVars, mainVars
<1>5. NoOrphans'
  BY RestartsAssumption DEF SInv, TypeOK, Signals, AllSignalled, NoOrphans, SpawnOk, At, childVars, mainVars
<1>6. QED
  BY <1>1, <1>2, <1>3, <1>4, <1>5 DEF SInv

\* A spawn that fails counts as an attempt.
LEMMA SpawnFailsKeeps == ASSUME SInv, SpawnFails PROVE SInv'
<1>0. /\ restart_count \in Nat /\ Retry(restart_count)
      /\ pc = "spawn" /\ main \notin {"exited", "aborted"} /\ attempts' = attempts + 1
      /\ UNCHANGED <<childVars, mainVars>>
  BY DEF SInv, TypeOK, SpawnFails, At
<1>1. TypeOK'
  BY <1>0, RetryCases, RestartsAssumption DEF SInv, TypeOK, childVars, mainVars
<1>2. Signals'
  BY <1>0, RetryCases, RestartsAssumption DEF SInv, TypeOK, Signals, AllSignalled, childVars, mainVars
<1>3. Counted'
  BY <1>0, RetryCases, RestartsAssumption DEF SInv, TypeOK, Counted, childVars, mainVars
<1>4. Handles'
  BY <1>0, RetryCases, RestartsAssumption DEF SInv, TypeOK, Handles, HandleCurrent, childVars, mainVars
<1>5. NoOrphans'
  BY <1>0, RetryCases, RestartsAssumption DEF SInv, TypeOK, Signals, AllSignalled, NoOrphans, childVars, mainVars
<1>6. QED
  BY <1>1, <1>2, <1>3, <1>4, <1>5 DEF SInv

\* The tools are known.
LEMMA HandshakeOkKeeps == ASSUME SInv, HandshakeOk PROVE SInv'
<1>1. TypeOK'
  BY RestartsAssumption DEF SInv, TypeOK, HandshakeOk, At, childVars, mainVars
<1>2. Signals'
  BY RestartsAssumption DEF SInv, TypeOK, Signals, AllSignalled, HandshakeOk, At, childVars, mainVars
<1>3. Counted'
  BY RestartsAssumption DEF SInv, TypeOK, Counted, HandshakeOk, At, childVars, mainVars
<1>4. Handles'
  BY RestartsAssumption DEF SInv, TypeOK, Handles, HandleCurrent, HandshakeOk, At, childVars, mainVars
<1>5. NoOrphans'
  BY RestartsAssumption DEF SInv, TypeOK, Signals, AllSignalled, NoOrphans, HandshakeOk, At, childVars, mainVars
<1>6. QED
  BY <1>1, <1>2, <1>3, <1>4, <1>5 DEF SInv

\* A failed handshake: the process is signalled.
LEMMA HandshakeFailsKeeps == ASSUME SInv, HandshakeFails PROVE SInv'
<1>0. /\ restart_count \in Nat /\ Retry(restart_count)
      /\ pc = "handshake" /\ main \notin {"exited", "aborted"}
      /\ UNCHANGED <<spawned, running, out, mainVars, attempts>>
      /\ signalled' = 1..spawned
  BY KillAll DEF SInv, TypeOK, HandshakeFails, At
<1>1. TypeOK'
  BY <1>0, RetryCases, RestartsAssumption DEF SInv, TypeOK, mainVars
<1>2. Signals'
  BY <1>0, RetryCases, RestartsAssumption DEF SInv, TypeOK, Signals, AllSignalled, mainVars
<1>3. Counted'
  BY <1>0, RetryCases, RestartsAssumption DEF SInv, TypeOK, Counted, mainVars
<1>4. Handles'
  BY <1>0, RetryCases, RestartsAssumption DEF SInv, TypeOK, Handles, HandleCurrent, mainVars
<1>5. NoOrphans'
  BY <1>0, RetryCases, RestartsAssumption DEF SInv, TypeOK, Signals, AllSignalled, NoOrphans, mainVars
<1>6. QED
  BY <1>1, <1>2, <1>3, <1>4, <1>5 DEF SInv

\* The tools are in the channel.
LEMMA ReportKeeps == ASSUME SInv, Report PROVE SInv'
<1>1. TypeOK'
  BY RestartsAssumption DEF SInv, TypeOK, Report, At, childVars, mainVars
<1>2. Signals'
  BY RestartsAssumption DEF SInv, TypeOK, Signals, AllSignalled, Report, At, childVars, mainVars
<1>3. Counted'
  BY RestartsAssumption DEF SInv, TypeOK, Counted, Report, At, childVars, mainVars
<1>4. Handles'
  BY RestartsAssumption DEF SInv, TypeOK, Handles, HandleCurrent, Report, At, childVars, mainVars
<1>5. NoOrphans'
  BY RestartsAssumption DEF SInv, TypeOK, Signals, AllSignalled, NoOrphans, Report, At, childVars, mainVars
<1>6. QED
  BY <1>1, <1>2, <1>3, <1>4, <1>5 DEF SInv

\* Nobody wants them: the process is signalled.
LEMMA ReportRefusedKeeps == ASSUME SInv, ReportRefused PROVE SInv'
<1>0. /\ pc = "report" /\ pc' = "stopped" /\ main \notin {"exited", "aborted"}
      /\ UNCHANGED <<restart_count, spawned, running, out, mainVars, attempts>>
      /\ signalled' = 1..spawned
  BY KillAll DEF ReportRefused, At
<1>1. TypeOK'
  BY <1>0, RestartsAssumption DEF SInv, TypeOK, mainVars
<1>2. Signals'
  BY <1>0, RestartsAssumption DEF SInv, TypeOK, Signals, AllSignalled, mainVars
<1>3. Counted'
  BY <1>0, RestartsAssumption DEF SInv, TypeOK, Counted, mainVars
<1>4. Handles'
  BY <1>0, RestartsAssumption DEF SInv, TypeOK, Handles, HandleCurrent, mainVars
<1>5. NoOrphans'
  BY <1>0, RestartsAssumption DEF SInv, TypeOK, Signals, AllSignalled, NoOrphans, mainVars
<1>6. QED
  BY <1>1, <1>2, <1>3, <1>4, <1>5 DEF SInv

\* The end of the output.
LEMMA ChildExitedKeeps == ASSUME SInv, ChildExited PROVE SInv'
<1>0. PICK n \in {0, restart_count} :
        /\ n \in Nat /\ Retry(n) /\ pc = "monitor" /\ main \notin {"exited", "aborted"}
        /\ \/ n = 0 /\ attempts' = 0
           \/ n = restart_count /\ attempts' = attempts
        /\ UNCHANGED <<spawned, running, out, mainVars>>
        /\ signalled' = 1..spawned
  BY KillAll DEF SInv, TypeOK, ChildExited, At
<1>1. TypeOK'
  BY <1>0, RetryCases, RestartsAssumption DEF SInv, TypeOK, mainVars
<1>2. Signals'
  BY <1>0, RetryCases, RestartsAssumption DEF SInv, TypeOK, Signals, AllSignalled, mainVars
<1>3. Counted'
  BY <1>0, RetryCases, RestartsAssumption DEF SInv, TypeOK, Counted, mainVars
<1>4. Handles'
  BY <1>0, RetryCases, RestartsAssumption DEF SInv, TypeOK, Handles, HandleCurrent, mainVars
<1>5. NoOrphans'
  BY <1>0, RetryCases, RestartsAssumption DEF SInv, TypeOK, Signals, AllSignalled, NoOrphans, mainVars
<1>6. QED
  BY <1>1, <1>2, <1>3, <1>4, <1>5 DEF SInv

\* Told to stop.
LEMMA MonitorCancelledKeeps == ASSUME SInv, MonitorCancelled PROVE SInv'
<1>0. /\ pc = "monitor" /\ pc' = "grace" /\ main \notin {"exited", "aborted"}
      /\ UNCHANGED <<restart_count, spawned, running, out, mainVars, attempts>>
      /\ signalled' = 1..spawned
  BY KillAll DEF MonitorCancelled, At
<1>1. TypeOK'
  BY <1>0, RestartsAssumption DEF SInv, TypeOK, mainVars
<1>2. Signals'
  BY <1>0, RestartsAssumption DEF SInv, TypeOK, Signals, AllSignalled, mainVars
<1>3. Counted'
  BY <1>0, RestartsAssumption DEF SInv, TypeOK, Counted, mainVars
<1>4. Handles'
  BY <1>0, RestartsAssumption DEF SInv, TypeOK, Handles, HandleCurrent, mainVars
<1>5. NoOrphans'
  BY <1>0, RestartsAssumption DEF SInv, TypeOK, Signals, AllSignalled, NoOrphans, mainVars
<1>6. QED
  BY <1>1, <1>2, <1>3, <1>4, <1>5 DEF SInv

\* The grace period is over.
LEMMA GraceOverKeeps == ASSUME SInv, GraceOver PROVE SInv'
<1>1. TypeOK'
  BY RestartsAssumption DEF SInv, TypeOK, GraceOver, At, childVars, mainVars
<1>2. Signals'
  BY RestartsAssumption DEF SInv, TypeOK, Signals, AllSignalled, GraceOver, At, childVars, mainVars
<1>3. Counted'
  BY RestartsAssumption DEF SInv, TypeOK, Counted, GraceOver, At, childVars, mainVars
<1>4. Handles'
  BY RestartsAssumption DEF SInv, TypeOK, Handles, HandleCurrent, GraceOver, At, childVars, mainVars
<1>5. NoOrphans'
  BY RestartsAssumption DEF SInv, TypeOK, Signals, AllSignalled, NoOrphans, GraceOver, At, childVars, mainVars
<1>6. QED
  BY <1>1, <1>2, <1>3, <1>4, <1>5 DEF SInv

\* The backoff is over.
LEMMA BackoffOverKeeps == ASSUME SInv, BackoffOver PROVE SInv'
<1>1. TypeOK'
  BY RestartsAssumption DEF SInv, TypeOK, BackoffOver, At, childVars, mainVars
<1>2. Signals'
  BY RestartsAssumption DEF SInv, TypeOK, Signals, AllSignalled, BackoffOver, At, childVars, mainVars
<1>3. Counted'
  BY RestartsAssumption DEF SInv, TypeOK, Counted, BackoffOver, At, childVars, mainVars
<1>4. Handles'
  BY RestartsAssumption DEF SInv, TypeOK, Handles, HandleCurrent, BackoffOver, At, childVars, mainVars
<1>5. NoOrphans'
  BY RestartsAssumption DEF SInv, TypeOK, Signals, AllSignalled, NoOrphans, BackoffOver, At, childVars, mainVars
<1>6. QED
  BY <1>1, <1>2, <1>3, <1>4, <1>5 DEF SInv

\* The processes come to their own ends.
LEMMA ChildKeeps ==
  ASSUME SInv, (\E i \in running : ChildExits(i)) \/ ChildHangsUp
  PROVE  SInv'
<1>0. /\ running' \subseteq running /\ out' \in {"open", "closed"}
      /\ UNCHANGED <<pc, restart_count, spawned, signalled, mainVars, attempts>>
  BY DEF ChildExits, ChildHangsUp, SInv, TypeOK
<1>1. TypeOK'
  BY <1>0 DEF SInv, TypeOK, mainVars
<1>2. Signals'
  BY <1>0 DEF SInv, TypeOK, Signals, AllSignalled, mainVars
<1>3. Counted'
  BY <1>0 DEF SInv, TypeOK, Counted, mainVars
<1>4. Handles'
  BY <1>0 DEF SInv, TypeOK, Handles, HandleCurrent, mainVars
<1>5. NoOrphans'
  BY <1>0 DEF SInv, TypeOK, Signals, AllSignalled, NoOrphans, mainVars
<1>6. QED
  BY <1>1, <1>2, <1>3, <1>4, <1>5 DEF SInv

\* main leaves the supervisor's own state alone; it exits once the
\* supervisor has stopped, or in the middle of a handshake.
LEMMA MainKeeps == ASSUME SInv, Main PROVE SInv'
<1>0. /\ UNCHANGED <<pc, restart_count, childVars, attempts>>
      /\ main' = "exited" => pc \in {"stopped", "handshake"}
      /\ chan' \in {0, chan} /\ rx' \in {rx, "dropped"}
      /\ main' \in {"leaving", "starting", "aborted", "running", "stopping", "exited", main}
      /\ cancelled' \in {"yes", cancelled}
      /\ main' = "discovering" => main = "discovering"
      /\ main' = "leaving" => main \in {"discovering", "leaving"}
      /\ \/ UNCHANGED <<registered, chan, lost>>
         \/ main = "discovering" /\ registered' = chan /\ main' = "leaving" /\ lost' = lost
         \/ main = "leaving" /\ lost' = chan /\ main' = "starting" /\ registered' = registered
  BY DEF Main, Discovered, NotDiscovered, DropReceiver, Started, StartupFails, KilledEarly, Cancel, Shutdown, Exit
<1>1. TypeOK'
  BY <1>0 DEF SInv, TypeOK, childVars
<1>2. Signals'
  BY <1>0 DEF SInv, TypeOK, Signals, AllSignalled, childVars
<1>3. Counted'
  BY <1>0 DEF SInv, TypeOK, Counted, childVars
<1>4. Handles'
  BY <1>0 DEF SInv, TypeOK, Handles, HandleCurrent, childVars
<1>5. NoOrphans'
  BY <1>0 DEF SInv, TypeOK, Signals, AllSignalled, NoOrphans, childVars
<1>6. QED
  BY <1>1, <1>2, <1>3, <1>4, <1>5 DEF SInv

\* Every step keeps the invariant.
LEMMA SInvNext == SInv /\ [Next]_vars => SInv'
<1>. SUFFICES ASSUME SInv, [Next]_vars PROVE SInv'
  OBVIOUS
<1>1. CASE Supervise
  BY <1>1, StopBeforeSpawnKeeps, SpawnOkKeeps, SpawnFailsKeeps, HandshakeOkKeeps,
     HandshakeFailsKeeps, ReportKeeps, ReportRefusedKeeps, ChildExitedKeeps,
     MonitorCancelledKeeps, GraceOverKeeps, BackoffOverKeeps DEF Supervise
<1>2. CASE Main
  BY <1>2, MainKeeps
<1>3. CASE (\E i \in running : ChildExits(i)) \/ ChildHangsUp
  BY <1>3, ChildKeeps
<1>4. CASE UNCHANGED vars
  BY <1>4 DEF vars, childVars, mainVars, SInv, TypeOK, Signals, AllSignalled, Counted,
              Handles, HandleCurrent, NoOrphans
<1>5. QED
  BY <1>1, <1>2, <1>3, <1>4 DEF Next

\* The supervisor's and main's variables keep their types.
THEOREM TypeCorrect == Spec => []TypeOK
BY SInvInit, SInvNext, PTL DEF Spec, SInv

\* Every process run_supervisor leaves behind has been sent SIGTERM.
THEOREM AllSignalledProved == Spec => []AllSignalled
BY SInvInit, SInvNext, PTL DEF Spec, SInv, Signals

\* At most one process is supposed to be serving.
THEOREM OneLifeProved == Spec => []OneLife
<1>1. SInv => OneLife
  <2>. SUFFICES ASSUME SInv, NEW i \in running \ signalled
                PROVE  i = spawned /\ pc \in {"handshake", "report", "monitor"}
    BY DEF OneLife
  <2>1. spawned \in Nat /\ i \in 1..spawned
    BY DEF SInv, TypeOK
  <2>2. pc \in {"handshake", "report", "monitor"}
    BY <2>1 DEF SInv, TypeOK, Signals, AllSignalled
  <2>3. i \notin 1..(spawned - 1)
    BY <2>2 DEF SInv, Signals
  <2>4. QED
    BY <2>1, <2>2, <2>3
<1>2. QED
  BY <1>1, SInvInit, SInvNext, PTL DEF Spec

\* max_restarts bounds the attempts in a row.
THEOREM AttemptsProved == Spec => []AttemptsBounded
<1>1. SInv => AttemptsBounded
  BY DEF SInv, Counted, AttemptsBounded
<1>2. QED
  BY <1>1, SInvInit, SInvNext, PTL DEF Spec

\* The supervisor and the gateway's backend map mean the same process.
THEOREM HandleProved == Spec => []HandleCurrent
BY SInvInit, SInvNext, PTL DEF Spec, SInv, Handles

\* An orderly exit leaves no process behind (main's wait for the supervisors).
THEOREM NoOrphansProved == Spec => []NoOrphans
BY SInvInit, SInvNext, PTL DEF Spec, SInv
=============================================================================
