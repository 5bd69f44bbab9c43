----------------------------- MODULE Supervisor -----------------------------
(***************************************************************************)
(* run_supervisor (src/backend/stdio.rs) for one stdio backend, and what   *)
(* main does with it (src/main.rs): wait up to 30 s for its tools, register *)
(* the process they came from, finish starting up, serve, and at the end   *)
(* wait up to 5 s for the supervisor to stop.                              *)
(*                                                                         *)
(* Processes are numbered in the order they are spawned.  The backoff      *)
(* delays are left out: a backoff lasts some time, or until cancellation.  *)
(***************************************************************************)
EXTENDS Naturals

CONSTANTS
  MaxRestarts,   \* max_restarts; 0 is no limit
  MaxSpawns      \* bound on the number of processes and of failed spawns

ASSUME RestartsAssumption == MaxRestarts \in Nat /\ MaxSpawns \in Nat

VARIABLES
  pc,                  \* where the supervisor is
  restart_count,
  spawned,             \* processes spawned; the last one is supervised
  running, signalled,  \* those still running, and those sent SIGTERM
  out,                 \* is the last one's stdout "open"
  chan, rx,            \* the process whose tools are in the channel (0: none),
                       \* and is the receiver "open"
  lost,                \* history: the process whose tools were dropped with it
  main, registered,    \* main, and the process its backend map holds (0: none)
  cancelled,
  attempts             \* history: spawns tried since a process last ran for
                       \* more than HEALTHY_THRESHOLD

childVars == <<spawned, running, signalled, out>>
mainVars == <<chan, rx, lost, main, registered, cancelled>>

vars == <<pc, restart_count, childVars, mainVars, attempts>>

TypeOK ==
  /\ pc \in {"spawn", "handshake", "report", "monitor", "backoff", "grace", "stopped"}
  /\ restart_count \in Nat /\ attempts \in Nat
  /\ spawned \in Nat /\ running \subseteq 1..spawned /\ signalled \subseteq 1..spawned
  /\ out \in {"open", "closed"}
  /\ chan \in 0..spawned /\ rx \in {"open", "dropped"} /\ lost \in 0..spawned
  /\ main \in {"discovering", "leaving", "starting", "running", "stopping", "exited", "aborted"}
  /\ registered \in 0..spawned
  /\ cancelled \in {"no", "yes"}

Init ==
  /\ pc = "spawn" /\ restart_count = 0 /\ attempts = 0
  /\ spawned = 0 /\ running = {} /\ signalled = {} /\ out = "closed"
  /\ chan = 0 /\ rx = "open" /\ lost = 0
  /\ main = "discovering" /\ registered = 0
  /\ cancelled = "no"
-----------------------------------------------------------------------------
(* The supervisor. *)

\* It runs as long as the gateway does.
At(place) == pc = place /\ main \notin {"exited", "aborted"}

\* Faulty variant of Retry: one restart too many.
RetryLate(count) ==
  /\ restart_count' = count + 1
  /\ pc' = IF MaxRestarts > 0 /\ count + 1 > MaxRestarts THEN "stopped" ELSE "backoff"

\* Counts a failure, and gives up or backs off.
Retry(count) ==
  /\ restart_count' = count + 1
  /\ pc' = IF MaxRestarts > 0 /\ count + 1 >= MaxRestarts THEN "stopped" ELSE "backoff"

\* kill_process_group: SIGTERM, which a process may take its time over.
Kill == signalled' = signalled \cup {spawned}

StopBeforeSpawn ==
  /\ At("spawn") /\ cancelled = "yes"
  /\ pc' = "stopped"
  /\ UNCHANGED <<restart_count, childVars, mainVars, attempts>>

SpawnOk ==
  /\ At("spawn") /\ cancelled = "no" /\ spawned < MaxSpawns
  /\ spawned' = spawned + 1
  /\ running' = running \cup {spawned + 1}
  /\ out' = "open" /\ attempts' = attempts + 1
  /\ pc' = "handshake"
  /\ UNCHANGED <<restart_count, signalled, mainVars>>

SpawnFails ==
  /\ At("spawn") /\ cancelled = "no" /\ attempts < MaxSpawns
  /\ attempts' = attempts + 1
  /\ Retry(restart_count)
  /\ UNCHANGED <<childVars, mainVars>>

\* discover_stdio_tools, which cancellation does not interrupt.
HandshakeOk ==
  /\ At("handshake") /\ out = "open"
  /\ pc' = "report"
  /\ UNCHANGED <<restart_count, childVars, mainVars, attempts>>

HandshakeFails ==
  /\ At("handshake")
  /\ Kill /\ Retry(restart_count)
  /\ UNCHANGED <<spawned, running, out, mainVars, attempts>>

\* on_tools_discovered.send: the channel holds one.
Report ==
  /\ At("report") /\ rx = "open" /\ chan = 0
  /\ chan' = spawned
  /\ pc' = "monitor"
  /\ UNCHANGED <<restart_count, childVars, rx, lost, main, registered, cancelled, attempts>>

\* Faulty variant of ReportRefused: the process is left running.
ReportRefusedLeaves ==
  /\ At("report") /\ rx = "dropped"
  /\ pc' = "stopped"
  /\ UNCHANGED <<restart_count, childVars, mainVars, attempts>>

\* Faulty variant of ReportRefused: the process is kept all the same.
ReportRefusedGoesOn ==
  /\ At("report") /\ rx = "dropped"
  /\ pc' = "monitor"
  /\ UNCHANGED <<restart_count, childVars, mainVars, attempts>>

\* main has dropped the receiver: the supervisor stops.
ReportRefused ==
  /\ At("report") /\ rx = "dropped"
  /\ Kill /\ pc' = "stopped"
  /\ UNCHANGED <<restart_count, spawned, running, out, mainVars, attempts>>

\* Faulty variant of ChildExited: relies on the process being gone.
ChildExitedNoKill ==
  /\ At("monitor") /\ out = "closed"
  /\ \E healthy \in {"yes", "no"} :
       /\ Retry(IF healthy = "yes" THEN 0 ELSE restart_count)
       /\ attempts' = IF healthy = "yes" THEN 0 ELSE attempts
  /\ UNCHANGED <<childVars, mainVars>>

\* stdout_handle completes; a process that ran for more than
\* HEALTHY_THRESHOLD wipes the count.
ChildExited ==
  /\ At("monitor") /\ out = "closed"
  /\ Kill
  /\ \E healthy \in {"yes", "no"} :
       /\ Retry(IF healthy = "yes" THEN 0 ELSE restart_count)
       /\ attempts' = IF healthy = "yes" THEN 0 ELSE attempts
  /\ UNCHANGED <<spawned, running, out, mainVars>>

\* Faulty variant of MonitorCancelled: waits for the process to exit first.
MonitorCancelledLate ==
  /\ At("monitor") /\ cancelled = "yes" /\ out = "closed"
  /\ Kill /\ pc' = "grace"
  /\ UNCHANGED <<restart_count, spawned, running, out, mainVars, attempts>>

MonitorCancelled ==
  /\ At("monitor") /\ cancelled = "yes"
  /\ Kill /\ pc' = "grace"
  /\ UNCHANGED <<restart_count, spawned, running, out, mainVars, attempts>>

\* Two seconds, whether or not the process is gone.
GraceOver ==
  /\ At("grace")
  /\ pc' = "stopped"
  /\ UNCHANGED <<restart_count, childVars, mainVars, attempts>>

BackoffOver ==
  /\ At("backoff")
  /\ pc' = IF cancelled = "yes" THEN "stopped" ELSE "spawn"
  /\ UNCHANGED <<restart_count, childVars, mainVars, attempts>>
-----------------------------------------------------------------------------
(* The processes. *)

ChildExits(i) ==
  /\ i \in running
  /\ running' = running \ {i}
  /\ out' = IF i = spawned THEN "closed" ELSE out
  /\ UNCHANGED <<pc, restart_count, spawned, signalled, mainVars, attempts>>

\* The process closes its stdout, or stdout_reader fails to read it, and it
\* runs on.
ChildHangsUp ==
  /\ out = "open"
  /\ out' = "closed"
  /\ UNCHANGED <<pc, restart_count, spawned, running, signalled, mainVars, attempts>>
-----------------------------------------------------------------------------
(* main. *)

\* tools_rx.recv() returns, and the backend is registered.
Discovered ==
  /\ main = "discovering" /\ chan # 0
  /\ registered' = chan /\ chan' = 0
  /\ main' = "leaving"
  /\ UNCHANGED <<pc, restart_count, childVars, rx, lost, cancelled, attempts>>

\* 30 s have passed, or the supervisor stopped: on without this backend.
NotDiscovered ==
  /\ main = "discovering" /\ chan = 0
  /\ main' = "leaving"
  /\ UNCHANGED <<pc, restart_count, childVars, chan, rx, lost, registered, cancelled, attempts>>

\* The receiver goes out of scope at the end of the loop body, and with it
\* what has been sent since.
DropReceiver ==
  /\ main = "leaving"
  /\ rx' = "dropped" /\ chan' = 0 /\ lost' = chan
  /\ main' = "starting"
  /\ UNCHANGED <<pc, restart_count, childVars, registered, cancelled, attempts>>

\* The other backends, authentication and the audit log are done, the signal
\* handlers are installed: run_dispatch starts.
Started ==
  /\ main = "starting"
  /\ main' = "running"
  /\ UNCHANGED <<pc, restart_count, childVars, chan, rx, lost, registered, cancelled, attempts>>

\* A `?` on authentication or on the audit log returns from main: the tasks
\* are aborted where they are.
StartupFails ==
  /\ main = "starting"
  /\ main' = "aborted"
  /\ UNCHANGED <<pc, restart_count, childVars, chan, rx, lost, registered, cancelled, attempts>>

\* A signal before the handlers are installed ends the process.
KilledEarly ==
  /\ main \in {"discovering", "leaving", "starting"}
  /\ main' = "aborted"
  /\ UNCHANGED <<pc, restart_count, childVars, chan, rx, lost, registered, cancelled, attempts>>

\* SIGTERM or SIGINT, or run_dispatch has returned.
Cancel ==
  /\ main = "running" /\ cancelled = "no"
  /\ cancelled' = "yes"
  /\ UNCHANGED <<pc, restart_count, childVars, chan, rx, lost, main, registered, attempts>>

\* run_dispatch has returned.
Shutdown ==
  /\ main = "running" /\ cancelled = "yes"
  /\ main' = "stopping"
  /\ UNCHANGED <<pc, restart_count, childVars, chan, rx, lost, registered, cancelled, attempts>>

\* Faulty variant of Exit: the supervisor is not waited for.
ExitAtOnce ==
  /\ main = "stopping"
  /\ main' = "exited"
  /\ UNCHANGED <<pc, restart_count, childVars, chan, rx, lost, registered, cancelled, attempts>>

\* The supervisor has stopped, or 5 s have passed, which only a handshake
\* can outlast.
Exit ==
  /\ main = "stopping" /\ pc \in {"stopped", "handshake"}
  /\ main' = "exited"
  /\ UNCHANGED <<pc, restart_count, childVars, chan, rx, lost, registered, cancelled, attempts>>
-----------------------------------------------------------------------------
Supervise ==
  \/ StopBeforeSpawn \/ SpawnOk \/ SpawnFails
  \/ HandshakeOk \/ HandshakeFails \/ Report \/ ReportRefused
  \/ ChildExited \/ MonitorCancelled \/ GraceOver \/ BackoffOver

Main ==
  \/ Discovered \/ NotDiscovered \/ DropReceiver \/ Started \/ StartupFails \/ KilledEarly
  \/ Cancel \/ Shutdown \/ Exit

Next == Supervise \/ Main \/ (\E i \in running : ChildExits(i)) \/ ChildHangsUp

Spec == Init /\ [][Next]_vars

\* The runtime polls the supervisor and fires its timers, and every send of
\* the handshake times out.
FairSpec == Spec /\ WF_vars(Supervise)
-----------------------------------------------------------------------------
(* No process is forgotten: whenever the supervisor goes on to the next one,
   or stops, every process it ever spawned has been sent SIGTERM, whichever
   way it was left (failed handshake, refused report, end of output,
   cancellation). *)
AllSignalled == pc \in {"spawn", "backoff", "grace", "stopped"} => signalled = 1..spawned

(* At most one process is supposed to be serving: one that still runs and
   was not told to stop is the last one spawned, and the supervisor is with
   it. *)
OneLife ==
  \A i \in running \ signalled :
    i = spawned /\ pc \in {"handshake", "report", "monitor"}

(* The process the supervisor watches over is the one the gateway talks to,
   or is about to.  The one exception is a process reported between the end
   of main's recv and the end of the receiver: its tools are dropped, and it
   is kept all the same.  Once the receiver is gone no other process is kept
   that main never heard of. *)
HandleCurrent == pc = "monitor" => spawned \in {chan, registered, lost}

(* An orderly exit leaves no process behind that was not told to stop, unless
   it is still in its handshake when the 5 s are over. *)
NoOrphans ==
  main = "exited" => running \subseteq signalled \/ pc = "handshake"

(* max_restarts bounds the spawns in a row that come to nothing, counted from
   the last process that ran for more than a minute. *)
AttemptsBounded == MaxRestarts > 0 => attempts <= MaxRestarts

(* Once cancelled the supervisor stops, in whatever state it was found, though
   the child may ignore SIGTERM (unless the gateway exits first). *)
ShutdownCompletes == cancelled = "yes" ~> pc = "stopped" \/ main = "exited"

(* README.md: "stdio Process Management - auto-restart with configurable max
   retries": the supervisor of a backend that is in service gives it up only
   when it is told to, or when its retries are used up. *)
AutoRestart ==
  pc = "stopped" /\ registered # 0 =>
    cancelled = "yes" \/ (MaxRestarts > 0 /\ restart_count >= MaxRestarts)
=============================================================================
