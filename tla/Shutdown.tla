------------------------------ MODULE Shutdown ------------------------------
(***************************************************************************)
(* The end of main (src/main.rs): run_dispatch has returned, the token is  *)
(* cancelled, the supervisors are waited for, the last audit sender is     *)
(* dropped, the audit writer (src/audit/writer.rs) is waited for, and main *)
(* returns.  #[tokio::main] then drops the runtime: the tasks that are     *)
(* left are aborted, and the call on the blocking pool that reads stdin is *)
(* waited for.                                                             *)
(*                                                                         *)
(* Everything before that is Gateway.                                      *)
(***************************************************************************)
EXTENDS GatewayProperties

VARIABLES
  main,          \* where main is
  audit_tx,      \* main's own sender: "held", "dropped"
  audit_writer   \* the writer task: "running", "done"

shutdownVars == <<main, audit_tx, audit_writer>>
allVars == <<vars, shutdownVars>>

ShutdownInit == Init /\ main = "serving" /\ audit_tx = "held" /\ audit_writer = "running"

\* main has not returned: the runtime is there to poll the tasks.
Polled(step) == main \notin {"returned", "exited"} /\ step /\ UNCHANGED shutdownVars

\* run_dispatch has returned.
DispatchReturned ==
  /\ main = "serving" /\ pc = "closed"
  /\ main' = "stopping" /\ cancelled' = "yes"
  /\ UNCHANGED <<readerVars, inbound, mcp, dispatchVars, idVars, breakers, reloadVars,
                 buckets, guard, writerVars, auditVars, enabled, audit_tx, audit_writer>>

\* Faulty variant of SupervisorsStopped: main keeps its sender.
SupervisorsStoppedHolding ==
  /\ main = "stopping"
  /\ main' = "draining"
  /\ UNCHANGED <<vars, audit_tx, audit_writer>>

\* Each supervisor has stopped, or has had its 5 s; then drop(audit_tx).
SupervisorsStopped ==
  /\ main = "stopping"
  /\ main' = "draining" /\ audit_tx' = "dropped"
  /\ UNCHANGED <<vars, audit_writer>>

\* recv returns None: no entry is left, main's sender is dropped and
\* run_dispatch's went with it.
AuditWriterDone ==
  /\ audit_writer = "running"
  /\ auditq = <<>> /\ audit_tx = "dropped" /\ pc = "closed"
  /\ audit_writer' = "done"
  /\ UNCHANGED <<vars, main, audit_tx>>

\* Faulty variant of Returns: the writer is not waited for.
ReturnsAtOnce ==
  /\ main = "draining"
  /\ main' = "returned"
  /\ UNCHANGED <<vars, audit_tx, audit_writer>>

\* audit_handle.await, and the end of main.
Returns ==
  /\ main = "draining" /\ audit_writer = "done"
  /\ main' = "returned"
  /\ UNCHANGED <<vars, audit_tx, audit_writer>>

\* The read that is under way on the blocking pool comes back, with the end
\* of the input or with a line nobody wants.
LastRead == main = "returned" /\ ReadEof /\ UNCHANGED shutdownVars

\* The runtime is gone.
Exit ==
  /\ main = "returned" /\ stdin = "eof"
  /\ main' = "exited"
  /\ UNCHANGED <<vars, audit_tx, audit_writer>>

MainSteps == DispatchReturned \/ SupervisorsStopped \/ Returns \/ Exit

ShutdownNext ==
  \/ Polled(Dispatch) \/ Polled(Return) \/ Polled(Environment)
  \/ MainSteps \/ AuditWriterDone \/ LastRead

ShutdownSpec == ShutdownInit /\ [][ShutdownNext]_allVars

\* The runtime keeps polling main and the dispatcher, backend.send returns (it
\* times out), the client reads its answers, the database answers the audit
\* writer, and tokio's RwLock queues the reload.  The client need not send
\* anything, nor hang up.
FairShutdown ==
  /\ ShutdownSpec
  /\ WF_allVars(Polled(Dispatch)) /\ WF_allVars(Polled(Return))
  /\ WF_allVars(Polled(WriteLine \/ WriteFails))
  /\ WF_allVars(Polled(AuditInsert) \/ AuditWriterDone)
  /\ WF_allVars(MainSteps)
  /\ SF_allVars(Polled(Install))
-----------------------------------------------------------------------------
(* No audit entry is abandoned: by the time main returns, every tools/call
   whose answer went out has been inserted or reported as lost, although the
   writer runs behind and cancellation may have come at any moment.  The
   writer never stops while somebody could still send to it. *)
AuditDrained ==
  /\ main \in {"returned", "exited"} =>
       /\ auditq = <<>>
       /\ \A r \in Range(Answered) :
            r.to.line.method = "tools/call" /\ r.code # "NOT_INITIALIZED" =>
              r.to.sn \in {e.sn : e \in rows \cup lost}
  /\ audit_writer = "done" => auditq = <<>> /\ pc = "closed"

(* The end of the input or a signal leads main to its end: nobody waits for a
   sender that is still alive, and the supervisors, the audit writer and the
   dispatcher do not wait for one another. *)
MainReturns == stdin = "eof" \/ cancelled = "yes" ~> main \in {"returned", "exited"}

(* When the client hangs up, the process ends.  (After a signal alone it stays
   until the client sends something or hangs up, since the drop of the runtime
   waits for the read of stdin.) *)
ExitsOnEof == stdin = "eof" ~> main = "exited"
=============================================================================
