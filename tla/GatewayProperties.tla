-------------------------- MODULE GatewayProperties --------------------------
(***************************************************************************)
(* What the dispatch loop guarantees: to the client (the session it sees), *)
(* to the operator (kill switch, RBAC, audit trail), and to the backends.  *)
(***************************************************************************)
EXTENDS Gateway

\* The line being served, if any.
Serving == IF pc \in {"recv", "closed"} THEN <<>> ELSE <<cur>>

\* Everything handed to the writer, in order.
Answered == written \o outbound

Session == INSTANCE McpSession WITH
  arrived <- sent,
  inbox   <- Serving \o inbound,
  answers <- [i \in DOMAIN Answered |-> [to |-> Answered[i].to.sn, id |-> Answered[i].id]],
  link    <- IF stdout = "open" THEN "open" ELSE "deaf",
  session <- IF pc = "closed" THEN "down" ELSE "up"

(* The client sees a plain MCP session: lines are served in order, each
   request is answered exactly once and with its own id although the backend
   saw another one, and notifications are not answered (initialize excepted).
   No refusal path of run_dispatch answers twice or forgets to answer. *)
SessionRefined == Session!SessionSpec
-----------------------------------------------------------------------------
(* A tool call reaches a backend only in a session that has been initialised,
   for a tool the caller may execute (a denied tool never, even for a role
   with the wildcard), with arguments that fit, routed to a
   connected backend, and with its tool enabled at some moment since the
   line was received.  So a tool the kill switch disabled before the call
   came in, and has not released since, is never called, however reloads
   interleave with the checks. *)
CallsGoverned ==
  pc = "call" =>
    /\ mcp = "Operational"
    /\ cur.line.method = "tools/call" /\ cur.line.kind = "request"
    /\ tool \in DOMAIN Route /\ Route[tool] \in Registered
    /\ Role \in DOMAIN Roles /\ tool \notin Roles[Role].denied_tools
    /\ \E p \in {"*", "tools.execute"} : p \in Roles[Role].permissions
    /\ ~Misfits(cur.line)
    /\ enabled = "yes"

(* What each check of run_dispatch has established by the time the next one
   runs: the inductive form of CallsGoverned. *)
DispatchInv ==
  /\ pc \in {"gate", "check", "dispatch", "call"} =>
       mcp = "Operational" /\ cur.line.method = "tools/call" /\ cur.line.kind = "request"
  /\ pc \in {"gate", "check"} => tool # Missing
  /\ pc = "gate" /\ Enabled(hot, tool) => enabled = "yes"
  /\ pc \in {"check", "dispatch", "call"} /\ tool # Missing => enabled = "yes"
  /\ pc \in {"dispatch", "call"} /\ tool # Missing => MayExecute(tool) /\ ~Misfits(cur.line)
  /\ pc = "call" => HasBreaker(tool)

\* The dispatcher has asked b's breaker and not yet recorded the outcome.
Probing(b) == pc \in {"dispatch", "call"} /\ HasBreaker(tool) /\ Route[tool] = b

Circuit(b) == INSTANCE CircuitBreaker WITH
  FailureThreshold <- FailureThreshold[b],
  RecoveryTimeout  <- RecoveryTimeout[b],
  cb   <- breakers[b],
  call <- IF Probing(b) THEN "inflight" ELSE "idle"

(* Each backend has a circuit of its own: whatever the calls to the others,
   the refusals and the reloads do, its breaker goes through the steps of
   CircuitBreaker under its own threshold and timeout.  It is asked once for
   each call that is let through and told one outcome before it is asked
   again, on every path through run_dispatch and handle_tools_call.  (This is
   Circuit(b)!Spec for all b at once.) *)
CircuitsRefined ==
  /\ \A b \in Registered : Circuit(b)!Init
  /\ [][\A b \in Registered : [Circuit(b)!Next]_(Circuit(b)!vars)]_vars

(* A half-open circuit means that its one probe is in flight right now: no
   path from allow_request leaves handle_tools_call without recording the
   outcome.  Otherwise allow_request's HalfOpen arm would let every call
   through.  Open always has a failure time to recover from. *)
ProbesRecorded ==
  \A b \in Registered :
    /\ breakers[b].state = "HalfOpen" => Probing(b)
    /\ breakers[b].state = "Open" =>
         breakers[b].since_failure # Never
         /\ breakers[b].failure_count >= FailureThreshold[b]

\* The inductive form of ProbesRecorded: a half-open circuit keeps the count
\* that opened it, so a failed probe opens it again.
ProbesInv ==
  /\ ProbesRecorded
  /\ \A b \in Registered :
       breakers[b].state = "HalfOpen" => breakers[b].failure_count >= FailureThreshold[b]

(* The remapper holds an entry exactly while a call is in flight: its own,
   with the client's id.  Nothing leaks on the error paths, and the next id
   to be given out is above every one before it. *)
IdsBalanced ==
  /\ DOMAIN mappings = IF pc = "call" THEN {gid} ELSE {}
  /\ pc = "call" => mappings[gid] = [id |-> cur.sn, backend |-> Route[tool]]
  /\ gid < next_id

(* The ids that calls go out under only grow: an answer that comes too late
   never carries the id of a later call.  StdioBackend assumes this of its
   caller (RequestIds). *)
IdsGrow == [][pc # "call" /\ pc' = "call" => gid' > gid]_vars

\* How many lines the dispatcher has taken from its channel.
Received == sent - Len(inbound)

(* Calls are metered by the configuration in force: every bucket has the rate
   hot gives its tool and never more tokens than that, so a reload leaves no
   bucket of the old limiter behind, whatever check was under way.  Buckets
   are never evicted, and unknown names get one too, since the limiter comes
   before the catalog; still there is at most one for each line received. *)
LimiterCurrent ==
  /\ \A t \in DOMAIN buckets :
       buckets[t].max_tokens = hot.rpm[t] /\ buckets[t].tokens <= hot.rpm[t]
  /\ ExistsInjection(DOMAIN buckets, 1..Received)

\* The lines that may have been given a bucket: the one at the gate not yet.
Metered == IF pc = "gate" THEN Received - 1 ELSE Received

\* The inductive form of the second half of LimiterCurrent.
BucketsCounted == Metered \in Nat /\ ExistsInjection(DOMAIN buckets, 1..Metered)

\* Audit entries by where they are.
Entries == rows \cup lost \cup Range(auditq)

\* The reply's code and the logged status tell the same story.
Agree(code, status) ==
  CASE status = "success"      -> code = "OK"
    [] status = "error"        -> code \in {"INVALID_PARAMS", "INTERNAL_ERROR", "BACKEND_ERROR"}
    [] status = "killed"       -> code = "KILL_SWITCH"
    [] status = "rate_limited" -> code = "RATE_LIMIT"
    [] status = "denied"       -> code = "AUTHZ"
    [] status = "invalid_args" -> code = "INVALID_PARAMS"
    [] status = "circuit_open" -> code = "CIRCUIT_OPEN"

(* Every tools/call that has been answered was offered to the audit log
   exactly once, with the status the client was told, whichever of the seven
   paths it took and although some paths log before they answer and some
   after.  Nothing else is logged. *)
AuditFaithful ==
  /\ \A r \in Range(Answered) :
       LET mine == {e \in Entries : e.sn = r.to.sn}
       IN  IF r.to.line.method = "tools/call" /\ r.code # "NOT_INITIALIZED"
             THEN \E e \in mine : mine = {e} /\ Agree(r.code, e.status)
             ELSE mine = {}
  /\ rows \cap lost = {}
  /\ \A i \in DOMAIN auditq : auditq[i] \notin rows \cup lost
-----------------------------------------------------------------------------
\* How many of the lines received have been dealt with.
Served == Received - Len(Serving)

(* Every line the gateway has read is dealt with, unless it shuts down first:
   refusals, reloads, a failing backend or a full channel never wedge the
   loop, provided backend.send returns and the client reads. *)
LinesServed == \A n \in 1..Len(Script) : sent >= n ~> Served >= n \/ pc = "closed"

(* A reload is not shut out by the read guard that refusals keep while they
   wait for room in the outbound channel. *)
ReloadInstalled == reload = "waiting" ~> reload = "idle" \/ pc = "closed"
==============================================================================
