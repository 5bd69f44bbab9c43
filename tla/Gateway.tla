------------------------------ MODULE Gateway ------------------------------
(***************************************************************************)
(* run_dispatch and handle_tools_call (src/gateway.rs): the serial loop    *)
(* that takes one JSON-RPC line at a time from the stdin reader, runs a    *)
(* tools/call through the kill switch, the rate limiter, RBAC, schema      *)
(* validation and the circuit breaker, forwards it to a backend, and       *)
(* answers through the stdout writer.  Around it run the tasks main.rs     *)
(* spawns: the stdin reader, the stdout writer, the SIGHUP reload loop,    *)
(* the signal handler and the audit writer.                                *)
(*                                                                         *)
(* A dispatcher step ends where the code awaits or touches what another    *)
(* task can see: the channels, the hot configuration, the backend.         *)
(* Metrics are left out: nothing reads them back.                          *)
(***************************************************************************)
EXTENDS Protocol, Rbac, CircuitBreakerOps, RateLimiterOps, HashMaps, Sequences

CONSTANTS
  Backends,
  Route,             \* the catalog: tool -> backend, for the tools it lists
  Registered,        \* backends with a connection, hence with a breaker
  Schemas,           \* tools whose input schema compiled
  Role, Roles,       \* the caller's role, and rbac.roles
  HotConfigs,        \* the configurations a reload can load
  InitialHot,        \* the one the gateway starts with
  FailureThreshold, RecoveryTimeout,   \* per registered backend
  Window,            \* the limiter's 60 s, in ticks
  InboundCap, OutboundCap, AuditCap,   \* channel capacities (64, 64, 1024)
  Script,            \* Script[n]: the lines the client may send as its n-th
  MaxReloads         \* bound on the number of SIGHUPs

HotConfig ==
  [disabled_tools : SUBSET Tools, disabled_backends : SUBSET Backends,
   rpm : [Tools -> Nat]]

ASSUME CatalogAssumption ==
  /\ DOMAIN Route \subseteq Tools
  /\ Route \in [DOMAIN Route -> Backends]
  /\ Registered \subseteq Backends
  /\ Schemas \subseteq DOMAIN Route
ASSUME HotAssumption == HotConfigs \subseteq HotConfig /\ InitialHot \in HotConfig
ASSUME BreakerAssumption ==
  /\ FailureThreshold \in [Registered -> Nat]
  /\ RecoveryTimeout \in [Registered -> Nat]
ASSUME WindowAssumption == Window \in Nat \ {0}
ASSUME CapAssumption ==
  /\ InboundCap \in Nat \ {0}
  /\ OutboundCap \in Nat \ {0}
  /\ AuditCap \in Nat \ {0}
ASSUME ScriptAssumption == Script \in Seq(SUBSET Line)
ASSUME ReloadsAssumption == MaxReloads \in Nat

VARIABLES
  stdin, sent, inbound,          \* the reader: "open"/"eof", lines read, channel
  mcp,                           \* the session's McpState
  pc, cur, reply, after,         \* the dispatcher: where it is, the line it
                                 \* serves, the reply it is sending, and the
                                 \* audit status it logs once that is sent
  gid, next_id, mappings,        \* gateway_id of the call, and the IdRemapper
  breakers,                      \* the circuit breakers
  hot, buckets, guard,           \* the hot configuration, its limiter's
                                 \* buckets, and the read guard on it
  reload, loaded, reloads,       \* the SIGHUP loop
  outbound, written, stdout,     \* the writer: channel, lines out, "open"/"closed"
  auditq, rows, lost,            \* audit channel, rows inserted, entries lost
  cancelled,                     \* the CancellationToken
  enabled                        \* history: was cur's tool enabled at any
                                 \* moment since the line was received?

readerVars == <<stdin, sent>>
dispatchVars == <<pc, cur, reply, after>>
idVars == <<gid, next_id, mappings>>
reloadVars == <<hot, reload, loaded, reloads>>
writerVars == <<outbound, written, stdout>>
auditVars == <<auditq, rows, lost>>

vars == <<readerVars, inbound, mcp, dispatchVars, idVars, breakers, reloadVars,
          buckets, guard, writerVars, auditVars, cancelled, enabled>>

Code ==
  {"OK", "PARSE_ERROR", "NOT_INITIALIZED", "METHOD_NOT_FOUND", "INVALID_PARAMS",
   "INTERNAL_ERROR", "KILL_SWITCH", "RATE_LIMIT", "AUTHZ", "CIRCUIT_OPEN",
   "BACKEND_ERROR"}   \* the last: an error the backend itself answered with

AuditStatus ==
  {"killed", "rate_limited", "denied", "invalid_args", "circuit_open",
   "error", "success"}

Reply == [to : Msg, id : Nat, code : Code, tools : SUBSET Tools]
Entry == [sn : Nat, tool : Tools \cup {Missing}, status : AuditStatus]

NoMsg ==
  [sn |-> 0, line |-> [method |-> "other", kind |-> "notification",
                       tool |-> Missing, args |-> "none"]]
NoReply == [to |-> NoMsg, id |-> NullId, code |-> "OK", tools |-> {}]

ReaderType == stdin \in {"open", "eof"} /\ sent \in Nat
DispatchType ==
  /\ pc \in {"recv", "list", "gate", "check", "dispatch", "call", "send", "closed"}
  /\ cur \in Msg /\ reply \in Reply /\ after \in AuditStatus \cup {"none"}
IdType ==
  /\ gid \in Nat /\ next_id \in Nat
  /\ IsMap(mappings, Nat, [id : Nat, backend : Backends])
BreakerType ==
  /\ DOMAIN breakers = Registered
  /\ \A b \in Registered : breakers[b] \in Breaker(RecoveryTimeout[b])
HotType ==
  /\ hot \in HotConfig /\ loaded \in HotConfig
  /\ reload \in {"idle", "waiting"} /\ reloads \in Nat
WriterType ==
  /\ outbound \in Seq(Reply) /\ written \in Seq(Reply)
  /\ stdout \in {"open", "closed"}
AuditType == auditq \in Seq(Entry) /\ rows \subseteq Entry /\ lost \subseteq Entry

TypeOK ==
  /\ ReaderType /\ DispatchType /\ IdType /\ BreakerType /\ HotType /\ WriterType /\ AuditType
  /\ inbound \in Seq(Msg) /\ mcp \in McpState
  /\ IsMap(buckets, Tools, Bucket(Window)) /\ guard \in {"free", "held"}
  /\ cancelled \in {"no", "yes"} /\ enabled \in {"no", "yes"}

Init ==
  /\ stdin = "open" /\ sent = 0 /\ inbound = <<>>
  /\ mcp = "Created"
  /\ pc = "recv" /\ cur = NoMsg /\ reply = NoReply /\ after = "none"
  /\ gid = 0 /\ next_id = 1 /\ mappings = EmptyMap
  /\ breakers = [b \in Registered |-> NewBreaker]
  /\ hot = InitialHot /\ loaded = InitialHot /\ reload = "idle" /\ reloads = 0
  /\ buckets = EmptyMap /\ guard = "free"
  /\ outbound = <<>> /\ written = <<>> /\ stdout = "open"
  /\ auditq = <<>> /\ rows = {} /\ lost = {}
  /\ cancelled = "no" /\ enabled = "no"
-----------------------------------------------------------------------------
(* The stdin reader (src/transport/stdio.rs). *)

\* A line is read and sent into the channel, waiting while it is full.
ReadLine(line) ==
  /\ stdin = "open" /\ pc # "closed"
  /\ Len(inbound) < InboundCap
  /\ sent' = sent + 1
  /\ inbound' = Append(inbound, [sn |-> sent + 1, line |-> line])
  /\ UNCHANGED <<stdin, mcp, dispatchVars, idVars, breakers, reloadVars, buckets,
                 guard, writerVars, auditVars, cancelled, enabled>>

\* End of file, a read error, or a receiver that is gone.
ReadEof ==
  /\ stdin = "open"
  /\ stdin' = "eof"
  /\ UNCHANGED <<sent, inbound, mcp, dispatchVars, idVars, breakers, reloadVars,
                 buckets, guard, writerVars, auditVars, cancelled, enabled>>
-----------------------------------------------------------------------------
(* The dispatch loop: receiving a line. *)

\* reply with code, then log status (unless "none") once it is sent.
Answer(m, id, code, tools, status) ==
  /\ pc' = "send" /\ cur' = m /\ after' = status
  /\ reply' = [to |-> m, id |-> id, code |-> code, tools |-> tools]

\* The kill switch leaves the tool and its backend alone.
Enabled(config, t) ==
  /\ t \notin config.disabled_tools
  /\ t \in DOMAIN Route => Route[t] \notin config.disabled_backends

\* What tools/list shows this caller.
Listed(config) ==
  {t \in DOMAIN Route : Enabled(config, t) /\ IsToolAllowed(Role, t, "Read", Roles)}

\* The tool is routed to a backend that is connected; exactly those have a
\* breaker (main.rs).
HasBreaker(t) == t \in DOMAIN Route /\ Route[t] \in Registered

\* What no step that receives a line touches.
ReceiveFrame ==
  UNCHANGED <<readerVars, idVars, breakers, reloadVars, buckets, guard,
              writerVars, auditVars, cancelled>>

\* rx.recv() returns a line the state accepts and whose method this is.
Accepted(method) ==
  /\ pc = "recv" /\ inbound # <<>>
  /\ Head(inbound).line.method = method
  /\ CanAcceptMethod(mcp, method)
  /\ inbound' = Tail(inbound)
  /\ ReceiveFrame

\* Answers a request at once; a notification gets nothing.
AnswerRequest(m, code) ==
  IF m.line.kind = "request"
    THEN Answer(m, ClientId(m), code, {}, "none")
    ELSE UNCHANGED dispatchVars

ReceiveUnparsable ==
  /\ pc = "recv" /\ inbound # <<>>
  /\ Head(inbound).line.method = "unparsable"
  /\ inbound' = Tail(inbound)
  /\ Answer(Head(inbound), NullId, "PARSE_ERROR", {}, "none")
  /\ UNCHANGED <<mcp, enabled>> /\ ReceiveFrame

\* A method the lifecycle state does not accept.
ReceiveEarly ==
  /\ pc = "recv" /\ inbound # <<>>
  /\ Head(inbound).line.method # "unparsable"
  /\ ~CanAcceptMethod(mcp, Head(inbound).line.method)
  /\ inbound' = Tail(inbound)
  /\ AnswerRequest(Head(inbound), "NOT_INITIALIZED")
  /\ UNCHANGED <<mcp, enabled>> /\ ReceiveFrame

\* Answers even a notification, and moves on even when the params are bad
\* (missing params are bad too).
ReceiveInitialize ==
  LET m == Head(inbound)
  IN  /\ Accepted("initialize")
      /\ Answer(m, ClientId(m),
                IF m.line.args = "good" THEN "OK" ELSE "INVALID_PARAMS", {}, "none")
      /\ mcp' = "Initializing"
      /\ UNCHANGED enabled

\* Never answered, even when it carries an id.
ReceiveInitialized ==
  /\ Accepted("notifications/initialized")
  /\ mcp' = "Operational"
  /\ UNCHANGED <<dispatchVars, enabled>>

ReceivePing ==
  /\ Accepted("ping")
  /\ AnswerRequest(Head(inbound), "OK")
  /\ UNCHANGED <<mcp, enabled>>

ReceiveOther ==
  /\ Accepted("other")
  /\ AnswerRequest(Head(inbound), "METHOD_NOT_FOUND")
  /\ UNCHANGED <<mcp, enabled>>

ReceiveList ==
  /\ Accepted("tools/list")
  /\ IF Head(inbound).line.kind = "request"
       THEN pc' = "list" /\ cur' = Head(inbound) /\ UNCHANGED <<reply, after>>
       ELSE UNCHANGED dispatchVars
  /\ UNCHANGED <<mcp, enabled>>

\* A call that names no tool skips the checks.
ReceiveCall ==
  LET m == Head(inbound)
  IN  /\ Accepted("tools/call")
      /\ IF m.line.kind = "request"
           THEN /\ pc' = IF m.line.tool = Missing THEN "dispatch" ELSE "gate"
                /\ cur' = m
                /\ UNCHANGED <<reply, after>>
           ELSE UNCHANGED dispatchVars
      /\ enabled' = IF Enabled(hot, m.line.tool) THEN "yes" ELSE "no"
      /\ UNCHANGED mcp

\* Faulty variant of Close: deaf to the token.
CloseOnEof ==
  /\ pc = "recv"
  /\ stdin = "eof" /\ inbound = <<>>
  /\ pc' = "closed" /\ mcp' = "Closed" /\ inbound' = <<>>
  /\ UNCHANGED <<cur, reply, after, enabled>> /\ ReceiveFrame

\* The input channel is closed and empty, or the token is cancelled.  The
\* receiver is dropped, and with it the lines still in the channel.
Close ==
  /\ pc = "recv"
  /\ cancelled = "yes" \/ (stdin = "eof" /\ inbound = <<>>)
  /\ pc' = "closed" /\ mcp' = "Closed" /\ inbound' = <<>>
  /\ UNCHANGED <<cur, reply, after, enabled>> /\ ReceiveFrame
-----------------------------------------------------------------------------
(* The dispatch loop: tools/list, and the checks of tools/call. *)

ListTools ==
  /\ pc = "list"
  /\ Answer(cur, ClientId(cur), "OK", Listed(hot), "none")
  /\ UNCHANGED <<inbound, mcp, enabled>> /\ ReceiveFrame

tool == cur.line.tool

\* What no check touches.
CheckFrame ==
  UNCHANGED <<readerVars, inbound, mcp, idVars, reloadVars, writerVars, auditVars,
              cancelled, enabled>>

\* 1. Kill switch.  The read guard is kept until the refusal is sent.
GateKilled ==
  /\ pc = "gate" /\ ~Enabled(hot, tool)
  /\ Answer(cur, ClientId(cur), "KILL_SWITCH", {}, "killed")
  /\ guard' = "held"
  /\ UNCHANGED <<buckets, breakers>> /\ CheckFrame

BucketOf(t) == IF t \in DOMAIN buckets THEN buckets[t] ELSE NewBucket(hot.rpm[t])

\* 2. Rate limit, under the same guard.
GateLimited ==
  /\ pc = "gate" /\ Enabled(hot, tool)
  /\ ~Grants(BucketOf(tool), Window)
  /\ buckets' = Insert(buckets, tool, TryConsume(BucketOf(tool), Window))
  /\ Answer(cur, ClientId(cur), "RATE_LIMIT", {}, "rate_limited")
  /\ guard' = "held"
  /\ UNCHANGED breakers /\ CheckFrame

\* Both passed; the guard is dropped.
GatePassed ==
  /\ pc = "gate" /\ Enabled(hot, tool)
  /\ Grants(BucketOf(tool), Window)
  /\ buckets' = Insert(buckets, tool, TryConsume(BucketOf(tool), Window))
  /\ pc' = "check"
  /\ UNCHANGED <<cur, reply, after, guard, breakers>> /\ CheckFrame

MayExecute(t) == IsToolAllowed(Role, t, "Execute", Roles)

\* SchemaCache::validate fails; it is only asked when there are arguments.
Misfits(line) == line.args = "bad" /\ line.tool \in Schemas

\* The routed backend has a breaker, and it refuses.
CircuitRefuses(t) ==
  /\ HasBreaker(t)
  /\ ~Allows(breakers[Route[t]], RecoveryTimeout[Route[t]])

\* 3. RBAC, 4. schema validation, 5. circuit breaker: the first that fails.
Refusal ==
  CASE ~MayExecute(tool)    -> [code |-> "AUTHZ", status |-> "denied"]
    [] MayExecute(tool) /\ Misfits(cur.line)
                            -> [code |-> "INVALID_PARAMS", status |-> "invalid_args"]
    [] OTHER                -> [code |-> "CIRCUIT_OPEN", status |-> "circuit_open"]

CheckRefused ==
  /\ pc = "check"
  /\ ~MayExecute(tool) \/ Misfits(cur.line) \/ CircuitRefuses(tool)
  /\ Answer(cur, ClientId(cur), Refusal.code, {}, Refusal.status)
  /\ UNCHANGED <<guard, buckets, breakers>> /\ CheckFrame

CheckPassed ==
  /\ pc = "check"
  /\ MayExecute(tool) /\ ~Misfits(cur.line) /\ ~CircuitRefuses(tool)
  /\ breakers' =
       IF HasBreaker(tool)
         THEN [breakers EXCEPT ![Route[tool]] =
                 AllowRequest(breakers[Route[tool]], RecoveryTimeout[Route[tool]])]
         ELSE breakers
  /\ pc' = "dispatch"
  /\ UNCHANGED <<cur, reply, after, guard, buckets>> /\ CheckFrame
-----------------------------------------------------------------------------
(* 6. handle_tools_call, and what follows it. *)

\* audit_tx.try_send(entry): dropped when the channel is full.
TryAudit(m, status) ==
  LET e == [sn |-> m.sn, tool |-> m.line.tool, status |-> status]
  IN  IF Len(auditq) < AuditCap
        THEN auditq' = Append(auditq, e) /\ UNCHANGED lost
        ELSE lost' = lost \cup {e} /\ UNCHANGED auditq

\* Faulty variant of Conclude: an error reply is logged as a success.
ConcludeSucceeds(id, code) ==
  /\ Answer(cur, id, code, {}, "none")
  /\ TryAudit(cur, "success")
  /\ UNCHANGED <<readerVars, inbound, mcp, reloadVars, buckets, guard, writerVars,
                 rows, cancelled, enabled>>

\* handle_tools_call returned: log the outcome, then send the reply.
Conclude(id, code) ==
  /\ Answer(cur, id, code, {}, "none")
  /\ TryAudit(cur, IF code = "OK" THEN "success" ELSE "error")
  /\ UNCHANGED <<readerVars, inbound, mcp, reloadVars, buckets, guard, writerVars,
                 rows, cancelled, enabled>>

\* No name, a name the catalog does not know, or a backend that never came
\* up (the stub catalog).
DispatchFails ==
  /\ pc = "dispatch" /\ ~HasBreaker(tool)
  /\ Conclude(ClientId(cur),
              IF tool \in DOMAIN Route THEN "INTERNAL_ERROR" ELSE "INVALID_PARAMS")
  /\ UNCHANGED <<idVars, breakers>>

\* id_remapper.remap, and the request is on its way to the backend.
DispatchCall ==
  /\ pc = "dispatch" /\ HasBreaker(tool)
  /\ gid' = next_id
  /\ next_id' = next_id + 1
  /\ mappings' = Insert(mappings, next_id, [id |-> ClientId(cur), backend |-> Route[tool]])
  /\ pc' = "call"
  /\ UNCHANGED <<cur, reply, after, guard, buckets, breakers>>
  /\ UNCHANGED <<readerVars, inbound, mcp, reloadVars, writerVars, auditVars,
                 cancelled, enabled>>

\* Faulty variant of Restored: the client is shown the gateway's id.
RestoredGatewayId(fallback) == gid

\* id_remapper.restore(gateway_id), with what the caller falls back to.
Restored(fallback) == IF gid \in DOMAIN mappings THEN mappings[gid].id ELSE fallback

\* Faulty variant of CallAnswered: a body that does not parse records no
\* outcome.
CallAnsweredParsedOnly(body) ==
  /\ pc = "call"
  /\ breakers' = IF body = "garbled" THEN breakers
                 ELSE [breakers EXCEPT ![Route[tool]] = RecordSuccess(breakers[Route[tool]])]
  /\ mappings' = Without(mappings, gid)
  /\ CASE body = "result" -> Conclude(Restored(gid), "OK")
       [] body = "error"  -> Conclude(Restored(gid), "BACKEND_ERROR")
       [] OTHER           -> Conclude(Restored(NullId), "INTERNAL_ERROR")
  /\ UNCHANGED <<gid, next_id>>

\* backend.send returned a body: a result, a JSON-RPC error, or something
\* that does not parse.  All three count as a success for the breaker.
CallAnswered(body) ==
  /\ pc = "call"
  /\ breakers' = [breakers EXCEPT ![Route[tool]] = RecordSuccess(breakers[Route[tool]])]
  /\ mappings' = Without(mappings, gid)
  /\ CASE body = "result" -> Conclude(Restored(gid), "OK")
       [] body = "error"  -> Conclude(Restored(gid), "BACKEND_ERROR")
       [] OTHER           -> Conclude(Restored(NullId), "INTERNAL_ERROR")
  /\ UNCHANGED <<gid, next_id>>

\* Faulty variant of CallFailed: the id mapping is not given back.
CallFailedLeaks ==
  /\ pc = "call"
  /\ breakers' = [breakers EXCEPT ![Route[tool]] =
                    RecordFailure(breakers[Route[tool]], FailureThreshold[Route[tool]])]
  /\ Conclude(Restored(NullId), "INTERNAL_ERROR")
  /\ UNCHANGED idVars

\* Faulty variant of CallFailed: one failure is recorded twice.
CallFailedTwice ==
  LET once == RecordFailure(breakers[Route[tool]], FailureThreshold[Route[tool]])
  IN  /\ pc = "call"
      /\ breakers' = [breakers EXCEPT ![Route[tool]] =
                        RecordFailure(once, FailureThreshold[Route[tool]])]
      /\ mappings' = Without(mappings, gid)
      /\ Conclude(Restored(NullId), "INTERNAL_ERROR")
      /\ UNCHANGED <<gid, next_id>>

\* backend.send returned an error: unreachable, timed out, process gone.
CallFailed ==
  /\ pc = "call"
  /\ breakers' = [breakers EXCEPT ![Route[tool]] =
                    RecordFailure(breakers[Route[tool]], FailureThreshold[Route[tool]])]
  /\ mappings' = Without(mappings, gid)
  /\ Conclude(Restored(NullId), "INTERNAL_ERROR")
  /\ UNCHANGED <<gid, next_id>>

\* Faulty variant of SendResponse: waits for a writer that is gone.
SendResponseInsists ==
  /\ pc = "send"
  /\ stdout = "open" /\ Len(outbound) < OutboundCap
  /\ outbound' = Append(outbound, reply)
  /\ IF after = "none" THEN UNCHANGED <<auditq, lost>> ELSE TryAudit(cur, after)
  /\ guard' = "free"
  /\ pc' = "recv" /\ cur' = NoMsg /\ reply' = NoReply /\ after' = "none"
  /\ UNCHANGED <<readerVars, inbound, mcp, idVars, breakers, reloadVars, buckets,
                 written, stdout, rows, cancelled, enabled>>

\* Faulty variant of SendResponse: the read guard outlives the refusal.
SendResponseKeepsGuard ==
  /\ pc = "send"
  /\ stdout = "open" => Len(outbound) < OutboundCap
  /\ outbound' = IF stdout = "open" THEN Append(outbound, reply) ELSE outbound
  /\ IF after = "none" THEN UNCHANGED <<auditq, lost>> ELSE TryAudit(cur, after)
  /\ pc' = "recv" /\ cur' = NoMsg /\ reply' = NoReply /\ after' = "none"
  /\ UNCHANGED <<readerVars, inbound, mcp, idVars, breakers, reloadVars, buckets, guard,
                 written, stdout, rows, cancelled, enabled>>

\* send_response, waiting while the channel is full and dropping the reply
\* when the writer is gone; then the audit entry of a refusal; then, with
\* the end of its scope, the read guard.
SendResponse ==
  /\ pc = "send"
  /\ stdout = "open" => Len(outbound) < OutboundCap
  /\ outbound' = IF stdout = "open" THEN Append(outbound, reply) ELSE outbound
  /\ IF after = "none" THEN UNCHANGED <<auditq, lost>> ELSE TryAudit(cur, after)
  /\ guard' = "free"
  /\ pc' = "recv" /\ cur' = NoMsg /\ reply' = NoReply /\ after' = "none"
  /\ UNCHANGED <<readerVars, inbound, mcp, idVars, breakers, reloadVars, buckets,
                 written, stdout, rows, cancelled, enabled>>
-----------------------------------------------------------------------------
(* The other tasks. *)

WriteLine ==
  /\ stdout = "open" /\ outbound # <<>>
  /\ written' = Append(written, Head(outbound))
  /\ outbound' = Tail(outbound)
  /\ UNCHANGED <<readerVars, inbound, mcp, dispatchVars, idVars, breakers, reloadVars,
                 buckets, guard, stdout, auditVars, cancelled, enabled>>

\* A write error ends the writer; what the channel holds goes with it.
WriteFails ==
  /\ stdout = "open" /\ outbound # <<>>
  /\ stdout' = "closed" /\ outbound' = <<>>
  /\ UNCHANGED <<readerVars, inbound, mcp, dispatchVars, idVars, breakers, reloadVars,
                 buckets, guard, written, auditVars, cancelled, enabled>>

\* audit_writer inserts an entry, or logs that it could not.
AuditInsert ==
  /\ auditq # <<>>
  /\ auditq' = Tail(auditq)
  /\ \/ rows' = rows \cup {Head(auditq)} /\ UNCHANGED lost
     \/ lost' = lost \cup {Head(auditq)} /\ UNCHANGED rows
  /\ UNCHANGED <<readerVars, inbound, mcp, dispatchVars, idVars, breakers, reloadVars,
                 buckets, guard, writerVars, cancelled, enabled>>

\* SIGHUP: the file is read.  A file that does not load changes nothing.
Reload(config) ==
  /\ reload = "idle" /\ reloads < MaxReloads
  /\ reload' = "waiting" /\ loaded' = config /\ reloads' = reloads + 1
  /\ UNCHANGED <<readerVars, inbound, mcp, dispatchVars, idVars, breakers, hot,
                 buckets, guard, writerVars, auditVars, cancelled, enabled>>

\* Faulty variant of Install: the limiter keeps its buckets.
InstallKeepsBuckets ==
  /\ reload = "waiting" /\ guard = "free"
  /\ hot' = loaded /\ reload' = "idle"
  /\ enabled' = IF Enabled(loaded, tool) THEN "yes" ELSE enabled
  /\ UNCHANGED <<readerVars, inbound, mcp, dispatchVars, idVars, breakers, loaded,
                 reloads, buckets, guard, writerVars, auditVars, cancelled>>

\* The write lock is granted: kill switch and limiter are replaced, and the
\* new limiter starts with no buckets.
Install ==
  /\ reload = "waiting" /\ guard = "free"
  /\ hot' = loaded /\ buckets' = EmptyMap /\ reload' = "idle"
  /\ enabled' = IF Enabled(loaded, tool) THEN "yes" ELSE enabled
  /\ UNCHANGED <<readerVars, inbound, mcp, dispatchVars, idVars, breakers, loaded,
                 reloads, guard, writerVars, auditVars, cancelled>>

\* SIGTERM or SIGINT.
Cancel ==
  /\ cancelled = "no"
  /\ cancelled' = "yes"
  /\ UNCHANGED <<readerVars, inbound, mcp, dispatchVars, idVars, breakers, reloadVars,
                 buckets, guard, writerVars, auditVars, enabled>>

Tick ==
  /\ buckets' = [t \in DOMAIN buckets |-> BucketTick(buckets[t], Window)]
  /\ breakers' = [b \in Registered |-> BreakerTick(breakers[b], RecoveryTimeout[b])]
  /\ UNCHANGED <<readerVars, inbound, mcp, dispatchVars, idVars, reloadVars, guard,
                 writerVars, auditVars, cancelled, enabled>>
-----------------------------------------------------------------------------
Receive ==
  \/ ReceiveUnparsable \/ ReceiveEarly \/ ReceiveInitialize \/ ReceiveInitialized
  \/ ReceivePing \/ ReceiveOther \/ ReceiveList \/ ReceiveCall

Return == (\E body \in {"result", "error", "garbled"} : CallAnswered(body)) \/ CallFailed

Dispatch ==
  \/ Receive \/ Close \/ ListTools
  \/ GateKilled \/ GateLimited \/ GatePassed
  \/ CheckRefused \/ CheckPassed
  \/ DispatchFails \/ DispatchCall
  \/ SendResponse

Environment ==
  \/ (sent < Len(Script) /\ \E line \in Script[sent + 1] : ReadLine(line))
  \/ ReadEof
  \/ WriteLine \/ WriteFails
  \/ AuditInsert
  \/ (\E config \in HotConfigs : Reload(config)) \/ Install
  \/ Cancel \/ Tick

Next == Dispatch \/ Return \/ Environment

Spec == Init /\ [][Next]_vars
=============================================================================
