---------------------------- MODULE StdioBackend ----------------------------
(***************************************************************************)
(* One child process behind a StdioBackend (src/backend/stdio.rs): send,   *)
(* the stdin writer and stdout reader tasks, the pending map and its       *)
(* oneshot channels, and the child itself, which may read late, answer out *)
(* of order or never, hang up or die.                                      *)
(*                                                                         *)
(* Sends come one at a time: the supervisor's handshake (ids 1 and 2, with *)
(* a notification in between), then the dispatch loop's calls, with the    *)
(* increasing ids of the IdRemapper.  Request n is the n-th send.  The     *)
(* child answers a request at most once, and may send requests of its own  *)
(* at any time, under ids of its own choice.                               *)
(***************************************************************************)
EXTENDS HashMaps, Integers, Sequences

CONSTANTS
  QueueCap,    \* capacity of the stdin channel (64)
  PipeCap,     \* lines the child's stdin pipe holds
  MaxSends,    \* bound on the number of sends
  MaxId,       \* bound on the ids
  MaxAsks      \* bound on the requests the child sends

ASSUME CapAssumption == QueueCap \in Nat \ {0} /\ PipeCap \in Nat \ {0}
ASSUME BoundAssumption == MaxSends \in Nat /\ MaxId \in Nat /\ MaxAsks \in Nat

VARIABLES
  pc, n, id,        \* the sender: where it is, the request and its id
  slot,             \* what the request's oneshot holds
  result, answered, \* how the last send returned, and with whose answer
  gid,              \* last id the remapper gave out
  pending,          \* id -> request waiting for it
  stdinq, writer,   \* channel to the writer task, and is it "up" or "gone"
  pipe, child, out, \* the child's stdin, and are its stdin and stdout "open"
  todo, answers,    \* what it has read and not answered, and its stdout
  asks,             \* requests it may still send
  reader, held,     \* the reader: "up", "holding" a sender, "gone"
  drains, born,     \* drains of pending so far; history: drains when the
                    \* request was made
  greeting          \* history: whose line was taken for the answer to
                    \* initialize

senderVars == <<n, id, gid, born>>
childVars == <<pipe, child, out, todo, answers, asks>>

vars == <<pc, senderVars, slot, result, answered, pending, stdinq, writer,
          childVars, reader, held, drains, greeting>>

\* A oneshot that holds nothing, and one whose sender was dropped.
Empty == 0
Dropped == -1

\* A line for the child, or from it: a request, or its answer.  n = 0 is a
\* notification, and n past the last send a request of the child's own.
Note == [n |-> 0, id |-> 0]
Foreign == MaxSends + 1
StdioLine == [n : Nat, id : Nat]

TypeOK ==
  /\ pc \in {"idle", "enqueue", "await", "notify", "failed"}
  /\ n \in Nat /\ id \in Nat /\ gid \in Nat
  /\ slot \in Nat \cup {Dropped}
  /\ result \in {"none", "ok", "closed", "exited", "timeout"} /\ answered \in Nat
  /\ IsMap(pending, Nat, Nat)
  /\ stdinq \in Seq(StdioLine) /\ writer \in {"up", "gone"}
  /\ pipe \in Seq(StdioLine) /\ child \in {"open", "closed"} /\ out \in {"open", "closed"}
  /\ todo \subseteq StdioLine /\ answers \in Seq(StdioLine) /\ asks \in Nat
  /\ reader \in {"up", "holding", "gone"} /\ held \in [waiter : Nat, n : Nat]
  /\ drains \in 0..2 /\ born \in 0..2 /\ greeting \in Nat

\* spawn succeeded: the pipes are connected and both tasks run.
Init ==
  /\ pc = "idle" /\ n = 0 /\ id = 0 /\ gid = 0
  /\ slot = Empty /\ result = "none" /\ answered = 0
  /\ pending = EmptyMap
  /\ stdinq = <<>> /\ writer = "up"
  /\ pipe = <<>> /\ child = "open" /\ out = "open"
  /\ todo = {} /\ answers = <<>> /\ asks = MaxAsks
  /\ reader = "up" /\ held = [waiter |-> 0, n |-> 0]
  /\ drains = 0 /\ born = 0 /\ greeting = 0
-----------------------------------------------------------------------------
(* StdioBackend::send, and the handshake around its first two calls. *)

\* The two requests of discover_stdio_tools.
Handshake == 2

\* Faulty variant of RequestIds: the remapper forgets to count.
RequestIdsReused == IF n < Handshake THEN {n + 1} ELSE {1}

\* The ids the next request may have: 1 and 2 during the handshake, then the
\* remapper's next, or a later one when other backends were called meanwhile.
RequestIds == IF n < Handshake THEN {n + 1} ELSE (gid + 1)..MaxId

\* A request gets a oneshot, whose sender goes into the pending map.
Send ==
  /\ pc = "idle" /\ n < MaxSends
  /\ \E i \in RequestIds :
       /\ id' = i
       /\ gid' = IF n < Handshake THEN gid ELSE i
       /\ pending' = Insert(pending, i, n + 1)
  /\ n' = n + 1 /\ slot' = Empty /\ born' = drains
  /\ pc' = "enqueue"
  /\ UNCHANGED <<result, answered, stdinq, writer, childVars, reader, held, drains, greeting>>

\* stdin_tx.send(..).await: waits while the channel is full, for as long as
\* that takes: the timeout does not cover it.
Enqueue ==
  /\ pc = "enqueue" /\ writer = "up"
  /\ Len(stdinq) < QueueCap
  /\ stdinq' = Append(stdinq, [n |-> n, id |-> id])
  /\ pc' = "await"
  /\ UNCHANGED <<senderVars, slot, result, answered, pending, writer, childVars, reader,
                 held, drains, greeting>>

\* Where the caller goes on.  In the handshake, any answer to initialize will
\* do, and is followed by the notification; the one to tools/list must hold
\* tools, which a request of the child's own does not.  A handshake that
\* fails abandons the process.
Continue(outcome) ==
  /\ result' = outcome
  /\ pc' \in CASE n <= Handshake /\ outcome # "ok"        -> {"failed"}
               [] n = 1 /\ outcome = "ok"                 -> {"notify"}
               [] n = Handshake /\ outcome = "ok"         ->
                    IF slot = Foreign THEN {"failed"} ELSE {"idle", "failed"}
               [] OTHER                                   -> {"idle"}

\* The writer task is gone.
EnqueueFails ==
  /\ pc = "enqueue" /\ writer = "gone"
  /\ pending' = Without(pending, id)
  /\ Continue("closed")
  /\ UNCHANGED <<senderVars, slot, answered, stdinq, writer, childVars, reader,
                 held, drains, greeting>>

ReturnOk ==
  /\ pc = "await" /\ slot \notin {Empty, Dropped}
  /\ answered' = slot /\ greeting' = IF n = 1 THEN slot ELSE greeting
  /\ Continue("ok")
  /\ UNCHANGED <<senderVars, slot, pending, stdinq, writer, childVars, reader, held, drains>>

ReturnExited ==
  /\ pc = "await" /\ slot = Dropped
  /\ Continue("exited")
  /\ UNCHANGED <<senderVars, slot, answered, pending, stdinq, writer, childVars, reader,
                 held, drains, greeting>>

\* Faulty variant of Timeout: leaves its entry in the pending map.
TimeoutLeaks ==
  /\ pc = "await" /\ slot = Empty
  /\ Continue("timeout")
  /\ UNCHANGED <<senderVars, slot, answered, pending, stdinq, writer, childVars, reader,
                 held, drains, greeting>>

\* Faulty variant of Timeout: waits for the answer, or for the child's end.
TimeoutOnExit ==
  /\ pc = "await" /\ slot = Empty /\ reader = "gone"
  /\ pending' = Without(pending, id)
  /\ Continue("timeout")
  /\ UNCHANGED <<senderVars, slot, answered, stdinq, writer, childVars, reader,
                 held, drains, greeting>>

\* The timeout elapses; an answer that is already there wins.
Timeout ==
  /\ pc = "await" /\ slot = Empty
  /\ pending' = Without(pending, id)
  /\ Continue("timeout")
  /\ UNCHANGED <<senderVars, slot, answered, stdinq, writer, childVars, reader,
                 held, drains, greeting>>

\* notifications/initialized goes straight into the channel.
Notify ==
  /\ pc = "notify"
  /\ \/ /\ writer = "up" /\ Len(stdinq) < QueueCap
        /\ stdinq' = Append(stdinq, Note) /\ pc' = "idle"
     \/ writer = "gone" /\ pc' = "failed" /\ UNCHANGED stdinq
  /\ UNCHANGED <<senderVars, slot, result, answered, pending, writer, childVars, reader,
                 held, drains, greeting>>
-----------------------------------------------------------------------------
(* The two tasks, and the supervisor when the reader has ended. *)

\* stdin_writer: one line from the channel to the pipe, when it has room.
Write ==
  /\ writer = "up" /\ stdinq # <<>>
  /\ child = "open" /\ Len(pipe) < PipeCap
  /\ pipe' = Append(pipe, Head(stdinq)) /\ stdinq' = Tail(stdinq)
  /\ UNCHANGED <<pc, senderVars, slot, result, answered, pending, writer, child, out, todo,
                 answers, asks, reader, held, drains, greeting>>

\* A write into a closed pipe ends the writer, and drops what is queued.
WriteFails ==
  /\ writer = "up" /\ stdinq # <<>> /\ child = "closed"
  /\ writer' = "gone" /\ stdinq' = <<>>
  /\ UNCHANGED <<pc, senderVars, slot, result, answered, pending, childVars, reader, held,
                 drains, greeting>>

\* Is the receiving end of request r's oneshot still there?
Listening(r) == r = n /\ pc \in {"enqueue", "await"}

\* drain_pending: every sender in the map is dropped.
Drain ==
  /\ pending' = EmptyMap
  /\ slot' = IF Listening(n) /\ n \in Range(pending) THEN Dropped ELSE slot
  /\ drains' = drains + 1

\* stdout_reader reads an answer and takes its sender out of the map.  Lines
\* that are not JSON or have no id change nothing, nor does an id that is
\* not pending.
ReadAnswer ==
  LET a == Head(answers)
  IN  /\ reader = "up" /\ answers # <<>>
      /\ answers' = Tail(answers)
      /\ IF a.id \in DOMAIN pending
           THEN /\ held' = [waiter |-> pending[a.id], n |-> a.n] /\ reader' = "holding"
                /\ pending' = Without(pending, a.id)
           ELSE UNCHANGED <<held, reader, pending>>
      /\ UNCHANGED <<pc, senderVars, slot, result, answered, stdinq, writer, pipe, child,
                     out, todo, asks, drains, greeting>>

\* tx.send(answer), which is lost when the send has timed out meanwhile.
Deliver ==
  /\ reader = "holding"
  /\ reader' = "up"
  /\ slot' = IF Listening(held.waiter) THEN held.n ELSE slot
  /\ UNCHANGED <<pc, senderVars, result, answered, pending, stdinq, writer, childVars, held,
                 drains, greeting>>

\* Faulty variant of ReadEof: leaves whoever waits to its timeout.
ReadEofKeepsPending ==
  /\ reader = "up" /\ answers = <<>> /\ out = "closed"
  /\ reader' = "gone" /\ drains' = drains + 1
  /\ UNCHANGED <<pc, senderVars, slot, result, answered, pending, stdinq, writer, childVars,
                 held, greeting>>

\* End of the child's output: stdout_reader drains the map and ends.
ReadEof ==
  /\ reader = "up" /\ answers = <<>> /\ out = "closed"
  /\ reader' = "gone" /\ Drain
  /\ UNCHANGED <<pc, senderVars, result, answered, stdinq, writer, childVars, held, greeting>>

\* A read error, such as a line that is not UTF-8, ends it the same way, and
\* with it the child's stdout.
ReadFails ==
  /\ reader = "up" /\ answers # <<>>
  /\ reader' = "gone" /\ Drain
  /\ out' = "closed" /\ answers' = <<>> /\ todo' = {}
  /\ UNCHANGED <<pc, senderVars, result, answered, stdinq, writer, pipe, child, asks,
                 held, greeting>>

\* The supervisor is past the handshake, waiting for the reader to end.
Monitoring == n > Handshake \/ (n = Handshake /\ pc = "idle")

\* The supervisor, woken by the reader's end, drains again.
DrainAgain ==
  /\ reader = "gone" /\ Monitoring /\ drains = 1
  /\ Drain
  /\ UNCHANGED <<pc, senderVars, result, answered, stdinq, writer, childVars, reader,
                 held, greeting>>
-----------------------------------------------------------------------------
(* The child. *)

ChildReads ==
  /\ child = "open" /\ pipe # <<>>
  /\ pipe' = Tail(pipe)
  /\ todo' = IF Head(pipe) = Note THEN todo ELSE todo \cup {Head(pipe)}
  /\ UNCHANGED <<pc, senderVars, slot, result, answered, pending, stdinq, writer, child, out,
                 answers, asks, reader, held, drains, greeting>>

\* It answers what it has read, each request once, in any order.
ChildAnswers ==
  /\ out = "open"
  /\ \E r \in todo : answers' = Append(answers, r) /\ todo' = todo \ {r}
  /\ UNCHANGED <<pc, senderVars, slot, result, answered, pending, stdinq, writer, pipe, child,
                 out, asks, reader, held, drains, greeting>>

\* A request of its own (ping, sampling), which nothing keeps it from sending
\* before it has been initialised.
ChildAsks ==
  /\ out = "open" /\ asks > 0
  /\ asks' = asks - 1
  /\ \E i \in 1..MaxId : answers' = Append(answers, [n |-> Foreign, id |-> i])
  /\ UNCHANGED <<pc, senderVars, slot, result, answered, pending, stdinq, writer, pipe, child,
                 out, todo, reader, held, drains, greeting>>

\* It closes its stdout, and perhaps lives on.
ChildHangsUp ==
  /\ out = "open"
  /\ out' = "closed" /\ todo' = {}
  /\ UNCHANGED <<pc, senderVars, slot, result, answered, pending, stdinq, writer, pipe, child,
                 answers, asks, reader, held, drains, greeting>>

ChildDies ==
  /\ child = "open"
  /\ child' = "closed" /\ out' = "closed" /\ todo' = {} /\ pipe' = <<>>
  /\ UNCHANGED <<pc, senderVars, slot, result, answered, pending, stdinq, writer, answers,
                 asks, reader, held, drains, greeting>>
-----------------------------------------------------------------------------
Sender == Send \/ Enqueue \/ EnqueueFails \/ ReturnOk \/ ReturnExited \/ Timeout \/ Notify
Tasks == Write \/ WriteFails \/ ReadAnswer \/ Deliver \/ ReadEof \/ ReadFails \/ DrainAgain
Child == ChildReads \/ ChildAnswers \/ ChildAsks \/ ChildHangsUp \/ ChildDies

Next == Sender \/ Tasks \/ Child

Spec == Init /\ [][Next]_vars

\* The runtime polls every task and fires its timers; of the child nothing
\* is assumed.
FairSpec ==
  /\ Spec
  /\ WF_vars(Enqueue \/ EnqueueFails)
  /\ WF_vars(ReturnOk \/ ReturnExited \/ Timeout)
  /\ WF_vars(Write \/ WriteFails)
-----------------------------------------------------------------------------
(* A send that succeeds never returns the answer to another request: neither
   a late answer to a call that timed out nor one that raced its timeout
   between the two steps of stdout_reader is taken for another's, although
   the handshake and the dispatch loop both start counting at 1.  It is the
   child's answer to that very request, or a request of the child's own that
   happens to carry the id: stdout_reader looks at nothing but the id.  The
   one exception follows from that: when a request of the child's own was
   taken for the answer to initialize, the real one may still come, and is
   taken for the answer to the loop's call with id 1. *)
OwnAnswer ==
  result = "ok" /\ pc \in {"idle", "notify"} =>
    answered \in {n, Foreign} \/ (answered = 1 /\ id = 1 /\ greeting = Foreign)

(* docs/MCP-TOPOLOGY.md, of a call to a managed stdio backend: "Response flows
   back to Claude Code": what a client's call returns is the response to it. *)
ResponseFlowsBack ==
  result = "ok" /\ pc = "idle" /\ n > Handshake => answered = n

(* The pending map holds the request in flight or nothing: each way a send
   can end gives its entry back, or finds it gone. *)
PendingClean ==
  /\ pc \notin {"enqueue", "await"} => pending = EmptyMap
  /\ DOMAIN pending \subseteq {id} /\ Range(pending) \subseteq {n}

(* When the child's output ends, the call in flight is told at once: only a
   call made after the last drain, the reader's or the supervisor's, is left
   to wait for its timeout. *)
PromptFailure ==
  reader = "gone" /\ pc \in {"enqueue", "await"} /\ slot = Empty => born = drains

(* Every send returns, whatever the child does, unless it finds the stdin
   channel full: a child that stops reading makes it wait there without a
   timeout. *)
SendReturns ==
  pc \in {"enqueue", "await"} ~>
    \/ pc \notin {"enqueue", "await"}
    \/ pc = "enqueue" /\ writer = "up" /\ Len(stdinq) = QueueCap
=============================================================================
