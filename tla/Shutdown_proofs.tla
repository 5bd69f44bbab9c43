--------------------------- MODULE Shutdown_proofs ---------------------------
(***************************************************************************)
(* Proofs about what the client and the audit log see of the dispatch loop *)
(* up to the end of main, for every set of tools and backends, every       *)
(* catalog, role, configuration, channel capacity and client script.       *)
(***************************************************************************)
EXTENDS Shutdown, Gateway_proofs, SequenceTheorems

(* Sequences. *)

\* Appending adds one element to the range.
LEMMA RangeAppend ==
  ASSUME NEW S, NEW s \in Seq(S), NEW x \in S
  PROVE  Range(Append(s, x)) = Range(s) \cup {x}
<1>1. /\ Append(s, x) \in Seq(S) /\ Len(Append(s, x)) = Len(s) + 1
      /\ \A i \in 1..Len(s) : Append(s, x)[i] = s[i]
      /\ Append(s, x)[Len(s) + 1] = x
  BY AppendProperties
<1>2. DOMAIN s = 1..Len(s) /\ DOMAIN Append(s, x) = 1..(Len(s) + 1) /\ Len(s) \in Nat
  BY <1>1, LenProperties
<1>3. ASSUME NEW y \in Range(Append(s, x)) PROVE y \in Range(s) \cup {x}
  <2>1. PICK i \in 1..(Len(s) + 1) : y = Append(s, x)[i]
    BY <1>2, <1>3 DEF Range
  <2>2. CASE i \in 1..Len(s)
    BY <1>1, <1>2, <2>1, <2>2 DEF Range
  <2>3. CASE i = Len(s) + 1
    BY <1>1, <2>1, <2>3
  <2>4. QED
    BY <1>2, <2>2, <2>3
<1>4. ASSUME NEW y \in Range(s) PROVE y \in Range(Append(s, x))
  <2>1. PICK i \in 1..Len(s) : y = s[i]
    BY <1>2, <1>4 DEF Range
  <2>2. i \in 1..(Len(s) + 1) /\ Append(s, x)[i] = y
    BY <1>1, <1>2, <2>1
  <2>3. QED
    BY <1>2, <2>2 DEF Range
<1>5. x \in Range(Append(s, x))
  <2>1. Len(s) + 1 \in 1..(Len(s) + 1)
    BY <1>2
  <2>2. QED
    BY <1>1, <1>2, <2>1 DEF Range
<1>6. QED
  BY <1>3, <1>4, <1>5

\* The head and the range of the tail make up the range.
LEMMA RangeHeadTail ==
  ASSUME NEW S, NEW s \in Seq(S), s # <<>>
  PROVE  Range(s) = {Head(s)} \cup Range(Tail(s))
<1>1. /\ Tail(s) \in Seq(S) /\ Len(Tail(s)) = Len(s) - 1
      /\ \A i \in 1..Len(Tail(s)) : Tail(s)[i] = s[i + 1]
  BY HeadTailProperties
<1>2. /\ DOMAIN s = 1..Len(s) /\ Len(s) \in Nat \ {0} /\ Head(s) = s[1]
      /\ DOMAIN Tail(s) = 1..(Len(s) - 1)
  BY <1>1, LenProperties, EmptySeq
<1>3. ASSUME NEW y \in Range(s) PROVE y \in {Head(s)} \cup Range(Tail(s))
  <2>1. PICK i \in 1..Len(s) : y = s[i]
    BY <1>2, <1>3 DEF Range
  <2>2. CASE i = 1
    BY <1>2, <2>1, <2>2
  <2>3. CASE i # 1
    <3>1. i - 1 \in 1..(Len(s) - 1) /\ (i - 1) + 1 = i
      BY <1>2, <2>3
    <3>2. Tail(s)[i - 1] = y
      BY <1>1, <2>1, <3>1
    <3>3. QED
      BY <1>2, <3>1, <3>2, Zenon DEF Range
  <2>4. QED
    BY <2>2, <2>3
<1>4. ASSUME NEW y \in Range(Tail(s)) PROVE y \in Range(s)
  <2>1. PICK i \in 1..(Len(s) - 1) : y = Tail(s)[i]
    BY <1>2, <1>4 DEF Range
  <2>2. i + 1 \in 1..Len(s) /\ s[i + 1] = y
    BY <1>1, <1>2, <2>1
  <2>3. QED
    BY <1>2, <2>2 DEF Range
<1>5. Head(s) \in Range(s)
  <2>1. 1 \in 1..Len(s)
    BY <1>2
  <2>2. QED
    BY <1>2, <2>1 DEF Range
<1>6. QED
  BY <1>3, <1>4, <1>5
-----------------------------------------------------------------------------
(* A step as the client and the audit log see it. *)

\* The client is talked to and calls are logged through these only.
view == <<sent, inbound, dispatchVars, writerVars, auditVars>>

\* A line leaves the channel: it needs no answer, or the dispatcher starts on
\* it, or it is answered at once, a call only because the session is not
\* initialised.
Skip(m) == UNCHANGED dispatchVars /\ ~Session!MustAnswer(m)
Start(m) ==
  /\ pc' \in {"list", "gate", "dispatch"} /\ cur' = m
  /\ m.line.kind = "request"
  /\ pc' = "list" => m.line.method = "tools/list"
Retort(m) ==
  \E code \in Code :
    /\ Answer(m, ClientId(m), code, {}, "none")
    /\ ~Session!MustIgnore(m)
    /\ m.line.method = "tools/call" => code = "NOT_INITIALIZED"
Take ==
  /\ pc = "recv" /\ inbound # <<>> /\ inbound' = Tail(inbound)
  /\ UNCHANGED <<sent, writerVars, auditVars>>
  /\ Skip(Head(inbound)) \/ Start(Head(inbound)) \/ Retort(Head(inbound))

\* A check is passed, or the call is on its way.
Advance ==
  /\ pc \in {"gate", "check", "dispatch"} /\ pc' \in {"check", "dispatch", "call"}
  /\ UNCHANGED <<sent, inbound, cur, reply, after, writerVars, auditVars>>

\* The list is answered; a call is refused, and logged once that is sent; a
\* call is over, and logged before the answer is sent.
ListReply ==
  /\ pc = "list"
  /\ \E tools : Answer(cur, ClientId(cur), "OK", tools, "none")
  /\ UNCHANGED <<sent, inbound, writerVars, auditVars>>
Refuse ==
  /\ pc \in {"gate", "check"}
  /\ \E code \in Code \ {"NOT_INITIALIZED"}, status \in AuditStatus :
       Answer(cur, ClientId(cur), code, {}, status) /\ Agree(code, status)
  /\ UNCHANGED <<sent, inbound, writerVars, auditVars>>
Finish ==
  /\ pc \in {"dispatch", "call"}
  /\ \E code \in Code \ {"NOT_INITIALIZED"}, status \in AuditStatus :
       /\ Answer(cur, ClientId(cur), code, {}, "none")
       /\ TryAudit(cur, status)
       /\ Agree(code, status)
  /\ UNCHANGED <<sent, inbound, writerVars, rows>>

\* What the dispatcher knows of the list request it serves, and of the reply
\* it is about to send.
ReplyInv ==
  /\ pc = "list" => cur.line.kind = "request" /\ cur.line.method = "tools/list"
  /\ pc = "send" =>
       reply.to = cur /\ reply.id = ClientId(cur) /\ ~Session!MustIgnore(cur)

\* Whatever receives a line takes it.
LEMMA ReceiveTakes == ASSUME TypeOK, Receive PROVE Take
<1>. USE DEF readerVars, dispatchVars, writerVars, auditVars
<1>. DEFINE m == Head(inbound)
<1>1. m \in Msg /\ pc = "recv" /\ inbound # <<>> /\ inbound' = Tail(inbound)
      /\ UNCHANGED <<sent, writerVars, auditVars>>
  <2>1. pc = "recv" /\ inbound # <<>> /\ inbound' = Tail(inbound) /\ ReceiveFrame
    BY Zenon DEF Receive, ReceiveUnparsable, ReceiveEarly, ReceiveInitialize,
                 ReceiveInitialized, ReceivePing, ReceiveOther, ReceiveList, ReceiveCall, Accepted
  <2>2. UNCHANGED <<sent, writerVars, auditVars>>
    BY <2>1, Zenon DEF ReceiveFrame
  <2>3. QED
    BY <2>1, <2>2, HeadTyped
<1>2. m.line.kind \in {"request", "notification"} /\ m.line.method \in Method
  BY <1>1 DEF Msg, Line
<1>3. ASSUME NEW code \in Code, AnswerRequest(m, code), m.line.method # "unparsable",
             m.line.method = "tools/call" => code = "NOT_INITIALIZED"
      PROVE  Skip(m) \/ Retort(m)
  <2>1. CASE m.line.kind = "request"
    BY <1>3, <2>1, Zenon DEF AnswerRequest, Retort, Session!MustIgnore
  <2>2. CASE m.line.kind # "request"
    BY <1>3, <2>2, Zenon DEF AnswerRequest, Skip, Session!MustAnswer
  <2>3. QED
    BY <2>1, <2>2
<1>4. Skip(m) \/ Start(m) \/ Retort(m)
  <2>1. CASE ReceiveUnparsable
    BY <2>1 DEF ReceiveUnparsable, Retort, Session!MustIgnore, ClientId, Code
  <2>2. CASE ReceiveEarly
    BY <1>3, <2>2, Zenon DEF ReceiveEarly, Code
  <2>3. CASE ReceiveInitialize
    BY <2>3 DEF ReceiveInitialize, Accepted, Retort, Session!MustIgnore, Code
  <2>4. CASE ReceiveInitialized
    BY <2>4 DEF ReceiveInitialized, Accepted, Skip, Session!MustAnswer
  <2>5. CASE ReceivePing
    BY <1>3, <2>5 DEF ReceivePing, Accepted, Code
  <2>6. CASE ReceiveOther
    BY <1>3, <2>6 DEF ReceiveOther, Accepted, Code
  <2>7. CASE ReceiveList
    BY <1>2, <2>7 DEF ReceiveList, Accepted, Skip, Start, Session!MustAnswer
  <2>8. CASE ReceiveCall
    BY <1>2, <2>8 DEF ReceiveCall, Accepted, Skip, Start, Session!MustAnswer
  <2>9. QED
    BY <2>1, <2>2, <2>3, <2>4, <2>5, <2>6, <2>7, <2>8 DEF Receive
<1>5. QED
  BY <1>1, <1>4, Zenon DEF Take

\* A refusal is told and logged as the same thing.
LEMMA RefusalAgrees ==
  /\ Refusal.code \in Code \ {"NOT_INITIALIZED"} /\ Refusal.status \in AuditStatus
  /\ Agree(Refusal.code, Refusal.status)
<1>1. \/ Refusal = [code |-> "AUTHZ", status |-> "denied"]
      \/ Refusal = [code |-> "INVALID_PARAMS", status |-> "invalid_args"]
      \/ Refusal = [code |-> "CIRCUIT_OPEN", status |-> "circuit_open"]
  BY Zenon DEF Refusal
<1>2. CASE Refusal = [code |-> "AUTHZ", status |-> "denied"]
  BY <1>2 DEF Agree, Code, AuditStatus
<1>3. CASE Refusal = [code |-> "INVALID_PARAMS", status |-> "invalid_args"]
  BY <1>3 DEF Agree, Code, AuditStatus
<1>4. CASE Refusal = [code |-> "CIRCUIT_OPEN", status |-> "circuit_open"]
  BY <1>4 DEF Agree, Code, AuditStatus
<1>5. QED
  BY <1>1, <1>2, <1>3, <1>4

\* The checks pass a call on or refuse it.
LEMMA CheckSeen ==
  ASSUME GateKilled \/ GateLimited \/ GatePassed \/ CheckRefused \/ CheckPassed \/ DispatchCall
  PROVE  Advance \/ Refuse
<1>. USE DEF readerVars, writerVars, auditVars
<1>1. CASE GateKilled
  <2>1. /\ pc = "gate" /\ Answer(cur, ClientId(cur), "KILL_SWITCH", {}, "killed")
        /\ UNCHANGED <<sent, inbound, writerVars, auditVars>>
    BY <1>1, Zenon DEF GateKilled, CheckFrame
  <2>2. "KILL_SWITCH" \in Code \ {"NOT_INITIALIZED"} /\ "killed" \in AuditStatus
        /\ Agree("KILL_SWITCH", "killed")
    BY DEF Code, AuditStatus, Agree
  <2>3. QED
    BY <2>1, <2>2, Zenon DEF Refuse
<1>2. CASE GateLimited
  <2>1. /\ pc = "gate" /\ Answer(cur, ClientId(cur), "RATE_LIMIT", {}, "rate_limited")
        /\ UNCHANGED <<sent, inbound, writerVars, auditVars>>
    BY <1>2, Zenon DEF GateLimited, CheckFrame
  <2>2. "RATE_LIMIT" \in Code \ {"NOT_INITIALIZED"} /\ "rate_limited" \in AuditStatus
        /\ Agree("RATE_LIMIT", "rate_limited")
    BY DEF Code, AuditStatus, Agree
  <2>3. QED
    BY <2>1, <2>2, Zenon DEF Refuse
<1>3. CASE GatePassed \/ CheckPassed \/ DispatchCall
  BY <1>3, Zenon DEF GatePassed, CheckPassed, DispatchCall, CheckFrame, Advance
<1>4. CASE CheckRefused
  <2>1. /\ pc = "check" /\ Answer(cur, ClientId(cur), Refusal.code, {}, Refusal.status)
        /\ UNCHANGED <<sent, inbound, writerVars, auditVars>>
    BY <1>4, Zenon DEF CheckRefused, CheckFrame
  <2>2. QED
    BY <2>1, RefusalAgrees, Zenon DEF Refuse
<1>5. QED
  BY <1>1, <1>2, <1>3, <1>4

\* handle_tools_call ends with one answer, under the client's id, and one
\* entry that agrees with it.
LEMMA FinishSeen ==
  ASSUME DispatchInv, IdsBalanced, DispatchFails \/ Return
  PROVE  Finish
<1>. USE DEF readerVars, writerVars, auditVars
<1>1. ASSUME NEW code \in {"OK", "INVALID_PARAMS", "INTERNAL_ERROR", "BACKEND_ERROR"},
             pc \in {"dispatch", "call"}, Conclude(ClientId(cur), code)
      PROVE  Finish
  <2>. DEFINE status == IF code = "OK" THEN "success" ELSE "error"
  <2>1. /\ Answer(cur, ClientId(cur), code, {}, "none") /\ TryAudit(cur, status)
        /\ UNCHANGED <<sent, inbound, writerVars, rows>>
    BY <1>1, Zenon DEF Conclude
  <2>2. code \in Code \ {"NOT_INITIALIZED"} /\ status \in AuditStatus /\ Agree(code, status)
    BY Zenon DEF Code, AuditStatus, Agree
  <2>. HIDE DEF status
  <2>3. QED
    BY <1>1, <2>1, <2>2, Zenon DEF Finish
<1>2. CASE DispatchFails
  <2>1. /\ pc = "dispatch"
        /\ Conclude(ClientId(cur),
                    IF tool \in DOMAIN Route THEN "INTERNAL_ERROR" ELSE "INVALID_PARAMS")
    BY <1>2, Zenon DEF DispatchFails
  <2>2. QED
    BY <1>1, <2>1, Zenon
<1>3. CASE Return
  <2>1. pc = "call"
    BY <1>3, Zenon DEF Return, CallAnswered, CallFailed
  <2>2. ClientId(cur) = cur.sn
    BY <2>1 DEF DispatchInv, ClientId
  <2>3. \A x : Restored(x) = ClientId(cur)
    BY <2>1, <2>2 DEF IdsBalanced, Restored
  <2>4. \E x : \E code \in {"OK", "INVALID_PARAMS", "INTERNAL_ERROR", "BACKEND_ERROR"} :
           Conclude(Restored(x), code)
    <3>1. CASE CallFailed
      BY <3>1, Zenon DEF CallFailed
    <3>2. ASSUME NEW body \in {"result", "error", "garbled"}, CallAnswered(body)
          PROVE  \/ Conclude(Restored(gid), "OK") \/ Conclude(Restored(gid), "BACKEND_ERROR")
                 \/ Conclude(Restored(NullId), "INTERNAL_ERROR")
      BY <3>2, Zenon DEF CallAnswered
    <3>3. QED
      BY <1>3, <3>1, <3>2, Zenon DEF Return
  <2>5. QED
    BY <1>1, <2>1, <2>3, <2>4, Zenon
<1>4. QED
  BY <1>2, <1>3

\* Every step of the gateway, as the client and the audit log see it.
LEMMA StepSeen ==
  ASSUME IInv, [Next]_vars
  PROVE  \/ Take \/ Close \/ ListReply \/ Advance \/ Refuse \/ Finish \/ SendResponse
         \/ (\E line \in Line : ReadLine(line)) \/ WriteLine \/ WriteFails \/ AuditInsert
         \/ UNCHANGED view
<1>. USE DEF readerVars, dispatchVars, writerVars, auditVars
<1>1. CASE Dispatch
  <2>1. CASE ListTools
    BY <2>1, Zenon DEF ListTools, ListReply, ReceiveFrame
  <2>2. QED
    BY <1>1, <2>1, ReceiveTakes, CheckSeen, FinishSeen, Zenon DEF Dispatch, IInv
<1>2. CASE Return
  BY <1>2, FinishSeen, Zenon DEF IInv
<1>3. CASE Environment
  <2>1. ASSUME sent < Len(Script), NEW line \in Script[sent + 1]
        PROVE  line \in Line
    <3>1. sent + 1 \in 1..Len(Script)
      BY <2>1, ScriptAssumption DEF IInv, TypeOK, ReaderType
    <3>2. Script[sent + 1] \in SUBSET Line
      BY <3>1, ScriptAssumption, ElementOfSeq
    <3>3. QED
      BY <2>1, <3>2
  <2>2. CASE ReadEof \/ (\E config \in HotConfigs : Reload(config)) \/ Install \/ Cancel \/ Tick
    BY <2>2, Zenon DEF ReadEof, Reload, Install, Cancel, Tick, view
  <2>3. QED
    BY <1>3, <2>1, <2>2, Zenon DEF Environment
<1>4. CASE UNCHANGED vars
  BY <1>4, Zenon DEF vars, view
<1>5. QED
  BY <1>1, <1>2, <1>3, <1>4, Zenon DEF Next

\* Every step keeps what is known of the reply.
LEMMA StepReply == ASSUME IInv, ReplyInv, [Next]_vars PROVE ReplyInv'
<1>. USE DEF dispatchVars
<1>1. ASSUME pc' \notin {"list", "send"} PROVE ReplyInv'
  BY <1>1, Zenon DEF ReplyInv
<1>2. ASSUME UNCHANGED dispatchVars PROVE ReplyInv'
  BY <1>2 DEF ReplyInv, Session!MustIgnore, ClientId
<1>3. ASSUME NEW m, NEW code, NEW tools, NEW status,
             Answer(m, ClientId(m), code, tools, status), ~Session!MustIgnore(m)
      PROVE  ReplyInv'
  BY <1>3 DEF ReplyInv, Answer, Session!MustIgnore, ClientId
<1>4. CASE Take
  BY <1>1, <1>2, <1>3, <1>4 DEF Take, Skip, Start, Retort, ReplyInv
<1>5. CASE ListReply \/ Refuse \/ Finish
  <2>1. ~Session!MustIgnore(cur)
    BY <1>5 DEF ListReply, Refuse, Finish, IInv, DispatchInv, ReplyInv, Session!MustIgnore
  <2>2. QED
    BY <1>3, <1>5, <2>1, Zenon DEF ListReply, Refuse, Finish
<1>6. CASE Close \/ Advance \/ SendResponse
  BY <1>1, <1>6 DEF Close, Advance, SendResponse
<1>7. CASE \/ (\E line \in Line : ReadLine(line)) \/ WriteLine \/ WriteFails \/ AuditInsert
           \/ UNCHANGED view
  BY <1>2, <1>7, Zenon DEF ReadLine, WriteLine, WriteFails, AuditInsert, view
<1>8. QED
  BY <1>4, <1>5, <1>6, <1>7, StepSeen, Zenon
-----------------------------------------------------------------------------
(* The audit log. *)

\* Lines received so far, the one being served included.
Taken == sent - Len(inbound)
Busy == pc \notin {"recv", "closed"}

\* Lines are received in the order they were sent.
Numbered ==
  /\ \A i \in 1..Len(inbound) : inbound[i].sn = Taken + i
  /\ Busy => cur.sn = Taken

\* The entries of E about line sn, and what E must hold about a reply.
About(E, sn) == {e \in E : e.sn = sn}
Logs(r) == r.to.line.method = "tools/call" /\ r.code # "NOT_INITIALIZED"
Logged(r, E) ==
  IF Logs(r)
    THEN \E e \in About(E, r.to.sn) : About(E, r.to.sn) = {e} /\ Agree(r.code, e.status)
    ELSE About(E, r.to.sn) = {}

\* AuditFaithful for the answers sent; nothing is logged about the line being
\* served before its outcome is known; and a reply about to be sent is logged,
\* or will be with the status that goes with it.
AuditInv ==
  /\ \A r \in Range(Answered) : r.to.sn <= Taken /\ Logged(r, Entries)
  /\ Busy => \A r \in Range(Answered) : r.to.sn # Taken
  /\ \A e \in Entries : e.sn <= Taken
  /\ Busy /\ pc # "send" => About(Entries, Taken) = {}
  /\ pc = "send" =>
       IF after = "none"
         THEN Logged(reply, Entries)
         ELSE About(Entries, Taken) = {} /\ Logs(reply) /\ Agree(reply.code, after)

\* An entry is in one place only.
QueueInv ==
  /\ rows \cap lost = {}
  /\ \A i \in 1..Len(auditq) : auditq[i] \notin rows \cup lost
  /\ \A i, j \in 1..Len(auditq) : auditq[i] = auditq[j] => i = j

\* The inductive invariant of the session and of the audit log.
AInv == IInv /\ ReplyInv /\ Numbered /\ AuditInv /\ QueueInv

\* Replies and entries are about numbered lines.
LEMMA SeenTyped ==
  ASSUME IInv
  PROVE  /\ Answered \in Seq(Reply) /\ \A r \in Range(Answered) : r \in Reply
         /\ \A r \in Reply : r.to \in Msg /\ r.to.sn \in Nat
         /\ \A e \in Entries : e \in Entry /\ e.sn \in Nat
         /\ Taken \in Int /\ Len(inbound) \in Nat /\ cur.sn \in Nat
<1>1. Answered \in Seq(Reply)
  BY ConcatProperties DEF IInv, TypeOK, WriterType, Answered
<1>2. \A r \in Range(Answered) : r \in Reply
  BY <1>1, RangeOfSeq
<1>3. \A r \in Reply : r.to \in Msg /\ r.to.sn \in Nat
  BY DEF Reply, Msg
<1>4. \A e \in Entries : e \in Entry
  BY RangeOfSeq DEF IInv, TypeOK, AuditType, Entries
<1>5. \A e \in Entry : e.sn \in Nat
  BY DEF Entry
<1>6. Taken \in Int /\ Len(inbound) \in Nat
  BY LenProperties DEF IInv, TypeOK, ReaderType, Taken
<1>7. cur.sn \in Nat
  BY DEF IInv, TypeOK, DispatchType, Msg
<1>8. QED
  BY <1>1, <1>2, <1>3, <1>4, <1>5, <1>6, <1>7, Zenon

\* try_send puts the entry somewhere, and nothing else anywhere.
LEMMA TryAuditEntries ==
  ASSUME IInv, NEW m \in Msg, NEW status \in AuditStatus, TryAudit(m, status), rows' = rows
  PROVE  Entries' = Entries \cup {[sn |-> m.sn, tool |-> m.line.tool, status |-> status]}
<1>. DEFINE e == [sn |-> m.sn, tool |-> m.line.tool, status |-> status]
<1>1. e \in Entry
  BY DEF Msg, Line, Entry
<1>2. auditq \in Seq(Entry)
  BY DEF IInv, TypeOK, AuditType
<1>3. \/ auditq' = Append(auditq, e) /\ lost' = lost
      \/ lost' = lost \cup {e} /\ auditq' = auditq
  BY Zenon DEF TryAudit
<1>. HIDE DEF e
<1>4. ASSUME auditq' = Append(auditq, e), lost' = lost PROVE Entries' = Entries \cup {e}
  BY <1>1, <1>2, <1>4, RangeAppend DEF Entries
<1>5. ASSUME lost' = lost \cup {e}, auditq' = auditq PROVE Entries' = Entries \cup {e}
  BY <1>5 DEF Entries
<1>6. QED
  BY <1>3, <1>4, <1>5 DEF e

\* The writer moves an entry.
LEMMA InsertEntries == ASSUME IInv, AuditInsert PROVE Entries' = Entries
<1>1. auditq \in Seq(Entry) /\ auditq # <<>> /\ auditq' = Tail(auditq)
  BY DEF IInv, TypeOK, AuditType, AuditInsert
<1>2. Range(auditq) = {Head(auditq)} \cup Range(auditq')
  BY <1>1, RangeHeadTail
<1>3. \/ rows' = rows \cup {Head(auditq)} /\ lost' = lost
      \/ lost' = lost \cup {Head(auditq)} /\ rows' = rows
  BY Zenon DEF AuditInsert
<1>4. QED
  BY <1>2, <1>3 DEF Entries

\* What each step makes of the answers on their way.
LEMMA AnsweredSteps ==
  ASSUME IInv
  PROVE  /\ UNCHANGED <<outbound, written>> => Answered' = Answered
         /\ SendResponse /\ stdout = "open" => Answered' = Append(Answered, reply)
         /\ SendResponse /\ stdout # "open" => Answered' = Answered
         /\ WriteLine => Answered' = Answered
         /\ WriteFails => Answered' = written
<1>0. written \in Seq(Reply) /\ outbound \in Seq(Reply) /\ reply \in Reply
  BY DEF IInv, TypeOK, WriterType, DispatchType
<1>1. UNCHANGED <<outbound, written>> => Answered' = Answered
  BY DEF Answered
<1>2. ASSUME SendResponse, stdout = "open" PROVE Answered' = Append(Answered, reply)
  <2>1. outbound' = Append(outbound, reply) /\ written' = written
    BY <1>2, Zenon DEF SendResponse
  <2>2. Append(written \o outbound, reply) = written \o Append(outbound, reply)
    BY <1>0, SMT
  <2>3. QED
    BY <2>1, <2>2, Zenon DEF Answered
<1>3. SendResponse /\ stdout # "open" => Answered' = Answered
  BY Zenon DEF SendResponse, Answered
<1>4. ASSUME WriteLine PROVE Answered' = Answered
  <2>1. outbound # <<>> /\ written' = Append(written, Head(outbound)) /\ outbound' = Tail(outbound)
    BY <1>4, Zenon DEF WriteLine
  <2>. DEFINE h == Head(outbound)
              t == Tail(outbound)
  <2>2. h \in Reply /\ t \in Seq(Reply) /\ outbound = <<h>> \o t
    BY <1>0, <2>1, HeadTailProperties
  <2>. HIDE DEF h, t
  <2>3. Append(written, h) = written \o <<h>> /\ <<h>> \in Seq(Reply)
    BY <1>0, <2>2, AppendIsConcat
  <2>4. (written \o <<h>>) \o t = written \o (<<h>> \o t)
    BY <1>0, <2>2, <2>3, ConcatAssociative
  <2>5. QED
    BY <2>1, <2>2, <2>3, <2>4, Zenon DEF Answered, h, t
<1>5. ASSUME WriteFails PROVE Answered' = written
  <2>1. written' = written /\ outbound' = <<>>
    BY <1>5, Zenon DEF WriteFails
  <2>2. written \o <<>> = written
    BY <1>0, ConcatEmptySeq
  <2>3. QED
    BY <2>1, <2>2, Zenon DEF Answered
<1>6. QED
  BY <1>1, <1>2, <1>3, <1>4, <1>5, Zenon

\* How lines are counted.
LEMMA TakenSteps ==
  ASSUME IInv, Numbered
  PROVE  /\ Take => Taken' = Taken + 1 /\ Head(inbound) \in Msg /\ Head(inbound).sn = Taken + 1
         /\ (\E line \in Line : ReadLine(line)) => Taken' = Taken
         /\ Close => Taken' = Taken + Len(inbound)
         /\ UNCHANGED <<sent, inbound>> => Taken' = Taken
<1>0. inbound \in Seq(Msg) /\ Len(inbound) \in Nat /\ sent \in Nat
  BY LenProperties DEF IInv, TypeOK, ReaderType
<1>1. ASSUME Take
      PROVE  Taken' = Taken + 1 /\ Head(inbound) \in Msg /\ Head(inbound).sn = Taken + 1
  <2>1. inbound # <<>> /\ inbound' = Tail(inbound) /\ sent' = sent
    BY <1>1, Zenon DEF Take
  <2>2. Len(inbound') = Len(inbound) - 1 /\ Head(inbound) \in Msg /\ Head(inbound) = inbound[1]
        /\ Len(inbound) # 0
    BY <1>0, <2>1, HeadTailProperties, EmptySeq
  <2>3. Taken' = Taken + 1
    BY <1>0, <2>1, <2>2 DEF Taken
  <2>4. 1 \in 1..Len(inbound)
    BY <1>0, <2>2
  <2>5. inbound[1].sn = Taken + 1
    BY <2>4, Zenon DEF Numbered
  <2>6. QED
    BY <2>2, <2>3, <2>5, Zenon
<1>2. ASSUME NEW line \in Line, ReadLine(line) PROVE Taken' = Taken
  <2>1. sent' = sent + 1 /\ inbound' = Append(inbound, [sn |-> sent + 1, line |-> line])
    BY <1>2, Zenon DEF ReadLine
  <2>2. [sn |-> sent + 1, line |-> line] \in Msg
    BY <1>0 DEF Msg
  <2>3. Len(inbound') = Len(inbound) + 1
    BY <1>0, <2>1, <2>2, AppendProperties
  <2>4. QED
    BY <1>0, <2>1, <2>3 DEF Taken
<1>3. ASSUME Close PROVE Taken' = Taken + Len(inbound)
  <2>1. inbound' = <<>> /\ sent' = sent
    BY <1>3, Zenon DEF Close, ReceiveFrame, readerVars
  <2>2. Len(inbound') = 0
    BY <2>1
  <2>3. QED
    BY <1>0, <2>1, <2>2 DEF Taken
<1>4. UNCHANGED <<sent, inbound>> => Taken' = Taken
  BY Zenon DEF Taken
<1>5. QED
  BY <1>1, <1>2, <1>3, <1>4, Zenon

\* Every step keeps the lines in order.
LEMMA StepNumbered == ASSUME IInv, Numbered, [Next]_vars PROVE Numbered'
<1>. USE DEF dispatchVars
<1>0. inbound \in Seq(Msg) /\ Len(inbound) \in Nat /\ sent \in Nat /\ Taken \in Int
  BY LenProperties DEF IInv, TypeOK, ReaderType, Taken
<1>1. CASE Take
  <2>1. inbound # <<>> /\ inbound' = Tail(inbound)
        /\ Taken' = Taken + 1 /\ Head(inbound).sn = Taken + 1
    BY <1>1, TakenSteps, Zenon DEF Take
  <2>2. Len(inbound') = Len(inbound) - 1 /\ \A i \in 1..Len(inbound') : inbound'[i] = inbound[i + 1]
    BY <1>0, <2>1, HeadTailProperties
  <2>3. ASSUME NEW i \in 1..Len(inbound') PROVE inbound'[i].sn = Taken' + i
    <3>1. PICK j \in 1..Len(inbound) : j = i + 1
      BY <1>0, <2>2
    <3>2. inbound'[i].sn = Taken + j
      BY <2>2, <3>1 DEF Numbered
    <3>3. QED
      BY <1>0, <2>1, <3>1, <3>2
  <2>4. Busy' => cur' = Head(inbound)
    <3>1. CASE Skip(Head(inbound))
      BY <1>1, <3>1, Zenon DEF Take, Skip, Busy
    <3>2. CASE Start(Head(inbound)) \/ Retort(Head(inbound))
      BY <3>2, Zenon DEF Start, Retort, Answer
    <3>3. QED
      BY <1>1, <3>1, <3>2, Zenon DEF Take
  <2>5. QED
    BY <2>1, <2>3, <2>4, Zenon DEF Numbered
<1>2. CASE Close
  <2>1. inbound' = <<>> /\ pc' = "closed"
    BY <1>2, Zenon DEF Close
  <2>2. QED
    BY <2>1 DEF Numbered, Busy
<1>3. ASSUME NEW line \in Line, ReadLine(line) PROVE Numbered'
  <2>. DEFINE m == [sn |-> sent + 1, line |-> line]
  <2>1. inbound' = Append(inbound, m) /\ pc' = pc /\ cur' = cur /\ Taken' = Taken
    BY <1>3, TakenSteps, Zenon DEF ReadLine
  <2>2. m \in Msg /\ m.sn = sent + 1
    BY <1>0 DEF Msg
  <2>. HIDE DEF m
  <2>3. /\ Len(inbound') = Len(inbound) + 1
        /\ \A i \in 1..Len(inbound) : inbound'[i] = inbound[i]
        /\ inbound'[Len(inbound) + 1] = m
    BY <1>0, <2>1, <2>2, AppendProperties
  <2>4. ASSUME NEW i \in 1..Len(inbound') PROVE inbound'[i].sn = Taken' + i
    <3>1. CASE i \in 1..Len(inbound)
      BY <2>1, <2>3, <3>1 DEF Numbered
    <3>2. CASE i = Len(inbound) + 1
      BY <1>0, <2>1, <2>2, <2>3, <3>2 DEF Taken
    <3>3. QED
      BY <1>0, <2>3, <3>1, <3>2
  <2>5. QED
    BY <2>1, <2>4, Zenon DEF Numbered, Busy
<1>4. CASE \/ ListReply \/ Advance \/ Refuse \/ Finish \/ SendResponse
           \/ WriteLine \/ WriteFails \/ AuditInsert \/ UNCHANGED view
  <2>1. UNCHANGED <<sent, inbound>>
    BY <1>4, Zenon DEF ListReply, Advance, Refuse, Finish, SendResponse, WriteLine, WriteFails,
                       AuditInsert, view, readerVars
  <2>2. Busy' => Busy /\ cur' = cur
    <3>1. CASE ListReply \/ Advance \/ Refuse \/ Finish
      BY <3>1 DEF ListReply, Advance, Refuse, Finish, Answer, Busy
    <3>2. CASE SendResponse
      BY <3>2 DEF SendResponse, Busy
    <3>3. CASE WriteLine \/ WriteFails \/ AuditInsert \/ UNCHANGED view
      BY <3>3, Zenon DEF WriteLine, WriteFails, AuditInsert, view, Busy
    <3>4. QED
      BY <1>4, <3>1, <3>2, <3>3
  <2>3. Taken' = Taken
    BY <2>1, TakenSteps
  <2>4. QED
    BY <2>1, <2>2, <2>3, Zenon DEF Numbered
<1>5. QED
  BY <1>1, <1>2, <1>3, <1>4, StepSeen, Zenon

\* An entry about one line leaves the account of the others alone, and is the
\* whole account of its own.
LEMMA LoggedKept ==
  ASSUME NEW E, NEW r, NEW e, Logged(r, E), e.sn # r.to.sn
  PROVE  Logged(r, E \cup {e})
<1>1. About(E \cup {e}, r.to.sn) = About(E, r.to.sn)
  BY DEF About
<1>2. QED
  BY <1>1, Zenon DEF Logged

LEMMA LoggedNow ==
  ASSUME NEW E, NEW r, NEW e, About(E, r.to.sn) = {}, e.sn = r.to.sn, Logs(r),
         Agree(r.code, e.status)
  PROVE  Logged(r, E \cup {e})
<1>1. About(E \cup {e}, r.to.sn) = {e}
  BY DEF About
<1>2. QED
  BY <1>1 DEF Logged

\* Every step keeps the audit log in agreement with the answers.
LEMMA StepAudit == ASSUME IInv, ReplyInv, Numbered, AuditInv, [Next]_vars PROVE AuditInv'
<1>. USE DEF dispatchVars
<1>0. /\ \A r \in Range(Answered) : r.to.sn \in Nat /\ r.to.sn <= Taken /\ Logged(r, Entries)
      /\ \A e \in Entries : e.sn \in Nat /\ e.sn <= Taken
      /\ Busy => (\A r \in Range(Answered) : r.to.sn # Taken) /\ cur.sn = Taken
      /\ Taken \in Int /\ Len(inbound) \in Nat /\ cur \in Msg
  BY SeenTyped, Zenon DEF AuditInv, Numbered, IInv, TypeOK, DispatchType
<1>1. CASE Take
  <2>. DEFINE m == Head(inbound)
  <2>1. /\ Taken' = Taken + 1 /\ m.sn = Taken' /\ pc = "recv"
        /\ UNCHANGED <<outbound, written, auditVars>>
        /\ Skip(m) \/ Start(m) \/ Retort(m)
    BY <1>1, TakenSteps, Zenon DEF Take, writerVars
  <2>2. Answered' = Answered /\ Entries' = Entries
    BY <2>1, AnsweredSteps, Zenon DEF Entries, auditVars
  <2>3. /\ \A r \in Range(Answered) : r.to.sn <= Taken' /\ r.to.sn # Taken'
        /\ \A e \in Entries : e.sn <= Taken' /\ e.sn # Taken'
    BY <1>0, <2>1
  <2>4. About(Entries, Taken') = {}
    BY <2>3, Zenon DEF About
  <2>5. ASSUME pc' = "send" PROVE after' = "none" /\ Logged(reply', Entries)
    <3>1. Retort(m)
      BY <2>1, <2>5 DEF Skip, Start
    <3>2. PICK code \in Code : /\ Answer(m, ClientId(m), code, {}, "none")
                               /\ m.line.method = "tools/call" => code = "NOT_INITIALIZED"
      BY <3>1, Zenon DEF Retort
    <3>3. after' = "none" /\ reply'.to = m /\ reply'.code = code
      BY <3>2 DEF Answer
    <3>4. QED
      BY <2>1, <2>4, <3>2, <3>3, Zenon DEF Logged, Logs
  <2>. HIDE DEF m
  <2>6. QED
    BY <1>0, <2>2, <2>3, <2>4, <2>5, Zenon DEF AuditInv
<1>2. CASE Close
  <2>1. pc' = "closed" /\ Taken' = Taken + Len(inbound) /\ UNCHANGED <<outbound, written, auditVars>>
    BY <1>2, TakenSteps, Zenon DEF Close, ReceiveFrame, writerVars
  <2>2. Answered' = Answered /\ Entries' = Entries
    BY <2>1, AnsweredSteps, Zenon DEF Entries, auditVars
  <2>3. /\ \A r \in Range(Answered) : r.to.sn <= Taken'
        /\ \A e \in Entries : e.sn <= Taken'
    BY <1>0, <2>1
  <2>4. QED
    BY <1>0, <2>1, <2>2, <2>3 DEF AuditInv, Busy
<1>3. CASE Refuse \/ ListReply \/ Advance
  <2>1. /\ UNCHANGED <<sent, inbound, outbound, written, auditVars>>
        /\ Busy /\ pc # "send"
    BY <1>3 DEF Refuse, ListReply, Advance, Busy, writerVars
  <2>2. Answered' = Answered /\ Entries' = Entries /\ Taken' = Taken
    BY <2>1, AnsweredSteps, TakenSteps, Zenon DEF Entries, auditVars
  <2>3. About(Entries, Taken) = {}
    BY <2>1, Zenon DEF AuditInv
  <2>4. ASSUME pc' = "send"
        PROVE  IF after' = "none" THEN Logged(reply', Entries)
               ELSE Logs(reply') /\ Agree(reply'.code, after')
    <3>1. CASE ListReply
      <4>1. cur.line.method # "tools/call" /\ reply'.to = cur /\ after' = "none"
        BY <3>1 DEF ListReply, ReplyInv, Answer
      <4>2. QED
        BY <1>0, <2>1, <2>3, <4>1, Zenon DEF Logged, Logs
    <3>2. CASE Refuse
      <4>1. PICK code \in Code \ {"NOT_INITIALIZED"}, status \in AuditStatus :
               Answer(cur, ClientId(cur), code, {}, status) /\ Agree(code, status)
        BY <3>2, Zenon DEF Refuse
      <4>2. reply'.to = cur /\ reply'.code = code /\ after' = status /\ status # "none"
        BY <4>1 DEF Answer, AuditStatus
      <4>3. cur.line.method = "tools/call"
        BY <3>2 DEF Refuse, IInv, DispatchInv
      <4>4. QED
        BY <4>1, <4>2, <4>3 DEF Logs
    <3>3. QED
      BY <1>3, <2>4, <3>1, <3>2 DEF Advance
  <2>5. QED
    BY <1>0, <2>1, <2>2, <2>3, <2>4, Zenon DEF AuditInv
<1>4. CASE Finish
  <2>1. PICK code \in Code \ {"NOT_INITIALIZED"}, status \in AuditStatus :
           /\ Answer(cur, ClientId(cur), code, {}, "none")
           /\ TryAudit(cur, status)
           /\ Agree(code, status)
    BY <1>4, Zenon DEF Finish
  <2>. DEFINE e == [sn |-> cur.sn, tool |-> cur.line.tool, status |-> status]
  <2>2. /\ UNCHANGED <<sent, inbound, outbound, written, rows>>
        /\ Busy /\ pc # "send" /\ cur.line.method = "tools/call"
    BY <1>4 DEF Finish, Busy, writerVars, IInv, DispatchInv
  <2>3. Answered' = Answered /\ Taken' = Taken
    BY <2>2, AnsweredSteps, TakenSteps, Zenon
  <2>4. Entries' = Entries \cup {e}
    BY <1>0, <2>1, <2>2, TryAuditEntries, Zenon
  <2>5. e.sn = Taken /\ e.status = status /\ About(Entries, Taken) = {}
    BY <1>0, <2>2 DEF AuditInv
  <2>6. reply'.to = cur /\ reply'.code = code /\ after' = "none" /\ pc' = "send"
    BY <2>1 DEF Answer
  <2>. HIDE DEF e
  <2>7. Logged(reply', Entries')
    <3>1. Logs(reply') /\ reply'.to.sn = Taken /\ Agree(reply'.code, e.status)
      BY <1>0, <2>1, <2>2, <2>5, <2>6 DEF Logs
    <3>2. QED
      BY <2>4, <2>5, <3>1, LoggedNow
  <2>8. ASSUME NEW r \in Range(Answered)
        PROVE  Logged(r, Entries') /\ r.to.sn <= Taken /\ r.to.sn # Taken
    <3>1. Logged(r, Entries) /\ e.sn # r.to.sn /\ r.to.sn <= Taken /\ r.to.sn # Taken
      BY <1>0, <2>2, <2>5, <2>8, Zenon
    <3>2. QED
      BY <2>4, <3>1, LoggedKept
  <2>9. \A x \in Entries' : x.sn <= Taken
    BY <1>0, <2>4, <2>5
  <2>10. QED
    BY <2>3, <2>6, <2>7, <2>8, <2>9, Zenon DEF AuditInv
<1>5. CASE SendResponse
  <2>0. /\ pc = "send" /\ Busy /\ UNCHANGED <<sent, inbound, rows>> /\ ~Busy' /\ pc' # "send"
        /\ reply.to.sn = Taken /\ reply \in Reply /\ after \in AuditStatus \cup {"none"}
    BY <1>0, <1>5 DEF SendResponse, Busy, readerVars, ReplyInv, IInv, TypeOK, DispatchType
  <2>1. Taken' = Taken
    BY <2>0, TakenSteps, Zenon
  <2>2. Range(Answered') \subseteq Range(Answered) \cup {reply}
    <3>1. Answered' = Answered \/ Answered' = Append(Answered, reply)
      BY <1>5, AnsweredSteps, Zenon
    <3>2. Answered \in Seq(Reply)
      BY SeenTyped
    <3>3. Range(Append(Answered, reply)) = Range(Answered) \cup {reply}
      BY <2>0, <3>2, RangeAppend
    <3>4. QED
      BY <3>1, <3>3, Zenon
  <2>3. CASE after = "none"
    <3>1. Entries' = Entries /\ Logged(reply, Entries)
      BY <1>5, <2>0, <2>3, Zenon DEF SendResponse, Entries, AuditInv
    <3>2. \A r \in Range(Answered') : r.to.sn <= Taken /\ Logged(r, Entries)
      BY <1>0, <2>0, <2>2, <3>1
    <3>3. QED
      BY <1>0, <2>0, <2>1, <3>1, <3>2, Zenon DEF AuditInv
  <2>4. CASE after # "none"
    <3>. DEFINE e == [sn |-> cur.sn, tool |-> cur.line.tool, status |-> after]
    <3>1. /\ About(Entries, Taken) = {} /\ Logs(reply) /\ Agree(reply.code, after)
          /\ TryAudit(cur, after) /\ after \in AuditStatus
      BY <1>5, <2>0, <2>4, Zenon DEF SendResponse, AuditInv
    <3>2. Entries' = Entries \cup {e}
      BY <1>0, <2>0, <3>1, TryAuditEntries, Zenon
    <3>3. e.sn = Taken /\ e.status = after
      BY <1>0, <2>0
    <3>. HIDE DEF e
    <3>4. Logged(reply, Entries')
      BY <2>0, <3>1, <3>2, <3>3, LoggedNow
    <3>5. ASSUME NEW r \in Range(Answered)
          PROVE  Logged(r, Entries') /\ r.to.sn <= Taken
      <4>1. Logged(r, Entries) /\ e.sn # r.to.sn /\ r.to.sn <= Taken
        BY <1>0, <2>0, <3>3, <3>5, Zenon
      <4>2. QED
        BY <3>2, <4>1, LoggedKept
    <3>6. Taken <= Taken
      BY <1>0
    <3>7. \A x \in Entries' : x.sn <= Taken
      BY <1>0, <3>2, <3>3, <3>6, Zenon
    <3>8. \A r \in Range(Answered') : r.to.sn <= Taken /\ Logged(r, Entries')
      BY <2>0, <2>2, <3>4, <3>5, <3>6, Zenon
    <3>9. QED
      BY <2>0, <2>1, <3>7, <3>8, Zenon DEF AuditInv
  <2>5. QED
    BY <2>3, <2>4
<1>6. CASE WriteFails
  <2>1. /\ Range(Answered') \subseteq Range(Answered)
        /\ UNCHANGED <<sent, inbound, auditVars, dispatchVars>>
    <3>1. Answered' = written /\ UNCHANGED <<sent, inbound, auditVars, dispatchVars>>
      BY <1>6, AnsweredSteps, Zenon DEF WriteFails, readerVars
    <3>2. Range(Answered) = Range(written) \cup Range(outbound)
      BY RangeConcatenation DEF IInv, TypeOK, WriterType, Answered
    <3>3. QED
      BY <3>1, <3>2
  <2>2. Entries' = Entries /\ Taken' = Taken /\ Busy' = Busy
    BY <2>1, TakenSteps, Zenon DEF Entries, auditVars, Busy
  <2>3. QED
    BY <2>1, <2>2, Zenon DEF AuditInv
<1>7. CASE (\E line \in Line : ReadLine(line)) \/ WriteLine \/ AuditInsert \/ UNCHANGED view
  <2>1. UNCHANGED dispatchVars
    BY <1>7, Zenon DEF ReadLine, WriteLine, AuditInsert, view
  <2>2. Answered' = Answered
    <3>1. CASE WriteLine
      BY <3>1, AnsweredSteps
    <3>2. CASE ~WriteLine
      BY <1>7, <3>2, AnsweredSteps, Zenon DEF ReadLine, AuditInsert, view, writerVars
    <3>3. QED
      BY <3>1, <3>2
  <2>3. Entries' = Entries
    <3>1. CASE AuditInsert
      BY <3>1, InsertEntries
    <3>2. CASE ~AuditInsert
      BY <1>7, <3>2, Zenon DEF ReadLine, WriteLine, view, auditVars, Entries
    <3>3. QED
      BY <3>1, <3>2
  <2>4. Taken' = Taken
    <3>1. CASE \E line \in Line : ReadLine(line)
      BY <3>1, TakenSteps
    <3>2. CASE ~(\E line \in Line : ReadLine(line))
      BY <1>7, <3>2, TakenSteps, Zenon DEF WriteLine, AuditInsert, view, readerVars
    <3>3. QED
      BY <3>1, <3>2
  <2>5. QED
    BY <2>1, <2>2, <2>3, <2>4, Zenon DEF AuditInv, Busy
<1>8. QED
  BY <1>1, <1>2, <1>3, <1>4, <1>5, <1>6, <1>7, StepSeen, Zenon

\* Every step keeps each entry in one place: an entry is new when it is made,
\* and moves when it is inserted.
LEMMA StepQueue ==
  ASSUME IInv, ReplyInv, Numbered, AuditInv, QueueInv, [Next]_vars
  PROVE  QueueInv'
<1>0. auditq \in Seq(Entry) /\ Len(auditq) \in Nat
  BY LenProperties DEF IInv, TypeOK, AuditType
<1>1. ASSUME UNCHANGED auditVars PROVE QueueInv'
  BY <1>1, Zenon DEF QueueInv, auditVars
<1>2. ASSUME NEW status \in AuditStatus, TryAudit(cur, status), rows' = rows,
             About(Entries, cur.sn) = {}
      PROVE  QueueInv'
  <2>. DEFINE e == [sn |-> cur.sn, tool |-> cur.line.tool, status |-> status]
  <2>1. e \in Entry /\ e.sn = cur.sn
    BY DEF IInv, TypeOK, DispatchType, Msg, Line, Entry
  <2>2. \/ auditq' = Append(auditq, e) /\ lost' = lost
        \/ lost' = lost \cup {e} /\ auditq' = auditq
    BY <1>2, Zenon DEF TryAudit
  <2>. HIDE DEF e
  <2>3. e \notin Entries
    BY <1>2, <2>1, Zenon DEF About
  <2>4. e \notin rows /\ e \notin lost /\ \A i \in 1..Len(auditq) : auditq[i] # e
    <3>1. DOMAIN auditq = 1..Len(auditq)
      BY <1>0, LenProperties
    <3>2. QED
      BY <2>3, <3>1, Zenon DEF Entries, Range
  <2>5. CASE auditq' = Append(auditq, e) /\ lost' = lost
    <3>1. /\ Len(auditq') = Len(auditq) + 1
          /\ \A i \in 1..Len(auditq) : auditq'[i] = auditq[i]
          /\ auditq'[Len(auditq) + 1] = e
      BY <1>0, <2>1, <2>5, AppendProperties
    <3>2. \A i \in 1..Len(auditq') : i \in 1..Len(auditq) \/ i = Len(auditq) + 1
      BY <1>0, <3>1
    <3>3. \A i \in 1..Len(auditq') : auditq'[i] \notin rows \cup lost
      BY <2>4, <3>1, <3>2, Zenon DEF QueueInv
    <3>4. ASSUME NEW i \in 1..Len(auditq'), NEW j \in 1..Len(auditq'), auditq'[i] = auditq'[j]
          PROVE  i = j
      BY <2>4, <3>1, <3>2, <3>4, Zenon DEF QueueInv
    <3>5. QED
      BY <1>2, <2>5, <3>3, <3>4, Zenon DEF QueueInv
  <2>6. CASE lost' = lost \cup {e} /\ auditq' = auditq
    BY <1>2, <2>4, <2>6, Zenon DEF QueueInv
  <2>7. QED
    BY <2>2, <2>5, <2>6
<1>3. CASE Finish
  <2>1. Busy /\ pc # "send"
    BY <1>3 DEF Finish, Busy
  <2>2. About(Entries, cur.sn) = {}
    BY <2>1, Zenon DEF AuditInv, Numbered
  <2>3. QED
    BY <1>2, <1>3, <2>2, Zenon DEF Finish
<1>4. CASE SendResponse
  <2>1. Busy /\ pc = "send" /\ rows' = rows /\ after \in AuditStatus \cup {"none"}
    BY <1>4 DEF SendResponse, Busy, IInv, TypeOK, DispatchType
  <2>2. CASE after = "none"
    BY <1>1, <1>4, <2>2, Zenon DEF SendResponse, auditVars
  <2>3. CASE after # "none"
    <3>1. About(Entries, cur.sn) = {} /\ TryAudit(cur, after)
      BY <1>4, <2>1, <2>3, Zenon DEF AuditInv, Numbered, SendResponse
    <3>2. QED
      BY <1>2, <2>1, <2>3, <3>1, Zenon
  <2>4. QED
    BY <2>2, <2>3
<1>5. CASE AuditInsert
  <2>. DEFINE h == Head(auditq)
  <2>1. /\ auditq # <<>> /\ auditq' = Tail(auditq)
        /\ \/ rows' = rows \cup {h} /\ lost' = lost
           \/ lost' = lost \cup {h} /\ rows' = rows
    BY <1>5, Zenon DEF AuditInsert
  <2>2. /\ Len(auditq') = Len(auditq) - 1 /\ h = auditq[1] /\ Len(auditq) # 0
        /\ \A i \in 1..Len(auditq') : auditq'[i] = auditq[i + 1]
    BY <1>0, <2>1, HeadTailProperties, EmptySeq
  <2>. HIDE DEF h
  <2>3. 1 \in 1..Len(auditq)
    BY <1>0, <2>2
  <2>4. h \notin rows /\ h \notin lost
    BY <2>2, <2>3, Zenon DEF QueueInv
  <2>5. ASSUME NEW i \in 1..Len(auditq')
        PROVE  \E k \in 1..Len(auditq) : k = i + 1 /\ k # 1 /\ auditq'[i] = auditq[k]
    <3>1. i + 1 \in 1..Len(auditq) /\ i + 1 # 1
      BY <1>0, <2>2
    <3>2. QED
      BY <2>2, <3>1
  <2>6. ASSUME NEW i \in 1..Len(auditq') PROVE auditq'[i] \notin rows' \cup lost'
    <3>1. PICK k \in 1..Len(auditq) : k # 1 /\ auditq'[i] = auditq[k]
      BY <2>5, Zenon
    <3>2. auditq[k] # h /\ auditq[k] \notin rows \cup lost
      BY <2>2, <2>3, <3>1, Zenon DEF QueueInv
    <3>3. QED
      BY <2>1, <3>1, <3>2
  <2>7. ASSUME NEW i \in 1..Len(auditq'), NEW j \in 1..Len(auditq'), auditq'[i] = auditq'[j]
        PROVE  i = j
    <3>1. PICK k \in 1..Len(auditq) : k = i + 1 /\ auditq'[i] = auditq[k]
      BY <2>5, Zenon
    <3>2. PICK l \in 1..Len(auditq) : l = j + 1 /\ auditq'[j] = auditq[l]
      BY <2>5, Zenon
    <3>3. k = l
      BY <2>7, <3>1, <3>2, Zenon DEF QueueInv
    <3>4. i \in Int /\ j \in Int
      BY <1>0, <2>2
    <3>5. QED
      BY ONLY <3>1, <3>2, <3>3, <3>4
  <2>8. rows' \cap lost' = {}
    BY <2>1, <2>4 DEF QueueInv
  <2>9. QED
    BY <2>6, <2>7, <2>8, Zenon DEF QueueInv
<1>6. CASE \/ Take \/ Close \/ ListReply \/ Advance \/ Refuse
           \/ (\E line \in Line : ReadLine(line)) \/ WriteLine \/ WriteFails \/ UNCHANGED view
  BY <1>1, <1>6, Zenon DEF Take, Close, ListReply, Advance, Refuse, ReadLine, WriteLine,
                           WriteFails, view, ReceiveFrame
<1>7. QED
  BY <1>3, <1>4, <1>5, <1>6, StepSeen, Zenon

\* run_dispatch starts with nothing sent and nothing logged.
LEMMA InitSeen == Init => ReplyInv /\ Numbered /\ AuditInv /\ QueueInv
<1>. SUFFICES ASSUME Init PROVE ReplyInv /\ Numbered /\ AuditInv /\ QueueInv
  OBVIOUS
<1>1. /\ pc = "recv" /\ inbound = <<>> /\ written = <<>> /\ outbound = <<>>
      /\ rows = {} /\ lost = {} /\ auditq = <<>>
  BY DEF Init
<1>2. Answered = <<>>
  BY <1>1 DEF Answered
<1>3. Range(<<>>) = {}
  BY DEF Range
<1>4. Entries = {}
  BY <1>1, <1>3 DEF Entries
<1>5. ReplyInv /\ Numbered
  BY <1>1 DEF ReplyInv, Numbered, Busy
<1>6. AuditInv
  BY <1>1, <1>2, <1>3, <1>4 DEF AuditInv, Busy
<1>7. QueueInv
  BY <1>1 DEF QueueInv
<1>8. QED
  BY <1>5, <1>6, <1>7

\* The inductive invariant is inductive.
LEMMA SeenInit == Init => AInv
BY InitTyped, InitSeen DEF AInv, IInv

LEMMA SeenNext == AInv /\ [Next]_vars => AInv'
<1>1. IInv /\ [Next]_vars => IInv'
  BY StepTyped, StepDispatch, StepIds, StepProbes DEF IInv
<1>2. QED
  BY <1>1, StepReply, StepNumbered, StepAudit, StepQueue DEF AInv

\* The audit log tells of every answered call, once and with the status the
\* client was told, and of nothing else.
THEOREM AuditCorrect == Spec => []AuditFaithful
<1>1. AInv => AuditFaithful
  <2>. SUFFICES ASSUME AInv PROVE AuditFaithful
    OBVIOUS
  <2>1. DOMAIN auditq = 1..Len(auditq)
    BY LenProperties DEF AInv, IInv, TypeOK, AuditType
  <2>2. QED
    BY <2>1, Zenon DEF AInv, AuditInv, QueueInv, AuditFaithful, Logged, Logs, About
<1>2. QED
  BY <1>1, SeenInit, SeenNext, PTL DEF Spec
-----------------------------------------------------------------------------
(* The session the client sees. *)

\* McpSession's variables, as GatewayProperties maps them.
Inbox == Serving \o inbound
Told(s) == [i \in DOMAIN s |-> [to |-> s[i].to.sn, id |-> s[i].id]]
Replies == Told(Answered)
Link == IF stdout = "open" THEN "open" ELSE "deaf"
Up == IF pc = "closed" THEN "down" ELSE "up"

Notice == [to : Nat, id : Nat]

\* The client is told one thing for each answer.
LEMMA ToldTyped ==
  ASSUME NEW s \in Seq(Reply)
  PROVE  /\ Told(s) \in Seq(Notice) /\ Len(Told(s)) = Len(s)
         /\ \A i \in 1..Len(s) : Told(s)[i] = [to |-> s[i].to.sn, id |-> s[i].id]
<1>1. DOMAIN s = 1..Len(s) /\ Len(s) \in Nat /\ \A i \in 1..Len(s) : s[i] \in Reply
  BY LenProperties, ElementOfSeq
<1>2. \A r \in Reply : [to |-> r.to.sn, id |-> r.id] \in Notice
  BY DEF Reply, Msg, Notice
<1>3. Told(s) = [i \in 1..Len(s) |-> [to |-> s[i].to.sn, id |-> s[i].id]]
  BY <1>1, Zenon DEF Told
<1>4. Told(s) \in [1..Len(s) -> Notice]
  BY <1>1, <1>2, <1>3, Zenon
<1>5. QED
  BY <1>1, <1>3, <1>4

\* An answer sent is told last.
LEMMA ToldAppend ==
  ASSUME NEW s \in Seq(Reply), NEW r \in Reply
  PROVE  Told(Append(s, r)) = Append(Told(s), [to |-> r.to.sn, id |-> r.id])
<1>. DEFINE n == [to |-> r.to.sn, id |-> r.id]
            t == Append(s, r)
            u == Append(Told(s), n)
<1>1. n \in Notice
  BY DEF Reply, Msg, Notice
<1>2. /\ t \in Seq(Reply) /\ Len(t) = Len(s) + 1
      /\ \A i \in 1..Len(s) : t[i] = s[i]
      /\ t[Len(s) + 1] = r
  BY AppendProperties
<1>. HIDE DEF t
<1>3. /\ Told(s) \in Seq(Notice) /\ Len(Told(s)) = Len(s) /\ Len(s) \in Nat
      /\ \A i \in 1..Len(s) : Told(s)[i] = [to |-> s[i].to.sn, id |-> s[i].id]
  BY ToldTyped, LenProperties
<1>4. /\ u \in Seq(Notice) /\ Len(u) = Len(s) + 1
      /\ \A i \in 1..Len(s) : u[i] = Told(s)[i]
      /\ u[Len(s) + 1] = n
  BY <1>1, <1>3, AppendProperties
<1>5. /\ Told(t) \in Seq(Notice) /\ Len(Told(t)) = Len(s) + 1
      /\ \A i \in 1..(Len(s) + 1) : Told(t)[i] = [to |-> t[i].to.sn, id |-> t[i].id]
  BY <1>2, ToldTyped
<1>. HIDE DEF n, u
<1>6. ASSUME NEW i \in 1..(Len(s) + 1) PROVE Told(t)[i] = u[i]
  <2>1. CASE i \in 1..Len(s)
    BY <1>2, <1>3, <1>4, <1>5, <2>1, Zenon
  <2>2. CASE i = Len(s) + 1
    <3>1. Len(s) + 1 \in 1..(Len(s) + 1)
      BY <1>3
    <3>2. Told(t)[Len(s) + 1] = n
      BY <1>2, <1>5, <3>1, Zenon DEF n
    <3>3. QED
      BY <1>4, <2>2, <3>2
  <2>3. QED
    BY <1>3, <2>1, <2>2
<1>7. Told(t) = u
  BY <1>4, <1>5, <1>6, SeqEqual
<1>8. QED
  BY <1>7, Zenon DEF n, t, u

\* Answers lost with the writer are the last ones told.
LEMMA ToldPrefix ==
  ASSUME NEW s \in Seq(Reply), NEW t \in Seq(Reply)
  PROVE  /\ Len(s) \in 0..Len(Told(s \o t))
         /\ Told(s) = SubSeq(Told(s \o t), 1, Len(s))
<1>. DEFINE w == s \o t
            u == SubSeq(Told(w), 1, Len(s))
<1>1. /\ w \in Seq(Reply) /\ Len(w) = Len(s) + Len(t) /\ Len(s) \in Nat /\ Len(t) \in Nat
      /\ \A i \in 1..Len(s) : w[i] = s[i]
  BY ConcatProperties, LenProperties
<1>. HIDE DEF w
<1>2. /\ Told(w) \in Seq(Notice) /\ Len(Told(w)) = Len(w)
      /\ \A i \in 1..Len(w) : Told(w)[i] = [to |-> w[i].to.sn, id |-> w[i].id]
  BY <1>1, ToldTyped
<1>3. /\ Told(s) \in Seq(Notice) /\ Len(Told(s)) = Len(s)
      /\ \A i \in 1..Len(s) : Told(s)[i] = [to |-> s[i].to.sn, id |-> s[i].id]
  BY ToldTyped
<1>4. Len(s) \in 0..Len(w)
  BY <1>1
<1>5. /\ u \in Seq(Notice) /\ Len(u) = Len(s)
      /\ \A i \in 1..Len(s) : u[i] = Told(w)[i]
  <2>. DEFINE v == Told(w)
              n == Len(s)
  <2>1. v \in Seq(Notice) /\ n \in Nat /\ n <= Len(v) /\ Len(v) \in Nat
    BY <1>1, <1>2
  <2>. HIDE DEF v, n
  <2>2. /\ SubSeq(v, 1, n) \in Seq(Notice) /\ Len(SubSeq(v, 1, n)) = n
        /\ \A i \in 1..n : SubSeq(v, 1, n)[i] = v[i]
    BY <2>1
  <2>3. QED
    BY <2>2 DEF v, n
<1>. HIDE DEF u
<1>6. \A i \in 1..Len(s) : i \in 1..Len(w)
  BY <1>1
<1>7. \A i \in 1..Len(s) : Told(s)[i] = u[i]
  BY <1>1, <1>2, <1>3, <1>5, <1>6, Zenon
<1>8. Told(s) = u
  BY <1>3, <1>5, <1>7, SeqEqual
<1>9. QED
  BY <1>2, <1>4, <1>8, Zenon DEF u, w

\* The inbox of a serving and of an idle dispatcher.
LEMMA InboxShape ==
  ASSUME NEW m \in Msg, NEW s \in Seq(Msg)
  PROVE  /\ <<>> \o s = s
         /\ <<m>> \o s # <<>> /\ Head(<<m>> \o s) = m /\ Tail(<<m>> \o s) = s
         /\ s # <<>> => <<Head(s)>> \o Tail(s) = s
<1>1. <<>> \o s = s
  BY ConcatEmptySeq
<1>2. <<m>> \o s # <<>> /\ Head(<<m>> \o s) = m /\ Tail(<<m>> \o s) = s
  <2>. DEFINE t == <<m>> \o s
  <2>1. <<m>> \in Seq(Msg) /\ Len(<<m>>) = 1 /\ <<m>>[1] = m /\ Len(s) \in Nat
    BY LenProperties
  <2>2. /\ t \in Seq(Msg) /\ Len(t) = 1 + Len(s)
        /\ t[1] = m /\ \A i \in 1..Len(s) : t[i + 1] = s[i]
    <3>1. \A i \in 1..Len(s) : i + 1 \in 1..(1 + Len(s)) /\ i + 1 > 1 /\ (i + 1) - 1 = i
      BY <2>1
    <3>2. QED
      BY <2>1, <3>1, ConcatProperties
  <2>. HIDE DEF t
  <2>3. t # <<>>
    BY <2>1, <2>2
  <2>4. /\ Head(t) = t[1] /\ Tail(t) \in Seq(Msg) /\ Len(Tail(t)) = Len(s)
        /\ \A i \in 1..Len(s) : Tail(t)[i] = t[i + 1]
    BY <2>1, <2>2, <2>3, HeadTailProperties
  <2>5. Tail(t) = s
    BY <2>2, <2>4, SeqEqual
  <2>6. QED
    BY <2>2, <2>3, <2>4, <2>5 DEF t
<1>3. s # <<>> => <<Head(s)>> \o Tail(s) = s
  BY HeadTailProperties
<1>4. QED
  BY <1>1, <1>2, <1>3

\* McpSession reads lines the way the gateway does.
LEMMA SessionSame == Session!Line = Line /\ \A m : Session!ClientId(m) = ClientId(m)
BY DEF Session!Line, Session!Method, Session!Missing, Session!ClientId, Session!NullId,
       Line, Method, Missing, ClientId, NullId

\* Every step of the gateway is a step of the session, or is not seen by it.
LEMMA SessionStep ==
  ASSUME AInv, [Next]_vars
  PROVE  [Session!SessionNext]_Session!svars
<1>. USE DEF dispatchVars
<1>0. IInv /\ IInv' /\ inbound \in Seq(Msg) /\ cur \in Msg /\ reply \in Reply
      /\ Answered \in Seq(Reply) /\ written \in Seq(Reply) /\ outbound \in Seq(Reply)
      /\ inbound' \in Seq(Msg) /\ cur' \in Msg
  BY SeenNext, SeenTyped, Zenon DEF AInv, IInv, TypeOK, DispatchType, WriterType
<1>1. ASSUME UNCHANGED <<sent, Inbox, Replies, Link, Up>>
      PROVE  [Session!SessionNext]_Session!svars
  BY <1>1, Zenon DEF Session!svars, Inbox, Replies, Told, Link, Up
<1>2. /\ ~Busy => Serving = <<>> /\ Inbox = inbound
      /\ Busy => Serving = <<cur>> /\ Inbox # <<>> /\ Head(Inbox) = cur /\ Tail(Inbox) = inbound
      /\ ~Busy' => Serving' = <<>> /\ Inbox' = inbound'
      /\ Busy' => Serving' = <<cur'>> /\ Inbox' = <<cur'>> \o inbound'
  BY <1>0, InboxShape, Zenon DEF Inbox, Serving, Busy
<1>3. CASE Take
  <2>. DEFINE m == Head(inbound)
  <2>1. /\ inbound # <<>> /\ inbound' = Tail(inbound) /\ ~Busy /\ pc = "recv" /\ sent' = sent
        /\ Answered' = Answered /\ stdout' = stdout
        /\ Skip(m) \/ Start(m) \/ Retort(m)
    BY <1>0, <1>3, AnsweredSteps DEF Take, Busy, writerVars
  <2>2. Replies' = Replies /\ Link' = Link
    BY <2>1, Zenon DEF Replies, Link, Told
  <2>3. CASE Skip(m)
    <3>1. ~Busy' /\ pc' = "recv"
      BY <2>1, <2>3 DEF Skip, Busy
    <3>2. Inbox # <<>> /\ ~Session!MustAnswer(Head(Inbox)) /\ Inbox' = Tail(Inbox) /\ Up' = Up
      BY <1>2, <2>1, <2>3, <3>1, Zenon DEF Skip, Up
    <3>3. Session!ServeSilently
      BY <2>1, <2>2, <3>2, Zenon DEF Session!ServeSilently, Inbox, Replies, Told, Link, Up
    <3>4. QED
      BY <3>3, Zenon DEF Session!SessionNext
  <2>4. CASE Start(m) \/ Retort(m)
    <3>1. Busy' /\ cur' = m /\ pc' # "closed"
      BY <2>4 DEF Start, Retort, Answer, Busy
    <3>2. Inbox' = Inbox /\ Up' = Up
      BY <1>0, <1>2, <2>1, <3>1, InboxShape DEF Up
    <3>3. QED
      BY <1>1, <2>1, <2>2, <3>2, Zenon
  <2>5. QED
    BY <2>1, <2>3, <2>4
<1>4. CASE Close
  <2>1. /\ pc = "recv" /\ pc' = "closed" /\ inbound' = <<>> /\ sent' = sent
        /\ UNCHANGED <<outbound, written, stdout>>
    BY <1>4, Zenon DEF Close, ReceiveFrame, readerVars, writerVars
  <2>2. Answered' = Answered
    BY <1>0, <2>1, AnsweredSteps, Zenon
  <2>3. Up = "up" /\ Up' = "down" /\ Inbox' = <<>> /\ Replies' = Replies /\ Link' = Link
    BY <1>2, <2>1, <2>2 DEF Up, Busy, Replies, Link, Told
  <2>4. Session!ShutDown
    BY <2>1, <2>3, Zenon DEF Session!ShutDown, Inbox, Replies, Told, Link, Up
  <2>5. QED
    BY <2>4, Zenon DEF Session!SessionNext
<1>5. CASE ListReply \/ Advance \/ Refuse \/ Finish
  <2>1. /\ UNCHANGED <<sent, inbound, cur, outbound, written, stdout>>
        /\ Busy /\ Busy' /\ pc # "closed" /\ pc' # "closed"
    BY <1>5, Zenon DEF ListReply, Advance, Refuse, Finish, Answer, Busy, writerVars
  <2>2. Answered' = Answered
    BY <1>0, <2>1, AnsweredSteps, Zenon
  <2>3. Inbox' = Inbox /\ Replies' = Replies /\ Link' = Link /\ Up' = Up
    BY <1>2, <2>1, <2>2, Zenon DEF Inbox, Replies, Told, Link, Up
  <2>4. QED
    BY <1>1, <2>1, <2>3, Zenon
<1>6. CASE SendResponse
  <2>1. /\ UNCHANGED <<sent, inbound, stdout>>
        /\ Busy /\ pc = "send" /\ ~Busy' /\ pc' = "recv"
        /\ reply.to = cur /\ reply.id = ClientId(cur) /\ ~Session!MustIgnore(cur)
    BY <1>6, Zenon DEF SendResponse, Busy, readerVars, AInv, ReplyInv
  <2>2. Inbox # <<>> /\ Head(Inbox) = cur /\ Inbox' = Tail(Inbox) /\ Up' = Up /\ Link' = Link
    BY <1>2, <2>1 DEF Up, Link
  <2>3. CASE stdout = "open"
    <3>1. Answered' = Append(Answered, reply)
      BY <1>0, <1>6, <2>3, AnsweredSteps, Zenon
    <3>2. Replies' = Append(Replies, [to |-> cur.sn, id |-> ClientId(cur)]) /\ Link = "open"
      BY <1>0, <2>1, <2>3, <3>1, ToldAppend, Zenon DEF Replies, Link
    <3>3. Session!ServeAnswer
      BY <2>1, <2>2, <3>2, SessionSame, Zenon DEF Session!ServeAnswer, Inbox, Replies, Told, Link, Up
    <3>4. QED
      BY <3>3, Zenon DEF Session!SessionNext
  <2>4. CASE stdout # "open"
    <3>1. Answered' = Answered
      BY <1>0, <1>6, <2>4, AnsweredSteps, Zenon
    <3>2. Replies' = Replies /\ Link # "open"
      BY <2>4, <3>1 DEF Replies, Link, Told
    <3>3. Session!ServeSilently
      BY <2>1, <2>2, <3>2, Zenon DEF Session!ServeSilently, Inbox, Replies, Told, Link, Up
    <3>4. QED
      BY <3>3, Zenon DEF Session!SessionNext
  <2>5. QED
    BY <2>3, <2>4
<1>7. ASSUME NEW line \in Line, ReadLine(line) PROVE [Session!SessionNext]_Session!svars
  <2>. DEFINE m == [sn |-> sent + 1, line |-> line]
  <2>1. /\ sent' = sent + 1 /\ inbound' = Append(inbound, m)
        /\ UNCHANGED <<pc, cur, outbound, written, stdout>> /\ pc # "closed"
    BY <1>7, Zenon DEF ReadLine, writerVars
  <2>2. m \in Msg
    <3>1. sent \in Nat
      BY <1>0, Zenon DEF IInv, TypeOK, ReaderType
    <3>2. QED
      BY <1>7, <3>1, MsgTyped, Zenon
  <2>3. Answered' = Answered
    BY <1>0, <2>1, AnsweredSteps, Zenon
  <2>4. Replies' = Replies /\ Link' = Link /\ Up' = Up /\ Up = "up" /\ Serving' = Serving
    BY <2>1, <2>3, Zenon DEF Replies, Told, Link, Up, Serving
  <2>. HIDE DEF m
  <2>5. Inbox' = Append(Inbox, m)
    <3>1. Serving \in Seq(Msg)
      BY <1>0 DEF Serving
    <3>2. inbound \in Seq(Msg)
      BY <1>0
    <3>3. Append(Serving \o inbound, m) = Serving \o Append(inbound, m)
      BY <2>2, <3>1, <3>2, SMT
    <3>4. QED
      BY <2>1, <2>4, <3>3, Zenon DEF Inbox
  <2>6. Session!Arrive
    BY <1>7, <2>1, <2>4, <2>5, SessionSame, Zenon DEF Session!Arrive, Inbox, Replies, Told, Link, Up, m
  <2>7. QED
    BY <2>6, Zenon DEF Session!SessionNext
<1>8. CASE WriteFails
  <2>1. /\ UNCHANGED <<sent, inbound, dispatchVars>> /\ stdout = "open" /\ stdout' = "closed"
    BY <1>8, Zenon DEF WriteFails, readerVars
  <2>2. Answered' = written
    BY <1>0, <1>8, AnsweredSteps, Zenon
  <2>3. /\ Len(written) \in 0..Len(Replies)
        /\ Replies' = SubSeq(Replies, 1, Len(written))
    BY <1>0, <2>2, ToldPrefix, Zenon DEF Replies, Answered
  <2>4. Inbox' = Inbox /\ Up' = Up /\ Link = "open" /\ Link' = "deaf"
    BY <2>1 DEF Inbox, Serving, Up, Link
  <2>5. Session!GoDeaf
    BY <2>1, <2>3, <2>4, Zenon DEF Session!GoDeaf, Inbox, Replies, Told, Link, Up
  <2>6. QED
    BY <2>5, Zenon DEF Session!SessionNext
<1>9. CASE WriteLine \/ AuditInsert \/ UNCHANGED view
  <2>1. UNCHANGED <<sent, inbound, dispatchVars, stdout>>
    BY <1>9, Zenon DEF WriteLine, AuditInsert, view, readerVars, writerVars
  <2>2. Answered' = Answered
    <3>1. CASE WriteLine
      BY <1>0, <3>1, AnsweredSteps, Zenon
    <3>2. CASE ~WriteLine
      BY <1>0, <1>9, <3>2, AnsweredSteps, Zenon DEF AuditInsert, view, writerVars
    <3>3. QED
      BY <3>1, <3>2
  <2>3. Inbox' = Inbox /\ Replies' = Replies /\ Link' = Link /\ Up' = Up
    BY <2>1, <2>2, Zenon DEF Inbox, Serving, Replies, Told, Link, Up
  <2>4. QED
    BY <1>1, <2>1, <2>3, Zenon
<1>10. QED
  BY <1>0, <1>3, <1>4, <1>5, <1>6, <1>7, <1>8, <1>9, StepSeen, Zenon

\* The dispatch loop implements the plain session of McpSession: every request
\* is answered once, in order and under its own id, and nothing else is.
THEOREM SessionCorrect == Spec => SessionRefined
<1>1. Init => Session!SessionInit
  <2>. SUFFICES ASSUME Init PROVE Session!SessionInit
    OBVIOUS
  <2>1. sent = 0 /\ pc = "recv" /\ inbound = <<>> /\ stdout = "open"
        /\ Answered = <<>> /\ Serving = <<>>
    BY DEF Init, Answered, Serving
  <2>2. QED
    BY <2>1 DEF Session!SessionInit
<1>2. AInv /\ [Next]_vars => [Session!SessionNext]_Session!svars
  BY SessionStep
<1>3. QED
  BY <1>1, <1>2, SeenInit, SeenNext, PTL DEF Spec, SessionRefined, Session!SessionSpec
-----------------------------------------------------------------------------
(* The end of main. *)

\* main returns after the audit writer, which ends after the dispatcher and
\* with nothing left to insert.
DrainInv ==
  /\ main \in {"returned", "exited"} => audit_writer = "done"
  /\ audit_writer = "done" => auditq = <<>> /\ pc = "closed"

\* To the dispatcher and the tasks around it, the end of main is at most a
\* cancellation.
LEMMA ShutdownStep ==
  ASSUME AInv, [ShutdownNext]_allVars
  PROVE  [Next]_vars
<1>1. CASE Polled(Dispatch) \/ Polled(Return) \/ Polled(Environment)
  BY <1>1, Zenon DEF Polled, Next
<1>2. CASE DispatchReturned
  <2>1. cancelled \in {"no", "yes"} /\ cancelled' = "yes"
    BY <1>2 DEF DispatchReturned, AInv, IInv, TypeOK
  <2>2. CASE cancelled = "no"
    <3>1. Cancel
      BY <1>2, <2>1, <2>2, Zenon DEF DispatchReturned, Cancel
    <3>2. QED
      BY <3>1, Zenon DEF Next, Environment
  <2>3. CASE cancelled = "yes"
    BY <1>2, <2>1, <2>3, Zenon DEF DispatchReturned, vars
  <2>4. QED
    BY <2>1, <2>2, <2>3
<1>3. CASE SupervisorsStopped \/ Returns \/ Exit \/ AuditWriterDone
  BY <1>3, Zenon DEF SupervisorsStopped, Returns, Exit, AuditWriterDone
<1>4. CASE LastRead
  BY <1>4, Zenon DEF LastRead, Next, Environment
<1>5. CASE UNCHANGED allVars
  BY <1>5, Zenon DEF allVars
<1>6. QED
  BY <1>1, <1>2, <1>3, <1>4, <1>5, Zenon DEF ShutdownNext, MainSteps

\* Once the loop is over, nothing more is logged.
LEMMA ClosedStays ==
  ASSUME AInv, [Next]_vars, pc = "closed", auditq = <<>>
  PROVE  pc' = "closed" /\ auditq' = <<>>
<1>1. CASE Take \/ Close \/ ListReply \/ Advance \/ Refuse \/ Finish \/ SendResponse
  BY <1>1 DEF Take, Close, ListReply, Advance, Refuse, Finish, SendResponse
<1>2. CASE (\E line \in Line : ReadLine(line)) \/ AuditInsert
  BY <1>2, Zenon DEF ReadLine, AuditInsert
<1>3. CASE WriteLine \/ WriteFails \/ UNCHANGED view
  BY <1>3, Zenon DEF WriteLine, WriteFails, view, dispatchVars, auditVars
<1>4. QED
  BY <1>1, <1>2, <1>3, StepSeen, Zenon DEF AInv

\* Every step keeps the order in which main's tasks end.
LEMMA DrainStep ==
  ASSUME AInv, DrainInv, [ShutdownNext]_allVars
  PROVE  DrainInv'
<1>1. [Next]_vars
  BY ShutdownStep
<1>2. audit_writer = "done" => auditq' = <<>> /\ pc' = "closed"
  BY <1>1, ClosedStays, Zenon DEF DrainInv
<1>3. ASSUME UNCHANGED <<main, audit_writer>> PROVE DrainInv'
  BY <1>2, <1>3, Zenon DEF DrainInv
<1>4. CASE \/ Polled(Dispatch) \/ Polled(Return) \/ Polled(Environment) \/ LastRead
           \/ UNCHANGED allVars
  BY <1>3, <1>4, Zenon DEF Polled, LastRead, shutdownVars, allVars
<1>5. CASE DispatchReturned \/ SupervisorsStopped
  <2>1. main' \notin {"returned", "exited"} /\ audit_writer' = audit_writer
    BY <1>5 DEF DispatchReturned, SupervisorsStopped
  <2>2. QED
    BY <1>2, <2>1, Zenon DEF DrainInv
<1>6. CASE Returns \/ Exit
  <2>1. audit_writer = "done" /\ audit_writer' = audit_writer
    BY <1>6 DEF Returns, Exit, DrainInv
  <2>2. QED
    BY <1>2, <2>1, Zenon DEF DrainInv
<1>7. CASE AuditWriterDone
  <2>1. auditq = <<>> /\ pc = "closed" /\ audit_writer' = "done"
    BY <1>7, Zenon DEF AuditWriterDone
  <2>2. auditq' = <<>> /\ pc' = "closed"
    BY <1>1, <2>1, ClosedStays, Zenon
  <2>3. QED
    BY <2>1, <2>2, Zenon DEF DrainInv
<1>8. QED
  BY <1>4, <1>5, <1>6, <1>7, Zenon DEF ShutdownNext, MainSteps

\* The whole of main keeps the inductive invariant.
LEMMA ShutdownInductive == ShutdownSpec => [](AInv /\ DrainInv)
<1>1. ShutdownInit => AInv /\ DrainInv
  <2>1. ShutdownInit => Init /\ main = "serving" /\ audit_writer = "running"
    BY Zenon DEF ShutdownInit
  <2>2. QED
    BY <2>1, SeenInit DEF DrainInv
<1>2. AInv /\ DrainInv /\ [ShutdownNext]_allVars => (AInv /\ DrainInv)'
  BY ShutdownStep, DrainStep, SeenNext
<1>3. QED
  BY <1>1, <1>2, PTL DEF ShutdownSpec

\* Shutting down is part of serving: main and its end are a behaviour of
\* Gateway, so everything proved of run_dispatch holds until main returns.
THEOREM ShutdownServes == ShutdownSpec => Spec
<1>1. ShutdownInit => Init
  BY DEF ShutdownInit
<1>2. AInv /\ DrainInv /\ [ShutdownNext]_allVars => [Next]_vars
  BY ShutdownStep
<1>3. QED
  BY <1>1, <1>2, ShutdownInductive, PTL DEF ShutdownSpec, Spec

\* When main returns, every call the client was answered has been inserted
\* into the audit table or counted as lost.
THEOREM DrainCorrect == ShutdownSpec => []AuditDrained
<1>1. AInv /\ DrainInv => AuditDrained
  <2>. SUFFICES ASSUME AInv, DrainInv PROVE AuditDrained
    OBVIOUS
  <2>1. ASSUME main \in {"returned", "exited"}, NEW r \in Range(Answered), Logs(r)
        PROVE  \E e \in rows \cup lost : e.sn = r.to.sn
    <3>1. PICK e \in Entries : e.sn = r.to.sn
      BY <2>1, Zenon DEF AInv, AuditInv, Logged, About
    <3>2. Range(auditq) = {}
      BY <2>1 DEF DrainInv, Range
    <3>3. QED
      BY <3>1, <3>2, Zenon DEF Entries
  <2>2. QED
    BY <2>1, Zenon DEF DrainInv, AuditDrained, Logs
<1>2. QED
  BY <1>1, ShutdownInductive, PTL
=============================================================================
