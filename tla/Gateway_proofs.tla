--------------------------- MODULE Gateway_proofs ---------------------------
(***************************************************************************)
(* Proofs about the dispatch loop, for every set of tools and backends,    *)
(* every catalog, role, configuration, channel capacity and client script. *)
(***************************************************************************)
EXTENDS GatewayProperties, TLAPS

\* The rest of a queue after its head is taken.
LEMMA QueueTail ==
  ASSUME NEW S, NEW s \in Seq(S), s # <<>>
  PROVE  /\ Head(s) \in S /\ Tail(s) \in Seq(S) /\ Len(Tail(s)) = Len(s) - 1
         /\ \A i \in 1..Len(Tail(s)) : Tail(s)[i] = s[i + 1]
OBVIOUS

\* A queue with one more element at its end.
LEMMA QueueAppend ==
  ASSUME NEW S, NEW s \in Seq(S), NEW e \in S
  PROVE  /\ Append(s, e) \in Seq(S) /\ Append(s, e) # <<>>
         /\ Len(Append(s, e)) = Len(s) + 1
         /\ \A i \in 1..Len(s) : Append(s, e)[i] = s[i]
         /\ Append(s, e)[Len(s) + 1] = e
OBVIOUS

\* A sequence is a function on the positions up to its length.
LEMMA QueueLen ==
  ASSUME NEW S, NEW s \in Seq(S)
  PROVE  Len(s) \in Nat /\ s \in [1..Len(s) -> S] /\ DOMAIN s = 1..Len(s)
OBVIOUS

\* An element of a sequence over S is in S.
LEMMA QueueElement ==
  ASSUME NEW S, NEW s \in Seq(S), NEW n \in 1..Len(s)
  PROVE  s[n] \in S
OBVIOUS

\* insert and remove keep a map a map.
LEMMA InsertIsMap ==
  ASSUME NEW K, NEW V, NEW map, IsMap(map, K, V), NEW k \in K, NEW v \in V
  PROVE  /\ IsMap(Insert(map, k, v), K, V)
         /\ DOMAIN Insert(map, k, v) = DOMAIN map \cup {k}
         /\ Insert(map, k, v)[k] = v
BY DEF IsMap, Insert

\* remove keeps a map a map.
LEMMA WithoutIsMap ==
  ASSUME NEW K, NEW V, NEW map, IsMap(map, K, V), NEW k
  PROVE  /\ IsMap(Without(map, k), K, V)
         /\ DOMAIN Without(map, k) = DOMAIN map \ {k}
BY DEF IsMap, Without, Restrict

\* A new map is a map.
LEMMA EmptyIsMap == ASSUME NEW K, NEW V PROVE IsMap(EmptyMap, K, V)
BY DEF IsMap, EmptyMap
-----------------------------------------------------------------------------
\* A breaker method applied to a breaker yields a breaker.
LEMMA BreakerOpsTyped ==
  ASSUME NEW recovery \in Nat, NEW threshold \in Nat, NEW b \in Breaker(recovery)
  PROVE  /\ AllowRequest(b, recovery) \in Breaker(recovery)
         /\ RecordSuccess(b) \in Breaker(recovery)
         /\ RecordFailure(b, threshold) \in Breaker(recovery)
         /\ BreakerTick(b, recovery) \in Breaker(recovery)
<1>. USE DEF Breaker, CircuitState, Never
<1>1. AllowRequest(b, recovery) \in Breaker(recovery)
  BY DEF AllowRequest
<1>2. RecordSuccess(b) \in Breaker(recovery)
  BY Zenon DEF RecordSuccess
<1>3. RecordFailure(b, threshold) \in Breaker(recovery)
  <2>1. /\ b.failure_count + 1 \in Nat
        /\ 0 \in {Never} \cup 0..recovery
        /\ (IF b.failure_count + 1 >= threshold THEN "Open" ELSE b.state)
             \in CircuitState
    OBVIOUS
  <2>2. QED
    BY <2>1, Zenon DEF RecordFailure
<1>4. BreakerTick(b, recovery) \in Breaker(recovery)
  BY DEF BreakerTick
<1>5. QED
  BY <1>1, <1>2, <1>3, <1>4

\* The fields of a breaker have their types.
LEMMA BreakerFields ==
  ASSUME NEW recovery \in Nat, NEW b \in Breaker(recovery)
  PROVE  /\ b.state \in CircuitState
         /\ b.failure_count \in Nat
         /\ b.since_failure \in {Never} \cup 0..recovery
         /\ b.since_failure \in Int
BY DEF Breaker, Never

\* What each method does to each field.
LEMMA SuccessEffect ==
  ASSUME NEW recovery \in Nat, NEW b \in Breaker(recovery)
  PROVE  RecordSuccess(b).state = "Closed" /\ RecordSuccess(b).failure_count = 0
BY DEF RecordSuccess, Breaker

\* What record_failure does to each field.
LEMMA FailureEffect ==
  ASSUME NEW recovery \in Nat, NEW threshold \in Nat, NEW b \in Breaker(recovery)
  PROVE  /\ RecordFailure(b, threshold).failure_count = b.failure_count + 1
         /\ RecordFailure(b, threshold).since_failure = 0
         /\ RecordFailure(b, threshold).state =
              IF b.failure_count + 1 >= threshold THEN "Open" ELSE b.state
BY DEF RecordFailure, Breaker

\* What a tick does to each field.
LEMMA TickEffect ==
  ASSUME NEW recovery \in Nat, NEW b \in Breaker(recovery)
  PROVE  /\ BreakerTick(b, recovery).state = b.state
         /\ BreakerTick(b, recovery).failure_count = b.failure_count
         /\ b.since_failure # Never =>
              /\ BreakerTick(b, recovery).since_failure # Never
              /\ BreakerTick(b, recovery).since_failure <= b.since_failure + 1
<1>1. /\ BreakerTick(b, recovery).state = b.state
      /\ BreakerTick(b, recovery).failure_count = b.failure_count
  BY DEF BreakerTick, Breaker
<1>2. b.since_failure # Never =>
         /\ BreakerTick(b, recovery).since_failure # Never
         /\ BreakerTick(b, recovery).since_failure <= b.since_failure + 1
  BY DEF BreakerTick, Breaker, Never
<1>3. QED
  BY <1>1, <1>2

\* The operations on a bucket yield a bucket.
LEMMA BucketOpsTyped ==
  ASSUME NEW window \in Nat
  PROVE  /\ \A rpm \in Nat : NewBucket(rpm) \in Bucket(window)
         /\ \A b \in Bucket(window) :
              BucketTick(b, window) \in Bucket(window) /\ TryConsume(b, window) \in Bucket(window)
<1>1. \A rpm \in Nat : NewBucket(rpm) \in Bucket(window)
  BY DEF NewBucket, Bucket
<1>. SUFFICES ASSUME NEW b \in Bucket(window)
              PROVE  /\ BucketTick(b, window) \in Bucket(window)
                     /\ TryConsume(b, window) \in Bucket(window)
  BY <1>1
<1>2. BucketTick(b, window) \in Bucket(window)
  <2>1. (IF b.age < window THEN b.age + 1 ELSE b.age) \in 0..window
    BY DEF Bucket
  <2>2. QED
    BY <2>1 DEF BucketTick, Bucket
<1>3. TryConsume(b, window) \in Bucket(window)
  <2>. DEFINE r == Refill(b, window)
  <2>1. r \in Bucket(window)
    <3>1. b.max_tokens \in Nat /\ 0 \in 0..window
      BY DEF Bucket
    <3>2. [b EXCEPT !.tokens = b.max_tokens, !.age = 0] \in Bucket(window)
      BY <3>1, Zenon DEF Bucket
    <3>3. QED
      BY <3>2, Zenon DEF Refill
  <2>. HIDE DEF r
  <2>2. r.tokens > 0 => r.tokens - 1 \in Nat
    BY <2>1 DEF Bucket
  <2>3. r.tokens > 0 => [r EXCEPT !.tokens = r.tokens - 1] \in Bucket(window)
    BY <2>1, <2>2 DEF Bucket
  <2>4. QED
    BY <2>1, <2>3 DEF TryConsume, r
<1>4. QED
  BY <1>2, <1>3
-----------------------------------------------------------------------------
(* Every step of the dispatch loop keeps the types. *)

\* What a step leaves alone keeps its type.
LEMMA Frame ==
  ASSUME TypeOK
  PROVE  /\ UNCHANGED readerVars => ReaderType'
         /\ UNCHANGED dispatchVars => DispatchType'
         /\ UNCHANGED idVars => IdType'
         /\ UNCHANGED breakers => BreakerType'
         /\ UNCHANGED reloadVars => HotType'
         /\ UNCHANGED writerVars => WriterType'
         /\ UNCHANGED auditVars => AuditType'
<1>1. UNCHANGED readerVars => ReaderType'
  BY DEF TypeOK, ReaderType, readerVars
<1>2. UNCHANGED dispatchVars => DispatchType'
  BY DEF TypeOK, DispatchType, dispatchVars
<1>3. UNCHANGED idVars => IdType'
  BY DEF TypeOK, IdType, idVars
<1>4. UNCHANGED breakers => BreakerType'
  BY DEF TypeOK, BreakerType
<1>5. UNCHANGED reloadVars => HotType'
  BY DEF TypeOK, HotType, reloadVars
<1>6. UNCHANGED writerVars => WriterType'
  BY DEF TypeOK, WriterType, writerVars
<1>7. UNCHANGED auditVars => AuditType'
  BY DEF TypeOK, AuditType, auditVars
<1>8. QED
  BY <1>1, <1>2, <1>3, <1>4, <1>5, <1>6, <1>7

\* The messages and replies the dispatcher builds have their types.
LEMMA NoMsgTyped == NoMsg \in Msg /\ NoReply \in Reply
BY DEF NoMsg, NoReply, Msg, Line, Method, Reply, Code, NullId

\* The id a reply carries back is an id.
LEMMA ClientIdTyped == ASSUME NEW m \in Msg PROVE ClientId(m) \in Nat
BY DEF ClientId, Msg, NullId

\* The line at the head of the channel.
LEMMA HeadTyped ==
  ASSUME TypeOK, inbound # <<>>
  PROVE  /\ Head(inbound) \in Msg /\ Tail(inbound) \in Seq(Msg)
         /\ Head(inbound).line \in Line
         /\ Head(inbound).line.tool \in Tools \cup {Missing}
<1>1. inbound \in Seq(Msg) /\ inbound # <<>>
  BY DEF TypeOK
<1>2. Head(inbound) \in Msg /\ Tail(inbound) \in Seq(Msg)
  BY ONLY <1>1, QueueTail
<1>3. QED
  BY ONLY <1>2 DEF Msg, Line

\* The line being served.
LEMMA CurTyped ==
  ASSUME TypeOK
  PROVE  /\ cur \in Msg /\ cur.line \in Line /\ tool \in Tools \cup {Missing}
         /\ ClientId(cur) \in Nat /\ reply \in Reply /\ after \in AuditStatus \cup {"none"}
BY ClientIdTyped DEF TypeOK, DispatchType, Msg, Line, tool

\* A connected backend has a breaker with its own threshold and timeout.
LEMMA BreakerOfTool ==
  ASSUME TypeOK, HasBreaker(tool)
  PROVE  /\ Route[tool] \in Registered /\ Route[tool] \in Backends
         /\ breakers[Route[tool]] \in Breaker(RecoveryTimeout[Route[tool]])
         /\ RecoveryTimeout[Route[tool]] \in Nat
         /\ FailureThreshold[Route[tool]] \in Nat
BY CatalogAssumption, BreakerAssumption DEF TypeOK, BreakerType, HasBreaker

\* Replacing one breaker by another breaker.
LEMMA BreakerReplaced ==
  ASSUME TypeOK, NEW b \in Registered, NEW x \in Breaker(RecoveryTimeout[b]),
         breakers' = [breakers EXCEPT ![b] = x]
  PROVE  BreakerType'
BY DEF TypeOK, BreakerType

\* Preparing a reply leaves a well-typed dispatcher.
LEMMA AnswerTyped ==
  ASSUME NEW m \in Msg, NEW id \in Nat, NEW code \in Code, NEW ts \in SUBSET Tools,
         NEW status \in AuditStatus \cup {"none"},
         Answer(m, id, code, ts, status)
  PROVE  DispatchType'
<1>1. [to |-> m, id |-> id, code |-> code, tools |-> ts] \in Reply
  BY DEF Reply
<1>2. QED
  BY <1>1 DEF Answer, DispatchType

\* try_send keeps the audit channel and the record of losses well-typed.
LEMMA TryAuditTyped ==
  ASSUME TypeOK, NEW m \in Msg, NEW status \in AuditStatus, TryAudit(m, status)
  PROVE  auditq' \in Seq(Entry) /\ lost' \subseteq Entry
<1>1. [sn |-> m.sn, tool |-> m.line.tool, status |-> status] \in Entry
  BY DEF Entry, Msg, Line
<1>2. auditq \in Seq(Entry) /\ lost \subseteq Entry
  BY DEF TypeOK, AuditType
<1>. DEFINE e == [sn |-> m.sn, tool |-> m.line.tool, status |-> status]
<1>3. \/ auditq' = Append(auditq, e) /\ lost' = lost
      \/ lost' = lost \cup {e} /\ auditq' = auditq
  BY DEF TryAudit
<1>4. e \in Entry
  BY <1>1
<1>. HIDE DEF e
<1>5. Append(auditq, e) \in Seq(Entry)
  BY <1>2, <1>4, QueueAppend
<1>6. QED
  BY <1>2, <1>3, <1>4, <1>5

\* Receiving a line, of whatever method, keeps the types.
LEMMA ReceiveTyped == ASSUME TypeOK, Receive PROVE TypeOK'
<1>a. pc = "recv" /\ inbound # <<>> /\ inbound' = Tail(inbound)
  BY DEF Receive, ReceiveUnparsable, ReceiveEarly, ReceiveInitialize, ReceiveInitialized,
         ReceivePing, ReceiveOther, ReceiveList, ReceiveCall, Accepted
<1>b. Head(inbound) \in Msg /\ Tail(inbound) \in Seq(Msg)
  BY <1>a, HeadTyped
<1>. USE Frame DEF ReceiveFrame
<1>0. /\ pc = "recv" /\ inbound # <<>> /\ inbound' = Tail(inbound)
      /\ Head(inbound) \in Msg /\ Tail(inbound) \in Seq(Msg)
      /\ ClientId(Head(inbound)) \in Nat /\ NullId \in Nat
  BY <1>a, <1>b, ClientIdTyped DEF NullId
<1>1. CASE ReceiveUnparsable
  <2>1. DispatchType'
    BY <1>0, <1>1, AnswerTyped DEF ReceiveUnparsable, Code
  <2>2. QED
    BY <1>0, <1>1, <2>1 DEF ReceiveUnparsable, TypeOK
<1>2. ASSUME NEW code \in Code, AnswerRequest(Head(inbound), code)
      PROVE  DispatchType'
  BY <1>0, <1>2, AnswerTyped DEF AnswerRequest
<1>3. CASE ReceiveEarly
  <2>1. AnswerRequest(Head(inbound), "NOT_INITIALIZED") /\ "NOT_INITIALIZED" \in Code
    BY <1>3 DEF ReceiveEarly, Code
  <2>2. QED
    BY <1>0, <1>2, <1>3, <2>1 DEF ReceiveEarly, TypeOK
<1>4. CASE ReceiveInitialize
  <2>1. DispatchType'
    BY <1>0, <1>4, AnswerTyped DEF ReceiveInitialize, Code
  <2>2. QED
    BY <1>0, <1>4, <2>1 DEF ReceiveInitialize, Accepted, TypeOK, McpState
<1>5. CASE ReceiveInitialized
  BY <1>0, <1>5 DEF ReceiveInitialized, Accepted, TypeOK, McpState
<1>6. CASE ReceivePing
  <2>1. AnswerRequest(Head(inbound), "OK") /\ "OK" \in Code
    BY <1>6 DEF ReceivePing, Code
  <2>2. QED
    BY <1>0, <1>2, <1>6, <2>1 DEF ReceivePing, Accepted, TypeOK
<1>7. CASE ReceiveOther
  <2>1. AnswerRequest(Head(inbound), "METHOD_NOT_FOUND") /\ "METHOD_NOT_FOUND" \in Code
    BY <1>7 DEF ReceiveOther, Code
  <2>2. QED
    BY <1>0, <1>2, <1>7, <2>1 DEF ReceiveOther, Accepted, TypeOK
<1>8. CASE ReceiveList
  <2>1. DispatchType'
    BY <1>0, <1>8, CurTyped DEF ReceiveList, DispatchType
  <2>2. QED
    BY <1>0, <1>8, <2>1 DEF ReceiveList, Accepted, TypeOK
<1>9. CASE ReceiveCall
  <2>1. DispatchType'
    BY <1>0, <1>9, CurTyped DEF ReceiveCall, DispatchType
  <2>2. QED
    BY <1>0, <1>9, <2>1 DEF ReceiveCall, Accepted, TypeOK
<1>10. QED
  BY <1>1, <1>3, <1>4, <1>5, <1>6, <1>7, <1>8, <1>9 DEF Receive

\* The checks of tools/call, and tools/list and Close, keep the types.
LEMMA CheckTyped ==
  ASSUME TypeOK, DispatchInv,
         \/ Close \/ ListTools \/ GateKilled \/ GateLimited \/ GatePassed
         \/ CheckRefused \/ CheckPassed
  PROVE  TypeOK'
<1>. USE Frame DEF ReceiveFrame, CheckFrame
<1>0. /\ cur \in Msg /\ ClientId(cur) \in Nat /\ tool \in Tools \cup {Missing}
      /\ reply \in Reply /\ after \in AuditStatus \cup {"none"}
  BY CurTyped
<1>1. ASSUME NEW code \in Code, NEW ts \in SUBSET Tools, NEW status \in AuditStatus \cup {"none"},
             Answer(cur, ClientId(cur), code, ts, status)
      PROVE  DispatchType'
  BY <1>0, <1>1, AnswerTyped
<1>2. CASE Close
  <2>1. inbound' = <<>> /\ inbound' \in Seq(Msg)
    BY <1>2 DEF Close
  <2>2. DispatchType'
    BY <1>0, <1>2 DEF Close, DispatchType
  <2>3. QED
    BY <1>2, <2>1, <2>2 DEF Close, TypeOK, McpState
<1>3. CASE ListTools
  <2>1. Listed(hot) \in SUBSET Tools
    BY CatalogAssumption DEF Listed
  <2>2. DispatchType'
    BY <1>1, <1>3, <2>1 DEF ListTools, Code
  <2>3. QED
    BY <1>3, <2>2 DEF ListTools, TypeOK
<1>4. CASE GateKilled
  <2>1. DispatchType'
    BY <1>1, <1>4 DEF GateKilled, Code, AuditStatus
  <2>2. QED
    BY <1>4, <2>1 DEF GateKilled, TypeOK
<1>5. ASSUME pc = "gate", buckets' = Insert(buckets, tool, TryConsume(BucketOf(tool), Window))
      PROVE  IsMap(buckets', Tools, Bucket(Window))
  <2>0. tool \in Tools
    BY <1>0, <1>5, Zenon DEF DispatchInv
  <2>1. hot.rpm[tool] \in Nat /\ IsMap(buckets, Tools, Bucket(Window)) /\ Window \in Nat
    BY <2>0, WindowAssumption DEF TypeOK, HotType, HotConfig
  <2>2. NewBucket(hot.rpm[tool]) \in Bucket(Window)
    BY <2>1, BucketOpsTyped, Zenon
  <2>3. BucketOf(tool) \in Bucket(Window)
    BY <2>1, <2>2 DEF BucketOf, IsMap
  <2>4. TryConsume(BucketOf(tool), Window) \in Bucket(Window)
    BY <2>1, <2>3, BucketOpsTyped
  <2>5. QED
    BY <1>5, <2>0, <2>1, <2>4, InsertIsMap, Zenon
<1>6. CASE GateLimited
  <2>1. DispatchType'
    BY <1>1, <1>6 DEF GateLimited, Code, AuditStatus
  <2>2. IsMap(buckets', Tools, Bucket(Window))
    BY <1>5, <1>6 DEF GateLimited
  <2>3. QED
    BY <1>6, <2>1, <2>2 DEF GateLimited, TypeOK
<1>7. CASE GatePassed
  <2>1. IsMap(buckets', Tools, Bucket(Window))
    BY <1>5, <1>7 DEF GatePassed
  <2>2. DispatchType'
    BY <1>0, <1>7 DEF GatePassed, DispatchType
  <2>3. QED
    BY <1>7, <2>1, <2>2 DEF GatePassed, TypeOK
<1>8. CASE CheckRefused
  <2>1. Refusal.code \in Code /\ Refusal.status \in AuditStatus
    BY DEF Refusal, Code, AuditStatus
  <2>2. DispatchType'
    BY <1>1, <1>8, <2>1 DEF CheckRefused
  <2>3. QED
    BY <1>8, <2>2 DEF CheckRefused, TypeOK
<1>9. CASE CheckPassed
  <2>1. BreakerType'
    <3>1. CASE HasBreaker(tool)
      <4>1. AllowRequest(breakers[Route[tool]], RecoveryTimeout[Route[tool]])
              \in Breaker(RecoveryTimeout[Route[tool]])
        BY <3>1, BreakerOfTool, BreakerOpsTyped
      <4>2. QED
        BY <1>9, <3>1, <4>1, BreakerOfTool, BreakerReplaced, Zenon DEF CheckPassed
    <3>2. CASE ~HasBreaker(tool)
      BY <1>9, <3>2 DEF CheckPassed
    <3>3. QED
      BY <3>1, <3>2
  <2>2. DispatchType'
    BY <1>0, <1>9 DEF CheckPassed, DispatchType
  <2>3. QED
    BY <1>9, <2>1, <2>2 DEF CheckPassed, TypeOK
<1>10. QED
  BY <1>2, <1>3, <1>4, <1>6, <1>7, <1>8, <1>9

\* Logging and preparing the reply of handle_tools_call keeps the types.
LEMMA ConcludeTyped ==
  ASSUME TypeOK, NEW id \in Nat, NEW code \in Code, Conclude(id, code)
  PROVE  DispatchType' /\ AuditType'
<1>1. cur \in Msg
  BY CurTyped
<1>2. DispatchType'
  BY <1>1, AnswerTyped DEF Conclude
<1>3. auditq' \in Seq(Entry) /\ lost' \subseteq Entry
  <2>1. (IF code = "OK" THEN "success" ELSE "error") \in AuditStatus
    BY DEF AuditStatus
  <2>2. QED
    BY <1>1, <2>1, TryAuditTyped DEF Conclude
<1>4. AuditType'
  BY <1>3 DEF Conclude, TypeOK, AuditType
<1>5. QED
  BY <1>2, <1>4

\* Dispatching a call, and each way it returns, keeps the types.
LEMMA CallTyped ==
  ASSUME TypeOK, DispatchInv, DispatchFails \/ DispatchCall \/ Return
  PROVE  TypeOK'
<1>. USE Frame
<1>0. /\ cur \in Msg /\ ClientId(cur) \in Nat
      /\ reply \in Reply /\ after \in AuditStatus \cup {"none"}
  BY CurTyped
<1>1. CASE DispatchFails
  <2>. DEFINE code == IF tool \in DOMAIN Route THEN "INTERNAL_ERROR" ELSE "INVALID_PARAMS"
  <2>1. code \in Code /\ Conclude(ClientId(cur), code)
    BY <1>1 DEF DispatchFails, Code
  <2>. HIDE DEF code
  <2>2. DispatchType' /\ AuditType'
    BY <1>0, <2>1, ConcludeTyped
  <2>3. QED
    BY <1>1, <2>1, <2>2 DEF DispatchFails, Conclude, TypeOK
<1>2. CASE DispatchCall
  <2>1. HasBreaker(tool) /\ Route[tool] \in Backends
    BY <1>2, BreakerOfTool, Zenon DEF DispatchCall
  <2>2. next_id \in Nat /\ IsMap(mappings, Nat, [id : Nat, backend : Backends])
    BY DEF TypeOK, IdType
  <2>3. [id |-> ClientId(cur), backend |-> Route[tool]] \in [id : Nat, backend : Backends]
    BY <1>0, <2>1
  <2>4. IsMap(mappings', Nat, [id : Nat, backend : Backends])
    BY <1>2, <2>2, <2>3, InsertIsMap, Zenon DEF DispatchCall
  <2>5. IdType'
    <3>1. gid' = next_id /\ next_id' = next_id + 1
      BY <1>2 DEF DispatchCall
    <3>2. gid' \in Nat /\ next_id' \in Nat
      BY ONLY <2>2, <3>1
    <3>3. QED
      BY ONLY <2>4, <3>2 DEF IdType
  <2>6. DispatchType'
    BY <1>0, <1>2 DEF DispatchCall, DispatchType
  <2>7. QED
    BY <1>2, <2>5, <2>6 DEF DispatchCall, TypeOK
<1>3. CASE Return
  <2>1. pc = "call" /\ mappings' = Without(mappings, gid) /\ UNCHANGED <<gid, next_id>>
    BY <1>3 DEF Return, CallAnswered, CallFailed
  <2>2. IdType'
    BY <2>1, WithoutIsMap, Zenon DEF TypeOK, IdType
  <2>3. HasBreaker(tool)
    BY <2>1 DEF DispatchInv
  <2>4. BreakerType'
    <3>1. /\ RecordSuccess(breakers[Route[tool]]) \in Breaker(RecoveryTimeout[Route[tool]])
          /\ RecordFailure(breakers[Route[tool]], FailureThreshold[Route[tool]])
               \in Breaker(RecoveryTimeout[Route[tool]])
      BY <2>3, BreakerOfTool, BreakerOpsTyped
    <3>2. \/ breakers' = [breakers EXCEPT ![Route[tool]] = RecordSuccess(breakers[Route[tool]])]
          \/ breakers' = [breakers EXCEPT ![Route[tool]] =
                            RecordFailure(breakers[Route[tool]], FailureThreshold[Route[tool]])]
      BY <1>3 DEF Return, CallAnswered, CallFailed
    <3>3. QED
      BY <2>3, <3>1, <3>2, BreakerOfTool, BreakerReplaced, Zenon
  <2>5. PICK id \in Nat, code \in Code : Conclude(id, code)
    <3>1. Restored(gid) \in Nat /\ Restored(NullId) \in Nat
      BY DEF TypeOK, IdType, IsMap, Restored, NullId
    <3>2. \/ Conclude(Restored(gid), "OK") \/ Conclude(Restored(gid), "BACKEND_ERROR")
          \/ Conclude(Restored(NullId), "INTERNAL_ERROR")
      BY <1>3 DEF Return, CallAnswered, CallFailed
    <3>3. QED
      BY <3>1, <3>2 DEF Code
  <2>6. DispatchType' /\ AuditType'
    BY <2>5, ConcludeTyped
  <2>7. QED
    BY <2>1, <2>2, <2>4, <2>5, <2>6 DEF Conclude, TypeOK
<1>4. QED
  BY <1>1, <1>2, <1>3

\* send_response keeps the types.
LEMMA SendTyped == ASSUME TypeOK, SendResponse PROVE TypeOK'
<1>. USE Frame
<1>1. outbound' \in Seq(Reply)
  <2>1. outbound \in Seq(Reply) /\ reply \in Reply
    BY CurTyped DEF TypeOK, WriterType
  <2>2. Append(outbound, reply) \in Seq(Reply)
    BY ONLY <2>1, QueueAppend
  <2>3. QED
    BY <2>1, <2>2 DEF SendResponse
<1>2. auditq' \in Seq(Entry) /\ lost' \subseteq Entry
  <2>1. cur \in Msg /\ after \in AuditStatus \cup {"none"}
    BY CurTyped
  <2>2. CASE after = "none"
    BY <2>2 DEF SendResponse, TypeOK, AuditType
  <2>3. CASE after # "none"
    BY <2>1, <2>3, TryAuditTyped DEF SendResponse
  <2>4. QED
    BY <2>2, <2>3
<1>3. WriterType' /\ AuditType'
  BY <1>1, <1>2 DEF SendResponse, TypeOK, WriterType, AuditType
<1>4. DispatchType'
  BY NoMsgTyped DEF SendResponse, DispatchType
<1>5. QED
  BY <1>3, <1>4 DEF SendResponse, TypeOK

\* What the stdin reader sends for a line, with the line's number.
LEMMA MsgTyped ==
  ASSUME NEW n \in Nat, NEW line \in Line
  PROVE  [sn |-> n + 1, line |-> line] \in Msg
<1>1. n + 1 \in Nat
  OBVIOUS
<1>2. QED
  BY <1>1 DEF Msg

\* The other tasks and the clock keep the types.
LEMMA EnvironmentTyped == ASSUME TypeOK, Environment PROVE TypeOK'
<1>. USE Frame
<1>1. ASSUME sent < Len(Script), NEW line \in Script[sent + 1], ReadLine(line)
      PROVE  TypeOK'
  <2>1. sent \in Nat /\ inbound \in Seq(Msg)
    BY DEF TypeOK, ReaderType
  <2>2. sent + 1 \in 1..Len(Script)
    <3>1. Script \in Seq(SUBSET Line)
      BY ScriptAssumption
    <3>2. Len(Script) \in Nat
      BY ONLY <3>1, QueueLen
    <3>3. sent < Len(Script)
      BY <1>1
    <3>4. QED
      BY ONLY <2>1, <3>2, <3>3
  <2>3. line \in Line
    <3>1. Script \in Seq(SUBSET Line)
      BY ScriptAssumption
    <3>2. Script[sent + 1] \in SUBSET Line
      BY ONLY <2>2, <3>1, QueueElement
    <3>3. QED
      BY <1>1, <3>2
  <2>4. [sn |-> sent + 1, line |-> line] \in Msg
    BY <2>1, <2>3, MsgTyped, Zenon
  <2>. DEFINE m == [sn |-> sent + 1, line |-> line]
  <2>5. m \in Msg /\ inbound' = Append(inbound, m)
    BY <1>1, <2>4 DEF ReadLine
  <2>. HIDE DEF m
  <2>6. inbound' \in Seq(Msg)
    BY <2>1, <2>5, QueueAppend
  <2>7. ReaderType'
    <3>1. stdin' = stdin /\ sent' = sent + 1
      BY <1>1 DEF ReadLine
    <3>2. stdin \in {"open", "eof"}
      BY DEF TypeOK, ReaderType
    <3>3. QED
      BY ONLY <2>1, <3>1, <3>2 DEF ReaderType
  <2>8. QED
    BY <1>1, <2>6, <2>7 DEF ReadLine, TypeOK
<1>2. CASE ReadEof
  <2>1. ReaderType'
    BY <1>2 DEF ReadEof, TypeOK, ReaderType
  <2>2. QED
    BY <1>2, <2>1 DEF ReadEof, TypeOK
<1>3. CASE WriteLine
  <2>1. outbound \in Seq(Reply) /\ written \in Seq(Reply) /\ outbound # <<>>
    BY <1>3 DEF WriteLine, TypeOK, WriterType
  <2>2. Head(outbound) \in Reply /\ Tail(outbound) \in Seq(Reply)
    BY ONLY <2>1, QueueTail
  <2>3. Append(written, Head(outbound)) \in Seq(Reply)
    BY ONLY <2>1, <2>2, QueueAppend
  <2>4. WriterType'
    BY <1>3, <2>2, <2>3 DEF WriteLine, TypeOK, WriterType
  <2>5. QED
    BY <1>3, <2>4 DEF WriteLine, TypeOK
<1>4. CASE WriteFails
  <2>1. outbound' = <<>> /\ outbound' \in Seq(Reply)
    BY <1>4 DEF WriteFails
  <2>2. WriterType'
    BY <1>4, <2>1 DEF WriteFails, TypeOK, WriterType
  <2>3. QED
    BY <1>4, <2>2 DEF WriteFails, TypeOK
<1>5. CASE AuditInsert
  <2>1. auditq \in Seq(Entry) /\ auditq # <<>>
    BY <1>5 DEF AuditInsert, TypeOK, AuditType
  <2>2. Head(auditq) \in Entry /\ Tail(auditq) \in Seq(Entry)
    BY ONLY <2>1, QueueTail
  <2>3. AuditType'
    BY <1>5, <2>2 DEF AuditInsert, TypeOK, AuditType
  <2>4. QED
    BY <1>5, <2>3 DEF AuditInsert, TypeOK
<1>6. ASSUME NEW config \in HotConfigs, Reload(config)
      PROVE  TypeOK'
  <2>1. HotType'
    <3>1. HotType /\ config \in HotConfig
      BY <1>6, HotAssumption DEF TypeOK
    <3>2. reload' = "waiting" /\ loaded' = config /\ reloads' = reloads + 1 /\ hot' = hot
      BY <1>6 DEF Reload
    <3>3. QED
      BY ONLY <3>1, <3>2 DEF HotType
  <2>2. QED
    BY <1>6, <2>1 DEF Reload, TypeOK
<1>7. CASE Install
  <2>1. HotType'
    BY <1>7 DEF Install, TypeOK, HotType
  <2>2. IsMap(buckets', Tools, Bucket(Window))
    BY <1>7, EmptyIsMap DEF Install
  <2>3. QED
    BY <1>7, <2>1, <2>2 DEF Install, TypeOK
<1>8. CASE Cancel
  BY <1>8 DEF Cancel, TypeOK
<1>9. CASE Tick
  <2>1. IsMap(buckets', Tools, Bucket(Window))
    BY <1>9, BucketOpsTyped, WindowAssumption DEF Tick, TypeOK, IsMap
  <2>2. \A b \in Registered : breakers'[b] \in Breaker(RecoveryTimeout[b])
    <3>. SUFFICES ASSUME NEW b \in Registered
                  PROVE  breakers'[b] \in Breaker(RecoveryTimeout[b])
      OBVIOUS
    <3>1. RecoveryTimeout[b] \in Nat /\ breakers[b] \in Breaker(RecoveryTimeout[b])
      BY BreakerAssumption DEF TypeOK, BreakerType
    <3>2. BreakerTick(breakers[b], RecoveryTimeout[b]) \in Breaker(RecoveryTimeout[b])
      BY <3>1, BreakerOpsTyped
    <3>3. QED
      BY <1>9, <3>2, Zenon DEF Tick
  <2>3. BreakerType'
    BY <1>9, <2>2 DEF Tick, BreakerType
  <2>4. QED
    BY <1>9, <2>1, <2>3, Zenon DEF Tick, TypeOK
<1>10. QED
  BY <1>1, <1>2, <1>3, <1>4, <1>5, <1>6, <1>7, <1>8, <1>9 DEF Environment

\* Every step keeps the types.
LEMMA StepTyped == ASSUME TypeOK, DispatchInv, [Next]_vars PROVE TypeOK'
<1>1. CASE UNCHANGED vars
  BY <1>1, Frame DEF vars, TypeOK
<1>2. QED
  BY <1>1, ReceiveTyped, CheckTyped, CallTyped, SendTyped, EnvironmentTyped DEF Next, Dispatch
-----------------------------------------------------------------------------
\* The state run_dispatch starts in satisfies the inductive invariant.
LEMMA InitTyped == Init => TypeOK /\ DispatchInv /\ IdsBalanced /\ ProbesInv
<1>. SUFFICES ASSUME Init PROVE TypeOK /\ DispatchInv /\ IdsBalanced /\ ProbesInv
  OBVIOUS
<1>1. \A b \in Registered : NewBreaker \in Breaker(RecoveryTimeout[b])
  BY BreakerAssumption DEF NewBreaker, Breaker, CircuitState, Never
<1>2. TypeOK
  <2>1. IsMap(buckets, Tools, Bucket(Window)) /\ IdType
    BY EmptyIsMap DEF Init, IdType
  <2>2. BreakerType
    BY <1>1 DEF Init, BreakerType
  <2>3. ReaderType /\ HotType /\ WriterType /\ AuditType
    BY HotAssumption DEF Init, ReaderType, HotType, WriterType, AuditType
  <2>4. DispatchType
    BY NoMsgTyped DEF Init, DispatchType
  <2>5. QED
    BY <2>1, <2>2, <2>3, <2>4 DEF Init, TypeOK, McpState
<1>3. DispatchInv
  BY DEF Init, DispatchInv
<1>4. IdsBalanced
  BY DEF Init, IdsBalanced, EmptyMap
<1>5. ProbesInv
  BY DEF Init, ProbesInv, ProbesRecorded, NewBreaker
<1>6. QED
  BY <1>2, <1>3, <1>4, <1>5

-----------------------------------------------------------------------------
(* What the checks have established. *)

\* Every step keeps what the checks passed so far have established.
LEMMA StepDispatch == ASSUME TypeOK, DispatchInv, [Next]_vars PROVE DispatchInv'
<1>. USE DEF readerVars, dispatchVars, idVars, reloadVars, writerVars, auditVars
<1>1. ASSUME pc' \notin {"gate", "check", "dispatch", "call"}
      PROVE  DispatchInv'
  BY <1>1 DEF DispatchInv
<1>2. ASSUME UNCHANGED <<pc, mcp, cur, hot, enabled>>
      PROVE  DispatchInv'
  BY <1>2, Zenon DEF DispatchInv, tool
<1>3. CASE Receive
  <2>1. CASE ReceiveCall
    <3>1. CASE Head(inbound).line.kind # "request"
      BY <1>1, <2>1, <3>1, Zenon DEF ReceiveCall, Accepted
    <3>2. CASE Head(inbound).line.kind = "request"
      <4>1. mcp = "Operational"
        BY <2>1 DEF ReceiveCall, Accepted, CanAcceptMethod, TypeOK, McpState
      <4>2. /\ mcp' = "Operational" /\ cur' = Head(inbound) /\ hot' = hot
            /\ cur'.line.method = "tools/call" /\ cur'.line.kind = "request"
            /\ tool' = Head(inbound).line.tool
            /\ pc' = IF tool' = Missing THEN "dispatch" ELSE "gate"
            /\ enabled' = IF Enabled(hot, tool') THEN "yes" ELSE "no"
        BY <2>1, <3>2, <4>1, Zenon DEF ReceiveCall, Accepted, ReceiveFrame, tool
      <4>3. Enabled(hot, tool)' = Enabled(hot, tool')
        BY <4>2 DEF Enabled
      <4>4. QED
        BY <4>2, <4>3, Zenon DEF DispatchInv
    <3>3. QED
      BY <3>1, <3>2
  <2>2. CASE ~ReceiveCall
    <3>1. pc' \in {"recv", "send", "list"}
      BY <1>3, <2>2, Zenon
      DEF Receive, ReceiveUnparsable, ReceiveEarly, ReceiveInitialize, ReceiveInitialized,
          ReceivePing, ReceiveOther, ReceiveList, Accepted, AnswerRequest, Answer
    <3>2. QED
      BY <1>1, <3>1
  <2>3. QED
    BY <2>1, <2>2
<1>4. CASE Close \/ ListTools \/ GateKilled \/ GateLimited \/ CheckRefused \/ DispatchFails
           \/ Return \/ SendResponse
  <2>1. pc' \in {"send", "recv", "closed"}
    BY <1>4 DEF Close, ListTools, GateKilled, GateLimited, CheckRefused, DispatchFails, Return,
                CallAnswered, CallFailed, SendResponse, Conclude, Answer
  <2>2. QED
    BY <1>1, <2>1
<1>5. CASE GatePassed
  <2>1. /\ pc = "gate" /\ pc' = "check" /\ Enabled(hot, tool)
        /\ UNCHANGED <<mcp, cur, enabled>>
    BY <1>5 DEF GatePassed, CheckFrame
  <2>2. QED
    BY <2>1, Zenon DEF DispatchInv, tool
<1>6. CASE CheckPassed
  <2>1. /\ pc = "check" /\ pc' = "dispatch" /\ MayExecute(tool) /\ ~Misfits(cur.line)
        /\ UNCHANGED <<mcp, cur, enabled>>
    BY <1>6, Zenon DEF CheckPassed, CheckFrame
  <2>2. QED
    BY <2>1, Zenon DEF DispatchInv, tool
<1>7. CASE DispatchCall
  <2>1. /\ pc = "dispatch" /\ pc' = "call" /\ HasBreaker(tool)
        /\ UNCHANGED <<mcp, cur, enabled>>
    BY <1>7 DEF DispatchCall
  <2>2. tool # Missing
    BY <2>1, CatalogAssumption, MissingAssumption DEF HasBreaker
  <2>3. QED
    BY <2>1, <2>2, Zenon DEF DispatchInv, tool
<1>8. CASE Install
  <2>1. /\ UNCHANGED <<pc, mcp, cur>> /\ hot' = loaded
        /\ enabled' = IF Enabled(loaded, tool) THEN "yes" ELSE enabled
    BY <1>8 DEF Install
  <2>2. Enabled(hot, tool)' = Enabled(loaded, tool)
    BY <2>1, Zenon DEF Enabled, tool
  <2>3. QED
    BY <2>1, <2>2, Zenon DEF DispatchInv, tool
<1>9. CASE Environment /\ ~Install
  BY <1>2, <1>9, Zenon
  DEF Environment, ReadLine, ReadEof, WriteLine, WriteFails, AuditInsert, Reload, Cancel, Tick
<1>10. CASE UNCHANGED vars
  BY <1>2, <1>10 DEF vars
<1>11. QED
  BY <1>3, <1>4, <1>5, <1>6, <1>7, <1>8, <1>9, <1>10 DEF Next, Dispatch
-----------------------------------------------------------------------------
(* The remapper. *)

\* Every step keeps the remapper in balance with the call in flight.
LEMMA StepIds ==
  ASSUME TypeOK, DispatchInv, IdsBalanced, [Next]_vars
  PROVE  IdsBalanced'
<1>. USE DEF readerVars, dispatchVars, idVars, reloadVars, writerVars, auditVars
<1>1. ASSUME UNCHANGED <<mappings, gid, next_id>>, pc # "call", pc' # "call"
      PROVE  IdsBalanced'
  BY <1>1, Zenon DEF IdsBalanced
<1>2. ASSUME UNCHANGED <<mappings, gid, next_id, cur, pc>>
      PROVE  IdsBalanced'
  BY <1>2 DEF IdsBalanced, tool
<1>3. CASE Dispatch /\ ~DispatchCall
  <2>1. UNCHANGED <<mappings, gid, next_id>> /\ pc # "call" /\ pc' # "call"
    <3>1. CASE Receive
      BY <3>1, Zenon
      DEF Receive, ReceiveUnparsable, ReceiveEarly, ReceiveInitialize, ReceiveInitialized,
          ReceivePing, ReceiveOther, ReceiveList, ReceiveCall, Accepted, AnswerRequest,
          Answer, ReceiveFrame
    <3>2. CASE ~Receive
      BY <1>3, <3>2, Zenon
      DEF Dispatch, Close, ListTools, GateKilled, GateLimited, GatePassed, CheckRefused,
          CheckPassed, DispatchFails, SendResponse, Conclude, Answer, ReceiveFrame, CheckFrame
    <3>3. QED
      BY <3>1, <3>2
  <2>2. QED
    BY <1>1, <2>1
<1>4. CASE DispatchCall
  <2>. DEFINE entry == [id |-> ClientId(cur), backend |-> Route[tool]]
  <2>1. /\ pc = "dispatch" /\ pc' = "call" /\ cur' = cur /\ gid' = next_id
        /\ next_id' = next_id + 1 /\ HasBreaker(tool)
        /\ mappings' = Insert(mappings, next_id, entry)
    BY <1>4 DEF DispatchCall
  <2>2. ClientId(cur) = cur.sn
    BY <2>1, Zenon DEF DispatchInv, ClientId
  <2>3. DOMAIN mappings = {} /\ next_id \in Nat
    BY <2>1, Zenon DEF IdsBalanced, TypeOK, IdType
  <2>4. DOMAIN mappings' = {next_id} /\ mappings'[next_id] = entry
    BY <2>1, <2>3, Zenon DEF Insert
  <2>5. entry = [id |-> cur'.sn, backend |-> Route[tool']]
    BY <2>1, <2>2, Zenon DEF tool
  <2>6. gid' < next_id'
    BY ONLY <2>1, <2>3
  <2>7. QED
    BY <2>1, <2>4, <2>5, <2>6, Zenon DEF IdsBalanced
<1>5. CASE Return
  <2>1. /\ pc = "call" /\ pc' = "send" /\ mappings' = Without(mappings, gid)
        /\ UNCHANGED <<gid, next_id>>
    BY <1>5 DEF Return, CallAnswered, CallFailed, Conclude, Answer
  <2>2. DOMAIN mappings = {gid}
    BY <2>1, Zenon DEF IdsBalanced
  <2>3. DOMAIN mappings' = {}
    BY <2>1, <2>2 DEF Without, Restrict
  <2>4. QED
    BY <2>1, <2>3, Zenon DEF IdsBalanced
<1>6. CASE Environment
  BY <1>2, <1>6, Zenon
  DEF Environment, ReadLine, ReadEof, WriteLine, WriteFails, AuditInsert, Reload, Install,
      Cancel, Tick
<1>7. CASE UNCHANGED vars
  BY <1>2, <1>7 DEF vars
<1>8. QED
  BY <1>3, <1>4, <1>5, <1>6, <1>7 DEF Next
-----------------------------------------------------------------------------
(* The circuit breakers. *)

\* What ProbesInv says of one breaker, given whether its probe is in flight.
Sound(cb, threshold, probing) ==
  /\ cb.state = "HalfOpen" => probing /\ cb.failure_count >= threshold
  /\ cb.state = "Open" => cb.since_failure # Never /\ cb.failure_count >= threshold

\* ProbesInv, breaker by breaker.
LEMMA SoundBreakers ==
  ProbesInv <=> \A b \in Registered : Sound(breakers[b], FailureThreshold[b], Probing(b))
BY Zenon DEF ProbesInv, ProbesRecorded, Sound, Probing

\* What each breaker method makes of a sound breaker.
LEMMA MethodsSound ==
  ASSUME NEW recovery \in Nat, NEW threshold \in Nat, NEW cb \in Breaker(recovery),
         NEW probing \in BOOLEAN, Sound(cb, threshold, probing)
  PROVE  /\ Allows(cb, recovery) => Sound(AllowRequest(cb, recovery), threshold, TRUE)
         /\ Sound(RecordSuccess(cb), threshold, FALSE)
         /\ Sound(RecordFailure(cb, threshold), threshold, FALSE)
         /\ Sound(BreakerTick(cb, recovery), threshold, probing)
<1>0. cb.failure_count \in Nat /\ cb.state \in CircuitState /\ cb.since_failure \in Int
  BY BreakerFields
<1>1. ASSUME Allows(cb, recovery)
      PROVE  Sound(AllowRequest(cb, recovery), threshold, TRUE)
  BY <1>1 DEF Sound, AllowRequest, Allows, Breaker
<1>2. Sound(RecordSuccess(cb), threshold, FALSE)
  BY SuccessEffect DEF Sound
<1>3. Sound(RecordFailure(cb, threshold), threshold, FALSE)
  BY <1>0, FailureEffect DEF Sound, Never
<1>4. Sound(BreakerTick(cb, recovery), threshold, probing)
  BY <1>0, TickEffect DEF Sound
<1>5. QED
  BY <1>1, <1>2, <1>3, <1>4, Zenon

\* Every step keeps half-open circuits tied to their probe.
LEMMA StepProbes ==
  ASSUME TypeOK, DispatchInv, ProbesInv, [Next]_vars
  PROVE  ProbesInv'
<1>. USE DEF readerVars, dispatchVars, idVars, reloadVars, writerVars, auditVars
<1>1. ASSUME UNCHANGED <<breakers, pc, cur>>
      PROVE  ProbesInv'
  BY <1>1, Zenon DEF ProbesInv, ProbesRecorded, Probing, HasBreaker, tool
<1>2. ASSUME breakers' = breakers, pc \notin {"dispatch", "call"}
      PROVE  ProbesInv'
  BY <1>2 DEF ProbesInv, ProbesRecorded, Probing
<1>3. ASSUME NEW b \in Registered
      PROVE  /\ Sound(breakers[b], FailureThreshold[b], Probing(b)) /\ Probing(b) \in BOOLEAN
             /\ RecoveryTimeout[b] \in Nat /\ FailureThreshold[b] \in Nat
             /\ breakers[b] \in Breaker(RecoveryTimeout[b])
  BY <1>3, SoundBreakers, BreakerAssumption, Zenon DEF TypeOK, BreakerType, Probing
<1>4. SUFFICES ASSUME NEW b \in Registered
               PROVE  Sound(breakers'[b], FailureThreshold[b], Probing(b)') \/ ProbesInv'
  BY Zenon DEF ProbesInv, ProbesRecorded, Sound, Probing
<1>5. CASE Dispatch /\ ~CheckPassed /\ ~DispatchFails /\ ~DispatchCall
  <2>1. breakers' = breakers /\ pc \notin {"dispatch", "call"}
    <3>1. CASE Receive
      BY <3>1, Zenon
      DEF Receive, ReceiveUnparsable, ReceiveEarly, ReceiveInitialize, ReceiveInitialized,
          ReceivePing, ReceiveOther, ReceiveList, ReceiveCall, Accepted, ReceiveFrame
    <3>2. CASE ~Receive
      BY <1>5, <3>2, Zenon
      DEF Dispatch, Close, ListTools, GateKilled, GateLimited, GatePassed, CheckRefused,
          SendResponse, ReceiveFrame
    <3>3. QED
      BY <3>1, <3>2
  <2>2. QED
    BY <1>2, <2>1
<1>6. CASE CheckPassed
  <2>1. pc = "check" /\ pc' = "dispatch" /\ tool' = tool /\ ~CircuitRefuses(tool)
    BY <1>6, Zenon DEF CheckPassed, tool
  <2>2. CASE HasBreaker(tool) /\ Route[tool] = b
    <3>1. /\ breakers'[b] = AllowRequest(breakers[b], RecoveryTimeout[b])
          /\ Allows(breakers[b], RecoveryTimeout[b])
      BY <1>6, <2>1, <2>2, Zenon DEF CheckPassed, CircuitRefuses, TypeOK, BreakerType
    <3>2. Probing(b)' = TRUE
      BY <2>1, <2>2 DEF Probing, HasBreaker
    <3>3. QED
      BY <1>3, <3>1, <3>2, MethodsSound, Zenon
  <2>3. CASE ~(HasBreaker(tool) /\ Route[tool] = b)
    <3>1. breakers'[b] = breakers[b]
      BY <1>6, <2>3, BreakerOfTool, Zenon DEF CheckPassed, TypeOK, BreakerType
    <3>2. breakers[b].state \notin {"HalfOpen"}
      BY <2>1 DEF ProbesInv, ProbesRecorded, Probing
    <3>3. QED
      BY <1>3, <3>1, <3>2, Zenon DEF Sound
  <2>4. QED
    BY <2>2, <2>3
<1>7. CASE DispatchFails
  <2>1. pc = "dispatch" /\ ~HasBreaker(tool) /\ breakers' = breakers
    BY <1>7 DEF DispatchFails
  <2>2. breakers[b].state # "HalfOpen"
    BY <2>1 DEF ProbesInv, ProbesRecorded, Probing
  <2>3. QED
    BY <1>3, <2>1, <2>2, Zenon DEF Sound
<1>8. CASE DispatchCall
  <2>1. pc = "dispatch" /\ pc' = "call" /\ tool' = tool /\ breakers' = breakers
    BY <1>8, Zenon DEF DispatchCall, tool
  <2>2. Probing(b)' = Probing(b)
    BY <2>1 DEF Probing, HasBreaker
  <2>3. QED
    BY <1>3, <2>1, <2>2, Zenon
<1>9. CASE Return
  <2>1. pc = "call" /\ HasBreaker(tool) /\ pc' = "send"
    BY <1>9 DEF Return, CallAnswered, CallFailed, Conclude, Answer, DispatchInv
  <2>2. Probing(b)' = FALSE
    BY <2>1 DEF Probing
  <2>3. CASE Route[tool] = b
    <3>1. \/ breakers'[b] = RecordSuccess(breakers[b])
          \/ breakers'[b] = RecordFailure(breakers[b], FailureThreshold[b])
      BY <1>9, <2>3 DEF Return, CallAnswered, CallFailed, TypeOK, BreakerType
    <3>2. QED
      BY <1>3, <2>2, <3>1, MethodsSound, Zenon
  <2>4. CASE Route[tool] # b
    <3>1. breakers'[b] = breakers[b]
      BY <1>9, <2>4 DEF Return, CallAnswered, CallFailed, TypeOK, BreakerType
    <3>2. breakers[b].state # "HalfOpen"
      BY <2>4, Zenon DEF ProbesInv, ProbesRecorded, Probing
    <3>3. QED
      BY <1>3, <3>1, <3>2, Zenon DEF Sound
  <2>5. QED
    BY <2>3, <2>4
<1>10. CASE Tick
  <2>1. breakers'[b] = BreakerTick(breakers[b], RecoveryTimeout[b]) /\ UNCHANGED <<pc, cur>>
    BY <1>10, Zenon DEF Tick
  <2>2. Probing(b)' = Probing(b)
    BY <2>1 DEF Probing, HasBreaker, tool
  <2>3. QED
    BY <1>3, <2>1, <2>2, MethodsSound, Zenon
<1>11. CASE Environment /\ ~Tick
  BY <1>1, <1>11, Zenon
  DEF Environment, ReadLine, ReadEof, WriteLine, WriteFails, AuditInsert, Reload, Install,
      Cancel
<1>12. CASE UNCHANGED vars
  BY <1>1, <1>12, Zenon DEF vars
<1>13. QED
  BY <1>5, <1>6, <1>7, <1>8, <1>9, <1>10, <1>11, <1>12, Zenon DEF Next
-----------------------------------------------------------------------------
(* The theorems. *)

\* The inductive invariant.
IInv == TypeOK /\ DispatchInv /\ IdsBalanced /\ ProbesInv

\* The inductive invariant holds in every reachable state.
LEMMA Inductive == Spec => []IInv
<1>1. Init => IInv
  BY InitTyped DEF IInv
<1>2. IInv /\ [Next]_vars => IInv'
  BY StepTyped, StepDispatch, StepIds, StepProbes DEF IInv
<1>3. QED
  BY <1>1, <1>2, PTL DEF Spec

\* The dispatcher, its tables and the channels keep their types.
THEOREM GatewayTypeCorrect == Spec => []TypeOK
<1>1. IInv => TypeOK
  BY DEF IInv
<1>2. QED
  BY <1>1, Inductive, PTL

\* No interleaving of reloads with the checks of run_dispatch lets a call
\* reach a backend that some check should have stopped.
THEOREM GovernanceCorrect == Spec => []CallsGoverned
<1>1. IInv => CallsGoverned
  <2>. SUFFICES ASSUME IInv, pc = "call" PROVE CallsGoverned
    BY Zenon DEF CallsGoverned
  <2>1. tool # Missing
    BY CatalogAssumption, MissingAssumption DEF IInv, DispatchInv, HasBreaker
  <2>2. QED
    BY <2>1, Zenon DEF IInv, DispatchInv, CallsGoverned, HasBreaker, MayExecute, IsToolAllowed,
                required_permission_str
<1>2. QED
  BY <1>1, Inductive, PTL

\* A half-open circuit always has its probe in flight, and an open one a
\* failure to recover from.
THEOREM ProbesCorrect == Spec => []ProbesRecorded
<1>1. IInv => ProbesRecorded
  BY DEF IInv, ProbesInv
<1>2. QED
  BY <1>1, Inductive, PTL

\* The remapper holds the call in flight and nothing else.
THEOREM IdsCorrect == Spec => []IdsBalanced
<1>1. IInv => IdsBalanced
  BY DEF IInv
<1>2. QED
  BY <1>1, Inductive, PTL

\* IdRemapper::remap never gives out an id twice, nor one below an earlier one.
THEOREM IdsGrowCorrect == Spec => IdsGrow
<1>1. ASSUME IInv, [Next]_vars, pc # "call", pc' = "call"
      PROVE  gid' > gid
  <2>1. DispatchCall
    BY <1>1, Zenon
    DEF Next, Dispatch, Receive, ReceiveUnparsable, ReceiveEarly, ReceiveInitialize,
        ReceiveInitialized, ReceivePing, ReceiveOther, ReceiveList, ReceiveCall, Accepted,
        AnswerRequest, Close, ListTools, GateKilled, GateLimited, GatePassed, CheckRefused,
        CheckPassed, DispatchFails, SendResponse, Return, CallAnswered, CallFailed, Conclude,
        Answer, Environment, ReadLine, ReadEof, WriteLine, WriteFails, AuditInsert, Reload,
        Install, Cancel, Tick, dispatchVars, vars
  <2>2. gid \in Nat /\ next_id \in Nat /\ gid < next_id
    BY <1>1 DEF IInv, TypeOK, IdType, IdsBalanced
  <2>3. QED
    BY <2>1, <2>2 DEF DispatchCall
<1>2. QED
  BY <1>1, Inductive, PTL DEF Spec, IdsGrow
-----------------------------------------------------------------------------
(* Every backend has a circuit of its own. *)

\* The steps that neither touch a breaker nor begin or end a call.
LEMMA CircuitRests ==
  ASSUME NEW b \in Registered, breakers'[b] = breakers[b], Probing(b)' = Probing(b)
  PROVE  UNCHANGED Circuit(b)!vars
BY DEF Circuit!vars

\* The dispatcher is let through to b.
LEMMA CircuitAdmits ==
  ASSUME NEW b \in Registered, ~Probing(b), Probing(b)',
         Allows(breakers[b], RecoveryTimeout[b]),
         breakers'[b] = AllowRequest(breakers[b], RecoveryTimeout[b])
  PROVE  Circuit(b)!Next
BY DEF Circuit!Next, Circuit!Admit, Circuit!Allows, Circuit!AllowRequest, Circuit!Recovered,
       Circuit!Never, Allows, AllowRequest, Recovered, Never

\* b's call has returned, one way or the other.
LEMMA CircuitTold ==
  ASSUME NEW b \in Registered, Probing(b), ~Probing(b)',
         \/ breakers'[b] = RecordSuccess(breakers[b])
         \/ breakers'[b] = RecordFailure(breakers[b], FailureThreshold[b])
  PROVE  Circuit(b)!Next
BY DEF Circuit!Next, Circuit!Succeed, Circuit!Fail, Circuit!RecordSuccess,
       Circuit!RecordFailure, RecordSuccess, RecordFailure

\* A tick passes for b's breaker.
LEMMA CircuitAges ==
  ASSUME NEW b \in Registered, Probing(b)' = Probing(b),
         breakers'[b] = BreakerTick(breakers[b], RecoveryTimeout[b])
  PROVE  Circuit(b)!Next
BY DEF Circuit!Next, Circuit!Tick, Circuit!BreakerTick, Circuit!Never, BreakerTick, Never

\* Every step of the gateway is a step of b's circuit, or leaves it alone.
LEMMA CircuitStep ==
  ASSUME IInv, [Next]_vars, NEW b \in Registered
  PROVE  [Circuit(b)!Next]_(Circuit(b)!vars)
<1>. USE DEF readerVars, dispatchVars, idVars, reloadVars, writerVars, auditVars
<1>0. TypeOK /\ DispatchInv /\ BreakerType
  BY DEF IInv, TypeOK
<1>1. ASSUME UNCHANGED <<breakers, pc, cur>>
      PROVE  UNCHANGED Circuit(b)!vars
  <2>1. Probing(b)' = Probing(b)
    BY <1>1 DEF Probing, HasBreaker, tool
  <2>2. QED
    BY <1>1, <2>1, CircuitRests
<1>2. ASSUME breakers' = breakers, ~Probing(b), ~Probing(b)'
      PROVE  UNCHANGED Circuit(b)!vars
  BY <1>2, CircuitRests DEF Probing
<1>3. CASE Dispatch /\ ~CheckPassed /\ ~DispatchFails /\ ~DispatchCall
  <2>1. breakers' = breakers /\ pc \notin {"dispatch", "call"}
    <3>1. CASE Receive
      BY <3>1, Zenon
      DEF Receive, ReceiveUnparsable, ReceiveEarly, ReceiveInitialize, ReceiveInitialized,
          ReceivePing, ReceiveOther, ReceiveList, ReceiveCall, Accepted, ReceiveFrame
    <3>2. CASE ~Receive
      BY <1>3, <3>2, Zenon
      DEF Dispatch, Close, ListTools, GateKilled, GateLimited, GatePassed, CheckRefused,
          SendResponse, ReceiveFrame
    <3>3. QED
      BY <3>1, <3>2
  <2>2. pc' \in {"dispatch", "call"} => tool' = Missing
    <3>1. CASE Receive
      BY <3>1, Zenon
      DEF Receive, ReceiveUnparsable, ReceiveEarly, ReceiveInitialize, ReceiveInitialized,
          ReceivePing, ReceiveOther, ReceiveList, ReceiveCall, Accepted, AnswerRequest,
          Answer, tool
    <3>2. CASE ~Receive
      BY <1>3, <3>2, Zenon
      DEF Dispatch, Close, ListTools, GateKilled, GateLimited, GatePassed, CheckRefused,
          SendResponse, Answer
    <3>3. QED
      BY <3>1, <3>2
  <2>3. ~Probing(b) /\ ~Probing(b)'
    BY <2>1, <2>2, CatalogAssumption, MissingAssumption DEF Probing, HasBreaker
  <2>4. QED
    BY <1>2, <2>1, <2>3
<1>4. CASE CheckPassed
  <2>1. pc = "check" /\ pc' = "dispatch" /\ tool' = tool /\ ~CircuitRefuses(tool)
    BY <1>4, Zenon DEF CheckPassed, tool
  <2>2. CASE HasBreaker(tool) /\ Route[tool] = b
    <3>1. /\ breakers'[b] = AllowRequest(breakers[b], RecoveryTimeout[b])
          /\ Allows(breakers[b], RecoveryTimeout[b])
      BY <1>0, <1>4, <2>1, <2>2, Zenon DEF CheckPassed, CircuitRefuses, BreakerType
    <3>2. ~Probing(b) /\ Probing(b)'
      BY <2>1, <2>2 DEF Probing, HasBreaker
    <3>3. QED
      BY <3>1, <3>2, CircuitAdmits, Zenon
  <2>3. CASE ~(HasBreaker(tool) /\ Route[tool] = b)
    <3>1. breakers'[b] = breakers[b]
      BY <1>0, <1>4, <2>3, BreakerOfTool, Zenon DEF CheckPassed, BreakerType
    <3>2. Probing(b)' = Probing(b)
      BY <2>1, <2>3 DEF Probing, HasBreaker
    <3>3. QED
      BY <3>1, <3>2, CircuitRests, Zenon
  <2>4. QED
    BY <2>2, <2>3
<1>5. CASE DispatchFails
  <2>1. ~HasBreaker(tool) /\ pc' = "send" /\ breakers' = breakers
    BY <1>5, Zenon DEF DispatchFails, Conclude, Answer
  <2>2. QED
    BY <1>2, <2>1 DEF Probing
<1>6. CASE DispatchCall
  <2>1. pc = "dispatch" /\ pc' = "call" /\ tool' = tool /\ breakers' = breakers
    BY <1>6, Zenon DEF DispatchCall, tool
  <2>2. Probing(b)' = Probing(b)
    BY <2>1 DEF Probing, HasBreaker
  <2>3. QED
    BY <2>1, <2>2, CircuitRests
<1>7. CASE Return
  <2>1. pc = "call" /\ HasBreaker(tool) /\ pc' = "send"
    BY <1>0, <1>7 DEF Return, CallAnswered, CallFailed, Conclude, Answer, DispatchInv
  <2>2. CASE Route[tool] = b
    <3>1. \/ breakers'[b] = RecordSuccess(breakers[b])
          \/ breakers'[b] = RecordFailure(breakers[b], FailureThreshold[b])
      BY <1>0, <1>7, <2>2 DEF Return, CallAnswered, CallFailed, BreakerType
    <3>2. Probing(b) /\ ~Probing(b)'
      BY <2>1, <2>2 DEF Probing
    <3>3. QED
      BY <3>1, <3>2, CircuitTold, Zenon
  <2>3. CASE Route[tool] # b
    <3>1. breakers'[b] = breakers[b]
      BY <1>0, <1>7, <2>3 DEF Return, CallAnswered, CallFailed, BreakerType
    <3>2. Probing(b)' = Probing(b)
      BY <2>1, <2>3 DEF Probing
    <3>3. QED
      BY <3>1, <3>2, CircuitRests, Zenon
  <2>4. QED
    BY <2>2, <2>3
<1>8. CASE Tick
  <2>1. breakers'[b] = BreakerTick(breakers[b], RecoveryTimeout[b]) /\ UNCHANGED <<pc, cur>>
    BY <1>8, Zenon DEF Tick
  <2>2. Probing(b)' = Probing(b)
    BY <2>1, Zenon DEF Probing, HasBreaker, tool
  <2>3. QED
    BY <2>1, <2>2, CircuitAges, Zenon
<1>9. CASE Environment /\ ~Tick
  <2>1. UNCHANGED <<breakers, pc, cur>>
    BY <1>9, Zenon
    DEF Environment, ReadLine, ReadEof, WriteLine, WriteFails, AuditInsert, Reload, Install,
        Cancel
  <2>2. QED
    BY <1>1, <2>1
<1>10. CASE UNCHANGED vars
  BY <1>1, <1>10 DEF vars
<1>11. QED
  BY <1>3, <1>4, <1>5, <1>6, <1>7, <1>8, <1>9, <1>10 DEF Next

\* A new breaker is where b's circuit starts.
LEMMA CircuitInit == ASSUME Init, NEW b \in Registered PROVE Circuit(b)!Init
BY DEF Init, Probing, NewBreaker, Never, Circuit!Init, Circuit!NewBreaker, Circuit!Never

\* run_dispatch drives each backend's breaker through the steps of
\* CircuitBreaker, independently of the other backends'.
THEOREM CircuitsCorrect == Spec => CircuitsRefined
<1>. DEFINE Steps == \A b \in Registered : [Circuit(b)!Next]_(Circuit(b)!vars)
<1>1. Init => \A b \in Registered : Circuit(b)!Init
  BY CircuitInit
<1>2. IInv /\ [Next]_vars => [Steps]_vars
  BY CircuitStep
<1>3. QED
  BY <1>1, <1>2, Inductive, PTL DEF Spec, CircuitsRefined

\* One backend at a time: the gateway implements CircuitBreaker for each of
\* its connected backends, so what Health_proofs shows of a breaker under its
\* serial caller holds of all of them.
THEOREM CircuitImplemented == ASSUME NEW b \in Registered PROVE Spec => Circuit(b)!Spec
<1>1. Init => Circuit(b)!Init
  BY CircuitInit
<1>2. IInv /\ [Next]_vars => [Circuit(b)!Next]_(Circuit(b)!vars)
  BY CircuitStep
<1>3. QED
  BY <1>1, <1>2, Inductive, PTL DEF Spec, Circuit!Spec
-----------------------------------------------------------------------------
(* The limiter. *)

\* A bucket that meters a rate: the tokens never exceed it.
Meters(bucket, rpm) == bucket.max_tokens = rpm /\ bucket.tokens <= rpm

\* A new bucket is full.
LEMMA NewMeters == ASSUME NEW rpm \in Nat PROVE Meters(NewBucket(rpm), rpm)
<1>1. NewBucket(rpm).max_tokens = rpm /\ NewBucket(rpm).tokens = rpm
  BY DEF NewBucket
<1>2. QED
  BY <1>1 DEF Meters

\* The methods of TokenBucket leave the rate alone and keep within it.
LEMMA MethodsMeter ==
  ASSUME NEW window \in Nat, NEW rpm \in Nat, NEW bucket \in Bucket(window),
         Meters(bucket, rpm)
  PROVE  Meters(BucketTick(bucket, window), rpm) /\ Meters(TryConsume(bucket, window), rpm)
<1>1. Meters(BucketTick(bucket, window), rpm)
  BY DEF Meters, BucketTick, Bucket
<1>. DEFINE r == Refill(bucket, window)
<1>2. r \in Bucket(window) /\ Meters(r, rpm)
  <2>1. bucket.max_tokens \in Nat /\ 0 \in 0..window /\ bucket.max_tokens = rpm
    BY DEF Bucket, Meters
  <2>. DEFINE full == [bucket EXCEPT !.tokens = bucket.max_tokens, !.age = 0]
  <2>2. full \in Bucket(window) /\ full.tokens = rpm /\ full.max_tokens = rpm
    BY <2>1, Zenon DEF Bucket
  <2>3. r = full \/ r = bucket
    BY DEF Refill
  <2>. HIDE DEF full, r
  <2>4. QED
    BY <2>2, <2>3 DEF Meters
<1>3. TryConsume(bucket, window) = IF r.tokens > 0 THEN [r EXCEPT !.tokens = r.tokens - 1] ELSE r
  BY DEF TryConsume
<1>. HIDE DEF r
<1>4. Meters(TryConsume(bucket, window), rpm)
  <2>1. r.tokens \in Nat /\ r.max_tokens = rpm /\ r.tokens <= rpm
    BY <1>2 DEF Bucket, Meters
  <2>. DEFINE left == [r EXCEPT !.tokens = r.tokens - 1]
  <2>2. left.max_tokens = rpm /\ left.tokens = r.tokens - 1
    BY <1>2, <2>1 DEF Bucket
  <2>3. TryConsume(bucket, window) \in {left, r}
    BY <1>3
  <2>. HIDE DEF left
  <2>4. QED
    BY <2>1, <2>2, <2>3 DEF Meters
<1>5. QED
  BY <1>1, <1>4

\* The first half of LimiterCurrent.
BucketsMeter == \A t \in DOMAIN buckets : Meters(buckets[t], hot.rpm[t])

\* There is still one line for each bucket when there are more lines.
LEMMA MoreLines ==
  ASSUME NEW S, NEW m \in Int, NEW n \in Int, m <= n, ExistsInjection(S, 1..m)
  PROVE  ExistsInjection(S, 1..n)
<1>1. PICK f \in [S -> 1..m] : IsInjective(f)
  BY DEF ExistsInjection, Injection
<1>2. f \in [S -> 1..n]
  BY <1>1
<1>3. QED
  BY <1>1, <1>2 DEF ExistsInjection, Injection

\* A limiter without buckets needs no lines.
LEMMA NoBuckets == ASSUME NEW n PROVE ExistsInjection({}, 1..n)
<1>. DEFINE f == [y \in {} |-> n]
<1>1. f \in [{} -> 1..n] /\ IsInjective(f)
  BY DEF IsInjective
<1>2. QED
  BY <1>1, Zenon DEF ExistsInjection, Injection

\* A line takes at most one bucket more.
LEMMA OneMoreBucket ==
  ASSUME NEW S, NEW x, NEW n \in Int, n - 1 \in Nat, ExistsInjection(S, 1..(n - 1))
  PROVE  ExistsInjection(S \cup {x}, 1..n)
<1>1. PICK f \in [S -> 1..(n - 1)] : IsInjective(f)
  BY DEF ExistsInjection, Injection
<1>. DEFINE g == [y \in S \cup {x} |-> IF y \in S THEN f[y] ELSE n]
<1>2. /\ \A y \in S : g[y] = f[y] /\ f[y] \in 1..(n - 1)
      /\ \A y \in (S \cup {x}) \ S : y = x /\ g[y] = n
  BY <1>1
<1>3. g \in [S \cup {x} -> 1..n]
  BY <1>2
<1>4. IsInjective(g)
  BY <1>1, <1>2 DEF IsInjective
<1>5. QED
  BY <1>3, <1>4 DEF ExistsInjection, Injection

\* The bucket that a call is checked against meters its tool's current rate,
\* and goes on doing so.
LEMMA GateMeters ==
  ASSUME TypeOK, DispatchInv, BucketsMeter, BucketsCounted, pc = "gate",
         buckets' = Insert(buckets, tool, TryConsume(BucketOf(tool), Window)),
         hot' = hot, pc' # "gate", UNCHANGED <<sent, inbound>>
  PROVE  BucketsMeter' /\ BucketsCounted'
<1>1. tool \in Tools /\ Window \in Nat
  BY CurTyped, WindowAssumption, Zenon DEF DispatchInv
<1>2. hot.rpm[tool] \in Nat /\ IsMap(buckets, Tools, Bucket(Window))
  BY <1>1 DEF TypeOK, HotType, HotConfig
<1>3. NewBucket(hot.rpm[tool]) \in Bucket(Window)
  BY ONLY <1>1, <1>2, BucketOpsTyped, Zenon
<1>4. Meters(NewBucket(hot.rpm[tool]), hot.rpm[tool])
  BY ONLY <1>2, NewMeters, Zenon
<1>5. BucketOf(tool) \in Bucket(Window) /\ Meters(BucketOf(tool), hot.rpm[tool])
  BY <1>2, <1>3, <1>4 DEF BucketOf, IsMap, BucketsMeter
<1>6. Meters(TryConsume(BucketOf(tool), Window), hot.rpm[tool])
  BY <1>1, <1>2, <1>5, MethodsMeter
<1>7. /\ DOMAIN buckets' = DOMAIN buckets \cup {tool}
      /\ \A t \in DOMAIN buckets' :
           buckets'[t] = IF t = tool THEN TryConsume(BucketOf(tool), Window) ELSE buckets[t]
  BY DEF Insert
<1>8. BucketsMeter'
  BY <1>6, <1>7 DEF BucketsMeter
<1>9. BucketsCounted'
  <2>1. Received \in Int /\ Metered = Received - 1 /\ Metered' = Received
    BY DEF TypeOK, ReaderType, Received, Metered
  <2>2. /\ Received \in Nat /\ Received \in Int /\ Received - 1 \in Nat
        /\ ExistsInjection(DOMAIN buckets, 1..(Received - 1))
    BY <2>1 DEF BucketsCounted
  <2>3. ExistsInjection(DOMAIN buckets', 1..Received)
    <3>1. ExistsInjection(DOMAIN buckets \cup {tool}, 1..Received)
      BY ONLY <2>2, OneMoreBucket, Zenon
    <3>2. QED
      BY ONLY <1>7, <3>1, Zenon
  <2>4. QED
    BY ONLY <2>1, <2>2, <2>3 DEF BucketsCounted
<1>10. QED
  BY <1>8, <1>9

\* Every step keeps the buckets at the rates in force, and their number
\* within that of the lines received.
LEMMA LimiterStep ==
  ASSUME TypeOK, DispatchInv, BucketsMeter, BucketsCounted, [Next]_vars
  PROVE  BucketsMeter' /\ BucketsCounted'
<1>. USE DEF readerVars, dispatchVars, idVars, reloadVars, writerVars, auditVars
<1>0. sent \in Nat /\ inbound \in Seq(Msg) /\ Len(inbound) \in Nat
  BY DEF TypeOK, ReaderType
<1>1. ASSUME UNCHANGED <<buckets, hot>>, Metered' \in Int, Metered <= Metered'
      PROVE  BucketsMeter' /\ BucketsCounted'
  <2>1. Metered \in Nat /\ ExistsInjection(DOMAIN buckets, 1..Metered)
    BY DEF BucketsCounted
  <2>2. Metered' \in Nat
    BY <1>1, <2>1
  <2>3. ExistsInjection(DOMAIN buckets, 1..Metered')
    BY <1>1, <2>1, MoreLines
  <2>4. QED
    BY <1>1, <2>2, <2>3, Zenon DEF BucketsCounted, BucketsMeter
<1>2. CASE Receive
  <2>1. inbound # <<>> /\ inbound' = Tail(inbound) /\ pc = "recv" /\ UNCHANGED <<sent, buckets, hot>>
    BY <1>2, Zenon
    DEF Receive, ReceiveUnparsable, ReceiveEarly, ReceiveInitialize, ReceiveInitialized,
        ReceivePing, ReceiveOther, ReceiveList, ReceiveCall, Accepted, ReceiveFrame
  <2>2. Len(inbound') = Len(inbound) - 1
    BY ONLY <1>0, <2>1, QueueTail
  <2>3. Metered' \in Int /\ Metered <= Metered'
    BY ONLY <1>0, <2>1, <2>2 DEF Metered, Received
  <2>4. QED
    BY ONLY <1>1, <2>1, <2>3
<1>3. CASE Close
  <2>1. inbound' = <<>> /\ pc = "recv" /\ pc' = "closed" /\ UNCHANGED <<sent, buckets, hot>>
    BY <1>3 DEF Close, ReceiveFrame
  <2>2. Len(inbound') = 0
    BY <2>1
  <2>3. Metered' \in Int /\ Metered <= Metered'
    BY ONLY <1>0, <2>1, <2>2 DEF Metered, Received
  <2>4. QED
    BY ONLY <1>1, <2>1, <2>3
<1>4. CASE GateLimited \/ GatePassed
  BY <1>4, GateMeters, Zenon DEF GateLimited, GatePassed, CheckFrame, Answer
<1>5. CASE \/ ListTools \/ GateKilled \/ CheckRefused \/ CheckPassed
           \/ DispatchFails \/ DispatchCall \/ SendResponse \/ Return
  <2>1. UNCHANGED <<sent, inbound, buckets, hot>> /\ pc' # "gate"
    BY <1>5
    DEF ListTools, GateKilled, CheckRefused, CheckPassed, DispatchFails, DispatchCall,
        SendResponse, Return, CallAnswered, CallFailed, Conclude, Answer, ReceiveFrame,
        CheckFrame
  <2>2. Metered' \in Int /\ Metered <= Metered'
    BY ONLY <1>0, <2>1 DEF Metered, Received
  <2>3. QED
    BY ONLY <1>1, <2>1, <2>2
<1>6. ASSUME NEW line, ReadLine(line)
      PROVE  BucketsMeter' /\ BucketsCounted'
  <2>. DEFINE m == [sn |-> sent + 1, line |-> line]
  <2>1. sent' = sent + 1 /\ inbound' = Append(inbound, m) /\ UNCHANGED <<buckets, hot, pc>>
    BY <1>6 DEF ReadLine
  <2>. HIDE DEF m
  <2>2. Len(inbound') = Len(inbound) + 1
    BY ONLY <1>0, <2>1
  <2>3. Metered' \in Int /\ Metered <= Metered'
    BY ONLY <1>0, <2>1, <2>2 DEF Metered, Received
  <2>4. QED
    BY ONLY <1>1, <2>1, <2>3
<1>7. CASE Install
  <2>1. buckets' = EmptyMap /\ UNCHANGED <<sent, inbound, pc>>
    BY <1>7 DEF Install
  <2>2. DOMAIN buckets' = {} /\ Metered' = Metered
    BY <2>1 DEF EmptyMap, Metered, Received
  <2>3. ExistsInjection(DOMAIN buckets', 1..Metered)
    BY <2>2, NoBuckets
  <2>4. QED
    BY <2>2, <2>3 DEF BucketsMeter, BucketsCounted
<1>8. CASE Tick
  <2>1. /\ DOMAIN buckets' = DOMAIN buckets /\ UNCHANGED <<sent, inbound, pc, hot>>
        /\ \A t \in DOMAIN buckets : buckets'[t] = BucketTick(buckets[t], Window)
    BY <1>8, Zenon DEF Tick
  <2>2. ASSUME NEW t \in DOMAIN buckets
        PROVE  Meters(buckets'[t], hot.rpm[t])
    <3>1. /\ t \in Tools /\ buckets[t] \in Bucket(Window) /\ Window \in Nat
          /\ hot.rpm[t] \in Nat
      BY WindowAssumption DEF TypeOK, IsMap, HotType, HotConfig
    <3>2. QED
      BY <2>1, <3>1, MethodsMeter, Zenon DEF BucketsMeter
  <2>3. BucketsMeter'
    BY <2>1, <2>2, Zenon DEF BucketsMeter
  <2>4. BucketsCounted'
    BY <2>1, Zenon DEF BucketsCounted, Metered, Received
  <2>5. QED
    BY <2>3, <2>4
<1>9. CASE ReadEof \/ WriteLine \/ WriteFails \/ AuditInsert \/ Cancel
           \/ (\E config \in HotConfigs : Reload(config)) \/ UNCHANGED vars
  <2>1. UNCHANGED <<sent, inbound, pc, buckets, hot>>
    BY <1>9, Zenon DEF ReadEof, WriteLine, WriteFails, AuditInsert, Reload, Cancel, vars
  <2>2. Metered' \in Int /\ Metered <= Metered'
    BY ONLY <1>0, <2>1 DEF Metered, Received
  <2>3. QED
    BY ONLY <1>1, <2>1, <2>2
<1>10. QED
  BY <1>2, <1>3, <1>4, <1>5, <1>6, <1>7, <1>8, <1>9 DEF Next, Dispatch, Environment

\* No reload leaves a call metered by a rate no longer in force, and the
\* limiter's map, which nothing shrinks, is bounded by the lines received.
THEOREM LimiterCorrect == Spec => []LimiterCurrent
<1>1. Init => BucketsMeter /\ BucketsCounted
  <2>. SUFFICES ASSUME Init PROVE BucketsMeter /\ BucketsCounted
    OBVIOUS
  <2>1. DOMAIN buckets = {} /\ Metered = 0
    <3>1. buckets = EmptyMap /\ sent = 0 /\ inbound = <<>> /\ pc = "recv"
      BY DEF Init
    <3>2. Len(inbound) = 0
      BY <3>1
    <3>3. DOMAIN buckets = {}
      BY <3>1 DEF EmptyMap
    <3>4. Metered = sent - Len(inbound)
      BY ONLY <3>1 DEF Metered, Received
    <3>5. QED
      BY ONLY <3>1, <3>2, <3>3, <3>4
  <2>2. ExistsInjection(DOMAIN buckets, 1..Metered)
    BY <2>1, NoBuckets
  <2>3. QED
    BY <2>1, <2>2 DEF BucketsMeter, BucketsCounted
<1>2. IInv /\ BucketsMeter /\ BucketsCounted /\ [Next]_vars => BucketsMeter' /\ BucketsCounted'
  BY LimiterStep DEF IInv
<1>3. IInv /\ BucketsMeter /\ BucketsCounted => LimiterCurrent
  <2>. SUFFICES ASSUME IInv, BucketsMeter, BucketsCounted PROVE LimiterCurrent
    OBVIOUS
  <2>1. Metered \in Int /\ Received \in Int /\ Metered <= Received
    BY DEF IInv, Metered, Received, TypeOK, ReaderType
  <2>2. ExistsInjection(DOMAIN buckets, 1..Received)
    BY <2>1, MoreLines DEF BucketsCounted
  <2>3. QED
    BY <2>2 DEF LimiterCurrent, BucketsMeter, Meters
<1>4. QED
  BY <1>1, <1>2, <1>3, Inductive, PTL DEF Spec
=============================================================================
