------------------------ MODULE StdioBackend_proofs ------------------------
(***************************************************************************)
(* Proofs about the sends over one child process, for every capacity of    *)
(* the channel and the pipe and any number of sends, ids and requests of   *)
(* the child's own.                                                        *)
(***************************************************************************)
EXTENDS StdioBackend, TLAPS

\* A send is under way: its oneshot is open.
InFlight == pc \in {"enqueue", "await"}

\* The lines of a queue.
Lines(q) == {q[i] : i \in 1..Len(q)}

\* A line is in a queue at most once.
Once(q, line) == \A i, j \in 1..Len(q) : q[i] = line /\ q[j] = line => i = j

\* Whose answer the request in flight may be given: its own, a request of the
\* child's own, or the answer to initialize when such a request took its place.
Fits(m) == m \in {n, Foreign} \/ (m = 1 /\ id = 1 /\ greeting = Foreign)

\* The request in flight has its entry in the map, its sender in the reader's
\* hands, or something in its oneshot, and never two of these.
Flight ==
  /\ n <= MaxSends /\ (pc # "idle" => n >= 1)
  /\ PendingClean /\ OwnAnswer
  /\ InFlight => slot \in {Empty, Dropped} \/ Fits(slot)
  /\ InFlight /\ slot # Empty => pending = EmptyMap
  /\ reader = "holding" =>
       /\ held.waiter \in 1..n /\ held.n \in 1..Foreign
       /\ held.waiter = n /\ InFlight => pending = EmptyMap /\ Fits(held.n)

\* Whoever can still be told of the child's end is in the map or in hand.
Prompt ==
  /\ PromptFailure
  /\ IF reader = "gone" THEN drains >= 1 ELSE drains = 0
  /\ InFlight /\ slot = Empty =>
       n \in Range(pending) \/ (reader = "holding" /\ held.waiter = n)

\* A request on its way to the child, or its answer on the way back: it has
\* the id it was sent with, and after the handshake ids only grow.
Request(l) ==
  /\ l.n \in 1..n
  /\ l.n <= Handshake => l.id = l.n
  /\ l.n > Handshake => l.id <= gid /\ (l.n < n => l.id < gid)
  /\ l.n = n => l.id = id

\* What can be on each of the ways.
Traffic ==
  /\ IF n <= Handshake THEN gid = 0 /\ id = n ELSE gid = id
  /\ \A l \in Lines(stdinq) \cup Lines(pipe) : l = Note \/ Request(l)
  /\ \A l \in todo : Request(l)
  /\ \A l \in Lines(answers) : l.n = Foreign \/ Request(l)

\* The k-th request of the handshake.  Before its id is used again its answer
\* has been taken, unless another line was taken for the answer to initialize.
Token(k) == [n |-> k, id |-> k]
Unsent(k) == n < k \/ (n = k /\ pc = "enqueue")
Taken(k) ==
  \/ (n > k \/ (n = k /\ pc \in {"idle", "notify"})) /\ (k = 1 => greeting # Foreign)
  \/ n = k /\ InFlight /\ slot = k
  \/ reader = "holding" /\ held.n = k

\* It is in one place at most, and nowhere before it is sent and after its
\* answer was taken.
Single(k) ==
  LET q == Token(k) \in Lines(stdinq)
      p == Token(k) \in Lines(pipe)
      t == Token(k) \in todo
      a == Token(k) \in Lines(answers)
  IN  /\ Once(stdinq, Token(k)) /\ Once(pipe, Token(k)) /\ Once(answers, Token(k))
      /\ (q => ~p /\ ~t /\ ~a) /\ (p => ~t /\ ~a) /\ (t => ~a)
      /\ Unsent(k) \/ Taken(k) => ~q /\ ~p /\ ~t /\ ~a
      /\ Unsent(k) => ~(reader = "holding" /\ held.n = k) /\ (n = k => slot # k)

Handshakes == \A k \in 1..Handshake : k <= MaxSends => Single(k)

(* The inductive invariant. *)
BInv == TypeOK /\ Flight /\ Prompt /\ Traffic /\ Handshakes
-----------------------------------------------------------------------------
(* Queues and maps. *)

\* An empty queue has no lines.
LEMMA NoLines == Lines(<<>>) = {} /\ \A x : Once(<<>>, x)
BY DEF Lines, Once

\* What a line at the end of a queue adds.
LEMMA AppendLines ==
  ASSUME NEW q \in Seq(StdioLine), NEW l \in StdioLine
  PROVE  /\ Append(q, l) \in Seq(StdioLine)
         /\ Lines(Append(q, l)) = Lines(q) \cup {l}
         /\ \A x : Once(q, x) /\ ~(x = l /\ x \in Lines(q)) => Once(Append(q, l), x)
<1>1. /\ Append(q, l) \in Seq(StdioLine) /\ Len(Append(q, l)) = Len(q) + 1
      /\ \A i \in 1..Len(q) : Append(q, l)[i] = q[i]
      /\ Append(q, l)[Len(q) + 1] = l
      /\ Len(q) \in Nat
  OBVIOUS
<1>2. 1..(Len(q) + 1) = 1..Len(q) \cup {Len(q) + 1}
  BY <1>1
<1>3. Lines(Append(q, l)) = Lines(q) \cup {l}
  BY <1>1, <1>2 DEF Lines
<1>4. ASSUME NEW x, Once(q, x), ~(x = l /\ x \in Lines(q))
      PROVE  Once(Append(q, l), x)
  BY <1>1, <1>2, <1>4 DEF Once, Lines
<1>5. QED
  BY <1>1, <1>3, <1>4

\* What is left when the first line has been taken.
LEMMA TailLines ==
  ASSUME NEW q \in Seq(StdioLine), q # <<>>
  PROVE  /\ Tail(q) \in Seq(StdioLine) /\ Head(q) \in StdioLine
         /\ Head(q) \in Lines(q) /\ Lines(Tail(q)) \subseteq Lines(q)
         /\ \A x : Once(q, x) => Once(Tail(q), x) /\ ~(x = Head(q) /\ x \in Lines(Tail(q)))
<1>1. /\ Len(q) \in Nat /\ Len(q) >= 1 /\ Tail(q) \in Seq(StdioLine)
      /\ Len(Tail(q)) = Len(q) - 1 /\ Head(q) = q[1] /\ Head(q) \in StdioLine
      /\ \A i \in 1..(Len(q) - 1) : Tail(q)[i] = q[i + 1]
  OBVIOUS
<1>2. Head(q) \in Lines(q) /\ Lines(Tail(q)) \subseteq Lines(q)
  BY <1>1 DEF Lines
<1>3. ASSUME NEW x, Once(q, x)
      PROVE  Once(Tail(q), x) /\ ~(x = Head(q) /\ x \in Lines(Tail(q)))
  BY <1>1, <1>3 DEF Once, Lines
<1>4. QED
  BY <1>1, <1>2, <1>3

\* The lines of a queue are lines.
LEMMA LinesTyped == ASSUME NEW q \in Seq(StdioLine) PROVE Lines(q) \subseteq StdioLine
BY DEF Lines

\* The empty map.
LEMMA EmptyMapFacts ==
  DOMAIN EmptyMap = {} /\ Range(EmptyMap) = {} /\ IsMap(EmptyMap, Nat, Nat)
BY DEF EmptyMap, Range, IsMap

\* insert into the empty map.
LEMMA InsertFirst ==
  ASSUME NEW i \in Nat, NEW v \in Nat
  PROVE  /\ IsMap(Insert(EmptyMap, i, v), Nat, Nat)
         /\ DOMAIN Insert(EmptyMap, i, v) = {i} /\ Range(Insert(EmptyMap, i, v)) = {v}
BY EmptyMapFacts DEF Insert, Range, IsMap

\* remove of the only key.
LEMMA WithoutOnly ==
  ASSUME NEW map, NEW i, DOMAIN map \subseteq {i}
  PROVE  Without(map, i) = EmptyMap
<1>1. DOMAIN map \ {i} = {}
  OBVIOUS
<1>2. QED
  BY <1>1 DEF Without, Restrict, EmptyMap
-----------------------------------------------------------------------------
\* A child that has just been spawned.
LEMMA BInvInit == Init => BInv
<1>. SUFFICES ASSUME Init PROVE BInv
  OBVIOUS
<1>. USE CapAssumption, BoundAssumption, EmptyMapFacts, NoLines DEF Init
<1>1. TypeOK
  BY DEF TypeOK, Empty
<1>2. Flight /\ Prompt
  BY DEF Flight, Prompt, InFlight, PendingClean, OwnAnswer, PromptFailure
<1>3. Traffic
  BY DEF Traffic, Handshake
<1>4. Handshakes
  BY DEF Handshakes, Single, Taken, Unsent, InFlight, Empty, Handshake
<1>5. QED
  BY <1>1, <1>2, <1>3, <1>4 DEF BInv

\* The types of the variables, one by one.
LEMMA Typed ==
  ASSUME TypeOK
  PROVE  /\ n \in Nat /\ id \in Nat /\ gid \in Nat /\ asks \in Nat
         /\ stdinq \in Seq(StdioLine) /\ pipe \in Seq(StdioLine)
         /\ answers \in Seq(StdioLine) /\ todo \subseteq StdioLine
         /\ IsMap(pending, Nat, Nat)
         /\ Lines(stdinq) \subseteq StdioLine /\ Lines(pipe) \subseteq StdioLine
         /\ Lines(answers) \subseteq StdioLine
         /\ <<>> \in Seq(StdioLine) /\ Note \in StdioLine /\ [n |-> n, id |-> id] \in StdioLine
         /\ Foreign \in Nat /\ \A i \in Nat : [n |-> Foreign, id |-> i] \in StdioLine
<1>1. /\ n \in Nat /\ id \in Nat /\ gid \in Nat /\ asks \in Nat
      /\ stdinq \in Seq(StdioLine) /\ pipe \in Seq(StdioLine)
      /\ answers \in Seq(StdioLine) /\ todo \subseteq StdioLine
      /\ IsMap(pending, Nat, Nat)
  BY DEF TypeOK
<1>2. /\ Note \in StdioLine /\ [n |-> n, id |-> id] \in StdioLine
      /\ Foreign \in Nat /\ \A i \in Nat : [n |-> Foreign, id |-> i] \in StdioLine
  BY <1>1, BoundAssumption DEF Foreign, Note, StdioLine
<1>3. QED
  BY <1>1, <1>2, LinesTyped

\* Where a send that has ended leads to.
LEMMA ContinueCases ==
  ASSUME TypeOK, NEW outcome \in {"ok", "closed", "exited", "timeout"}, Continue(outcome)
  PROVE  /\ result' = outcome /\ pc' \in {"idle", "notify", "failed"}
         /\ n <= Handshake /\ outcome # "ok" => pc' = "failed"
         /\ n = 1 /\ outcome = "ok" => pc' = "notify"
         /\ n = Handshake /\ outcome = "ok" /\ slot = Foreign => pc' = "failed"
         /\ pc' = "notify" => n = 1 /\ outcome = "ok"
<1>1. n \in Nat /\ Handshake = 2
  BY DEF TypeOK, Handshake
<1>2. CASE outcome # "ok" /\ n <= Handshake
  BY <1>1, <1>2 DEF Continue
<1>3. CASE outcome = "ok" /\ n = 1
  BY <1>1, <1>3 DEF Continue
<1>4. CASE outcome = "ok" /\ n = Handshake
  BY <1>1, <1>4 DEF Continue
<1>5. CASE n > Handshake \/ (outcome = "ok" /\ n = 0)
  BY <1>1, <1>5 DEF Continue
<1>6. QED
  BY <1>1, <1>2, <1>3, <1>4, <1>5

\* What the child asks of its own accord is a line too.
LEMMA ForeignLine == \A i \in 1..MaxId : [n |-> Foreign, id |-> i] \in StdioLine
BY BoundAssumption DEF Foreign, StdioLine

\* Every step keeps the types.
LEMMA StepTyped == ASSUME BInv, Next PROVE TypeOK'
<1>0. TypeOK /\ Flight /\ Prompt
  BY DEF BInv
<1>t. /\ n \in Nat /\ id \in Nat /\ gid \in Nat /\ IsMap(pending, Nat, Nat)
      /\ stdinq \in Seq(StdioLine) /\ pipe \in Seq(StdioLine) /\ answers \in Seq(StdioLine)
      /\ <<>> \in Seq(StdioLine) /\ Note \in StdioLine /\ [n |-> n, id |-> id] \in StdioLine
      /\ \A i \in Nat : [n |-> Foreign, id |-> i] \in StdioLine
  BY <1>0, Typed
<1>1. CASE Send
  <2>1. PICK i \in RequestIds : /\ id' = i /\ gid' = IF n < Handshake THEN gid ELSE i
                                /\ pending' = Insert(pending, i, n + 1)
    BY <1>1 DEF Send
  <2>2. i \in Nat /\ n + 1 \in Nat
    BY <1>t, <2>1, BoundAssumption DEF RequestIds
  <2>3. pending = EmptyMap
    BY <1>0, <1>1 DEF Send, Flight, PendingClean
  <2>4. IsMap(Insert(EmptyMap, i, n + 1), Nat, Nat)
    BY <2>2, InsertFirst, Zenon
  <2>5. QED
    BY <1>0, <1>1, <2>1, <2>2, <2>3, <2>4 DEF Send, TypeOK, Empty, childVars
<1>2. CASE Enqueue
  <2>1. stdinq' \in Seq(StdioLine)
    BY <1>t, <1>2, AppendLines DEF Enqueue
  <2>2. QED
    BY <1>0, <1>2, <2>1 DEF Enqueue, TypeOK, senderVars, childVars
<1>3. CASE Notify
  <2>1. stdinq' \in Seq(StdioLine)
    <3>1. Append(stdinq, Note) \in Seq(StdioLine)
      BY <1>t, AppendLines
    <3>2. QED
      BY <1>t, <1>3, <3>1, Zenon DEF Notify
  <2>2. QED
    BY <1>0, <1>3, <2>1 DEF Notify, TypeOK, senderVars, childVars
<1>4. CASE EnqueueFails \/ Timeout
  <2>1. pending' = EmptyMap
    BY <1>0, <1>4, WithoutOnly DEF EnqueueFails, Timeout, Flight, PendingClean
  <2>2. IsMap(pending', Nat, Nat)
    BY <2>1, EmptyMapFacts
  <2>3. QED
    BY <1>0, <1>4, <2>2, ContinueCases, Zenon
       DEF EnqueueFails, Timeout, TypeOK, senderVars, childVars
<1>5. CASE ReturnOk \/ ReturnExited
  BY <1>0, <1>5, ContinueCases, Zenon
     DEF ReturnOk, ReturnExited, TypeOK, senderVars, childVars, Empty, Dropped
<1>6. CASE Write
  <2>1. stdinq' \in Seq(StdioLine) /\ pipe' \in Seq(StdioLine)
    <3>1. Tail(stdinq) \in Seq(StdioLine) /\ Head(stdinq) \in StdioLine
      BY <1>t, <1>6, TailLines DEF Write
    <3>2. Append(pipe, Head(stdinq)) \in Seq(StdioLine)
      BY <1>t, <3>1, AppendLines
    <3>3. QED
      BY <1>6, <3>1, <3>2 DEF Write
  <2>2. QED
    BY <1>0, <1>6, <2>1 DEF Write, TypeOK, senderVars
<1>7. CASE WriteFails
  BY <1>0, <1>t, <1>7 DEF WriteFails, TypeOK, senderVars, childVars
<1>8. CASE ReadAnswer
  <2>1. Head(answers) \in StdioLine /\ answers' \in Seq(StdioLine)
    BY <1>t, <1>8, TailLines, Zenon DEF ReadAnswer
  <2>2. CASE Head(answers).id \in DOMAIN pending
    <3>1. pending' = EmptyMap
      BY <1>0, <1>8, <2>2, WithoutOnly DEF ReadAnswer, Flight, PendingClean
    <3>2. IsMap(pending', Nat, Nat)
      BY <3>1, EmptyMapFacts
    <3>3. Head(answers).n \in Nat /\ pending[Head(answers).id] \in Nat
      BY <1>t, <2>1, <2>2, Zenon DEF IsMap, StdioLine
    <3>4. held' = [waiter |-> pending[Head(answers).id], n |-> Head(answers).n]
      BY <1>8, <2>2 DEF ReadAnswer
    <3>5. held' \in [waiter : Nat, n : Nat] /\ reader' = "holding"
      BY <1>8, <2>2, <3>3, <3>4 DEF ReadAnswer
    <3>6. QED
      BY <1>0, <1>8, <2>1, <3>2, <3>5, Zenon DEF ReadAnswer, TypeOK, senderVars
  <2>3. CASE Head(answers).id \notin DOMAIN pending
    BY <1>0, <1>8, <2>1, <2>3 DEF ReadAnswer, TypeOK, senderVars
  <2>4. QED
    BY <2>2, <2>3
<1>9. CASE Deliver
  BY <1>0, <1>9 DEF Deliver, TypeOK, senderVars, childVars
<1>10. ASSUME Drain, drains <= 1
       PROVE  /\ IsMap(pending', Nat, Nat) /\ slot' \in Nat \cup {Dropped}
              /\ drains' \in 0..2
  BY <1>0, <1>10, EmptyMapFacts DEF Drain, TypeOK
<1>11. CASE ReadEof \/ DrainAgain
  <2>1. Drain /\ drains <= 1
    BY <1>0, <1>11 DEF ReadEof, DrainAgain, Prompt
  <2>2. IsMap(pending', Nat, Nat) /\ slot' \in Nat \cup {Dropped} /\ drains' \in 0..2
    BY <1>10, <2>1, Zenon
  <2>3. CASE ReadEof
    BY <1>0, <2>2, <2>3 DEF ReadEof, TypeOK, senderVars, childVars
  <2>4. CASE DrainAgain
    BY <1>0, <2>2, <2>4 DEF DrainAgain, TypeOK, senderVars, childVars
  <2>5. QED
    BY <1>11, <2>3, <2>4, Zenon
<1>12. CASE ReadFails
  <2>1. Drain /\ drains <= 1
    BY <1>0, <1>12 DEF ReadFails, Prompt
  <2>2. QED
    BY <1>0, <1>t, <1>10, <1>12, <2>1 DEF ReadFails, TypeOK, senderVars
<1>13. CASE ChildReads
  <2>1. Tail(pipe) \in Seq(StdioLine) /\ Head(pipe) \in StdioLine
    BY <1>t, <1>13, TailLines DEF ChildReads
  <2>2. QED
    BY <1>0, <1>13, <2>1, BoundAssumption DEF ChildReads, TypeOK, senderVars
<1>14. CASE ChildAnswers
  <2>1. PICK r \in todo : answers' = Append(answers, r) /\ todo' = todo \ {r}
    BY <1>14 DEF ChildAnswers
  <2>2. r \in StdioLine
    BY <1>0, <2>1 DEF TypeOK
  <2>3. answers' \in Seq(StdioLine)
    BY <1>t, <2>1, <2>2, AppendLines
  <2>4. QED
    BY <1>0, <1>14, <2>1, <2>3 DEF ChildAnswers, TypeOK, senderVars
<1>15. CASE ChildAsks
  <2>1. answers' \in Seq(StdioLine)
    <3>1. PICK i \in 1..MaxId : answers' = Append(answers, [n |-> Foreign, id |-> i])
      BY <1>15, Zenon DEF ChildAsks
    <3>2. [n |-> Foreign, id |-> i] \in StdioLine
      BY ForeignLine, Zenon
    <3>3. Append(answers, [n |-> Foreign, id |-> i]) \in Seq(StdioLine)
      BY <1>t, <3>2, AppendLines, Zenon
    <3>4. QED
      BY <3>1, <3>3, Zenon
  <2>2. QED
    BY <1>0, <1>15, <2>1 DEF ChildAsks, TypeOK, senderVars
<1>16. CASE ChildHangsUp \/ ChildDies
  <2>1. CASE ChildHangsUp
    BY <1>0, <2>1 DEF ChildHangsUp, TypeOK, senderVars
  <2>2. CASE ChildDies
    BY <1>0, <1>t, <2>2 DEF ChildDies, TypeOK, senderVars
  <2>3. QED
    BY <1>16, <2>1, <2>2, Zenon
<1>17. QED
  BY <1>1, <1>2, <1>3, <1>4, <1>5, <1>6, <1>7, <1>8, <1>9, <1>11, <1>12, <1>13, <1>14,
     <1>15, <1>16 DEF Next, Sender, Tasks, Child
-----------------------------------------------------------------------------
(* The request in flight. *)

\* An answer whose id is pending fits the request in flight.
LEMMA AnswerFits ==
  ASSUME BInv, reader = "up", answers # <<>>, Head(answers).id \in DOMAIN pending
  PROVE  /\ InFlight /\ pending[Head(answers).id] = n
         /\ Head(answers).id = id /\ n >= 1
         /\ Fits(Head(answers).n)
<1>0. TypeOK /\ Flight /\ Traffic /\ Handshakes
  BY DEF BInv
<1>. DEFINE a == Head(answers)
<1>1. /\ n \in Nat /\ a \in StdioLine /\ a \in Lines(answers)
  BY <1>0, Typed, TailLines
<1>2. InFlight /\ a.id = id /\ pending[a.id] = n /\ n >= 1
  BY <1>0, EmptyMapFacts, Zenon DEF Flight, PendingClean, InFlight, Range
<1>3. ASSUME a.n # Foreign, ~(a.n = 1 /\ id = 1 /\ greeting = Foreign) PROVE a.n = n
  <2>1. Request(a) /\ a.n \in Nat /\ a.id \in Nat
    BY <1>0, <1>1, <1>3 DEF Traffic, StdioLine
  <2>2. CASE n <= Handshake
    BY <1>0, <1>1, <1>2, <2>1, <2>2 DEF Traffic, Request, Handshake
  <2>3. CASE n > Handshake
    <3>1. ASSUME a.n <= Handshake PROVE FALSE
      <4>1. a.n \in 1..Handshake /\ a.n <= MaxSends /\ n > a.n /\ a.id = a.n
        BY <1>0, <1>1, <2>1, <2>3, <3>1, BoundAssumption, SMTT(20) DEF Request, Flight, Handshake
      <4>2. a = Token(a.n)
        BY <1>1, <4>1 DEF Token, StdioLine
      <4>3. a.n = 1 => greeting # Foreign
        BY <1>2, <1>3, <4>1
      <4>4. QED
        BY <1>0, <1>1, <4>1, <4>2, <4>3, SMTT(20) DEF Handshakes, Single, Taken
    <3>2. gid = id /\ gid \in Nat
      BY <1>0, <1>1, <2>3, Typed, SMTT(20) DEF Traffic, Handshake
    <3>3. QED
      BY <1>1, <1>2, <2>1, <2>3, <3>1, <3>2 DEF Request, Handshake
  <2>4. QED
    BY <1>1, <2>2, <2>3 DEF Handshake
<1>4. QED
  BY <1>2, <1>3 DEF Fits

\* Every step keeps the request in flight where it can be found.
LEMMA StepFlight == ASSUME BInv, Next PROVE Flight'
<1>0. TypeOK /\ Flight /\ Prompt
  BY DEF BInv
<1>t. /\ n \in Nat /\ id \in Nat /\ MaxSends \in Nat /\ Foreign = MaxSends + 1
      /\ slot \in Nat \cup {Dropped} /\ Empty = 0 /\ Dropped = -1
  BY <1>0, BoundAssumption, Zenon DEF TypeOK, Foreign, Empty, Dropped
<1>. USE DEF Flight, InFlight, Fits
<1>1. CASE Send
  <2>1. PICK i \in RequestIds : id' = i /\ pending' = Insert(pending, i, n + 1)
    BY <1>1 DEF Send
  <2>2. i \in Nat /\ n + 1 \in Nat
    BY <1>0, <1>t, <2>1, BoundAssumption DEF RequestIds, TypeOK
  <2>3. pending = EmptyMap
    BY <1>0, <1>1 DEF Send, PendingClean
  <2>4. DOMAIN pending' = {id'} /\ Range(pending') = {n'}
    BY <1>1, <2>1, <2>2, <2>3, InsertFirst, Zenon DEF Send
  <2>5. PendingClean' /\ OwnAnswer'
    BY <1>1, <2>4 DEF Send, PendingClean, OwnAnswer
  <2>6. QED
    BY <1>0, <1>t, <1>1, <2>5 DEF Send
<1>2. CASE Enqueue
  BY <1>0, <1>t, <1>2 DEF Enqueue, PendingClean, OwnAnswer, senderVars
<1>3. CASE Notify
  BY <1>0, <1>t, <1>3 DEF Notify, PendingClean, OwnAnswer, senderVars
<1>4. CASE EnqueueFails \/ Timeout
  <2>1. /\ pending' = EmptyMap /\ result' # "ok" /\ pc' \in {"idle", "notify", "failed"}
        /\ n >= 1
    BY <1>0, <1>4, WithoutOnly, ContinueCases DEF EnqueueFails, Timeout, PendingClean
  <2>2. PendingClean' /\ OwnAnswer'
    BY <2>1, EmptyMapFacts DEF PendingClean, OwnAnswer
  <2>3. QED
    BY <1>0, <1>t, <1>4, <2>1, <2>2 DEF EnqueueFails, Timeout, senderVars
<1>5. CASE ReturnOk
  <2>1. /\ pending = EmptyMap /\ Fits(slot) /\ n >= 1
        /\ pc' \in {"idle", "notify", "failed"}
    BY <1>0, <1>5, ContinueCases DEF ReturnOk
  <2>2. PendingClean'
    BY <1>5, <2>1, EmptyMapFacts, Zenon DEF ReturnOk, PendingClean
  <2>3. OwnAnswer'
    <3>1. /\ answered' = slot /\ UNCHANGED <<n, id>>
          /\ n # 1 => greeting' = greeting
      BY <1>5, Zenon DEF ReturnOk, senderVars
    <3>2. QED
      BY <2>1, <3>1, Zenon DEF OwnAnswer, Foreign
  <2>4. QED
    BY <1>0, <1>t, <1>5, <2>1, <2>2, <2>3 DEF ReturnOk, senderVars
<1>6. CASE ReturnExited
  <2>1. /\ pending = EmptyMap /\ result' # "ok" /\ n >= 1
        /\ pc' \in {"idle", "notify", "failed"}
    BY <1>0, <1>t, <1>6, ContinueCases DEF ReturnExited
  <2>2. PendingClean' /\ OwnAnswer'
    BY <1>6, <2>1, EmptyMapFacts, Zenon DEF ReturnExited, PendingClean, OwnAnswer
  <2>3. QED
    BY <1>0, <1>t, <1>6, <2>1, <2>2, Zenon DEF ReturnExited, senderVars
<1>7. CASE Write \/ WriteFails \/ Child
  <2>1. UNCHANGED <<pc, n, id, slot, result, answered, pending, reader, held, greeting>>
    BY <1>7, Zenon
       DEF Write, WriteFails, Child, ChildReads, ChildAnswers, ChildAsks, ChildHangsUp,
                ChildDies, senderVars
  <2>2. QED
    BY <1>0, <2>1, Zenon DEF PendingClean, OwnAnswer, Foreign
<1>8. CASE ReadAnswer
  <2>1. UNCHANGED <<pc, n, id, slot, result, answered, greeting>>
    BY <1>8, Zenon DEF ReadAnswer, senderVars
  <2>2. CASE Head(answers).id \in DOMAIN pending
    <3>1. /\ InFlight /\ pending[Head(answers).id] = n /\ n >= 1
          /\ Fits(Head(answers).n) /\ Head(answers).id = id
      BY <1>8, <2>2, AnswerFits, Zenon DEF ReadAnswer
    <3>2. pending' = EmptyMap
      BY <1>0, <1>8, <2>2, <3>1, WithoutOnly, Zenon DEF ReadAnswer, PendingClean
    <3>3. held'.waiter = n /\ Fits(held'.n) /\ held'.n \in 1..Foreign
      <4>1. held' = [waiter |-> pending[Head(answers).id], n |-> Head(answers).n]
        BY <1>8, <2>2, Zenon DEF ReadAnswer
      <4>2. Head(answers).n \in 1..Foreign
        BY <1>0, <1>t, <3>1
      <4>3. QED
        BY <3>1, <4>1, <4>2
    <3>4. PendingClean' /\ OwnAnswer'
      BY <1>0, <2>1, <3>2, EmptyMapFacts, Zenon DEF PendingClean, OwnAnswer, Foreign
    <3>5. QED
      BY <1>0, <1>t, <2>1, <3>1, <3>2, <3>3, <3>4 DEF Foreign
  <2>3. CASE Head(answers).id \notin DOMAIN pending
    <3>1. UNCHANGED <<held, reader, pending>>
      BY <1>8, <2>3, Zenon DEF ReadAnswer
    <3>2. QED
      BY <1>0, <2>1, <3>1, Zenon DEF PendingClean, OwnAnswer, Foreign
  <2>4. QED
    BY <2>2, <2>3, Zenon
<1>9. CASE Deliver
  <2>1. /\ UNCHANGED <<pc, n, id, result, answered, greeting, pending>> /\ reader' = "up"
        /\ slot' = IF held.waiter = n /\ InFlight THEN held.n ELSE slot
    BY <1>9, Zenon DEF Deliver, senderVars, Listening
  <2>2. QED
    BY <1>0, <1>9, <2>1, Zenon DEF Deliver, PendingClean, OwnAnswer, Foreign
<1>10. CASE ReadEof \/ ReadFails \/ DrainAgain
  <2>1. /\ UNCHANGED <<pc, n, id, result, answered, greeting, held>> /\ pending' = EmptyMap
        /\ reader' = "gone" /\ slot' \in {slot, Dropped}
    BY <1>10, Zenon DEF ReadEof, ReadFails, DrainAgain, Drain, senderVars
  <2>2. QED
    BY <1>0, <2>1, EmptyMapFacts, Zenon DEF PendingClean, OwnAnswer, Foreign
<1>11. QED
  BY <1>1, <1>2, <1>3, <1>4, <1>5, <1>6, <1>7, <1>8, <1>9, <1>10, Zenon DEF Next, Sender, Tasks

\* Every step keeps the way open by which it is told of the child's end.
LEMMA StepPrompt == ASSUME BInv, Next PROVE Prompt'
<1>0. TypeOK /\ Flight /\ Prompt
  BY DEF BInv
<1>t. n \in Nat /\ MaxSends \in Nat /\ Empty = 0 /\ Dropped = -1 /\ drains \in 0..2 /\ born \in 0..2
  BY <1>0, BoundAssumption, Zenon DEF TypeOK, Empty, Dropped
<1>. USE DEF Prompt, PromptFailure, InFlight
<1>1. CASE Send
  <2>1. PICK i \in RequestIds : pending' = Insert(pending, i, n + 1)
    BY <1>1, Zenon DEF Send
  <2>2. i \in Nat /\ n + 1 \in Nat
    BY <1>0, <1>t, <2>1, BoundAssumption DEF RequestIds, TypeOK
  <2>3. pending = EmptyMap
    BY <1>0, <1>1, Zenon DEF Send, Flight, PendingClean
  <2>4. Range(pending') = {n'}
    BY <1>1, <2>1, <2>2, <2>3, InsertFirst, Zenon DEF Send
  <2>5. QED
    BY <1>0, <1>t, <1>1, <2>4 DEF Send
<1>2. CASE Enqueue
  BY <1>0, <1>2 DEF Enqueue, senderVars
<1>3. CASE Notify
  BY <1>0, <1>3 DEF Notify, senderVars
<1>4. CASE EnqueueFails \/ Timeout \/ ReturnOk \/ ReturnExited
  <2>1. pc' \in {"idle", "notify", "failed"} /\ UNCHANGED <<reader, drains>>
    BY <1>0, <1>4, ContinueCases DEF EnqueueFails, Timeout, ReturnOk, ReturnExited
  <2>2. QED
    BY <1>0, <2>1
<1>5. CASE Write \/ WriteFails \/ Child
  <2>1. UNCHANGED <<pc, n, slot, born, pending, reader, held, drains>>
    BY <1>5, Zenon
       DEF Write, WriteFails, Child, ChildReads, ChildAnswers, ChildAsks, ChildHangsUp,
                ChildDies, senderVars
  <2>2. QED
    BY <1>0, <2>1
<1>6. CASE ReadAnswer
  <2>1. UNCHANGED <<pc, n, slot, born, drains>> /\ reader = "up" /\ answers # <<>>
    BY <1>6, Zenon DEF ReadAnswer, senderVars
  <2>2. CASE Head(answers).id \in DOMAIN pending
    <3>1. pending[Head(answers).id] = n
      BY <2>1, <2>2, AnswerFits, Zenon
    <3>2. /\ held' = [waiter |-> pending[Head(answers).id], n |-> Head(answers).n]
          /\ reader' = "holding"
      BY <1>6, <2>2, Zenon DEF ReadAnswer
    <3>3. held'.waiter = n
      BY <3>1, <3>2
    <3>4. QED
      BY <1>0, <2>1, <3>2, <3>3, Zenon
  <2>3. CASE Head(answers).id \notin DOMAIN pending
    <3>1. UNCHANGED <<held, reader, pending>>
      BY <1>6, <2>3 DEF ReadAnswer
    <3>2. QED
      BY <1>0, <2>1, <3>1, SMTT(20)
  <2>4. QED
    BY <2>2, <2>3, Zenon
<1>7. CASE Deliver
  <2>1. /\ UNCHANGED <<pc, n, born, pending, drains>> /\ reader = "holding" /\ reader' = "up"
        /\ slot' = IF held.waiter = n /\ InFlight THEN held.n ELSE slot
    BY <1>7, Zenon DEF Deliver, senderVars, Listening
  <2>2. held.n # Empty
    BY <1>0, <1>t, <2>1 DEF Flight, Foreign
  <2>3. QED
    BY <1>0, <2>1, <2>2, Zenon
<1>8. CASE ReadEof \/ ReadFails
  <2>1. /\ UNCHANGED <<pc, n, born>> /\ reader = "up" /\ reader' = "gone"
        /\ slot' = IF InFlight /\ n \in Range(pending) THEN Dropped ELSE slot
        /\ drains' = drains + 1
    BY <1>8, Zenon DEF ReadEof, ReadFails, Drain, senderVars, Listening
  <2>2. QED
    BY <1>0, <1>t, <2>1
<1>9. CASE DrainAgain
  <2>1. /\ UNCHANGED <<pc, n, born>> /\ reader = "gone" /\ reader' = "gone"
        /\ slot' = IF InFlight /\ n \in Range(pending) THEN Dropped ELSE slot
        /\ drains' = drains + 1
    BY <1>9, Zenon DEF DrainAgain, Drain, senderVars, Listening
  <2>2. QED
    BY <1>0, <1>t, <2>1
<1>10. QED
  BY <1>1, <1>2, <1>3, <1>4, <1>5, <1>6, <1>7, <1>8, <1>9, Zenon DEF Next, Sender, Tasks
-----------------------------------------------------------------------------
(* The lines on their way. *)

\* What a step does to the three queues.
LEMMA QueueSteps ==
  ASSUME TypeOK, Next
  PROVE  /\ \/ Lines(stdinq') \subseteq Lines(stdinq)
            \/ Enqueue /\ Lines(stdinq') = Lines(stdinq) \cup {[n |-> n, id |-> id]}
            \/ Notify /\ Lines(stdinq') = Lines(stdinq) \cup {Note}
         /\ \/ Lines(pipe') \subseteq Lines(pipe)
            \/ Write /\ \E l \in Lines(stdinq) : Lines(pipe') = Lines(pipe) \cup {l}
         /\ \/ todo' \subseteq todo
            \/ ChildReads /\ \E l \in Lines(pipe) : l # Note /\ todo' = todo \cup {l}
         /\ \/ Lines(answers') \subseteq Lines(answers)
            \/ ChildAnswers /\ \E l \in todo : Lines(answers') = Lines(answers) \cup {l}
            \/ ChildAsks /\ \E i \in 1..MaxId :
                 Lines(answers') = Lines(answers) \cup {[n |-> Foreign, id |-> i]}
<1>t. /\ stdinq \in Seq(StdioLine) /\ pipe \in Seq(StdioLine) /\ answers \in Seq(StdioLine)
      /\ Note \in StdioLine /\ [n |-> n, id |-> id] \in StdioLine /\ todo \subseteq StdioLine
      /\ \A i \in Nat : [n |-> Foreign, id |-> i] \in StdioLine
  BY Typed, Zenon
<1>1. CASE Enqueue
  BY <1>t, <1>1, AppendLines, Zenon DEF Enqueue, childVars
<1>2. CASE Notify
  <2>1. Lines(Append(stdinq, Note)) = Lines(stdinq) \cup {Note}
    BY <1>t, AppendLines
  <2>2. QED
    BY <1>2, <2>1, Zenon DEF Notify, childVars
<1>3. CASE Write
  <2>1. /\ Head(stdinq) \in Lines(stdinq) /\ Head(stdinq) \in StdioLine
        /\ Lines(Tail(stdinq)) \subseteq Lines(stdinq)
    BY <1>t, <1>3, TailLines, Zenon DEF Write
  <2>2. Lines(Append(pipe, Head(stdinq))) = Lines(pipe) \cup {Head(stdinq)}
    BY <1>t, <2>1, AppendLines, Zenon
  <2>3. QED
    BY <1>3, <2>1, <2>2, Zenon DEF Write
<1>4. CASE ChildReads
  <2>1. Head(pipe) \in Lines(pipe) /\ Lines(Tail(pipe)) \subseteq Lines(pipe)
    BY <1>t, <1>4, TailLines, Zenon DEF ChildReads
  <2>2. QED
    BY <1>4, <2>1, Zenon DEF ChildReads
<1>5. CASE ChildAnswers
  <2>1. PICK r \in todo : answers' = Append(answers, r) /\ todo' = todo \ {r}
    BY <1>5, Zenon DEF ChildAnswers
  <2>2. Lines(answers') = Lines(answers) \cup {r}
    BY <1>t, <2>1, AppendLines, Zenon
  <2>3. QED
    BY <1>5, <2>1, <2>2, Zenon DEF ChildAnswers
<1>6. CASE ChildAsks
  <2>1. PICK i \in 1..MaxId : answers' = Append(answers, [n |-> Foreign, id |-> i])
    BY <1>6, Zenon DEF ChildAsks
  <2>2. Lines(answers') = Lines(answers) \cup {[n |-> Foreign, id |-> i]}
    BY <1>t, <2>1, ForeignLine, AppendLines, Zenon
  <2>3. QED
    BY <1>6, <2>1, <2>2, Zenon DEF ChildAsks
<1>7. CASE ReadAnswer
  BY <1>t, <1>7, TailLines, Zenon DEF ReadAnswer
<1>8. CASE ReadFails \/ WriteFails \/ ChildHangsUp \/ ChildDies
  BY <1>8, NoLines, Zenon DEF ReadFails, WriteFails, ChildHangsUp, ChildDies, childVars
<1>9. CASE Send \/ EnqueueFails \/ ReturnOk \/ ReturnExited \/ Timeout \/ Deliver \/ ReadEof
           \/ DrainAgain
  <2>1. UNCHANGED <<stdinq, childVars>>
    BY <1>9, Zenon
       DEF Send, EnqueueFails, ReturnOk, ReturnExited, Timeout, Deliver, ReadEof, DrainAgain
  <2>2. QED
    BY <2>1, Zenon DEF childVars
<1>10. QED
  BY <1>1, <1>2, <1>3, <1>4, <1>5, <1>6, <1>7, <1>8, <1>9, Zenon DEF Next, Sender, Tasks, Child

\* A request stays one when a later request is made.
LEMMA RequestLater ==
  ASSUME TypeOK, Traffic, NEW l \in StdioLine, Request(l), Send
  PROVE  Request(l)'
<1>1. /\ n \in Nat /\ gid \in Nat /\ id \in Nat /\ l.n \in Nat /\ l.id \in Nat /\ n' = n + 1
  BY Zenon DEF TypeOK, StdioLine, Send
<1>2. n >= Handshake => id' > gid /\ gid' = id'
  BY <1>1, BoundAssumption DEF Send, RequestIds, Handshake
<1>3. n < Handshake => gid' = gid
  BY <1>1 DEF Send, Handshake
<1>4. QED
  BY <1>1, <1>2, <1>3, BoundAssumption DEF Request, Handshake, Send, RequestIds

\* Every step keeps the lines as they should be.
LEMMA StepTraffic == ASSUME BInv, Next PROVE Traffic'
<1>0. TypeOK /\ Flight /\ Traffic
  BY Zenon DEF BInv
<1>t. /\ n \in Nat /\ id \in Nat /\ gid \in Nat /\ MaxSends \in Nat
      /\ Lines(stdinq) \subseteq StdioLine /\ Lines(pipe) \subseteq StdioLine
      /\ Lines(answers) \subseteq StdioLine /\ todo \subseteq StdioLine
  BY <1>0, Typed, BoundAssumption, Zenon
<1>1. CASE Send
  <2>1. UNCHANGED <<stdinq, pipe, todo, answers>>
    BY <1>1, Zenon DEF Send, childVars
  <2>2. IF n' <= Handshake THEN gid' = 0 /\ id' = n' ELSE gid' = id'
    BY <1>0, <1>t, <1>1 DEF Traffic, Send, RequestIds, Handshake
  <2>3. /\ \A l \in Lines(stdinq) \cup Lines(pipe) : l = Note \/ Request(l)'
        /\ \A l \in todo : Request(l)'
        /\ \A l \in Lines(answers) : l.n = Foreign \/ Request(l)'
    BY <1>0, <1>t, <1>1, RequestLater, Zenon DEF Traffic
  <2>4. QED
    BY <2>1, <2>2, <2>3, Zenon DEF Traffic, Foreign, Note
<1>2. CASE ~Send
  <2>1. UNCHANGED <<n, id, gid>>
    BY <1>2, Zenon
       DEF Next, Sender, Tasks, Child, Enqueue, EnqueueFails, ReturnOk, ReturnExited,
           Timeout, Notify, Write, WriteFails, ReadAnswer, Deliver, ReadEof, ReadFails,
           DrainAgain, ChildReads, ChildAnswers, ChildAsks, ChildHangsUp, ChildDies,
           senderVars
  <2>2. \A l : Request(l)' <=> Request(l)
    BY <2>1, Zenon DEF Request
  <2>3. Enqueue => Request([n |-> n, id |-> id])
    <3>1. Enqueue => n >= 1
      BY <1>0 DEF Enqueue, Flight
    <3>2. (n <= Handshake => id = n) /\ (n > Handshake => gid = id)
      BY <1>0, <1>t DEF Traffic, Handshake
    <3>3. QED
      BY <1>t, <3>1, <3>2 DEF Request, Handshake
  <2>4. /\ \A l \in Lines(stdinq') \cup Lines(pipe') : l = Note \/ Request(l)
        /\ \A l \in todo' : Request(l)
        /\ \A l \in Lines(answers') : l.n = Foreign \/ Request(l)
    <3>. USE <1>0, <2>3, QueueSteps DEF Traffic
    <3>1. \A l \in Lines(stdinq') : l = Note \/ Request(l)
      BY Zenon
    <3>2. \A l \in Lines(pipe') : l = Note \/ Request(l)
      BY Zenon
    <3>3. \A l \in todo' : Request(l)
      BY Zenon
    <3>4. \A l \in Lines(answers') : l.n = Foreign \/ Request(l)
      OBVIOUS
    <3>5. QED
      BY <3>1, <3>2, <3>3, <3>4, Zenon
  <2>5. QED
    BY <1>0, <2>1, <2>2, <2>4, Zenon DEF Traffic, Foreign, Note
<1>3. QED
  BY <1>1, <1>2
-----------------------------------------------------------------------------
(* The two requests of the handshake. *)

\* A step that makes no new place for the line, and that neither takes it nor
\* goes back to before it was sent, keeps Single.
LEMMA SingleShrinks ==
  ASSUME NEW k, Single(k),
         Once(stdinq', Token(k)), Once(pipe', Token(k)), Once(answers', Token(k)),
         Lines(stdinq') \subseteq Lines(stdinq), Lines(pipe') \subseteq Lines(pipe),
         todo' \subseteq todo, Lines(answers') \subseteq Lines(answers),
         Unsent(k)' => Unsent(k) /\ ~(reader' = "holding" /\ held'.n = k) /\ (n' = k => slot' # k),
         Taken(k)' => Taken(k) \/ Unsent(k)
  PROVE  Single(k)'
BY Zenon DEF Single, Token

\* The line a handshake's request is.
LEMMA TokenFits ==
  ASSUME TypeOK, Flight, Traffic, NEW k \in 1..Handshake, k <= MaxSends, NEW l \in StdioLine,
         l.n = k, Request(l)
  PROVE  l = Token(k)
BY DEF Request, Token, StdioLine, Handshake

\* A send keeps Single: the next request is made when this one was answered.
LEMMA SingleSender ==
  ASSUME BInv, NEW k \in 1..Handshake, k <= MaxSends, Sender
  PROVE  Single(k)'
<1>0. TypeOK /\ Flight /\ Traffic /\ Single(k)
  BY Zenon DEF BInv, Handshakes
<1>t. /\ n \in Nat /\ id \in Nat /\ MaxSends \in Nat /\ Foreign = MaxSends + 1
      /\ k \in Nat /\ k >= 1 /\ k <= 2 /\ Handshake = 2 /\ Empty = 0 /\ Dropped = -1
      /\ stdinq \in Seq(StdioLine) /\ [n |-> n, id |-> id] \in StdioLine /\ Note \in StdioLine
  BY <1>0, Typed, BoundAssumption, SMTT(20) DEF Foreign, Empty, Dropped, Handshake
<1>o. Once(stdinq, Token(k)) /\ Once(pipe, Token(k)) /\ Once(answers, Token(k))
  BY <1>0, Zenon DEF Single
<1>1. CASE Send
  <2>1. /\ pc = "idle" /\ n' = n + 1 /\ slot' = Empty /\ pc' = "enqueue"
        /\ UNCHANGED <<stdinq, pipe, todo, answers, reader, held, greeting>>
    BY <1>1, Zenon DEF Send, childVars
  <2>2. Unsent(k)' => Unsent(k)
    BY <1>t, <2>1 DEF Unsent
  <2>3. Taken(k)' => Taken(k)
    BY <1>t, <2>1 DEF Taken, InFlight
  <2>4. ~(Unsent(k) /\ reader = "holding" /\ held.n = k)
    BY <1>0 DEF Single
  <2>5. QED
    BY <1>0, <1>t, <1>o, <2>1, <2>2, <2>3, <2>4, SingleShrinks, SMTT(20)
<1>2. CASE Enqueue
  <2>1. /\ pc = "enqueue" /\ pc' = "await" /\ stdinq' = Append(stdinq, [n |-> n, id |-> id])
        /\ UNCHANGED <<n, slot, pipe, todo, answers, reader, held, greeting>>
    BY <1>2, Zenon DEF Enqueue, senderVars, childVars
  <2>2. /\ Lines(stdinq') = Lines(stdinq) \cup {[n |-> n, id |-> id]}
        /\ Token(k) # [n |-> n, id |-> id] \/ Token(k) \notin Lines(stdinq)
             => Once(stdinq', Token(k))
    BY <1>t, <1>o, <2>1, AppendLines, Zenon
  <2>3. CASE n = k
    <3>1. Unsent(k) /\ ~(reader = "holding" /\ held.n = k) /\ slot # k
      BY <1>0, <2>1, <2>3, Zenon DEF Single, Unsent
    <3>2. ~Unsent(k)' /\ ~Taken(k)'
      BY <1>t, <2>1, <2>3, <3>1 DEF Unsent, Taken, InFlight
    <3>3. /\ Token(k) \notin Lines(stdinq) /\ Token(k) \notin Lines(pipe)
          /\ Token(k) \notin todo /\ Token(k) \notin Lines(answers)
      BY <1>0, <3>1, Zenon DEF Single
    <3>4. QED
      BY <1>o, <2>1, <2>2, <3>2, <3>3, Zenon DEF Single, Token
  <2>4. CASE n # k
    <3>1. Token(k) # [n |-> n, id |-> id]
      BY <2>4, Zenon DEF Token
    <3>2. Unsent(k)' => Unsent(k)
      BY <1>t, <2>1, <2>4, Zenon DEF Unsent
    <3>3. Taken(k)' => Taken(k)
      BY <1>t, <2>1, <2>4, Zenon DEF Taken, InFlight
    <3>4. Token(k) \in Lines(stdinq') <=> Token(k) \in Lines(stdinq)
      BY <2>2, <3>1, Zenon
    <3>5. QED
      BY <1>0, <2>1, <2>2, <2>4, <3>1, <3>2, <3>3, <3>4, Zenon DEF Single, Token
  <2>5. QED
    BY <2>3, <2>4, Zenon
<1>3. CASE Notify
  <2>1. /\ pc = "notify" /\ pc' \in {"idle", "failed"}
        /\ UNCHANGED <<n, slot, pipe, todo, answers, reader, held, greeting>>
        /\ stdinq' = stdinq \/ stdinq' = Append(stdinq, Note)
    BY <1>3, Zenon DEF Notify, senderVars, childVars
  <2>2. Token(k) # Note
    BY <1>t DEF Token, Note
  <2>3. /\ Once(stdinq', Token(k))
        /\ Token(k) \in Lines(stdinq') <=> Token(k) \in Lines(stdinq)
    <3>1. /\ Lines(Append(stdinq, Note)) = Lines(stdinq) \cup {Note}
          /\ Once(Append(stdinq, Note), Token(k))
      BY <1>t, <1>o, <2>2, AppendLines
    <3>2. QED
      BY <1>o, <2>1, <2>2, <3>1, Zenon
  <2>4. (Unsent(k)' => Unsent(k)) /\ (Taken(k)' => Taken(k))
    BY <1>t, <2>1 DEF Unsent, Taken, InFlight
  <2>5. QED
    BY <1>0, <2>1, <2>3, <2>4, Zenon DEF Single, Token
<1>4. CASE EnqueueFails \/ Timeout \/ ReturnExited \/ ReturnOk
  <2>1. /\ InFlight /\ UNCHANGED <<n, slot, stdinq, pipe, todo, answers, reader, held>>
        /\ pc' \in {"idle", "notify", "failed"}
    BY <1>0, <1>4, ContinueCases, Zenon
       DEF EnqueueFails, Timeout, ReturnExited, ReturnOk, senderVars, childVars, InFlight
  <2>2. n = k /\ pc' # "failed" => slot = k \/ (k = 1 /\ greeting' = Foreign)
    <3>1. CASE ReturnOk
      <4>1. Fits(slot) /\ n >= 1 /\ (n = 1 => greeting' = slot)
        BY <1>0, <3>1, Zenon DEF ReturnOk, Flight, InFlight
      <4>2. n = k => slot \in {n, Foreign}
        BY <1>0, <1>t, <4>1 DEF Fits, Traffic
      <4>3. n = Handshake /\ slot = Foreign => pc' = "failed"
        BY <1>0, <3>1, ContinueCases, Zenon DEF ReturnOk
      <4>4. QED
        BY <1>t, <4>1, <4>2, <4>3
    <3>2. CASE ~ReturnOk
      <4>1. n <= Handshake => pc' = "failed"
        BY <1>0, <1>4, <3>2, ContinueCases, Zenon DEF EnqueueFails, Timeout, ReturnExited
      <4>2. QED
        BY <1>t, <4>1, Zenon
    <3>3. QED
      BY <3>1, <3>2, Zenon
  <2>3. Unsent(k)' => Unsent(k) /\ n # k
    BY <1>t, <2>1 DEF Unsent
  <2>4. Taken(k)' => Taken(k)
    <3>1. k = 1 /\ n > k => greeting' = greeting
      BY <1>4, <1>t DEF EnqueueFails, Timeout, ReturnExited, ReturnOk
    <3>2. QED
      BY <1>t, <2>1, <2>2, <3>1 DEF Taken, InFlight, Foreign
  <2>5. QED
    BY <1>0, <1>o, <2>1, <2>3, <2>4, Zenon DEF Single, Token
<1>5. QED
  BY <1>1, <1>2, <1>3, <1>4 DEF Sender

\* The tasks and the child keep Single: they only pass the line on.
LEMMA SingleOthers ==
  ASSUME BInv, NEW k \in 1..Handshake, k <= MaxSends, Tasks \/ Child
  PROVE  Single(k)'
<1>0. TypeOK /\ Flight /\ Traffic /\ Single(k)
  BY Zenon DEF BInv, Handshakes
<1>t. /\ n \in Nat /\ MaxSends \in Nat /\ Foreign = MaxSends + 1
      /\ k \in Nat /\ k >= 1 /\ Dropped = -1
      /\ stdinq \in Seq(StdioLine) /\ pipe \in Seq(StdioLine) /\ answers \in Seq(StdioLine)
      /\ todo \subseteq StdioLine /\ \A i \in Nat : [n |-> Foreign, id |-> i] \in StdioLine
  BY <1>0, Typed, BoundAssumption DEF Foreign, Dropped, Handshake
<1>o. Once(stdinq, Token(k)) /\ Once(pipe, Token(k)) /\ Once(answers, Token(k))
  BY <1>0, Zenon DEF Single
<1>g. UNCHANGED greeting
  BY Zenon
     DEF Tasks, Child, Write, WriteFails, ReadAnswer, Deliver, ReadEof, ReadFails, DrainAgain,
         ChildReads, ChildAnswers, ChildAsks, ChildHangsUp, ChildDies
<1>f. ASSUME UNCHANGED <<n, pc, slot, reader, held>>
      PROVE  (Unsent(k)' <=> Unsent(k)) /\ (Taken(k)' <=> Taken(k))
  BY <1>f, <1>g, Zenon DEF Unsent, Taken, InFlight, Foreign
<1>1. CASE Write
  <2>1. /\ UNCHANGED <<n, pc, slot, reader, held, todo, answers>> /\ stdinq # <<>>
        /\ pipe' = Append(pipe, Head(stdinq)) /\ stdinq' = Tail(stdinq)
    BY <1>1, Zenon DEF Write, senderVars
  <2>2. /\ Head(stdinq) \in StdioLine /\ Head(stdinq) \in Lines(stdinq)
        /\ Lines(stdinq') \subseteq Lines(stdinq) /\ Once(stdinq', Token(k))
        /\ ~(Token(k) = Head(stdinq) /\ Token(k) \in Lines(stdinq'))
    BY <1>t, <1>o, <2>1, TailLines, Zenon
  <2>3. ~(Token(k) = Head(stdinq) /\ Token(k) \in Lines(pipe))
    BY <1>0, <2>2, Zenon DEF Single
  <2>4. Lines(pipe') = Lines(pipe) \cup {Head(stdinq)} /\ Once(pipe', Token(k))
    BY <1>t, <1>o, <2>1, <2>2, <2>3, AppendLines, Zenon
  <2>5. QED
    BY <1>0, <1>f, <2>1, <2>2, <2>4, Zenon DEF Single, Token
<1>2. CASE WriteFails \/ ChildHangsUp \/ ChildDies
  <2>1. /\ UNCHANGED <<n, pc, slot, reader, held, answers>>
        /\ stdinq' \in {stdinq, <<>>} /\ pipe' \in {pipe, <<>>} /\ todo' \subseteq todo
    BY <1>2, Zenon DEF WriteFails, ChildHangsUp, ChildDies, senderVars, childVars
  <2>2. /\ Once(stdinq', Token(k)) /\ Once(pipe', Token(k))
        /\ Lines(stdinq') \subseteq Lines(stdinq) /\ Lines(pipe') \subseteq Lines(pipe)
    BY <1>o, <2>1, NoLines, Zenon
  <2>3. QED
    BY <1>0, <1>o, <1>f, <2>1, <2>2, Zenon DEF Single, Token
<1>3. CASE ReadAnswer
  <2>1. /\ UNCHANGED <<n, pc, slot, stdinq, pipe, todo>> /\ reader = "up" /\ answers # <<>>
        /\ answers' = Tail(answers)
    BY <1>3, Zenon DEF ReadAnswer, senderVars
  <2>2. /\ Head(answers) \in StdioLine /\ Head(answers) \in Lines(answers)
        /\ Lines(answers') \subseteq Lines(answers) /\ Once(answers', Token(k))
        /\ ~(Token(k) = Head(answers) /\ Token(k) \in Lines(answers'))
    BY <1>t, <1>o, <2>1, TailLines, Zenon
  <2>3. reader' = "holding" => held'.n = Head(answers).n
    BY <1>3, <2>1 DEF ReadAnswer
  <2>4. reader' = "holding" /\ held'.n = k => Head(answers) = Token(k)
    <3>1. Head(answers).n = k => Request(Head(answers))
      BY <1>0, <1>t, <2>2 DEF Traffic
    <3>2. QED
      BY <1>0, <2>2, <2>3, <3>1, TokenFits, Zenon
  <2>5. Unsent(k)' <=> Unsent(k)
    BY <2>1, Zenon DEF Unsent
  <2>6. Taken(k)' => Taken(k) \/ Head(answers) = Token(k)
    BY <1>g, <2>1, <2>4, Zenon DEF Taken, InFlight, Foreign
  <2>7. QED
    BY <1>0, <2>1, <2>2, <2>4, <2>5, <2>6, Zenon DEF Single, Token
<1>4. CASE Deliver
  <2>1. /\ UNCHANGED <<n, pc, stdinq, pipe, todo, answers, held>> /\ reader = "holding"
        /\ reader' = "up" /\ slot' \in {slot, held.n}
    BY <1>4 DEF Deliver, senderVars, childVars
  <2>2. Unsent(k)' <=> Unsent(k)
    BY <2>1, Zenon DEF Unsent
  <2>3. Taken(k)' => Taken(k)
    BY <1>g, <2>1, Zenon DEF Taken, InFlight, Foreign
  <2>4. QED
    BY <1>0, <2>1, <2>2, <2>3, Zenon DEF Single, Token
<1>5. CASE ReadEof \/ ReadFails \/ DrainAgain
  <2>1. /\ UNCHANGED <<n, pc, stdinq, pipe>> /\ answers' \in {answers, <<>>}
        /\ todo' \subseteq todo /\ reader' = "gone" /\ slot' \in {slot, Dropped}
    BY <1>5, Zenon DEF ReadEof, ReadFails, DrainAgain, Drain, senderVars, childVars
  <2>2. Once(answers', Token(k)) /\ Lines(answers') \subseteq Lines(answers)
    BY <1>o, <2>1, NoLines, Zenon
  <2>3. Unsent(k)' <=> Unsent(k)
    BY <2>1, Zenon DEF Unsent
  <2>4. Taken(k)' => Taken(k)
    BY <1>g, <1>t, <2>1 DEF Taken, InFlight, Foreign
  <2>5. slot' = k => slot = k
    BY <1>t, <2>1
  <2>6. QED
    BY <1>0, <2>1, <2>2, <2>3, <2>4, <2>5, Zenon DEF Single, Token
<1>6. CASE ChildReads
  <2>1. /\ UNCHANGED <<n, pc, slot, reader, held, stdinq, answers>> /\ pipe # <<>>
        /\ pipe' = Tail(pipe) /\ todo' \subseteq todo \cup {Head(pipe)}
    BY <1>6, Zenon DEF ChildReads, senderVars
  <2>2. /\ Head(pipe) \in Lines(pipe)
        /\ Lines(pipe') \subseteq Lines(pipe) /\ Once(pipe', Token(k))
        /\ ~(Token(k) = Head(pipe) /\ Token(k) \in Lines(pipe'))
    BY <1>t, <1>o, <2>1, TailLines, Zenon
  <2>3. QED
    BY <1>0, <1>f, <2>1, <2>2, Zenon DEF Single, Token
<1>7. CASE ChildAnswers
  <2>1. PICK r \in todo : answers' = Append(answers, r) /\ todo' = todo \ {r}
    BY <1>7, Zenon DEF ChildAnswers
  <2>2. UNCHANGED <<n, pc, slot, reader, held, stdinq, pipe>>
    BY <1>7, Zenon DEF ChildAnswers, senderVars
  <2>3. ~(Token(k) = r /\ Token(k) \in Lines(answers))
    BY <1>0, <2>1, Zenon DEF Single
  <2>4. Lines(answers') = Lines(answers) \cup {r} /\ Once(answers', Token(k))
    BY <1>t, <1>o, <2>1, <2>3, AppendLines, Zenon
  <2>5. QED
    BY <1>0, <1>f, <2>1, <2>2, <2>4, Zenon DEF Single, Token
<1>8. CASE ChildAsks
  <2>1. PICK i \in 1..MaxId : answers' = Append(answers, [n |-> Foreign, id |-> i])
    BY <1>8, Zenon DEF ChildAsks
  <2>2. UNCHANGED <<n, pc, slot, reader, held, stdinq, pipe, todo>>
    BY <1>8, Zenon DEF ChildAsks, senderVars
  <2>3. Token(k) # [n |-> Foreign, id |-> i]
    BY <1>t DEF Token
  <2>4. /\ Lines(answers') = Lines(answers) \cup {[n |-> Foreign, id |-> i]}
        /\ Once(answers', Token(k))
    BY <1>t, <1>o, <2>1, <2>3, AppendLines
  <2>5. Token(k) \in Lines(answers') <=> Token(k) \in Lines(answers)
    BY <2>3, <2>4
  <2>6. QED
    BY <1>0, <1>f, <2>2, <2>4, <2>5, Zenon DEF Single, Token
<1>9. QED
  BY <1>1, <1>2, <1>3, <1>4, <1>5, <1>6, <1>7, <1>8, Zenon DEF Tasks, Child
-----------------------------------------------------------------------------
\* Every step, and every stutter, keeps the invariant.
LEMMA BInvNext == BInv /\ [Next]_vars => BInv'
<1>1. ASSUME BInv, Next PROVE BInv'
  <2>1. Handshakes'
    BY <1>1, SingleSender, SingleOthers, Zenon DEF Handshakes, Next
  <2>2. QED
    BY <1>1, <2>1, StepTyped, StepFlight, StepPrompt, StepTraffic, Zenon DEF BInv
<1>2. ASSUME BInv, UNCHANGED vars PROVE BInv'
  <2>. USE <1>2 DEF vars, senderVars, childVars, BInv
  <2>1. TypeOK'
    BY DEF TypeOK
  <2>2. Flight' /\ Prompt'
    BY Zenon DEF Flight, Prompt, InFlight, Fits, Foreign, PendingClean, OwnAnswer, PromptFailure
  <2>3. Traffic'
    BY Zenon DEF Traffic, Request
  <2>4. Handshakes'
    <3>1. \A k : (Unsent(k)' <=> Unsent(k)) /\ (Taken(k)' <=> Taken(k))
      BY Zenon DEF Unsent, Taken, InFlight, Foreign
    <3>2. \A k : Single(k) => Single(k)'
      BY <3>1, Zenon DEF Single, Token
    <3>3. QED
      BY <3>2, Zenon DEF Handshakes
  <2>5. QED
    BY <2>1, <2>2, <2>3, <2>4, Zenon
<1>3. QED
  BY <1>1, <1>2, Zenon

\* The variables keep their types; a child's end is handled at most twice.
THEOREM StdioTypeCorrect == Spec => []TypeOK
<1>1. BInv => TypeOK
  BY DEF BInv
<1>2. QED
  BY <1>1, BInvInit, BInvNext, PTL DEF Spec

\* No send returns the answer to another request, late or raced by its
\* timeout (StdioBackend::send and stdout_reader), but for an answer to
\* initialize whose place a request of the child's own has taken.  The child
\* answers each request at most once and sends what it likes when it likes.
THEOREM OwnAnswerProved == Spec => []OwnAnswer
<1>1. BInv => OwnAnswer
  BY DEF BInv, Flight
<1>2. QED
  BY <1>1, BInvInit, BInvNext, PTL DEF Spec

\* Every way a send ends leaves the pending map empty.
THEOREM PendingProved == Spec => []PendingClean
<1>1. BInv => PendingClean
  BY DEF BInv, Flight
<1>2. QED
  BY <1>1, BInvInit, BInvNext, PTL DEF Spec

\* The call in flight when the child's output ends is told at once.
THEOREM PromptProved == Spec => []PromptFailure
<1>1. BInv => PromptFailure
  BY DEF BInv, Prompt
<1>2. QED
  BY <1>1, BInvInit, BInvNext, PTL DEF Spec
=============================================================================
