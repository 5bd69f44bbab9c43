------------------------- MODULE HttpBackend_proofs -------------------------
(***************************************************************************)
(* Proofs about the retried HTTP send, for every number of retries, every  *)
(* timeout and any number of sends.                                        *)
(***************************************************************************)
EXTENDS HttpBackend, WellFoundedInduction, TLAPS

\* An initialize has been executed.
Initialized == \E p \in executed : p[1] = 1

Types ==
  /\ pc \in {"idle", "post", "wait", "sleep"}
  /\ sends \in Nat /\ attempt \in 0..MaxRetries
  /\ result \in Failure \cup {"none", "ok"} /\ stage \in Stage
  /\ posted \subseteq Nat \X Nat

\* Where POSTs can be: none is ahead of the send, none is executed twice.
Posts ==
  /\ wire \subseteq posted /\ executed \subseteq posted /\ wire \cap executed = {}
  /\ \A p \in posted : p[1] <= sends
  /\ \A p \in posted : p[1] = sends => p[2] <= attempt
  /\ pc = "post" => current \notin posted

\* Every attempt before the current one failed in a way that may pass.
Justified ==
  /\ pc \in {"post", "wait", "sleep"} => \A k \in 0..(attempt - 1) : <<sends, k>> \in transient
  /\ pc = "sleep" => current \in transient /\ attempt < MaxRetries
  /\ RepeatsJustified

\* How far discovery can be.
Discovery ==
  /\ pc # "idle" => sends >= 1
  /\ stage = "initialize" => sends <= 1 /\ (pc = "idle" => sends = 0)
  /\ stage = "failed" => pc = "idle"
  /\ stage \notin {"initialize", "failed"} => Initialized
  /\ sends > 1 => Initialized

(* The inductive invariant. *)
HInv == Types /\ Posts /\ Justified /\ Discovery

\* A backend nobody has called yet.
LEMMA HInvInit == Init => HInv
<1>. SUFFICES ASSUME Init PROVE HInv
  OBVIOUS
<1>1. Types
  BY RetriesAssumption DEF Init, Types, Stage
<1>2. Posts
  BY DEF Init, Posts
<1>3. Justified
  BY DEF Init, Justified, RepeatsJustified
<1>4. Discovery
  BY DEF Init, Discovery
<1>5. QED
  BY <1>1, <1>2, <1>3, <1>4 DEF HInv

\* What the errors that may pass have to do with the ones that are retried.
LEMMA RetryablePass == ASSUME NEW e, IsRetryable(e) PROVE e \in Passing
BY DEF IsRetryable, Passing

\* The two ways an attempt can fail, and what both leave alone.
LEMMA FailCases ==
  ASSUME NEW e, NEW ms, Fail(e, ms)
  PROVE  /\ sends' = sends /\ attempt' = attempt /\ executed' = executed
         /\ transient \subseteq transient'
         /\ \/ Return(e)
            \/ /\ pc' = "sleep" /\ result' = result /\ stage' = stage
               /\ attempt < MaxRetries /\ current \in transient'
<1>1. /\ sends' = sends /\ attempt' = attempt /\ executed' = executed
      /\ transient \subseteq transient'
  BY DEF Fail
<1>2. CASE ~MayRetry(e)
  BY <1>1, <1>2 DEF Fail
<1>3. CASE MayRetry(e)
  <2>1. e \in Passing /\ attempt < MaxRetries
    BY <1>3, RetryablePass DEF MayRetry
  <2>2. current \in transient'
    BY <2>1 DEF Fail
  <2>3. QED
    BY <1>1, <1>3, <2>1, <2>2 DEF Fail
<1>4. QED
  BY <1>2, <1>3

\* What discover_tools makes of a send that was not a success.
LEMMA AfterFailure ==
  ASSUME NEW e \in Failure, stage \in Stage, stage' \in AfterSend(e)
  PROVE  /\ stage' \in Stage /\ stage' # "initialize"
         /\ stage' # "failed" => stage \notin {"initialize", "failed"}
BY DEF AfterSend, Failure, Stage

\* An attempt that fails, whatever the error and however long it took.
LEMMA FailKeeps ==
  ASSUME HInv, pc \in {"post", "wait"}, NEW e \in Failure, NEW ms, Fail(e, ms),
         wire' \subseteq wire, posted' = posted
  PROVE  HInv'
<1>1. /\ sends' = sends /\ attempt' = attempt /\ executed' = executed
      /\ transient \subseteq transient'
  BY FailCases
<1>2. (Initialized => Initialized') /\ current' = current
  BY <1>1 DEF Initialized, current
<1>3. RepeatsJustified'
  BY <1>1 DEF HInv, Justified, RepeatsJustified
<1>4. CASE Return(e)
  <2>1. /\ pc' = "idle" /\ result' = e /\ stage' \in Stage /\ stage' # "initialize"
        /\ stage' # "failed" => stage \notin {"initialize", "failed"}
    BY <1>4, AfterFailure DEF Return, HInv, Types
  <2>2. Types'
    BY <1>1, <2>1 DEF HInv, Types
  <2>3. Posts'
    BY <1>1, <2>1 DEF HInv, Posts
  <2>4. Justified'
    BY <1>3, <2>1 DEF Justified
  <2>5. Discovery'
    BY <1>1, <1>2, <2>1 DEF HInv, Discovery
  <2>6. QED
    BY <2>2, <2>3, <2>4, <2>5 DEF HInv
<1>5. CASE /\ pc' = "sleep" /\ result' = result /\ stage' = stage
           /\ attempt < MaxRetries /\ current \in transient'
  <2>2. Types'
    BY <1>1, <1>5 DEF HInv, Types
  <2>3. Posts'
    BY <1>1, <1>5 DEF HInv, Posts
  <2>4. Justified'
    BY <1>1, <1>2, <1>3, <1>5 DEF HInv, Justified
  <2>5. Discovery'
    BY <1>1, <1>2, <1>5 DEF HInv, Discovery
  <2>6. QED
    BY <2>2, <2>3, <2>4, <2>5 DEF HInv
<1>6. QED
  BY <1>4, <1>5, FailCases

\* A new send: the attempts of the earlier ones are behind it.
LEMMA SendKeeps == ASSUME HInv, Send PROVE HInv'
<1>1. /\ pc = "idle" /\ stage # "failed" /\ pc' = "post"
      /\ sends' = sends + 1 /\ attempt' = 0 /\ sends \in Nat
      /\ UNCHANGED <<result, stage, wire, executed, posted, transient>>
  BY DEF Send, serverVars, HInv, Types
<1>2. Types'
  BY <1>1, RetriesAssumption DEF HInv, Types
<1>3. Posts'
  <2>1. \A p \in posted : p[1] \in Nat /\ p[1] <= sends
    BY DEF HInv, Types, Posts
  <2>2. <<sends + 1, 0>> \notin posted
    BY <1>1, <2>1
  <2>3. QED
    BY <1>1, <2>1, <2>2 DEF HInv, Posts, current
<1>4. Justified'
  BY <1>1 DEF HInv, Justified, RepeatsJustified
<1>5. Discovery'
  BY <1>1 DEF HInv, Types, Discovery, Initialized
<1>6. QED
  BY <1>2, <1>3, <1>4, <1>5 DEF HInv

\* The backoff is over: one more failure is accounted for.
LEMMA WakeKeeps == ASSUME HInv, Wake PROVE HInv'
<1>1. /\ pc = "sleep" /\ pc' = "post" /\ attempt' = attempt + 1
      /\ UNCHANGED <<sends, result, stage, wire, executed, posted, transient>>
  BY DEF Wake, serverVars
<1>2. attempt \in Nat /\ attempt < MaxRetries /\ sends \in Nat
  BY <1>1, RetriesAssumption DEF HInv, Types, Justified
<1>3. Types'
  BY <1>1, <1>2, RetriesAssumption DEF HInv, Types
<1>4. Posts'
  <2>1. \A p \in posted : p[1] = sends => p[2] \in Nat /\ p[2] <= attempt
    BY DEF HInv, Types, Posts
  <2>2. <<sends, attempt + 1>> \notin posted
    BY <1>2, <2>1
  <2>3. QED
    BY <1>1, <1>2, <2>1, <2>2 DEF HInv, Posts, current
<1>5. Justified'
  BY <1>1, <1>2 DEF HInv, Justified, RepeatsJustified, current
<1>6. Discovery'
  BY <1>1 DEF HInv, Discovery, Initialized
<1>7. QED
  BY <1>3, <1>4, <1>5, <1>6 DEF HInv

\* A POST: what came before it has failed transiently.
LEMMA PostKeeps == ASSUME HInv, PostRequest PROVE HInv'
<1>1. /\ pc = "post" /\ pc' = "wait"
      /\ wire' = wire \cup {current} /\ posted' = posted \cup {current}
      /\ UNCHANGED <<sends, attempt, result, stage, executed, transient>>
  BY DEF PostRequest
<1>2. /\ sends \in Nat /\ attempt \in Nat /\ attempt <= MaxRetries
      /\ current = <<sends, attempt>> /\ current' = current
  BY <1>1, RetriesAssumption DEF HInv, Types, current
<1>3. Types'
  BY <1>1, <1>2 DEF HInv, Types
<1>4. Posts'
  BY <1>1, <1>2 DEF HInv, Posts
<1>5. Justified'
  BY <1>1, <1>2 DEF HInv, Justified, RepeatsJustified
<1>6. Discovery'
  BY <1>1 DEF HInv, Discovery, Initialized
<1>7. QED
  BY <1>3, <1>4, <1>5, <1>6 DEF HInv

\* A success: it has been executed, so discovery may go on.
LEMMA SuccessKeeps == ASSUME HInv, Succeeds PROVE HInv'
<1>1. /\ pc = "wait" /\ current \in executed /\ pc' = "idle" /\ result' = "ok"
      /\ stage' \in AfterSend("ok")
      /\ UNCHANGED <<sends, attempt, wire, executed, posted, transient>>
  BY DEF Succeeds, Return, serverVars
<1>2. stage' \in Stage /\ stage' # "initialize" /\ stage # "failed"
  BY <1>1 DEF AfterSend, Stage, HInv, Types, Discovery
<1>3. Initialized
  <2>1. CASE stage = "initialize"
    <3>1. sends = 1
      BY <1>1, <2>1 DEF HInv, Types, Discovery
    <3>2. QED
      BY <1>1, <3>1 DEF Initialized, current
  <2>2. CASE stage # "initialize"
    BY <1>2, <2>2 DEF HInv, Discovery
  <2>3. QED
    BY <2>1, <2>2
<1>4. Types'
  BY <1>1, <1>2 DEF HInv, Types
<1>5. Posts'
  BY <1>1 DEF HInv, Posts
<1>6. Justified'
  BY <1>1 DEF HInv, Justified, RepeatsJustified
<1>7. Discovery'
  BY <1>1, <1>2, <1>3 DEF HInv, Discovery, Initialized
<1>8. QED
  BY <1>4, <1>5, <1>6, <1>7 DEF HInv

\* The server executes a POST, perhaps of a send long over.
LEMMA ExecuteKeeps == ASSUME HInv, NEW p \in wire, Execute(p) PROVE HInv'
<1>1. /\ wire' = wire \ {p} /\ executed' = executed \cup {p}
      /\ UNCHANGED <<pc, sends, attempt, result, stage, posted, transient>>
  BY DEF Execute
<1>2. Types'
  BY <1>1 DEF HInv, Types
<1>3. Posts'
  BY <1>1 DEF HInv, Posts, current
<1>4. Justified'
  BY <1>1 DEF HInv, Justified, RepeatsJustified, current
<1>5. Discovery'
  BY <1>1 DEF HInv, Discovery, Initialized
<1>6. QED
  BY <1>2, <1>3, <1>4, <1>5 DEF HInv

\* Every step keeps the invariant.
LEMMA HInvNext == HInv /\ [Next]_vars => HInv'
<1>. SUFFICES ASSUME HInv, [Next]_vars PROVE HInv'
  OBVIOUS
<1>1. CASE Send
  BY <1>1, SendKeeps
<1>2. CASE Wake
  BY <1>2, WakeKeeps
<1>3. CASE ConnectFails
  BY <1>3, FailKeeps DEF ConnectFails, Failure
<1>4. CASE PostRequest
  BY <1>4, PostKeeps
<1>5. CASE TimesOut
  BY <1>5, FailKeeps DEF TimesOut, Failure
<1>6. CASE Breaks
  BY <1>6, FailKeeps DEF Breaks, Failure
<1>7. CASE Refuses
  BY <1>7, FailKeeps DEF Refuses, Failure
<1>8. CASE Succeeds
  BY <1>8, SuccessKeeps
<1>9. CASE \E p \in wire : Execute(p)
  BY <1>9, ExecuteKeeps
<1>10. CASE UNCHANGED vars
  BY <1>10 DEF vars, serverVars, HInv, Types, Posts, Justified, RepeatsJustified,
               Discovery, Initialized, current
<1>11. QED
  BY <1>1, <1>2, <1>3, <1>4, <1>5, <1>6, <1>7, <1>8, <1>9, <1>10 DEF Next, Client

\* The attempt a send is at is one that it may make.
LEMMA CurrentTyped ==
  ASSUME HInv, TypeOK, pc # "idle"
  PROVE  current \in Post
BY DEF HInv, Discovery, TypeOK, Post, current

\* A failed attempt keeps the types.
LEMMA FailTyped ==
  ASSUME HInv, TypeOK, Types', pc # "idle", NEW e \in Failure, NEW ms, Fail(e, ms),
         wire' \subseteq wire, posted' = posted
  PROVE  TypeOK'
<1>1. /\ sends' = sends /\ attempt' = attempt /\ executed' = executed
      /\ pc' \in {"idle", "sleep"}
      /\ transient' \subseteq transient \cup {current}
  BY DEF Fail, Return
<1>2. result' \in Failure \cup {"none", "ok"} /\ stage' \in Stage
  BY DEF Types
<1>3. QED
  BY <1>1, <1>2, CurrentTyped DEF TypeOK

\* The variables keep their types: no send makes an attempt it may not make.
THEOREM HttpTypeCorrect == Spec => []TypeOK
<1>1. Init => TypeOK
  BY RetriesAssumption, SendsAssumption DEF Init, TypeOK, Stage
<1>2. HInv /\ TypeOK /\ [Next]_vars => TypeOK'
  <2>. SUFFICES ASSUME HInv, TypeOK, [Next]_vars PROVE TypeOK'
    OBVIOUS
  <2>1. CASE Send
    BY <2>1, RetriesAssumption, SendsAssumption DEF Send, TypeOK, serverVars
  <2>2. CASE Wake
    BY <2>2, RetriesAssumption DEF Wake, TypeOK, serverVars, HInv, Justified
  <2>3. CASE ConnectFails \/ TimesOut \/ Breaks \/ Refuses
    <3>1. Types'
      BY <2>3, HInvNext DEF HInv
    <3>2. QED
      BY <2>3, <3>1, FailTyped DEF ConnectFails, TimesOut, Breaks, Refuses, Failure
  <2>4. CASE PostRequest
    BY <2>4, CurrentTyped DEF PostRequest, TypeOK
  <2>5. CASE Succeeds
    <3>1. stage' \in Stage
      BY <2>5, HInvNext DEF HInv, Types, Next, Client
    <3>2. QED
      BY <2>5, <3>1 DEF Succeeds, Return, TypeOK, serverVars
  <2>6. CASE \E p \in wire : Execute(p)
    BY <2>6 DEF Execute, TypeOK
  <2>7. CASE UNCHANGED vars
    BY <2>7 DEF vars, serverVars, TypeOK
  <2>8. QED
    BY <2>1, <2>2, <2>3, <2>4, <2>5, <2>6, <2>7 DEF Next, Client
<1>3. QED
  BY <1>1, <1>2, HInvInit, HInvNext, PTL DEF Spec

\* retry_with_backoff repeats a request only after transient failures, and at
\* most max_retries times.
THEOREM RepeatsProved == Spec => []RepeatsJustified
BY HInvInit, HInvNext, PTL DEF Spec, HInv, Justified

\* The server executes an initialize before any call (discover_tools).
THEOREM InitializeProved == Spec => []InitializeFirst
<1>1. HInv => InitializeFirst
  BY DEF HInv, Types, Posts, Discovery, Initialized, InitializeFirst
<1>2. QED
  BY <1>1, HInvInit, HInvNext, PTL DEF Spec

-----------------------------------------------------------------------------
(* How long a send can take. *)

\* A set of numbers has a least one.
LEMMA Least ==
  ASSUME NEW T, T \subseteq Nat, T # {}
  PROVE  \E n \in T : \A m \in T : n <= m
<1>1. PICK n \in T : \A m \in T : ~(<<m, n>> \in OpToRel(<, Nat))
  BY NatLessThanWellFounded, WFMin, Zenon
<1>2. ASSUME NEW m \in T PROVE n <= m
  <2>1. ~(m < n)
    BY <1>1, <1>2 DEF OpToRel
  <2>2. QED
    BY <2>1
<1>3. QED
  BY <1>2

\* A set that holds 0 and is closed under adding 1 holds every number.
LEMMA Induction ==
  ASSUME NEW S, 0 \in S, \A n \in Nat : n \in S => n + 1 \in S
  PROVE  \A n \in Nat : n \in S
<1>. DEFINE T == Nat \ S
<1>1. SUFFICES ASSUME T # {} PROVE FALSE
  OBVIOUS
<1>2. PICK n \in T : \A m \in T : n <= m
  BY <1>1, Least
<1>3. n \in Nat /\ n # 0
  OBVIOUS
<1>4. n - 1 \in Nat /\ (n - 1) + 1 = n /\ ~(n <= n - 1)
  BY <1>3
<1>5. n - 1 \in S
  BY <1>2, <1>4
<1>6. QED
  BY <1>4, <1>5

\* f doubles from 1, up to n.
Doubles(f, n) == f = [k \in 0..n |-> IF k = 0 THEN 1 ELSE 2 * f[k - 1]]

LEMMA DoublesExist == \A n \in Nat : \E f : Doubles(f, n)
<1>. DEFINE S == {n \in Nat : \E f : Doubles(f, n)}
<1>1. 0 \in S
  <2>. DEFINE f == [k \in 0..0 |-> 1]
  <2>1. f = [k \in 0..0 |-> IF k = 0 THEN 1 ELSE 2 * f[k - 1]]
    <3>1. \A k \in 0..0 : k = 0
      OBVIOUS
    <3>2. QED
      BY <3>1
  <2>2. QED
    BY <2>1, Zenon DEF Doubles
<1>2. ASSUME NEW n \in Nat, n \in S PROVE n + 1 \in S
  <2>1. PICK f : Doubles(f, n)
    BY <1>2
  <2>. DEFINE g == [k \in 0..(n + 1) |-> IF k = n + 1 THEN 2 * f[n] ELSE f[k]]
  <2>2. ASSUME NEW k \in 0..(n + 1)
        PROVE  g[k] = IF k = 0 THEN 1 ELSE 2 * g[k - 1]
    <3>1. CASE k = 0
      <4>1. 0 \in 0..n /\ 0 # n + 1
        OBVIOUS
      <4>2. f[0] = 1
        BY <2>1, <4>1 DEF Doubles
      <4>3. QED
        BY <3>1, <4>1, <4>2
    <3>2. CASE k \in 1..n
      <4>1. k \in 0..n /\ k # 0 /\ k # n + 1 /\ k - 1 \in 0..(n + 1) /\ k - 1 # n + 1
        BY <3>2
      <4>2. f[k] = 2 * f[k - 1]
        BY <2>1, <4>1 DEF Doubles
      <4>3. g[k] = f[k] /\ g[k - 1] = f[k - 1]
        BY <4>1
      <4>4. QED
        BY <4>1, <4>2, <4>3, Zenon
    <3>3. CASE k = n + 1
      <4>1. k # 0 /\ k - 1 = n /\ n \in 0..(n + 1) /\ n # n + 1
        BY <3>3
      <4>2. g[k] = 2 * f[n] /\ g[n] = f[n]
        BY <3>3, <4>1
      <4>3. QED
        BY <4>1, <4>2
    <3>4. QED
      BY <3>1, <3>2, <3>3
  <2>3. Doubles(g, n + 1)
    <3>1. g = [k \in 0..(n + 1) |-> g[k]]
      BY Zenon
    <3>. HIDE DEF g
    <3>2. QED
      BY <2>2, <3>1 DEF Doubles
  <2>4. n + 1 \in Nat
    OBVIOUS
  <2>. HIDE DEF g
  <2>5. QED
    BY <2>3, <2>4, Zenon
<1>. HIDE DEF S
<1>3. \A n \in Nat : n \in S
  BY <1>1, <1>2, Induction
<1>4. QED
  BY <1>3 DEF S

\* What Pow2 is.
LEMMA Pow2Doubles ==
  /\ Pow2[0] = 1
  /\ \A k \in 0..(MaxRetries - 1) : Pow2[k + 1] = 2 * Pow2[k]
<1>1. MaxRetries \in Nat
  BY RetriesAssumption
<1>2. Doubles(Pow2, MaxRetries)
  <2>1. \E f : Doubles(f, MaxRetries)
    BY <1>1, DoublesExist
  <2>2. Pow2 = CHOOSE f : Doubles(f, MaxRetries)
    BY Zenon DEF Pow2, Doubles
  <2>3. QED
    BY <2>1, <2>2, Zenon
<1>3. Pow2[0] = 1
  BY <1>1, <1>2 DEF Doubles
<1>4. ASSUME NEW k \in 0..(MaxRetries - 1) PROVE Pow2[k + 1] = 2 * Pow2[k]
  <2>1. k + 1 \in 0..MaxRetries /\ k + 1 # 0 /\ (k + 1) - 1 = k
    BY <1>1
  <2>2. \A j \in 0..MaxRetries : j # 0 => Pow2[j] = 2 * Pow2[j - 1]
    BY <1>2 DEF Doubles
  <2>3. QED
    BY <2>1, <2>2
<1>5. QED
  BY <1>3, <1>4

\* It is at least 1, and grows.
LEMMA Pow2Grows ==
  \A k \in 0..MaxRetries : Pow2[k] \in Nat /\ 1 <= Pow2[k] /\ Pow2[k] <= Pow2[MaxRetries]
<1>0. MaxRetries \in Nat
  BY RetriesAssumption
<1>. DEFINE S == {n \in Nat : n <= MaxRetries => Pow2[n] \in Nat /\ 1 <= Pow2[n]}
<1>1. 0 \in S
  BY Pow2Doubles
<1>2. ASSUME NEW n \in Nat, n \in S PROVE n + 1 \in S
  <2>1. n + 1 <= MaxRetries => n <= MaxRetries /\ n \in 0..(MaxRetries - 1)
    BY <1>0
  <2>2. n + 1 <= MaxRetries => Pow2[n + 1] = 2 * Pow2[n]
    BY <2>1, Pow2Doubles
  <2>3. QED
    BY <1>2, <2>1, <2>2
<1>. HIDE DEF S
<1>3. \A n \in Nat : n \in S
  BY <1>1, <1>2, Induction
<1>4. \A k \in 0..MaxRetries : Pow2[k] \in Nat /\ 1 <= Pow2[k]
  BY <1>0, <1>3 DEF S
<1>. DEFINE B == {n \in Nat : n <= MaxRetries => Pow2[MaxRetries - n] <= Pow2[MaxRetries]}
<1>5. 0 \in B
  BY <1>0, <1>4
<1>6. ASSUME NEW n \in Nat, n \in B PROVE n + 1 \in B
  <2>. SUFFICES ASSUME n + 1 <= MaxRetries
                PROVE  Pow2[MaxRetries - (n + 1)] <= Pow2[MaxRetries]
    OBVIOUS
  <2>. DEFINE k == MaxRetries - (n + 1)
  <2>1. k \in 0..(MaxRetries - 1) /\ k \in 0..MaxRetries /\ k + 1 = MaxRetries - n
        /\ n <= MaxRetries /\ MaxRetries - n \in 0..MaxRetries
    BY <1>0
  <2>2. Pow2[MaxRetries - n] <= Pow2[MaxRetries]
    BY <1>6, <2>1
  <2>. HIDE DEF k
  <2>3. Pow2[k + 1] = 2 * Pow2[k] /\ Pow2[k] \in Nat
    BY <1>4, <2>1, Pow2Doubles
  <2>4. Pow2[MaxRetries] \in Nat
    BY <1>0, <1>4
  <2>5. 2 * Pow2[k] <= Pow2[MaxRetries]
    BY <2>1, <2>2, <2>3
  <2>6. Pow2[k] <= Pow2[MaxRetries]
    BY <2>3, <2>4, <2>5
  <2>7. QED
    BY <2>6 DEF k
<1>. HIDE DEF B
<1>7. \A n \in Nat : n \in B
  BY <1>5, <1>6, Induction
<1>8. ASSUME NEW k \in 0..MaxRetries PROVE Pow2[k] <= Pow2[MaxRetries]
  <2>1. MaxRetries - k \in Nat /\ MaxRetries - k <= MaxRetries /\ MaxRetries - (MaxRetries - k) = k
    BY <1>0
  <2>2. Pow2[MaxRetries - (MaxRetries - k)] <= Pow2[MaxRetries]
    BY <1>7, <2>1 DEF B
  <2>3. QED
    BY <2>1, <2>2
<1>9. QED
  BY <1>4, <1>8

\* The longest that k attempts and the backoffs after them can take.
Spent(k) == k * Timeout + 150 * (Pow2[k] - 1)

(* Where in a send how much time can have passed. *)
TimeInv ==
  /\ elapsed \in Nat
  /\ pc \in {"post", "wait"} => elapsed <= Spent(attempt)
  /\ pc = "sleep" => elapsed <= Spent(attempt + 1)
  /\ pc = "idle" => elapsed <= SendBound

\* Products of the timeout.
LEMMA Product ==
  ASSUME NEW t \in Nat, NEW a \in Nat, NEW b \in Nat, a <= b
  PROVE  a * t \in Nat /\ a * t <= b * t /\ (a + 1) * t = a * t + t
<1>. DEFINE S == {n \in Nat : a * t <= (a + n) * t}
<1>1. a * t \in Nat /\ (a + 1) * t = a * t + t
  OBVIOUS
<1>2. 0 \in S
  BY <1>1
<1>3. ASSUME NEW n \in Nat, n \in S PROVE n + 1 \in S
  <2>1. (a + (n + 1)) * t = (a + n) * t + t /\ (a + n) * t \in Nat
    OBVIOUS
  <2>2. QED
    BY <1>1, <1>3, <2>1
<1>. HIDE DEF S
<1>4. b - a \in S
  <2>1. b - a \in Nat
    OBVIOUS
  <2>2. QED
    BY <1>2, <1>3, <2>1, Induction
<1>5. a + (b - a) = b
  OBVIOUS
<1>6. QED
  BY <1>1, <1>4, <1>5 DEF S

\* An attempt's timeout and a backoff fit between Spent and the next; the
\* timeout of the last attempt fits into the bound.
LEMMA SpentGrows ==
  ASSUME NEW k \in 0..MaxRetries
  PROVE  /\ Spent(k) \in Nat /\ Spent(k) + Timeout <= SendBound
         /\ k < MaxRetries =>
              \A delay \in Delays(k) : delay \in Nat /\ Spent(k) + Timeout + delay <= Spent(k + 1)
<1>1. MaxRetries \in Nat /\ Timeout \in Nat /\ k \in Nat /\ k <= MaxRetries
  BY RetriesAssumption, TimeoutAssumption
<1>2. /\ Pow2[k] \in Nat /\ 1 <= Pow2[k] /\ Pow2[k] <= Pow2[MaxRetries]
      /\ Pow2[MaxRetries] \in Nat
  BY <1>1, Pow2Grows
<1>3. k * Timeout \in Nat /\ k * Timeout <= MaxRetries * Timeout
      /\ (k + 1) * Timeout = k * Timeout + Timeout
  BY <1>1, Product
<1>4. MaxRetries * Timeout \in Nat /\ (MaxRetries + 1) * Timeout = MaxRetries * Timeout + Timeout
  <2>1. MaxRetries <= MaxRetries
    BY <1>1
  <2>2. QED
    BY <1>1, <2>1, Product
<1>. DEFINE x == k * Timeout
            y == MaxRetries * Timeout
            p == Pow2[k]
            q == Pow2[MaxRetries]
<1>. HIDE DEF x, y, p, q
<1>5. Spent(k) \in Nat /\ Spent(k) + Timeout <= SendBound
  <2>1. Spent(k) = x + 150 * (p - 1)
    BY Zenon DEF Spent, x, p
  <2>2. SendBound = (y + Timeout) + 150 * (q - 1)
    BY <1>4, Zenon DEF SendBound, y, q
  <2>3. x \in Nat /\ y \in Nat /\ x <= y /\ p \in Nat /\ q \in Nat /\ 1 <= p /\ p <= q
    BY <1>2, <1>3, <1>4, Zenon DEF x, y, p, q
  <2>4. QED
    BY <1>1, <2>1, <2>2, <2>3
<1>6. ASSUME k < MaxRetries, NEW delay \in Delays(k)
      PROVE  delay \in Nat /\ Spent(k) + Timeout + delay <= Spent(k + 1)
  <2>1. k \in 0..(MaxRetries - 1)
    BY <1>1, <1>6
  <2>2. Pow2[k + 1] = 2 * p
    BY <2>1, Pow2Doubles DEF p
  <2>3. Spent(k) = x + 150 * (p - 1) /\ Spent(k + 1) = (x + Timeout) + 150 * (2 * p - 1)
    BY <1>3, <2>2, Zenon DEF Spent, x, p
  <2>4. x \in Nat /\ p \in Nat /\ 1 <= p
    BY <1>2, <1>3, Zenon DEF x, p
  <2>5. delay = 100 * p \/ delay = 100 * p + (100 * p) \div 2 - 1
    BY <1>6 DEF Delays, BaseMs, p
  <2>6. (100 * p) \div 2 = 50 * p
    BY <2>4
  <2>7. delay \in Nat /\ delay <= 150 * p
    BY <2>4, <2>5, <2>6
  <2>8. QED
    BY <1>1, <2>3, <2>4, <2>7
<1>7. QED
  BY <1>5, <1>6

\* An attempt that fails, at once or after the timeout.
LEMMA FailInTime ==
  ASSUME HInv, TimeInv, pc \in {"post", "wait"}, NEW e, NEW ms \in {0, Timeout}, Fail(e, ms)
  PROVE  TimeInv'
<1>1. /\ Timeout \in Nat /\ elapsed \in Nat /\ elapsed <= Spent(attempt)
      /\ attempt \in 0..MaxRetries /\ ms \in Nat /\ ms <= Timeout
  BY TimeoutAssumption DEF HInv, Types, TimeInv
<1>2. Spent(attempt) \in Nat /\ Spent(attempt) + Timeout <= SendBound /\ attempt' = attempt
  BY <1>1, SpentGrows DEF Fail
<1>3. CASE ~MayRetry(e)
  <2>1. pc' = "idle" /\ elapsed' = elapsed + ms
    BY <1>3 DEF Fail, Return
  <2>2. SendBound \in Int
    BY <1>1, RetriesAssumption, Pow2Grows DEF SendBound
  <2>3. elapsed' \in Nat /\ elapsed' <= SendBound
    BY <1>1, <1>2, <2>1, <2>2
  <2>4. QED
    BY <2>1, <2>3 DEF TimeInv
<1>4. CASE MayRetry(e)
  <2>1. PICK delay \in Delays(attempt) : elapsed' = elapsed + ms + delay
    BY <1>4 DEF Fail
  <2>2. pc' = "sleep" /\ attempt < MaxRetries
    BY <1>4 DEF Fail, MayRetry
  <2>3. delay \in Nat /\ Spent(attempt) + Timeout + delay <= Spent(attempt + 1)
    BY <1>1, <2>1, <2>2, SpentGrows
  <2>4. Spent(attempt + 1) \in Nat
    <3>1. attempt + 1 \in 0..MaxRetries
      BY <1>1, <2>2, RetriesAssumption
    <3>2. QED
      BY <3>1, SpentGrows
  <2>5. elapsed' \in Nat /\ elapsed' <= Spent(attempt + 1)
    BY <1>1, <1>2, <2>1, <2>3, <2>4
  <2>6. Spent(attempt + 1)' = Spent(attempt + 1)
    BY <1>2, Zenon DEF Spent
  <2>7. QED
    BY <2>2, <2>5, <2>6 DEF TimeInv
<1>5. QED
  BY <1>3, <1>4

LEMMA TimeNext == HInv /\ TimeInv /\ [Next]_vars => TimeInv'
<1>. SUFFICES ASSUME HInv, TimeInv, [Next]_vars PROVE TimeInv'
  OBVIOUS
<1>1. CASE Send
  <2>1. pc' = "post" /\ attempt' = 0 /\ elapsed' = 0
    BY <1>1 DEF Send
  <2>2. 0 <= Spent(0)
    <3>1. 0 \in 0..MaxRetries
      BY RetriesAssumption
    <3>2. QED
      BY <3>1, SpentGrows
  <2>3. Spent(attempt') = Spent(0) /\ Spent(attempt)' = Spent(attempt')
    BY <2>1, Zenon DEF Spent
  <2>4. QED
    BY <2>1, <2>2, <2>3 DEF TimeInv
<1>2. CASE Wake
  <2>1. pc = "sleep" /\ pc' = "post" /\ attempt' = attempt + 1 /\ elapsed' = elapsed
    BY <1>2 DEF Wake
  <2>2. Spent(attempt)' = Spent(attempt + 1)
    BY <2>1, Zenon DEF Spent
  <2>3. QED
    BY <2>1, <2>2 DEF TimeInv
<1>3. CASE ConnectFails \/ TimesOut \/ Breaks \/ Refuses
  BY <1>3, FailInTime DEF ConnectFails, TimesOut, Breaks, Refuses
<1>4. CASE PostRequest
  <2>1. pc = "post" /\ pc' = "wait" /\ attempt' = attempt /\ elapsed' = elapsed
    BY <1>4 DEF PostRequest
  <2>2. Spent(attempt)' = Spent(attempt)
    BY <2>1, Zenon DEF Spent
  <2>3. QED
    BY <2>1, <2>2 DEF TimeInv
<1>5. CASE Succeeds
  <2>1. pc = "wait" /\ pc' = "idle" /\ elapsed' = elapsed /\ attempt \in 0..MaxRetries
    BY <1>5 DEF Succeeds, Return, HInv, Types
  <2>2. Spent(attempt) \in Nat /\ Spent(attempt) + Timeout <= SendBound /\ Timeout \in Nat
    BY <2>1, SpentGrows, TimeoutAssumption
  <2>3. SendBound \in Int
    BY <2>2, RetriesAssumption, Pow2Grows DEF SendBound
  <2>4. elapsed \in Nat /\ elapsed <= Spent(attempt)
    BY <2>1 DEF TimeInv
  <2>5. elapsed <= SendBound
    BY <2>2, <2>3, <2>4
  <2>6. QED
    BY <2>1, <2>4, <2>5 DEF TimeInv
<1>6. CASE (\E p \in wire : Execute(p)) \/ UNCHANGED vars
  <2>1. pc' = pc /\ attempt' = attempt /\ elapsed' = elapsed
    BY <1>6 DEF Execute, vars
  <2>2. Spent(attempt)' = Spent(attempt) /\ Spent(attempt + 1)' = Spent(attempt + 1)
    BY <2>1, Zenon DEF Spent
  <2>3. QED
    BY <2>1, <2>2 DEF TimeInv
<1>7. QED
  BY <1>1, <1>2, <1>3, <1>4, <1>5, <1>6, Zenon DEF Next, Client

(* Whatever the server does, and for every timeout and number of retries, a
   send holds up its caller no longer than the attempts' timeouts and the
   longest backoffs between them add up to (retry_with_backoff). *)
THEOREM SendBoundProved == Spec => []SendBounded
<1>1. Init => TimeInv
  <2>1. 0 \in 0..MaxRetries /\ Timeout \in Nat
    BY RetriesAssumption, TimeoutAssumption
  <2>2. Spent(0) \in Nat /\ Spent(0) + Timeout <= SendBound
    BY <2>1, SpentGrows
  <2>3. SendBound \in Int
    BY <2>1, RetriesAssumption, Pow2Grows DEF SendBound
  <2>4. 0 <= SendBound
    BY <2>1, <2>2, <2>3
  <2>5. QED
    BY <2>4 DEF Init, TimeInv
<1>2. HInv /\ TimeInv => SendBounded
  <2>. SUFFICES ASSUME HInv, TimeInv PROVE elapsed <= SendBound
    BY DEF SendBounded
  <2>1. /\ attempt \in 0..MaxRetries /\ MaxRetries \in Nat /\ Timeout \in Nat /\ elapsed \in Nat
        /\ pc \in {"idle", "post", "wait", "sleep"} /\ (pc = "sleep" => attempt < MaxRetries)
    BY RetriesAssumption, TimeoutAssumption DEF HInv, Types, Justified, TimeInv
  <2>2. \A k \in 0..MaxRetries : Spent(k) \in Nat /\ Spent(k) + Timeout <= SendBound
    BY SpentGrows
  <2>3. SendBound \in Int
    BY <2>1, Pow2Grows DEF SendBound
  <2>4. \A k \in 0..MaxRetries : elapsed <= Spent(k) => elapsed <= SendBound
    BY <2>1, <2>2, <2>3
  <2>5. pc = "sleep" => attempt + 1 \in 0..MaxRetries
    BY <2>1
  <2>6. QED
    BY <2>1, <2>4, <2>5 DEF TimeInv
<1>3. QED
  BY <1>1, <1>2, HInvInit, HInvNext, TimeNext, PTL DEF Spec

-----------------------------------------------------------------------------
(* The refinement. *)

\* A call that returns.
LEMMA FinishMaps ==
  ASSUME NEW how \in {"ok", "err"}, Open = "yes", Open' = "no", Outcome' = how,
         how = "ok" => \E t \in executed : t[1] = sends,
         sends' = sends, posted' = posted, executed' = executed
  PROVE  Remote!CallNext
<1>1. Remote!Finish(how)
  BY DEF Remote!Finish
<1>2. QED
  BY <1>1 DEF Remote!CallNext

\* A failed attempt ends the call with an error, or is not seen at all.
LEMMA FailMaps ==
  ASSUME pc \in {"post", "wait"}, NEW e \in Failure, NEW ms, Fail(e, ms), posted' = posted
  PROVE  Remote!CallNext \/ UNCHANGED Remote!rvars
<1>1. sends' = sends /\ executed' = executed
  BY FailCases
<1>2. CASE Return(e)
  <2>1. Open = "yes" /\ Open' = "no" /\ Outcome' = "err"
    BY <1>2 DEF Return, Open, Outcome, Failure
  <2>2. QED
    BY <1>1, <2>1, FinishMaps
<1>3. CASE pc' = "sleep" /\ result' = result
  <2>1. Open' = Open /\ Outcome' = Outcome
    BY <1>3 DEF Open, Outcome
  <2>2. QED
    BY <1>1, <2>1 DEF Remote!rvars
<1>4. QED
  BY <1>2, <1>3, FailCases

\* Every step of the backend is one of the abstract call, or not seen.
LEMMA StepMaps ==
  ASSUME HInv, Next
  PROVE  Remote!CallNext \/ UNCHANGED Remote!rvars
<1>1. CASE Send
  <2>1. Remote!Begin
    BY <1>1 DEF Send, serverVars, Open, Outcome, Remote!Begin
  <2>2. QED
    BY <2>1 DEF Remote!CallNext
<1>2. CASE Wake
  BY <1>2 DEF Wake, serverVars, Open, Outcome, Remote!rvars
<1>3. CASE ConnectFails
  BY <1>3, FailMaps DEF ConnectFails, Failure
<1>4. CASE PostRequest
  <2>1. /\ attempt \in 0..(MaxRetries + 1) /\ attempt < MaxRetries + 1
        /\ <<sends, attempt>> \notin posted
    BY <1>4, RetriesAssumption DEF PostRequest, HInv, Types, Posts, current
  <2>2. Remote!Try(attempt)
    BY <1>4, <2>1 DEF PostRequest, Open, Outcome, current, Remote!Try
  <2>3. QED
    BY <2>1, <2>2 DEF Remote!CallNext
<1>5. CASE TimesOut
  BY <1>5, FailMaps DEF TimesOut, Failure
<1>6. CASE Breaks
  BY <1>6, FailMaps DEF Breaks, Failure
<1>7. CASE Refuses
  BY <1>7, FailMaps DEF Refuses, Failure
<1>8. CASE Succeeds
  <2>1. /\ Open = "yes" /\ Open' = "no" /\ Outcome' = "ok"
        /\ sends' = sends /\ posted' = posted /\ executed' = executed
    BY <1>8 DEF Succeeds, Return, Open, Outcome, serverVars
  <2>2. \E t \in executed : t[1] = sends
    BY <1>8 DEF Succeeds, current
  <2>3. QED
    BY <2>1, <2>2, FinishMaps
<1>9. CASE \E p \in wire : Execute(p)
  <2>1. PICK p \in wire : Execute(p)
    BY <1>9
  <2>2. p \in posted /\ p \notin executed
    BY DEF HInv, Posts
  <2>3. Remote!TakeEffect(p)
    BY <2>1, <2>2 DEF Execute, Open, Outcome, Remote!TakeEffect
  <2>4. QED
    BY <2>2, <2>3 DEF Remote!CallNext
<1>10. QED
  BY <1>1, <1>2, <1>3, <1>4, <1>5, <1>6, <1>7, <1>8, <1>9 DEF Next, Client

\* HttpBackend::send implements the retried call of RemoteCall.
THEOREM RemoteProved == Spec => RemoteRefined
<1>1. Init => Remote!CallInit
  BY DEF Init, Open, Outcome, Remote!CallInit
<1>2. HInv /\ [Next]_vars => [Remote!CallNext]_(Remote!rvars)
  <2>1. HInv /\ UNCHANGED vars => UNCHANGED Remote!rvars
    BY DEF vars, serverVars, Open, Outcome, Remote!rvars
  <2>2. QED
    BY <2>1, StepMaps
<1>3. QED
  BY <1>1, <1>2, HInvInit, HInvNext, PTL DEF Spec, RemoteRefined, Remote!CallSpec
=============================================================================
