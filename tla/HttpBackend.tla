---------------------------- MODULE HttpBackend ----------------------------
(***************************************************************************)
(* One HTTP backend: HttpBackend::send with retry_with_backoff around it,  *)
(* the error classes of BackendError, and the discover_tools handshake     *)
(* that comes before the gateway's calls (src/backend/http.rs, retry.rs,   *)
(* error.rs).                                                              *)
(*                                                                         *)
(* The server may be unreachable, refuse, fail, break off its answer,      *)
(* answer without data, or be slow: a POST the client gave up on may still *)
(* be executed at any later time.  A POST is <<send, attempt>>.  Time is   *)
(* in milliseconds.  An attempt lasts at most Timeout; the model only lets *)
(* the two extremes happen, a timeout or nothing.                          *)
(***************************************************************************)
EXTENDS Integers

CONSTANTS
  MaxRetries,    \* max_retries
  Timeout,       \* timeout, in ms
  MaxSends       \* bound on the number of sends

ASSUME RetriesAssumption == MaxRetries \in Nat
ASSUME TimeoutAssumption == Timeout \in Nat
ASSUME SendsAssumption == MaxSends \in Nat

VARIABLES
  pc,                \* the sender: "idle", "post", "wait" or "sleep"
  sends, attempt,    \* the send it is at, and retry_with_backoff's counter
  result,            \* how the last send returned
  stage,             \* where discover_tools is, or "serving"/"failed"
  elapsed,           \* ms since the send began
  wire, executed,    \* POSTs the server has yet to execute, and has executed
  posted, transient  \* history: POSTs made, and attempts that failed in a
                     \* way that may pass

serverVars == <<wire, executed>>
vars == <<pc, sends, attempt, result, stage, elapsed, serverVars, posted, transient>>

Failure == {"connect", "timeout", "reset", "4xx", "5xx", "stream", "nodata"}
Passing == {"connect", "timeout", "5xx", "stream"}
Stage == {"initialize", "initialized", "tools/list", "serving", "failed"}
Post == (1..MaxSends) \X (0..MaxRetries)

\* SendBounded says what elapsed can be.
TypeOK ==
  /\ pc \in {"idle", "post", "wait", "sleep"}
  /\ sends \in 0..MaxSends /\ attempt \in 0..MaxRetries
  /\ result \in Failure \cup {"none", "ok"}
  /\ stage \in Stage
  /\ wire \subseteq Post /\ executed \subseteq Post
  /\ posted \subseteq Post /\ transient \subseteq Post

Init ==
  /\ pc = "idle" /\ sends = 0 /\ attempt = 0 /\ result = "none"
  /\ stage = "initialize" /\ elapsed = 0
  /\ wire = {} /\ executed = {} /\ posted = {} /\ transient = {}
-----------------------------------------------------------------------------
(* retry_with_backoff. *)

\* Faulty variant of IsRetryable: a refusal is tried again.
IsRetryableAny(e) == e # "nodata"

\* "connect", "timeout" and "reset" are reqwest's errors before an answer.
IsRetryable(e) == e \in {"connect", "timeout", "5xx", "stream"}

\* 1 << k.
Pow2[k \in 0..MaxRetries] == IF k = 0 THEN 1 ELSE 2 * Pow2[k - 1]

\* It would saturate from attempt 58 on, a billion years into the send.
BaseMs(k) == 100 * Pow2[k]

\* Faulty variant of Delays: the jitter may double the base.
DelaysDoubled(k) == {BaseMs(k), 2 * BaseMs(k) - 1}

\* The shortest and the longest backoff: the jitter is below half the base.
Delays(k) == {BaseMs(k), BaseMs(k) + BaseMs(k) \div 2 - 1}

current == <<sends, attempt>>

Send ==
  /\ pc = "idle" /\ sends < MaxSends /\ stage # "failed"
  /\ sends' = sends + 1 /\ attempt' = 0 /\ elapsed' = 0
  /\ pc' = "post"
  /\ UNCHANGED <<result, stage, serverVars, posted, transient>>

\* Faulty variant of AfterSend: the answer to initialize is not looked at.
AfterSendCareless(how) ==
  CASE stage = "initialize"  -> {"initialized"}
    [] stage = "initialized" -> {"tools/list"}
    [] stage = "tools/list"  -> IF how = "ok" THEN {"serving", "failed"} ELSE {"failed"}
    [] OTHER                 -> {stage}

\* What discover_tools does with the return of a send: the notification may
\* fail, and an answer to tools/list may hold no tools.
AfterSend(how) ==
  CASE stage = "initialize"  -> {IF how = "ok" THEN "initialized" ELSE "failed"}
    [] stage = "initialized" -> {"tools/list"}
    [] stage = "tools/list"  -> IF how = "ok" THEN {"serving", "failed"} ELSE {"failed"}
    [] OTHER                 -> {stage}

Return(how) ==
  /\ pc' = "idle" /\ result' = how
  /\ stage' \in AfterSend(how)

MayRetry(e) == IsRetryable(e) /\ attempt < MaxRetries

\* An attempt failed, after ms: the error is returned, or slept over.
Fail(e, ms) ==
  /\ transient' = IF e \in Passing THEN transient \cup {current} ELSE transient
  /\ \/ /\ ~MayRetry(e)
        /\ Return(e) /\ elapsed' = elapsed + ms
     \/ /\ MayRetry(e)
        /\ pc' = "sleep" /\ UNCHANGED <<result, stage>>
        /\ \E delay \in Delays(attempt) : elapsed' = elapsed + ms + delay
  /\ UNCHANGED <<sends, attempt, executed>>

Wake ==
  /\ pc = "sleep"
  /\ attempt' = attempt + 1 /\ pc' = "post"
  /\ UNCHANGED <<sends, result, stage, elapsed, serverVars, posted, transient>>
-----------------------------------------------------------------------------
(* The operation: one POST and what comes back. *)

ConnectFails ==
  /\ pc = "post"
  /\ Fail("connect", 0)
  /\ UNCHANGED <<wire, posted>>

\* The request is on its way.
PostRequest ==
  /\ pc = "post"
  /\ wire' = wire \cup {current} /\ posted' = posted \cup {current}
  /\ pc' = "wait"
  /\ UNCHANGED <<sends, attempt, result, stage, elapsed, executed, transient>>

\* Faulty variant of TimesOut: the timeout runs from the response's header.
TimesOutOnBody ==
  /\ pc = "wait" /\ current \in executed
  /\ Fail("timeout", Timeout)
  /\ UNCHANGED <<wire, posted>>

\* Neither the server nor the network owes the client anything after it.
TimesOut ==
  /\ pc = "wait"
  /\ Fail("timeout", Timeout)
  /\ UNCHANGED <<wire, posted>>

\* The connection breaks, before the answer or in the middle of it; the
\* server may not notice.
Breaks ==
  /\ pc = "wait"
  /\ \E e \in {"reset", "stream"} : Fail(e, 0)
  /\ UNCHANGED <<wire, posted>>

\* Faulty variant of Refuses: an event stream without data is a success.
RefusesNoDataOk ==
  /\ pc = "wait"
  /\ \/ \E e \in {"4xx", "5xx"} : Fail(e, 0)
     \/ Return("ok") /\ UNCHANGED <<sends, attempt, elapsed, executed, transient>>
  /\ wire' = wire \ {current}
  /\ UNCHANGED posted

\* An answer that is an error, whether or not the request was executed.
Refuses ==
  /\ pc = "wait"
  /\ \E e \in {"4xx", "5xx", "nodata"} : Fail(e, 0)
  /\ wire' = wire \ {current}
  /\ UNCHANGED posted

Succeeds ==
  /\ pc = "wait" /\ current \in executed
  /\ Return("ok")
  /\ UNCHANGED <<sends, attempt, elapsed, serverVars, posted, transient>>

\* The server executes a request it has received, waited for or not.
Execute(p) ==
  /\ p \in wire
  /\ wire' = wire \ {p} /\ executed' = executed \cup {p}
  /\ UNCHANGED <<pc, sends, attempt, result, stage, elapsed, posted, transient>>
-----------------------------------------------------------------------------
Client == Send \/ Wake \/ ConnectFails \/ PostRequest \/ TimesOut \/ Breaks \/ Refuses \/ Succeeds

Next == Client \/ \E p \in wire : Execute(p)

Spec == Init /\ [][Next]_vars

\* The runtime polls the send and fires its timers; of the server nothing is
\* assumed.
FairSpec ==
  /\ Spec
  /\ WF_vars(Wake)
  /\ WF_vars(ConnectFails \/ PostRequest)
  /\ WF_vars(TimesOut)
-----------------------------------------------------------------------------
(* A request is repeated only when every earlier attempt of the same send
   failed transiently: after a success, a refusal or a lost connection
   (retry_with_backoff returns there) the server never sees it again, and it
   never sees it more than max_retries + 1 times. *)
RepeatsJustified ==
  \A p \in posted : p[2] <= MaxRetries /\ \A k \in 0..(p[2] - 1) : <<p[1], k>> \in transient

(* The server never executes tools/list or a call before it has executed an
   initialize, although retries of initialize may reach it afterwards, and
   the notification in between may be lost altogether. *)
InitializeFirst ==
  (\E p \in executed : p[1] > 2) => (\E p \in executed : p[1] = 1)

\* The longest a send may take.
SendBound == (MaxRetries + 1) * Timeout + 150 * (Pow2[MaxRetries] - 1)

(* How long a send can hold up its caller, the serial dispatch loop: all its
   attempts time out, with the longest backoff between them.  (main waits for
   three such sends per HTTP backend: it discovers them one after the other
   and without a timeout of its own.) *)
SendBounded == elapsed <= SendBound

(* Every send returns, whatever the server does. *)
SendReturns == pc # "idle" ~> pc = "idle"
-----------------------------------------------------------------------------
\* What the caller is shown of a send.
Open == IF pc = "idle" THEN "no" ELSE "yes"
Outcome == CASE result = "none" -> "none" [] result = "ok" -> "ok" [] OTHER -> "err"

Remote == INSTANCE RemoteCall WITH
  Limit   <- MaxRetries + 1,
  call    <- sends,
  open    <- Open,
  outcome <- Outcome,
  tries   <- posted,
  effects <- executed

(* The caller sees a retried remote call: tries only while the call is open,
   each executed at most once, possibly after the call returned, and success
   only when the call was executed. *)
RemoteRefined == Remote!CallSpec
=============================================================================
