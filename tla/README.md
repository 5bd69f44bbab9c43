# Sentinel MCP Gateway: verification project

TLA+ models of the gateway in `src/`, the TLC runs that check them on small
instances, and TLAPS proofs of the results that matter most. Every definition
is translated from the code; `PROJECT.json` maps definitions to source lines
and lists components, runs, faulty variants, findings, hazards and theorems.

## The system

The gateway is one tokio process. `main` loads the configuration, asks the
HTTP backends and then the stdio backends for their tools, and shares what it
got with the dispatch loop. An MCP client writes JSON-RPC lines to stdin;
`stdio_reader` puts them into a bounded channel; `run_dispatch` takes them one
at a time, answers through a second channel, and `stdio_writer` prints the
answers. A `tools/call` passes, in this order, the kill switch and the rate
limiter (both in the hot configuration, behind one `RwLock`), RBAC, schema
validation and the backend's circuit breaker, and is then sent to an HTTP
server or a child process under a remapped id. Every call is offered to the
audit log. SIGHUP replaces the hot configuration; SIGTERM, SIGINT or end of
input end the loop, after which `main` stops the supervisors, waits for the
audit writer and returns. Each stdio backend has a supervisor that spawns the
child, runs the MCP handshake, reports the tools to `main`, and restarts. A
health checker pings the HTTP backends for `/ready` and a gauge.

| Component | State | Hard behaviour | Module |
|---|---|---|---|
| Dispatch loop `gateway.rs` | session, call being served, read guard | reloads, full channels, cancellation between any two awaits | `Gateway` |
| Session `protocol/` | `McpState` | lines in any order | `Protocol`, `McpSession` |
| Id remapper `protocol/id_remapper.rs` | counter, mappings | error paths | `Gateway` |
| Transport `transport/stdio.rs` | two channels | end of input, write errors | `Gateway` |
| RBAC `auth/rbac.rs` | none | deny list against wildcard | `Rbac` |
| Rate limiter `ratelimit.rs` | a bucket per client and tool | window boundaries, rounding, reloads | `RateLimiterOps`, `RateLimiter` |
| Circuit breaker `health/circuit_breaker.rs` | state, count, last failure | probes, recovery | `CircuitBreakerOps`, `CircuitBreaker`, `CircuitBreakerHistory` |
| Hot reload `config/hot.rs` | kill switch, limiter | read guard held across an await | `Gateway`, `RateLimiter` |
| Audit `audit/` | channel, table | full channel, failed insert, drain at the end | `Gateway`, `Shutdown`, `Startup` |
| stdio backend `backend/stdio.rs` | pending map, oneshots, two tasks | late answers, timeouts, child death | `StdioBackend` |
| Supervisor `backend/stdio.rs`, `main.rs` | restart count, child, tools channel | restarts, failed start, shutdown | `Supervisor` |
| HTTP backend `backend/http.rs`, `retry.rs`, `error.rs` | attempt, POSTs on the way | retries of what was already executed | `HttpBackend`, `RemoteCall` |
| Catalog `catalog/mod.rs`, `validation/` | tools, routes, validators | colliding names | `ToolCatalog` |
| Process start `main.rs` | the maps given to the loop | some backends missing | `Startup` |
| Process shutdown `main.rs` | who still holds a sender | everybody waiting for somebody | `Shutdown` |
| Health `health/checker.rs`, `server.rs` | health map, gauge | backends that change while they are pinged | `Health` |

## Modules

* `HashMaps` is std's `HashMap` as functions with a changing domain.
* `RateLimiterOps` and `CircuitBreakerOps` are the two algorithms as operators
  on records, used both by their own modules and by `Gateway`. Instants are
  kept as ages in ticks. An age saturates where the code stops telling ages
  apart (the window, the recovery timeout), so no clock grows.
* `RateLimiter` adds the map of buckets, the reload that replaces it by an
  empty one, and history variables: the wait last promised to a key, and
  its admissions and the reloads in the last n ticks, for each n. One tick is half a second in the
  run, so that `ceil` has something to round.
* `CircuitBreaker` is one breaker under the serial loop: a call is let
  through, then its outcome is recorded. `CircuitBreakerHistory` adds a backend
  that goes up and down and counts the probes of an outage.
* `Protocol`, `Rbac` and `Gateway` model the dispatch loop. A step ends where
  the code awaits or touches what another task sees. `pc` is the place in
  `run_dispatch`: `recv`, `list`, `gate` (kill switch and limiter under the
  guard), `check` (RBAC, schema, breaker), `dispatch`, `call`, `send`,
  `closed`. A line is abstracted to its method, whether it has an id, its
  tool, and whether its arguments fit. `Script` is the lines a client may
  send, position by position.
* `McpSession` is the abstract session: in-order service, one answer per
  request with its own id, none for notifications. `GatewayProperties` maps
  `Gateway` to it (`Session`), maps `Gateway` to a `CircuitBreaker` for each
  backend (`Circuit`), and states the other properties.
* `StdioBackend` is one child's pipes, tasks, pending map and `send`. The
  reader's two steps (take the sender out, use it) are separate actions. The
  child answers what it has read, each request at most once and in any order,
  and may send requests of its own at any time, from its start on, under ids
  that may be pending. `greeting` is a history variable: what the handshake
  took for the answer to `initialize`.
* `Supervisor` is `run_supervisor` with the parts of `main` that start it,
  take its tools, fail to start after it, and stop it. The end of `main`'s
  wait for the tools and the drop of the receiver at the end of the loop body
  are separate steps; `lost` is a history variable: the process whose report
  was sent in between and dropped with the receiver.
* `HttpBackend` is `send` with `retry_with_backoff`, and discovery on top of
  it, against a server that may be slow, refuse, break off, or execute a POST
  long after the client gave it up. `RemoteCall` is what a caller may rely on.
  `elapsed` is the time a send has cost, backoff and jitter included.
* `ToolCatalog` is the catalog and the validators as operators on maps, with
  `register_backend` a round of its loop at a time; names
  are sequences of parts, so that `files__query` is the prefixed `query` of
  `files` and may also be a name a backend offers.
* `Startup` is `main` up to `run_dispatch`: configuration, discovery, stub
  catalog, authentication, audit log, breakers and health map, with each way
  it can end early.
* `Shutdown` composes `Gateway` with the end of `main`: what is awaited, in
  which order, and the drop of the runtime, which aborts tasks but waits for
  the blocking read of stdin.
* `Health` is the checker's sweep, with the ping and the write of its verdict
  as separate steps, the map, the gauge and `/ready`.

Each operator whose comment begins "Faulty variant of" is a plausible bug; no
specification uses it. For every property of a passing run one of them, put in
the place of the real definition, makes TLC report a violation.

## Runs

| Run | What it shows | Distinct states |
|---|---|---|
| `breaker` | trips exactly at the threshold, one probe at a time and one per recovery timeout, closes once the backend stays up | 590 |
| `limiter` | less than twice the rate in any window, plus a rate per reload; exact budget inside one; `retryAfter` suffices | 150,601 |
| `gateway` | governance, probes, ids, buckets, audit, the session and a circuit per backend, for every kind of line around a handshake and calls on every path, with a reload | 853,327 |
| `stdio_backend` | no answer is taken for another's (see `OwnAnswer` for the one exception), nothing leaks in the map, prompt failure, `send` returns | 208,354 |
| `supervisor` | every process signalled, one in service and it is the one the gateway has, was told of or lost, no orphans, attempts bounded, shutdown completes | 37,623 |
| `http_backend` | repeats only after transient failures, `initialize` first, bounded time, `send` returns, `RemoteCall` implemented | 221,712 |
| `startup` | names route to the tool they list and to its validator, the first backend keeps a name, the loop's maps fit together | 7,062 |
| `health` | map, gauge and `/ready` settle on the truth about HTTP backends, verdicts are about their own ping | 44,928 |
| `shutdown` | lines served, reloads installed, audit log drained, `main` returns, the process ends at end of input | 74,427 |

Three runs end in a violation, each of a sentence in the documentation or a
comment; `PROJECT.json` quotes them.

* `supervisor_restart`: a restarted child is killed because `main` no longer
  receives its tools, and the supervisor stops with retries left.
* `listed`: a tool renamed after a collision is asked of its backend under the
  new name, which the backend never offered.
* `stdio_response`: `stdout_reader` looks only at the id, so a request the
  child sends under the id of the call in flight is what the call returns, and
  the response to it is dropped.

Bounds. Channels hold 1 (the code: 64 and 1024), so that full channels are met
after one message; a child's stdin channel holds 2, and the audit channel 2 in
`shutdown`, so that there is something to drain. Two tools share a backend and
one has its own, one tool is denied, one has a backend that is not connected,
one is not in the catalog. Thresholds and timeouts of 1 let a circuit open,
recover and open again within the two calls of `gateway`; `breaker` uses 3 and
4, `MaxFailures` bounds the `u32` failure count and `MaxTicks` the length of an
outage. One reload is enough to fall between any two steps of a call; the
limiter has two, so that they fall into one window. In `shutdown` the last
line is a call to a tool that is switched off, so that a refusal holds the
read guard while the reload waits for the write lock. Six sends on a child are
the handshake and four calls with increasing ids, enough for a late answer to
meet a later request; the child asks once of its own accord. `max_restarts` is
3 with five processes. `http_backend` has one retry and four sends: the three
of discovery and a call, so that a POST given up by one is executed during the
next.
`startup` has up to three backends of both types in two orders, a repeated
name, two invalid entries, and offers with repeated, colliding and
prefix-like names; `health` has three HTTP backends in every order of the list,
with and without a stdio backend.

Fairness. Weak fairness of what the runtime polls or a timer fires: the
dispatch loop, `main`, the return of `backend.send` (both backends time out,
save for the case `StdioBackend`'s `SendReturns` excludes), the supervisor,
the checker. In `FairShutdown` also of the writer and the audit writer: the
client is assumed to read or go away, and the database to answer; it need not
send anything or hang up. Strong fairness of `Install`: tokio's `RwLock`
queues the writer, so later readers do not overtake it. Nothing is assumed of
children and HTTP servers. `HFairSpec` also assumes the client keeps calling
and the backend, once up, answers, which `AutoReenabled` needs: without calls
nothing probes. `CHECK_DEADLOCK FALSE` stands where the system really stops or
comes to the end of its script: an abandoned child, a stopped supervisor, a
failed discovery or the last send, a process that serves or has failed to
start, an exited process.

## Proofs

All for every value of the constants, from the named assumptions in the
modules that declare them. Eight modules hold them.

* `Health_proofs`: of the breaker `BreakerTypeCorrect`, `TripCorrect`,
  `ProbeCorrect` and `Isolation`. `OpenIffTripped` alone is not inductive: a
  half-open circuit must keep the count that opened it (`TripInv`). For
  `Isolation`, the time since the last failure comes on top of the timeouts
  earlier probes have paid for (`IsolationInv`). Of the checker
  `CheckerTypeCorrect`, `VerdictsCorrect` and `UncheckedReady`, from
  `CheckerInv`: while a ping is out its place is within the list, what is
  about to be recorded is something the ping saw, the gauge equals the map, and
  the entries nobody checks are still as they were at the start. That `/ready`
  can never fail again once a stdio backend is connected is the part of
  `ReadinessTracks` that needs no fairness.
* `RateLimiter_proofs`: `RetryAfterCorrect`, `LimiterTypeCorrect`,
  `BudgetCorrect` and `BurstCorrect`. `WaitInv` says that the promised wait
  covers what is left of the window whenever the bucket is empty; the rounding
  lemma `CeilCovers` carries the refusal step. A reload empties the map, so a
  promise can only improve. For `BurstBound`, `SpendInv` bounds the admissions
  of the last n ticks for every n up to the window, by what the bucket has
  spent when they all fall into its window, and by one rate more when they
  reach back before its start; a bucket lost to a reload is paid for by the
  reload.
* `Gateway_proofs`: `GatewayTypeCorrect`, `GovernanceCorrect`,
  `ProbesCorrect`, `IdsCorrect` and `IdsGrowCorrect`, from one inductive
  invariant `IInv`: types, `DispatchInv` (what each check has established when the next one runs),
  `IdsBalanced` and `ProbesInv`. Types alone are not inductive, because the
  limiter's table is keyed by a tool only once the call is known to name one.
  `IdsGrowCorrect` is what `StdioBackend` assumes of its caller
  (`RequestIds`). `CircuitsCorrect` shows that every step of the gateway is, for
  each backend, a step of `CircuitBreaker` with that backend's threshold and
  timeout or leaves its circuit alone; `CircuitImplemented` states it as
  `Spec => Circuit(b)!Spec`, so `TripCorrect` and `ProbeCorrect` hold of each
  breaker of the gateway. Only a call in flight may tell a breaker an outcome,
  which is why it needs `IInv`. `LimiterCorrect` adds `BucketsMeter` and
  `BucketsCounted`: the call at the gate has not been given its bucket yet,
  every other line received has had its chance.
* `Shutdown_proofs`: `AuditCorrect`, `SessionCorrect`, `ShutdownServes` and
  `DrainCorrect`. Lines carry serial numbers, and `AInv` adds to `IInv` that
  replies and log entries are about lines already taken, that nothing is
  logged about a line before its outcome is known, that a reply about to be
  sent is logged or will be with the status that goes with it, and that an
  entry is in one place only. Every step of the gateway is a step of
  `McpSession` or a stutter. The end of `main` is to the
  gateway at most a cancellation (`ShutdownServes`), so all of this holds there
  too; `DrainInv` is the order in which the tasks end.
* `StdioBackend_proofs`: `StdioTypeCorrect`, `OwnAnswerProved`,
  `PendingProved` and `PromptProved`, from `BInv`. That an answer with a
  pending id is the right one has two reasons, and both are in the invariant:
  after the handshake ids only grow (`Traffic`), and the ids 1 and 2, which the
  handshake and the loop both use, are free again because each handshake
  request is in one place at most and was answered before the loop began
  (`Handshakes`). The second reason fails for `initialize` when a request of
  the child's own was taken for its answer: the real one is then still to come,
  and may be taken for the answer to the loop's call with id 1. `Fits` says what
  a waiting request may be given, that exception included. Of the child the
  proof assumes that it answers a request only after reading it and at most
  once; what it asks of its own accord, when and under which id, is free.
* `Supervisor_proofs`: `TypeCorrect`, `AllSignalledProved`, `OneLifeProved`,
  `AttemptsProved`, `HandleProved` and `NoOrphansProved`, from `SInv`: with a
  process in hand all earlier ones have been signalled, and `restart_count`
  keeps up with the attempts. `HandleProved` needs where a report can be
  (`Handles`): in the channel while the receiver is there, registered, or lost
  with the receiver. It also says that after the drop no restarted process is
  kept.
* `HttpBackend_proofs`: `HttpTypeCorrect`, `RepeatsProved`,
  `InitializeProved`, `SendBoundProved`, and `RemoteProved`, the refinement of
  `RemoteCall`: every step of a send maps to a step of the abstract call or to
  a stutter. `HInv` says where POSTs can be and that every earlier attempt of
  the current send failed transiently; `TimeInv` bounds the time spent at each
  place of an attempt by the timeouts and backoffs before it.
* `Startup_proofs`: `StartupTypeCorrect`, `RoutesCorrect`, `FirstCorrect` and
  `MapsCorrect`, from `SInv`: HTTP backends come before stdio backends, each in
  the order of the file; a connection belongs to a discovered entry; what is
  listed was offered by the entry it names; and what was offered so far is still
  listed, unless a prefixed name of the same spelling has replaced it. What one `register_backend` does to the catalog is shown round by round
  of its loop (`RegisterEffect`).

Two of these need an induction over data: the rounds of `register_backend` and
the powers of two of the backoff. The library's induction rules cannot be used
with the installed provers, so both go through the least element of a set of
counterexamples (`Least`, `Induction`).

`MapsAgree` is what the other modules assume of the maps they are given:
validators for listed tools only, a breaker for every connection
(`CatalogAssumption`, `BreakerAssumption`).

The type invariants are theorems; no run repeats them.

Only model-checked: liveness, since the prover does not do fairness
(`AutoReenabled`, `SendReturns` of both backends, `ShutdownCompletes`,
`HealthTracks`, the eventual half of `ReadinessTracks`, `LinesServed`,
`ReloadInstalled`, `MainReturns`, `ExitsOnEof`). Every other property of a
passing run is a theorem.

## Where code and documentation differ without a run

* The limiter's windows are fixed, not sliding as `README.md` and
  `docs/OPENCLAW.md` say; `BurstBound` is what holds, and it is reached.
* A tools report that comes after the 30 s, or a second one after the first was
  received, is accepted until the receiver goes out of scope, and is lost. The
  supervisor then keeps a process the gateway has no handle on, although
  `main.rs` logs that it "will keep retrying in background". `HandleCurrent`
  names this exception, and shows that it is the only one.
* `stdio_writer` is not awaited: `main` can return, and the process end, with
  answers still queued, although its comment says it "Exits when the sender is
  dropped or on write error".
* A prefixed name replaces a tool that is registered under that very name, and
  it is then listed nowhere, although `all_tools` "Returns all tool definitions
  from all backends"; `FirstKeepsName` exempts it.
* A second `initialize` moves an operational session back to initializing.
* Audit entries are dropped when the channel is full or an insert fails;
  `AuditFaithful` and `AuditDrained` count these as lost.
* stdio backends are never health-checked: with one connected `/ready` is
  always 200 (`ReadinessTracks`). The check interval is fixed in `main`.
* The fields `restart_on_exit` and `health_interval_secs` are never read.
* After a signal alone the process stays until stdin yields a line or ends.

## Not modelled

* Payloads, JSON Schema, JWT signatures and claims, event-stream text: only
  their outcomes matter to the control, and they are libraries' work.
* Log messages, request metrics, `/health` and `/metrics`: nothing reads them
  back, or there is no state.
* `load_config`, `validate` and `config/secrets.rs`, which the program does
  not call; the command line and the crate roots.
* The health server's own shutdown, which `main` does not wait for, and the
  lengths of the supervisor's backoffs.
* Wrap-around of the `u64` ids and the `u32` failure count, and the
  saturation of the retry backoff after 58 attempts, which no run of the
  process reaches.
