---------------------------- MODULE RateLimiter ----------------------------
(***************************************************************************)
(* RateLimiter (src/ratelimit.rs) over time: one bucket per (client, tool) *)
(* pair, created at the pair's first check and never evicted.  A reload    *)
(* (src/config/hot.rs) puts a new limiter in the place of the old one, here *)
(* with the same rates: the file may have been touched for the kill switch.*)
(***************************************************************************)
EXTENDS RateLimiterOps, HashMaps

CONSTANTS
  Clients, Tools,
  PerTool,      \* per_tool: tool -> rpm, for some of the tools
  DefaultRpm,   \* default_rpm
  Second,       \* ticks in a second
  WindowSecs,   \* the 60 s of the code
  MaxReloads    \* bound on the reloads in a window

ASSUME RpmAssumption ==
  /\ DefaultRpm \in Nat
  /\ DOMAIN PerTool \subseteq Tools
  /\ \A t \in DOMAIN PerTool : PerTool[t] \in Nat
ASSUME ReloadsAssumption == MaxReloads \in Nat
ASSUME TimeAssumption == Second \in Nat \ {0} /\ WindowSecs \in Nat \ {0}

Window == WindowSecs * Second

Keys == Clients \X Tools

Rpm(key) == IF key[2] \in DOMAIN PerTool THEN PerTool[key[2]] ELSE DefaultRpm

VARIABLES
  buckets,   \* the limiter's map
  wait,      \* history: ticks left of the last retryAfter given to a key
  recent,    \* history: recent[key][n], the admissions of a key in the last n ticks
  resets     \* history: resets[n], the reloads in the last n ticks

vars == <<buckets, wait, recent, resets>>

\* No refusal is outstanding.
NoWait == -1

TypeOK ==
  /\ IsMap(buckets, Keys, Bucket(Window))
  /\ wait \in [Keys -> {NoWait} \cup Nat]
  /\ recent \in [Keys -> [0..Window -> Nat]]
  /\ resets \in [0..Window -> Nat]

Init ==
  /\ buckets = EmptyMap
  /\ wait = [k \in Keys |-> NoWait]
  /\ recent = [k \in Keys |-> [n \in 0..Window |-> 0]]
  /\ resets = [n \in 0..Window |-> 0]

\* Faulty variant of Entry: per_tool is not consulted.
EntryDefault(map, key) ==
  IF key \in DOMAIN map THEN map[key] ELSE NewBucket(DefaultRpm)

\* buckets.entry(key).or_insert_with(|| TokenBucket::new(rpm))
Entry(map, key) == IF key \in DOMAIN map THEN map[key] ELSE NewBucket(Rpm(key))

\* Faulty variant of RetryAfter: whole seconds by truncation.
RetryAfterFloor(ticks) == ticks \div Second

\* retry_after.ceil() as u64: the whole seconds the client is told to wait.
RetryAfter(ticks) == (ticks + Second - 1) \div Second

\* A history when one more event has happened, and when a tick has passed.
Counted(history) == [n \in 0..Window |-> IF n = 0 THEN 0 ELSE history[n] + 1]
Older(history) == [n \in 0..Window |-> IF n = 0 THEN 0 ELSE history[n - 1]]

\* check() returns Ok.
CheckOk(key) ==
  LET b == Entry(buckets, key)
  IN  /\ Grants(b, Window)
      /\ buckets' = Insert(buckets, key, TryConsume(b, Window))
      /\ wait' = [wait EXCEPT ![key] = NoWait]
      /\ recent' = [recent EXCEPT ![key] = Counted(recent[key])]
      /\ UNCHANGED resets

\* check() returns Err(retry), reported to the client as retryAfter.
CheckErr(key) ==
  LET b == Entry(buckets, key)
  IN  /\ ~Grants(b, Window)
      /\ buckets' = Insert(buckets, key, TryConsume(b, Window))
      /\ wait' = [wait EXCEPT ![key] =
                    RetryAfter(Retry(b, Window, Second)) * Second]
      /\ UNCHANGED <<recent, resets>>

\* reload_hot_config: a new limiter, without buckets.
Reload ==
  /\ resets[Window] < MaxReloads
  /\ buckets' = EmptyMap
  /\ resets' = Counted(resets)
  /\ UNCHANGED <<wait, recent>>

Tick ==
  /\ buckets' = [k \in DOMAIN buckets |-> BucketTick(buckets[k], Window)]
  /\ wait' = [k \in Keys |-> IF wait[k] > 0 THEN wait[k] - 1 ELSE wait[k]]
  /\ recent' = [k \in Keys |-> Older(recent[k])] /\ resets' = Older(resets)

Next == (\E key \in Keys : CheckOk(key) \/ CheckErr(key)) \/ Reload \/ Tick

Spec == Init /\ [][Next]_vars
-----------------------------------------------------------------------------
(* The windows are fixed, not sliding: one starts at the first check after
   the last has run out.  What that guarantees is less than twice the
   configured rate in any 60 s: a window's first admission is never within
   60 s of the next window.  Each reload in those 60 s forgets what was used
   and can add a whole rate more, and no more than that. *)
BurstBound ==
  \A k \in Keys :
    recent[k][Window] <=
      IF Rpm(k) = 0 THEN 0 ELSE (2 + resets[Window]) * Rpm(k) - 1

(* Inside one window the budget is exact: what was admitted since the last
   refill and what is left add up to the configured rate, unless a reload has
   given some of it back. *)
WindowBudget ==
  \A k \in DOMAIN buckets :
    LET b == buckets[k]
    IN  /\ b.max_tokens = Rpm(k)
        /\ b.age < Window /\ resets[b.age + 1] = 0 =>
             recent[k][b.age + 1] + b.tokens = b.max_tokens

(* A client that waits the whole seconds it was told to (retryAfter) is not
   refused again, however its refusals and other clients' calls interleave.
   A tool with a rate of 0 is never granted, whatever it was told. *)
RetryAfterHonoured ==
  \A k \in Keys :
    wait[k] = 0 /\ Rpm(k) > 0 => Grants(Entry(buckets, k), Window)
=============================================================================
