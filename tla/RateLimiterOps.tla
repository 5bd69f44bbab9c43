--------------------------- MODULE RateLimiterOps ---------------------------
(***************************************************************************)
(* TokenBucket (src/ratelimit.rs) as operators on a bucket record.         *)
(*                                                                         *)
(* last_refill is kept as the time elapsed since it, in ticks.  The code   *)
(* compares the elapsed time with the 60 s window only, and clamps the     *)
(* difference at one second, so ages past the window are not told apart:   *)
(* an age saturates at the window.                                         *)
(***************************************************************************)
EXTENDS Integers

Bucket(window) == [tokens : Nat, max_tokens : Nat, age : 0..window]

NewBucket(rpm) == [tokens |-> rpm, max_tokens |-> rpm, age |-> 0]

\* One tick passes for a bucket.
BucketTick(b, window) ==
  [b EXCEPT !.age = IF b.age < window THEN b.age + 1 ELSE b.age]

\* Faulty variant of Refill: adds a window's worth instead of topping up.
RefillAccumulates(b, window) ==
  IF b.age >= window
    THEN [b EXCEPT !.tokens = b.tokens + b.max_tokens, !.age = 0]
    ELSE b

\* The first half of try_consume: a full window has elapsed, top up.
Refill(b, window) ==
  IF b.age >= window
    THEN [b EXCEPT !.tokens = b.max_tokens, !.age = 0]
    ELSE b

\* try_consume returns Ok.
Grants(b, window) == Refill(b, window).tokens > 0

\* The bucket try_consume leaves behind.
TryConsume(b, window) ==
  LET r == Refill(b, window)
  IN  IF r.tokens > 0 THEN [r EXCEPT !.tokens = r.tokens - 1] ELSE r

\* The Err of try_consume: ticks until the window ends, at least a second.
\* It is computed from the time elapsed BEFORE the refill.
Retry(b, window, second) ==
  IF window - b.age > second THEN window - b.age ELSE second
=============================================================================
