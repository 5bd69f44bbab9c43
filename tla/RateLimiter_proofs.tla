------------------------- MODULE RateLimiter_proofs -------------------------
(***************************************************************************)
(* Proofs about the rate limiter, for every set of clients and tools, every*)
(* rate, window and clock resolution.                                      *)
(***************************************************************************)
EXTENDS RateLimiter, TLAPS

\* The fields of a bucket have their types.
LEMMA BucketFields ==
  ASSUME NEW window \in Nat, NEW b \in Bucket(window)
  PROVE  b.tokens \in Nat /\ b.max_tokens \in Nat /\ b.age \in 0..window /\ b.age \in Nat
BY DEF Bucket

\* A new bucket is a bucket.
LEMMA NewBucketTyped ==
  ASSUME NEW window \in Nat, NEW rpm \in Nat
  PROVE  /\ NewBucket(rpm) \in Bucket(window)
         /\ NewBucket(rpm).max_tokens = rpm
BY DEF NewBucket, Bucket

\* A bucket stays one as time passes.
LEMMA BucketTickTyped ==
  ASSUME NEW window \in Nat, NEW b \in Bucket(window)
  PROVE  /\ BucketTick(b, window) \in Bucket(window)
         /\ BucketTick(b, window).tokens = b.tokens
         /\ BucketTick(b, window).max_tokens = b.max_tokens
         /\ BucketTick(b, window).age >= b.age
         /\ BucketTick(b, window).age < window => BucketTick(b, window).age = b.age + 1
<1>1. b.age \in 0..window /\ window \in Nat
  BY BucketFields
<1>2. (IF b.age < window THEN b.age + 1 ELSE b.age) \in 0..window
  BY <1>1
<1>3. /\ BucketTick(b, window) \in Bucket(window)
      /\ BucketTick(b, window).tokens = b.tokens
      /\ BucketTick(b, window).max_tokens = b.max_tokens
      /\ BucketTick(b, window).age = IF b.age < window THEN b.age + 1 ELSE b.age
  BY <1>2 DEF BucketTick, Bucket
<1>4. QED
  BY <1>1, <1>3

\* What the refill at the head of try_consume yields.
LEMMA RefillTyped ==
  ASSUME NEW window \in Nat, NEW b \in Bucket(window)
  PROVE  /\ Refill(b, window) \in Bucket(window)
         /\ Refill(b, window).max_tokens = b.max_tokens
         /\ b.age >= window => Refill(b, window).tokens = b.max_tokens
         /\ b.age < window => Refill(b, window) = b
<1>1. b.age \in Nat /\ window \in Nat /\ 0 \in 0..window
  BY BucketFields
<1>2. CASE b.age >= window
  <2>1. [b EXCEPT !.tokens = b.max_tokens, !.age = 0] \in Bucket(window)
    BY <1>1, BucketFields DEF Bucket
  <2>2. /\ [b EXCEPT !.tokens = b.max_tokens, !.age = 0].tokens = b.max_tokens
        /\ [b EXCEPT !.tokens = b.max_tokens, !.age = 0].max_tokens = b.max_tokens
    BY DEF Bucket
  <2>3. QED
    BY <1>1, <1>2, <2>1, <2>2 DEF Refill
<1>3. CASE b.age < window
  BY <1>1, <1>3 DEF Refill
<1>4. QED
  BY <1>1, <1>2, <1>3

\* try_consume leaves a bucket with the same rate; a refusal leaves it as it was.
LEMMA TryConsumeTyped ==
  ASSUME NEW window \in Nat, NEW b \in Bucket(window)
  PROVE  /\ TryConsume(b, window) \in Bucket(window)
         /\ TryConsume(b, window).max_tokens = b.max_tokens
         /\ ~Grants(b, window) /\ b.max_tokens > 0 =>
              TryConsume(b, window) = b /\ b.tokens = 0
<1>. DEFINE r == Refill(b, window)
<1>1. /\ r \in Bucket(window) /\ r.tokens \in Nat /\ r.max_tokens = b.max_tokens
      /\ b.age \in Nat /\ window \in Nat
  BY RefillTyped, BucketFields
<1>2. CASE r.tokens > 0
  <2>1. r.tokens - 1 \in Nat
    BY <1>1, <1>2
  <2>2. [r EXCEPT !.tokens = r.tokens - 1] \in Bucket(window)
        /\ [r EXCEPT !.tokens = r.tokens - 1].max_tokens = r.max_tokens
    BY <1>1, <2>1 DEF Bucket
  <2>3. QED
    BY <1>1, <1>2, <2>2 DEF TryConsume, Grants
<1>3. CASE ~(r.tokens > 0)
  <2>1. TryConsume(b, window) = r
    BY <1>3 DEF TryConsume
  <2>2. b.max_tokens > 0 => b.age < window
    BY <1>1, <1>3, RefillTyped
  <2>3. QED
    BY <1>1, <1>3, <2>1, <2>2, RefillTyped
<1>4. QED
  BY <1>2, <1>3
-----------------------------------------------------------------------------
\* Rounding up to whole seconds never shortens a wait.
LEMMA CeilCovers ==
  ASSUME NEW ticks \in Nat
  PROVE  RetryAfter(ticks) * Second \in Nat /\ RetryAfter(ticks) * Second >= ticks
<1>1. Second \in Nat \ {0}
  BY TimeAssumption
<1>2. \A x, s \in Nat : s # 0 => /\ ((x + s - 1) \div s) * s >= x
                                 /\ ((x + s - 1) \div s) * s \in Nat
  OBVIOUS
<1>3. QED
  BY <1>1, <1>2 DEF RetryAfter

\* The window is a number of ticks.
LEMMA WindowType == Window \in Nat
BY TimeAssumption DEF Window

\* It is not empty.
LEMMA WindowPositive == Window > 0
BY TimeAssumption DEF Window

\* Every pair has a rate.
LEMMA RpmType == ASSUME NEW k \in Keys PROVE Rpm(k) \in Nat
BY RpmAssumption DEF Rpm, Keys

-----------------------------------------------------------------------------
(* The inductive invariant behind retryAfter: a key that has been refused
   has an empty bucket, and the time it still has to wait reaches to the end
   of the bucket's window, where the next check refills it; or a reload has
   taken the bucket away, and the next check makes a full one. *)
WaitInv ==
  /\ IsMap(buckets, Keys, Bucket(Window))
  /\ wait \in [Keys -> {NoWait} \cup Nat]
  /\ \A k \in DOMAIN buckets : buckets[k].max_tokens = Rpm(k)
  /\ \A k \in Keys :
       wait[k] # NoWait /\ Rpm(k) > 0 /\ k \in DOMAIN buckets =>
         /\ buckets[k].tokens = 0
         /\ wait[k] >= Window - buckets[k].age

\* entry().or_insert_with() yields a bucket.
LEMMA EntryTyped ==
  ASSUME WaitInv, NEW k \in Keys
  PROVE  Entry(buckets, k) \in Bucket(Window) /\ Entry(buckets, k).max_tokens = Rpm(k)
BY WindowType, NewBucketTyped, RpmType DEF WaitInv, IsMap, Entry

\* WaitInv is strong enough.
LEMMA WaitInvImplies == WaitInv => RetryAfterHonoured
<1>. SUFFICES ASSUME WaitInv, NEW k \in Keys, wait[k] = 0, Rpm(k) > 0
              PROVE  Grants(Entry(buckets, k), Window)
  BY DEF RetryAfterHonoured
<1>1. CASE k \in DOMAIN buckets
  <2>1. Entry(buckets, k) = buckets[k] /\ 0 >= Window - buckets[k].age
    BY <1>1 DEF WaitInv, NoWait, Entry
  <2>2. buckets[k] \in Bucket(Window) /\ buckets[k].max_tokens = Rpm(k)
    BY <2>1, EntryTyped
  <2>3. buckets[k].age >= Window
    BY <2>1, <2>2, BucketFields, WindowType
  <2>4. Refill(buckets[k], Window).tokens = Rpm(k)
    BY WindowType, <2>2, <2>3, RefillTyped
  <2>5. QED
    BY <2>1, <2>4 DEF Grants
<1>2. CASE k \notin DOMAIN buckets
  <2>1. Entry(buckets, k) = NewBucket(Rpm(k))
    BY <1>2 DEF Entry
  <2>2. NewBucket(Rpm(k)).tokens = Rpm(k) /\ NewBucket(Rpm(k)).age = 0
    BY DEF NewBucket
  <2>3. Window > 0
    BY TimeAssumption DEF Window
  <2>4. Refill(NewBucket(Rpm(k)), Window) = NewBucket(Rpm(k))
    BY <2>2, <2>3, WindowType DEF Refill
  <2>5. QED
    BY <2>1, <2>2, <2>4 DEF Grants
<1>3. QED
  BY <1>1, <1>2

\* A new limiter satisfies WaitInv.
LEMMA WaitInvInit == Init => WaitInv
BY DEF Init, WaitInv, IsMap, EmptyMap

\* check(), whatever it returns, puts a bucket of the right rate in the map.
LEMMA InsertKeepsBuckets ==
  ASSUME WaitInv, NEW key \in Keys, NEW b \in Bucket(Window), b.max_tokens = Rpm(key),
         buckets' = Insert(buckets, key, b)
  PROVE  /\ IsMap(buckets', Keys, Bucket(Window))
         /\ \A k \in DOMAIN buckets' : buckets'[k].max_tokens = Rpm(k)
         /\ DOMAIN buckets' = DOMAIN buckets \cup {key}
         /\ buckets'[key] = b
         /\ \A k \in DOMAIN buckets : k # key => buckets'[k] = buckets[k]
BY DEF WaitInv, IsMap, Insert

\* A granted check keeps WaitInv.
LEMMA WaitInvCheckOk ==
  ASSUME WaitInv, NEW key \in Keys, CheckOk(key)
  PROVE  WaitInv'
<1>. DEFINE e == Entry(buckets, key)
            b == TryConsume(e, Window)
<1>1. b \in Bucket(Window) /\ b.max_tokens = Rpm(key)
  BY WindowType, EntryTyped, TryConsumeTyped
<1>2. buckets' = Insert(buckets, key, b) /\ wait' = [wait EXCEPT ![key] = NoWait]
  BY DEF CheckOk
<1>. HIDE DEF b
<1>3. /\ IsMap(buckets', Keys, Bucket(Window))
      /\ \A k \in DOMAIN buckets' : buckets'[k].max_tokens = Rpm(k)
      /\ DOMAIN buckets' = DOMAIN buckets \cup {key}
      /\ \A k \in DOMAIN buckets : k # key => buckets'[k] = buckets[k]
  BY <1>1, <1>2, InsertKeepsBuckets
<1>4. QED
  BY <1>2, <1>3 DEF WaitInv

\* A refused check keeps WaitInv: what it promises covers the rest of the window.
LEMMA WaitInvCheckErr ==
  ASSUME WaitInv, NEW key \in Keys, CheckErr(key)
  PROVE  WaitInv'
<1>. DEFINE e == Entry(buckets, key)
            b == TryConsume(e, Window)
            ticks == Retry(e, Window, Second)
            w == RetryAfter(ticks) * Second
<1>1. e \in Bucket(Window) /\ e.max_tokens = Rpm(key) /\ e.age \in 0..Window
  BY WindowType, EntryTyped, BucketFields
<1>2. b \in Bucket(Window) /\ b.max_tokens = Rpm(key)
  BY WindowType, <1>1, TryConsumeTyped
<1>3. Rpm(key) > 0 => b = e /\ b.tokens = 0
  BY WindowType, <1>1, TryConsumeTyped DEF CheckErr
<1>4. ticks \in Nat /\ ticks >= Window - e.age
  BY <1>1, WindowType, TimeAssumption DEF Retry
<1>5. w \in Nat /\ w >= Window - e.age
  BY <1>1, <1>4, CeilCovers, WindowType
<1>6. buckets' = Insert(buckets, key, b) /\ wait' = [wait EXCEPT ![key] = w]
  BY DEF CheckErr
<1>. HIDE DEF e, b, w
<1>7. /\ IsMap(buckets', Keys, Bucket(Window))
      /\ \A k \in DOMAIN buckets' : buckets'[k].max_tokens = Rpm(k)
      /\ DOMAIN buckets' = DOMAIN buckets \cup {key}
      /\ buckets'[key] = b
      /\ \A k \in DOMAIN buckets : k # key => buckets'[k] = buckets[k]
  BY <1>2, <1>6, InsertKeepsBuckets
<1>8. QED
  BY <1>3, <1>5, <1>6, <1>7 DEF WaitInv

\* A tick takes as much from the promise as from the window.
LEMMA WaitInvTick ==
  ASSUME WaitInv, Tick
  PROVE  WaitInv'
<1>1. /\ DOMAIN buckets' = DOMAIN buckets
      /\ \A k \in DOMAIN buckets : buckets'[k] = BucketTick(buckets[k], Window)
      /\ \A k \in DOMAIN buckets : buckets[k] \in Bucket(Window)
      /\ DOMAIN buckets \subseteq Keys
      /\ buckets' = [k \in DOMAIN buckets |-> buckets'[k]]
  BY DEF WaitInv, IsMap, Tick
<1>2. /\ IsMap(buckets', Keys, Bucket(Window))
      /\ \A k \in DOMAIN buckets' : buckets'[k].max_tokens = Rpm(k)
  BY WindowType, <1>1, BucketTickTyped DEF WaitInv, IsMap
<1>3. wait' \in [Keys -> {NoWait} \cup Nat]
  BY DEF WaitInv, Tick, NoWait
<1>4. ASSUME NEW k \in Keys, wait'[k] # NoWait, Rpm(k) > 0, k \in DOMAIN buckets'
      PROVE  /\ buckets'[k].tokens = 0
             /\ wait'[k] >= Window - buckets'[k].age
  <2>1. /\ wait[k] # NoWait /\ wait[k] \in Nat
        /\ wait'[k] = IF wait[k] > 0 THEN wait[k] - 1 ELSE wait[k]
    BY <1>4 DEF WaitInv, Tick, NoWait
  <2>2. /\ k \in DOMAIN buckets
        /\ buckets[k].tokens = 0
        /\ wait[k] >= Window - buckets[k].age
    BY <1>1, <1>4, <2>1 DEF WaitInv
  <2>3. /\ buckets'[k].tokens = 0
        /\ buckets'[k].age \in 0..Window
        /\ buckets[k].age \in 0..Window
        /\ buckets'[k].age >= buckets[k].age
        /\ buckets'[k].age < Window => buckets'[k].age = buckets[k].age + 1
    BY WindowType, <1>1, <2>2, BucketTickTyped, BucketFields
  <2>4. QED
    BY <1>1, <2>1, <2>2, <2>3, WindowType
<1>5. QED
  BY <1>2, <1>3, <1>4 DEF WaitInv

\* A reload leaves no bucket for a promise to be held against.
LEMMA WaitInvReload ==
  ASSUME WaitInv, Reload
  PROVE  WaitInv'
BY DEF WaitInv, Reload, IsMap, EmptyMap

\* Every step keeps WaitInv.
LEMMA WaitInvNext == WaitInv /\ [Next]_vars => WaitInv'
<1>. SUFFICES ASSUME WaitInv, [Next]_vars
              PROVE  WaitInv'
  OBVIOUS
<1>1. CASE \E key \in Keys : CheckOk(key) \/ CheckErr(key)
  BY <1>1, WaitInvCheckOk, WaitInvCheckErr
<1>2. CASE Tick
  BY <1>2, WaitInvTick
<1>3. CASE Reload
  BY <1>3, WaitInvReload
<1>4. CASE UNCHANGED vars
  BY <1>4 DEF vars, WaitInv, IsMap
<1>5. QED
  BY <1>1, <1>2, <1>3, <1>4 DEF Next

\* A client that waits as long as its retryAfter said is not refused again
\* (TokenBucket::try_consume, retry_after.ceil() in run_dispatch).
THEOREM RetryAfterCorrect == Spec => []RetryAfterHonoured
BY WaitInvInit, WaitInvNext, WaitInvImplies, PTL DEF Spec
-----------------------------------------------------------------------------
(* The histories and what they bound. *)

History == [0..Window -> Nat]

\* Counting an event and letting a tick pass keep a history one.
LEMMA HistoryTyped ==
  ASSUME NEW h \in History
  PROVE  /\ Counted(h) \in History /\ Older(h) \in History
         /\ Counted(h)[0] = 0 /\ Older(h)[0] = 0
         /\ \A n \in 1..Window : Counted(h)[n] = h[n] + 1 /\ Older(h)[n] = h[n - 1]
<1>1. ASSUME NEW n \in 0..Window
      PROVE  /\ (IF n = 0 THEN 0 ELSE h[n] + 1) \in Nat
             /\ (IF n = 0 THEN 0 ELSE h[n - 1]) \in Nat
  BY WindowType DEF History
<1>2. QED
  BY <1>1, WindowType DEF History, Counted, Older

(* What is known of a pair with rate r > 0, its admissions h and the reloads
   z.  Without a bucket: nothing was admitted since the last reload, and what
   was admitted before it is what the reloads bound. *)
Idle(h, z, r) ==
  /\ h[0] = 0 /\ z[0] = 0
  /\ \A n \in 0..Window :
       /\ h[n] <= (z[n] + 1) * r - 1
       /\ z[n] = 0 => h[n] = 0

(* With a bucket b: the first admission of its window is b.age old, so the
   last b.age ticks have seen one less than what is gone from the bucket; and
   what came before the window is what the reloads bound, as without one. *)
Active(h, z, r, b) ==
  /\ h[0] = 0 /\ z[0] = 0
  /\ b.tokens < r
  /\ \A n \in 0..Window : h[n] <= (r - b.tokens) + (z[n] + 1) * r - 1
  /\ \A n \in 0..b.age : h[n] <= (r - b.tokens) - 1
  /\ b.age = Window => h[1] = 0
  /\ b.age < Window /\ z[b.age + 1] = 0 => h[b.age + 1] + b.tokens = r

\* The bound grows by one rate with each reload.
LEMMA OneRateMore ==
  ASSUME NEW z \in Nat, NEW r \in Nat
  PROVE  (z + 1) * r \in Nat /\ (z + 1) * r >= r /\ (z + 1 + 1) * r = (z + 1) * r + r
OBVIOUS

\* A pair without a bucket, as time passes and as the limiter is replaced.
LEMMA IdleKept ==
  ASSUME NEW h \in History, NEW z \in History, NEW r \in Nat \ {0}, Idle(h, z, r)
  PROVE  Idle(Older(h), Older(z), r) /\ Idle(h, Counted(z), r)
<1>1. Idle(Older(h), Older(z), r)
  <2>. SUFFICES ASSUME NEW n \in 0..Window
                PROVE  /\ Older(h)[n] <= (Older(z)[n] + 1) * r - 1
                       /\ Older(z)[n] = 0 => Older(h)[n] = 0
    BY HistoryTyped DEF Idle
  <2>1. CASE n = 0
    BY <2>1, HistoryTyped, OneRateMore
  <2>2. CASE n # 0
    <3>1. n \in 1..Window /\ n - 1 \in 0..Window
      BY <2>2, WindowType
    <3>2. QED
      BY <3>1, HistoryTyped DEF Idle
  <2>3. QED
    BY <2>1, <2>2
<1>2. Idle(h, Counted(z), r)
  <2>. SUFFICES ASSUME NEW n \in 0..Window
                PROVE  /\ h[n] <= (Counted(z)[n] + 1) * r - 1
                       /\ Counted(z)[n] = 0 => h[n] = 0
    BY HistoryTyped DEF Idle
  <2>0. h[n] \in Nat /\ z[n] \in Nat /\ h[n] <= (z[n] + 1) * r - 1
    BY DEF Idle, History
  <2>1. CASE n = 0
    BY <2>0, <2>1, HistoryTyped DEF Idle
  <2>2. CASE n # 0
    <3>1. Counted(z)[n] = z[n] + 1
      BY <2>2, WindowType, HistoryTyped
    <3>2. (z[n] + 1) * r \in Nat /\ (z[n] + 1 + 1) * r = (z[n] + 1) * r + r
      BY <2>0, OneRateMore
    <3>3. QED
      BY <2>0, <3>1, <3>2
  <2>3. QED
    BY <2>1, <2>2
<1>3. QED
  BY <1>1, <1>2

\* A reload takes the bucket of a pair away and leaves it the bound.
LEMMA ActiveReload ==
  ASSUME NEW h \in History, NEW z \in History, NEW r \in Nat \ {0},
         NEW b \in Bucket(Window), Active(h, z, r, b)
  PROVE  Idle(h, Counted(z), r)
<1>. SUFFICES ASSUME NEW n \in 0..Window
              PROVE  /\ h[n] <= (Counted(z)[n] + 1) * r - 1
                     /\ Counted(z)[n] = 0 => h[n] = 0
  BY HistoryTyped DEF Active, Idle
<1>0. /\ h[n] \in Nat /\ z[n] \in Nat /\ b.tokens \in Nat
      /\ h[n] <= (r - b.tokens) + (z[n] + 1) * r - 1
  BY BucketFields, WindowType DEF Active, History
<1>1. CASE n = 0
  BY <1>0, <1>1, HistoryTyped DEF Active
<1>2. CASE n # 0
  <2>1. Counted(z)[n] = z[n] + 1
    BY <1>2, WindowType, HistoryTyped
  <2>2. (z[n] + 1) * r \in Nat /\ (z[n] + 1 + 1) * r = (z[n] + 1) * r + r
    BY <1>0, OneRateMore
  <2>3. QED
    BY <1>0, <2>1, <2>2
<1>3. QED
  BY <1>1, <1>2

\* A tick ages a bucket and the histories alike.
LEMMA ActiveTick ==
  ASSUME NEW h \in History, NEW z \in History, NEW r \in Nat \ {0},
         NEW b \in Bucket(Window), Active(h, z, r, b)
  PROVE  Active(Older(h), Older(z), r, BucketTick(b, Window))
<1>. DEFINE c == BucketTick(b, Window)
<1>1. /\ c.tokens = b.tokens /\ b.tokens \in Nat
      /\ b.age \in 0..Window /\ c.age \in 0..Window /\ c.age <= b.age + 1
      /\ c.age < Window => c.age = b.age + 1
  BY WindowType, BucketFields, BucketTickTyped DEF BucketTick, Bucket
<1>. HIDE DEF c
<1>2. /\ Older(h) \in History /\ Older(z) \in History
      /\ Older(h)[0] = 0 /\ Older(z)[0] = 0
      /\ \A n \in 1..Window : Older(h)[n] = h[n - 1] /\ Older(z)[n] = z[n - 1]
  BY HistoryTyped
<1>3. ASSUME NEW n \in 0..Window
      PROVE  Older(h)[n] <= (r - c.tokens) + (Older(z)[n] + 1) * r - 1
  <2>1. CASE n = 0
    <3>1. Older(h)[n] = 0 /\ Older(z)[n] = 0 /\ b.tokens < r
      BY <1>2, <2>1 DEF Active
    <3>2. (0 + 1) * r = r
      OBVIOUS
    <3>3. QED
      BY <1>1, <3>1, <3>2
  <2>2. CASE n # 0
    <3>1. n \in 1..Window /\ n - 1 \in 0..Window
      BY <2>2, WindowType
    <3>2. h[n - 1] <= (r - b.tokens) + (z[n - 1] + 1) * r - 1
      BY <3>1 DEF Active
    <3>3. QED
      BY <1>1, <1>2, <3>1, <3>2
  <2>3. QED
    BY <2>1, <2>2
<1>4. ASSUME NEW n \in 0..c.age
      PROVE  Older(h)[n] <= (r - c.tokens) - 1
  <2>1. CASE n = 0
    BY <1>1, <1>2, <2>1 DEF Active
  <2>2. CASE n # 0
    <3>1. n \in 1..Window /\ n - 1 \in 0..b.age
      BY <1>1, <2>2, WindowType
    <3>2. h[n - 1] <= (r - b.tokens) - 1
      BY <3>1 DEF Active
    <3>3. QED
      BY <1>1, <1>2, <3>1, <3>2
  <2>3. QED
    BY <2>1, <2>2
<1>5. Older(h)[1] = 0
  <2>1. 1 \in 1..Window
    BY WindowType, WindowPositive
  <2>2. QED
    BY <1>2, <2>1 DEF Active
<1>6. ASSUME c.age < Window, Older(z)[c.age + 1] = 0
      PROVE  Older(h)[c.age + 1] + c.tokens = r
  <2>1. PICK n \in 1..Window : n = c.age + 1 /\ n - 1 = b.age + 1 /\ b.age < Window
    BY <1>1, <1>6, WindowType
  <2>2. Older(h)[n] = h[n - 1] /\ Older(z)[n] = z[n - 1]
    BY <1>2
  <2>3. QED
    BY <1>1, <1>6, <2>1, <2>2 DEF Active
<1>7. Active(Older(h), Older(z), r, c)
  BY <1>1, <1>2, <1>3, <1>4, <1>5, <1>6 DEF Active
<1>8. QED
  BY <1>7 DEF c

\* What an admission makes of the bucket it is taken from.
LEMMA Consumed ==
  ASSUME NEW b \in Bucket(Window), Grants(b, Window)
  PROVE  LET c == TryConsume(b, Window)
         IN  IF b.age < Window
               THEN b.tokens > 0 /\ c.tokens = b.tokens - 1 /\ c.age = b.age
               ELSE c.tokens = b.max_tokens - 1 /\ c.age = 0
<1>. DEFINE f == Refill(b, Window)
<1>1. /\ b.age \in 0..Window /\ f \in Bucket(Window) /\ f.tokens > 0
      /\ b.age < Window => f = b
      /\ b.age >= Window => f.tokens = b.max_tokens /\ f.age = 0
  <2>1. b.age >= Window => f.age = 0
    BY DEF Refill, Bucket
  <2>2. QED
    BY <2>1, WindowType, BucketFields, RefillTyped DEF Grants
<1>2. TryConsume(b, Window) = [f EXCEPT !.tokens = f.tokens - 1]
  BY <1>1 DEF TryConsume
<1>. HIDE DEF f
<1>3. TryConsume(b, Window).tokens = f.tokens - 1 /\ TryConsume(b, Window).age = f.age
  BY <1>1, <1>2 DEF Bucket
<1>4. QED
  BY <1>1, <1>3, WindowType

\* The first admission of a pair starts its window.
LEMMA IdleAdmits ==
  ASSUME NEW h \in History, NEW z \in History, NEW r \in Nat \ {0}, Idle(h, z, r),
         NEW c, c.tokens = r - 1, c.age = 0
  PROVE  Active(Counted(h), z, r, c)
<1>1. /\ Counted(h) \in History /\ Counted(h)[0] = 0
      /\ \A n \in 1..Window : Counted(h)[n] = h[n] + 1
  BY HistoryTyped
<1>2. ASSUME NEW n \in 0..Window
      PROVE  Counted(h)[n] <= (r - c.tokens) + (z[n] + 1) * r - 1
  <2>1. h[n] \in Nat /\ z[n] \in Nat /\ h[n] <= (z[n] + 1) * r - 1
    BY DEF Idle, History
  <2>2. Counted(h)[n] <= h[n] + 1
    BY <1>1, <2>1, WindowType
  <2>3. (z[n] + 1) * r \in Nat /\ Counted(h)[n] \in Nat
    BY <1>1, <2>1, OneRateMore DEF History
  <2>4. QED
    BY <2>1, <2>2, <2>3
<1>3. z[1] = 0 => Counted(h)[1] = 1
  BY <1>1, WindowType, WindowPositive DEF Idle
<1>4. QED
  BY <1>1, <1>2, <1>3, WindowType, WindowPositive DEF Active, Idle

\* A later admission takes a token from a running window, or starts the next.
LEMMA ActiveAdmits ==
  ASSUME NEW h \in History, NEW z \in History, NEW r \in Nat \ {0},
         NEW b \in Bucket(Window), b.max_tokens = r, Active(h, z, r, b), Grants(b, Window)
  PROVE  Active(Counted(h), z, r, TryConsume(b, Window))
<1>. DEFINE c == TryConsume(b, Window)
<1>1. /\ Counted(h) \in History /\ Counted(h)[0] = 0
      /\ \A n \in 1..Window : Counted(h)[n] = h[n] + 1
  BY HistoryTyped
<1>2. b.tokens \in Nat /\ b.age \in 0..Window
  BY WindowType, BucketFields
<1>3. CASE b.age < Window
  <2>1. b.tokens > 0 /\ c.tokens = b.tokens - 1 /\ c.age = b.age
    BY <1>3, Consumed
  <2>. HIDE DEF c
  <2>2. ASSUME NEW n \in 0..Window
        PROVE  Counted(h)[n] <= (r - c.tokens) + (z[n] + 1) * r - 1
    <3>1. /\ h[n] \in Nat /\ z[n] \in Nat
          /\ h[n] <= (r - b.tokens) + (z[n] + 1) * r - 1
      BY DEF Active, History
    <3>2. Counted(h)[n] <= h[n] + 1 /\ Counted(h)[n] \in Nat
      BY <1>1, <3>1, WindowType
    <3>3. (z[n] + 1) * r \in Nat
      BY <3>1, OneRateMore
    <3>4. QED
      BY <1>2, <2>1, <3>1, <3>2, <3>3
  <2>3. ASSUME NEW n \in 0..c.age
        PROVE  Counted(h)[n] <= (r - c.tokens) - 1
    <3>0. n \in 0..b.age /\ n \in 0..Window
      BY <1>2, <2>1, <2>3, WindowType
    <3>1. n \in 0..Window /\ h[n] \in Nat /\ h[n] <= (r - b.tokens) - 1
      BY <3>0 DEF Active, History
    <3>2. Counted(h)[n] <= h[n] + 1 /\ Counted(h)[n] \in Nat
      BY <1>1, <3>1, WindowType
    <3>3. QED
      BY <1>2, <2>1, <3>1, <3>2
  <2>4. z[c.age + 1] = 0 => Counted(h)[c.age + 1] + c.tokens = r
    <3>1. b.age + 1 \in 1..Window
      BY <1>2, <1>3, WindowType
    <3>2. h[b.age + 1] \in Nat /\ Counted(h)[b.age + 1] = h[b.age + 1] + 1
      BY <1>1, <3>1 DEF History
    <3>3. QED
      BY <1>2, <1>3, <2>1, <3>2 DEF Active
  <2>5. Active(Counted(h), z, r, c)
    BY <1>1, <1>2, <1>3, <2>1, <2>2, <2>3, <2>4, WindowType DEF Active
  <2>6. QED
    BY <2>5 DEF c
<1>4. CASE ~(b.age < Window)
  <2>1. b.age = Window /\ c.tokens = r - 1 /\ c.age = 0
    BY <1>2, <1>4, Consumed, WindowType
  <2>. HIDE DEF c
  <2>2. ASSUME NEW n \in 0..Window
        PROVE  Counted(h)[n] <= (r - c.tokens) + (z[n] + 1) * r - 1
    <3>1. h[n] \in Nat /\ z[n] \in Nat /\ h[n] <= (r - b.tokens) - 1
      BY <2>1 DEF Active, History
    <3>2. Counted(h)[n] <= h[n] + 1 /\ Counted(h)[n] \in Nat
      BY <1>1, <3>1, WindowType
    <3>3. (z[n] + 1) * r \in Nat /\ (z[n] + 1) * r >= r
      BY <3>1, OneRateMore
    <3>4. QED
      BY <1>2, <2>1, <3>1, <3>2, <3>3
  <2>3. Counted(h)[1] = 1
    BY <1>1, <2>1, WindowType, WindowPositive DEF Active
  <2>4. Active(Counted(h), z, r, c)
    BY <1>1, <2>1, <2>2, <2>3, WindowType, WindowPositive DEF Active
  <2>5. QED
    BY <2>4 DEF c
<1>5. QED
  BY <1>3, <1>4
-----------------------------------------------------------------------------
(* The inductive invariant behind the bounds on what is admitted. *)
Spent(k) ==
  IF Rpm(k) = 0
    THEN /\ \A n \in 0..Window : recent[k][n] = 0
         /\ k \in DOMAIN buckets => buckets[k].tokens = 0
    ELSE IF k \in DOMAIN buckets
      THEN Active(recent[k], resets, Rpm(k), buckets[k])
      ELSE Idle(recent[k], resets, Rpm(k))

SpendInv ==
  /\ WaitInv
  /\ recent \in [Keys -> History] /\ resets \in History
  /\ \A k \in Keys : Spent(k)

\* A pair whose own state a step leaves alone.
LEMMA SpentFrame ==
  ASSUME NEW k \in Keys, Spent(k),
         recent'[k] = recent[k], resets' = resets,
         (k \in DOMAIN buckets') = (k \in DOMAIN buckets),
         k \in DOMAIN buckets => buckets'[k] = buckets[k]
  PROVE  Spent(k)'
<1>1. CASE Rpm(k) = 0
  BY <1>1 DEF Spent, Rpm
<1>2. CASE Rpm(k) # 0 /\ k \in DOMAIN buckets
  <2>1. Active(recent[k], resets, Rpm(k), buckets[k])
    BY <1>2 DEF Spent
  <2>2. Active(recent'[k], resets', Rpm(k), buckets'[k])
    BY <1>2, <2>1
  <2>3. QED
    BY <1>2, <2>2 DEF Spent, Rpm
<1>3. CASE Rpm(k) # 0 /\ k \notin DOMAIN buckets
  <2>1. Idle(recent'[k], resets', Rpm(k))
    BY <1>3 DEF Spent
  <2>2. QED
    BY <1>3, <2>1 DEF Spent, Rpm
<1>4. QED
  BY <1>1, <1>2, <1>3

\* A granted check keeps the account of its pair.
LEMMA SpentCheckOk ==
  ASSUME SpendInv, NEW key \in Keys, CheckOk(key), NEW k \in Keys
  PROVE  Spent(k)'
<1>. DEFINE e == Entry(buckets, key)
            b == TryConsume(e, Window)
<1>1. /\ e \in Bucket(Window) /\ e.max_tokens = Rpm(key) /\ Grants(e, Window)
      /\ Rpm(key) \in Nat /\ e.tokens \in Nat /\ e.age \in 0..Window
  BY WindowType, EntryTyped, BucketFields, RpmType DEF SpendInv, CheckOk
<1>2. /\ DOMAIN buckets' = DOMAIN buckets \cup {key} /\ buckets'[key] = b
      /\ \A x \in DOMAIN buckets : x # key => buckets'[x] = buckets[x]
      /\ recent' = [recent EXCEPT ![key] = Counted(recent[key])] /\ resets' = resets
  BY DEF CheckOk, Insert
<1>3. Spent(k) /\ Spent(key) /\ recent \in [Keys -> History] /\ resets \in History
  BY DEF SpendInv
<1>4. CASE k # key
  BY <1>2, <1>3, <1>4, SpentFrame
<1>5. CASE k = key /\ Rpm(k) = 0
  <2>1. e.tokens = 0
    BY <1>3, <1>5 DEF Spent, Entry, NewBucket
  <2>2. Refill(e, Window).tokens = 0
    BY <1>1, <1>5, <2>1, WindowType, RefillTyped
  <2>3. QED
    BY <1>1, <2>2 DEF Grants
<1>6. CASE k = key /\ Rpm(k) # 0 /\ k \in DOMAIN buckets
  <2>1. e = buckets[k] /\ Active(recent[k], resets, Rpm(k), e)
    BY <1>3, <1>6 DEF Spent, Entry
  <2>. HIDE DEF e
  <2>2. Active(Counted(recent[k]), resets, Rpm(k), b)
    BY <1>1, <1>3, <1>6, <2>1, ActiveAdmits
  <2>. HIDE DEF b
  <2>3. k \in DOMAIN buckets' /\ Active(recent'[k], resets', Rpm(k), buckets'[k])
    BY <1>2, <1>3, <1>6, <2>2
  <2>4. QED
    BY <1>6, <2>3 DEF Spent, Rpm
<1>7. CASE k = key /\ Rpm(k) # 0 /\ k \notin DOMAIN buckets
  <2>1. /\ e = NewBucket(Rpm(k)) /\ e.tokens = Rpm(k) /\ e.age = 0
        /\ Idle(recent[k], resets, Rpm(k))
    BY <1>3, <1>7 DEF Spent, Entry, NewBucket
  <2>. HIDE DEF e
  <2>2. b.tokens = Rpm(k) - 1 /\ b.age = 0
    BY <1>1, <2>1, Consumed, WindowType, WindowPositive
  <2>. HIDE DEF b
  <2>3. Active(Counted(recent[k]), resets, Rpm(k), b)
    BY <1>1, <1>3, <1>7, <2>1, <2>2, IdleAdmits
  <2>4. k \in DOMAIN buckets' /\ Active(recent'[k], resets', Rpm(k), buckets'[k])
    BY <1>2, <1>3, <1>7, <2>3
  <2>5. QED
    BY <1>7, <2>4 DEF Spent, Rpm
<1>8. QED
  BY <1>4, <1>5, <1>6, <1>7

\* A refused check leaves an empty bucket as it is.
LEMMA SpentCheckErr ==
  ASSUME SpendInv, NEW key \in Keys, CheckErr(key), NEW k \in Keys
  PROVE  Spent(k)'
<1>. DEFINE e == Entry(buckets, key)
            b == TryConsume(e, Window)
<1>1. /\ e \in Bucket(Window) /\ e.max_tokens = Rpm(key) /\ ~Grants(e, Window)
      /\ Rpm(key) \in Nat
  BY WindowType, EntryTyped, RpmType DEF SpendInv, CheckErr
<1>2. /\ DOMAIN buckets' = DOMAIN buckets \cup {key} /\ buckets'[key] = b
      /\ \A x \in DOMAIN buckets : x # key => buckets'[x] = buckets[x]
      /\ recent' = recent /\ resets' = resets
  BY DEF CheckErr, Insert
<1>3. Spent(k)
  BY DEF SpendInv
<1>4. CASE k # key
  BY <1>2, <1>3, <1>4, SpentFrame
<1>5. CASE k = key /\ Rpm(k) = 0
  <2>1. Refill(e, Window) \in Bucket(Window) /\ Refill(e, Window).tokens \in Nat
    BY <1>1, WindowType, RefillTyped, BucketFields
  <2>2. b.tokens = 0
    BY <1>1, <2>1 DEF TryConsume, Grants
  <2>3. QED
    BY <1>2, <1>3, <1>5, <2>2 DEF Spent, Rpm
<1>6. CASE k = key /\ Rpm(k) # 0
  <2>1. b = e /\ e.tokens = 0
    BY <1>1, <1>6, WindowType, TryConsumeTyped
  <2>2. k \in DOMAIN buckets
    BY <1>1, <1>6, <2>1 DEF Entry, NewBucket
  <2>3. e = buckets[k]
    BY <1>6, <2>2 DEF Entry
  <2>4. QED
    BY <1>2, <1>3, <1>6, <2>1, <2>2, <2>3, SpentFrame
<1>7. QED
  BY <1>4, <1>5, <1>6

\* A reload leaves no bucket.
LEMMA SpentReload ==
  ASSUME SpendInv, Reload, NEW k \in Keys
  PROVE  Spent(k)'
<1>1. DOMAIN buckets' = {} /\ recent' = recent /\ resets' = Counted(resets)
  BY DEF Reload, EmptyMap
<1>2. /\ Spent(k) /\ recent[k] \in History /\ resets \in History /\ Rpm(k) \in Nat
      /\ k \in DOMAIN buckets => buckets[k] \in Bucket(Window)
  BY RpmType DEF SpendInv, WaitInv, IsMap
<1>3. CASE Rpm(k) = 0
  BY <1>1, <1>2, <1>3 DEF Spent, Rpm
<1>4. CASE Rpm(k) # 0
  <2>1. Idle(recent[k], Counted(resets), Rpm(k))
    BY <1>2, <1>4, ActiveReload, IdleKept DEF Spent
  <2>2. QED
    BY <1>1, <1>4, <2>1 DEF Spent, Rpm
<1>5. QED
  BY <1>3, <1>4

\* A tick ages the accounts.
LEMMA SpentTick ==
  ASSUME SpendInv, Tick, NEW k \in Keys
  PROVE  Spent(k)'
<1>1. /\ DOMAIN buckets' = DOMAIN buckets
      /\ k \in DOMAIN buckets => buckets'[k] = BucketTick(buckets[k], Window)
      /\ recent'[k] = Older(recent[k]) /\ resets' = Older(resets)
  BY DEF Tick
<1>2. /\ Spent(k) /\ recent[k] \in History /\ resets \in History /\ Rpm(k) \in Nat
      /\ k \in DOMAIN buckets => buckets[k] \in Bucket(Window)
  BY RpmType DEF SpendInv, WaitInv, IsMap
<1>3. CASE Rpm(k) = 0
  <2>1. ASSUME NEW n \in 0..Window PROVE Older(recent[k])[n] = 0
    BY <1>2, <1>3, WindowType DEF Spent, Older
  <2>2. k \in DOMAIN buckets => buckets'[k].tokens = buckets[k].tokens
    BY <1>1, <1>2, WindowType, BucketTickTyped
  <2>3. QED
    BY <1>1, <1>2, <1>3, <2>1, <2>2 DEF Spent, Rpm
<1>4. CASE Rpm(k) # 0 /\ k \in DOMAIN buckets
  <2>1. Active(recent'[k], resets', Rpm(k), buckets'[k])
    BY <1>1, <1>2, <1>4, ActiveTick DEF Spent
  <2>2. QED
    BY <1>1, <1>4, <2>1 DEF Spent, Rpm
<1>5. CASE Rpm(k) # 0 /\ k \notin DOMAIN buckets
  <2>1. Idle(recent'[k], resets', Rpm(k))
    BY <1>1, <1>2, <1>5, IdleKept DEF Spent
  <2>2. QED
    BY <1>1, <1>5, <2>1 DEF Spent, Rpm
<1>6. QED
  BY <1>3, <1>4, <1>5

\* A new limiter has admitted nothing.
LEMMA SpendInit == Init => SpendInv
<1>. SUFFICES ASSUME Init PROVE SpendInv
  OBVIOUS
<1>1. recent \in [Keys -> History] /\ resets \in History
  BY DEF Init, History
<1>2. ASSUME NEW k \in Keys PROVE Spent(k)
  <2>1. /\ DOMAIN buckets = {} /\ \A n \in 0..Window : recent[k][n] = 0 /\ resets[n] = 0
        /\ 0 \in 0..Window /\ Rpm(k) \in Nat
    BY WindowType, RpmType DEF Init, EmptyMap
  <2>2. (0 + 1) * Rpm(k) = Rpm(k)
    BY <2>1
  <2>3. QED
    BY <2>1, <2>2 DEF Spent, Idle
<1>3. QED
  BY <1>1, <1>2, WaitInvInit DEF SpendInv

\* Every step keeps the accounts.
LEMMA SpendNext == SpendInv /\ [Next]_vars => SpendInv'
<1>. SUFFICES ASSUME SpendInv, [Next]_vars PROVE SpendInv'
  OBVIOUS
<1>1. WaitInv'
  BY WaitInvNext DEF SpendInv
<1>2. recent' \in [Keys -> History] /\ resets' \in History
  <2>0. recent \in [Keys -> History] /\ resets \in History
    BY DEF SpendInv
  <2>1. ASSUME NEW key \in Keys, CheckOk(key)
        PROVE  recent' \in [Keys -> History] /\ resets' \in History
    BY <2>0, <2>1, HistoryTyped DEF CheckOk
  <2>2. ASSUME NEW key \in Keys, CheckErr(key)
        PROVE  recent' \in [Keys -> History] /\ resets' \in History
    BY <2>0, <2>2 DEF CheckErr
  <2>3. CASE Reload
    BY <2>0, <2>3, HistoryTyped DEF Reload
  <2>4. CASE Tick
    BY <2>0, <2>4, HistoryTyped DEF Tick
  <2>5. CASE UNCHANGED vars
    BY <2>0, <2>5 DEF vars
  <2>6. QED
    BY <2>1, <2>2, <2>3, <2>4, <2>5 DEF Next
<1>3. ASSUME NEW k \in Keys PROVE Spent(k)'
  <2>1. CASE UNCHANGED vars
    BY <2>1, SpentFrame DEF vars, SpendInv
  <2>2. QED
    BY <2>1, SpentCheckOk, SpentCheckErr, SpentReload, SpentTick DEF Next
<1>4. QED
  BY <1>1, <1>2, <1>3 DEF SpendInv

\* Buckets never hold less than nothing, and none is for a pair unknown.
THEOREM LimiterTypeCorrect == Spec => []TypeOK
<1>1. SpendInv => TypeOK
  BY DEF SpendInv, WaitInv, History, TypeOK
<1>2. QED
  BY <1>1, SpendInit, SpendNext, PTL DEF Spec

\* Inside a window TokenBucket gives away its rate and no more, and accounts
\* for every token.
THEOREM BudgetCorrect == Spec => []WindowBudget
<1>1. SpendInv => WindowBudget
  <2>. SUFFICES ASSUME SpendInv, NEW k \in DOMAIN buckets
                PROVE  /\ buckets[k].max_tokens = Rpm(k)
                       /\ buckets[k].age < Window /\ resets[buckets[k].age + 1] = 0 =>
                            recent[k][buckets[k].age + 1] + buckets[k].tokens = buckets[k].max_tokens
    BY DEF WindowBudget
  <2>1. /\ k \in Keys /\ Spent(k) /\ buckets[k].max_tokens = Rpm(k)
        /\ buckets[k].age \in 0..Window
    BY WindowType, BucketFields DEF SpendInv, WaitInv, IsMap
  <2>2. CASE Rpm(k) = 0
    <3>1. buckets[k].age < Window => buckets[k].age + 1 \in 0..Window
      BY <2>1, WindowType
    <3>2. QED
      BY <2>1, <2>2, <3>1 DEF Spent
  <2>3. CASE Rpm(k) # 0
    BY <2>1, <2>3 DEF Spent, Active
  <2>4. QED
    BY <2>1, <2>2, <2>3
<1>2. QED
  BY <1>1, SpendInit, SpendNext, PTL DEF Spec

\* In any 60 s a pair is admitted less than twice its rate, and at most one
\* rate more for every reload in them.
THEOREM BurstCorrect == Spec => []BurstBound
<1>1. SpendInv => BurstBound
  <2>. SUFFICES ASSUME SpendInv, NEW k \in Keys
                PROVE  recent[k][Window] <=
                         IF Rpm(k) = 0 THEN 0 ELSE (2 + resets[Window]) * Rpm(k) - 1
    BY DEF BurstBound
  <2>1. /\ Spent(k) /\ Rpm(k) \in Nat /\ Window \in 0..Window
        /\ recent[k][Window] \in Nat /\ resets[Window] \in Nat
        /\ k \in DOMAIN buckets => buckets[k].tokens \in Nat
    BY WindowType, RpmType, BucketFields DEF SpendInv, History, WaitInv, IsMap
  <2>2. /\ (resets[Window] + 1) * Rpm(k) \in Nat
        /\ (2 + resets[Window]) * Rpm(k) = (resets[Window] + 1) * Rpm(k) + Rpm(k)
    BY <2>1, OneRateMore
  <2>3. CASE Rpm(k) = 0
    BY <2>1, <2>3 DEF Spent
  <2>4. CASE Rpm(k) # 0 /\ k \in DOMAIN buckets
    <3>1. recent[k][Window] <=
            (Rpm(k) - buckets[k].tokens) + (resets[Window] + 1) * Rpm(k) - 1
      BY <2>1, <2>4 DEF Spent, Active
    <3>2. QED
      BY <2>1, <2>2, <2>4, <3>1
  <2>5. CASE Rpm(k) # 0 /\ k \notin DOMAIN buckets
    <3>1. recent[k][Window] <= (resets[Window] + 1) * Rpm(k) - 1
      BY <2>1, <2>5 DEF Spent, Idle
    <3>2. QED
      BY <2>1, <2>2, <2>5, <3>1
  <2>6. QED
    BY <2>3, <2>4, <2>5
<1>2. QED
  BY <1>1, SpendInit, SpendNext, PTL DEF Spec
=============================================================================
