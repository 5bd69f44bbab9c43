----------------------------- MODULE RemoteCall -----------------------------
(***************************************************************************)
(* What a retried call promises.  Calls come one at a time; a call makes   *)
(* at most Limit tries while it is open; each try takes effect at the      *)
(* server at most once, perhaps long after the call has returned; and a    *)
(* call that succeeds has taken effect.                                    *)
(***************************************************************************)
EXTENDS Naturals

CONSTANT Limit   \* tries per call

VARIABLES
  call,      \* calls so far; the last one is open or over
  open,      \* is it "yes" or "no"
  outcome,   \* how the last call that is over ended
  tries,     \* <<call, try>> pairs made
  effects    \* those that have taken effect

rvars == <<call, open, outcome, tries, effects>>

CallInit ==
  /\ call = 0 /\ open = "no" /\ outcome = "none"
  /\ tries = {} /\ effects = {}

Begin ==
  /\ open = "no"
  /\ call' = call + 1 /\ open' = "yes"
  /\ UNCHANGED <<outcome, tries, effects>>

\* Tries are made only while the call is open.
Try(k) ==
  /\ open = "yes" /\ k < Limit
  /\ <<call, k>> \notin tries
  /\ tries' = tries \cup {<<call, k>>}
  /\ UNCHANGED <<call, open, outcome, effects>>

TakeEffect(t) ==
  /\ t \notin effects
  /\ effects' = effects \cup {t}
  /\ UNCHANGED <<call, open, outcome, tries>>

Finish(how) ==
  /\ open = "yes"
  /\ how = "ok" => \E t \in effects : t[1] = call
  /\ open' = "no" /\ outcome' = how
  /\ UNCHANGED <<call, tries, effects>>

CallNext ==
  \/ Begin
  \/ \E k \in 0..Limit : Try(k)
  \/ \E t \in tries : TakeEffect(t)
  \/ \E how \in {"ok", "err"} : Finish(how)

CallSpec == CallInit /\ [][CallNext]_rvars
=============================================================================
