---------------------------- MODULE QuietPeriod ----------------------------
(***************************************************************************)
(* QuietPeriod of llmsvc/reload.py: from events of a stream of requests in *)
(* flight, which may stop, be late or break, it tells that nothing was in  *)
(* flight for a while. Times are kept as ages.                             *)
(***************************************************************************)
EXTENDS Integers

CONSTANTS Quiet, MaxAge, Never
ASSUME QuietAssumption == Quiet \in Nat /\ MaxAge \in Nat /\ 0 < MaxAge /\ MaxAge < Quiet /\ Never \notin Int

VARIABLES
  last,     \* age of the last event, at most MaxAge + 1, or Never
  zero,     \* age of the start of the quiet, at most Quiet, or Never
  inflight, \* of the last event
  calm,     \* history: for how long events without gaps said zero
  silent    \* history: time since something was heard, at most MaxAge + 1
quietVars == <<last, zero, inflight, calm, silent>>
Capped(n, top) == IF n > top THEN top ELSE n

QuietInit == last = Never /\ zero = Never /\ inflight = Never /\ calm = 0 /\ silent = 0

Gap == IF last = Never THEN TRUE ELSE last > MaxAge

Loses == last' = Never /\ zero' = Never /\ inflight' = Never

Observe(n) ==
  /\ zero' = IF n > 0 THEN Never ELSE IF Gap \/ zero = Never THEN 0 ELSE zero
  /\ last' = 0 /\ inflight' = n
  /\ silent' = 0 /\ calm' = IF n > 0 \/ silent > MaxAge THEN 0 ELSE calm
\* The stream is not connected, or what it says is not a count.
Disconnected == Loses /\ calm' = 0 /\ silent' = 0
\* Bug: a heartbeat renews what is too old.
HeartbeatRenews ==
  /\ silent' = 0 /\ calm' = IF silent > MaxAge THEN 0 ELSE calm
  /\ last' = IF last = Never THEN Never ELSE 0
  /\ UNCHANGED <<zero, inflight>>
Heartbeat ==
  /\ silent' = 0 /\ calm' = IF silent > MaxAge THEN 0 ELSE calm
  /\ IF Gap THEN Loses ELSE last' = 0 /\ UNCHANGED <<zero, inflight>>
Tick ==
  /\ last' = IF last = Never THEN Never ELSE Capped(last + 1, MaxAge + 1)
  /\ zero' = IF zero = Never THEN Never ELSE Capped(zero + 1, Quiet)
  /\ silent' = Capped(silent + 1, MaxAge + 1)
  /\ calm' = IF inflight # 0 \/ silent' > MaxAge THEN 0 ELSE Capped(calm + 1, Quiet)
  /\ UNCHANGED inflight
QuietNext == (\E n \in {0, 1} : Observe(n)) \/ Disconnected \/ Heartbeat \/ Tick
QuietSpec == QuietInit /\ [][QuietNext]_quietVars

\* Nothing blocks a change.
Admits == ~Gap /\ inflight = 0 /\ zero # Never /\ (zero # Never => zero >= Quiet)

\* A change is admitted exactly after a quiet of the full length during which
\* no gap of the stream could have hidden a request. llama-swap drops the
\* requests that it interrupts.
QuietIsReal == (Admits => calm >= Quiet) /\ (calm >= Quiet => Admits)
=============================================================================
