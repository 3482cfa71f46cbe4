-------------------------- MODULE PolicyProjection --------------------------
(***************************************************************************)
(* The projection every policy plans with (llmsvc/policy/common.py): a      *)
(* private copy of the snapshot in which a plan stops and puts to sleep     *)
(* before anything is executed.  A snapshot holds, for each model, its      *)
(* state, the guard in force, how long it has been idle, its keep value     *)
(* and its weights, and the memory of the host.                             *)
(***************************************************************************)
EXTENDS Integers, FiniteSets, SequencesExt

CONSTANTS
    Models,   \* numbers, in the order of their names
    Default,  \* the default model
    Floor,    \* host_min_available_gb
    Budget    \* budget_gb of the sleeping weights

ModelsAssumption == Models \subseteq Nat /\ {Floor, Budget} \subseteq Nat

\* A measurement that is missing.
Unknown == -1
Known(amount) == amount >= 0

\* Idle times: just used, idle for 30 seconds, idle for the whole TTL.
JustUsed == 0
Briefly == 1
Expired == 2

Action(kind, m) == [kind |-> kind, model |-> m]
InState(p, states) == {m \in Models : p.state[m] \in states}
SumOf(p, S) == FoldLeft(LAMBDA sum, m : sum + p.weight[m], 0, SetToSeq(S))

\* What sleeps counts at least as much as its known weights.
Sleeping(s) ==
    LET sleepers == InState(s, {"sleeping"}) IN
      IF Known(s.sleeping) /\ \A m \in sleepers : Known(s.weight[m])
      THEN IF s.sleeping > SumOf(s, sleepers) THEN s.sleeping ELSE SumOf(s, sleepers)
      ELSE IF sleepers = {} THEN s.sleeping ELSE Unknown

Project(s) == [actions |-> <<>>, blocked |-> {}, sleeping |-> Sleeping(s)] @@ s

(***************************************************************************)
(* Who may be touched, and in which order.                                 *)
(***************************************************************************)

\* What a planner asks for: a stop or a sleep, a least idle time, a move.
ToSleep == [stop |-> FALSE, idle |-> JustUsed, relocating |-> FALSE]
ToStop == [ToSleep EXCEPT !.stop = TRUE]

Protection(p, m, ask) ==
    IF p.state[m] \notin {"awake", "sleeping"} THEN "unknown_model_state"
    ELSE IF p.guard[m] # "none" THEN p.guard[m]
    ELSE IF ask.stop /\ m = Default /\ ~ ask.relocating THEN "default_model"
    ELSE IF ask.idle > JustUsed /\ ~ Known(p.idle[m]) THEN "unknown_activity"
    ELSE IF p.idle[m] < ask.idle THEN "recently_active" ELSE "none"

Blocks(p, m, reason) == [p EXCEPT !.blocked = @ \cup {<<m, reason>>}]

\* The default model last, then by keep value, then by name.
Before(p, m, n) ==
    IF (m = Default) # (n = Default) THEN n = Default
    ELSE p.value[m] < p.value[n] \/ (p.value[m] = p.value[n] /\ m < n)

\* A model without a keep value is no candidate.
Eligible(p, m, ask) == Protection(p, m, ask) = "none" /\ Known(p.value[m])

Candidates(p, S, ask) ==
    SetToSortSeq({m \in S : Eligible(p, m, ask)}, LAMBDA m, n : Before(p, m, n))

Rejected(p, S, ask) ==
    [p EXCEPT !.blocked = @ \cup
      {<<m, IF Protection(p, m, ask) = "none" THEN "unknown_activity" ELSE Protection(p, m, ask)>> :
         m \in {n \in S : ~ Eligible(p, n, ask)}}]

(***************************************************************************)
(* Planned stops and sleeps.                                               *)
(***************************************************************************)

MemoryKnown(p) == Known(p.avail) /\ Known(p.sleeping) /\ InState(p, {"unknown"}) = {}

FitsSleep(p, amount) ==
    /\ MemoryKnown(p) /\ Known(amount)
    /\ p.avail - amount >= Floor /\ p.sleeping + amount <= Budget

Less(total, amount) == IF total > amount THEN total - amount ELSE 0

\* The sleep of a model that is stopped later in the plan is dropped from it.
Stops(p, m) ==
    LET w == p.weight[m]
        released == p.state[m] = "sleeping"
        sum(total, new) == IF ~ released THEN total ELSE IF Known(total) /\ Known(w) THEN new ELSE Unknown
    IN  [p EXCEPT !.actions = Append(SelectSeq(@, LAMBDA a : a # Action("sleep", m)), Action("stop", m)),
                  !.avail = sum(@, @ + w), !.sleeping = sum(@, Less(@, w)), !.state[m] = "stopped"]

\* Sleepers make room, the least valuable first.
Reclaims(p, m) ==
    LET sleepers == InState(p, {"sleeping"})
        one(q, n) == IF FitsSleep(q, p.weight[m]) THEN q ELSE Stops(q, n)
    IN  FoldLeft(one, Rejected(p, sleepers, ToStop), Candidates(p, sleepers, ToStop))

\* Bug: what a planned sleep takes is not counted.
PutsUncounted(p, m) == [p EXCEPT !.actions = Append(@, Action("sleep", m)), !.state[m] = "sleeping"]

Puts(p, m) ==
    [p EXCEPT !.actions = Append(@, Action("sleep", m)), !.sleeping = @ + p.weight[m],
              !.avail = @ - p.weight[m], !.state[m] = "sleeping"]

\* To sleep if it fits, otherwise stopped; the default model is never stopped.
SleepsOrStops(p, m) ==
    IF FitsSleep(p, p.weight[m]) THEN [plan |-> Puts(p, m), ok |-> TRUE]
    ELSE IF m = Default THEN [plan |-> Blocks(p, m, "memory_budget"), ok |-> FALSE]
    ELSE [plan |-> Stops(p, m), ok |-> TRUE]

\* The plan after an attempt to put m to sleep, and whether m is dealt with.
Sleeps(p, m, reclaim) ==
    IF Protection(p, m, ToSleep) # "none" THEN [plan |-> Blocks(p, m, Protection(p, m, ToSleep)), ok |-> FALSE]
    ELSE IF ~ MemoryKnown(p) \/ ~ Known(p.weight[m]) THEN [plan |-> Blocks(p, m, "unknown_memory"), ok |-> FALSE]
    ELSE SleepsOrStops(IF reclaim /\ ~ FitsSleep(p, p.weight[m]) THEN Reclaims(p, m) ELSE p, m)

=============================================================================
