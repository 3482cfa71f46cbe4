---------------------------- MODULE ModelActions ----------------------------
(***************************************************************************)
(* The operations on models (llmsvc/actions.py) as they run beside each    *)
(* other: explicit wake, sleep, stop and preload, free, the evacuation of  *)
(* a reserved GPU, the automatic policy, an eviction by a placement, and   *)
(* the pass of the sleeping recovery. Each admits its model with           *)
(* action_lock held, sends its command, and then observes published rounds *)
(* with the lock released; `pending`, the transition registry, the flags   *)
(* and the durable claims keep them apart.                                 *)
(*                                                                         *)
(* GPUs: a model is on the GPU that may be reserved, or on another one. A  *)
(* command has the effect anybody may have: the data plane wakes, sleeps,  *)
(* starts and ends models at any time.                                     *)
(***************************************************************************)
EXTENDS Naturals, FiniteSets

CONSTANTS
  Models,
  Ops,     \* bound: operations that run at a time
  Requests, \* bound: the kinds of operations that are asked for
  None

Kinds == {"wake", "sleep", "stop", "preload", "free", "reserve", "auto", "evict", "recover"}
\* They act on sleepers or idle models nobody asked about, with more guards.
Background == {"reserve", "auto", "evict", "recover"}
\* They repeat: plan one action, send it, observe it, plan again.
Cycles == {"free", "reserve", "auto", "evict"}
States == {"stopped", "loading", "sleeping", "awake"}

VARIABLES
  inst,     \* the instance of each model
  here,     \* its instance or account is on the GPU that may be reserved
  account,  \* llmsvc_leases: its account
  reserved, \* llmsvc_reserves: the reservation is in force
  claim,    \* llmsvc_recoveries: the model under sleeping recovery, or None
  sample,   \* the published round: the state of each model
  pending,  \* ModelActionController.pending
  entry,    \* TransitionRegistry: the operation that owns each model's entry
  free,     \* free_active
  auto,     \* AutomaticPolicyController.active
  op,       \* the operations
  vacated   \* history: the reservation in force was reported complete

fleet == <<inst, here, account>>
intents == <<reserved, vacated>>
control == <<pending, entry, free, auto>>
vars == <<fleet, intents, claim, sample, control, op>>

\* owned: the model is in `pending` for it; seen: a round showed the effect;
\* fresh: a round was published since it last looked; done: its confirmed actions.
Op == [kind : Kinds \cup {"none"}, step : {"begun", "preloading", "requesting", "migrating", "waiting",
                             "preloaded", "observing", "claimed"},
       model : Models \cup {None}, act : {"none", "sleep", "stop", "wake"}, owned : BOOLEAN,
       seen : BOOLEAN, fresh : BOOLEAN, done : SUBSET (Models \X {"sleep", "stop"})]
Request(kind) ==
  [kind |-> kind, step |-> "begun", model |-> None, act |-> "none", owned |-> FALSE,
   seen |-> FALSE, fresh |-> FALSE, done |-> {}]
ActionsAssumption == Requests \subseteq Kinds /\ None \notin Models \cup Ops

TypeOK ==
  /\ inst \in [Models -> States] /\ here \in [Models -> BOOLEAN]
  /\ account \in [Models -> {"none", "pending", "confirmed"}]
  /\ reserved \in BOOLEAN /\ vacated \in BOOLEAN /\ claim \in Models \cup {None}
  /\ sample \in [Models -> States]
  /\ pending \subseteq Models /\ entry \in [Models -> Ops \cup {None}]
  /\ free \in BOOLEAN /\ auto \in BOOLEAN /\ op \in [Ops -> Op]

Init ==
  /\ inst = [m \in Models |-> "stopped"] /\ here = [m \in Models |-> FALSE]
  /\ account = [m \in Models |-> "none"]
  /\ reserved = FALSE /\ vacated = FALSE /\ claim = None
  /\ sample = inst
  /\ pending = {} /\ entry = [m \in Models |-> None] /\ free = FALSE /\ auto = FALSE
  /\ op = [o \in Ops |-> Request("none")]

-----------------------------------------------------------------------------
(* The data plane, the launcher, the sample *)

Fleet(m, from, to) ==
  /\ inst[m] \in from /\ inst' = [inst EXCEPT ![m] = to]
  /\ UNCHANGED <<intents, claim, sample, control, op>>

\* A claimed model is only started by the recovery's own wake.
MayStart(m) == claim = m => \E o \in Ops : op[o].kind = "recover" /\ op[o].owned

\* The launcher is granted an account; a reserved GPU takes nothing new.
Placed(m) ==
  /\ account[m] = "none" /\ MayStart(m) /\ Fleet(m, {"stopped"}, "loading")
  /\ account' = [account EXCEPT ![m] = "pending"]
  /\ \E h \in (IF reserved THEN {FALSE} ELSE BOOLEAN) : here' = [here EXCEPT ![m] = h]

ModelMoves(m) ==
  /\ \/ Fleet(m, {"loading", "sleeping"}, "awake")
     \/ Fleet(m, {"awake"}, "sleeping")
     \/ Fleet(m, {"loading", "sleeping", "awake"}, "stopped")
  /\ UNCHANGED <<here, account>>

\* The reconciler: an account follows what the rounds and a probe show.
AccountMoves(m) ==
  /\ \/ /\ account[m] = "pending" /\ sample[m] \in {"sleeping", "awake"} /\ inst[m] # "stopped"
        /\ account' = [account EXCEPT ![m] = "confirmed"]
     \/ /\ account[m] # "none" /\ sample[m] = "stopped" /\ inst[m] = "stopped"
        /\ account' = [account EXCEPT ![m] = "none"]
  /\ UNCHANGED <<inst, here, intents, claim, sample, control, op>>

\* sample_once; a round is old as soon as anything moves.
RoundPublished ==
  /\ sample' = inst
  /\ op' = [o \in Ops |-> [op[o] EXCEPT !.fresh = op[o].step \in {"observing", "migrating", "waiting"}]]
  /\ UNCHANGED <<fleet, intents, claim, control>>

\* accounting_snapshot: an account whose process the round does not show is an error.
Consistent == \A m \in Models : account[m] = "confirmed" => sample[m] \in {"sleeping", "awake"}

-----------------------------------------------------------------------------
(* Admission: with the lock held, and the command is sent *)

\* _model, plan_free and _action_exclusions: nobody else has the model.
MayAct(m) == m \notin pending /\ claim # m

\* The guards of the background operations.
Idle(m) == MayAct(m) /\ ~free /\ account[m] = "confirmed"

\* TransitionRegistry.begin: the first owner keeps the entry.
Begins(m, o) == entry' = IF entry[m] = None THEN [entry EXCEPT ![m] = o] ELSE entry

\* TransitionRegistry.end: only the owner's token removes it.
Ends(o) == entry' = [m \in Models |-> IF entry[m] = o THEN None ELSE entry[m]]

\* _validate of the dispatcher: the states a command is sent in.
Actable(m, act) == sample[m] \in (IF act = "sleep" THEN {"awake"} ELSE {"awake", "sleeping"})

Step(o, step) == op[o].kind # "none" /\ op[o].step = step
\* o goes on with model m, which is in `pending` for it.
Takes(o, m, act, step) ==
  /\ pending' = pending \cup {m}
  /\ op' = [op EXCEPT ![o] = [@ EXCEPT !.model = m, !.act = act, !.step = step, !.owned = TRUE,
                                       !.seen = FALSE, !.fresh = FALSE]]

\* One free, one evacuation of the GPU, one cycle or pass at a time; a
\* reservation is stored first.
Begin(o, kind) ==
  /\ op[o].kind = "none"
  /\ kind = "free" => ~free
  /\ kind \in {"auto", "recover"} => ~auto /\ \A p \in Ops : op[p].kind # "recover"
  /\ free' = (free \/ kind = "free") /\ auto' = (auto \/ kind = "auto")
  /\ reserved' = (reserved \/ kind = "reserve")
  /\ vacated' = (vacated /\ kind # "reserve")
  /\ op' = [op EXCEPT ![o] = Request(kind)]
  /\ UNCHANGED <<fleet, claim, sample, pending, entry>>

\* wake_model: no other admission may be for the same or a not yet known GPU.
Apart(m) ==
  \A p \in pending : sample[m] # "stopped" /\ sample[p] # "stopped" /\ here[m] # here[p]

\* plan_wake_migration: a sleeper without room on its GPU, and not for the recovery.
MayMigrate(o, m) == op[o].kind = "wake" /\ sample[m] = "sleeping"

\* wake: in place, or as a migration that stops the model first.
AdmitWake(o, m) ==
  /\ \/ Step(o, "begun") /\ op[o].kind = "wake" /\ sample[m] \in {"stopped", "sleeping"}
     \/ Step(o, "preloading") /\ op[o].model = m
  /\ MayAct(m) /\ Apart(m) /\ Consistent
  /\ \/ Takes(o, m, "wake", "requesting")
     \/ MayMigrate(o, m) /\ Takes(o, m, "stop", "migrating")
  /\ IF op[o].kind = "preload" THEN UNCHANGED entry ELSE Begins(m, o)
  /\ UNCHANGED <<fleet, intents, claim, sample, free, auto>>

\* preload owns the transition for its whole life, and the model only in turn.
AdmitPreload(o, m) ==
  /\ Step(o, "begun") /\ op[o].kind = "preload" /\ sample[m] = "stopped"
  /\ MayAct(m) /\ Apart(m) /\ Consistent
  /\ Begins(m, o)
  /\ op' = [op EXCEPT ![o].step = "preloading", ![o].model = m]
  /\ UNCHANGED <<fleet, intents, claim, sample, pending, free, auto>>

\* sleep_model, stop_model and the second half of preload.
AdmitAction(o, m, act) ==
  /\ \/ Step(o, "begun") /\ op[o].kind = act
     \/ Step(o, "preloaded") /\ op[o].model = m /\ act = "sleep"
  /\ Actable(m, act)
  /\ MayAct(m) /\ Consistent
  /\ Takes(o, m, act, "observing")
  /\ IF op[o].kind = "preload" THEN UNCHANGED entry ELSE Begins(m, o)
  /\ UNCHANGED <<fleet, intents, claim, sample, free, auto>>

\* Bug: the model is not looked up among those other operations have.
AdmitCycleShared(o, m, act) ==
  /\ Step(o, "begun") /\ op[o].kind \in Cycles /\ <<m, act>> \notin op[o].done
  /\ Actable(m, act)
  /\ claim # m /\ Consistent
  /\ Takes(o, m, act, "observing")
  /\ UNCHANGED <<fleet, intents, claim, sample, entry, free, auto>>

\* The first action of a plan of free, of the automatic policy, of an eviction
\* or of an evacuation, which stops sleepers of the reserved GPU; the unit is
\* probed first where the model was not asked for.
AdmitCycle(o, m, act) ==
  /\ Step(o, "begun") /\ op[o].kind \in Cycles /\ <<m, act>> \notin op[o].done
  /\ Actable(m, act)
  /\ IF op[o].kind = "free" THEN MayAct(m) ELSE Idle(m) /\ inst[m] # "stopped"
  /\ op[o].kind = "evict" => act = "stop"
  /\ op[o].kind = "reserve" => act = "stop" /\ reserved /\ here[m] /\ sample[m] = "sleeping"
  /\ Consistent
  /\ Takes(o, m, act, "observing")
  /\ UNCHANGED <<fleet, intents, claim, sample, entry, free, auto>>

\* SleepingRecoveryController: the claim fences the model from then on.
Claims(o, m) ==
  /\ Step(o, "begun") /\ op[o].kind = "recover" /\ claim = None
  /\ sample[m] = "sleeping" /\ Idle(m) /\ Consistent
  /\ claim' = m /\ op' = [op EXCEPT ![o].step = "claimed", ![o].model = m]
  /\ UNCHANGED <<fleet, intents, sample, control>>

\* Its wake of the relocated model is an ordinary wake that may pass the fence.
RecoveryWakes(o) ==
  /\ Step(o, "claimed") /\ claim = op[o].model /\ claim \notin pending
  /\ sample[claim] = "stopped" /\ Apart(claim) /\ account[claim] = "none"
  /\ Takes(o, claim, "wake", "requesting") /\ Begins(claim, o)
  /\ UNCHANGED <<fleet, intents, claim, sample, free, auto>>

Resumes(o) ==
  /\ Step(o, "begun") /\ op[o].kind = "recover" /\ claim # None
  /\ op' = [op EXCEPT ![o].step = "claimed", ![o].model = claim]
  /\ UNCHANGED <<fleet, intents, claim, sample, control>>

Completes(o) ==
  /\ Step(o, "claimed") /\ claim = op[o].model /\ account[claim] # "pending"
  /\ claim' = None /\ op' = [op EXCEPT ![o] = Request("none")]
  /\ Ends(o) /\ UNCHANGED <<fleet, intents, sample, pending, free, auto>>

-----------------------------------------------------------------------------
(* Observation: with the lock released *)

WakeRequested(o) ==
  /\ Step(o, "requesting") /\ op' = [op EXCEPT ![o].step = "waiting"]
  /\ UNCHANGED <<fleet, intents, claim, sample, control>>

\* _effect, and with it the account where the operation gives it back.
Effect(o) ==
  LET m == op[o].model IN
  /\ sample[m] = (IF op[o].act = "sleep" THEN "sleeping" ELSE "stopped")
  /\ op[o].kind \in Background \cup {"wake"} =>
       (account[m] = (IF op[o].act = "sleep" THEN "confirmed" ELSE "none"))

\* A newer round shows the effect for the first time, or does not show it.
Observes(o) ==
  /\ op[o].kind # "none" /\ op[o].step \in {"observing", "migrating"} /\ op[o].fresh
  /\ ~(Effect(o) /\ op[o].seen)
  /\ op' = [op EXCEPT ![o].seen = Effect(o), ![o].fresh = FALSE]
  /\ UNCHANGED <<fleet, intents, claim, sample, control>>

Confirmed(o, step) == Step(o, step) /\ op[o].fresh /\ op[o].seen /\ Effect(o)

\* The source of a migration is gone: the model is started elsewhere.
Migrated(o) ==
  /\ Confirmed(o, "migrating")
  /\ op' = [op EXCEPT ![o].step = "requesting", ![o].act = "wake", ![o].fresh = FALSE]
  /\ UNCHANGED <<fleet, intents, claim, sample, control>>

\* A cycle plans again with what the rounds show now.
Replans(o) ==
  /\ Confirmed(o, "observing") /\ op[o].kind \in Cycles
  /\ pending' = pending \ {op[o].model}
  /\ op' = [op EXCEPT ![o] = [@ EXCEPT !.step = "begun", !.owned = FALSE, !.model = None, !.act = "none",
                                       !.seen = FALSE, !.fresh = FALSE,
       !.done = IF op[o].kind \in {"free", "auto"} THEN op[o].done \cup {<<op[o].model, op[o].act>>}
                ELSE {}]]
  /\ UNCHANGED <<fleet, intents, claim, sample, entry, free, auto>>

\* The wake of a preload or of the recovery returns to its caller.
WakeReturns(o) ==
  /\ Step(o, "waiting") /\ op[o].kind \in {"preload", "recover"}
  /\ op[o].fresh /\ sample[op[o].model] = "awake"
  /\ pending' = pending \ {op[o].model}
  /\ op' = [op EXCEPT ![o] = [@ EXCEPT !.owned = FALSE, !.fresh = FALSE,
       !.step = IF op[o].kind = "preload" THEN "preloaded" ELSE "claimed"]]
  /\ IF op[o].kind = "preload" THEN UNCHANGED entry ELSE Ends(o)
  /\ UNCHANGED <<fleet, intents, claim, sample, free, auto>>

\* The end of an operation in every outcome, of which the deadline, the failure
\* of a check and an error of the transport may come at any step; what the
\* `finally` blocks give back. A claim stays.
Finishes(o) ==
  /\ op[o].kind # "none"
  /\ pending' = (IF op[o].owned THEN pending \ {op[o].model} ELSE pending)
  /\ Ends(o)
  /\ free' = (free /\ op[o].kind # "free") /\ auto' = (auto /\ op[o].kind # "auto")
  /\ op' = [op EXCEPT ![o] = Request("none")]
  /\ UNCHANGED <<fleet, intents, claim, sample>>

\* _plan of an evacuation finds neither an action nor a blocker.
Cleared ==
  /\ Consistent
  /\ \A m \in Models : here[m] => account[m] # "pending" /\ sample[m] = "stopped"

\* An evacuation ends and reports the GPU as complete.
Vacates(o) ==
  /\ Step(o, "begun") /\ op[o].kind = "reserve" /\ reserved /\ Cleared
  /\ vacated' = TRUE /\ op' = [op EXCEPT ![o] = Request("none")]
  /\ UNCHANGED <<fleet, reserved, claim, sample, control>>

\* The reservation is cancelled or its time is over, also during its evacuation.
Cancelled ==
  /\ reserved /\ reserved' = FALSE /\ vacated' = FALSE
  /\ UNCHANGED <<fleet, claim, sample, control, op>>

Environment ==
  RoundPublished \/ Cancelled \/ (\E m \in Models : Placed(m) \/ ModelMoves(m) \/ AccountMoves(m))
Admission(o) ==
  \/ \E kind \in Requests : Begin(o, kind)
  \/ \E m \in Models : AdmitWake(o, m) \/ AdmitPreload(o, m) \/ Claims(o, m)
  \/ \E m \in Models, act \in {"sleep", "stop"} : AdmitAction(o, m, act) \/ AdmitCycle(o, m, act)
  \/ RecoveryWakes(o) \/ Resumes(o)
Observation(o) ==
  \/ WakeRequested(o) \/ Observes(o) \/ Migrated(o) \/ Replans(o) \/ WakeReturns(o)
  \/ Completes(o) \/ Vacates(o) \/ Finishes(o)
Next == Environment \/ \E o \in Ops : Admission(o) \/ Observation(o)
Spec == Init /\ [][Next]_vars

-----------------------------------------------------------------------------
(* Properties *)

\* Whatever runs and however it ends, `pending` holds exactly the models an
\* operation has, and a model has one operation: nobody gives back a model of
\* another one and nobody leaves one behind (the `finally` blocks of actions.py).
Exclusive ==
  /\ pending = {m \in Models : \E o \in Ops : op[o].owned /\ op[o].model = m}
  /\ \A o, p \in Ops : op[o].owned /\ op[p].owned /\ op[o].model = op[p].model => o = p

\* A durable claim and an operation exclude each other in both orders: while a
\* model is claimed only the recovery itself has it (_recovery_pending, _exclusions).
FenceExclusive ==
  claim # None => \A o \in Ops : op[o].owned /\ op[o].model = claim => op[o].kind = "recover"

\* The flags stand for what runs: free_active for one free, `active` for one
\* automatic cycle, and no cycle runs beside a pass of the recovery.
FlagsMatch ==
  LET running(kinds) == {o \in Ops : op[o].kind \in kinds} IN
  /\ Cardinality(running({"free"})) = (IF free THEN 1 ELSE 0)
  /\ Cardinality(running({"auto"})) = (IF auto THEN 1 ELSE 0)
  /\ Cardinality(running({"auto", "recover"})) <= 1

\* After an evacuation was reported complete the GPU has no account while the
\* reservation lasts: neither an account granted before it nor a later start
\* is overlooked (ReservationController._plan).
Vacated == vacated => \A m \in Models : here[m] => account[m] = "none"

\* The operations keep apart, whatever runs beside each other and however it ends.
OperationsApart == TypeOK /\ Exclusive /\ FenceExclusive /\ FlagsMatch /\ Vacated
=============================================================================
