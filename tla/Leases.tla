------------------------------- MODULE Leases -------------------------------
(***************************************************************************)
(* The placement lease protocol: the durable account of a model's GPU      *)
(* budget (llmsvc/store.py), the controller that grants, confirms and      *)
(* releases it (llmsvc/leases.py), the launcher that holds the model's     *)
(* file lock and starts its systemd unit (deploy/vllm-launch), the         *)
(* collector whose published round the controller reads, and systemd.      *)
(*                                                                         *)
(* A step under the controller's action lock that talks to systemd before  *)
(* it writes is two steps here (section), because systemd and the launcher *)
(* move in between; so is a reconcile probe, which is taken with the lock  *)
(* released.                                                               *)
(***************************************************************************)
EXTENDS Integers, Sequences, FiniteSets

CONSTANTS
  Models,       \* configured models; unit vllm-<model>.service each
  Gpus,         \* the cards of the placement pool
  LeaseIds,     \* the ids uuid4 may return: their number bounds the grants
  Budget,       \* [Models -> Nat], full budget of a model
  Capacity,     \* [Gpus -> Nat], total minus the external usage of a card
  MaxRestarts,  \* bound: scheduler restarts in a behaviour
  StartsInTime, \* TRUE: no expiry, restart or systemd-run timeout falls between
                \* a grant and the end of its systemd-run, and no expiry between
                \* a probe and its use (15 minutes against a few seconds)
  None

ASSUME ModelsAssumption == IsFiniteSet(Models)
ASSUME BudgetAssumption == Budget \in [Models -> Nat]
ASSUME CapacityAssumption == Capacity \in [Gpus -> Nat]
ASSUME BoundsAssumption == MaxRestarts \in Nat /\ StartsInTime \in BOOLEAN
ASSUME NoneAssumption == None \notin Models \cup Gpus \cup LeaseIds

VARIABLES
  row,       \* llmsvc_leases: the durable ledger
  overdue,   \* leases past expires_at, or carried over a restart (recovered)
  unit,      \* systemd: the unit of each model and the lease in its environment
  starts,    \* systemd: start calls received and not executed yet
  launcher,  \* the vllm-launch process that holds the model's lock
  places,    \* POST /v1/place handlers that are still running
  section,   \* the handler that holds action_lock between a probe and a write
  probe,     \* the reconcile probe taken outside the lock
  round,     \* the collector round under way: the units it has read
  sample,    \* the published round, or None when it is stale or has errors
  restarts

ledger == <<row, overdue>>
systemd == <<unit, starts>>
control == <<places, section, probe, round, sample, restarts>>
vars == <<row, overdue, unit, starts, launcher, places, section, probe, round,
          sample, restarts>>

-----------------------------------------------------------------------------
(* State *)

OpenStatus == {"pending", "stale", "confirmed"}
Phases == {"absent", "loading", "serving", "stopping"}
HoldingStages == {"granted", "starting", "failed", "monitoring", "confirming",
                  "releasing", "revoking", "stopping"}

Lease == [status : {"none", "released"} \cup OpenStatus,
          model : Models \cup {None}, gpu : Gpus \cup {None}]
NoUnit == [phase |-> "absent", lease |-> None]
Unit == {NoUnit} \cup [phase : Phases \ {"absent"}, lease : LeaseIds]
Launcher == [stage : {"idle", "placing"}, lease : {None}]
            \cup [stage : HoldingStages, lease : LeaseIds]
Place == [model : Models, heard : BOOLEAN, victim : Models \cup {None}]
Section ==
  [op : {"place"}, handler : Place, gpu : Gpus]
  \cup [op : {"evict"}, handler : Place, gpu : Gpus, victim : Models, lease : LeaseIds]
  \cup [op : {"confirm", "release"}, lease : LeaseIds, seen : BOOLEAN]
Probe == [lease : LeaseIds, status : OpenStatus, exited : BOOLEAN, active : BOOLEAN]
Sample == [Models -> [state : {"stopped", "unknown", "serving"}, gpu : Gpus \cup {None}]]

TypeOK ==
  /\ row \in [LeaseIds -> Lease]
  /\ overdue \subseteq LeaseIds
  /\ unit \in [Models -> Unit]
  /\ starts \in [Models -> Seq(LeaseIds)]
  /\ launcher \in [Models -> Launcher]
  /\ places \subseteq Place
  /\ section \in Section \cup {None}
  /\ probe \in Probe \cup {None}
  /\ round \in [Models -> Gpus \cup {None}] \cup {None}
  /\ sample \in Sample \cup {None}
  /\ restarts \in 0..MaxRestarts

NoLease == [status |-> "none", model |-> None, gpu |-> None]
Idle == [stage |-> "idle", lease |-> None]
Handler(m) == [model |-> m, heard |-> TRUE, victim |-> None]

Init ==
  /\ row = [l \in LeaseIds |-> NoLease]
  /\ overdue = {}
  /\ unit = [m \in Models |-> NoUnit]
  /\ starts = [m \in Models |-> <<>>]
  /\ launcher = [m \in Models |-> Idle]
  /\ places = {}
  /\ section = None
  /\ probe = None
  /\ round = None
  /\ sample = None
  /\ restarts = 0

-----------------------------------------------------------------------------
(* What the controller derives from the ledger and the published round *)

Outstanding(l) == row[l].status \in OpenStatus
OfModel(m) == {l \in LeaseIds : Outstanding(l) /\ row[l].model = m}
OnGpu(g) == {l \in LeaseIds : Outstanding(l) /\ row[l].gpu = g}

\* Merging the rows into the snapshot adds an error: a daemon on another card,
\* or a confirmed account whose daemon was not seen awake or sleeping.
AccountingConflict ==
  \E l \in LeaseIds :
    /\ Outstanding(l)
    /\ LET seen == sample[row[l].model] IN
         IF seen.state = "serving" THEN seen.gpu # row[l].gpu
                                   ELSE row[l].status = "confirmed"

Trusted == sample # None /\ ~AccountingConflict

\* Bug: a card is charged with what the round saw on it only.
ChargedBySample(g) == {m \in Models : sample[m] = [state |-> "serving", gpu |-> g]}

\* The models charged to a card: daemons seen on it and unconfirmed leases.
Charged(g) ==
  {m \in Models : \/ sample[m] = [state |-> "serving", gpu |-> g]
                  \/ \E l \in OfModel(m) : row[l].gpu = g /\ row[l].status # "confirmed"}

\* The sum of budgets is the number of their units, each with its owner: a sum
\* in a form that is reasoned about without induction.
Shares(S, size) == UNION {{x} \X (1 .. size[x]) : x \in S}
SumOf(S, size) == Cardinality(Shares(S, size))

Total(S) == SumOf(S, Budget)
Available(g) == Capacity[g] - Total(Charged(g))

\* A daemon in an unknown state blocks its card.
Uncertain(g) == \E m \in Models : sample[m] = [state |-> "unknown", gpu |-> g]

\* Bug: the ledger is not searched for an account the model already has.
AdmissibleTwice(m) == Trusted /\ sample[m].state = "stopped"

Admissible(m) == Trusted /\ OfModel(m) = {} /\ sample[m].state = "stopped"

Fits(m, g) == Admissible(m) /\ ~Uncertain(g) /\ Available(g) >= Budget[m]

\* Models whose stop a place handler is still observing (controller.pending).
Pending == {p.victim : p \in places} \ {None}

\* Daemons a plan may stop on g: accounted, confirmed, not already being stopped.
Evictable(g) ==
  {v \in Models \ Pending : /\ sample[v] = [state |-> "serving", gpu |-> g]
                            /\ \E l \in OfModel(v) : row[l].status = "confirmed"}

\* No card has room, and stopping v with some other daemons of g makes some.
EvictionPlan(m, g, v) ==
  /\ Admissible(m)
  /\ \A h \in Gpus : ~Fits(m, h)
  /\ ~Uncertain(g)
  /\ v # m
  /\ \E S \in SUBSET Evictable(g) : v \in S /\ Available(g) + Total(S) >= Budget[m]

\* The raw published round, without the overlay of rows.
SeenHealthy(l) == sample # None /\ sample[row[l].model] = [state |-> "serving", gpu |-> row[l].gpu]
SeenStopped(l) == sample # None /\ sample[row[l].model].state = "stopped"

\* Bug: the unit's environment is not compared with the lease.
ActiveByName(l) == unit[row[l].model].phase \in {"loading", "serving"}

\* What systemctl show tells of the unit of lease l.
ProbeActive(l) ==
  /\ unit[row[l].model].phase \in {"loading", "serving"}
  /\ unit[row[l].model].lease = l
\* Bug: inactive is taken for exited.
ExitedWhenInactive(l) == unit[row[l].model].phase \in {"absent", "stopping"}

ProbeExited(l) == unit[row[l].model].phase = "absent"

-----------------------------------------------------------------------------
(* vllm-launch *)

Starting(m) == launcher[m].stage \in {"granted", "starting"} \/ starts[m] # <<>>

Go(m, stage) == launcher' = [launcher EXCEPT ![m].stage = stage]
\* Bug: the launcher forgets its stage but not its lease.
LeaveWithLease(m) == Go(m, "idle")

Leave(m) == launcher' = [launcher EXCEPT ![m] = Idle]

\* The lock is taken, no unit exists, the scheduler is asked for a place.
PlaceRequest(m) ==
  /\ launcher[m].stage = "idle" /\ unit[m].phase = "absent"
  /\ Go(m, "placing")
  /\ places' = places \cup {Handler(m)}
  /\ UNCHANGED <<ledger, systemd, section, probe, round, sample, restarts>>

StartSubmit(m) ==
  /\ launcher[m].stage = "granted"
  /\ Go(m, "starting")
  /\ starts' = [starts EXCEPT ![m] = Append(@, launcher[m].lease)]
  /\ UNCHANGED <<ledger, unit, control>>

\* systemd-run gave no answer in time: rc 124, the call may still be executed.
StartTimeout(m) ==
  /\ ~StartsInTime
  /\ launcher[m].stage = "starting"
  /\ Go(m, "failed")
  /\ UNCHANGED <<ledger, systemd, control>>

\* A failed start releases only when the unit is gone, otherwise keeps the budget.
AfterFailedStart(m) ==
  /\ launcher[m].stage = "failed"
  /\ IF unit[m].phase = "absent" THEN Go(m, "releasing") ELSE Leave(m)
  /\ UNCHANGED <<ledger, systemd, control>>

MonitorExit(m) ==
  /\ launcher[m].stage = "monitoring" /\ unit[m].phase = "absent"
  /\ Go(m, "releasing")
  /\ UNCHANGED <<ledger, systemd, control>>

\* The health URL is the model's port: any daemon of the model may answer it.
MonitorHealthy(m) ==
  /\ launcher[m].stage = "monitoring" /\ unit[m].phase = "serving"
  /\ Go(m, "confirming")
  /\ UNCHANGED <<ledger, systemd, control>>

\* Startup timeout, or an inactive unit that still has processes.
MonitorGivesUp(m) ==
  /\ launcher[m].stage = "monitoring" /\ unit[m].phase # "absent"
  /\ Leave(m)
  /\ UNCHANGED <<ledger, systemd, control>>

\* stop_owned_unit reads the unit's environment, then stops it by name.
RevokeCheck(m) ==
  /\ launcher[m].stage = "revoking"
  /\ IF unit[m].lease = launcher[m].lease THEN Go(m, "stopping") ELSE Leave(m)
  /\ UNCHANGED <<ledger, systemd, control>>

Stopped(u) == IF u.phase = "absent" THEN u ELSE [u EXCEPT !.phase = "stopping"]

RevokeStop(m) ==
  /\ launcher[m].stage = "stopping"
  /\ unit' = [unit EXCEPT ![m] = Stopped(@)]
  /\ Leave(m)
  /\ UNCHANGED <<ledger, starts, control>>

Unheard(p, m) == [p EXCEPT !.heard = p.heard /\ p.model # m]
Deciding == section # None /\ section.op \in {"place", "evict"}

\* Killed, or an answer it could not get: the process exits, its request goes on.
LauncherDies(m) ==
  /\ launcher[m].stage # "idle"
  /\ Leave(m)
  /\ places' = {Unheard(p, m) : p \in places}
  /\ section' = IF Deciding THEN [section EXCEPT !.handler = Unheard(@, m)] ELSE section
  /\ UNCHANGED <<ledger, systemd, probe, round, sample, restarts>>

-----------------------------------------------------------------------------
(* systemd and the daemons *)

\* The next start call of the unit: it fails when the unit exists.
SystemdStart(m) ==
  /\ starts[m] # <<>>
  /\ LET l == Head(starts[m])
         free == unit[m].phase = "absent"
         waited == launcher[m] = [stage |-> "starting", lease |-> l]
     IN /\ unit' = IF free THEN [unit EXCEPT ![m] = [phase |-> "loading", lease |-> l]]
                           ELSE unit
        /\ IF waited THEN Go(m, IF free THEN "monitoring" ELSE "failed")
                     ELSE UNCHANGED launcher
  /\ starts' = [starts EXCEPT ![m] = Tail(@)]
  /\ UNCHANGED <<ledger, control>>

UnitMoves(m, from, to) ==
  /\ unit[m].phase \in from
  /\ unit' = [unit EXCEPT ![m] = IF to = "absent" THEN NoUnit ELSE [@ EXCEPT !.phase = to]]
  /\ UNCHANGED <<ledger, starts, launcher, control>>

UnitReady(m) == UnitMoves(m, {"loading"}, "serving")
UnitUnwell(m) == UnitMoves(m, {"serving"}, "loading")
\* Stopped by an operator or by another controller of the scheduler.
UnitStop(m) == UnitMoves(m, {"loading", "serving"}, "stopping")
UnitExit(m) == UnitMoves(m, {"loading", "serving", "stopping"}, "absent")

-----------------------------------------------------------------------------
(* The sampler *)

\* One systemctl show reads all units; the daemons are asked afterwards.
RoundBegin ==
  /\ round = None
  /\ round' = [m \in Models |-> IF unit[m].phase = "absent" THEN None
                                ELSE row[unit[m].lease].gpu]
  /\ UNCHANGED <<ledger, systemd, launcher, places, section, probe, sample, restarts>>

\* What the health and sleeping probes of a unit read as active may answer.
Answers(m) ==
  CASE unit[m].phase = "serving" -> {"serving"}
    [] unit[m].phase = "stopping" -> {"serving", "unknown"}
    [] OTHER -> {"unknown"}

\* Publication needs the action lock, and outdates a probe taken before it.
RoundPublish ==
  /\ round # None /\ section = None
  /\ \E state \in [Models -> {"stopped", "serving", "unknown"}] :
       /\ \A m \in Models : IF round[m] = None THEN state[m] = "stopped"
                                               ELSE state[m] \in Answers(m)
       /\ sample' = [m \in Models |-> [state |-> state[m], gpu |-> round[m]]]
  /\ round' = None
  /\ probe' = None
  /\ UNCHANGED <<ledger, systemd, launcher, places, section, restarts>>

\* A source failed: the round is published with errors and nothing trusts it.
RoundFails ==
  /\ round # None /\ section = None
  /\ round' = None /\ sample' = None /\ probe' = None
  /\ UNCHANGED <<ledger, systemd, launcher, places, section, restarts>>

SampleAges ==
  /\ sample # None
  /\ sample' = None
  /\ UNCHANGED <<ledger, systemd, launcher, places, section, probe, round, restarts>>

-----------------------------------------------------------------------------
(* POST /v1/place *)

Ends(p) == places' = places \ {p}

\* Bug: any launcher of the model takes the answer.
AnswerAny(p, answer) == launcher' = [launcher EXCEPT ![p.model] = answer]

\* The launcher that still waits for handler p, if any, gets its answer.
Answer(p, answer) ==
  launcher' = IF p.heard THEN [launcher EXCEPT ![p.model] = answer] ELSE launcher

\* Under the lock: a card has room and the unit does not exist.
PlaceProbe(p, g) ==
  /\ section = None /\ p \in places /\ p.victim = None
  /\ Fits(p.model, g) /\ unit[p.model].phase = "absent"
  /\ \E l \in LeaseIds : row[l].status = "none"  \* the bound on grants
  /\ section' = [op |-> "place", handler |-> p, gpu |-> g]
  /\ UNCHANGED <<ledger, systemd, launcher, places, probe, round, sample, restarts>>

\* Decide again, then write the row and return it; a changed decision waits.
Grant ==
  /\ section # None /\ section.op = "place"
  /\ section' = None
  /\ LET p == section.handler IN
     IF Fits(p.model, section.gpu)
     THEN \E l \in LeaseIds :
            /\ row[l].status = "none"
            /\ row' = [row EXCEPT ![l] = [status |-> "pending", model |-> p.model, gpu |-> section.gpu]]
            /\ Ends(p)
            /\ Answer(p, [stage |-> "granted", lease |-> l])
     ELSE UNCHANGED <<row, places, launcher>>
  /\ UNCHANGED <<overdue, systemd, probe, round, sample, restarts>>

\* Under the lock: a victim of the plan, its unit active with the account's token.
EvictProbe(p, g, v) ==
  /\ section = None /\ p \in places /\ p.victim = None
  /\ EvictionPlan(p.model, g, v)
  /\ \E l \in OfModel(v) :
       /\ ProbeActive(l)
       /\ section' = [op |-> "evict", handler |-> p, gpu |-> g, victim |-> v, lease |-> l]
  /\ UNCHANGED <<ledger, systemd, launcher, places, probe, round, sample, restarts>>

\* Decide again and submit systemctl stop; the submission itself may fail.
EvictStop ==
  /\ section # None /\ section.op = "evict"
  /\ section' = None
  /\ LET p == section.handler
         v == section.victim
     IN IF EvictionPlan(p.model, section.gpu, v)
        THEN /\ places' = (places \ {p}) \cup {[p EXCEPT !.victim = v]}
             /\ unit' \in {unit, [unit EXCEPT ![v] = Stopped(@)]}
        ELSE UNCHANGED <<places, unit>>
  /\ UNCHANGED <<ledger, starts, launcher, probe, round, sample, restarts>>

\* Fresh rounds show the victim stopped and its account released: plan anew.
EvictSeen(p) ==
  /\ section = None /\ p \in places /\ p.victim # None
  /\ Trusted /\ sample[p.victim].state = "stopped" /\ OfModel(p.victim) = {}
  /\ places' = (places \ {p}) \cup {[p EXCEPT !.victim = None]}
  /\ UNCHANGED <<ledger, systemd, launcher, section, probe, round, sample, restarts>>

\* 409 outstanding_lease or placement_timeout, 503 no_feasible_gpu or no progress.
PlaceFails(p) ==
  /\ section = None /\ p \in places
  /\ Ends(p)
  /\ Answer(p, Idle)
  /\ UNCHANGED <<ledger, systemd, section, probe, round, sample, restarts>>

-----------------------------------------------------------------------------
(* POST /v1/place/<lease>/confirm and /release, called by the launcher *)

Transition(l, status) ==
  /\ row' = [row EXCEPT ![l].status = status]
  /\ overdue' = overdue \ {l}

FinishProbe(m) ==
  LET l == launcher[m].lease
      status == row[l].status
      Asks(stage) == launcher[m].stage = stage
      Enter(op, seen) == /\ section' = [op |-> op, lease |-> l, seen |-> seen]
                         /\ UNCHANGED launcher
  IN /\ section = None
     /\ \/ Asks("confirming") /\ status = "released" /\ Go(m, "revoking") /\ UNCHANGED section  \* 409
        \/ Asks("confirming") /\ status = "confirmed" /\ Leave(m) /\ UNCHANGED section  \* 200
        \/ Asks("releasing") /\ status = "released" /\ Leave(m) /\ UNCHANGED section  \* 200
        \/ Asks("confirming") /\ status \in {"pending", "stale"} /\ Enter("confirm", ProbeActive(l))
        \/ Asks("releasing") /\ Outstanding(l) /\ Enter("release", ProbeExited(l))
     /\ UNCHANGED <<ledger, systemd, places, probe, round, sample, restarts>>

\* Written when the published round agrees with the probe, otherwise 503.
FinishWrite ==
  /\ section # None /\ section.op \in {"confirm", "release"}
  /\ section' = None
  /\ LET l == section.lease
         m == row[l].model
     IN /\ IF section.seen /\ section.op = "confirm" /\ SeenHealthy(l)
           THEN Transition(l, "confirmed")
           ELSE IF section.seen /\ section.op = "release" /\ SeenStopped(l)
                THEN Transition(l, "released")
                ELSE UNCHANGED ledger
        /\ IF launcher[m].lease = l /\ launcher[m].stage \in {"confirming", "releasing"}
           THEN Leave(m) ELSE UNCHANGED launcher
  /\ UNCHANGED <<systemd, places, probe, round, sample, restarts>>

-----------------------------------------------------------------------------
(* reconcile: a probe with the lock released, applied if nothing moved since *)

ReconcileProbe(l) ==
  /\ section = None /\ Outstanding(l)
  /\ probe' = [lease |-> l, status |-> row[l].status,
               exited |-> ProbeExited(l), active |-> ProbeActive(l)]
  /\ UNCHANGED <<ledger, systemd, launcher, places, section, round, sample, restarts>>

ProbeOf(l) == probe # None /\ probe.lease = l
Applies(l) == section = None /\ ProbeOf(l) /\ probe.status = row[l].status

\* Bug: a stale account is never looked at again.
MayExitNotStale(l) == (row[l].status = "confirmed" \/ l \in overdue) /\ probe.exited /\ SeenStopped(l)

\* Bug: the published round alone is believed.
MayExitBySample(l) == (row[l].status \in {"confirmed", "stale"} \/ l \in overdue) /\ SeenStopped(l)

MayExit(l) == (row[l].status \in {"confirmed", "stale"} \/ l \in overdue) /\ probe.exited /\ SeenStopped(l)
MayConfirm(l) == row[l].status # "confirmed" /\ probe.active /\ SeenHealthy(l)

ReconcileRelease(l) ==
  /\ Applies(l) /\ MayExit(l)
  /\ Transition(l, "released") /\ probe' = None
  /\ UNCHANGED <<systemd, launcher, places, section, round, sample, restarts>>

ReconcileConfirm(l) ==
  /\ Applies(l) /\ ~MayExit(l) /\ MayConfirm(l)
  /\ Transition(l, "confirmed") /\ probe' = None
  /\ UNCHANGED <<systemd, launcher, places, section, round, sample, restarts>>

\* Bug: a confirmed account becomes stale as well.
StaleAny(l) ==
  /\ Applies(l) /\ ~MayExit(l) /\ ~MayConfirm(l)
  /\ row[l].status = "confirmed" \/ l \in overdue
  /\ Transition(l, "stale") /\ probe' = None
  /\ UNCHANGED <<systemd, launcher, places, section, round, sample, restarts>>

ReconcileStale(l) ==
  /\ Applies(l) /\ ~MayExit(l) /\ ~MayConfirm(l)
  /\ row[l].status = "pending" /\ l \in overdue
  /\ Transition(l, "stale") /\ probe' = None
  /\ UNCHANGED <<systemd, launcher, places, section, round, sample, restarts>>

Expire(l) ==
  /\ row[l].status = "pending" /\ l \notin overdue
  /\ StartsInTime => ~Starting(row[l].model) /\ ~ProbeOf(l)
  /\ overdue' = overdue \cup {l}
  /\ UNCHANGED <<row, systemd, launcher, control>>

\* The scheduler process ends and starts again: only the ledger survives, its
\* outstanding leases are marked recovered, clients get a connection error.
Restart ==
  /\ restarts < MaxRestarts
  /\ StartsInTime => \A m \in Models : ~Starting(m)
  /\ restarts' = restarts + 1
  /\ overdue' = {l \in LeaseIds : row[l].status = "pending"}
  /\ launcher' = [m \in Models |->
       IF launcher[m].stage \in {"placing", "confirming", "releasing"} THEN Idle ELSE launcher[m]]
  /\ places' = {} /\ section' = None /\ probe' = None /\ round' = None /\ sample' = None
  /\ UNCHANGED <<row, systemd>>

-----------------------------------------------------------------------------
Launch(m) ==
  \/ PlaceRequest(m) \/ StartSubmit(m) \/ StartTimeout(m) \/ AfterFailedStart(m)
  \/ MonitorExit(m) \/ MonitorHealthy(m) \/ MonitorGivesUp(m)
  \/ RevokeCheck(m) \/ RevokeStop(m) \/ LauncherDies(m)

Daemon(m) == SystemdStart(m) \/ UnitReady(m) \/ UnitUnwell(m) \/ UnitStop(m) \/ UnitExit(m)

Sampler == RoundBegin \/ RoundPublish \/ RoundFails \/ SampleAges

Placement ==
  \/ \E p \in places : \/ \E g \in Gpus : PlaceProbe(p, g)
                       \/ \E g \in Gpus, v \in Models : EvictProbe(p, g, v)
                       \/ EvictSeen(p) \/ PlaceFails(p)
  \/ Grant \/ EvictStop

Account(l) ==
  \/ ReconcileProbe(l) \/ ReconcileRelease(l) \/ ReconcileConfirm(l)
  \/ ReconcileStale(l) \/ Expire(l)

Next ==
  \/ \E m \in Models : Launch(m) \/ Daemon(m) \/ FinishProbe(m)
  \/ Sampler \/ Placement \/ FinishWrite
  \/ \E l \in LeaseIds : Account(l)
  \/ Restart

Spec == Init /\ [][Next]_vars

-----------------------------------------------------------------------------
(* Properties *)

\* The ledger never promises more of a card than it has: the sum of all budgets
\* not yet released, whatever the daemons do (create_lease after _decision).
LedgerFits ==
  \A g \in Gpus : SumOf(OnGpu(g), [l \in OnGpu(g) |-> Budget[row[l].model]]) <= Capacity[g]

\* A model has one account at most: two place handlers of one model, one of them
\* abandoned by its client, cannot both write a row.
OneAccount == \A m \in Models : \A k, l \in OfModel(m) : k = l

\* The unit that runs under a confirmed account is the one that account started.
ConfirmedIsRunning ==
  \A l \in LeaseIds :
    row[l].status = "confirmed" => unit[row[l].model].lease \in {l, None}

\* A confirmed budget is given back only when no process of the model is left
\* ("only after confirming that the process holds no memory", DESIGN section 5).
ReleasedAfterExit ==
  [][\A l \in LeaseIds :
       row[l].status = "confirmed" /\ row'[l].status = "released"
         => unit[row[l].model].phase = "absent"]_vars

\* A stop the scheduler or a launcher submits by unit name still hits the unit
\* whose token it checked a step before.
StopsCheckedUnit ==
  [][\A m \in Models :
       /\ EvictStop /\ unit'[m] # unit[m] => unit[m].lease = section.lease
       /\ RevokeStop(m) => unit[m].lease \in {launcher[m].lease, None}]_vars

\* When starts are executed in time the units themselves fit on their cards: no
\* second request is given memory that a daemon still holds.
UnitsFit ==
  \A g \in Gpus :
    Total({m \in Models : unit[m].phase # "absent" /\ row[unit[m].lease].gpu = g}) <= Capacity[g]

-----------------------------------------------------------------------------
(* Fairness: the lock holder finishes (every probe has a deadline), the sampler *)
(* thread runs and not every round fails, reconcile's cursor reaches every row  *)
(* again and again after a good round, the clock passes expires_at, systemd     *)
(* executes its calls and a launcher that is alive goes on.                     *)
Fairness ==
  /\ WF_vars(Grant) /\ WF_vars(EvictStop) /\ WF_vars(FinishWrite)
  /\ WF_vars(RoundBegin) /\ SF_vars(RoundPublish)
  /\ \A l \in LeaseIds :
       /\ WF_vars(Expire(l))
       /\ SF_vars(sample # None /\ ReconcileProbe(l))
       /\ SF_vars(ReconcileRelease(l)) /\ SF_vars(ReconcileConfirm(l))
  /\ \A m \in Models :
       /\ WF_vars(SystemdStart(m)) /\ WF_vars(StartSubmit(m)) /\ WF_vars(AfterFailedStart(m))
       /\ WF_vars(MonitorExit(m)) /\ WF_vars(MonitorHealthy(m)) /\ SF_vars(FinishProbe(m))
       /\ WF_vars(RevokeCheck(m)) /\ WF_vars(RevokeStop(m))

FairSpec == Spec /\ Fairness

\* A budget whose process is gone, or never came, is given back: neither a dead
\* launcher, nor a lost answer, nor a restart leaks it (reconcile).
BudgetComesBack ==
  \A l \in LeaseIds :
    Outstanding(l) /\ unit[row[l].model].phase = "absent"
      ~> ~Outstanding(l) \/ unit[row[l].model].phase # "absent"

\* DESIGN section 5, item 5: a unit without a valid lease is stopped, by the
\* launcher that got a 409 or by the scheduler that finds it.
RevokedUnitIsStopped ==
  \A l \in LeaseIds, m \in Models :
    row[l].status = "released" /\ unit[m] = [phase |-> "serving", lease |-> l]
      ~> unit[m] # [phase |-> "serving", lease |-> l]

-----------------------------------------------------------------------------
(* The inductive invariant behind ConfirmedIsRunning, ReleasedAfterExit and *)
(* StopsCheckedUnit: where the token of an account can be.                  *)

Queued(m) == {starts[m][i] : i \in DOMAIN starts[m]}

\* Every token in the system belongs to an account of that model.
Tokens ==
  \A m \in Models :
    /\ \A l \in LeaseIds :
         l \in Queued(m) \/ l \in {unit[m].lease, launcher[m].lease}
           => row[l].status # "none" /\ row[l].model = m

Rows ==
  \A l \in LeaseIds : row[l].status = "none" \/ (row[l].model \in Models /\ row[l].gpu \in Gpus)

\* A start call is submitted once, and nothing is submitted behind a launcher
\* that waits for its own.
Queues ==
  \A m \in Models :
    /\ \A i, j \in DOMAIN starts[m] : starts[m][i] = starts[m][j] => i = j
    /\ launcher[m].stage = "granted"
         => launcher[m].lease \notin Queued(m) \cup {unit[m].lease}
    /\ launcher[m].stage = "starting"
         => starts[m] # <<>> /\ starts[m][Len(starts[m])] = launcher[m].lease
    /\ launcher[m].stage \in {"monitoring", "confirming", "revoking", "stopping"}
         => starts[m] = <<>>
    /\ launcher[m].stage = "stopping" => unit[m].lease \in {launcher[m].lease, None}

\* Nothing can start for the model of l any more except what already runs.
Settled(l) ==
  LET m == row[l].model IN
    /\ starts[m] = <<>>
    /\ launcher[m].stage \notin {"granted", "starting"}
    /\ unit[m].lease \in {l, None}

OutstandingTokens ==
  \A l \in LeaseIds : Outstanding(l) =>
    LET m == row[l].model IN
    /\ l \in Queued(m) \/ unit[m].lease = l => launcher[m].lease \in {l, None}
    /\ \A i \in DOMAIN starts[m] : starts[m][i] = l => i = Len(starts[m])
    /\ unit[m].lease = l \/ row[l].status = "confirmed" => Settled(l)

\* What a probe saw of a confirmed account, or of the account it confirms, lasts.
Evidence ==
  /\ probe # None =>
       /\ row[probe.lease].status # "none"
       /\ probe.active /\ Outstanding(probe.lease) => Settled(probe.lease)
       /\ probe.status = "confirmed" => row[probe.lease].status \in {"confirmed", "released"}
       /\ probe.exited /\ probe.status = "confirmed" /\ row[probe.lease].status = "confirmed"
            => unit[row[probe.lease].model].phase = "absent"
  /\ section # None /\ section.op \in {"confirm", "release"} =>
       /\ Outstanding(section.lease)
       /\ section.op = "confirm" /\ section.seen => Settled(section.lease)
       /\ section.op = "release" /\ section.seen /\ row[section.lease].status = "confirmed"
            => unit[row[section.lease].model].phase = "absent"
  /\ section # None /\ section.op = "evict" =>
       row[section.lease].status = "confirmed" /\ row[section.lease].model = section.victim

\* A launcher that waits for a place is heard by one handler at most.
Handlers ==
  /\ Deciding => section.handler \in places
  /\ \A p \in places : p.heard => launcher[p.model].stage = "placing"
  /\ \A p, q \in places : p.heard /\ q.heard /\ p.model = q.model => p = q

ProtocolInv ==
  /\ TypeOK /\ OneAccount /\ Tokens /\ Rows /\ Queues /\ OutstandingTokens /\ Evidence /\ Handlers

-----------------------------------------------------------------------------
(* The protocol keeps the promise of LeaseLedger: every step of a launcher,  *)
(* handler, probe, round or unit is one of its account steps or a stutter.   *)
Ledger == INSTANCE LeaseLedger WITH
            account <- row, alive <- {m \in Models : unit[m].phase # "absent"}
LedgerSpec == Ledger!Spec
=============================================================================
