---------------------------- MODULE LeasesProofs ----------------------------
(***************************************************************************)
(* Proofs about Leases: type correctness and the invariants of its tokens; *)
(* then its budgets: the ledger never promises more of a card than it has, *)
(* daemons that start in time fit on their cards, and the protocol         *)
(* implements LeaseLedger.                                                 *)
(*                                                                         *)
(* At the end DirectoryReconciler, which stops and unregisters models: its *)
(* decisions are justified by what the directories declared.               *)
(***************************************************************************)
EXTENDS Leases, DirectoryReconciler, FiniteSetTheorems, TLAPS

USE DEF ledger, systemd, control, vars

-----------------------------------------------------------------------------
(* Type correctness *)

\* A launcher that goes on to a stage keeps its lease and its type.
LEMMA GoType ==
  ASSUME TypeOK, NEW m \in Models, NEW stage \in HoldingStages,
         launcher[m].stage \in HoldingStages, Go(m, stage)
  PROVE  launcher' \in [Models -> Launcher]
<1>1. launcher[m] \in [stage : HoldingStages, lease : LeaseIds]
  BY DEF TypeOK, Launcher, HoldingStages
<1>2. [launcher[m] EXCEPT !.stage = stage] \in Launcher
  BY <1>1 DEF Launcher
<1>3. QED
  BY <1>2 DEF TypeOK, Go

\* An idle launcher that asks for a place is well typed.
LEMMA PlacingType ==
  ASSUME TypeOK, NEW m \in Models, launcher[m].stage = "idle", Go(m, "placing")
  PROVE  launcher' \in [Models -> Launcher]
<1>1. launcher[m] \in Launcher
  BY DEF TypeOK
<1>2. launcher[m] = Idle
  BY <1>1 DEF Launcher, Idle, HoldingStages
<1>3. [launcher[m] EXCEPT !.stage = "placing"] \in Launcher
  BY <1>2 DEF Launcher, Idle
<1>4. QED
  BY <1>3 DEF TypeOK, Go

\* A launcher that ends is idle and holds nothing.
LEMMA LeaveType ==
  ASSUME TypeOK, NEW m \in Models, Leave(m)
  PROVE  launcher' \in [Models -> Launcher]
BY DEF TypeOK, Leave, Idle, Launcher

\* A launcher past its place holds a lease.
LEMMA HoldingLease ==
  ASSUME TypeOK, NEW m \in Models, launcher[m].stage \in HoldingStages
  PROVE  launcher[m].lease \in LeaseIds
BY DEF TypeOK, Launcher, HoldingStages

\* A transition of the ledger writes a lease of the right type.
LEMMA TransitionType ==
  ASSUME TypeOK, NEW l \in LeaseIds, NEW status \in OpenStatus \cup {"released"},
         Transition(l, status)
  PROVE  row' \in [LeaseIds -> Lease] /\ overdue' \subseteq LeaseIds
BY DEF TypeOK, Transition, Lease, OpenStatus

\* A unit that is stopped is a unit.
LEMMA StoppedType ==
  ASSUME NEW u \in Unit PROVE Stopped(u) \in Unit
BY DEF Stopped, Unit, Phases, NoUnit

\* The steps of a launcher keep the types.
LEMMA LaunchType ==
  ASSUME TypeOK, NEW m \in Models, Launch(m) PROVE TypeOK'
<1>1. CASE PlaceRequest(m)
  <2>1. Handler(m) \in Place
    BY DEF Handler, Place
  <2>2. launcher' \in [Models -> Launcher]
    BY <1>1, PlacingType DEF PlaceRequest
  <2>3. QED
    BY <1>1, <2>1, <2>2 DEF PlaceRequest, TypeOK
<1>2. CASE StartSubmit(m)
  <2>1. launcher[m].lease \in LeaseIds
    BY <1>2, HoldingLease DEF StartSubmit, HoldingStages
  <2>2. launcher' \in [Models -> Launcher]
    BY <1>2, GoType DEF StartSubmit, HoldingStages
  <2>3. starts' \in [Models -> Seq(LeaseIds)]
    BY <1>2, <2>1 DEF StartSubmit, TypeOK
  <2>4. QED
    BY <1>2, <2>2, <2>3 DEF StartSubmit, TypeOK
<1>3. CASE StartTimeout(m) \/ AfterFailedStart(m) \/ MonitorExit(m) \/ MonitorHealthy(m)
           \/ MonitorGivesUp(m) \/ RevokeCheck(m)
  <2>1. launcher' \in [Models -> Launcher]
    BY <1>3, GoType, LeaveType
    DEF StartTimeout, AfterFailedStart, MonitorExit, MonitorHealthy, MonitorGivesUp,
        RevokeCheck, HoldingStages
  <2>2. QED
    BY <1>3, <2>1
    DEF TypeOK, StartTimeout, AfterFailedStart, MonitorExit, MonitorHealthy, MonitorGivesUp,
        RevokeCheck
<1>4. CASE RevokeStop(m)
  <2>1. launcher' \in [Models -> Launcher]
    BY <1>4, LeaveType DEF RevokeStop
  <2>2. unit' \in [Models -> Unit]
    BY <1>4, StoppedType DEF RevokeStop, TypeOK
  <2>3. QED
    BY <1>4, <2>1, <2>2 DEF RevokeStop, TypeOK
<1>5. CASE LauncherDies(m)
  <2>1. \A p \in Place : Unheard(p, m) \in Place
    BY DEF Unheard, Place
  <2>2. section' \in Section \cup {None}
    <3>1. CASE Deciding /\ section.op = "place"
      <4>1. section \in [op : {"place"}, handler : Place, gpu : Gpus]
        BY <3>1 DEF TypeOK, Section, Deciding
      <4>2. [section EXCEPT !.handler = Unheard(@, m)] \in Section
        BY <2>1, <4>1 DEF Section
      <4>3. QED
        BY <1>5, <3>1, <4>2 DEF LauncherDies
    <3>2. CASE Deciding /\ section.op = "evict"
      <4>1. section \in [op : {"evict"}, handler : Place, gpu : Gpus, victim : Models, lease : LeaseIds]
        BY <3>2 DEF TypeOK, Section, Deciding
      <4>2. [section EXCEPT !.handler = Unheard(@, m)] \in Section
        BY <2>1, <4>1 DEF Section
      <4>3. QED
        BY <1>5, <3>2, <4>2 DEF LauncherDies
    <3>3. QED
      BY <1>5, <3>1, <3>2 DEF LauncherDies, Deciding, TypeOK
  <2>3. launcher' \in [Models -> Launcher]
    BY <1>5, LeaveType DEF LauncherDies
  <2>4. QED
    BY <1>5, <2>1, <2>2, <2>3 DEF LauncherDies, TypeOK
<1>6. QED
  BY <1>1, <1>2, <1>3, <1>4, <1>5 DEF Launch

\* The steps of systemd and the daemon keep the types.
LEMMA DaemonType ==
  ASSUME TypeOK, NEW m \in Models, Daemon(m) PROVE TypeOK'
<1>1. CASE SystemdStart(m)
  <2>1. Head(starts[m]) \in LeaseIds /\ Tail(starts[m]) \in Seq(LeaseIds)
    BY <1>1 DEF SystemdStart, TypeOK
  <2>2. unit' \in [Models -> Unit]
    BY <1>1, <2>1 DEF SystemdStart, TypeOK, Unit, Phases, NoUnit
  <2>3. launcher' \in [Models -> Launcher]
    <3>1. CASE UNCHANGED launcher
      BY <3>1 DEF TypeOK
    <3>2. CASE launcher[m].stage = "starting" /\ \E s \in {"monitoring", "failed"} : Go(m, s)
      BY <3>2, GoType DEF HoldingStages
    <3>3. QED
      BY <1>1, <3>1, <3>2 DEF SystemdStart
  <2>4. starts' \in [Models -> Seq(LeaseIds)]
    BY <1>1, <2>1 DEF SystemdStart, TypeOK
  <2>5. QED
    BY <1>1, <2>2, <2>3, <2>4 DEF SystemdStart, TypeOK
<1>2. CASE UnitReady(m) \/ UnitUnwell(m) \/ UnitStop(m) \/ UnitExit(m)
  <2>1. unit[m] \in [phase : Phases \ {"absent"}, lease : LeaseIds]
    BY <1>2 DEF TypeOK, UnitReady, UnitUnwell, UnitStop, UnitExit, UnitMoves, Unit, NoUnit
  <2>2. \A to \in {"loading", "serving", "stopping"} : [unit[m] EXCEPT !.phase = to] \in Unit
    BY <2>1 DEF Unit, Phases
  <2>3. \E u \in Unit : unit' = [unit EXCEPT ![m] = u]
    BY <1>2, <2>2 DEF UnitReady, UnitUnwell, UnitStop, UnitExit, UnitMoves, Unit
  <2>4. unit' \in [Models -> Unit]
    BY <2>3 DEF TypeOK
  <2>5. QED
    BY <1>2, <2>4 DEF TypeOK, UnitReady, UnitUnwell, UnitStop, UnitExit, UnitMoves
<1>3. QED
  BY <1>1, <1>2 DEF Daemon

\* The steps of the sampler keep the types; a round only places units on known
\* cards.
LEMMA SamplerType == ASSUME TypeOK, Sampler PROVE TypeOK'
<1>1. CASE RoundBegin
  <2>1. ASSUME NEW m \in Models, unit[m].phase # "absent" PROVE row[unit[m].lease].gpu \in Gpus \cup {None}
    <3>1. unit[m].lease \in LeaseIds
      BY <2>1 DEF TypeOK, Unit, NoUnit
    <3>2. QED
      BY <3>1 DEF TypeOK, Lease
  <2>2. QED
    BY <1>1, <2>1 DEF RoundBegin, TypeOK
<1>2. CASE RoundPublish
  <2>1. round \in [Models -> Gpus \cup {None}]
    BY <1>2 DEF RoundPublish, TypeOK
  <2>2. sample' \in Sample
    BY <1>2, <2>1 DEF RoundPublish, Sample
  <2>3. QED
    BY <1>2, <2>2 DEF RoundPublish, TypeOK
<1>3. CASE RoundFails \/ SampleAges
  BY <1>3 DEF RoundFails, SampleAges, TypeOK
<1>4. QED
  BY <1>1, <1>2, <1>3 DEF Sampler

\* The steps of a place handler keep the types.
LEMMA PlacementType == ASSUME TypeOK, Placement PROVE TypeOK'
<1>1. ASSUME NEW p \in places, NEW g \in Gpus, PlaceProbe(p, g) PROVE TypeOK'
  <2>1. section' \in Section
    BY <1>1 DEF PlaceProbe, Section, TypeOK
  <2>2. QED
    BY <1>1, <2>1 DEF PlaceProbe, TypeOK
<1>2. ASSUME NEW p \in places, NEW g \in Gpus, NEW v \in Models, EvictProbe(p, g, v) PROVE TypeOK'
  <2>1. PICK l \in LeaseIds : section' = [op |-> "evict", handler |-> p, gpu |-> g, victim |-> v, lease |-> l]
    BY <1>2 DEF EvictProbe, OfModel
  <2>2. section' \in Section
    BY <2>1 DEF Section, TypeOK
  <2>3. QED
    BY <1>2, <2>2 DEF EvictProbe, TypeOK
<1>3. ASSUME NEW p \in places, EvictSeen(p) PROVE TypeOK'
  <2>1. [p EXCEPT !.victim = None] \in Place
    BY DEF Place, TypeOK
  <2>2. QED
    BY <1>3, <2>1 DEF EvictSeen, TypeOK
<1>4. ASSUME NEW p \in places, PlaceFails(p) PROVE TypeOK'
  <2>1. launcher' \in [Models -> Launcher]
    BY <1>4, NoneAssumption DEF PlaceFails, Answer, TypeOK, Place, Launcher, Idle
  <2>2. QED
    BY <1>4, <2>1 DEF PlaceFails, Ends, TypeOK
<1>5. CASE Grant
  <2>1. section \in [op : {"place"}, handler : Place, gpu : Gpus]
    BY <1>5 DEF Grant, TypeOK, Section
  <2>2. CASE ~Fits(section.handler.model, section.gpu)
    BY <1>5, <2>2 DEF Grant, TypeOK
  <2>3. CASE Fits(section.handler.model, section.gpu)
    <3>1. PICK l \in LeaseIds :
            /\ row' = [row EXCEPT ![l] = [status |-> "pending", model |-> section.handler.model, gpu |-> section.gpu]]
            /\ Ends(section.handler)
            /\ Answer(section.handler, [stage |-> "granted", lease |-> l])
      BY <1>5, <2>3 DEF Grant
    <3>2. row' \in [LeaseIds -> Lease]
      BY <2>1, <3>1 DEF TypeOK, Lease, OpenStatus, Place
    <3>3. launcher' \in [Models -> Launcher]
      BY <2>1, <3>1 DEF TypeOK, Answer, Launcher, HoldingStages, Place
    <3>4. QED
      BY <1>5, <3>1, <3>2, <3>3 DEF Grant, Ends, TypeOK
  <2>4. QED
    BY <2>2, <2>3
<1>6. CASE EvictStop
  <2>1. section \in [op : {"evict"}, handler : Place, gpu : Gpus, victim : Models, lease : LeaseIds]
    BY <1>6 DEF EvictStop, TypeOK, Section
  <2>2. places' \subseteq Place
    <3>1. [section.handler EXCEPT !.victim = section.victim] \in Place
      BY <2>1 DEF Place
    <3>2. QED
      BY <1>6, <3>1 DEF EvictStop, TypeOK
  <2>3. unit' \in [Models -> Unit]
    <3>1. Stopped(unit[section.victim]) \in Unit
      BY <2>1, StoppedType DEF TypeOK
    <3>2. QED
      BY <1>6, <2>1, <3>1 DEF EvictStop, TypeOK
  <2>4. QED
    BY <1>6, <2>2, <2>3 DEF EvictStop, TypeOK
<1>7. QED
  BY <1>1, <1>2, <1>3, <1>4, <1>5, <1>6 DEF Placement

\* The probe of confirm and release keeps the types.
LEMMA FinishProbeType ==
  ASSUME TypeOK, NEW m \in Models, FinishProbe(m) PROVE TypeOK'
<1>1. launcher[m].lease \in LeaseIds
  BY HoldingLease DEF FinishProbe, HoldingStages
<1>2. CASE Go(m, "revoking") /\ UNCHANGED section
  <2>1. launcher' \in [Models -> Launcher]
    BY <1>2, GoType DEF FinishProbe, HoldingStages
  <2>2. QED
    BY <1>2, <2>1 DEF FinishProbe, TypeOK
<1>3. CASE Leave(m) /\ UNCHANGED section
  <2>1. launcher' \in [Models -> Launcher]
    BY <1>3, LeaveType
  <2>2. QED
    BY <1>3, <2>1 DEF FinishProbe, TypeOK
<1>4. CASE /\ \E op \in {"confirm", "release"}, seen \in BOOLEAN :
                section' = [op |-> op, lease |-> launcher[m].lease, seen |-> seen]
           /\ UNCHANGED launcher
  <2>1. section' \in Section
    BY <1>1, <1>4 DEF Section
  <2>2. QED
    BY <1>4, <2>1 DEF FinishProbe, TypeOK
<1>5. ProbeActive(launcher[m].lease) \in BOOLEAN /\ ProbeExited(launcher[m].lease) \in BOOLEAN
  BY DEF ProbeActive, ProbeExited
<1>6. QED
  BY <1>2, <1>3, <1>4, <1>5 DEF FinishProbe

\* The write of confirm and release keeps the types.
LEMMA FinishWriteType == ASSUME TypeOK, FinishWrite PROVE TypeOK'
<1>1. section \in [op : {"confirm", "release"}, lease : LeaseIds, seen : BOOLEAN]
  BY DEF FinishWrite, TypeOK, Section
<1> DEFINE l == section.lease
           m == row[l].model
<1>2. row' \in [LeaseIds -> Lease] /\ overdue' \subseteq LeaseIds
  BY <1>1, TransitionType DEF FinishWrite, OpenStatus, TypeOK
<1>3. launcher' \in [Models -> Launcher]
  BY <1>1, LeaveType DEF FinishWrite, TypeOK, Leave, Launcher, Idle
<1>4. QED
  BY <1>2, <1>3 DEF FinishWrite, TypeOK

\* The steps of reconcile and the clock keep the types.
LEMMA AccountType == ASSUME TypeOK, NEW l \in LeaseIds, Account(l) PROVE TypeOK'
<1>1. CASE ReconcileProbe(l)
  <2>1. probe' \in Probe
    BY <1>1 DEF ReconcileProbe, Probe, Outstanding, ProbeExited, ProbeActive
  <2>2. QED
    BY <1>1, <2>1 DEF ReconcileProbe, TypeOK
<1>2. CASE ReconcileRelease(l) \/ ReconcileConfirm(l) \/ ReconcileStale(l)
  <2>1. row' \in [LeaseIds -> Lease] /\ overdue' \subseteq LeaseIds
    BY <1>2, TransitionType DEF ReconcileRelease, ReconcileConfirm, ReconcileStale, OpenStatus
  <2>2. QED
    BY <1>2, <2>1 DEF ReconcileRelease, ReconcileConfirm, ReconcileStale, TypeOK
<1>3. CASE Expire(l)
  BY <1>3 DEF Expire, TypeOK
<1>4. QED
  BY <1>1, <1>2, <1>3 DEF Account

\* A restart keeps the types.
LEMMA RestartType == ASSUME TypeOK, Restart PROVE TypeOK'
<1>1. launcher' \in [Models -> Launcher]
  BY DEF Restart, TypeOK, Launcher, Idle
<1>2. restarts' \in 0..MaxRestarts
  BY BoundsAssumption DEF Restart, TypeOK
<1>3. QED
  BY <1>1, <1>2 DEF Restart, TypeOK

\* The initial state is well typed.
LEMMA TypeInit == Init => TypeOK
<1> SUFFICES ASSUME Init PROVE TypeOK
  OBVIOUS
<1>1. row \in [LeaseIds -> Lease]
  BY DEF Init, NoLease, Lease
<1>2. launcher \in [Models -> Launcher] /\ unit \in [Models -> Unit]
  BY DEF Init, Launcher, Idle, Unit, NoUnit
<1>3. starts \in [Models -> Seq(LeaseIds)] /\ restarts \in 0..MaxRestarts
  BY BoundsAssumption DEF Init
<1>4. QED
  BY <1>1, <1>2, <1>3 DEF Init, TypeOK

\* Every step keeps the types.
LEMMA TypeStep == TypeOK /\ [Next]_vars => TypeOK'
<1>1. ASSUME TypeOK, UNCHANGED vars PROVE TypeOK'
  BY <1>1 DEF TypeOK
<1>2. QED
  BY <1>1, LaunchType, DaemonType, FinishProbeType, SamplerType, PlacementType,
     FinishWriteType, AccountType, RestartType DEF Next

\* Every variable keeps the shape TypeOK gives it, for any models, cards and ids:
\* a launcher or a unit has a token exactly when the code gives it one.
THEOREM TypeCorrect == Spec => []TypeOK
BY TypeInit, TypeStep, PTL DEF Spec

-----------------------------------------------------------------------------
(* The invariants of tokens. Core depends on row, unit, starts and launcher. *)

Core == OneAccount /\ Tokens /\ Rows /\ Queues /\ OutstandingTokens

\* Launchers stay or drop their lease.
Drops == \A k \in Models : \/ launcher'[k] = launcher[k]
                           \/ launcher'[k].stage \in {"idle", "placing"} /\ launcher'[k].lease = None

\* Units keep their token or lose it.
Loses == \A k \in Models : unit'[k].lease \in {unit[k].lease, None}

\* An outstanding account names a model.
LEMMA OutstandingModel ==
  ASSUME TypeOK, Rows, NEW l \in LeaseIds, Outstanding(l)
  PROVE  row[l].model \in Models /\ row[l].status # "none"
BY DEF Rows, Outstanding, OpenStatus

\* None is no lease id.
LEMMA NoneIsNoId == ASSUME NEW l \in LeaseIds PROVE l # None
BY NoneAssumption

\* Nothing but lost tokens and dropped leases.
LEMMA QuietCore ==
  ASSUME TypeOK, TypeOK', Core, Drops, Loses, UNCHANGED <<row, starts>>
  PROVE  Core'
<1>1. OneAccount' /\ Rows'
  BY DEF Core, OneAccount, OfModel, Outstanding, Rows
<1>2. Tokens'
  BY NoneAssumption DEF Core, Tokens, Queued, Drops, Loses
<1>3. Queues'
  <2>1. SUFFICES ASSUME NEW k \in Models, launcher'[k] = launcher[k] PROVE
           /\ launcher[k].stage = "granted" => launcher[k].lease \notin Queued(k) \cup {unit'[k].lease}
           /\ launcher[k].stage = "stopping" => unit'[k].lease \in {launcher[k].lease, None}
    BY DEF Core, Queues, Queued, Drops
  <2>2. launcher[k].stage = "granted" => launcher[k].lease # None
    BY HoldingLease, NoneIsNoId DEF HoldingStages
  <2>3. QED
    BY <2>2 DEF Core, Queues, Loses
<1>4. ASSUME NEW l \in LeaseIds, Outstanding(l), Settled(l) PROVE Settled(l)'
  BY <1>4, OutstandingModel, NoneAssumption DEF Core, Settled, Drops, Loses
<1>5. OutstandingTokens'
  BY <1>4, OutstandingModel, NoneAssumption
  DEF Core, OutstandingTokens, Outstanding, Queued, Drops, Loses
<1>6. QED
  BY <1>1, <1>2, <1>3, <1>5 DEF Core

\* The stages that follow a finished or failed start: no new token appears.
LEMMA StageCore ==
  ASSUME TypeOK, TypeOK', Core, NEW m \in Models, NEW stage \in HoldingStages, Go(m, stage),
         UNCHANGED <<row, unit, starts>>, launcher[m].stage \in HoldingStages,
         stage \notin {"granted", "starting"},
         stage \in {"monitoring", "confirming", "revoking", "stopping"} => starts[m] = <<>>,
         stage = "stopping" => unit[m].lease = launcher[m].lease
  PROVE  Core'
<1>1. OneAccount' /\ Rows'
  BY DEF Core, OneAccount, OfModel, Outstanding, Rows
<1>2. \A k \in Models : launcher'[k].lease = launcher[k].lease
  BY DEF Go, TypeOK, Launcher
<1>3. \A k \in Models : launcher'[k].stage = IF k = m THEN stage ELSE launcher[k].stage
  BY DEF Go, TypeOK, Launcher
<1>4. Tokens'
  BY <1>2 DEF Core, Tokens, Queued
<1>5. Queues'
  BY <1>2, <1>3 DEF Core, Queues, Queued
<1>6. OutstandingTokens'
  BY <1>2, <1>3, OutstandingModel DEF Core, OutstandingTokens, Outstanding, Settled, Queued
<1>7. QED
  BY <1>1, <1>4, <1>5, <1>6 DEF Core

\* An account changes its status: confirmed only for a settled token.
LEMMA RowCore ==
  ASSUME TypeOK, TypeOK', Core, NEW l \in LeaseIds, Outstanding(l),
         NEW status \in {"stale", "confirmed", "released"}, Transition(l, status),
         status = "confirmed" => Settled(l), UNCHANGED <<unit, starts>>, Drops
  PROVE  Core'
<1>1. \A k \in LeaseIds : row'[k].model = row[k].model /\ row'[k].gpu = row[k].gpu
  BY DEF Transition, TypeOK, Lease
<1>2. \A k \in LeaseIds : row'[k].status = IF k = l THEN status ELSE row[k].status
  BY DEF Transition, TypeOK, Lease
<1>3. \A k \in LeaseIds : Outstanding(k)' => Outstanding(k)
  BY <1>2 DEF Outstanding
<1>4. OneAccount' /\ Rows'
  BY <1>1, <1>2, <1>3 DEF Core, OneAccount, OfModel, Rows, Outstanding, OpenStatus
<1>5. Tokens'
  <2>1. SUFFICES ASSUME NEW m \in Models, NEW k \in LeaseIds,
                        k \in Queued(m)' \/ k \in {unit'[m].lease, launcher'[m].lease}
                 PROVE  row'[k].status # "none" /\ row'[k].model = m
    BY DEF Tokens
  <2>2. row[k].status # "none" /\ row[k].model = m
    BY <2>1, NoneIsNoId DEF Core, Tokens, Queued, Drops
  <2>3. QED
    BY <1>1, <1>2, <2>2
<1>6. Queues'
  BY DEF Core, Queues, Queued, Drops
<1>7. \A k \in LeaseIds : Outstanding(k) /\ Settled(k) => Settled(k)'
  BY <1>1, OutstandingModel DEF Core, Settled, Drops
<1>8. ASSUME NEW k \in LeaseIds, Outstanding(k)', NEW m \in Models, m = row'[k].model
      PROVE  /\ k \in Queued(m)' \/ unit'[m].lease = k => launcher'[m].lease \in {k, None}
             /\ \A i \in DOMAIN starts'[m] : starts'[m][i] = k => i = Len(starts'[m])
             /\ unit'[m].lease = k \/ row'[k].status = "confirmed" => Settled(k)'
  <2>1. Outstanding(k) /\ m = row[k].model
    BY <1>1, <1>3, <1>8
  <2>2. k \in Queued(m) \/ unit[m].lease = k => launcher[m].lease \in {k, None}
    BY <2>1 DEF Core, OutstandingTokens
  <2>3. \A i \in DOMAIN starts[m] : starts[m][i] = k => i = Len(starts[m])
    BY <2>1 DEF Core, OutstandingTokens
  <2>4. unit[m].lease = k \/ row[k].status = "confirmed" => Settled(k)
    BY <2>1 DEF Core, OutstandingTokens
  <2>5. unit[m].lease = k \/ row'[k].status = "confirmed" => Settled(k)
    BY <2>4, <1>2
  <2>6. QED
    BY <2>1, <2>2, <2>3, <2>5, <1>7 DEF Queued, Drops
<1>9. OutstandingTokens'
  <2>1. \A k \in LeaseIds : Outstanding(k)' => row'[k].model \in Models
    BY <1>1, <1>3, OutstandingModel DEF Core
  <2>2. QED
    BY <1>8, <2>1 DEF OutstandingTokens
<1>10. QED
  BY <1>4, <1>5, <1>6, <1>9 DEF Core

-----------------------------------------------------------------------------
(* What appending to a queue and taking its head do, index by index. *)

\* The length and the elements of a sequence with one more element.
LEMMA AppendFacts ==
  ASSUME NEW S, NEW s \in Seq(S), NEW e \in S, NEW t, t = Append(s, e)
  PROVE  /\ Len(s) \in Nat /\ DOMAIN s = 1..Len(s)
         /\ Len(t) = Len(s) + 1 /\ DOMAIN t = 1..(Len(s) + 1)
         /\ \A i \in 1..Len(s) : t[i] = s[i]
         /\ t[Len(s) + 1] = e /\ t # <<>>
         /\ {t[i] : i \in DOMAIN t} = {s[i] : i \in DOMAIN s} \cup {e}
<1>1. /\ Len(s) \in Nat /\ DOMAIN s = 1..Len(s)
  OBVIOUS
<1>2. t \in Seq(S) /\ Len(t) = Len(s) + 1
  OBVIOUS
<1>3. DOMAIN t = 1..(Len(s) + 1)
  BY <1>2
<1>4. (\A i \in 1..Len(s) : t[i] = s[i]) /\ t[Len(s) + 1] = e
  OBVIOUS
<1>5. t # <<>>
  BY <1>1, <1>2
<1>6. \A i \in 1..(Len(s) + 1) : i \in 1..Len(s) \/ i = Len(s) + 1
  BY <1>1
<1>7. 1..Len(s) \subseteq 1..(Len(s) + 1) /\ Len(s) + 1 \in 1..(Len(s) + 1)
  BY <1>1
<1>8. {t[i] : i \in DOMAIN t} = {s[i] : i \in DOMAIN s} \cup {e}
  BY <1>1, <1>3, <1>4, <1>6, <1>7
<1>9. QED
  BY <1>1, <1>2, <1>3, <1>4, <1>5, <1>8

\* The length and the elements of a sequence without its first element.
LEMMA TailFacts ==
  ASSUME NEW S, NEW s \in Seq(S), s # <<>>, NEW t, t = Tail(s)
  PROVE  /\ Len(s) \in Nat \ {0} /\ DOMAIN s = 1..Len(s) /\ Head(s) = s[1] /\ Head(s) \in S
         /\ Len(t) = Len(s) - 1 /\ DOMAIN t = 1..(Len(s) - 1)
         /\ \A i \in 1..(Len(s) - 1) : t[i] = s[i + 1]
         /\ Len(s) = 1 => t = <<>>
<1>1. /\ Len(s) \in Nat \ {0} /\ DOMAIN s = 1..Len(s) /\ Head(s) = s[1] /\ Head(s) \in S
  OBVIOUS
<1>2. t \in Seq(S) /\ Len(t) = Len(s) - 1
  OBVIOUS
<1>3. DOMAIN t = 1..(Len(s) - 1)
  BY <1>2
<1>4. \A i \in 1..(Len(s) - 1) : t[i] = s[i + 1]
  OBVIOUS
<1>5. Len(s) = 1 => t = <<>>
  BY <1>2
<1>6. QED
  BY <1>1, <1>2, <1>3, <1>4, <1>5

\* A start call brings the launcher's token into the queue of its model, behind
\* all others.
LEMMA StartSubmitCore ==
  ASSUME TypeOK, TypeOK', Core, NEW m \in Models, StartSubmit(m) PROVE Core'
<1> DEFINE l == launcher[m].lease
<1>1. l \in LeaseIds /\ launcher[m].stage = "granted"
  BY HoldingLease DEF StartSubmit, HoldingStages
<1>2. starts[m] \in Seq(LeaseIds) /\ starts' = [starts EXCEPT ![m] = Append(starts[m], l)]
  BY DEF StartSubmit, TypeOK
<1>3. /\ \A k \in Models : launcher'[k].lease = launcher[k].lease
      /\ \A k \in Models : launcher'[k].stage = IF k = m THEN "starting" ELSE launcher[k].stage
      /\ UNCHANGED <<row, unit>>
  BY DEF StartSubmit, Go, TypeOK, Launcher
<1>4. /\ \A k \in Models : k # m => starts'[k] = starts[k]
      /\ starts'[m] = Append(starts[m], l)
  BY <1>2 DEF TypeOK
<1>5. /\ Len(starts'[m]) = Len(starts[m]) + 1
      /\ DOMAIN starts'[m] = 1..(Len(starts[m]) + 1)
      /\ DOMAIN starts[m] = 1..Len(starts[m])
      /\ \A i \in 1..Len(starts[m]) : starts'[m][i] = starts[m][i]
      /\ starts'[m][Len(starts[m]) + 1] = l
      /\ Len(starts[m]) \in Nat
      /\ starts'[m] # <<>>
      /\ Queued(m)' = Queued(m) \cup {l}
  <2>1. ASSUME NEW t, t = Append(starts[m], l)
        PROVE  /\ Len(starts[m]) \in Nat /\ DOMAIN starts[m] = 1..Len(starts[m])
               /\ Len(t) = Len(starts[m]) + 1 /\ DOMAIN t = 1..(Len(starts[m]) + 1)
               /\ \A i \in 1..Len(starts[m]) : t[i] = starts[m][i]
               /\ t[Len(starts[m]) + 1] = l /\ t # <<>>
               /\ {t[i] : i \in DOMAIN t} = {starts[m][i] : i \in DOMAIN starts[m]} \cup {l}
    <3>1. starts[m] \in Seq(LeaseIds) /\ l \in LeaseIds
      BY <1>1, <1>2
    <3> HIDE DEF l
    <3>2. QED
      BY <2>1, <3>1, AppendFacts
  <2>2. starts'[m] = Append(starts[m], l)
    BY <1>4
  <2> HIDE DEF l
  <2>3. QED
    BY <2>1, <2>2 DEF Queued
<1>6. Queued(m)' = Queued(m) \cup {l}
  BY <1>5
<1>7. l \notin Queued(m) /\ l # unit[m].lease
  BY <1>1 DEF Core, Queues
<1>8. OneAccount' /\ Rows'
  BY <1>3 DEF Core, OneAccount, OfModel, Outstanding, Rows
<1>9. Tokens'
  <2>1. SUFFICES ASSUME NEW n \in Models, NEW k \in LeaseIds,
                        k \in Queued(n)' \/ k \in {unit'[n].lease, launcher'[n].lease}
                 PROVE  row[k].status # "none" /\ row[k].model = n
    BY <1>3 DEF Tokens
  <2>2. k \in Queued(n) \/ k \in {unit[n].lease, launcher[n].lease}
    BY <2>1, <1>3, <1>4, <1>6 DEF Queued
  <2>3. QED
    BY <2>2 DEF Core, Tokens
<1>10. Queues'
  <2>1. ASSUME NEW n \in Models, n # m
        PROVE  launcher'[n].stage = launcher[n].stage /\ launcher'[n].lease = launcher[n].lease
               /\ starts'[n] = starts[n] /\ unit'[n] = unit[n] /\ Queued(n)' = Queued(n)
    BY <2>1, <1>3, <1>4 DEF Queued
  <2>2. \A i, j \in DOMAIN starts'[m] : starts'[m][i] = starts'[m][j] => i = j
    <3>1. \A i \in 1..Len(starts[m]) : starts'[m][i] # l
      BY <1>5, <1>7 DEF Queued
    <3>2. \A i, j \in 1..Len(starts[m]) : starts[m][i] = starts[m][j] => i = j
      BY <1>5 DEF Core, Queues
    <3>3. QED
      BY <1>5, <3>1, <3>2, SMTT(30)
  <2>3. /\ launcher'[m].stage = "starting"
        /\ starts'[m] # <<>> /\ starts'[m][Len(starts'[m])] = launcher'[m].lease
    BY <1>3, <1>5
  <2>4. SUFFICES ASSUME NEW n \in Models PROVE
          /\ \A i, j \in DOMAIN starts'[n] : starts'[n][i] = starts'[n][j] => i = j
          /\ launcher'[n].stage = "granted" => launcher'[n].lease \notin Queued(n)' \cup {unit'[n].lease}
          /\ launcher'[n].stage = "starting"
               => starts'[n] # <<>> /\ starts'[n][Len(starts'[n])] = launcher'[n].lease
          /\ launcher'[n].stage \in {"monitoring", "confirming", "revoking", "stopping"} => starts'[n] = <<>>
          /\ launcher'[n].stage = "stopping" => unit'[n].lease \in {launcher'[n].lease, None}
    BY DEF Queues
  <2>5. CASE n = m
    BY <2>2, <2>3, <2>5
  <2>6. CASE n # m
    BY <2>1, <2>6 DEF Core, Queues
  <2>7. QED
    BY <2>5, <2>6
<1>11. OutstandingTokens'
  <2>1. SUFFICES ASSUME NEW k \in LeaseIds, Outstanding(k), NEW n \in Models, n = row[k].model
        PROVE  /\ k \in Queued(n)' \/ unit[n].lease = k => launcher[n].lease \in {k, None}
               /\ \A i \in DOMAIN starts'[n] : starts'[n][i] = k => i = Len(starts'[n])
               /\ unit[n].lease = k \/ row[k].status = "confirmed" => Settled(k)'
    BY <1>3, OutstandingModel DEF Core, OutstandingTokens, Outstanding
  <2>2. /\ k \in Queued(n) \/ unit[n].lease = k => launcher[n].lease \in {k, None}
        /\ \A i \in DOMAIN starts[n] : starts[n][i] = k => i = Len(starts[n])
        /\ unit[n].lease = k \/ row[k].status = "confirmed" => Settled(k)
    BY <2>1 DEF Core, OutstandingTokens
  <2>3. CASE n # m
    BY <2>1, <2>2, <2>3, <1>3, <1>4 DEF Queued, Settled
  <2>4. CASE n = m
    <3>1. ~Settled(k)
      BY <2>1, <2>4, <1>1 DEF Settled
    <3>2. k # l => k \notin Queued(m)
      BY <2>2, <2>4, <1>1, NoneIsNoId
    <3>3. \A i \in DOMAIN starts'[m] : starts'[m][i] = k => i = Len(starts'[m])
      BY <1>5, <1>7, <3>2 DEF Queued
    <3>4. QED
      BY <2>2, <2>4, <3>1, <3>2, <3>3, <1>6
  <2>5. QED
    BY <2>3, <2>4
<1>12. QED
  BY <1>8, <1>9, <1>10, <1>11 DEF Core

\* systemd executes the oldest start call: its token moves from the queue to the
\* unit.
LEMMA SystemdStartCore ==
  ASSUME TypeOK, TypeOK', Core, NEW m \in Models, SystemdStart(m) PROVE Core'
<1> DEFINE l == Head(starts[m])
           waited == launcher[m] = [stage |-> "starting", lease |-> l]
<1>1. starts[m] \in Seq(LeaseIds) /\ starts[m] # <<>> /\ l \in LeaseIds /\ l = starts[m][1]
  BY DEF SystemdStart, TypeOK
<1>2. /\ \A k \in Models : k # m => starts'[k] = starts[k]
      /\ starts'[m] = Tail(starts[m])
      /\ UNCHANGED row
  BY DEF SystemdStart, TypeOK
<1>3. /\ Len(starts[m]) \in Nat \ {0} /\ DOMAIN starts[m] = 1..Len(starts[m])
      /\ Len(starts'[m]) = Len(starts[m]) - 1
      /\ DOMAIN starts'[m] = 1..(Len(starts[m]) - 1)
      /\ \A i \in 1..(Len(starts[m]) - 1) : starts'[m][i] = starts[m][i + 1]
      /\ Len(starts[m]) = 1 => starts'[m] = <<>>
  <2>1. ASSUME NEW t, t = Tail(starts[m])
        PROVE  /\ Len(starts[m]) \in Nat \ {0} /\ DOMAIN starts[m] = 1..Len(starts[m])
               /\ Len(t) = Len(starts[m]) - 1
               /\ DOMAIN t = 1..(Len(starts[m]) - 1)
               /\ \A i \in 1..(Len(starts[m]) - 1) : t[i] = starts[m][i + 1]
               /\ Len(starts[m]) = 1 => t = <<>>
    BY <1>1, <2>1, TailFacts
  <2>2. starts'[m] = Tail(starts[m])
    BY <1>2
  <2>3. QED
    BY <2>1, <2>2
<1>4. l \in Queued(m) /\ Queued(m)' = Queued(m) \ {l}
  <2>1. \A i \in 2..Len(starts[m]) : starts[m][i] # l
    BY <1>1, <1>3 DEF Core, Queues
  <2>2. Queued(m)' \subseteq Queued(m) \ {l}
    BY <2>1, <1>3 DEF Queued
  <2>3. ASSUME NEW k \in Queued(m), k # l PROVE k \in Queued(m)'
    <3>1. PICK i \in 2..Len(starts[m]) : starts[m][i] = k
      BY <2>3, <1>1, <1>3 DEF Queued
    <3>2. i - 1 \in 1..(Len(starts[m]) - 1) /\ starts'[m][i - 1] = k
      BY <3>1, <1>3
    <3>3. QED
      BY <3>2, <1>3 DEF Queued
  <2>4. l \in Queued(m)
    BY <1>1, <1>3 DEF Queued
  <2>5. QED
    BY <2>2, <2>3, <2>4
<1>5. row[l].status # "none" /\ row[l].model = m
  BY <1>1, <1>4 DEF Core, Tokens
<1>6. /\ \A k \in Models : launcher'[k].lease = launcher[k].lease
      /\ \A k \in Models : k # m \/ ~waited => launcher'[k].stage = launcher[k].stage
      /\ waited => launcher'[m].stage \in {"monitoring", "failed"}
  <2>1. CASE waited
    <3>1. PICK s \in {"monitoring", "failed"} : launcher' = [launcher EXCEPT ![m].stage = s]
      BY <2>1 DEF SystemdStart, Go
    <3>2. QED
      BY <2>1, <3>1 DEF TypeOK, Launcher
  <2>2. CASE ~waited
    BY <2>2 DEF SystemdStart
  <2>3. QED
    BY <2>1, <2>2
<1>7. /\ \A k \in Models : k # m => unit'[k] = unit[k]
      /\ unit'[m] = IF unit[m].phase = "absent" THEN [phase |-> "loading", lease |-> l] ELSE unit[m]
  BY DEF SystemdStart, TypeOK
<1>8. OneAccount' /\ Rows'
  BY <1>2 DEF Core, OneAccount, OfModel, Outstanding, Rows
<1>9. Tokens'
  <2>1. SUFFICES ASSUME NEW n \in Models, NEW k \in LeaseIds,
                        k \in Queued(n)' \/ k \in {unit'[n].lease, launcher'[n].lease}
                 PROVE  row[k].status # "none" /\ row[k].model = n
    BY <1>2 DEF Tokens
  <2>2. k \in Queued(n) \/ k \in {unit[n].lease, launcher[n].lease}
    <3>1. CASE n = m
      BY <2>1, <3>1, <1>4, <1>6, <1>7
    <3>2. CASE n # m
      BY <2>1, <3>2, <1>2, <1>6, <1>7 DEF Queued
    <3>3. QED
      BY <3>1, <3>2
  <2>3. QED
    BY <2>2 DEF Core, Tokens
<1>10. waited => Len(starts[m]) = 1
  <2>1. SUFFICES ASSUME waited PROVE Len(starts[m]) = 1
    OBVIOUS
  <2>2. starts[m][Len(starts[m])] = starts[m][1]
    BY <1>1, <2>1 DEF Core, Queues
  <2>3. \A i, j \in 1..Len(starts[m]) : starts[m][i] = starts[m][j] => i = j
    BY <1>3 DEF Core, Queues
  <2>4. 1 \in 1..Len(starts[m]) /\ Len(starts[m]) \in 1..Len(starts[m])
    BY <1>3
  <2>5. QED
    BY <2>2, <2>3, <2>4
<1>11. Queues'
  <2>1. SUFFICES ASSUME NEW n \in Models PROVE
          /\ \A i, j \in DOMAIN starts'[n] : starts'[n][i] = starts'[n][j] => i = j
          /\ launcher'[n].stage = "granted" => launcher'[n].lease \notin Queued(n)' \cup {unit'[n].lease}
          /\ launcher'[n].stage = "starting"
               => starts'[n] # <<>> /\ starts'[n][Len(starts'[n])] = launcher'[n].lease
          /\ launcher'[n].stage \in {"monitoring", "confirming", "revoking", "stopping"} => starts'[n] = <<>>
          /\ launcher'[n].stage = "stopping" => unit'[n].lease \in {launcher'[n].lease, None}
    BY DEF Queues
  <2>2. CASE n # m
    BY <2>2, <1>2, <1>6, <1>7 DEF Core, Queues, Queued
  <2>3. CASE n = m
    <3>1. \A i, j \in DOMAIN starts'[m] : starts'[m][i] = starts'[m][j] => i = j
      <4>1. \A i, j \in 1..Len(starts[m]) : starts[m][i] = starts[m][j] => i = j
        BY <1>3 DEF Core, Queues
      <4>2. SUFFICES ASSUME NEW i \in 1..(Len(starts[m]) - 1), NEW j \in 1..(Len(starts[m]) - 1),
                            starts[m][i + 1] = starts[m][j + 1]
                     PROVE  i = j
        BY <1>3
      <4>3. i + 1 \in 1..Len(starts[m]) /\ j + 1 \in 1..Len(starts[m])
        BY <1>3
      <4>4. i + 1 = j + 1
        BY <4>1, <4>2, <4>3
      <4>5. QED
        BY <4>4
    <3>2. launcher'[m].stage = "granted" => launcher'[m].lease \notin Queued(m)' \cup {unit'[m].lease}
      BY <1>4, <1>6, <1>7 DEF Core, Queues
    <3>3. launcher'[m].stage = "starting"
            => starts'[m] # <<>> /\ starts'[m][Len(starts'[m])] = launcher'[m].lease
      <4>1. SUFFICES ASSUME launcher[m].stage = "starting", ~waited
                     PROVE  starts'[m] # <<>> /\ starts'[m][Len(starts'[m])] = launcher[m].lease
        BY <1>6
      <4>2. starts[m][Len(starts[m])] = launcher[m].lease
        BY <4>1 DEF Core, Queues
      <4>3. launcher[m].lease # l
        BY <4>1 DEF TypeOK, Launcher
      <4>4. Len(starts[m]) > 1
        BY <4>2, <4>3, <1>1, <1>3
      <4>5. Len(starts[m]) - 1 \in 1..(Len(starts[m]) - 1)
        BY <4>4, <1>3
      <4>6. starts'[m][Len(starts[m]) - 1] = starts[m][Len(starts[m])]
        BY <4>5, <1>3
      <4>7. QED
        BY <4>2, <4>4, <4>5, <4>6, <1>3
    <3>4. launcher'[m].stage \in {"monitoring", "confirming", "revoking", "stopping"} => starts'[m] = <<>>
      BY <1>1, <1>3, <1>6, <1>10 DEF Core, Queues
    <3>5. launcher'[m].stage = "stopping" => unit'[m].lease \in {launcher'[m].lease, None}
      BY <1>1, <1>6 DEF Core, Queues
    <3>6. QED
      BY <2>3, <3>1, <3>2, <3>3, <3>4, <3>5
  <2>4. QED
    BY <2>2, <2>3
<1>12. OutstandingTokens'
  <2>1. SUFFICES ASSUME NEW k \in LeaseIds, Outstanding(k), NEW n \in Models, n = row[k].model
        PROVE  /\ k \in Queued(n)' \/ unit'[n].lease = k => launcher'[n].lease \in {k, None}
               /\ \A i \in DOMAIN starts'[n] : starts'[n][i] = k => i = Len(starts'[n])
               /\ unit'[n].lease = k \/ row[k].status = "confirmed" => Settled(k)'
    BY <1>2, OutstandingModel DEF Core, OutstandingTokens, Outstanding
  <2>2. /\ k \in Queued(n) \/ unit[n].lease = k => launcher[n].lease \in {k, None}
        /\ \A i \in DOMAIN starts[n] : starts[n][i] = k => i = Len(starts[n])
        /\ unit[n].lease = k \/ row[k].status = "confirmed" => Settled(k)
    BY <2>1 DEF Core, OutstandingTokens
  <2>3. CASE n # m
    BY <2>1, <2>2, <2>3, <1>2, <1>6, <1>7 DEF Queued, Settled
  <2>4. CASE n = m
    <3>1. ~Settled(k)
      BY <2>1, <2>4, <1>1 DEF Settled
    <3>2. k \in Queued(m)' \/ unit'[m].lease = k => k \in Queued(m)
      BY <2>2, <2>4, <3>1, <1>4, <1>7
    <3>3. \A i \in DOMAIN starts'[m] : starts'[m][i] = k => i = Len(starts'[m])
      <4>1. SUFFICES ASSUME NEW i \in 1..(Len(starts[m]) - 1), starts[m][i + 1] = k
                     PROVE  i = Len(starts[m]) - 1
        BY <1>3
      <4>2. i + 1 \in DOMAIN starts[m]
        BY <1>3
      <4>3. i + 1 = Len(starts[m])
        BY <2>2, <2>4, <4>1, <4>2
      <4>4. QED
        BY <4>3, <1>3
    <3>4. unit'[m].lease = k => Settled(k)'
      <4>1. SUFFICES ASSUME unit'[m].lease = k PROVE Settled(k)'
        OBVIOUS
      <4>2. k = l
        BY <4>1, <2>2, <2>4, <3>1, <1>7
      <4>3. Len(starts[m]) = 1
        <5>1. 1 \in DOMAIN starts[m] /\ starts[m][1] = k
          BY <4>2, <1>1, <1>3
        <5>2. QED
          BY <5>1, <2>2, <2>4
      <4>4. launcher[m].lease \in {l, None}
        BY <4>2, <2>2, <2>4, <1>4
      <4>5. launcher'[m].stage \notin {"granted", "starting"}
        <5>1. launcher[m].stage = "granted" => launcher[m].lease # l /\ launcher[m].lease # None
          BY <1>4, HoldingLease, NoneIsNoId DEF Core, Queues, HoldingStages
        <5>2. launcher[m].stage = "starting" => waited
          BY <4>4, HoldingLease, NoneIsNoId DEF HoldingStages, TypeOK, Launcher
        <5>3. QED
          BY <4>4, <5>1, <5>2, <1>6
      <4>6. QED
        BY <4>1, <4>3, <4>5, <1>2, <1>3, <2>1, <2>4 DEF Settled
    <3>5. QED
      BY <2>2, <2>4, <3>1, <3>2, <3>3, <3>4, <1>6
  <2>5. QED
    BY <2>3, <2>4
<1>13. QED
  BY <1>8, <1>9, <1>11, <1>12 DEF Core

\* A fresh account for a model that has none, answered to a launcher that waits.
Granted(l, m, g) ==
  /\ row[l].status = "none" /\ OfModel(m) = {}
  /\ row' = [row EXCEPT ![l] = [status |-> "pending", model |-> m, gpu |-> g]]
  /\ UNCHANGED <<unit, starts>>
  /\ \A k \in Models : \/ launcher'[k] = launcher[k]
                       \/ k = m /\ launcher'[k] = [stage |-> "granted", lease |-> l]

\* A granted account is a new token, held by the launcher that asked for it
\* only.
LEMMA GrantCore ==
  ASSUME TypeOK, TypeOK', Core, NEW l \in LeaseIds, NEW m \in Models, NEW g \in Gpus,
         Granted(l, m, g)
  PROVE  Core'
<1> USE DEF Granted
<1>1. /\ \A k \in LeaseIds : k # l => row'[k] = row[k]
      /\ row'[l].status = "pending" /\ row'[l].model = m /\ row'[l].gpu = g
  BY DEF TypeOK
<1>2. \A n \in Models : l \notin Queued(n) /\ unit[n].lease # l /\ launcher[n].lease # l
  BY DEF Core, Tokens
<1>3. \A k \in LeaseIds : Outstanding(k)' => k = l \/ (Outstanding(k) /\ row[k].model # m)
  BY <1>1 DEF Outstanding, OfModel
<1>4. OneAccount' /\ Rows'
  <2>1. OneAccount'
    BY <1>1, <1>3 DEF Core, OneAccount, OfModel
  <2>2. Rows'
    BY <1>1 DEF Core, Rows
  <2>3. QED
    BY <2>1, <2>2
<1>5. Tokens'
  <2>1. SUFFICES ASSUME NEW n \in Models, NEW k \in LeaseIds,
                        k \in Queued(n)' \/ k \in {unit'[n].lease, launcher'[n].lease}
                 PROVE  row'[k].status # "none" /\ row'[k].model = n
    BY DEF Tokens
  <2>2. CASE k = l
    BY <2>1, <2>2, <1>1, <1>2 DEF Queued
  <2>3. CASE k # l
    <3>1. k \in Queued(n) \/ k \in {unit[n].lease, launcher[n].lease}
      BY <2>1, <2>3 DEF Queued
    <3>2. QED
      BY <3>1, <2>3, <1>1 DEF Core, Tokens
  <2>4. QED
    BY <2>2, <2>3
<1>6. Queues'
  BY <1>2 DEF Core, Queues, Queued
<1>7. OutstandingTokens'
  <2>1. SUFFICES ASSUME NEW k \in LeaseIds, Outstanding(k)', NEW n \in Models, n = row'[k].model
        PROVE  /\ k \in Queued(n)' \/ unit'[n].lease = k => launcher'[n].lease \in {k, None}
               /\ \A i \in DOMAIN starts'[n] : starts'[n][i] = k => i = Len(starts'[n])
               /\ unit'[n].lease = k \/ row'[k].status = "confirmed" => Settled(k)'
    <3>1. \A k \in LeaseIds : Outstanding(k)' => row'[k].model \in Models
      BY <1>4 DEF Rows, Outstanding, OpenStatus
    <3>2. QED
      BY <3>1 DEF OutstandingTokens
  <2>2. CASE k = l
    BY <2>1, <2>2, <1>1, <1>2 DEF Queued
  <2>3. CASE k # l
    <3>1. Outstanding(k) /\ n # m /\ row'[k] = row[k] /\ launcher'[n] = launcher[n]
      BY <2>1, <2>3, <1>1, <1>3
    <3>2. QED
      BY <3>1, <2>1 DEF Core, OutstandingTokens, Queued, Settled
  <2>4. QED
    BY <2>2, <2>3
<1>8. QED
  BY <1>4, <1>5, <1>6, <1>7 DEF Core

\* The steps of a launcher preserve where tokens are.
LEMMA LaunchCore ==
  ASSUME TypeOK, TypeOK', Core, NEW m \in Models, Launch(m) PROVE Core'
<1>1. CASE PlaceRequest(m)
  <2>1. launcher[m].lease = None
    BY <1>1 DEF PlaceRequest, TypeOK, Launcher, HoldingStages
  <2>2. Drops /\ Loses
    BY <1>1, <2>1 DEF PlaceRequest, Go, Drops, Loses, TypeOK, Launcher
  <2>3. QED
    BY <1>1, <2>2, QuietCore DEF PlaceRequest
<1>2. CASE StartSubmit(m)
  BY <1>2, StartSubmitCore
<1>3. CASE StartTimeout(m)
  BY <1>3, StageCore DEF StartTimeout, HoldingStages
<1>4. ASSUME Leave(m), Loses, UNCHANGED <<row, starts>> PROVE Core'
  BY <1>4, QuietCore DEF Leave, Idle, Drops, TypeOK
<1>5. CASE AfterFailedStart(m)
  <2>1. CASE Go(m, "releasing")
    BY <1>5, <2>1, StageCore DEF AfterFailedStart, HoldingStages
  <2>2. QED
    BY <1>4, <1>5, <2>1 DEF AfterFailedStart, Loses
<1>6. CASE MonitorExit(m)
  BY <1>6, StageCore DEF MonitorExit, HoldingStages
<1>7. CASE MonitorHealthy(m)
  <2>1. starts[m] = <<>>
    BY <1>7 DEF MonitorHealthy, Core, Queues
  <2>2. QED
    BY <1>7, <2>1, StageCore DEF MonitorHealthy, HoldingStages
<1>8. CASE MonitorGivesUp(m)
  BY <1>4, <1>8 DEF MonitorGivesUp, Loses
<1>9. CASE RevokeCheck(m)
  <2>1. CASE unit[m].lease = launcher[m].lease
    <3>1. starts[m] = <<>>
      BY <1>9 DEF RevokeCheck, Core, Queues
    <3>2. QED
      BY <1>9, <2>1, <3>1, StageCore DEF RevokeCheck, HoldingStages
  <2>2. QED
    BY <1>4, <1>9, <2>1 DEF RevokeCheck, Loses
<1>10. CASE RevokeStop(m)
  <2>1. Loses
    BY <1>10 DEF RevokeStop, Loses, Stopped, TypeOK, Unit, NoUnit
  <2>2. QED
    BY <1>4, <1>10, <2>1 DEF RevokeStop
<1>11. CASE LauncherDies(m)
  BY <1>4, <1>11 DEF LauncherDies, Loses
<1>12. QED
  BY <1>1, <1>2, <1>3, <1>5, <1>6, <1>7, <1>8, <1>9, <1>10, <1>11 DEF Launch

\* The steps of systemd and the daemon preserve where tokens are.
LEMMA DaemonCore ==
  ASSUME TypeOK, TypeOK', Core, NEW m \in Models, Daemon(m) PROVE Core'
<1>1. ASSUME NEW from, NEW to, UnitMoves(m, from, to) PROVE Core'
  BY <1>1, QuietCore DEF UnitMoves, Drops, Loses, TypeOK, Unit, NoUnit
<1>2. QED
  BY <1>1, SystemdStartCore DEF Daemon, UnitReady, UnitUnwell, UnitStop, UnitExit

\* The probe of confirm and release preserves where tokens are.
LEMMA FinishProbeCore ==
  ASSUME TypeOK, TypeOK', Core, NEW m \in Models, FinishProbe(m) PROVE Core'
<1>1. CASE launcher[m].stage = "confirming" /\ Go(m, "revoking")
  <2>1. starts[m] = <<>>
    BY <1>1 DEF Core, Queues
  <2>2. QED
    BY <1>1, <2>1, StageCore DEF FinishProbe, HoldingStages
<1>2. CASE Leave(m)
  BY <1>2, QuietCore DEF FinishProbe, Leave, Idle, Drops, Loses, TypeOK
<1>3. CASE UNCHANGED launcher
  BY <1>3, QuietCore DEF FinishProbe, Drops, Loses
<1>4. QED
  BY <1>1, <1>2, <1>3 DEF FinishProbe

\* The steps of a place handler preserve where tokens are.
LEMMA PlacementCore ==
  ASSUME TypeOK, TypeOK', Core, Handlers, Placement PROVE Core'
<1>1. CASE Grant
  <2> DEFINE q == section.handler
  <2>1. q \in places /\ q.model \in Models /\ section.gpu \in Gpus
    BY <1>1 DEF Grant, Handlers, Deciding, TypeOK, Section, Place
  <2>2. CASE Fits(q.model, section.gpu)
    <3>1. PICK l \in LeaseIds :
            /\ row[l].status = "none"
            /\ row' = [row EXCEPT ![l] = [status |-> "pending", model |-> q.model, gpu |-> section.gpu]]
            /\ Answer(q, [stage |-> "granted", lease |-> l])
      BY <1>1, <2>2 DEF Grant
    <3>2. OfModel(q.model) = {}
      BY <2>2 DEF Fits, Admissible
    <3>3. \A k \in Models : \/ launcher'[k] = launcher[k]
                            \/ k = q.model /\ launcher'[k] = [stage |-> "granted", lease |-> l]
      BY <3>1, <2>1 DEF Answer, TypeOK
    <3>4. UNCHANGED <<unit, starts>>
      BY <1>1 DEF Grant
    <3>5. Granted(l, q.model, section.gpu)
      BY <3>1, <3>2, <3>3, <3>4 DEF Granted
    <3> HIDE DEF q
    <3>6. QED
      BY <2>1, <3>5, GrantCore
  <2>3. CASE ~Fits(q.model, section.gpu)
    BY <1>1, <2>3, QuietCore DEF Grant, Drops, Loses
  <2>4. QED
    BY <2>2, <2>3
<1>2. CASE EvictStop
  <2>1. UNCHANGED <<row, starts, launcher>>
    BY <1>2 DEF EvictStop
  <2>2. Loses
    BY <1>2 DEF EvictStop, Loses, Stopped, TypeOK, Unit, NoUnit
  <2>3. QED
    BY <2>1, <2>2, QuietCore DEF Drops
<1>3. ASSUME NEW p \in places, PlaceFails(p) PROVE Core'
  <2>1. Drops
    BY <1>3 DEF PlaceFails, Answer, Idle, Drops, TypeOK
  <2>2. QED
    BY <1>3, <2>1, QuietCore DEF PlaceFails, Loses
<1>4. CASE UNCHANGED <<row, starts, unit, launcher>>
  BY <1>4, QuietCore DEF Drops, Loses
<1>5. QED
  BY <1>1, <1>2, <1>3, <1>4 DEF Placement, PlaceProbe, EvictProbe, EvictSeen

\* The write of confirm and release preserves where tokens are.
LEMMA FinishWriteCore ==
  ASSUME TypeOK, TypeOK', Core, Evidence, FinishWrite PROVE Core'
<1> DEFINE l == section.lease
<1>1. l \in LeaseIds /\ Outstanding(l) /\ UNCHANGED <<unit, starts>>
  BY DEF FinishWrite, Evidence, TypeOK, Section
<1>2. Drops
  BY DEF FinishWrite, Leave, Idle, Drops, TypeOK
<1>3. CASE Transition(l, "confirmed") /\ section.op = "confirm" /\ section.seen
  <2>1. Settled(l)
    BY <1>3 DEF FinishWrite, Evidence
  <2>2. QED
    BY <1>1, <1>2, <1>3, <2>1, RowCore
<1>4. CASE Transition(l, "released")
  BY <1>1, <1>2, <1>4, RowCore
<1>5. CASE UNCHANGED ledger
  BY <1>1, <1>2, <1>5, QuietCore DEF Loses
<1>6. QED
  BY <1>3, <1>4, <1>5 DEF FinishWrite

\* The steps of reconcile and the clock preserve where tokens are.
LEMMA AccountCore ==
  ASSUME TypeOK, TypeOK', Core, Evidence, NEW l \in LeaseIds, Account(l) PROVE Core'
<1>1. CASE ReconcileProbe(l) \/ Expire(l)
  BY <1>1, QuietCore DEF ReconcileProbe, Expire, Drops, Loses
<1>2. ASSUME Applies(l) PROVE Outstanding(l)
  BY <1>2 DEF Applies, ProbeOf, TypeOK, Probe, Outstanding
<1>3. CASE ReconcileRelease(l)
  BY <1>2, <1>3, RowCore DEF ReconcileRelease, Drops
<1>4. CASE ReconcileConfirm(l)
  <2>1. Settled(l)
    BY <1>2, <1>4 DEF ReconcileConfirm, Applies, ProbeOf, MayConfirm, Evidence
  <2>2. QED
    BY <1>2, <1>4, <2>1, RowCore DEF ReconcileConfirm, Drops
<1>5. CASE ReconcileStale(l)
  BY <1>2, <1>5, RowCore DEF ReconcileStale, Drops
<1>6. QED
  BY <1>1, <1>3, <1>4, <1>5 DEF Account

\* Every step preserves where tokens are.
LEMMA CoreStep == TypeOK /\ TypeOK' /\ Core /\ Evidence /\ Handlers /\ [Next]_vars => Core'
<1> SUFFICES ASSUME TypeOK, TypeOK', Core, Evidence, Handlers, [Next]_vars PROVE Core'
  OBVIOUS
<1>1. CASE Sampler \/ UNCHANGED vars
  BY <1>1, QuietCore DEF Sampler, RoundBegin, RoundPublish, RoundFails, SampleAges, Drops, Loses
<1>2. CASE Restart
  <2>1. Drops
    BY <1>2 DEF Restart, Drops, Idle
  <2>2. QED
    BY <1>2, <2>1, QuietCore DEF Restart, Loses
<1>3. QED
  BY <1>1, <1>2, LaunchCore, DaemonCore, FinishProbeCore, PlacementCore, FinishWriteCore, AccountCore DEF Next

-----------------------------------------------------------------------------
(* What was seen of a settled account lasts while the account is open. *)

\* A grant leaves the settled accounts settled: its model has none.
LEMMA GrantSettled ==
  ASSUME TypeOK, Core, Handlers, Grant, NEW l \in LeaseIds, Outstanding(l), Settled(l)
  PROVE  Settled(l)' /\ row'[l] = row[l]
<1> DEFINE q == section.handler
<1>1. q.model \in Models
  BY DEF Grant, Handlers, Deciding, TypeOK, Place
<1>2. CASE Fits(q.model, section.gpu)
  <2>1. PICK k \in LeaseIds :
          /\ row[k].status = "none"
          /\ row' = [row EXCEPT ![k] = [status |-> "pending", model |-> q.model, gpu |-> section.gpu]]
          /\ Answer(q, [stage |-> "granted", lease |-> k])
    BY <1>2 DEF Grant
  <2>2. k # l /\ row'[l] = row[l]
    BY <2>1, OutstandingModel DEF Core, TypeOK
  <2>3. row[l].model # q.model
    BY <1>2 DEF Fits, Admissible, OfModel
  <2>4. row[l].model \in Models
    BY OutstandingModel DEF Core
  <2>5. launcher'[row[l].model] = launcher[row[l].model]
    BY <2>1, <2>3, <2>4, <1>1 DEF Answer, TypeOK
  <2>6. UNCHANGED <<unit, starts>>
    BY DEF Grant
  <2>7. QED
    BY <2>2, <2>5, <2>6 DEF Settled
<1>3. CASE ~Fits(q.model, section.gpu)
  BY <1>3 DEF Grant, Settled
<1>4. QED
  BY <1>2, <1>3

\* No launcher comes to start anything; no unit appears or changes its token.
Calm == \A k \in Models : launcher'[k] = launcher[k] \/ launcher'[k].stage \notin {"granted", "starting"}
Fades == \A k \in Models : /\ unit'[k].lease \in {unit[k].lease, None}
                           /\ unit[k].phase = "absent" => unit'[k].phase = "absent"

\* A launcher that goes on without a start, or ends, starts nothing.
LEMMA GoCalm ==
  ASSUME TypeOK, NEW n \in Models, NEW stage, stage \notin {"granted", "starting"},
         Go(n, stage) \/ Leave(n)
  PROVE  Calm
<1>1. launcher[n] \in Launcher /\ launcher \in [Models -> Launcher]
  BY DEF TypeOK
<1>2. [launcher[n] EXCEPT !.stage = stage].stage = stage
  BY <1>1 DEF Launcher
<1>3. CASE Go(n, stage)
  BY <1>1, <1>2, <1>3 DEF Go, Calm
<1>4. CASE Leave(n)
  BY <1>1, <1>4 DEF Leave, Idle, Calm
<1>5. QED
  BY <1>3, <1>4

\* A stop only takes a unit towards its end.
LEMMA StopFades ==
  ASSUME TypeOK, NEW n \in Models, unit' = [unit EXCEPT ![n] = Stopped(@)]
  PROVE  Fades
<1>1. unit[n] \in Unit
  BY DEF TypeOK
<1>2. /\ Stopped(unit[n]).lease = unit[n].lease
      /\ unit[n].phase = "absent" => Stopped(unit[n]) = unit[n]
  BY <1>1 DEF Stopped, Unit, NoUnit
<1>3. QED
  BY <1>2 DEF Fades, TypeOK

\* A move of a unit that exists only takes it towards its end.
LEMMA MoveFades ==
  ASSUME TypeOK, NEW n \in Models, NEW from, NEW to, "absent" \notin from, UnitMoves(n, from, to)
  PROVE  Fades
<1>1. unit[n] \in Unit /\ unit[n].phase # "absent"
  BY DEF TypeOK, UnitMoves
<1>2. [unit[n] EXCEPT !.phase = to].lease = unit[n].lease
  BY <1>1 DEF Unit, NoUnit
<1>3. QED
  BY <1>1, <1>2 DEF Fades, TypeOK, UnitMoves, NoUnit

\* No step starts anything for the model of a settled account.
LEMMA SettledStep ==
  ASSUME TypeOK, TypeOK', Core, Handlers, [Next]_vars, NEW l \in LeaseIds, Outstanding(l), Settled(l),
         NEW m \in Models, m = row[l].model
  PROVE  /\ row'[l].model = m => Settled(l)'
         /\ unit[m].phase = "absent" => unit'[m].phase = "absent"
<1> DEFINE Stays == /\ starts'[m] = <<>>
                    /\ launcher'[m].stage \notin {"granted", "starting"}
                    /\ unit'[m].lease \in {l, None}
                    /\ unit[m].phase = "absent" => unit'[m].phase = "absent"
<1>1. /\ starts[m] = <<>> /\ launcher[m].stage \notin {"granted", "starting"}
      /\ unit[m].lease \in {l, None}
  BY DEF Settled
<1>2. SUFFICES Stays
  BY DEF Settled
<1>3. ASSUME Calm, Fades, UNCHANGED starts PROVE Stays
  BY <1>1, <1>3, NoneAssumption DEF Calm, Fades
<1>4. ASSUME NEW n \in Models, Launch(n) PROVE Stays
  <2>1. CASE RevokeStop(n)
    <3>1. Calm /\ Fades
      BY <2>1, GoCalm, StopFades DEF RevokeStop
    <3>2. QED
      BY <1>3, <2>1, <3>1 DEF RevokeStop
  <2>2. CASE StartSubmit(n)
    BY <1>1, <2>2 DEF StartSubmit, Go, TypeOK, Launcher
  <2>3. CASE PlaceRequest(n) \/ StartTimeout(n) \/ MonitorExit(n) \/ MonitorHealthy(n)
    <3>1. Calm
      BY <2>3, GoCalm DEF PlaceRequest, StartTimeout, MonitorExit, MonitorHealthy
    <3>2. QED
      BY <1>3, <2>3, <3>1 DEF PlaceRequest, StartTimeout, MonitorExit, MonitorHealthy, Fades
  <2>4. CASE AfterFailedStart(n) \/ MonitorGivesUp(n) \/ RevokeCheck(n) \/ LauncherDies(n)
    <3>1. Calm
      BY <2>4, GoCalm DEF AfterFailedStart, MonitorGivesUp, RevokeCheck, LauncherDies
    <3>2. QED
      BY <1>3, <2>4, <3>1 DEF AfterFailedStart, MonitorGivesUp, RevokeCheck, LauncherDies, Fades
  <2>5. QED
    BY <1>4, <2>1, <2>2, <2>3, <2>4 DEF Launch
<1>5. ASSUME NEW n \in Models, Daemon(n) PROVE Stays
  <2>1. CASE SystemdStart(n)
    <3>1. n # m
      BY <1>1, <2>1 DEF SystemdStart
    <3>2. UNCHANGED <<starts[m], launcher[m], unit[m]>>
      BY <2>1, <3>1 DEF SystemdStart, Go, TypeOK
    <3>3. QED
      BY <1>1, <3>2
  <2>2. ASSUME NEW from, NEW to, UnitMoves(n, from, to), "absent" \notin from PROVE Stays
    <3>1. Fades
      BY <2>2, MoveFades
    <3>2. QED
      BY <1>3, <2>2, <3>1 DEF UnitMoves, Calm
  <2>3. QED
    BY <1>5, <2>1, <2>2 DEF Daemon, UnitReady, UnitUnwell, UnitStop, UnitExit
<1>6. ASSUME NEW n \in Models, FinishProbe(n) PROVE Stays
  <2>1. Calm
    BY <1>6, GoCalm DEF FinishProbe, Calm
  <2>2. QED
    BY <1>3, <1>6, <2>1 DEF FinishProbe, Fades
<1>7. CASE Sampler \/ UNCHANGED vars
  BY <1>1, <1>7 DEF Sampler, RoundBegin, RoundPublish, RoundFails, SampleAges
<1>8. CASE Placement
  <2>1. CASE Grant
    <3>1. Settled(l)' /\ row'[l] = row[l] /\ UNCHANGED unit
      BY <2>1, GrantSettled DEF Grant
    <3>2. QED
      BY <3>1 DEF Settled
  <2>2. CASE EvictStop
    <3>1. section.victim \in Models
      BY <2>2 DEF EvictStop, TypeOK, Section
    <3>2. Fades
      BY <2>2, <3>1, StopFades DEF EvictStop, Fades
    <3>3. QED
      BY <1>3, <2>2, <3>2 DEF EvictStop, Calm
  <2>3. ASSUME NEW p \in places, PlaceFails(p) PROVE Stays
    <3>1. Calm
      BY <2>3 DEF PlaceFails, Answer, Idle, TypeOK, Calm
    <3>2. QED
      BY <1>3, <2>3, <3>1 DEF PlaceFails, Fades
  <2>4. CASE UNCHANGED <<starts, launcher, unit>>
    BY <1>1, <2>4
  <2>5. QED
    BY <1>8, <2>1, <2>2, <2>3, <2>4 DEF Placement, PlaceProbe, EvictProbe, EvictSeen
<1>9. CASE FinishWrite
  <2>1. Calm
    BY <1>9 DEF FinishWrite, Leave, Idle, TypeOK, Calm
  <2>2. QED
    BY <1>3, <1>9, <2>1 DEF FinishWrite, Fades
<1>10. ASSUME NEW k \in LeaseIds, Account(k) PROVE Stays
  <2>1. UNCHANGED <<starts, launcher, unit>>
    BY <1>10 DEF Account, ReconcileProbe, ReconcileRelease, ReconcileConfirm, ReconcileStale, Expire
  <2>2. QED
    BY <1>1, <2>1
<1>11. CASE Restart
  <2>1. Calm
    BY <1>11 DEF Restart, Idle, Calm
  <2>2. QED
    BY <1>3, <1>11, <2>1 DEF Restart, Fades
<1> HIDE DEF Stays
<1>12. QED
  BY <1>4, <1>5, <1>6, <1>7, <1>8, <1>9, <1>10, <1>11 DEF Next

-----------------------------------------------------------------------------
(* Evidence: the probes and the lock's section. *)

\* The life of an account: never a new model, never back from released or confirmed.
LEMMA RowStep ==
  ASSUME TypeOK, TypeOK', Handlers, Evidence, [Next]_vars, NEW l \in LeaseIds, row[l].status # "none"
  PROVE  /\ row'[l].model = row[l].model /\ row'[l].status # "none"
         /\ Outstanding(l)' => Outstanding(l)
         /\ row[l].status = "confirmed" => row'[l].status \in {"confirmed", "released"}
         /\ row[l].status = "released" => row'[l].status = "released"
<1> DEFINE Ages == /\ row'[l].model = row[l].model /\ row'[l].status # "none"
                   /\ Outstanding(l)' => Outstanding(l)
                   /\ row[l].status = "confirmed" => row'[l].status \in {"confirmed", "released"}
                   /\ row[l].status = "released" => row'[l].status = "released"
<1>1. SUFFICES Ages
  OBVIOUS
<1>2. ASSUME UNCHANGED row PROVE Ages
  BY <1>2 DEF Outstanding, TypeOK, Lease, OpenStatus
<1>3. ASSUME NEW k \in LeaseIds, NEW status \in {"stale", "confirmed", "released"}, Transition(k, status),
             Outstanding(k), row[k].status = "confirmed" => status = "released"
      PROVE  Ages
  <2>1. /\ row'[l].model = row[l].model
        /\ row'[l].status = IF l = k THEN status ELSE row[l].status
    BY <1>3 DEF Transition, TypeOK, Lease
  <2>2. QED
    BY <1>3, <2>1 DEF Outstanding, OpenStatus
<1>4. CASE Grant
  BY <1>4 DEF Grant, Outstanding, TypeOK, OpenStatus
<1>5. CASE FinishWrite
  <2>1. section.lease \in LeaseIds /\ Outstanding(section.lease)
    BY <1>5 DEF FinishWrite, Evidence, TypeOK, Section
  <2>2. CASE Transition(section.lease, "released")
    BY <2>1, <2>2, <1>3
  <2>3. CASE section.op = "confirm" /\ section.seen /\ Transition(section.lease, "confirmed")
    <3>1. ASSUME row[section.lease].status = "confirmed" PROVE Ages
      BY <2>1, <2>3, <3>1 DEF Transition, TypeOK, Lease, Outstanding
    <3>2. QED
      BY <2>1, <2>3, <3>1, <1>3
  <2>4. QED
    BY <1>2, <1>5, <2>2, <2>3 DEF FinishWrite
<1>6. ASSUME NEW k \in LeaseIds, Account(k) PROVE Ages
  <2>1. ASSUME Applies(k) PROVE Outstanding(k)
    BY <2>1 DEF Applies, ProbeOf, TypeOK, Probe, Outstanding
  <2>2. CASE ReconcileRelease(k)
    BY <2>1, <2>2, <1>3 DEF ReconcileRelease
  <2>3. CASE ReconcileConfirm(k)
    BY <2>1, <2>3, <1>3 DEF ReconcileConfirm, MayConfirm
  <2>4. CASE ReconcileStale(k)
    BY <2>1, <2>4, <1>3 DEF ReconcileStale
  <2>5. QED
    BY <1>2, <1>6, <2>2, <2>3, <2>4 DEF Account, ReconcileProbe, Expire
<1>7. ASSUME NEW n \in Models, Launch(n) \/ Daemon(n) \/ FinishProbe(n) PROVE UNCHANGED row
  BY <1>7 DEF Launch, PlaceRequest, StartSubmit, StartTimeout, AfterFailedStart, MonitorExit,
     MonitorHealthy, MonitorGivesUp, RevokeCheck, RevokeStop, LauncherDies, Daemon, SystemdStart,
     UnitMoves, UnitReady, UnitUnwell, UnitStop, UnitExit, FinishProbe
<1>8. ASSUME Sampler \/ Restart \/ UNCHANGED vars PROVE UNCHANGED row
  BY <1>8 DEF Sampler, RoundBegin, RoundPublish, RoundFails, SampleAges, Restart
<1>9. ASSUME Placement, ~Grant PROVE UNCHANGED row
  BY <1>9 DEF Placement, PlaceProbe, EvictProbe, EvictSeen, PlaceFails, EvictStop
<1> HIDE DEF Ages
<1>10. QED
  BY <1>2, <1>4, <1>5, <1>6, <1>7, <1>8, <1>9 DEF Next

\* While a handler holds the lock between its probe and its write, no row changes.
LEMMA HeldStep ==
  ASSUME TypeOK, [Next]_vars, section # None, section' # None
  PROVE  /\ UNCHANGED row
         /\ \/ section' = section
            \/ Deciding /\ \E m \in Models : section' = [section EXCEPT !.handler = Unheard(@, m)]
<1> DEFINE Held == \/ section' = section
                   \/ Deciding /\ \E m \in Models : section' = [section EXCEPT !.handler = Unheard(@, m)]
<1>1. ASSUME NEW m \in Models, Launch(m) PROVE UNCHANGED row /\ Held
  <2>1. CASE LauncherDies(m)
    BY <2>1 DEF LauncherDies
  <2>2. QED
    BY <1>1, <2>1 DEF Launch, PlaceRequest, StartSubmit, StartTimeout, AfterFailedStart, MonitorExit,
       MonitorHealthy, MonitorGivesUp, RevokeCheck, RevokeStop
<1>2. ASSUME NEW m \in Models, Daemon(m) PROVE UNCHANGED row /\ Held
  BY <1>2 DEF Daemon, SystemdStart, UnitMoves, UnitReady, UnitUnwell, UnitStop, UnitExit
<1>3. ASSUME Sampler \/ UNCHANGED vars PROVE UNCHANGED row /\ Held
  BY <1>3 DEF Sampler, RoundBegin, RoundPublish, RoundFails, SampleAges
<1>4. ASSUME NEW l \in LeaseIds, Account(l) PROVE UNCHANGED row /\ Held
  BY <1>4 DEF Account, ReconcileProbe, ReconcileRelease, ReconcileConfirm, ReconcileStale, Expire, Applies
<1>5. ~Placement /\ ~FinishWrite /\ ~Restart /\ \A m \in Models : ~FinishProbe(m)
  BY DEF Placement, PlaceProbe, EvictProbe, EvictSeen, PlaceFails, Grant, EvictStop, FinishWrite,
     Restart, FinishProbe
<1> HIDE DEF Held
<1>6. UNCHANGED row /\ Held
  BY <1>1, <1>2, <1>3, <1>4, <1>5 DEF Next
<1>7. QED
  BY <1>6 DEF Held

\* What a handler probes when it enters its section.
LEMMA EnterStep ==
  ASSUME TypeOK, [Next]_vars, section = None, section' # None
  PROVE  /\ UNCHANGED <<row, unit, starts, launcher>>
         /\ \/ section'.op = "place"
            \/ /\ section'.op = "evict" /\ section'.lease \in OfModel(section'.victim)
               /\ section'.victim \in Models
               /\ \E l \in OfModel(section'.victim) : row[l].status = "confirmed"
            \/ /\ section'.op \in {"confirm", "release"} /\ section'.lease \in LeaseIds
               /\ Outstanding(section'.lease)
               /\ section'.op = "confirm" /\ section'.seen => ProbeActive(section'.lease)
               /\ section'.op = "release" /\ section'.seen => ProbeExited(section'.lease)
               /\ section'.op = "release"
                    => \E m \in Models : launcher[m].stage = "releasing" /\ launcher[m].lease = section'.lease
<1>1. ASSUME NEW m \in Models, FinishProbe(m), section' # None
      PROVE  /\ UNCHANGED <<row, unit, starts, launcher>>
             /\ section'.op \in {"confirm", "release"} /\ section'.lease \in LeaseIds
             /\ Outstanding(section'.lease)
             /\ section'.op = "confirm" /\ section'.seen => ProbeActive(section'.lease)
             /\ section'.op = "release" /\ section'.seen => ProbeExited(section'.lease)
             /\ section'.op = "release"
                  => \E n \in Models : launcher[n].stage = "releasing" /\ launcher[n].lease = section'.lease
  BY <1>1, HoldingLease DEF FinishProbe, Outstanding, OpenStatus, HoldingStages
<1>2. ASSUME NEW p \in places, NEW g \in Gpus, NEW v \in Models, EvictProbe(p, g, v)
      PROVE  /\ UNCHANGED <<row, unit, starts, launcher>>
             /\ section'.op = "evict" /\ section'.lease \in OfModel(section'.victim)
             /\ section'.victim \in Models
             /\ \E l \in OfModel(section'.victim) : row[l].status = "confirmed"
  <2>1. section'.op = "evict" /\ section'.lease \in OfModel(v) /\ section'.victim = v
    BY <1>2 DEF EvictProbe
  <2>2. v \in Evictable(g)
    BY <1>2 DEF EvictProbe, EvictionPlan
  <2>3. \E l \in OfModel(v) : row[l].status = "confirmed"
    BY <2>2 DEF Evictable
  <2>4. QED
    BY <1>2, <2>1, <2>3 DEF EvictProbe
<1>3. ASSUME NEW p \in places, NEW g \in Gpus, PlaceProbe(p, g)
      PROVE  UNCHANGED <<row, unit, starts, launcher>> /\ section'.op = "place"
  BY <1>3 DEF PlaceProbe
<1>4. ASSUME NEW m \in Models, Launch(m) \/ Daemon(m) PROVE UNCHANGED section
  BY <1>4 DEF Launch, PlaceRequest, StartSubmit, StartTimeout, AfterFailedStart, MonitorExit,
     MonitorHealthy, MonitorGivesUp, RevokeCheck, RevokeStop, LauncherDies, Deciding, Daemon,
     SystemdStart, UnitMoves, UnitReady, UnitUnwell, UnitStop, UnitExit
<1>5. ASSUME Sampler \/ Restart \/ FinishWrite \/ UNCHANGED vars PROVE section' \in {section, None}
  BY <1>5 DEF Sampler, RoundBegin, RoundPublish, RoundFails, SampleAges, Restart, FinishWrite
<1>6. ASSUME NEW l \in LeaseIds, Account(l) PROVE UNCHANGED section
  BY <1>6 DEF Account, ReconcileProbe, ReconcileRelease, ReconcileConfirm, ReconcileStale, Expire
<1>7. ASSUME NEW p \in places, EvictSeen(p) \/ PlaceFails(p) PROVE UNCHANGED section
  BY <1>7 DEF EvictSeen, PlaceFails
<1>8. ~Grant /\ ~EvictStop
  BY DEF Grant, EvictStop
<1>9. \/ \E m \in Models : FinishProbe(m)
      \/ \E p \in places, g \in Gpus, v \in Models : EvictProbe(p, g, v)
      \/ \E p \in places, g \in Gpus : PlaceProbe(p, g)
  BY <1>4, <1>5, <1>6, <1>7, <1>8 DEF Next, Placement
<1>10. QED
  BY <1>1, <1>2, <1>3, <1>9

\* A reconcile probe stays, goes, or is taken of an open account.
LEMMA ProbeStep ==
  ASSUME TypeOK, [Next]_vars, probe' # None
  PROVE  \/ UNCHANGED probe
         \/ \E l \in LeaseIds : ReconcileProbe(l)
<1>1. ASSUME NEW m \in Models, Launch(m) \/ Daemon(m) \/ FinishProbe(m) PROVE UNCHANGED probe
  BY <1>1 DEF Launch, PlaceRequest, StartSubmit, StartTimeout, AfterFailedStart, MonitorExit,
     MonitorHealthy, MonitorGivesUp, RevokeCheck, RevokeStop, LauncherDies, Daemon,
     SystemdStart, UnitMoves, UnitReady, UnitUnwell, UnitStop, UnitExit, FinishProbe
<1>2. ASSUME Sampler \/ Restart \/ FinishWrite \/ UNCHANGED vars PROVE probe' \in {probe, None}
  BY <1>2 DEF Sampler, RoundBegin, RoundPublish, RoundFails, SampleAges, Restart, FinishWrite
<1>3. ASSUME NEW l \in LeaseIds, Account(l) PROVE probe' \in {probe, None} \/ ReconcileProbe(l)
  BY <1>3 DEF Account, ReconcileRelease, ReconcileConfirm, ReconcileStale, Expire
<1>4. ASSUME Placement PROVE UNCHANGED probe
  BY <1>4 DEF Placement, PlaceProbe, EvictProbe, EvictSeen, PlaceFails, Grant, EvictStop
<1>5. QED
  BY <1>1, <1>2, <1>3, <1>4 DEF Next

\* What a probe saw stays true until it is used.
LEMMA EvidenceStep ==
  ASSUME TypeOK, TypeOK', Core, Evidence, Handlers, [Next]_vars PROVE Evidence'
<1>1. ASSUME NEW l \in LeaseIds, Outstanding(l), ProbeActive(l) PROVE Settled(l)
  BY <1>1 DEF ProbeActive, Core, OutstandingTokens
<1>2. ASSUME NEW l \in LeaseIds, row[l].status = "confirmed" PROVE Outstanding(l) /\ Settled(l)
  BY <1>2 DEF Core, OutstandingTokens, Outstanding, OpenStatus
<1>3. ASSUME NEW l \in LeaseIds, Outstanding(l), Settled(l)
      PROVE  /\ Settled(l)'
             /\ unit[row[l].model].phase = "absent" => unit'[row'[l].model].phase = "absent"
  <2>1. row[l].model \in Models /\ row[l].status # "none"
    BY <1>3, OutstandingModel DEF Core
  <2>2. row'[l].model = row[l].model
    BY <2>1, RowStep
  <2>3. QED
    BY <1>3, <2>1, <2>2, SettledStep
<1>4. ASSUME NEW l \in LeaseIds, probe' # None, l = probe'.lease
      PROVE  /\ row'[l].status # "none"
             /\ probe'.active /\ Outstanding(l)' => Settled(l)'
             /\ probe'.status = "confirmed" => row'[l].status \in {"confirmed", "released"}
             /\ probe'.exited /\ probe'.status = "confirmed" /\ row'[l].status = "confirmed"
                  => unit'[row'[l].model].phase = "absent"
  <2>1. CASE UNCHANGED probe
    <3>1. /\ row[l].status # "none"
          /\ probe.active /\ Outstanding(l) => Settled(l)
          /\ probe.status = "confirmed" => row[l].status \in {"confirmed", "released"}
          /\ probe.exited /\ probe.status = "confirmed" /\ row[l].status = "confirmed"
               => unit[row[l].model].phase = "absent"
      BY <1>4, <2>1 DEF Evidence
    <3>2. /\ row'[l].model = row[l].model /\ row'[l].status # "none"
          /\ Outstanding(l)' => Outstanding(l)
          /\ row[l].status = "confirmed" => row'[l].status \in {"confirmed", "released"}
          /\ row[l].status = "released" => row'[l].status = "released"
      BY <3>1, RowStep
    <3>3. probe.active /\ Outstanding(l)' => Settled(l)'
      BY <3>1, <3>2, <1>3
    <3>4. ASSUME probe.exited, probe.status = "confirmed", row'[l].status = "confirmed"
          PROVE  unit'[row'[l].model].phase = "absent"
      <4>1. row[l].status = "confirmed" /\ unit[row[l].model].phase = "absent"
        BY <3>1, <3>2, <3>4
      <4>2. QED
        BY <4>1, <1>2, <1>3
    <3>5. QED
      BY <2>1, <3>1, <3>2, <3>3, <3>4
  <2>2. CASE \E k \in LeaseIds : ReconcileProbe(k)
    <3>1. ReconcileProbe(l)
      BY <1>4, <2>2 DEF ReconcileProbe
    <3>2. /\ probe'.status = row[l].status
          /\ probe'.active = ProbeActive(l) /\ probe'.exited = ProbeExited(l)
          /\ Outstanding(l) /\ UNCHANGED <<row, unit, starts, launcher>>
      BY <3>1 DEF ReconcileProbe
    <3>3. probe'.active => Settled(l)'
      BY <3>2, <1>1 DEF Settled
    <3>4. row'[l].status # "none"
      BY <3>2 DEF Outstanding, OpenStatus
    <3>5. QED
      BY <3>2, <3>3, <3>4 DEF ProbeExited
  <2>3. QED
    BY <1>4, <2>1, <2>2, ProbeStep
<1>5. ASSUME NEW l \in LeaseIds, section' # None, section'.op \in {"confirm", "release"}, l = section'.lease
      PROVE  /\ Outstanding(l)'
             /\ section'.op = "confirm" /\ section'.seen => Settled(l)'
             /\ section'.op = "release" /\ section'.seen /\ row'[l].status = "confirmed"
                  => unit'[row'[l].model].phase = "absent"
  <2>1. CASE section # None
    <3>1. UNCHANGED <<row, section>>
      BY <1>5, <2>1, HeldStep DEF Deciding, TypeOK, Section
    <3>2. /\ Outstanding(l)
          /\ section.op = "confirm" /\ section.seen => Settled(l)
          /\ section.op = "release" /\ section.seen /\ row[l].status = "confirmed"
               => unit[row[l].model].phase = "absent"
      BY <1>5, <2>1, <3>1 DEF Evidence
    <3>3. Outstanding(l)'
      BY <3>1, <3>2 DEF Outstanding
    <3>4. section.op = "confirm" /\ section.seen => Settled(l)'
      BY <3>2, <1>3
    <3>5. section.op = "release" /\ section.seen /\ row'[l].status = "confirmed"
            => unit'[row'[l].model].phase = "absent"
      BY <3>1, <3>2, <1>2, <1>3
    <3>6. QED
      BY <3>1, <3>3, <3>4, <3>5
  <2>2. CASE section = None
    <3>1. /\ Outstanding(l) /\ UNCHANGED <<row, unit, starts, launcher>>
          /\ section'.op = "confirm" /\ section'.seen => ProbeActive(l)
          /\ section'.op = "release" /\ section'.seen => ProbeExited(l)
      BY <1>5, <2>2, EnterStep
    <3>2. section'.op = "confirm" /\ section'.seen => Settled(l)'
      BY <3>1, <1>1 DEF Settled
    <3>3. QED
      BY <3>1, <3>2 DEF ProbeExited, Outstanding
  <2>3. QED
    BY <2>1, <2>2
<1>6. ASSUME section' # None, section'.op = "evict"
      PROVE  row'[section'.lease].status = "confirmed" /\ row'[section'.lease].model = section'.victim
  <2>1. CASE section # None
    <3>1. /\ UNCHANGED row /\ section'.op = section.op /\ section'.lease = section.lease
          /\ section'.victim = section.victim
      BY <1>6, <2>1, HeldStep DEF Deciding, TypeOK, Section
    <3>2. QED
      BY <1>6, <2>1, <3>1 DEF Evidence
  <2>2. CASE section = None
    <3>1. /\ section'.lease \in OfModel(section'.victim) /\ section'.victim \in Models /\ UNCHANGED row
          /\ \E l \in OfModel(section'.victim) : row[l].status = "confirmed"
      BY <1>6, <2>2, EnterStep
    <3>2. row[section'.lease].status = "confirmed"
      BY <3>1 DEF Core, OneAccount
    <3>3. QED
      BY <3>1, <3>2 DEF OfModel
  <2>3. QED
    BY <2>1, <2>2
<1>7. /\ probe' # None => probe'.lease \in LeaseIds
      /\ section' # None /\ section'.op \in {"confirm", "release"} => section'.lease \in LeaseIds
  BY DEF TypeOK, Probe, Section
<1>8. QED
  BY <1>4, <1>5, <1>6, <1>7 DEF Evidence, Outstanding, Settled

-----------------------------------------------------------------------------
(* The handlers of a place request *)

\* Waiting launchers stay, handlers go.
LEMMA HandlersKept ==
  ASSUME TypeOK, Handlers, places' \subseteq places,
         \A p \in places' : p.heard => launcher'[p.model].stage = launcher[p.model].stage,
         section' = None \/ (UNCHANGED <<section, places>>) \/ (section' # None /\ ~Deciding')
                         \/ (section'.handler \in places')
  PROVE  Handlers'
BY DEF Handlers, Deciding

\* A launcher that moves was not waiting for a place.
LEMMA MovesHandlers ==
  ASSUME TypeOK, Handlers, NEW m \in Models, launcher[m].stage # "placing",
         \A k \in Models : k # m => launcher'[k] = launcher[k],
         UNCHANGED places, UNCHANGED section \/ (section' # None /\ ~Deciding')
  PROVE  Handlers'
<1>1. \A p \in places : p.model \in Models
  BY DEF TypeOK, Place
<1>2. QED
  BY <1>1, HandlersKept DEF Handlers

\* A handler whose client is gone keeps its model.
LEMMA UnheardHandler ==
  ASSUME NEW p \in Place, NEW m \in Models
  PROVE  /\ Unheard(p, m) \in Place /\ Unheard(p, m).model = p.model
         /\ Unheard(p, m).heard => p.heard /\ p.model # m /\ Unheard(p, m) = p
BY DEF Unheard, Place

\* The steps of a launcher preserve who waits for an answer.
LEMMA LaunchHandlers ==
  ASSUME TypeOK, Handlers, NEW m \in Models, Launch(m) PROVE Handlers'
<1>1. CASE PlaceRequest(m)
  <2>1. launcher'[m].stage = "placing" /\ \A k \in Models : k # m => launcher'[k] = launcher[k]
    BY <1>1 DEF PlaceRequest, Go, TypeOK, Launcher
  <2>2. \A p \in places : p.model \in Models /\ (p.heard => p.model # m)
    BY <1>1 DEF PlaceRequest, Handlers, TypeOK, Place
  <2>3. Handler(m).model = m /\ Handler(m).heard
    BY DEF Handler
  <2>4. places' = places \cup {Handler(m)} /\ UNCHANGED section
    BY <1>1 DEF PlaceRequest
  <2>5. QED
    BY <2>1, <2>2, <2>3, <2>4 DEF Handlers, Deciding
<1>2. CASE LauncherDies(m)
  <2>1. \A p \in places : p \in Place
    BY DEF TypeOK
  <2>2. \A k \in Models : k # m => launcher'[k] = launcher[k]
    BY <1>2 DEF LauncherDies, Leave, TypeOK
  <2>3. places' = {Unheard(p, m) : p \in places}
    BY <1>2 DEF LauncherDies
  <2>4. \A p \in places' : p.heard => p \in places /\ p.model # m
    BY <2>1, <2>3, UnheardHandler
  <2>5. \A p \in places' : p.heard => launcher'[p.model].stage = "placing"
    BY <2>1, <2>2, <2>4 DEF Handlers, Place
  <2>6. \A p, q \in places' : p.heard /\ q.heard /\ p.model = q.model => p = q
    BY <2>4 DEF Handlers
  <2>7. Deciding' => section'.handler \in places'
    BY <1>2, <2>3 DEF LauncherDies, Handlers, Deciding, TypeOK, Section
  <2>8. QED
    BY <2>5, <2>6, <2>7 DEF Handlers
<1>3. CASE StartSubmit(m) \/ StartTimeout(m) \/ MonitorExit(m) \/ MonitorHealthy(m)
  BY <1>3, MovesHandlers DEF StartSubmit, StartTimeout, MonitorExit, MonitorHealthy, Go, TypeOK
<1>4. CASE AfterFailedStart(m) \/ MonitorGivesUp(m) \/ RevokeCheck(m) \/ RevokeStop(m)
  BY <1>4, MovesHandlers DEF AfterFailedStart, MonitorGivesUp, RevokeCheck, RevokeStop, Go, Leave, TypeOK
<1>5. QED
  BY <1>1, <1>2, <1>3, <1>4 DEF Launch

\* The steps of a place handler preserve who waits for an answer.
LEMMA PlacementHandlers ==
  ASSUME TypeOK, Handlers, Placement PROVE Handlers'
<1>1. ASSUME NEW p \in places, NEW answer, Answer(p, answer), places' = places \ {p}, section' = None
      PROVE  Handlers'
  <2>1. p.model \in Models /\ \A q \in places : q.model \in Models
    BY DEF TypeOK, Place
  <2>2. \A q \in places' : q.heard => launcher'[q.model] = launcher[q.model]
    BY <1>1, <2>1 DEF Answer, Handlers, TypeOK
  <2>3. QED
    BY <1>1, <2>2, HandlersKept
<1>2. CASE Grant
  <2>1. section.handler \in places
    BY <1>2 DEF Grant, Handlers, Deciding
  <2>2. CASE Fits(section.handler.model, section.gpu)
    BY <1>1, <1>2, <2>1, <2>2 DEF Grant, Ends
  <2>3. CASE ~Fits(section.handler.model, section.gpu)
    BY <1>2, <2>3, HandlersKept DEF Grant
  <2>4. QED
    BY <2>2, <2>3
<1>3. ASSUME NEW p \in places, PlaceFails(p) PROVE Handlers'
  BY <1>1, <1>3 DEF PlaceFails, Ends
<1>4. ASSUME NEW p \in places, NEW victim, places' = (places \ {p}) \cup {[p EXCEPT !.victim = victim]},
             section' = None, UNCHANGED launcher
      PROVE  Handlers'
  <2> DEFINE r == [p EXCEPT !.victim = victim]
  <2>1. r.model = p.model /\ r.heard = p.heard
    BY DEF TypeOK, Place
  <2> HIDE DEF r
  <2>2. places' = (places \ {p}) \cup {r}
    BY <1>4 DEF r
  <2>3. QED
    BY <1>4, <2>1, <2>2 DEF Handlers, Deciding
<1>5. CASE EvictStop
  <2>1. section.handler \in places
    BY <1>5 DEF EvictStop, Handlers, Deciding
  <2>2. CASE EvictionPlan(section.handler.model, section.gpu, section.victim)
    BY <1>4, <1>5, <2>1, <2>2 DEF EvictStop
  <2>3. CASE ~EvictionPlan(section.handler.model, section.gpu, section.victim)
    BY <1>5, <2>3, HandlersKept DEF EvictStop
  <2>4. QED
    BY <2>2, <2>3
<1>6. ASSUME NEW p \in places, EvictSeen(p) PROVE Handlers'
  BY <1>4, <1>6 DEF EvictSeen
<1>7. ASSUME NEW p \in places, NEW g \in Gpus, PlaceProbe(p, g) PROVE Handlers'
  BY <1>7, HandlersKept DEF PlaceProbe
<1>8. ASSUME NEW p \in places, NEW g \in Gpus, NEW v \in Models, EvictProbe(p, g, v) PROVE Handlers'
  <2>1. section'.handler = p /\ UNCHANGED <<places, launcher>>
    BY <1>8 DEF EvictProbe
  <2>2. QED
    BY <2>1, HandlersKept
<1>9. QED
  BY <1>2, <1>3, <1>5, <1>6, <1>7, <1>8 DEF Placement

\* Every step preserves who waits for an answer.
LEMMA HandlersStep ==
  ASSUME TypeOK, Handlers, [Next]_vars PROVE Handlers'
<1>1. ASSUME NEW m \in Models, Daemon(m) PROVE Handlers'
  <2>1. CASE SystemdStart(m)
    <3>1. UNCHANGED launcher \/ (launcher[m].stage = "starting" /\ \A k \in Models : k # m => launcher'[k] = launcher[k])
      BY <2>1 DEF SystemdStart, Go, TypeOK
    <3>2. QED
      BY <2>1, <3>1, HandlersKept, MovesHandlers DEF SystemdStart
  <2>2. QED
    BY <1>1, <2>1, HandlersKept DEF Daemon, UnitMoves, UnitReady, UnitUnwell, UnitStop, UnitExit
<1>2. ASSUME NEW m \in Models, FinishProbe(m) PROVE Handlers'
  <2>1. launcher[m].stage \in {"confirming", "releasing"} /\ UNCHANGED places
    BY <1>2 DEF FinishProbe
  <2>2. \A k \in Models : k # m => launcher'[k] = launcher[k]
    BY <1>2 DEF FinishProbe, Go, Leave, TypeOK
  <2>3. UNCHANGED section \/ (section' # None /\ ~Deciding')
    BY <1>2, NoneAssumption DEF FinishProbe, Deciding, TypeOK
  <2>4. QED
    BY <2>1, <2>2, <2>3, MovesHandlers
<1>3. CASE Sampler \/ UNCHANGED vars
  BY <1>3, HandlersKept DEF Sampler, RoundBegin, RoundPublish, RoundFails, SampleAges
<1>4. CASE FinishWrite
  <2>1. \A k \in Models : launcher'[k] = launcher[k] \/ launcher[k].stage \in {"confirming", "releasing"}
    BY <1>4 DEF FinishWrite, Leave, TypeOK
  <2>2. \A p \in places : p.heard => launcher'[p.model].stage = launcher[p.model].stage
    BY <2>1 DEF Handlers, TypeOK, Place
  <2>3. QED
    BY <1>4, <2>2, HandlersKept DEF FinishWrite
<1>5. ASSUME NEW l \in LeaseIds, Account(l) PROVE Handlers'
  <2>1. UNCHANGED <<places, launcher, section>>
    BY <1>5 DEF Account, ReconcileProbe, ReconcileRelease, ReconcileConfirm, ReconcileStale, Expire
  <2>2. QED
    BY <2>1, HandlersKept
<1>6. CASE Restart
  BY <1>6 DEF Restart, Handlers, Deciding
<1>7. QED
  BY <1>1, <1>2, <1>3, <1>4, <1>5, <1>6, LaunchHandlers, PlacementHandlers DEF Next

-----------------------------------------------------------------------------
(* The theorems *)

\* The inductive invariant holds initially.
LEMMA ProtocolInit == Init => ProtocolInv
<1> SUFFICES ASSUME Init PROVE ProtocolInv
  OBVIOUS
<1>1. TypeOK
  BY TypeInit
<1>2. \A l \in LeaseIds : row[l].status = "none" /\ ~Outstanding(l)
  BY DEF Init, NoLease, Outstanding, OpenStatus
<1>3. \A m \in Models : /\ starts[m] = <<>> /\ unit[m].lease = None
                        /\ launcher[m].stage = "idle" /\ launcher[m].lease = None
  BY DEF Init, NoUnit, Idle
<1>4. OneAccount /\ Rows /\ OutstandingTokens
  BY <1>2 DEF OneAccount, OfModel, Rows, OutstandingTokens
<1>5. \A m \in Models : Queued(m) = {}
  BY <1>3 DEF Queued
<1>6. Tokens /\ Queues
  BY <1>3, <1>5, NoneIsNoId DEF Tokens, Queues
<1>7. Evidence /\ Handlers
  BY DEF Init, Evidence, Handlers, Deciding
<1>8. QED
  BY <1>1, <1>4, <1>6, <1>7 DEF ProtocolInv

\* The inductive invariant is preserved by every step.
LEMMA ProtocolStep == ProtocolInv /\ [Next]_vars => ProtocolInv'
<1> SUFFICES ASSUME ProtocolInv, [Next]_vars PROVE ProtocolInv'
  OBVIOUS
<1>1. TypeOK /\ Core /\ Evidence /\ Handlers
  BY DEF ProtocolInv, Core
<1>2. TypeOK'
  BY <1>1, TypeStep
<1>3. Core'
  BY <1>1, <1>2, CoreStep
<1>4. Evidence'
  BY <1>1, <1>2, EvidenceStep
<1>5. Handlers'
  BY <1>1, HandlersStep
<1>6. QED
  BY <1>2, <1>3, <1>4, <1>5 DEF ProtocolInv, Core

\* The inductive invariant: where the token of an account can be, what a probe
\* still means when it is used, and who waits for an answer.
THEOREM Protocol == Spec => []ProtocolInv
BY ProtocolInit, ProtocolStep, PTL DEF Spec

\* A model never has two accounts, however many place handlers of it still run.
THEOREM OneAccountHolds == Spec => []OneAccount
<1>1. ProtocolInv => OneAccount
  BY DEF ProtocolInv
<1>2. QED
  BY <1>1, Protocol, PTL

\* The unit behind a confirmed account carries that account's token.
THEOREM ConfirmedHolds == Spec => []ConfirmedIsRunning
<1>1. ProtocolInv => ConfirmedIsRunning
  <2>1. SUFFICES ASSUME ProtocolInv, NEW l \in LeaseIds, row[l].status = "confirmed"
                 PROVE  unit[row[l].model].lease \in {l, None}
    BY DEF ConfirmedIsRunning
  <2>2. Settled(l)
    BY <2>1 DEF ProtocolInv, OutstandingTokens, Outstanding, OpenStatus
  <2>3. QED
    BY <2>2 DEF Settled
<1>2. QED
  BY <1>1, Protocol, PTL

\* Who writes released over confirmed: the release handler and reconcile, each
\* on evidence that still holds.
LEMMA ReleaseStep ==
  ASSUME ProtocolInv, [Next]_vars, NEW l \in LeaseIds,
         row[l].status = "confirmed", row'[l].status = "released"
  PROVE  unit[row[l].model].phase = "absent"
<1>1. TypeOK /\ Evidence /\ Handlers
  BY DEF ProtocolInv
<1>2. ASSUME NEW k \in LeaseIds, NEW status \in {"stale", "confirmed", "released"}, Transition(k, status)
      PROVE  k = l /\ status = "released"
  BY <1>1, <1>2 DEF Transition, TypeOK, Lease
<1>3. ~UNCHANGED row
  OBVIOUS
<1>4. CASE FinishWrite
  <2>1. section.lease \in LeaseIds
    BY <1>1, <1>4 DEF FinishWrite, TypeOK, Section
  <2>2. CASE Transition(section.lease, "confirmed")
    BY <1>2, <2>1, <2>2
  <2>3. CASE section.op = "release" /\ section.seen /\ Transition(section.lease, "released")
    <3>1. section.lease = l
      BY <1>2, <2>1, <2>3
    <3>2. QED
      BY <1>1, <1>4, <2>3, <3>1 DEF FinishWrite, Evidence
  <2>4. QED
    BY <1>3, <1>4, <2>2, <2>3 DEF FinishWrite
<1>5. ASSUME NEW k \in LeaseIds, Account(k) PROVE unit[row[l].model].phase = "absent"
  <2>1. CASE ReconcileRelease(k)
    <3>1. k = l
      BY <1>2, <2>1 DEF ReconcileRelease
    <3>2. QED
      BY <1>1, <2>1, <3>1 DEF ReconcileRelease, Applies, ProbeOf, MayExit, Evidence
  <2>2. CASE ReconcileConfirm(k)
    BY <1>2, <2>2 DEF ReconcileConfirm
  <2>3. CASE ReconcileStale(k)
    BY <1>2, <2>3 DEF ReconcileStale
  <2>4. QED
    BY <1>3, <1>5, <2>1, <2>2, <2>3 DEF Account, ReconcileProbe, Expire
<1>6. ~Grant
  BY <1>1 DEF Grant, TypeOK
<1>7. ASSUME NEW n \in Models, Launch(n) \/ Daemon(n) \/ FinishProbe(n) PROVE UNCHANGED row
  BY <1>7 DEF Launch, PlaceRequest, StartSubmit, StartTimeout, AfterFailedStart, MonitorExit,
     MonitorHealthy, MonitorGivesUp, RevokeCheck, RevokeStop, LauncherDies, Daemon, SystemdStart,
     UnitMoves, UnitReady, UnitUnwell, UnitStop, UnitExit, FinishProbe
<1>8. ASSUME Sampler \/ Restart \/ UNCHANGED vars PROVE UNCHANGED row
  BY <1>8 DEF Sampler, RoundBegin, RoundPublish, RoundFails, SampleAges, Restart
<1>9. ASSUME Placement, ~Grant PROVE UNCHANGED row
  BY <1>9 DEF Placement, PlaceProbe, EvictProbe, EvictSeen, PlaceFails, EvictStop
<1>10. QED
  BY <1>3, <1>4, <1>5, <1>6, <1>7, <1>8, <1>9 DEF Next

\* A confirmed budget returns only when the unit is absent at that very step, not
\* only when it was probed.
THEOREM ReleaseHolds == Spec => ReleasedAfterExit
<1>1. ProtocolInv /\ [Next]_vars =>
        [\A l \in LeaseIds : row[l].status = "confirmed" /\ row'[l].status = "released"
           => unit[row[l].model].phase = "absent"]_vars
  BY ReleaseStep
<1>2. QED
  BY <1>1, Protocol, PTL DEF Spec, ReleasedAfterExit

\* A stop by unit name never hits a unit other than the one whose token was checked.
THEOREM StopHolds == Spec => StopsCheckedUnit
<1>1. ASSUME ProtocolInv, [Next]_vars, NEW m \in Models
      PROVE  /\ EvictStop /\ unit'[m] # unit[m] => unit[m].lease = section.lease
             /\ RevokeStop(m) => unit[m].lease \in {launcher[m].lease, None}
  <2>1. ASSUME EvictStop, unit'[m] # unit[m] PROVE unit[m].lease = section.lease
    <3> DEFINE v == section.victim
               k == section.lease
    <3>1. v \in Models /\ k \in LeaseIds /\ row[k].status = "confirmed" /\ row[k].model = v
      BY <1>1, <2>1 DEF ProtocolInv, EvictStop, Evidence, TypeOK, Section
    <3>2. m = v /\ unit[m].phase # "absent"
      BY <1>1, <2>1, <3>1 DEF ProtocolInv, EvictStop, Stopped, TypeOK
    <3>3. unit[m].lease \in {k, None}
      BY <1>1, <3>1, <3>2 DEF ProtocolInv, OutstandingTokens, Outstanding, OpenStatus, Settled
    <3>4. unit[m].lease \in LeaseIds
      BY <1>1, <3>2 DEF ProtocolInv, TypeOK, Unit, NoUnit
    <3>5. QED
      BY <3>3, <3>4, NoneIsNoId
  <2>2. ASSUME RevokeStop(m) PROVE unit[m].lease \in {launcher[m].lease, None}
    BY <1>1, <2>2 DEF ProtocolInv, RevokeStop, Queues
  <2>3. QED
    BY <2>1, <2>2
<1>2. ProtocolInv /\ [Next]_vars =>
        [\A m \in Models :
           /\ EvictStop /\ unit'[m] # unit[m] => unit[m].lease = section.lease
           /\ RevokeStop(m) => unit[m].lease \in {launcher[m].lease, None}]_vars
  BY <1>1
<1>3. QED
  BY <1>2, Protocol, PTL DEF Spec, StopsCheckedUnit

-----------------------------------------------------------------------------
(* Sums of budgets *)

\* The units of finitely many budgets are finitely many.
LEMMA SharesFinite ==
  ASSUME NEW S, IsFiniteSet(S), NEW size \in [S -> Nat]
  PROVE  IsFiniteSet(Shares(S, size)) /\ SumOf(S, size) \in Nat
<1> DEFINE Part(x) == {x} \X (1 .. size[x])
           Parts == {Part(x) : x \in S}
           f == [x \in S |-> Part(x)]
<1>1. f \in Surjection(S, Parts)
  BY DEF Surjection
<1>2. IsFiniteSet(Parts)
  BY <1>1, FS_Surjection
<1>3. ASSUME NEW x \in S PROVE IsFiniteSet(Part(x))
  <2>1. IsFiniteSet({x})
    BY FS_Singleton
  <2>2. size[x] \in Nat
    OBVIOUS
  <2>3. IsFiniteSet(1 .. size[x])
    BY <2>2, FS_Interval
  <2>4. QED
    BY <2>1, <2>3, FS_Product
<1>4. IsFiniteSet(UNION Parts)
  BY <1>2, <1>3, FS_UNION
<1>5. QED
  BY <1>4, FS_CardinalityType DEF Shares, SumOf

\* Accounts that map one to one into others, none of them smaller, sum up to no
\* more than those.
LEMMA SharesInjection ==
  ASSUME NEW S, NEW T, IsFiniteSet(T), NEW size \in [S -> Nat], NEW cap \in [T -> Nat],
         NEW f \in Injection(S, T), \A x \in S : size[x] <= cap[f[x]]
  PROVE  SumOf(S, size) \in Nat /\ SumOf(T, cap) \in Nat /\ SumOf(S, size) <= SumOf(T, cap)
<1> DEFINE F == [p \in Shares(S, size) |-> <<f[p[1]], p[2]>>]
<1>1. ASSUME NEW p \in Shares(S, size)
      PROVE  p[1] \in S /\ p[2] \in 1 .. size[p[1]] /\ p = <<p[1], p[2]>>
  BY DEF Shares
<1>2. f \in [S -> T] /\ \A x, y \in S : f[x] = f[y] => x = y
  BY DEF Injection, IsInjective
<1>3. ASSUME NEW p \in Shares(S, size) PROVE F[p] \in Shares(T, cap)
  <2>1. f[p[1]] \in T /\ size[p[1]] \in Nat /\ cap[f[p[1]]] \in Nat /\ size[p[1]] <= cap[f[p[1]]]
    BY <1>1, <1>2
  <2>2. p[2] \in 1 .. cap[f[p[1]]]
    BY <1>1, <2>1
  <2>3. QED
    BY <2>1, <2>2 DEF Shares
<1>4. ASSUME NEW p \in Shares(S, size), NEW q \in Shares(S, size), F[p] = F[q] PROVE p = q
  <2>1. f[p[1]] = f[q[1]] /\ p[2] = q[2]
    BY <1>4
  <2>2. QED
    BY <1>1, <1>2, <2>1
<1>5. F \in Injection(Shares(S, size), Shares(T, cap))
  BY <1>3, <1>4 DEF Injection, IsInjective
<1>6. IsFiniteSet(Shares(T, cap)) /\ SumOf(T, cap) \in Nat
  BY SharesFinite
<1> HIDE DEF F
<1>7. IsFiniteSet(Shares(S, size)) /\ SumOf(S, size) <= SumOf(T, cap)
  BY <1>5, <1>6, FS_Injection DEF SumOf
<1>8. QED
  BY <1>6, <1>7, FS_CardinalityType DEF SumOf

\* A further account adds its budget at most.
LEMMA SharesAdd ==
  ASSUME NEW S, IsFiniteSet(S), NEW x, NEW size, size \in [S \cup {x} -> Nat]
  PROVE  /\ SumOf(S, size) \in Nat /\ SumOf(S \cup {x}, size) \in Nat
         /\ SumOf(S \cup {x}, size) <= SumOf(S, size) + size[x]
<1> DEFINE A == Shares(S, size)
           B == {x} \X (1 .. size[x])
<1>1. Shares(S \cup {x}, size) = A \cup B
  BY DEF Shares
<1>2. IsFiniteSet(A) /\ SumOf(S, size) = Cardinality(A) /\ Cardinality(A) \in Nat
  <2>1. [y \in S |-> size[y]] \in [S -> Nat] /\ Shares(S, [y \in S |-> size[y]]) = A
    BY DEF Shares
  <2>2. QED
    BY <2>1, SharesFinite DEF SumOf
<1>3. IsFiniteSet(B) /\ Cardinality(B) = size[x]
  <2>1. size[x] \in Nat
    OBVIOUS
  <2>2. IsFiniteSet(1 .. size[x]) /\ Cardinality(1 .. size[x]) = size[x]
    BY <2>1, FS_Interval
  <2>3. IsFiniteSet({x}) /\ Cardinality({x}) = 1
    BY FS_Singleton
  <2>4. QED
    BY <2>1, <2>2, <2>3, FS_Product
<1> HIDE DEF A, B
<1>4. /\ IsFiniteSet(A \cup B)
      /\ Cardinality(A \cup B) = Cardinality(A) + Cardinality(B) - Cardinality(A \cap B)
  BY <1>2, <1>3, FS_Union
<1>5. Cardinality(A \cap B) \in Nat /\ Cardinality(B) \in Nat /\ Cardinality(A \cup B) \in Nat
  BY <1>2, <1>3, <1>4, FS_Intersection, FS_CardinalityType
<1>6. SumOf(S \cup {x}, size) = Cardinality(A \cup B)
  BY <1>1 DEF SumOf
<1>7. QED
  BY <1>2, <1>3, <1>4, <1>5, <1>6

-----------------------------------------------------------------------------
(* The ledger fits *)

\* The budgets of the open accounts of a card.
Sizes(g) == [l \in OnGpu(g) |-> Budget[row[l].model]]

CardFacts ==
  \A g \in Gpus :
    /\ [l \in OnGpu(g) |-> row[l].model] \in Injection(OnGpu(g), Models)
    /\ Sizes(g) \in [OnGpu(g) -> Nat] /\ IsFiniteSet(OnGpu(g)) /\ SumOf(OnGpu(g), Sizes(g)) \in Nat

\* Open accounts of one card are accounts of different models.
LEMMA ModelOfAccount == ProtocolInv => CardFacts
<1> SUFFICES ASSUME ProtocolInv, NEW g \in Gpus
             PROVE  /\ [l \in OnGpu(g) |-> row[l].model] \in Injection(OnGpu(g), Models)
                    /\ Sizes(g) \in [OnGpu(g) -> Nat] /\ IsFiniteSet(OnGpu(g))
                    /\ SumOf(OnGpu(g), Sizes(g)) \in Nat
  BY DEF CardFacts
<1>1. ASSUME NEW l \in OnGpu(g) PROVE row[l].model \in Models /\ l \in OfModel(row[l].model)
  BY <1>1, OutstandingModel DEF ProtocolInv, OnGpu, OfModel
<1>2. [l \in OnGpu(g) |-> row[l].model] \in Injection(OnGpu(g), Models)
  BY <1>1 DEF Injection, IsInjective, ProtocolInv, OneAccount
<1>3. Sizes(g) \in [OnGpu(g) -> Nat]
  BY <1>1, BudgetAssumption DEF Sizes
<1>4. IsFiniteSet(OnGpu(g))
  BY <1>2, ModelsAssumption, FS_Injection
<1>5. QED
  BY <1>2, <1>3, <1>4, SharesFinite

\* A card on which no account is opened promises no more than before.
LEMMA FitsKept ==
  ASSUME ProtocolInv, ProtocolInv', LedgerFits, NEW g \in Gpus,
         \A l \in OnGpu(g)' : l \in OnGpu(g) /\ row'[l].model = row[l].model
  PROVE  SumOf(OnGpu(g)', Sizes(g)') <= Capacity[g]
<1> DEFINE f == [l \in OnGpu(g)' |-> l]
<1>1. f \in Injection(OnGpu(g)', OnGpu(g))
  BY DEF Injection, IsInjective
<1>2. /\ Sizes(g) \in [OnGpu(g) -> Nat] /\ IsFiniteSet(OnGpu(g))
  BY ModelOfAccount DEF CardFacts
<1>3. Sizes(g)' \in [OnGpu(g)' -> Nat]
  <2>1. \A l \in OnGpu(g)' : Budget[row'[l].model] = Sizes(g)[l] /\ Sizes(g)[l] \in Nat
    BY <1>2 DEF Sizes
  <2>2. QED
    BY <2>1 DEF Sizes
<1>4. \A l \in OnGpu(g)' : Sizes(g)'[l] <= Sizes(g)[f[l]]
  <2>1. \A l \in OnGpu(g)' : Sizes(g)'[l] = Sizes(g)[f[l]] /\ Sizes(g)[f[l]] \in Nat
    BY <1>2 DEF Sizes
  <2>2. QED
    BY <2>1
<1> HIDE DEF f
<1>5. /\ SumOf(OnGpu(g)', Sizes(g)') \in Nat /\ SumOf(OnGpu(g), Sizes(g)) \in Nat
      /\ SumOf(OnGpu(g)', Sizes(g)') <= SumOf(OnGpu(g), Sizes(g))
  BY <1>1, <1>2, <1>3, <1>4, SharesInjection
<1>6. SumOf(OnGpu(g), Sizes(g)) <= Capacity[g] /\ Capacity[g] \in Nat
  BY CapacityAssumption DEF LedgerFits, Sizes
<1>7. QED
  BY <1>5, <1>6

\* Every open account of a card is among the models a trusted round charges to it.
LEMMA AccountIsCharged ==
  ASSUME ProtocolInv, Trusted, NEW g \in Gpus, NEW l \in OnGpu(g)
  PROVE  row[l].model \in Charged(g)
<1> DEFINE m == row[l].model
<1>1. m \in Models /\ l \in LeaseIds /\ Outstanding(l) /\ row[l].gpu = g
  BY OutstandingModel DEF ProtocolInv, OnGpu
<1>2. sample \in Sample
  BY DEF Trusted, ProtocolInv, TypeOK
<1>3. CASE sample[m].state = "serving"
  <2>1. sample[m].gpu = g
    BY <1>1, <1>3 DEF Trusted, AccountingConflict
  <2>2. sample[m] = [state |-> "serving", gpu |-> g]
    BY <1>1, <1>2, <1>3, <2>1 DEF Sample
  <2>3. QED
    BY <1>1, <2>2 DEF Charged
<1>4. CASE sample[m].state # "serving"
  BY <1>1, <1>4 DEF Trusted, AccountingConflict, Charged, OfModel
<1>5. QED
  BY <1>3, <1>4

\* A card that fits a model has room for it beside all it has promised: the open
\* accounts are accounts of different models, each of them charged.
LEMMA PromiseFits ==
  ASSUME ProtocolInv, NEW m \in Models, NEW g \in Gpus, Fits(m, g)
  PROVE  SumOf(OnGpu(g), Sizes(g)) + Budget[m] <= Capacity[g]
<1> DEFINE C == Charged(g)
           size == [n \in C |-> Budget[n]]
           f == [l \in OnGpu(g) |-> row[l].model]
<1>1. C \subseteq Models /\ IsFiniteSet(C)
  BY ModelsAssumption, FS_Subset DEF Charged
<1>2. size \in [C -> Nat]
  BY <1>1, BudgetAssumption
<1>3. f \in Injection(OnGpu(g), Models) /\ Sizes(g) \in [OnGpu(g) -> Nat]
  BY ModelOfAccount DEF CardFacts
<1>4. ASSUME NEW l \in OnGpu(g) PROVE f[l] \in C /\ Sizes(g)[l] = size[f[l]]
  BY AccountIsCharged DEF Fits, Admissible, Sizes
<1>5. f \in Injection(OnGpu(g), C)
  BY <1>3, <1>4 DEF Injection, IsInjective
<1>6. \A l \in OnGpu(g) : Sizes(g)[l] <= size[f[l]]
  <2>1. \A l \in OnGpu(g) : Sizes(g)[l] = size[f[l]] /\ size[f[l]] \in Nat
    BY <1>2, <1>4
  <2>2. QED
    BY <2>1
<1>7. /\ SumOf(OnGpu(g), Sizes(g)) \in Nat /\ SumOf(C, size) \in Nat
      /\ SumOf(OnGpu(g), Sizes(g)) <= SumOf(C, size)
  <2> HIDE DEF f, size, C
  <2>1. QED
    BY <1>1, <1>2, <1>3, <1>5, <1>6, SharesInjection
<1>8. SumOf(C, size) = Total(C)
  BY DEF SumOf, Shares, Total
<1>9. Budget[m] \in Nat /\ Capacity[g] \in Nat
  BY BudgetAssumption, CapacityAssumption
<1>10. Capacity[g] - Total(C) >= Budget[m]
  BY DEF Fits, Available
<1> HIDE DEF size, C
<1>11. QED
  BY <1>7, <1>8, <1>9, <1>10

\* What a handler with a decision that holds writes.
Opens(l, m, g) ==
  /\ Fits(m, g) /\ row[l].status = "none"
  /\ row' = [row EXCEPT ![l] = [status |-> "pending", model |-> m, gpu |-> g]]
  /\ UNCHANGED unit

\* A grant promises no more than the card has.
LEMMA GrantFits ==
  ASSUME ProtocolInv, NEW l \in LeaseIds, NEW m \in Models, NEW g \in Gpus, Opens(l, m, g)
  PROVE  SumOf(OnGpu(g)', Sizes(g)') <= Capacity[g]
<1>1. row \in [LeaseIds -> Lease]
  BY DEF ProtocolInv, TypeOK
<1>2. /\ row'[l].model = m /\ row'[l].gpu = g /\ row'[l].status = "pending"
      /\ \A k \in LeaseIds : k # l => row'[k] = row[k]
  BY <1>1 DEF Opens
<1>3. OnGpu(g)' = OnGpu(g) \cup {l} /\ l \notin OnGpu(g)
  BY <1>2 DEF OnGpu, Outstanding, OpenStatus, Opens
<1>4. /\ Sizes(g) \in [OnGpu(g) -> Nat] /\ IsFiniteSet(OnGpu(g))
      /\ SumOf(OnGpu(g), Sizes(g)) \in Nat
  BY ModelOfAccount DEF CardFacts
<1>5. \A k \in OnGpu(g) : Sizes(g)'[k] = Sizes(g)[k]
  BY <1>2, <1>3 DEF Sizes, OnGpu
<1>6. Sizes(g)'[l] = Budget[m] /\ Budget[m] \in Nat
  BY <1>2, <1>3, BudgetAssumption DEF Sizes
<1>7. Sizes(g)' \in [OnGpu(g) \cup {l} -> Nat]
  <2>1. \A k \in OnGpu(g) \cup {l} : Sizes(g)'[k] \in Nat
    BY <1>4, <1>5, <1>6
  <2>2. QED
    BY <1>3, <2>1 DEF Sizes
<1>8. Shares(OnGpu(g), Sizes(g)') = Shares(OnGpu(g), Sizes(g))
  BY <1>5 DEF Shares
<1>9. SumOf(OnGpu(g), Sizes(g)') = SumOf(OnGpu(g), Sizes(g))
  BY <1>8 DEF SumOf
<1>10. /\ SumOf(OnGpu(g) \cup {l}, Sizes(g)') \in Nat
       /\ SumOf(OnGpu(g) \cup {l}, Sizes(g)') <= SumOf(OnGpu(g), Sizes(g)') + Sizes(g)'[l]
  BY <1>4, <1>7, SharesAdd
<1>11. SumOf(OnGpu(g), Sizes(g)) + Budget[m] <= Capacity[g] /\ Capacity[g] \in Nat
  BY PromiseFits, CapacityAssumption DEF Opens
<1>12. QED
  BY <1>3, <1>4, <1>6, <1>9, <1>10, <1>11

-----------------------------------------------------------------------------
(* What a step does to the ledger *)

Becomes(l, status) ==
  Outstanding(l) /\ row' = [row EXCEPT ![l].status = status] /\ UNCHANGED unit

\* The steps that write a row: a grant, a confirmation, an account that goes stale,
\* a release.
LEMMA AccountSteps ==
  ASSUME ProtocolInv, [Next]_vars
  PROVE  \/ \E l \in LeaseIds, m \in Models, g \in Gpus : Opens(l, m, g)
         \/ \E l \in LeaseIds : Becomes(l, "confirmed")
         \/ \E l \in LeaseIds : row[l].status = "pending" /\ Becomes(l, "stale")
         \/ \E l \in LeaseIds : Becomes(l, "released")
         \/ UNCHANGED row
<1> DEFINE Does == \/ \E l \in LeaseIds, m \in Models, g \in Gpus : Opens(l, m, g)
                   \/ \E l \in LeaseIds : Becomes(l, "confirmed")
                   \/ \E l \in LeaseIds : row[l].status = "pending" /\ Becomes(l, "stale")
                   \/ \E l \in LeaseIds : Becomes(l, "released")
                   \/ UNCHANGED row
<1>1. TypeOK /\ Evidence /\ Handlers
  BY DEF ProtocolInv
<1>0. SUFFICES Does
  OBVIOUS
<1>2. CASE Grant
  <2>1. section.handler.model \in Models /\ section.gpu \in Gpus
    BY <1>1, <1>2 DEF Grant, TypeOK, Section, Place
  <2>2. CASE Fits(section.handler.model, section.gpu)
    <3>1. PICK l \in LeaseIds : Opens(l, section.handler.model, section.gpu)
      BY <1>2, <2>2 DEF Grant, Opens
    <3>2. QED
      BY <2>1, <3>1
  <2>3. CASE ~Fits(section.handler.model, section.gpu)
    BY <1>2, <2>3 DEF Grant
  <2>4. QED
    BY <2>2, <2>3
<1>3. CASE FinishWrite
  <2>1. section.lease \in LeaseIds /\ Outstanding(section.lease) /\ UNCHANGED unit
    BY <1>1, <1>3 DEF FinishWrite, Evidence, TypeOK, Section
  <2>2. CASE \E status \in {"confirmed", "released"} : Transition(section.lease, status)
    BY <2>1, <2>2 DEF Transition, Becomes
  <2>3. QED
    BY <1>3, <2>2 DEF FinishWrite
<1>4. ASSUME NEW k \in LeaseIds, Account(k) PROVE Does
  <2>1. ASSUME Applies(k) PROVE Outstanding(k)
    BY <1>1, <2>1 DEF Applies, ProbeOf, TypeOK, Probe, Outstanding
  <2>2. CASE ReconcileRelease(k) \/ ReconcileConfirm(k) \/ ReconcileStale(k)
    BY <2>1, <2>2 DEF ReconcileRelease, ReconcileConfirm, ReconcileStale, Transition, Becomes
  <2>3. QED
    BY <1>4, <2>2 DEF Account, ReconcileProbe, Expire
<1>5. ASSUME NEW n \in Models, Launch(n) \/ Daemon(n) \/ FinishProbe(n) PROVE UNCHANGED row
  BY <1>5 DEF Launch, PlaceRequest, StartSubmit, StartTimeout, AfterFailedStart, MonitorExit,
     MonitorHealthy, MonitorGivesUp, RevokeCheck, RevokeStop, LauncherDies, Daemon, SystemdStart,
     UnitMoves, UnitReady, UnitUnwell, UnitStop, UnitExit, FinishProbe
<1>6. ASSUME Sampler \/ Restart \/ UNCHANGED vars PROVE UNCHANGED row
  BY <1>6 DEF Sampler, RoundBegin, RoundPublish, RoundFails, SampleAges, Restart
<1>7. ASSUME Placement, ~Grant PROVE UNCHANGED row
  BY <1>7 DEF Placement, PlaceProbe, EvictProbe, EvictSeen, PlaceFails, EvictStop
<1>8. UNCHANGED row => Does
  OBVIOUS
<1> HIDE DEF Does
<1>9. QED
  BY <1>2, <1>3, <1>4, <1>5, <1>6, <1>7, <1>8 DEF Next

\* The ledger starts empty.
LEMMA LedgerInit == Init => LedgerFits
<1> SUFFICES ASSUME Init, NEW g \in Gpus PROVE SumOf(OnGpu(g), Sizes(g)) <= Capacity[g]
  BY DEF LedgerFits, Sizes
<1>1. OnGpu(g) = {}
  BY DEF Init, NoLease, OnGpu, Outstanding, OpenStatus
<1>2. Shares(OnGpu(g), Sizes(g)) = {}
  BY <1>1 DEF Shares
<1>3. QED
  BY <1>2, FS_EmptySet, CapacityAssumption DEF SumOf

\* Every step keeps what is promised of a card within what it has.
LEMMA LedgerStep ==
  ProtocolInv /\ ProtocolInv' /\ LedgerFits /\ [Next]_vars => LedgerFits'
<1> SUFFICES ASSUME ProtocolInv, ProtocolInv', LedgerFits, [Next]_vars, NEW g \in Gpus
             PROVE  SumOf(OnGpu(g)', Sizes(g)') <= Capacity[g]
  BY DEF LedgerFits, Sizes
<1>1. row \in [LeaseIds -> Lease]
  BY DEF ProtocolInv, TypeOK
<1>2. ASSUME NEW l \in LeaseIds, NEW m \in Models, NEW h \in Gpus, Opens(l, m, h)
      PROVE  SumOf(OnGpu(g)', Sizes(g)') <= Capacity[g]
  <2>1. CASE h = g
    BY <1>2, <2>1, GrantFits
  <2>2. CASE h # g
    <3>1. \A k \in OnGpu(g)' : k \in OnGpu(g) /\ row'[k].model = row[k].model
      BY <1>1, <1>2, <2>2 DEF OnGpu, Outstanding, Opens
    <3>2. QED
      BY <3>1, FitsKept
  <2>3. QED
    BY <2>1, <2>2
<1>3. ASSUME NEW l \in LeaseIds, NEW status, Becomes(l, status)
      PROVE  SumOf(OnGpu(g)', Sizes(g)') <= Capacity[g]
  <2>1. \A k \in LeaseIds : row'[k].model = row[k].model /\ row'[k].gpu = row[k].gpu
                            /\ (k # l => row'[k] = row[k])
    BY <1>1, <1>3 DEF Becomes, Lease
  <2>2. \A k \in OnGpu(g)' : k \in OnGpu(g) /\ row'[k].model = row[k].model
    BY <1>3, <2>1 DEF Becomes, OnGpu, Outstanding
  <2>3. QED
    BY <2>2, FitsKept
<1>4. CASE UNCHANGED row
  <2>1. \A k \in OnGpu(g)' : k \in OnGpu(g) /\ row'[k].model = row[k].model
    BY <1>4 DEF OnGpu, Outstanding
  <2>2. QED
    BY <2>1, FitsKept
<1>5. QED
  BY <1>2, <1>3, <1>4, AccountSteps

\* The ledger never promises more of a card than it has, whatever launchers, daemons
\* and restarts do.
THEOREM LedgerHolds == Spec => []LedgerFits
BY LedgerInit, LedgerStep, Protocol, PTL DEF Spec

-----------------------------------------------------------------------------
(* The protocol implements LeaseLedger *)

\* An id that was never granted has no account.
Untouched == \A l \in LeaseIds : row[l].status = "none" => row[l] = NoLease

\* No step leaves a trace in the ledger without granting.
LEMMA UntouchedStep == ProtocolInv /\ Untouched /\ [Next]_vars => Untouched'
<1> SUFFICES ASSUME ProtocolInv, Untouched, [Next]_vars PROVE Untouched'
  OBVIOUS
<1>1. row \in [LeaseIds -> Lease]
  BY DEF ProtocolInv, TypeOK
<1>2. ASSUME NEW l \in LeaseIds, NEW m \in Models, NEW g \in Gpus, Opens(l, m, g) PROVE Untouched'
  BY <1>1, <1>2 DEF Opens, Untouched
<1>3. ASSUME NEW l \in LeaseIds, NEW status \in {"stale", "confirmed", "released"}, Becomes(l, status)
      PROVE  Untouched'
  <2>1. row'[l].status = status /\ \A k \in LeaseIds : k # l => row'[k] = row[k]
    BY <1>1, <1>3 DEF Becomes, Lease
  <2>2. QED
    BY <2>1 DEF Untouched
<1>4. QED
  BY <1>2, <1>3, AccountSteps DEF Untouched

\* Initially nothing is accounted and no process runs.
LEMMA InitImplements == Init => Untouched /\ Ledger!Init
<1> SUFFICES ASSUME Init PROVE Untouched /\ Ledger!Init
  OBVIOUS
<1>1. {m \in Models : unit[m].phase # "absent"} = {}
  BY DEF Init, NoUnit
<1>2. QED
  BY <1>1 DEF Init, Untouched, NoLease, Ledger!Init, Ledger!NoAccount

\* The ledger counts as the protocol does.
LEMMA SameCardinality == ASSUME NEW S PROVE Ledger!Cardinality(S) = Cardinality(S)
BY DEF Ledger!Cardinality, Cardinality, Ledger!IsFiniteSet, IsFiniteSet

\* A grant of the protocol is a grant of the ledger: the card has room beside all it
\* has promised, and the model has no account.
LEMMA GrantImplements ==
  ASSUME ProtocolInv, Untouched, NEW l \in LeaseIds, NEW m \in Models, NEW g \in Gpus, Opens(l, m, g)
  PROVE  Ledger!Grant(l, m, g)
<1>1. row[l] = Ledger!NoAccount
  BY DEF Opens, Untouched, NoLease, Ledger!NoAccount
<1>2. \A k \in LeaseIds : Ledger!Open(k) => row[k].model # m
  BY DEF Opens, Fits, Admissible, OfModel, Outstanding, OpenStatus, Ledger!Open
<1>3. {k \in LeaseIds : Ledger!Open(k) /\ row[k].gpu = g} = OnGpu(g)
  BY DEF OnGpu, Outstanding, OpenStatus, Ledger!Open
<1>4. Ledger!Charge(OnGpu(g)) = SumOf(OnGpu(g), Sizes(g))
  <2>1. {{k} \X (1 .. Budget[row[k].model]) : k \in OnGpu(g)}
          = {{k} \X (1 .. Sizes(g)[k]) : k \in OnGpu(g)}
    BY DEF Sizes
  <2>2. Cardinality(UNION {{k} \X (1 .. Budget[row[k].model]) : k \in OnGpu(g)})
          = SumOf(OnGpu(g), Sizes(g))
    BY <2>1 DEF SumOf, Shares
  <2>3. QED
    BY <2>2, SameCardinality DEF Ledger!Charge
<1>5. SumOf(OnGpu(g), Sizes(g)) + Budget[m] <= Capacity[g]
  BY PromiseFits DEF Opens
<1>6. UNCHANGED {n \in Models : unit[n].phase # "absent"}
  BY DEF Opens
<1>7. QED
  BY <1>1, <1>2, <1>3, <1>4, <1>5, <1>6 DEF Opens, Ledger!Grant

\* Every step of the protocol is a step of the ledger or leaves it and the processes
\* as they are.
LEMMA StepImplements ==
  ProtocolInv /\ ProtocolInv' /\ Untouched /\ [Next]_vars => [Ledger!Next]_(Ledger!vars)
<1> SUFFICES ASSUME ProtocolInv, ProtocolInv', Untouched, [Next]_vars
             PROVE  Ledger!Next \/ UNCHANGED Ledger!vars
  OBVIOUS
<1> DEFINE alive == {m \in Models : unit[m].phase # "absent"}
<1>1. row \in [LeaseIds -> Lease] /\ TypeOK /\ TypeOK' /\ Core /\ Handlers
  BY DEF ProtocolInv, TypeOK, Core
<1>2. ASSUME NEW l \in LeaseIds, NEW m \in Models, NEW g \in Gpus, Opens(l, m, g) PROVE Ledger!Next
  BY <1>2, GrantImplements DEF Ledger!Next
<1>3. ASSUME NEW l \in LeaseIds, NEW status, Becomes(l, status) PROVE Ledger!Becomes(l, status)
  BY <1>3 DEF Becomes, Ledger!Becomes
<1>4. ASSUME NEW l \in LeaseIds, Becomes(l, "confirmed") PROVE Ledger!Next \/ UNCHANGED Ledger!vars
  <2>1. CASE row[l].status = "confirmed"
    <3>1. [row EXCEPT ![l].status = "confirmed"] = row
      BY <1>1, <2>1 DEF Lease
    <3>2. QED
      BY <1>4, <3>1 DEF Becomes, Ledger!vars
  <2>2. CASE row[l].status \in {"pending", "stale"}
    BY <1>3, <1>4, <2>2 DEF Ledger!Next, Ledger!Confirm
  <2>3. QED
    BY <1>4, <2>1, <2>2 DEF Becomes, Outstanding, OpenStatus
<1>5. ASSUME NEW l \in LeaseIds, row[l].status = "pending", Becomes(l, "stale") PROVE Ledger!Next
  BY <1>3, <1>5 DEF Ledger!Next, Ledger!GoStale
<1>6. ASSUME NEW l \in LeaseIds, Becomes(l, "released") PROVE Ledger!Next
  <2>1. row'[l].status = "released"
    BY <1>1, <1>6 DEF Becomes, Lease
  <2>2. row[l].status = "confirmed" => row[l].model \notin alive
    BY <2>1, ReleaseStep
  <2>3. Ledger!Open(l)
    BY <1>6 DEF Becomes, Outstanding, OpenStatus, Ledger!Open
  <2>4. Ledger!Release(l)
    BY <1>3, <1>6, <2>2, <2>3 DEF Ledger!Release
  <2>5. QED
    BY <2>4 DEF Ledger!Next
<1>7. CASE UNCHANGED row
  <2>1. ASSUME NEW l \in LeaseIds, row[l].status = "confirmed", row[l].model \in alive'
        PROVE  row[l].model \in alive
    <3>1. Outstanding(l) /\ Settled(l)
      BY <1>1, <2>1 DEF Core, OutstandingTokens, Outstanding, OpenStatus
    <3>2. unit[row[l].model].phase = "absent" => unit'[row[l].model].phase = "absent"
      BY <1>1, <2>1, <3>1, SettledStep
    <3>3. QED
      BY <2>1, <3>2
  <2>2. Ledger!ProcessMoves
    BY <1>7, <2>1 DEF Ledger!ProcessMoves
  <2>3. QED
    BY <2>2 DEF Ledger!Next
<1>8. QED
  BY <1>2, <1>4, <1>5, <1>6, <1>7, AccountSteps

\* The whole protocol is seen from the ledger as grants within the capacity of a card
\* for models without an account, confirmations, ageing, and releases that give a
\* confirmed budget back only when the model's process is gone.
THEOREM LedgerImplemented == Spec => LedgerSpec
<1>1. Spec => []Untouched
  BY InitImplements, UntouchedStep, Protocol, PTL DEF Spec
<1>2. QED
  BY <1>1, InitImplements, StepImplements, Protocol, PTL DEF Spec, LedgerSpec, Ledger!Spec

-----------------------------------------------------------------------------
(* Starts in time: what keeps the daemons themselves within their cards *)

\* The model's launcher has the answer with l and is about to submit its start.
Granting(m, l) == launcher[m].stage = "granted" /\ launcher[m].lease = l
\* A unit with token l may still come.
Coming(l) == \E m \in Models : l \in Queued(m) \/ Granting(m, l)

\* An account whose unit may still come is pending and not overdue.
ComingInTime == \A l \in LeaseIds : Coming(l) => row[l].status = "pending" /\ l \notin overdue

\* No unit outlives its account.
UnitsAccounted == \A m \in Models : unit[m].phase # "absent" => Outstanding(unit[m].lease)

\* What releases an account with evidence still holds: the unit is gone and none comes.
ProbeHolds ==
  probe # None /\ probe.exited /\ probe.status = row[probe.lease].status
    /\ (probe.status \in {"confirmed", "stale"} \/ probe.lease \in overdue)
  => unit[row[probe.lease].model].phase = "absent"
SectionHolds ==
  section # None /\ section.op = "release" /\ section.seen
    => ~Coming(section.lease) /\ unit[row[section.lease].model].phase = "absent"

\* A launcher that gives its account back has no start call under way.
EndedHolds == \A m \in Models :
  launcher[m].stage \in {"failed", "releasing"} => launcher[m].lease \notin Queued(m)
OverduePending == \A l \in overdue : row[l].status = "pending"

TimelyInv ==
  /\ ComingInTime /\ UnitsAccounted /\ ProbeHolds /\ SectionHolds /\ EndedHolds /\ OverduePending

\* Units that fit have an open account each, on their card.
LEMMA UnitsFitCard ==
  ASSUME ProtocolInv, LedgerFits, UnitsAccounted PROVE UnitsFit
<1> SUFFICES ASSUME NEW g \in Gpus
             PROVE  Total({m \in Models : unit[m].phase # "absent" /\ row[unit[m].lease].gpu = g})
                      <= Capacity[g]
  BY DEF UnitsFit
<1> DEFINE U == {m \in Models : unit[m].phase # "absent" /\ row[unit[m].lease].gpu = g}
           size == [m \in U |-> Budget[m]]
           f == [m \in U |-> unit[m].lease]
<1>1. size \in [U -> Nat]
  BY BudgetAssumption
<1>2. Sizes(g) \in [OnGpu(g) -> Nat] /\ IsFiniteSet(OnGpu(g))
  BY ModelOfAccount DEF CardFacts
<1>3. ASSUME NEW m \in U PROVE f[m] \in OnGpu(g) /\ row[f[m]].model = m
  <2>1. unit[m].lease \in LeaseIds
    BY DEF ProtocolInv, TypeOK, Unit, NoUnit
  <2>2. m \in Models /\ unit[m].phase # "absent" /\ row[unit[m].lease].gpu = g
    OBVIOUS
  <2>5. Outstanding(unit[m].lease)
    BY <2>2 DEF UnitsAccounted
  <2>3. row[unit[m].lease].model = m
    BY <2>1 DEF ProtocolInv, Tokens
  <2>4. QED
    BY <2>1, <2>2, <2>3, <2>5 DEF OnGpu
<1>4. f \in Injection(U, OnGpu(g))
  <2>1. f \in [U -> OnGpu(g)]
    BY <1>3
  <2>2. \A m, n \in U : f[m] = f[n] => m = n
    BY <1>3
  <2>3. QED
    BY <2>1, <2>2 DEF Injection, IsInjective
<1>5. \A m \in U : size[m] <= Sizes(g)[f[m]]
  <2>1. \A m \in U : size[m] = Sizes(g)[f[m]] /\ size[m] \in Nat
    BY <1>1, <1>3 DEF Sizes
  <2>2. \A i, j \in Nat : i = j => i <= j
    OBVIOUS
  <2> HIDE DEF U, size, f
  <2>3. QED
    BY <2>1, <2>2
<1>6. /\ SumOf(U, size) \in Nat /\ SumOf(OnGpu(g), Sizes(g)) \in Nat
      /\ SumOf(U, size) <= SumOf(OnGpu(g), Sizes(g))
  <2> HIDE DEF f, size, U
  <2>1. QED
    BY <1>1, <1>2, <1>4, <1>5, SharesInjection
<1>7. SumOf(U, size) = Total(U)
  BY DEF SumOf, Shares, Total
<1>8. SumOf(OnGpu(g), Sizes(g)) <= Capacity[g] /\ Capacity[g] \in Nat
  BY CapacityAssumption DEF LedgerFits, Sizes
<1> HIDE DEF U, size
<1>9. Total(U) <= Capacity[g]
  BY <1>6, <1>7, <1>8
<1>10. QED
  BY <1>9 DEF U

\* No start is submitted or executed and no answer granted; a launcher that begins to
\* give its account back has no start under way.
Quietly ==
  /\ UNCHANGED starts
  /\ \A k \in Models :
       /\ unit'[k].phase = "absent" \/ (unit[k].phase # "absent" /\ unit'[k].lease = unit[k].lease)
       /\ \/ launcher'[k] = launcher[k]
          \/ /\ launcher'[k].stage # "granted"
             /\ launcher'[k].stage \in {"failed", "releasing"} => launcher'[k].lease \notin Queued(k)

\* A unit that moves keeps its token or goes.
LEMMA UnitQuiet ==
  ASSUME TypeOK, NEW m \in Models,
         unit' = unit \/ (\E from, to : "absent" \notin from /\ UnitMoves(m, from, to))
           \/ unit' = [unit EXCEPT ![m] = Stopped(@)]
  PROVE  \A k \in Models :
           unit'[k].phase = "absent" \/ (unit[k].phase # "absent" /\ unit'[k].lease = unit[k].lease)
<1>1. unit \in [Models -> Unit] /\ unit[m] \in Unit
  BY DEF TypeOK
<1>2. CASE unit' = unit
  BY <1>2
<1>3. ASSUME NEW from, NEW to, "absent" \notin from, UnitMoves(m, from, to)
      PROVE  unit'[m].phase = "absent" \/ (unit[m].phase # "absent" /\ unit'[m].lease = unit[m].lease)
  BY <1>1, <1>3 DEF UnitMoves, Unit, NoUnit
<1>4. ASSUME NEW from, NEW to, UnitMoves(m, from, to) PROVE \A k \in Models : k # m => unit'[k] = unit[k]
  BY <1>1, <1>4 DEF UnitMoves
<1>5. CASE unit' = [unit EXCEPT ![m] = Stopped(@)]
  BY <1>1, <1>5 DEF Stopped, Unit, NoUnit
<1>6. QED
  BY <1>2, <1>3, <1>4, <1>5

\* Which steps do not start anything.
LEMMA QuietSteps ==
  ASSUME ProtocolInv, EndedHolds, StartsInTime, [Next]_vars
  PROVE  \/ Quietly
         \/ \E m \in Models : StartSubmit(m) \/ SystemdStart(m)
         \/ \E l \in LeaseIds, m \in Models, g \in Gpus : Granted(l, m, g) /\ UNCHANGED overdue
<1> DEFINE Does == \/ Quietly
                   \/ \E m \in Models : StartSubmit(m) \/ SystemdStart(m)
                   \/ \E l \in LeaseIds, m \in Models, g \in Gpus : Granted(l, m, g) /\ UNCHANGED overdue
<1>1. SUFFICES Does
  OBVIOUS
<1>2. TypeOK /\ Queues /\ Handlers
  BY DEF ProtocolInv
<1>3. ASSUME NEW m \in Models, Launch(m) PROVE Does
  <2>1. CASE PlaceRequest(m) \/ AfterFailedStart(m) \/ MonitorExit(m) \/ MonitorHealthy(m)
             \/ MonitorGivesUp(m) \/ RevokeCheck(m) \/ LauncherDies(m)
    <3>1. UNCHANGED <<unit, starts>>
      BY <2>1 DEF PlaceRequest, AfterFailedStart, MonitorExit, MonitorHealthy, MonitorGivesUp,
         RevokeCheck, LauncherDies
    <3>2. \A k \in Models : k # m => launcher'[k] = launcher[k]
      BY <1>2, <2>1 DEF PlaceRequest, AfterFailedStart, MonitorExit, MonitorHealthy, MonitorGivesUp,
         RevokeCheck, LauncherDies, Go, Leave, TypeOK
    <3>3. launcher'[m].stage # "granted"
      BY <1>2, <2>1 DEF PlaceRequest, AfterFailedStart, MonitorExit, MonitorHealthy, MonitorGivesUp,
         RevokeCheck, LauncherDies, Go, Leave, Idle, TypeOK, Launcher
    <3>4. launcher'[m].stage \in {"failed", "releasing"} =>
            launcher'[m].lease = launcher[m].lease /\ launcher[m].stage \in {"failed", "monitoring"}
      BY <1>2, <2>1 DEF PlaceRequest, AfterFailedStart, MonitorExit, MonitorHealthy, MonitorGivesUp,
         RevokeCheck, LauncherDies, Go, Leave, Idle, TypeOK, Launcher
    <3>5. launcher[m].stage \in {"failed", "monitoring"} => launcher[m].lease \notin Queued(m)
      BY <1>2 DEF Queues, Queued, EndedHolds
    <3>6. QED
      BY <3>1, <3>2, <3>3, <3>4, <3>5 DEF Quietly
  <2>2. CASE RevokeStop(m)
    <3>1. \A k \in Models : launcher'[k] = launcher[k] \/ launcher'[k].stage = "idle"
      BY <1>2, <2>2 DEF RevokeStop, Leave, Idle, TypeOK
    <3>2. QED
      BY <1>2, <2>2, <3>1, UnitQuiet DEF RevokeStop, Quietly
  <2>3. ~StartTimeout(m)
    BY DEF StartTimeout
  <2>4. QED
    BY <1>3, <2>1, <2>2, <2>3 DEF Launch
<1>4. ASSUME NEW m \in Models, Daemon(m) PROVE Does
  <2>1. ASSUME NEW from, NEW to, "absent" \notin from, UnitMoves(m, from, to) PROVE Quietly
    BY <1>2, <2>1, UnitQuiet DEF UnitMoves, Quietly
  <2>2. QED
    BY <1>4, <2>1 DEF Daemon, UnitReady, UnitUnwell, UnitStop, UnitExit
<1>5. ASSUME NEW m \in Models, FinishProbe(m) PROVE Quietly
  <2>1. \A k \in Models : launcher'[k] = launcher[k] \/ launcher'[k].stage \in {"idle", "revoking"}
    BY <1>2, <1>5 DEF FinishProbe, Go, Leave, Idle, TypeOK, Launcher
  <2>2. QED
    BY <1>5, <2>1 DEF FinishProbe, Quietly
<1>6. CASE Sampler \/ UNCHANGED vars
  BY <1>6 DEF Sampler, RoundBegin, RoundPublish, RoundFails, SampleAges, Quietly
<1>7. CASE Grant
  <2> DEFINE q == section.handler
  <2>1. q \in places /\ q.model \in Models /\ section.gpu \in Gpus
    BY <1>2, <1>7 DEF Grant, Handlers, Deciding, TypeOK, Section, Place
  <2>2. CASE Fits(q.model, section.gpu)
    <3>1. PICK l \in LeaseIds :
            /\ row[l].status = "none"
            /\ row' = [row EXCEPT ![l] = [status |-> "pending", model |-> q.model, gpu |-> section.gpu]]
            /\ Answer(q, [stage |-> "granted", lease |-> l])
      BY <1>7, <2>2 DEF Grant
    <3>2. OfModel(q.model) = {}
      BY <2>2 DEF Fits, Admissible
    <3>3. \A k \in Models : \/ launcher'[k] = launcher[k]
                            \/ k = q.model /\ launcher'[k] = [stage |-> "granted", lease |-> l]
      BY <1>2, <3>1, <2>1 DEF Answer, TypeOK
    <3>4. UNCHANGED <<unit, starts, overdue>>
      BY <1>7 DEF Grant
    <3>5. Granted(l, q.model, section.gpu)
      BY <3>1, <3>2, <3>3, <3>4 DEF Granted
    <3> HIDE DEF q
    <3>6. QED
      BY <2>1, <3>4, <3>5
  <2>3. CASE ~Fits(q.model, section.gpu)
    BY <1>7, <2>3 DEF Grant, Quietly
  <2>4. QED
    BY <2>2, <2>3
<1>8. CASE EvictStop
  <2>1. section.victim \in Models /\ UNCHANGED <<starts, launcher>>
    BY <1>2, <1>8 DEF EvictStop, TypeOK, Section
  <2>2. unit' = unit \/ unit' = [unit EXCEPT ![section.victim] = Stopped(@)]
    BY <1>8 DEF EvictStop
  <2>3. QED
    BY <1>2, <2>1, <2>2, UnitQuiet DEF Quietly
<1>9. ASSUME NEW p \in places, PlaceFails(p) PROVE Quietly
  <2>1. \A k \in Models : launcher'[k] = launcher[k] \/ launcher'[k].stage = "idle"
    BY <1>2, <1>9 DEF PlaceFails, Answer, Idle, TypeOK
  <2>2. QED
    BY <1>9, <2>1 DEF PlaceFails, Quietly
<1>10. CASE UNCHANGED <<starts, unit, launcher>>
  BY <1>10 DEF Quietly
<1>11. CASE Placement
  BY <1>7, <1>8, <1>9, <1>10, <1>11 DEF Placement, PlaceProbe, EvictProbe, EvictSeen
<1>12. CASE FinishWrite
  <2>1. \A k \in Models : launcher'[k] = launcher[k] \/ launcher'[k].stage = "idle"
    BY <1>2, <1>12 DEF FinishWrite, Leave, Idle, TypeOK
  <2>2. QED
    BY <1>12, <2>1 DEF FinishWrite, Quietly
<1>13. ASSUME NEW l \in LeaseIds, Account(l) PROVE Does
  BY <1>10, <1>13 DEF Account, ReconcileProbe, ReconcileRelease, ReconcileConfirm, ReconcileStale, Expire
<1>14. CASE Restart
  <2>1. \A k \in Models : launcher'[k] = launcher[k] \/ launcher'[k].stage = "idle"
    BY <1>2, <1>14 DEF Restart, Idle, TypeOK
  <2>2. QED
    BY <1>14, <2>1 DEF Restart, Quietly
<1>15. Quietly => Does
  OBVIOUS
<1> HIDE DEF Does
<1>16. QED
  BY <1>3, <1>4, <1>5, <1>6, <1>11, <1>12, <1>13, <1>14, <1>15 DEF Next

\* What may come belongs to an account of its model.
LEMMA ComingModel ==
  ASSUME ProtocolInv, NEW l \in LeaseIds
  PROVE  /\ Coming(l) => /\ row[l].status # "none" /\ row[l].model \in Models
                         /\ l \in Queued(row[l].model) \/ Granting(row[l].model, l)
BY DEF ProtocolInv, Tokens, Coming, Granting

\* A step that starts nothing lets nothing come that could not come before.
LEMMA QuietComing ==
  ASSUME Quietly, EndedHolds
  PROVE  /\ \A l : Coming(l)' => Coming(l)
         /\ EndedHolds'
<1>1. \A k \in Models : Queued(k)' = Queued(k)
  BY DEF Quietly, Queued
<1>2. \A l : Coming(l)' => Coming(l)
  BY <1>1 DEF Quietly, Coming, Granting
<1>3. EndedHolds'
  BY <1>1 DEF Quietly, EndedHolds
<1>4. QED
  BY <1>2, <1>3

\* A start call that is submitted was granted.
LEMMA SubmitComing ==
  ASSUME ProtocolInv, EndedHolds, NEW m \in Models, StartSubmit(m)
  PROVE  /\ \A l : Coming(l)' => Coming(l)
         /\ EndedHolds'
<1> DEFINE l == launcher[m].lease
<1>1. l \in LeaseIds /\ launcher[m].stage = "granted" /\ starts[m] \in Seq(LeaseIds)
      /\ launcher \in [Models -> Launcher] /\ starts \in [Models -> Seq(LeaseIds)]
  BY HoldingLease DEF StartSubmit, HoldingStages, ProtocolInv, TypeOK
<1>2. starts'[m] = Append(starts[m], l) /\ \A k \in Models : k # m => starts'[k] = starts[k]
  BY <1>1 DEF StartSubmit
<1>3. launcher'[m].stage = "starting" /\ \A k \in Models : k # m => launcher'[k] = launcher[k]
  <2>1. launcher[m] \in [stage : HoldingStages, lease : LeaseIds]
    BY <1>1 DEF Launcher, HoldingStages
  <2>2. QED
    BY <1>1, <2>1 DEF StartSubmit, Go
<1>4. Queued(m)' \subseteq Queued(m) \cup {l}
  <2>1. /\ Len(starts[m]) \in Nat /\ DOMAIN starts[m] = 1..Len(starts[m])
        /\ DOMAIN starts'[m] = 1..(Len(starts[m]) + 1)
        /\ \A i \in 1..Len(starts[m]) : starts'[m][i] = starts[m][i]
        /\ starts'[m][Len(starts[m]) + 1] = l
    BY <1>1, <1>2, AppendFacts
  <2>2. \A i \in 1..(Len(starts[m]) + 1) : i \in 1..Len(starts[m]) \/ i = Len(starts[m]) + 1
    BY <2>1
  <2>3. QED
    BY <2>1, <2>2 DEF Queued
<1>5. \A k \in Models : k # m => Queued(k)' = Queued(k)
  BY <1>2 DEF Queued
<1>6. Granting(m, l)
  BY <1>1 DEF Granting
<1> HIDE DEF l
<1>7. \A x : Coming(x)' => Coming(x)
  BY <1>3, <1>4, <1>5, <1>6 DEF Coming, Granting
<1>8. EndedHolds'
  BY <1>3, <1>5 DEF EndedHolds
<1>9. QED
  BY <1>7, <1>8

\* A start call that is executed brings the unit of an account that could come.
LEMMA StartComing ==
  ASSUME ProtocolInv, EndedHolds, NEW m \in Models, SystemdStart(m)
  PROVE  /\ \A l : Coming(l)' => Coming(l)
         /\ EndedHolds'
         /\ Head(starts[m]) \in LeaseIds /\ Head(starts[m]) \in Queued(m) /\ UNCHANGED <<row, overdue>>
         /\ \A k \in Models : unit'[k] = unit[k] \/ (k = m /\ unit'[k].lease = Head(starts[m]))
<1> DEFINE l == Head(starts[m])
<1>1. starts[m] \in Seq(LeaseIds) /\ starts[m] # <<>> /\ starts \in [Models -> Seq(LeaseIds)]
      /\ launcher \in [Models -> Launcher] /\ unit \in [Models -> Unit]
  BY DEF SystemdStart, ProtocolInv, TypeOK
<1>2. starts'[m] = Tail(starts[m]) /\ \A k \in Models : k # m => starts'[k] = starts[k]
  BY <1>1 DEF SystemdStart
<1>3. /\ Len(starts[m]) \in Nat \ {0} /\ DOMAIN starts[m] = 1..Len(starts[m])
      /\ l = starts[m][1] /\ l \in LeaseIds
      /\ DOMAIN starts'[m] = 1..(Len(starts[m]) - 1)
      /\ \A i \in 1..(Len(starts[m]) - 1) : starts'[m][i] = starts[m][i + 1]
  BY <1>1, <1>2, TailFacts
<1>4. \A i \in 1..(Len(starts[m]) - 1) : i + 1 \in 1..Len(starts[m]) /\ i + 1 # 1
  BY <1>3
<1>5. l \in Queued(m) /\ Queued(m)' \subseteq Queued(m)
  BY <1>3, <1>4 DEF Queued
<1>6. l \notin Queued(m)'
  <2>1. \A i, j \in DOMAIN starts[m] : starts[m][i] = starts[m][j] => i = j
    BY DEF ProtocolInv, Queues
  <2>2. 1 \in DOMAIN starts[m]
    BY <1>3
  <2>3. ASSUME NEW i \in 1..(Len(starts[m]) - 1) PROVE starts'[m][i] # l
    <3>1. starts'[m][i] = starts[m][i + 1] /\ i + 1 \in DOMAIN starts[m] /\ i + 1 # 1
      BY <1>3, <1>4
    <3>2. QED
      BY <1>3, <2>1, <2>2, <3>1
  <2>4. QED
    BY <1>3, <2>3 DEF Queued
<1>7. \A k \in Models : k # m => Queued(k)' = Queued(k)
  BY <1>2 DEF Queued
<1>8. /\ \A k \in Models : k # m => launcher'[k] = launcher[k]
      /\ \/ launcher'[m] = launcher[m]
         \/ launcher'[m].stage \in {"monitoring", "failed"} /\ launcher'[m].lease = l
  <2> HIDE DEF l
  <2>1. CASE UNCHANGED launcher
    BY <2>1
  <2>2. ASSUME NEW stage \in {"monitoring", "failed"}, Go(m, stage),
               launcher[m] = [stage |-> "starting", lease |-> l]
        PROVE  /\ \A k \in Models : k # m => launcher'[k] = launcher[k]
               /\ launcher'[m].stage = stage /\ launcher'[m].lease = l
    <3>1. launcher'[m] = [launcher[m] EXCEPT !.stage = stage]
      BY <1>1, <2>2 DEF Go
    <3>2. [launcher[m] EXCEPT !.stage = stage] = [stage |-> stage, lease |-> l]
      BY <2>2
    <3>3. QED
      BY <1>1, <2>2, <3>1, <3>2 DEF Go
  <2>3. UNCHANGED launcher
        \/ /\ \E stage \in {"monitoring", "failed"} : Go(m, stage)
           /\ launcher[m] = [stage |-> "starting", lease |-> l]
    BY DEF SystemdStart, l
  <2>4. QED
    BY <2>1, <2>2, <2>3
<1>9. \A k \in Models : unit'[k] = unit[k] \/ (k = m /\ unit'[k].lease = l)
  BY <1>1 DEF SystemdStart
<1>10. UNCHANGED <<row, overdue>>
  BY DEF SystemdStart
<1> HIDE DEF l
<1>11. \A x : Coming(x)' => Coming(x)
  BY <1>5, <1>7, <1>8 DEF Coming, Granting
<1>12. EndedHolds'
  BY <1>5, <1>6, <1>7, <1>8 DEF EndedHolds
<1>13. QED
  BY <1>3, <1>5, <1>9, <1>10, <1>11, <1>12 DEF l

\* A grant lets the new account come, and nothing else.
LEMMA GrantComing ==
  ASSUME ProtocolInv, EndedHolds, NEW l \in LeaseIds, NEW m \in Models, NEW g \in Gpus, Granted(l, m, g)
  PROVE  /\ \A x : Coming(x)' => Coming(x) \/ x = l
         /\ EndedHolds' /\ ~Coming(l)
         /\ UNCHANGED unit /\ row[l].status = "none" /\ row'[l].status = "pending"
         /\ \A k \in LeaseIds : k # l => row'[k] = row[k]
<1>1. row \in [LeaseIds -> Lease]
  BY DEF ProtocolInv, TypeOK
<1>2. \A k \in Models : Queued(k)' = Queued(k)
  BY DEF Granted, Queued
<1>3. \A x : Coming(x)' => Coming(x) \/ x = l
  BY <1>2 DEF Granted, Coming, Granting
<1>4. EndedHolds'
  BY <1>2 DEF Granted, EndedHolds
<1>5. ~Coming(l)
  BY ComingModel DEF Granted
<1>6. QED
  BY <1>1, <1>3, <1>4, <1>5 DEF Granted

\* An account whose unit is gone and cannot come stays without a unit.
LEMMA GoneStep ==
  ASSUME ProtocolInv, ComingInTime, EndedHolds, StartsInTime, [Next]_vars,
         NEW l \in LeaseIds, Outstanding(l), ~Coming(l), unit[row[l].model].phase = "absent"
  PROVE  ~Coming(l)' /\ unit'[row[l].model].phase = "absent"
<1> DEFINE m == row[l].model
<1>1. m \in Models
  BY OutstandingModel DEF ProtocolInv
<1>2. CASE Quietly
  BY <1>1, <1>2, QuietComing DEF Quietly
<1>3. ASSUME NEW n \in Models, StartSubmit(n) PROVE ~Coming(l)' /\ unit'[m].phase = "absent"
  BY <1>3, SubmitComing DEF StartSubmit
<1>4. ASSUME NEW n \in Models, SystemdStart(n) PROVE ~Coming(l)' /\ unit'[m].phase = "absent"
  <2> DEFINE k == Head(starts[n])
  <2>1. /\ ~Coming(l)' /\ k \in LeaseIds /\ k \in Queued(n)
        /\ \A i \in Models : unit'[i] = unit[i] \/ (i = n /\ unit'[i].lease = k)
    BY <1>4, StartComing
  <2> HIDE DEF k
  <2>2. Coming(k)
    BY <2>1 DEF Coming
  <2>3. row[k].status = "pending" /\ row[k].model = n
    <3>1. row[k].status = "pending"
      BY <2>1, <2>2 DEF ComingInTime
    <3>2. row[k].model = n
      BY <2>1 DEF ProtocolInv, Tokens
    <3>3. QED
      BY <3>1, <3>2
  <2>4. n # m
    BY <1>1, <2>1, <2>2, <2>3 DEF ProtocolInv, OneAccount, OfModel, Outstanding, OpenStatus
  <2>5. QED
    BY <1>1, <2>1, <2>4
<1>5. ASSUME NEW k \in LeaseIds, NEW n \in Models, NEW g \in Gpus, Granted(k, n, g)
      PROVE  ~Coming(l)' /\ unit'[m].phase = "absent"
  <2>1. k # l
    BY <1>5 DEF Granted, Outstanding, OpenStatus
  <2>2. QED
    BY <1>5, <2>1, GrantComing
<1>6. QED
  BY <1>2, <1>3, <1>4, <1>5, QuietSteps

\* A row that is written on evidence: its unit cannot come any more, and is gone when
\* the account is released.
Justified(l, status) ==
  /\ Outstanding(l) /\ ~Coming(l)
  /\ Transition(l, status) /\ UNCHANGED unit
  /\ status = "released" => unit[row[l].model].phase = "absent"
  /\ status = "stale" => probe' = None

\* What happens to the ledger when starts are in time.
LEMMA LedgerCases ==
  ASSUME ProtocolInv, TimelyInv, [Next]_vars
  PROVE  \/ UNCHANGED ledger
         \/ \E l \in LeaseIds, m \in Models, g \in Gpus : Opens(l, m, g) /\ UNCHANGED overdue
         \/ \E l \in LeaseIds, status \in {"confirmed", "stale", "released"} : Justified(l, status)
         \/ \E l \in LeaseIds : Expire(l)
         \/ Restart
<1> DEFINE Does == \/ UNCHANGED ledger
                   \/ \E l \in LeaseIds, m \in Models, g \in Gpus : Opens(l, m, g) /\ UNCHANGED overdue
                   \/ \E l \in LeaseIds, status \in {"confirmed", "stale", "released"} : Justified(l, status)
                   \/ \E l \in LeaseIds : Expire(l)
                   \/ Restart
<1>1. SUFFICES Does
  OBVIOUS
<1>2. TypeOK /\ Evidence /\ Handlers
  BY DEF ProtocolInv
<1>3. ASSUME NEW l \in LeaseIds, Settled(l) PROVE ~Coming(l)
  BY <1>3, ComingModel DEF Settled, Granting, Queued
<1>4. CASE Grant
  <2>1. section.handler.model \in Models /\ section.gpu \in Gpus
    BY <1>2, <1>4 DEF Grant, TypeOK, Section, Place
  <2>2. CASE Fits(section.handler.model, section.gpu)
    <3>1. PICK l \in LeaseIds : Opens(l, section.handler.model, section.gpu) /\ UNCHANGED overdue
      BY <1>4, <2>2 DEF Grant, Opens
    <3>2. QED
      BY <2>1, <3>1
  <2>3. CASE ~Fits(section.handler.model, section.gpu)
    BY <1>4, <2>3 DEF Grant
  <2>4. QED
    BY <2>2, <2>3
<1>5. CASE FinishWrite
  <2> DEFINE l == section.lease
  <2>1. l \in LeaseIds /\ Outstanding(l) /\ UNCHANGED unit /\ section # None
    BY <1>2, <1>5 DEF FinishWrite, Evidence, TypeOK, Section
  <2>2. CASE section.op = "confirm" /\ section.seen /\ Transition(l, "confirmed")
    <3>1. ~Coming(l)
      BY <1>2, <1>3, <2>1, <2>2 DEF Evidence
    <3>2. Justified(l, "confirmed")
      BY <2>1, <2>2, <3>1 DEF Justified
    <3>3. QED
      BY <2>1, <3>2
  <2>3. CASE section.op = "release" /\ section.seen /\ Transition(l, "released")
    <3>1. ~Coming(l) /\ unit[row[l].model].phase = "absent"
      BY <2>1, <2>3 DEF TimelyInv, SectionHolds
    <3>2. Justified(l, "released")
      BY <2>1, <2>3, <3>1 DEF Justified
    <3>3. QED
      BY <2>1, <3>2
  <2>4. QED
    BY <1>5, <2>2, <2>3 DEF FinishWrite
<1>6. ASSUME NEW l \in LeaseIds, Account(l) PROVE Does
  <2>1. ASSUME Applies(l) PROVE Outstanding(l) /\ probe # None /\ probe.lease = l /\ probe.status = row[l].status
    BY <1>2, <2>1 DEF Applies, ProbeOf, TypeOK, Probe, Outstanding
  <2>2. l \in overdue \/ row[l].status # "pending" => ~Coming(l)
    BY DEF TimelyInv, ComingInTime
  <2>3. CASE ReconcileRelease(l)
    <3>1. ~Coming(l)
      BY <2>2, <2>3 DEF ReconcileRelease, MayExit
    <3>2. unit[row[l].model].phase = "absent"
      BY <2>1, <2>3 DEF ReconcileRelease, MayExit, TimelyInv, ProbeHolds
    <3>3. Justified(l, "released")
      BY <2>1, <2>3, <3>1, <3>2 DEF ReconcileRelease, Justified
    <3>4. QED
      BY <3>3
  <2>4. CASE ReconcileConfirm(l)
    <3>1. Settled(l)
      BY <1>2, <2>1, <2>4 DEF ReconcileConfirm, MayConfirm, Evidence
    <3>2. Justified(l, "confirmed")
      BY <1>3, <2>1, <2>4, <3>1 DEF ReconcileConfirm, Justified
    <3>3. QED
      BY <3>2
  <2>5. CASE ReconcileStale(l)
    <3>1. Justified(l, "stale")
      BY <2>1, <2>2, <2>5 DEF ReconcileStale, Justified
    <3>2. QED
      BY <3>1
  <2>6. QED
    BY <1>6, <2>3, <2>4, <2>5 DEF Account, ReconcileProbe
<1>7. ASSUME NEW n \in Models, Launch(n) \/ Daemon(n) \/ FinishProbe(n) PROVE UNCHANGED ledger
  BY <1>7 DEF Launch, PlaceRequest, StartSubmit, StartTimeout, AfterFailedStart, MonitorExit,
     MonitorHealthy, MonitorGivesUp, RevokeCheck, RevokeStop, LauncherDies, Daemon, SystemdStart,
     UnitMoves, UnitReady, UnitUnwell, UnitStop, UnitExit, FinishProbe
<1>8. ASSUME Sampler \/ UNCHANGED vars PROVE UNCHANGED ledger
  BY <1>8 DEF Sampler, RoundBegin, RoundPublish, RoundFails, SampleAges
<1>9. ASSUME Placement, ~Grant PROVE UNCHANGED ledger
  BY <1>9 DEF Placement, PlaceProbe, EvictProbe, EvictSeen, PlaceFails, EvictStop
<1>10. (UNCHANGED ledger) \/ Restart => Does
  OBVIOUS
<1> HIDE DEF Does
<1>11. QED
  BY <1>4, <1>5, <1>6, <1>7, <1>8, <1>9, <1>10 DEF Next

\* Accounts and units keep to time when nothing is started.
LEMMA QuietTimely ==
  ASSUME ProtocolInv, TimelyInv, StartsInTime, [Next]_vars, Quietly
  PROVE  ComingInTime' /\ UnitsAccounted' /\ OverduePending'
<1>1. TypeOK /\ row \in [LeaseIds -> Lease]
  BY DEF ProtocolInv, TypeOK
<1>2. \A l : Coming(l)' => Coming(l)
  BY QuietComing DEF TimelyInv
<1>3. \A k \in Models : unit'[k].phase # "absent" =>
        /\ unit[k].phase # "absent" /\ unit'[k].lease = unit[k].lease /\ Outstanding(unit[k].lease)
        /\ unit[k].lease \in LeaseIds /\ row[unit[k].lease].model = k
  <2>1. \A k \in Models : unit[k].phase # "absent" => unit[k].lease \in LeaseIds
    BY <1>1 DEF TypeOK, Unit, NoUnit
  <2>2. QED
    BY <2>1 DEF Quietly, TimelyInv, UnitsAccounted, ProtocolInv, Tokens
<1>4. CASE UNCHANGED ledger
  BY <1>2, <1>3, <1>4 DEF TimelyInv, ComingInTime, UnitsAccounted, OverduePending, Outstanding
<1>5. ASSUME NEW l \in LeaseIds, NEW m \in Models, NEW g \in Gpus, Opens(l, m, g), UNCHANGED overdue
      PROVE  ComingInTime' /\ UnitsAccounted' /\ OverduePending'
  <2>1. \A k \in LeaseIds : k # l => row'[k] = row[k]
    BY <1>1, <1>5 DEF Opens
  <2>2. ~Coming(l) /\ ~Outstanding(l) /\ l \notin overdue
    BY <1>5 DEF Opens, TimelyInv, ComingInTime, OverduePending, Outstanding, OpenStatus
  <2>3. overdue \subseteq LeaseIds
    BY <1>1 DEF TypeOK
  <2>4. QED
    BY <1>2, <1>3, <1>5, <2>1, <2>2, <2>3
       DEF TimelyInv, ComingInTime, UnitsAccounted, OverduePending, Outstanding
<1>6. ASSUME NEW l \in LeaseIds, NEW status \in {"confirmed", "stale", "released"}, Justified(l, status)
      PROVE  ComingInTime' /\ UnitsAccounted' /\ OverduePending'
  <2>1. row'[l].status = status /\ (\A k \in LeaseIds : k # l => row'[k] = row[k])
        /\ overdue' = overdue \ {l} /\ overdue \subseteq LeaseIds
    BY <1>1, <1>6 DEF Justified, Transition, Lease, TypeOK
  <2>2. \A k \in Models : unit'[k].phase # "absent" /\ unit'[k].lease = l => status # "released"
    BY <1>3, <1>6 DEF Justified
  <2>3. UnitsAccounted'
    BY <1>3, <2>1, <2>2 DEF UnitsAccounted, Outstanding, OpenStatus
  <2>4. ComingInTime' /\ OverduePending'
    BY <1>2, <1>6, <2>1 DEF Justified, TimelyInv, ComingInTime, OverduePending
  <2>5. QED
    BY <2>3, <2>4
<1>7. ASSUME NEW l \in LeaseIds, Expire(l) PROVE ComingInTime' /\ UnitsAccounted' /\ OverduePending'
  <2>1. ~Coming(l)
    BY <1>7, ComingModel DEF Expire, Starting, Granting, Queued
  <2>2. QED
    BY <1>2, <1>3, <1>7, <2>1
       DEF Expire, TimelyInv, ComingInTime, UnitsAccounted, OverduePending, Outstanding
<1>8. CASE Restart
  <2>1. \A l \in LeaseIds : ~Coming(l)
    BY <1>8 DEF Restart, Starting, Coming, Granting, Queued
  <2>2. QED
    BY <1>2, <1>3, <1>8, <2>1 DEF Restart, ComingInTime, UnitsAccounted, OverduePending, Outstanding
<1>9. QED
  BY <1>4, <1>5, <1>6, <1>7, <1>8, LedgerCases

\* Accounts and units keep to time.
LEMMA AccountsTimely ==
  ASSUME ProtocolInv, TimelyInv, StartsInTime, [Next]_vars
  PROVE  ComingInTime' /\ UnitsAccounted' /\ OverduePending' /\ EndedHolds'
<1>1. EndedHolds /\ ComingInTime /\ UnitsAccounted /\ OverduePending
  BY DEF TimelyInv
<1>2. CASE Quietly
  BY <1>1, <1>2, QuietTimely, QuietComing
<1>3. ASSUME NEW m \in Models, StartSubmit(m)
      PROVE  ComingInTime' /\ UnitsAccounted' /\ OverduePending' /\ EndedHolds'
  <2>1. UNCHANGED <<row, overdue, unit>>
    BY <1>3 DEF StartSubmit
  <2>2. QED
    BY <1>1, <1>3, <2>1, SubmitComing DEF ComingInTime, UnitsAccounted, OverduePending, Outstanding
<1>4. ASSUME NEW m \in Models, SystemdStart(m)
      PROVE  ComingInTime' /\ UnitsAccounted' /\ OverduePending' /\ EndedHolds'
  <2> DEFINE l == Head(starts[m])
  <2>1. /\ \A x : Coming(x)' => Coming(x)
        /\ EndedHolds' /\ l \in LeaseIds /\ l \in Queued(m) /\ UNCHANGED <<row, overdue>>
        /\ \A k \in Models : unit'[k] = unit[k] \/ (k = m /\ unit'[k].lease = l)
    BY <1>1, <1>4, StartComing
  <2> HIDE DEF l
  <2>2. Outstanding(l)
    BY <1>1, <2>1 DEF ComingInTime, Coming, Outstanding, OpenStatus
  <2>3. QED
    BY <1>1, <2>1, <2>2 DEF ComingInTime, UnitsAccounted, OverduePending, Outstanding
<1>5. ASSUME NEW l \in LeaseIds, NEW m \in Models, NEW g \in Gpus, Granted(l, m, g), UNCHANGED overdue
      PROVE  ComingInTime' /\ UnitsAccounted' /\ OverduePending' /\ EndedHolds'
  <2>1. /\ \A x : Coming(x)' => Coming(x) \/ x = l
        /\ EndedHolds' /\ ~Coming(l)
        /\ UNCHANGED unit /\ row[l].status = "none" /\ row'[l].status = "pending"
        /\ \A k \in LeaseIds : k # l => row'[k] = row[k]
    BY <1>1, <1>5, GrantComing
  <2>2. overdue \subseteq LeaseIds /\ l \notin overdue
    BY <1>1, <2>1 DEF ProtocolInv, TypeOK, OverduePending
  <2>3. ComingInTime' /\ OverduePending'
    BY <1>1, <1>5, <2>1, <2>2 DEF ComingInTime, OverduePending
  <2>4. UnitsAccounted'
    <3>1. \A k \in Models : unit[k].phase # "absent" => unit[k].lease \in LeaseIds
      BY DEF ProtocolInv, TypeOK, Unit, NoUnit
    <3>2. QED
      BY <1>1, <2>1, <3>1 DEF UnitsAccounted, Outstanding, OpenStatus
  <2>5. QED
    BY <2>1, <2>3, <2>4
<1>6. QED
  BY <1>1, <1>2, <1>3, <1>4, <1>5, QuietSteps

\* The evidence of a release handler holds until it writes.
LEMMA SectionTimely ==
  ASSUME ProtocolInv, ProtocolInv', TimelyInv, StartsInTime, [Next]_vars PROVE SectionHolds'
<1>1. TypeOK /\ Evidence /\ ComingInTime /\ EndedHolds
  BY DEF ProtocolInv, TimelyInv
<1> SUFFICES ASSUME section' # None, section'.op = "release", section'.seen
             PROVE  ~Coming(section.lease)' /\ unit'[row'[section'.lease].model].phase = "absent"
  BY DEF SectionHolds
<1>2. ASSUME NEW l \in LeaseIds, section'.lease = l, ~Coming(l)' PROVE ~Coming(section.lease)'
  BY <1>2 DEF Coming, Granting, Queued
<1>3. CASE section # None
  <2>1. UNCHANGED <<row, section>>
    BY <1>1, <1>3, HeldStep DEF Deciding, TypeOK, Section
  <2>2. PICK l \in LeaseIds : l = section.lease
    BY <1>1, <1>3, <2>1 DEF TypeOK, Section
  <2>3. Outstanding(section.lease) /\ ~Coming(section.lease) /\ unit[row[section.lease].model].phase = "absent"
    BY <1>1, <1>3, <2>1 DEF Evidence, TimelyInv, SectionHolds
  <2>4. Outstanding(l) /\ ~Coming(l) /\ unit[row[l].model].phase = "absent"
    BY <2>2, <2>3
  <2>5. ~Coming(l)' /\ unit'[row[l].model].phase = "absent"
    BY <1>1, <2>4, GoneStep
  <2>6. QED
    BY <1>2, <2>1, <2>2, <2>5
<1>4. CASE section = None
  <2>1. /\ UNCHANGED <<row, unit, starts, launcher>>
        /\ section'.lease \in LeaseIds /\ ProbeExited(section'.lease)
        /\ \E m \in Models : launcher[m].stage = "releasing" /\ launcher[m].lease = section'.lease
    BY <1>1, <1>4, EnterStep
  <2>2. PICK l \in LeaseIds : l = section'.lease
    BY <2>1
  <2>3. PICK m \in Models : launcher[m].stage = "releasing" /\ launcher[m].lease = l
    BY <2>1, <2>2
  <2>4. row[l].model = m /\ l \notin Queued(m)
    BY <1>1, <2>3 DEF ProtocolInv, Tokens, EndedHolds
  <2>5. ~Coming(l)
    BY <2>3, <2>4, ComingModel DEF Granting
  <2>6. ~Coming(l)'
    BY <2>1, <2>5 DEF Coming, Granting, Queued
  <2>7. unit'[row'[l].model].phase = "absent"
    BY <2>1, <2>2 DEF ProbeExited
  <2>8. QED
    BY <1>2, <2>2, <2>6, <2>7
<1>5. QED
  BY <1>3, <1>4

\* The evidence of a reconcile probe holds until it is used.
LEMMA ProbeTimely ==
  ASSUME ProtocolInv, ProtocolInv', TimelyInv, StartsInTime, [Next]_vars PROVE ProbeHolds'
<1>1. TypeOK /\ Evidence /\ ComingInTime /\ EndedHolds /\ row \in [LeaseIds -> Lease]
  BY DEF ProtocolInv, TimelyInv, TypeOK
<1> SUFFICES ASSUME probe' # None, probe'.exited, probe'.status = row'[probe'.lease].status,
                    probe'.status \in {"confirmed", "stale"} \/ probe'.lease \in overdue'
             PROVE  unit'[row'[probe'.lease].model].phase = "absent"
  BY DEF ProbeHolds
<1>2. ASSUME NEW l \in LeaseIds, ReconcileProbe(l) PROVE unit'[row'[probe'.lease].model].phase = "absent"
  <2>1. probe' = [lease |-> l, status |-> row[l].status, exited |-> ProbeExited(l), active |-> ProbeActive(l)]
        /\ UNCHANGED <<row, unit>>
    BY <1>2 DEF ReconcileProbe
  <2>2. probe'.lease = l /\ probe'.exited = ProbeExited(l)
    BY <2>1
  <2>3. unit[row[l].model].phase = "absent"
    BY <2>2 DEF ProbeExited
  <2>4. QED
    BY <2>1, <2>2, <2>3
<1>3. CASE UNCHANGED probe
  <2> DEFINE l == probe.lease
  <2>1. l \in LeaseIds /\ probe.status \in OpenStatus /\ row[l].status # "none" /\ probe # None
        /\ (probe.status = "confirmed" => row[l].status \in {"confirmed", "released"})
    BY <1>1, <1>3 DEF TypeOK, Probe, Evidence
  <2> HIDE DEF l
  <2>2. row'[l].model = row[l].model
    <3>1. TypeOK' /\ Handlers
      BY DEF ProtocolInv
    <3>2. QED
      BY <1>1, <2>1, <3>1, RowStep
  <2>3. /\ probe.exited /\ probe.status = row'[l].status
        /\ probe.status \in {"confirmed", "stale"} \/ l \in overdue'
    BY <1>3 DEF l
  <2>4. probe.status = row[l].status /\ (probe.status \in {"confirmed", "stale"} \/ l \in overdue)
    <3>1. CASE UNCHANGED ledger
      BY <2>3, <3>1
    <3>2. ASSUME NEW k \in LeaseIds, NEW m \in Models, NEW g \in Gpus, Opens(k, m, g), UNCHANGED overdue
          PROVE  probe.status = row[l].status /\ (probe.status \in {"confirmed", "stale"} \/ l \in overdue)
      BY <1>1, <2>1, <2>3, <3>2 DEF Opens
    <3>3. ASSUME NEW k \in LeaseIds, NEW status \in {"confirmed", "stale", "released"}, Justified(k, status)
          PROVE  probe.status = row[l].status /\ (probe.status \in {"confirmed", "stale"} \/ l \in overdue)
      <4>1. row'[k].status = status /\ (\A i \in LeaseIds : i # k => row'[i] = row[i])
            /\ overdue' = overdue \ {k} /\ Outstanding(k)
        BY <1>1, <3>3 DEF Justified, Transition, Lease
      <4>2. CASE k # l
        BY <2>1, <2>3, <4>1, <4>2
      <4>3. CASE k = l
        <5>1. status # "stale"
          BY <1>3, <2>1, <3>3 DEF Justified
        <5>2. status = "confirmed" /\ row[l].status = "confirmed"
          BY <2>1, <2>3, <4>1, <4>3, <5>1 DEF Outstanding, OpenStatus
        <5>3. QED
          BY <2>3, <4>1, <4>3, <5>2
      <4>4. QED
        BY <4>2, <4>3
    <3>4. ASSUME NEW k \in LeaseIds, Expire(k)
          PROVE  probe.status = row[l].status /\ (probe.status \in {"confirmed", "stale"} \/ l \in overdue)
      BY <2>1, <2>3, <3>4 DEF Expire, ProbeOf, l
    <3>5. ~Restart
      BY DEF Restart
    <3>6. QED
      BY <3>1, <3>2, <3>3, <3>4, <3>5, LedgerCases
  <2>5. unit[row[l].model].phase = "absent"
    BY <2>1, <2>3, <2>4 DEF TimelyInv, ProbeHolds, l
  <2>6. ~Coming(l)
    BY <1>1, <2>1, <2>4 DEF ComingInTime
  <2>7. Outstanding(l)
    BY <2>1, <2>4 DEF Outstanding
  <2>8. unit'[row[l].model].phase = "absent"
    BY <1>1, <2>1, <2>5, <2>6, <2>7, GoneStep
  <2>9. QED
    BY <1>3, <2>2, <2>8 DEF l
<1>4. QED
  BY <1>1, <1>2, <1>3, ProbeStep

\* The timing holds initially, when there is nothing.
LEMMA TimelyInit == Init => TimelyInv
BY NoneIsNoId DEF Init, TimelyInv, ComingInTime, Coming, Granting, Queued, UnitsAccounted, ProbeHolds,
   SectionHolds, EndedHolds, OverduePending, NoUnit, Idle

\* Every step keeps to time.
LEMMA TimelyStep ==
  StartsInTime /\ ProtocolInv /\ ProtocolInv' /\ TimelyInv /\ [Next]_vars => TimelyInv'
BY AccountsTimely, SectionTimely, ProbeTimely DEF TimelyInv

\* When starts are in time the units themselves fit on their cards: an account is
\* given back only when its daemon is gone and no start of it is under way.
THEOREM UnitsHold == ASSUME StartsInTime PROVE Spec => []UnitsFit
<1>1. TimelyInv /\ ProtocolInv /\ ProtocolInv' /\ [Next]_vars => TimelyInv'
  BY TimelyStep
<1>2. TimelyInv => UnitsAccounted
  BY DEF TimelyInv
<1>3. ProtocolInv /\ LedgerFits /\ UnitsAccounted => UnitsFit
  BY UnitsFitCard
<1>4. QED
  BY <1>1, <1>2, <1>3, TimelyInit, Protocol, LedgerHolds, PTL DEF Spec

-----------------------------------------------------------------------------
(* The reconciler of the declared directories *)

Keys == Names \cup {Limits}
ScannedRows == [status : {"none", "invalid", "pending", "configured"}, name : Names \cup {0}]
JobTypes == [kind : {"none", "add", "remove", "limits", "cleanup"}, name : Names \cup {0}, dir : Dirs \cup {0}]

Shape ==
  /\ disk \in [Dirs -> {Gone, Broken} \cup Names] /\ config \in [Names -> {NoEntry, Hand} \cup Dirs]
  /\ runtime \in [Names -> ModelStates] /\ sampled \in [Names -> ModelStates \cup {"unknown"}]
  /\ pinned \subseteq Names /\ job \in JobTypes
  /\ fenced \in BOOLEAN /\ resting \in BOOLEAN /\ stopping \in Names \cup {NoEntry}
  /\ tick \in [at : {"idle", "scanned"}, rows : [Dirs -> ScannedRows]]
  /\ bounds \in [edits : Nat, failures : Nat]

\* A delay comes after an attempt, and is never longer than the longest one.
BackoffTables ==
  {t \in [Keys -> [left : Int, attempts : Nat]] :
     \A k \in Keys : t[k].left > 0 => t[k].attempts > 0 /\ t[k].left <= MaxBackoff}
Backoffs == backoff \in BackoffTables

\* A submission has its arguments; only a change that is being applied is fenced; nothing is submitted
\* between a scan and the decision.
Jobs ==
  /\ job.kind = "add" => job.name \in Names /\ job.dir \in Dirs
  /\ job.kind \in {"remove", "cleanup"} => job.name \in Names
  /\ fenced => job.kind = "cleanup"
  /\ tick.at = "scanned" => job = NoJob

\* What a scan said of the directory of a record is still so, or the record strayed.
Scanned ==
  tick.at = "scanned" =>
    \A n \in Records : \/ tick.rows[config[n]].status \notin {"pending", "configured"}
                       \/ tick.rows[config[n]] = [status |-> "configured", name |-> n]
                       \/ n \in strayed

Strays ==
  /\ drift \subseteq Configured /\ strayed \subseteq Records
  /\ \A n \in Records : Declares(config[n], n) \/ n \in strayed

\* A model without an entry runs only while its removal is under way.
Quiet ==
  \A n \in Names : config[n] = NoEntry => runtime[n] = "stopped" \/ (job.kind = "cleanup" /\ job.name = n)

DirectoryInv == Shape /\ Backoffs /\ Jobs /\ Scanned /\ Strays /\ Quiet

\* A first configuration, with any directories and any models up, satisfies the invariant.
LEMMA DirectoryInitInv == NumbersAssumption /\ DirectoryInit => DirectoryInv
<1> SUFFICES ASSUME NumbersAssumption, DirectoryInit PROVE DirectoryInv
  OBVIOUS
<1> USE DEF DirectoryInit, NumbersAssumption
<1>1. Shape
  BY DEF Shape, ModelStates, JobTypes, NoJob, NoRun, NoRow, ScannedRows
<1>2. Backoffs
  BY DEF Backoffs, BackoffTables, Keys, NoBackoff
<1>3. Jobs /\ Scanned
  BY DEF Jobs, Scanned, NoJob, NoRun
<1>4. Strays /\ Quiet
  BY DEF Strays, Quiet
<1>5. QED
  BY <1>1, <1>2, <1>3, <1>4 DEF DirectoryInv

\* What the scan says of a directory.
LEMMA RowType ==
  ASSUME Shape, NumbersAssumption, NEW d \in Dirs
  PROVE  /\ Row(d) \in ScannedRows
         /\ Row(d).status = "pending" => Row(d).name = disk[d] /\ disk[d] \in Names /\ disk[d] \notin Configured
         /\ Row(d).status = "configured" => Row(d).name = disk[d] /\ disk[d] \in Names
<1>1. CASE ~Listed(d)
  BY <1>1 DEF Row, NoRow, ScannedRows
<1>2. CASE Listed(d) /\ (disk[d] = Broken \/ Claimed(d))
  BY <1>2 DEF Row, ScannedRows
<1>3. CASE Listed(d) /\ disk[d] # Broken /\ ~Claimed(d)
  <2>1. disk[d] \in Names
    BY <1>3 DEF Listed, Shape
  <2>2. QED
    BY <1>3, <2>1 DEF Row, ScannedRows
<1>4. QED
  BY <1>1, <1>2, <1>3

\* A delay is bounded.
LEMMA DelayType ==
  ASSUME NumbersAssumption, NEW a \in Nat PROVE Delay(a) \in Int /\ Delay(a) <= MaxBackoff
BY DEF Delay, NumbersAssumption

\* What the reconciler does to a table of delays.
LEMMA BackoffType ==
  ASSUME NumbersAssumption, NEW t \in BackoffTables, NEW k \in Keys
  PROVE  /\ SetBackoff(t, k) \in BackoffTables
         /\ [t EXCEPT ![k] = NoBackoff] \in BackoffTables
<1> DEFINE old == t[k].attempts
           a == IF old > 0 /\ Delay(old) = MaxBackoff THEN old ELSE old + 1
<1>1. old \in Nat /\ a \in Nat /\ a > 0
  BY DEF BackoffTables
<1>2. Delay(a) \in Int /\ Delay(a) <= MaxBackoff
  BY <1>1, DelayType
<1>3. SetBackoff(t, k) = [t EXCEPT ![k] = [left |-> Delay(a), attempts |-> a]]
  BY DEF SetBackoff
<1> HIDE DEF a, old
<1>4. SetBackoff(t, k) \in BackoffTables
  BY <1>1, <1>2, <1>3 DEF BackoffTables
<1>5. [t EXCEPT ![k] = NoBackoff] \in BackoffTables
  BY DEF BackoffTables, NoBackoff
<1>6. QED
  BY <1>4, <1>5

\* What the reconciler forgets of it.
LEMMA ForgetsType == ASSUME NumbersAssumption, Backoffs, NEW ks PROVE Forgets(ks) \in BackoffTables
BY DEF Backoffs, BackoffTables, Forgets, NoBackoff


\* Every step keeps the types.
LEMMA ShapeStep ==
  ASSUME NumbersAssumption, DirectoryInv, [DirectoryNext]_directoryVars PROVE Shape'
<1> USE DEF DirectoryInv, NumbersAssumption
<1>1. CASE Scan
  <2>1. [d \in Dirs |-> Row(d)] \in [Dirs -> ScannedRows]
    BY RowType
  <2>2. QED
    BY <1>1, <2>1 DEF Shape, Scan
<1>2. CASE Add
  <2>1. job' \in JobTypes
    BY <1>2 DEF Add, Submits, Resolves, Source, Candidates, PendingNames, JobTypes, Shape
  <2>2. bounds' \in [edits : Nat, failures : Nat]
    BY <1>2 DEF Add, CountsFailure, Shape
  <2>3. tick' \in [at : {"idle", "scanned"}, rows : [Dirs -> ScannedRows]]
    BY <1>2 DEF Add, Done, NoRun, NoRow, ScannedRows
  <2>4. QED
    BY <1>2, <2>1, <2>2, <2>3 DEF Add, Shape
<1>3. CASE Remove
  BY <1>3 DEF Shape, ScannedRows, JobTypes, NoRun, NoRow, Remove, Submits, Done
<1>4. CASE RemovalRefused
  BY <1>4 DEF Shape, ScannedRows, NoRun, NoRow, RemovalRefused, Done, CountsFailure
<1>5. CASE Stop
  BY <1>5 DEF Shape, ScannedRows, NoRun, NoRow, Stop, Done
<1>6. CASE Rests
  BY <1>6 DEF Shape, ScannedRows, NoRun, NoRow, Rests, Done
<1>7. CASE Converge
  <2>1. job' \in JobTypes
    BY <1>7 DEF Converge, Submits, JobTypes, Shape
  <2>2. bounds' \in [edits : Nat, failures : Nat]
    BY <1>7 DEF Converge, CountsFailure, Shape
  <2>5. resting' \in BOOLEAN
    BY <1>7, Zenon DEF Converge, Shape
  <2>3. tick' \in [at : {"idle", "scanned"}, rows : [Dirs -> ScannedRows]]
    BY <1>7 DEF Converge, Done, NoRun, NoRow, ScannedRows
  <2>4. QED
    BY <1>7, <2>1, <2>2, <2>3 DEF Converge, Shape
<1>8. CASE Elapse
  BY <1>8 DEF Shape, Elapse
<1>9. CASE AddApplies
  BY <1>9 DEF Shape, JobTypes, NoJob, NoEntry, AddApplies
<1>10. CASE RemoveApplies
  BY <1>10 DEF Shape, JobTypes, RemoveApplies
<1>11. CASE CleanUp
  <2>1. runtime' \in [Names -> ModelStates]
    BY <1>11 DEF CleanUp, WithStopped, ModelStates, Shape
  <2>2. bounds' \in [edits : Nat, failures : Nat] /\ job' \in JobTypes
    BY <1>11 DEF CleanUp, CountsFailure, NoJob, JobTypes, Shape
  <2>3. fenced' \in BOOLEAN
    BY <1>11, Zenon DEF CleanUp, Shape
  <2>4. QED
    BY <1>11, <2>1, <2>2 DEF CleanUp, Shape
<1>12. CASE LimitsApply
  BY <1>12 DEF Shape, JobTypes, NoJob, LimitsApply
<1>13. CASE ChangeFails
  BY <1>13 DEF Shape, JobTypes, NoJob, ChangeFails, CountsFailure
<1>14. CASE Reconciled
  BY <1>14 DEF Shape, JobTypes, NoJob, ModelStates, Reconciled, WithStopped
<1>15. CASE StopEnds
  BY <1>15 DEF Shape, ModelStates, StopEnds, CountsFailure
<1>16. CASE Restarts
  <2>1. job' \in JobTypes /\ bounds' \in [edits : Nat, failures : Nat]
    BY <1>16 DEF Restarts, CountsFailure, NoJob, JobTypes, Shape
  <2>2. fenced' \in BOOLEAN /\ resting' \in BOOLEAN
    BY <1>16 DEF Restarts
  <2>3. tick' \in [at : {"idle", "scanned"}, rows : [Dirs -> ScannedRows]]
    BY <1>16 DEF Restarts, NoRun, NoRow, ScannedRows
  <2>4. QED
    BY <1>16, <2>1, <2>3 DEF Restarts, Shape
<1>17. CASE Edit
  BY <1>17 DEF Shape, Edit
<1>18. CASE Wake
  BY <1>18 DEF Shape, ModelStates, Wake
<1>19. CASE Sleep
  BY <1>19 DEF Shape, ModelStates, Sleep
<1>20. CASE Observe
  BY <1>20 DEF Shape, Observe
<1>21. CASE Pin
  BY <1>21 DEF Shape, Hand, Gone, Broken, Pin
<1>22. CASE Drifts
  BY <1>22 DEF Shape, Drifts
<1>23. CASE UNCHANGED directoryVars
  BY <1>23 DEF Shape, directoryVars
<1>24. QED
  BY <1>1, <1>2, <1>3, <1>4, <1>5, <1>6, <1>7, <1>8, <1>9, <1>10, <1>11, <1>12, <1>13, <1>14,
     <1>15, <1>16, <1>17, <1>18, <1>19, <1>20, <1>21, <1>22, <1>23 DEF DirectoryNext, Runs,
     TakesEffect

\* Every step keeps a delay within its bounds.
LEMMA BackoffsStep ==
  ASSUME NumbersAssumption, DirectoryInv, [DirectoryNext]_directoryVars PROVE Backoffs'
<1> USE DEF DirectoryInv, NumbersAssumption
<1>1. CASE Scan
  BY <1>1, ForgetsType DEF Backoffs, Scan
<1>2. CASE Add
  BY <1>2, BackoffType DEF Backoffs, Add, Candidates, PendingNames, Keys
<1>3. CASE Remove
  <2>1. Kept \in BackoffTables
    BY ForgetsType DEF Kept
  <2>2. QED
    BY <1>3, <2>1, BackoffType DEF Backoffs, Remove, Keys
<1>4. CASE RemovalRefused
  BY <1>4, ForgetsType DEF Backoffs, RemovalRefused, Kept
<1>5. CASE Stop
  <2>1. Kept \in BackoffTables
    BY ForgetsType DEF Kept
  <2>2. QED
    BY <1>5, <2>1, BackoffType DEF Backoffs, Stop, Keys
<1>6. CASE Rests
  BY <1>6, ForgetsType DEF Backoffs, Rests, Kept
<1>7. CASE Converge
  <2>1. Kept \in BackoffTables /\ Limits \in Keys
    BY ForgetsType DEF Kept, Keys
  <2>2. QED
    BY <1>7, <2>1, BackoffType DEF Backoffs, Converge
<1>8. CASE Elapse
  BY <1>8 DEF Backoffs, BackoffTables, Elapse
<1>9. CASE AddApplies
  BY <1>9 DEF Backoffs, AddApplies
<1>10. CASE RemoveApplies
  BY <1>10 DEF Backoffs, RemoveApplies
<1>11. CASE CleanUp
  BY <1>11 DEF Backoffs, CleanUp
<1>12. CASE LimitsApply
  BY <1>12 DEF Backoffs, LimitsApply
<1>13. CASE ChangeFails
  BY <1>13 DEF Backoffs, ChangeFails
<1>14. CASE Reconciled
  BY <1>14 DEF Backoffs, Reconciled
<1>15. CASE StopEnds
  BY <1>15 DEF Backoffs, StopEnds
<1>16. CASE Restarts
  BY <1>16 DEF Backoffs, BackoffTables, NoBackoff, Restarts
<1>17. CASE Edit
  BY <1>17 DEF Backoffs, Edit
<1>18. CASE Wake
  BY <1>18 DEF Backoffs, Wake
<1>19. CASE Sleep
  BY <1>19 DEF Backoffs, Sleep
<1>20. CASE Observe
  BY <1>20 DEF Backoffs, Observe
<1>21. CASE Pin
  BY <1>21 DEF Backoffs, Pin
<1>22. CASE Drifts
  BY <1>22 DEF Backoffs, Drifts
<1>23. CASE UNCHANGED directoryVars
  BY <1>23 DEF Backoffs, directoryVars
<1>24. QED
  BY <1>1, <1>2, <1>3, <1>4, <1>5, <1>6, <1>7, <1>8, <1>9, <1>10, <1>11, <1>12, <1>13, <1>14,
     <1>15, <1>16, <1>17, <1>18, <1>19, <1>20, <1>21, <1>22, <1>23 DEF DirectoryNext, Runs,
     TakesEffect

\* A change has its arguments, is asked for only by a decision, and is fenced only
\* while it is being applied.
LEMMA JobsStep ==
  ASSUME NumbersAssumption, DirectoryInv, [DirectoryNext]_directoryVars PROVE Jobs'
<1> USE DEF DirectoryInv, NumbersAssumption
<1>1. CASE Scan
  BY <1>1 DEF Jobs, Scan, Precondition
<1>2. CASE Add
  <2>1. tick.at = "scanned" /\ tick'.at = "idle" /\ UNCHANGED fenced
    BY <1>2 DEF Add, Done, NoRun
  <2>2. \/ job' = job
        \/ \E n \in Names, d \in Dirs : job' = [kind |-> "add", name |-> n, dir |-> d]
    BY <1>2 DEF Add, Submits, Resolves, Source, Candidates, PendingNames
  <2>3. QED
    BY <2>1, <2>2 DEF Jobs, NoJob
<1>3. CASE Remove
  BY <1>3 DEF Jobs, NoJob, NoRun, Remove, AtOrphan, Submits, Done
<1>4. CASE RemovalRefused
  BY <1>4 DEF Jobs, RemovalRefused, AtOrphan
<1>5. CASE Stop
  BY <1>5 DEF Jobs, Stop, AtOrphan
<1>6. CASE Rests
  BY <1>6 DEF Jobs, NoRun, Rests, Done
<1>7. CASE Converge
  <2>1. tick.at = "scanned" /\ tick'.at = "idle" /\ UNCHANGED fenced
    BY <1>7 DEF Converge, NoAction, Done, NoRun
  <2>2. job' = job \/ job' = [kind |-> "limits", name |-> 0, dir |-> 0]
    BY <1>7 DEF Converge, Submits
  <2>3. QED
    BY <2>1, <2>2 DEF Jobs, NoJob
<1>8. CASE Elapse
  BY <1>8 DEF Jobs, Elapse
<1>9. CASE AddApplies
  BY <1>9 DEF Jobs, NoJob, AddApplies
<1>10. CASE RemoveApplies
  BY <1>10 DEF Jobs, NoJob, RemoveApplies
<1>11. CASE CleanUp
  BY <1>11 DEF Jobs, NoJob, CleanUp
<1>12. CASE LimitsApply
  BY <1>12 DEF Jobs, NoJob, LimitsApply
<1>13. CASE ChangeFails
  BY <1>13 DEF Jobs, NoJob, ChangeFails
<1>14. CASE Reconciled
  BY <1>14 DEF Jobs, NoJob, Reconciled
<1>15. CASE StopEnds
  BY <1>15 DEF Jobs, StopEnds
<1>16. CASE Restarts
  BY <1>16 DEF Jobs, NoJob, NoRun, Restarts
<1>17. CASE Edit
  BY <1>17 DEF Jobs, Edit
<1>18. CASE Wake
  BY <1>18 DEF Jobs, Wake
<1>19. CASE Sleep
  BY <1>19 DEF Jobs, Sleep
<1>20. CASE Observe
  BY <1>20 DEF Jobs, Observe
<1>21. CASE Pin
  BY <1>21 DEF Jobs, Pin
<1>22. CASE Drifts
  BY <1>22 DEF Jobs, Drifts
<1>23. CASE UNCHANGED directoryVars
  BY <1>23 DEF Jobs, directoryVars
<1>24. QED
  BY <1>1, <1>2, <1>3, <1>4, <1>5, <1>6, <1>7, <1>8, <1>9, <1>10, <1>11, <1>12, <1>13, <1>14,
     <1>15, <1>16, <1>17, <1>18, <1>19, <1>20, <1>21, <1>22, <1>23 DEF DirectoryNext, Runs,
     TakesEffect

\* A scan stays true of the records until the decision, or they stray: entries change
\* only by a pending change, of which there is none.
LEMMA ScannedStep ==
  ASSUME NumbersAssumption, DirectoryInv, [DirectoryNext]_directoryVars PROVE Scanned'
<1> USE DEF DirectoryInv, NumbersAssumption
<1>1. CASE Scan
  <2>1. ASSUME NEW n \in Records
        PROVE  LET d == config[n] IN
               \/ Row(d).status \notin {"pending", "configured"}
               \/ Row(d) = [status |-> "configured", name |-> n]
               \/ n \in strayed
    <3> DEFINE d == config[n]
    <3>1. d \in Dirs /\ n \in Names /\ n \in Configured
      BY DEF Records, Configured, NoEntry
    <3>2. disk[d] = n \/ disk[d] = Broken \/ n \in strayed
      BY DEF Strays, Declares
    <3>3. Row(d).status \in {"pending", "configured"} => disk[d] \in Names /\ Row(d).name = disk[d]
      BY <3>1, RowType
    <3>4. Row(d).status = "pending" => disk[d] \notin Configured
      BY <3>1, RowType
    <3>5. Row(d) = [status |-> Row(d).status, name |-> Row(d).name]
      BY <3>1, RowType DEF ScannedRows
    <3>6. QED
      BY <3>1, <3>2, <3>3, <3>4, <3>5 DEF Broken
  <2>2. tick'.rows = [d \in Dirs |-> Row(d)] /\ UNCHANGED <<config, strayed>>
    BY <1>1 DEF Scan
  <2>3. QED
    BY <2>1, <2>2 DEF Scanned, Records
<1>2. CASE Add
  BY <1>2 DEF Shape, Scanned, NoRun, Records, Add, Done
<1>3. CASE Remove
  BY <1>3 DEF Shape, Scanned, NoRun, Records, Remove, Done
<1>4. CASE RemovalRefused
  BY <1>4 DEF Shape, Scanned, NoRun, Records, RemovalRefused, Done
<1>5. CASE Stop
  BY <1>5 DEF Shape, Scanned, NoRun, Records, Stop, Done
<1>6. CASE Rests
  BY <1>6 DEF Shape, Scanned, NoRun, Records, Rests, Done
<1>7. CASE Converge
  BY <1>7 DEF Shape, Scanned, NoRun, Records, Converge, Done
<1>8. CASE Elapse
  BY <1>8 DEF Scanned, Elapse
<1>9. CASE AddApplies
  <2>1. tick.at # "scanned" /\ UNCHANGED tick
    BY <1>9 DEF AddApplies, Jobs, NoJob
  <2>2. QED
    BY <2>1 DEF Scanned
<1>10. CASE RemoveApplies
  BY <1>10 DEF Shape, JobTypes, Jobs, Scanned, Strays, NoJob, NoRun, NoRow, Declares, Records, Configured, NoEntry, Hand, Gone, Broken, RemoveApplies
<1>11. CASE CleanUp
  BY <1>11 DEF Shape, JobTypes, Jobs, Scanned, Strays, NoJob, NoRun, NoRow, Declares, Records, Configured, NoEntry, Hand, Gone, Broken, CleanUp, WithStopped, CountsFailure
<1>12. CASE LimitsApply
  BY <1>12 DEF Shape, JobTypes, Jobs, Scanned, Strays, NoJob, NoRun, NoRow, Declares, Records, Configured, NoEntry, Hand, Gone, Broken, LimitsApply
<1>13. CASE ChangeFails
  BY <1>13 DEF Shape, JobTypes, Jobs, Scanned, Strays, NoJob, NoRun, NoRow, Declares, Records, Configured, NoEntry, Hand, Gone, Broken, ChangeFails, CountsFailure
<1>14. CASE Reconciled
  BY <1>14 DEF Shape, JobTypes, Jobs, Scanned, Strays, NoJob, NoRun, NoRow, Declares, Records, Configured, NoEntry, Hand, Gone, Broken, Reconciled, WithStopped
<1>15. CASE StopEnds
  BY <1>15 DEF Shape, JobTypes, Jobs, Scanned, Strays, NoJob, NoRun, NoRow, Declares, Records, Configured, NoEntry, Hand, Gone, Broken, StopEnds, CountsFailure
<1>16. CASE Restarts
  BY <1>16 DEF Shape, Scanned, NoRun, Records, Restarts
<1>17. CASE Edit
  BY <1>17 DEF Shape, JobTypes, Jobs, Scanned, Strays, NoJob, NoRun, NoRow, Declares, Records, Configured, NoEntry, Hand, Gone, Broken, Edit
<1>18. CASE Wake
  BY <1>18 DEF Shape, JobTypes, Jobs, Scanned, Strays, NoJob, NoRun, NoRow, Declares, Records, Configured, NoEntry, Hand, Gone, Broken, Wake
<1>19. CASE Sleep
  BY <1>19 DEF Shape, JobTypes, Jobs, Scanned, Strays, NoJob, NoRun, NoRow, Declares, Records, Configured, NoEntry, Hand, Gone, Broken, Sleep
<1>20. CASE Observe
  BY <1>20 DEF Shape, JobTypes, Jobs, Scanned, Strays, NoJob, NoRun, NoRow, Declares, Records, Configured, NoEntry, Hand, Gone, Broken, Observe
<1>21. CASE Pin
  BY <1>21 DEF Shape, JobTypes, Jobs, Scanned, Strays, NoJob, NoRun, NoRow, Declares, Records, Configured, NoEntry, Hand, Gone, Broken, Pin
<1>22. CASE Drifts
  BY <1>22 DEF Shape, JobTypes, Jobs, Scanned, Strays, NoJob, NoRun, NoRow, Declares, Records, Configured, NoEntry, Hand, Gone, Broken, Drifts
<1>23. CASE UNCHANGED directoryVars
  BY <1>23 DEF Shape, JobTypes, Jobs, Scanned, Strays, NoJob, NoRun, NoRow, Declares, Records, Configured, NoEntry, Hand, Gone, Broken, directoryVars
<1>24. QED
  BY <1>1, <1>2, <1>3, <1>4, <1>5, <1>6, <1>7, <1>8, <1>9, <1>10, <1>11, <1>12, <1>13, <1>14,
     <1>15, <1>16, <1>17, <1>18, <1>19, <1>20, <1>21, <1>22, <1>23 DEF DirectoryNext, Runs,
     TakesEffect

\* A record whose directory stops declaring it strays, and stays so.
LEMMA StraysStep ==
  ASSUME NumbersAssumption, DirectoryInv, [DirectoryNext]_directoryVars PROVE Strays'
<1> USE DEF DirectoryInv, NumbersAssumption
<1>1. CASE Scan
  BY <1>1 DEF Strays, Declares, Records, Configured, Scan
<1>2. CASE Add
  BY <1>2 DEF Strays, Declares, Records, Configured, Add
<1>3. CASE Remove
  BY <1>3 DEF Strays, Declares, Records, Configured, Remove
<1>4. CASE RemovalRefused
  BY <1>4 DEF Strays, Declares, Records, Configured, RemovalRefused
<1>5. CASE Stop
  BY <1>5 DEF Strays, Declares, Records, Configured, Stop
<1>6. CASE Rests
  BY <1>6 DEF Strays, Declares, Records, Configured, Rests
<1>7. CASE Converge
  BY <1>7 DEF Strays, Declares, Records, Configured, Converge
<1>8. CASE Elapse
  BY <1>8 DEF Strays, Declares, Records, Configured, Elapse
<1>9. CASE AddApplies
  <2>1. job.name \in Names /\ job.dir \in Dirs /\ config[job.name] = NoEntry /\ UNCHANGED <<disk, drift>>
    BY <1>9 DEF AddApplies, Jobs
  <2>2. config' = [config EXCEPT ![job.name] = job.dir]
    BY <1>9 DEF AddApplies
  <2>3. Records' = Records \cup {job.name} /\ Configured' = Configured \cup {job.name}
    BY <2>1, <2>2 DEF Records, Configured, Shape, NoEntry
  <2>4. strayed' \subseteq Records'
    BY <1>9, <2>3 DEF AddApplies, Strays
  <2>5. ASSUME NEW n \in Records' PROVE Declares(config[n], n)' \/ n \in strayed'
    <3>1. CASE n = job.name
      BY <1>9, <2>1, <3>1 DEF AddApplies, Declares, Shape
    <3>2. CASE n # job.name
      <4>1. n \in Records /\ config'[n] = config[n]
        BY <2>2, <2>3, <3>2
      <4>2. n \in strayed => n \in strayed'
        BY <1>9, <3>2 DEF AddApplies
      <4>3. QED
        BY <2>1, <4>1, <4>2 DEF Strays, Declares
    <3>3. QED
      BY <3>1, <3>2
  <2>6. QED
    BY <2>1, <2>3, <2>4, <2>5 DEF Strays
<1>10. CASE RemoveApplies
  BY <1>10 DEF Shape, Strays, Declares, Records, Configured, NoEntry, RemoveApplies
<1>11. CASE CleanUp
  BY <1>11 DEF Strays, Declares, Records, Configured, CleanUp
<1>12. CASE LimitsApply
  BY <1>12 DEF Strays, Declares, Records, LimitsApply
<1>13. CASE ChangeFails
  BY <1>13 DEF Strays, Declares, Records, Configured, ChangeFails
<1>14. CASE Reconciled
  BY <1>14 DEF Strays, Declares, Records, Configured, Reconciled
<1>15. CASE StopEnds
  BY <1>15 DEF Strays, Declares, Records, Configured, StopEnds
<1>16. CASE Restarts
  BY <1>16 DEF Strays, Declares, Records, Configured, Restarts
<1>17. CASE Edit
  BY <1>17 DEF Strays, Declares, Records, Configured, Edit
<1>18. CASE Wake
  BY <1>18 DEF Strays, Declares, Records, Configured, Wake
<1>19. CASE Sleep
  BY <1>19 DEF Strays, Declares, Records, Configured, Sleep
<1>20. CASE Observe
  BY <1>20 DEF Strays, Declares, Records, Configured, Observe
<1>21. CASE Pin
  BY <1>21 DEF Strays, Declares, Records, Configured, Pin
<1>22. CASE Drifts
  BY <1>22 DEF Strays, Declares, Records, Configured, Drifts
<1>23. CASE UNCHANGED directoryVars
  BY <1>23 DEF Strays, Declares, Records, Configured, directoryVars
<1>24. QED
  BY <1>1, <1>2, <1>3, <1>4, <1>5, <1>6, <1>7, <1>8, <1>9, <1>10, <1>11, <1>12, <1>13, <1>14,
     <1>15, <1>16, <1>17, <1>18, <1>19, <1>20, <1>21, <1>22, <1>23 DEF DirectoryNext, Runs,
     TakesEffect

\* A unit is started only with its entry, or while its removal cleans up.
LEMMA QuietStep ==
  ASSUME NumbersAssumption, DirectoryInv, [DirectoryNext]_directoryVars PROVE Quiet'
<1> USE DEF DirectoryInv, NumbersAssumption
<1>1. CASE Scan
  BY <1>1 DEF Quiet, Scan
<1>2. CASE Add
  BY <1>2 DEF Jobs, Quiet, NoJob, Add, CountsFailure
<1>3. CASE Remove
  <2>1. job = NoJob /\ UNCHANGED <<config, runtime>>
    BY <1>3 DEF Remove, AtOrphan, Jobs
  <2>2. QED
    BY <2>1 DEF Quiet, NoJob
<1>4. CASE RemovalRefused
  BY <1>4 DEF Quiet, RemovalRefused
<1>5. CASE Stop
  BY <1>5 DEF Quiet, Stop
<1>6. CASE Rests
  BY <1>6 DEF Quiet, Rests
<1>7. CASE Converge
  <2>1. job = NoJob /\ UNCHANGED <<config, runtime>>
    BY <1>7 DEF Converge, NoAction, Jobs
  <2>2. QED
    BY <2>1 DEF Quiet, NoJob
<1>8. CASE Elapse
  BY <1>8 DEF Quiet, Elapse
<1>9. CASE AddApplies
  BY <1>9 DEF Shape, Quiet, Jobs, JobTypes, NoJob, AddApplies
<1>10. CASE RemoveApplies
  BY <1>10 DEF Quiet, RemoveApplies
<1>11. CASE CleanUp
  BY <1>11 DEF Shape, Quiet, CleanUp, WithStopped
<1>12. CASE LimitsApply
  BY <1>12 DEF Quiet, LimitsApply
<1>13. CASE ChangeFails
  BY <1>13 DEF Quiet, ChangeFails
<1>14. CASE Reconciled
  BY <1>14 DEF Shape, Quiet, Reconciled, WithStopped
<1>15. CASE StopEnds
  BY <1>15 DEF Shape, Quiet, StopEnds
<1>16. CASE Restarts
  BY <1>16 DEF Quiet, Restarts
<1>17. CASE Edit
  BY <1>17 DEF Quiet, Edit
<1>18. CASE Wake
  <2>1. PICK n \in Names :
          /\ n \in Configured \/ (job.kind = "cleanup" /\ job.name = n)
          /\ runtime' = [runtime EXCEPT ![n] = "awake"]
    <3>1. PICK n \in Wakeable : /\ n \in Configured \/ job = [kind |-> "cleanup", name |-> n, dir |-> 0]
                                /\ runtime' = [runtime EXCEPT ![n] = "awake"]
      BY <1>18 DEF Wake
    <3>2. n \in Names
      BY <3>1
    <3>3. job = [kind |-> "cleanup", name |-> n, dir |-> 0] => job.kind = "cleanup" /\ job.name = n
      OBVIOUS
    <3>4. QED
      BY <3>1, <3>2, <3>3
  <2>2. UNCHANGED <<config, job>>
    BY <1>18 DEF Wake
  <2>3. ASSUME NEW m \in Names, m # n PROVE runtime'[m] = runtime[m]
    BY <2>1, <2>3 DEF Shape
  <2>4. QED
    BY <2>1, <2>2, <2>3 DEF Quiet, Configured
<1>19. CASE Sleep
  <2>1. PICK n \in Names : runtime[n] = "awake" /\ runtime' = [runtime EXCEPT ![n] = "sleeping"]
    BY <1>19 DEF Sleep
  <2>2. UNCHANGED <<config, job>>
    BY <1>19 DEF Sleep
  <2>3. ASSUME NEW m \in Names, m # n PROVE runtime'[m] = runtime[m]
    BY <2>1, <2>3 DEF Shape
  <2>4. QED
    BY <2>1, <2>2, <2>3 DEF Quiet
<1>20. CASE Observe
  BY <1>20 DEF Quiet, Observe
<1>21. CASE Pin
  BY <1>21 DEF Quiet, Pin
<1>22. CASE Drifts
  BY <1>22 DEF Quiet, Drifts
<1>23. CASE UNCHANGED directoryVars
  BY <1>23 DEF Quiet, directoryVars
<1>24. QED
  BY <1>1, <1>2, <1>3, <1>4, <1>5, <1>6, <1>7, <1>8, <1>9, <1>10, <1>11, <1>12, <1>13, <1>14,
     <1>15, <1>16, <1>17, <1>18, <1>19, <1>20, <1>21, <1>22, <1>23 DEF DirectoryNext, Runs,
     TakesEffect


\* Every step keeps the invariant.
LEMMA DirectoryInvStep ==
  ASSUME NumbersAssumption, DirectoryInv, [DirectoryNext]_directoryVars PROVE DirectoryInv'
BY ShapeStep, BackoffsStep, JobsStep, ScannedStep, StraysStep, QuietStep DEF DirectoryInv

\* The invariant gives the types, and leaves no unit behind when a removal is over.
LEMMA DirectorySafe ==
  ASSUME NumbersAssumption, DirectoryInv PROVE DirectoryTypeOK /\ NoUnitLeft
<1>1. DirectoryTypeOK
  BY DEF DirectoryInv, Shape, Backoffs, BackoffTables, Keys, Strays, JobTypes, DirectoryTypeOK
<1>2. NoUnitLeft
  BY DEF DirectoryInv, Quiet, NoUnitLeft
<1>3. QED
  BY <1>1, <1>2

\* An orphan that is removed or stopped strayed: its descriptor is gone now, or the
\* rows of the scan show its directory with another name.
LEMMA OrphanStrayed ==
  ASSUME NumbersAssumption, DirectoryInv, NEW n \in Orphans, tick.at = "scanned" PROVE n \in strayed
<1>1. n \in Records /\ Orphan(n)
  BY DEF Orphans
<1>2. CASE disk[config[n]] = Gone
  BY <1>1, <1>2 DEF DirectoryInv, Strays, Declares, Gone, Broken, Records, NumbersAssumption
<1>3. CASE disk[config[n]] # Gone
  BY <1>1, <1>3 DEF Orphan, DirectoryInv, Scanned
<1>4. QED
  BY <1>2, <1>3

\* A step submits what the directories say at that moment, and changes an entry only
\* while the newest sample allows it.
LEMMA ReconcilerJustified ==
  ASSUME NumbersAssumption, DirectoryInv, DirectoryNext PROVE ReconcilerStep
<1> DEFINE Still == /\ config' = config
                    /\ job' = job \/ job'.kind \notin {"add", "remove"}
                    /\ stopping' = stopping \/ stopping' = NoEntry
<1> USE DEF DirectoryInv
<1>1. ASSUME Still PROVE ReconcilerStep
  <2>1. \A n \in Names : n # NoEntry
    BY DEF NumbersAssumption, NoEntry
  <2>2. \A n \in Names : ~SubmittedNow("add", n) /\ ~SubmittedNow("remove", n)
    BY <1>1 DEF SubmittedNow
  <2>3. NoEntry \notin Dirs
    BY DEF NumbersAssumption, NoEntry
  <2>4. QED
    BY <1>1, <2>1, <2>2, <2>3 DEF ReconcilerStep, OnlyStrayed, AddedAsDeclared,
       ProtectedUntilApplied
<1>2. CASE Scan
  BY <1>1, <1>2 DEF Scan
<1>3. CASE Add
  <2>1. tick.at = "scanned" /\ job.kind = "none" /\ UNCHANGED <<config, stopping>>
    BY <1>3 DEF Add, Jobs, NoJob
  <2>2. CASE job' = job
    BY <1>1, <2>1, <2>2
  <2>3. ASSUME NEW n \in Candidates, NEW d \in Resolves(n), Submits("add", n, d) PROVE ReconcilerStep
    <3>1. n \in Names /\ d \in Dirs /\ Row(d) = [status |-> "pending", name |-> n]
      BY DEF Candidates, PendingNames, Resolves, Source
    <3>2. disk[d] = n /\ n \notin Configured
      BY <3>1, RowType
    <3>3. config[n] = NoEntry
      BY <3>1, <3>2 DEF Configured
    <3>4. job'.kind = "add" /\ job'.name = n /\ job'.dir = d
      BY <2>3 DEF Submits
    <3>5. NoEntry \notin Dirs
      BY DEF NumbersAssumption, NoEntry
    <3>6. QED
      BY <2>1, <3>2, <3>3, <3>4, <3>5 DEF ReconcilerStep, OnlyStrayed, AddedAsDeclared,
         ProtectedUntilApplied, SubmittedNow
  <2>4. QED
    BY <1>3, <2>2, <2>3 DEF Add
<1>4. ASSUME NEW n \in Names, AtOrphan(n), UNCHANGED config,
             \/ UNCHANGED stopping /\ Submits("remove", n, 0)
             \/ UNCHANGED job /\ stopping' \in {n, NoEntry}
      PROVE  ReconcilerStep
  <2>1. n \in strayed
    BY <1>4, OrphanStrayed DEF AtOrphan, First
  <2>2. NoEntry \notin Dirs /\ \A m \in Names : m # NoEntry
    BY DEF NumbersAssumption, NoEntry
  <2>3. \A m \in Names : SubmittedNow("remove", m) => m = n
    BY <1>4 DEF SubmittedNow, Submits
  <2>4. \A m \in Names : ~SubmittedNow("add", m)
    BY <1>4 DEF SubmittedNow, Submits
  <2>5. \A m \in Names : stopping' = m /\ stopping # m => m = n
    BY <1>4, <2>2
  <2>6. QED
    BY <1>4, <2>1, <2>2, <2>3, <2>4 DEF ReconcilerStep, OnlyStrayed, AddedAsDeclared,
       ProtectedUntilApplied
<1>5. CASE Remove
  BY <1>4, <1>5 DEF Remove
<1>6. CASE RemovalRefused
  BY <1>1, <1>6 DEF RemovalRefused
<1>7. CASE Stop
  BY <1>4, <1>7 DEF Stop
<1>8. CASE Rests
  BY <1>1, <1>8 DEF Rests
<1>9. CASE Converge
  <2>1. job' = job \/ job'.kind = "limits"
    BY <1>9 DEF Converge, Submits
  <2>2. QED
    BY <1>1, <1>9, <2>1 DEF Converge
<1>10. CASE Elapse
  BY <1>1, <1>10 DEF Elapse
<1>11. CASE AddApplies
  <2>1. job'.kind = "none" /\ job.name \in Names /\ config[job.name] = NoEntry /\ UNCHANGED stopping
    BY <1>11 DEF AddApplies, NoJob, Jobs
  <2>2. \A n \in Names : n # job.name => config'[n] = config[n]
    BY <1>11 DEF AddApplies
  <2>3. NoEntry \notin Dirs
    BY DEF NumbersAssumption, NoEntry
  <2>4. QED
    BY <2>1, <2>2, <2>3 DEF ReconcilerStep, OnlyStrayed, AddedAsDeclared, ProtectedUntilApplied,
       SubmittedNow
<1>12. CASE RemoveApplies
  <2>1. /\ job.kind = "remove" /\ UNCHANGED stopping
        /\ sampled[job.name] = "stopped" /\ job.name \notin pinned
    BY <1>12 DEF RemoveApplies, StillRemovable, Removable
  <2>2. \A n \in Names : n # job.name => config'[n] = config[n]
    BY <1>12 DEF RemoveApplies
  <2>3. NoEntry \notin Dirs
    BY DEF NumbersAssumption, NoEntry
  <2>4. QED
    BY <2>1, <2>2, <2>3 DEF ReconcilerStep, OnlyStrayed, AddedAsDeclared, ProtectedUntilApplied,
       SubmittedNow
<1>13. CASE CleanUp
  BY <1>1, <1>13 DEF CleanUp, NoJob
<1>14. CASE LimitsApply
  BY <1>1, <1>14 DEF LimitsApply, NoJob
<1>15. CASE ChangeFails
  BY <1>1, <1>15 DEF ChangeFails, NoJob
<1>16. CASE Reconciled
  BY <1>1, <1>16 DEF Reconciled, NoJob
<1>17. CASE StopEnds
  BY <1>1, <1>17 DEF StopEnds
<1>18. CASE Restarts
  <2>1. job' = job \/ job'.kind = "none"
    BY <1>18 DEF Restarts, NoJob
  <2>2. QED
    BY <1>1, <1>18, <2>1 DEF Restarts
<1>19. CASE Edit
  BY <1>1, <1>19 DEF Edit
<1>20. CASE Wake
  BY <1>1, <1>20 DEF Wake
<1>21. CASE Sleep
  BY <1>1, <1>21 DEF Sleep
<1>22. CASE Observe
  BY <1>1, <1>22 DEF Observe
<1>23. CASE Pin
  BY <1>1, <1>23 DEF Pin
<1>24. CASE Drifts
  BY <1>1, <1>24 DEF Drifts
<1>25. QED
  BY <1>2, <1>3, <1>5, <1>6, <1>7, <1>8, <1>9, <1>10, <1>11, <1>12, <1>13, <1>14, <1>15, <1>16,
     <1>17, <1>18, <1>19, <1>20, <1>21, <1>22, <1>23, <1>24 DEF DirectoryNext, Runs, TakesEffect

\* For any directories, names, pins, wakes and edits at any moment (reconcile.py,
\* registry.py): a model is stopped or unregistered only when its directory stopped
\* declaring it since it was registered, registered only from the directory that
\* declares it then, and loses its entry only while the newest sample shows it stopped
\* and nobody pinned it; and when a removal is over no unit without an entry runs.
THEOREM ReconcilerHolds ==
  NumbersAssumption =>
    (DirectorySpec => [](DirectoryTypeOK /\ NoUnitLeft) /\ [][ReconcilerStep]_directoryVars)
<1> SUFFICES ASSUME NumbersAssumption
             PROVE  DirectorySpec => [](DirectoryTypeOK /\ NoUnitLeft) /\ [][ReconcilerStep]_directoryVars
  OBVIOUS
<1>1. DirectoryInit => DirectoryInv
  BY DirectoryInitInv
<1>2. DirectoryInv /\ [DirectoryNext]_directoryVars => DirectoryInv'
  BY DirectoryInvStep
<1>3. DirectoryInv => DirectoryTypeOK /\ NoUnitLeft
  BY DirectorySafe
<1>4. DirectoryInv /\ [DirectoryNext]_directoryVars => [ReconcilerStep]_directoryVars
  BY ReconcilerJustified
<1>5. QED
  BY <1>1, <1>2, <1>3, <1>4, PTL DEF DirectorySpec
=============================================================================
