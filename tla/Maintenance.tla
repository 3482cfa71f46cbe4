----------------------------- MODULE Maintenance -----------------------------
(***************************************************************************)
(* One maintenance transaction of the catalog: the proxy is stopped, its   *)
(* configuration replaced and a fresh proxy started under a durable claim, *)
(* or the base configuration and a third proxy are restored.               *)
(*                                                                         *)
(* CatalogRuntime (catalog.py) owns the claim, the fence and publication;  *)
(* MaintenanceController (maintenance.py) owns the native effects and what *)
(* is observed of them; the store keeps both checkpoints in one database;  *)
(* the native adapter (deploy/maintenance_native.py) is a process of its   *)
(* own that outlives a crash of the scheduler.  Every effect is recorded   *)
(* as submitted before its command is sent and is never sent again.        *)
(***************************************************************************)
EXTENDS Naturals, FiniteSets

CONSTANTS
    Removal,      \* the candidate removes a model that has a lease and a unit
    MaxCrashes,   \* bound: crashes of the scheduler process
    MaxFails,     \* bound: operations that end in an error or a deadline
    MaxDeaths,    \* bound: servers or helper jobs that die by themselves
    MaxEdits      \* bound: edits of the file by another writer

MaintenanceAssumption == Removal \in BOOLEAN /\ {MaxCrashes, MaxFails, MaxDeaths, MaxEdits} \subseteq Nat

Servers == {"old", "candidate", "base"}
Starts == {"start_candidate", "start_base"}
Stops == {"stop_old", "stop_candidate"}
Commands == Starts \cup Stops \cup {"stop_model"}
Target == [stop_old |-> "old", stop_candidate |-> "candidate",
           start_candidate |-> "candidate", start_base |-> "base"]
Closed == {"released", "aborted", "rolled_back"}

VARIABLES
    core,      \* the scheduler process: program counter, current effect, fence, epoch
    disk,      \* the catalog and maintenance checkpoints
    inst,      \* the proxy processes of the source unit
    loaded,    \* the file a proxy was started with
    unit,      \* the unit of the removed model
    lease,     \* its account
    file,      \* the configuration file
    marker,    \* the queue's receipt beside it
    adapter,   \* the adapter process of each command
    record,    \* the adapter's start records
    queued,    \* start jobs accepted by systemd and not executed yet
    sends,     \* ghost: how often each command was sent
    faults     \* what has gone wrong so far

world == <<inst, loaded, unit>>
native == <<adapter, record, queued>>
vars == <<core, disk, world, lease, file, marker, native, sends, faults>>

TypeOK ==
    /\ core \in [pc : {"idle", "down", "marker", "bind", "submit", "send", "ack", "identify",
                       "observe_old", "replace", "after", "adopt", "clean_exit", "prove",
                       "receipt", "release", "finish", "rb_look", "rb_restore", "rb_write",
                       "rb_start", "rb_base", "base_publish", "base_receipt", "base_close",
                       "rc_identify", "rc_prove", "rc_receipt", "rc_release"},
                 op : Commands \cup {"none"}, fenced : BOOLEAN, latch : BOOLEAN,
                 epoch : {"old", "new", "rollback"}]
    /\ disk \in [phase : Closed \cup {"none", "claimed", "published"}, bound : BOOLEAN,
                 stage : Commands \cup Closed
                         \cup {"none", "claimed", "old_settled", "adopted", "rollback_settled",
                               "restore_config", "base_verified"},
                 fx : SUBSET (Commands \cup {"restore_config"}), acked : SUBSET Commands,
                 ids : SUBSET {"candidate", "base"},
                 seen : SUBSET {"candidate", "absence", "base"}]
    /\ inst \in [Servers -> {"none", "up", "stopping", "settled", "dead"}]
    /\ loaded \in [Servers -> {"none", "base", "candidate", "foreign"}]
    /\ unit \in {"active", "stopping", "exited"} /\ lease \in {"confirmed", "released"}
    /\ file \in {"base", "candidate", "foreign"} /\ marker \in BOOLEAN
    /\ adapter \in [Commands -> {"none", "running", "done", "over"}]
    /\ record \in [Starts -> {"none", "preparing", "aborted", "submitted", "started"}]
    /\ queued \subseteq Starts
    /\ sends \in [Commands -> Nat]
    /\ faults \in [crashes : 0 .. MaxCrashes, fails : 0 .. MaxFails,
                   deaths : 0 .. MaxDeaths, edits : 0 .. MaxEdits]

Init ==
    /\ core = [pc |-> "idle", op |-> "none", fenced |-> FALSE, latch |-> FALSE, epoch |-> "old"]
    /\ disk = [phase |-> "none", bound |-> FALSE, stage |-> "none", fx |-> {}, acked |-> {},
               ids |-> {}, seen |-> {}]
    /\ inst = [s \in Servers |-> IF s = "old" THEN "up" ELSE "none"]
    /\ loaded = [s \in Servers |-> IF s = "old" THEN "base" ELSE "none"]
    /\ unit = "active" /\ lease = "confirmed" /\ file = "base" /\ marker = FALSE
    /\ adapter = [c \in Commands |-> "none"] /\ record = [c \in Starts |-> "none"]
    /\ queued = {} /\ sends = [c \in Commands |-> 0]
    /\ faults = [crashes |-> 0, fails |-> 0, deaths |-> 0, edits |-> 0]

(***************************************************************************)
(* What the adapter can observe of the world, and the controller's tests   *)
(* over those observations.                                                *)
(***************************************************************************)

\* A server retired under this transaction's stop claim, its helper jobs included.
Retired(s) == inst[s] = "settled"

NothingRuns == \A s \in Servers : inst[s] # "up"

\* The accounts and units captured at the claim, less those whose model stopped.
BackendsConfirmed ==
    Removal => \/ lease = "confirmed" /\ unit = "active"
               \/ lease = "released" /\ unit = "exited" /\ "stop_model" \in disk.fx

CleanupConfirmed == Removal => lease = "released" /\ BackendsConfirmed

OldSettled == Retired("old") /\ BackendsConfirmed /\ NothingRuns

\* The start record and the process environment name this very attempt.
AttemptBound(op) == record[op] \in {"submitted", "started"} /\ inst[Target[op]] = "up"

\* Only a recorded abort before the command proves that nothing was started.
KnownUnsubmitted == record["start_candidate"] = "aborted"

AttemptSettled ==
    IF "candidate" \in disk.ids THEN Retired("candidate") ELSE KnownUnsubmitted

AttemptAbsent == OldSettled /\ AttemptSettled

CandidateValid(cleanup) ==
    /\ inst["candidate"] = "up" /\ Retired("old")
    /\ file = "candidate" /\ loaded["candidate"] = "candidate"
    /\ BackendsConfirmed
    /\ cleanup => CleanupConfirmed

BaseValid ==
    /\ inst["base"] = "up" /\ Retired("old")
    /\ file = "base" /\ loaded["base"] = "base"
    /\ AttemptSettled /\ BackendsConfirmed

\* _proof: the candidate's own bytes, and an observation of the adopted instance.
Proved == "candidate" \in disk.ids /\ CandidateValid(TRUE)

Fenced == marker \/ core.latch

\* The source that was inspected still runs over the base it was started with.
SourceConfirmed == file = "base" /\ inst["old"] = "up"

CatalogPending ==
    /\ disk.phase # "none"
    /\ ~ (disk.phase \in Closed /\ disk.stage \in Closed)

\* snapshot, check_catalog and the ledger's guard refuse work.
Blocked == core.pc = "down" \/ core.fenced \/ CatalogPending

NotYet(op) == op \notin disk.fx

At(pc) == core.pc = pc
Go(pc) == core' = [core EXCEPT !.pc = pc, !.op = "none"]
Effect(op) == core' = [core EXCEPT !.pc = "submit", !.op = op]
Stage(s) == disk' = [disk EXCEPT !.stage = s]

\* _publish: controllers and collector of one generation replace the others.
Shows(epoch, pc) == core' = [core EXCEPT !.pc = pc, !.epoch = epoch]

\* release_maintenance_lease: only the captured account of a recorded stop.
GivesBack == "stop_model" \in disk.fx /\ lease = "confirmed" /\ lease' = "released"

ReleaseReady == ~ Fenced /\ core.epoch = "new"

(***************************************************************************)
(* The forward transaction: CatalogRuntime.process_once around the queue's *)
(* process_once, with the controller's before_replace and after_replace.   *)
(***************************************************************************)

Claims ==
    /\ At("idle") /\ ~ Blocked /\ ~ Fenced
    /\ disk.phase = "none" \* bound: one transaction
    /\ SourceConfirmed
    /\ disk' = [disk EXCEPT !.phase = "claimed", !.stage = "claimed"]
    /\ core' = [core EXCEPT !.pc = "marker", !.fenced = TRUE]
    /\ UNCHANGED <<world, lease, file, marker, native, sends, faults>>

\* The receipt is durable and latched before the first effect.
Announces ==
    /\ At("marker") /\ file = "base"
    /\ marker' = TRUE
    /\ core' = [core EXCEPT !.pc = "bind", !.latch = TRUE]
    /\ UNCHANGED <<disk, world, lease, file, native, sends, faults>>

Binds ==
    /\ At("bind") /\ SourceConfirmed /\ disk.fx = {} /\ marker
    /\ disk' = [disk EXCEPT !.bound = TRUE]
    /\ Effect("stop_old")
    /\ UNCHANGED <<world, lease, file, marker, native, sends, faults>>

\* The submission is durable before the command leaves.
Submits ==
    /\ At("submit") /\ disk.phase \in {"claimed", "published"} /\ NotYet(core.op)
    /\ disk' = [disk EXCEPT !.fx = @ \cup {core.op}, !.stage = core.op]
    /\ core' = [core EXCEPT !.pc = "send"]
    /\ UNCHANGED <<world, lease, file, marker, native, sends, faults>>

Sends ==
    /\ At("send")
    /\ adapter' = [adapter EXCEPT ![core.op] = "running"]
    /\ sends' = [sends EXCEPT ![core.op] = @ + 1]
    /\ core' = [core EXCEPT !.pc = "ack"]
    /\ UNCHANGED <<disk, world, lease, file, marker, record, queued, faults>>

AfterAck == [stop_old |-> "observe_old", stop_candidate |-> "rb_look",
             stop_model |-> "clean_exit", start_candidate |-> "identify",
             start_base |-> "identify"]

Acknowledges ==
    /\ At("ack") /\ adapter[core.op] = "done"
    /\ disk' = [disk EXCEPT !.acked = @ \cup {core.op}]
    /\ core' = [core EXCEPT !.pc = AfterAck[core.op]]
    /\ UNCHANGED <<world, lease, file, marker, native, sends, faults>>

SettlesOld ==
    /\ At("observe_old") /\ OldSettled
    /\ Stage("old_settled") /\ Go("replace")
    /\ UNCHANGED <<world, lease, file, marker, native, sends, faults>>

Replaces ==
    /\ At("replace") /\ file = "base" /\ marker
    /\ file' = "candidate" /\ Go("after")
    /\ UNCHANGED <<disk, world, lease, marker, native, sends, faults>>

StartsCandidate ==
    /\ At("after") /\ disk.stage = "old_settled" /\ file = "candidate" /\ OldSettled
    /\ Effect("start_candidate")
    /\ UNCHANGED <<disk, world, lease, file, marker, native, sends, faults>>

\* The identity in the answer is recorded; its processes are captured next.
Identifies ==
    /\ At("identify")
    /\ disk' = [disk EXCEPT !.ids = @ \cup {Target[core.op]}]
    /\ Go(IF core.op = "start_base" THEN "rb_base" ELSE "adopt")
    /\ UNCHANGED <<world, lease, file, marker, native, sends, faults>>

Adopts ==
    /\ At("adopt") /\ CandidateValid(FALSE)
    /\ disk' = [disk EXCEPT !.stage = "adopted", !.seen = @ \cup {"candidate"}]
    /\ IF Removal THEN Effect("stop_model") ELSE Go("prove")
    /\ UNCHANGED <<world, lease, file, marker, native, sends, faults>>

\* Bug: the acknowledged signal passes for the exit.
ReleasesOnAck ==
    /\ At("clean_exit")
    /\ GivesBack /\ Go("prove")
    /\ UNCHANGED <<disk, world, file, marker, native, sends, faults>>

\* stop_model: the account is given back only after the unit is seen gone.
ReleasesAccount ==
    /\ At("clean_exit") /\ unit = "exited"
    /\ GivesBack /\ Go("prove")
    /\ UNCHANGED <<disk, world, file, marker, native, sends, faults>>

\* _after_apply: prove, save the published phase, install the new generation.
Publishes ==
    /\ At("prove") /\ marker /\ Proved
    /\ disk' = [disk EXCEPT !.phase = "published"]
    /\ Shows("new", "receipt")
    /\ UNCHANGED <<world, lease, file, marker, native, sends, faults>>

RetiresReceipt ==
    /\ At("receipt")
    /\ marker' = FALSE
    /\ core' = [core EXCEPT !.pc = "release", !.latch = FALSE]
    /\ UNCHANGED <<disk, world, lease, file, native, sends, faults>>

\* Outside the lock the old objects were retired; prove again and release.
Releases ==
    /\ At("release") /\ disk.phase = "published" /\ ReleaseReady /\ Proved
    /\ disk' = [disk EXCEPT !.phase = "released"]
    /\ Go("finish")
    /\ UNCHANGED <<world, lease, file, marker, native, sends, faults>>

\* MaintenanceController.finish, then the fence is lifted.
Finishes ==
    /\ At("finish") /\ disk.phase = "released"
    /\ "start_candidate" \in disk.fx /\ "candidate" \in disk.seen
    /\ Stage("released")
    /\ core' = [core EXCEPT !.pc = "idle", !.op = "none", !.fenced = FALSE]
    /\ UNCHANGED <<world, lease, file, marker, native, sends, faults>>

\* The job ended before any effect and before the file changed.
Aborts ==
    /\ At("marker") /\ file = "base" /\ ~ Fenced
    /\ disk' = [disk EXCEPT !.phase = "aborted", !.stage = "aborted"]
    /\ core' = [core EXCEPT !.pc = "idle", !.op = "none", !.fenced = FALSE]
    /\ faults.fails < MaxFails
    /\ faults' = [faults EXCEPT !.fails = @ + 1]
    /\ UNCHANGED <<world, lease, file, marker, native, sends>>

(***************************************************************************)
(* The native adapter: a process per command, killed at its deadline when  *)
(* the scheduler still runs.                                               *)
(***************************************************************************)

\* _stop_source: the exact idle process is signalled; its helper jobs follow.
Signals(op) ==
    /\ adapter[op] = "running" /\ inst[Target[op]] = "up"
    /\ inst' = [inst EXCEPT ![Target[op]] = "stopping"]
    /\ adapter' = [adapter EXCEPT ![op] = "done"]
    /\ UNCHANGED <<core, disk, loaded, unit, lease, file, marker, record, queued, sends, faults>>

\* The process and every helper job of the stop have ended as recorded.
Exits(s) ==
    /\ inst[s] = "stopping"
    /\ inst' = [inst EXCEPT ![s] = "settled"]
    /\ UNCHANGED <<core, disk, loaded, unit, lease, file, marker, native, sends, faults>>

StopsModel ==
    /\ adapter["stop_model"] = "running" /\ unit = "active"
    /\ unit' = "stopping"
    /\ adapter' = [adapter EXCEPT !["stop_model"] = "done"]
    /\ UNCHANGED <<core, disk, inst, loaded, lease, file, marker, record, queued, sends, faults>>

\* The signal's acknowledgement is not the exit of the unit.
ModelExits ==
    /\ unit = "stopping"
    /\ unit' = "exited"
    /\ UNCHANGED <<core, disk, inst, loaded, lease, file, marker, native, sends, faults>>

\* _start: an exclusive start record comes first.
Prepares(op) ==
    /\ adapter[op] = "running" /\ record[op] = "none"
    /\ record' = [record EXCEPT ![op] = "preparing"]
    /\ UNCHANGED <<core, disk, world, lease, file, marker, adapter, queued, sends, faults>>

Wanted == [start_candidate |-> "candidate", start_base |-> "base"]

\* _start_impl: settlement, a free unit and address, and the exact file.
ReadyToStart(op) ==
    /\ Retired("old") /\ NothingRuns /\ queued = {}
    /\ op = "start_base" /\ "candidate" \in disk.ids => Retired("candidate")
    /\ file = Wanted[op]

CommandsStart(op) ==
    /\ adapter[op] = "running" /\ record[op] = "preparing" /\ ReadyToStart(op)
    /\ record' = [record EXCEPT ![op] = "submitted"]
    /\ queued' = queued \cup {op}
    /\ UNCHANGED <<core, disk, world, lease, file, marker, adapter, sends, faults>>

Refuses(op) ==
    /\ adapter[op] = "running" /\ record[op] = "preparing" /\ ~ ReadyToStart(op)
    /\ record' = [record EXCEPT ![op] = "aborted"]
    /\ adapter' = [adapter EXCEPT ![op] = "over"]
    /\ UNCHANGED <<core, disk, world, lease, file, marker, queued, sends, faults>>

\* systemd starts the unit; the proxy reads the file that is there by then.
Boots(op) ==
    /\ op \in queued
    /\ queued' = queued \ {op}
    /\ inst' = [inst EXCEPT ![Target[op]] = "up"]
    /\ loaded' = [loaded EXCEPT ![Target[op]] = file]
    /\ UNCHANGED <<core, disk, unit, lease, file, marker, adapter, record, sends, faults>>

Confirms(op) ==
    /\ adapter[op] = "running" /\ AttemptBound(op)
    /\ record' = [record EXCEPT ![op] = "started"]
    /\ adapter' = [adapter EXCEPT ![op] = "done"]
    /\ UNCHANGED <<core, disk, world, lease, file, marker, queued, sends, faults>>

Adapter ==
    \/ \E op \in Stops : Signals(op)
    \/ \E s \in Servers : Exits(s)
    \/ StopsModel \/ ModelExits
    \/ \E op \in Starts : Prepares(op) \/ CommandsStart(op) \/ Refuses(op) \/ Boots(op) \/ Confirms(op)

(***************************************************************************)
(* Explicit reconciliation: observe, publish and retire; nothing is sent.  *)
(***************************************************************************)

Rolling == disk.phase = "rolled_back" \/ "start_base" \in disk.fx

\* abort_unstarted: only our unchanged receipt over unchanged bytes.
AbortsUnstarted ==
    /\ At("idle") /\ disk.phase = "claimed" /\ disk.fx = {} /\ file = "base"
    /\ core.latch => marker
    /\ marker' = FALSE
    /\ disk' = [disk EXCEPT !.phase = "aborted", !.stage = "aborted"]
    /\ core' = [core EXCEPT !.fenced = FALSE, !.latch = FALSE]
    /\ UNCHANGED <<world, lease, file, native, sends, faults>>

Reconciles ==
    /\ At("idle") /\ ~ Rolling /\ "start_candidate" \in disk.fx
    /\ disk.phase \in {"claimed", "published", "released"} /\ disk.stage # "released"
    /\ disk.bound \/ marker
    /\ core' = [core EXCEPT !.pc = "rc_identify", !.fenced = TRUE]
    /\ disk' = [disk EXCEPT !.bound = TRUE]
    /\ UNCHANGED <<world, lease, file, marker, native, sends, faults>>

\* An identity already acknowledged is kept; an unknown start must prove itself.
RecoversIdentity ==
    /\ At("rc_identify")
    /\ IF "candidate" \in disk.ids /\ "start_candidate" \in disk.acked
       THEN inst["candidate"] = "up" /\ UNCHANGED disk
       ELSE /\ AttemptBound("start_candidate") /\ CandidateValid(FALSE)
            /\ disk' = [disk EXCEPT !.ids = @ \cup {"candidate"}, !.stage = "adopted",
                                    !.seen = @ \cup {"candidate"}]
    /\ Go("rc_prove")
    /\ UNCHANGED <<world, lease, file, marker, native, sends, faults>>

\* _settle_model_accounts: a submitted stop whose exit is observed.
SettlesAccount ==
    /\ At("rc_prove") /\ Removal /\ unit = "exited"
    /\ GivesBack
    /\ UNCHANGED <<core, disk, world, file, marker, native, sends, faults>>

RecoversPublication ==
    /\ At("rc_prove") /\ Proved
    /\ disk' = IF core.epoch = "new" THEN disk ELSE [disk EXCEPT !.phase = "published"]
    /\ Shows("new", "rc_receipt")
    /\ UNCHANGED <<world, lease, file, marker, native, sends, faults>>

\* confirm_retired_receipt, present or already gone, under a fresh proof.
RecoversReceipt ==
    /\ At("rc_receipt") /\ Proved
    /\ marker' = FALSE
    /\ core' = [core EXCEPT !.pc = "rc_release", !.latch = FALSE]
    /\ UNCHANGED <<disk, world, lease, file, native, sends, faults>>

RecoversRelease ==
    /\ At("rc_release") /\ Proved /\ ReleaseReady
    /\ disk' = [disk EXCEPT !.phase = "released"]
    /\ Go("finish")
    /\ UNCHANGED <<world, lease, file, marker, native, sends, faults>>

(***************************************************************************)
(* Explicit rollback: the attempt is settled, the base bytes and a third   *)
(* proxy are restored.                                                     *)
(***************************************************************************)

RollsBack ==
    /\ At("idle") /\ disk.phase \in {"claimed", "published"}
    /\ "stop_old" \in disk.fx /\ NotYet("start_base")
    /\ "start_candidate" \in disk.fx \/ OldSettled
    /\ core' = [core EXCEPT !.pc = "rb_look", !.fenced = TRUE]
    /\ UNCHANGED <<disk, world, lease, file, marker, native, sends, faults>>

\* The running attempt must be known and idle; it is asked to stop once.
StopsAttempt ==
    /\ At("rb_look") /\ ~ AttemptAbsent /\ ~ NothingRuns
    /\ inst["candidate"] = "up" /\ NotYet("stop_candidate")
    /\ "candidate" \in disk.ids \/ (AttemptBound("start_candidate") /\ CandidateValid(FALSE))
    /\ disk' = [disk EXCEPT !.ids = @ \cup {"candidate"}]
    /\ Effect("stop_candidate")
    /\ UNCHANGED <<world, lease, file, marker, native, sends, faults>>

SettlesAttempt ==
    /\ At("rb_look") /\ AttemptAbsent
    /\ disk' = [disk EXCEPT !.stage = "rollback_settled", !.seen = @ \cup {"absence"}]
    /\ Go("rb_restore")
    /\ UNCHANGED <<world, lease, file, marker, native, sends, faults>>

\* _restore_bytes: base bytes stand, or a first restore is submitted.
SubmitsRestore ==
    /\ At("rb_restore")
    /\ IF file = "base"
       THEN Go("rb_start") /\ UNCHANGED disk
       ELSE /\ file = "candidate" /\ NotYet("restore_config")
            /\ disk' = [disk EXCEPT !.fx = @ \cup {"restore_config"}, !.stage = "restore_config"]
            /\ Go("rb_write")
    /\ UNCHANGED <<world, lease, file, marker, native, sends, faults>>

RestoresBytes ==
    /\ At("rb_write") /\ file = "candidate"
    /\ file' = "base" /\ Go("rb_start")
    /\ UNCHANGED <<disk, world, lease, marker, native, sends, faults>>

StartsBase ==
    /\ At("rb_start") /\ AttemptAbsent
    /\ Effect("start_base")
    /\ UNCHANGED <<disk, world, lease, file, marker, native, sends, faults>>

VerifiesBase ==
    /\ At("rb_base") /\ BaseValid
    /\ disk' = [disk EXCEPT !.stage = "base_verified", !.seen = @ \cup {"base"}]
    /\ Go("base_publish")
    /\ UNCHANGED <<world, lease, file, marker, native, sends, faults>>

\* _reconcile_base: the base was submitted once; only observe it.
ResumesBase ==
    /\ At("idle") /\ Rolling /\ BaseValid
    /\ disk.phase # "rolled_back" \/ core.fenced
    /\ "base" \in disk.ids \/ AttemptBound("start_base")
    /\ disk' = [disk EXCEPT !.ids = @ \cup {"base"}, !.seen = @ \cup {"base"},
                            !.stage = IF disk.phase = "rolled_back" THEN @ ELSE "base_verified"]
    /\ core' = [core EXCEPT !.pc = "base_publish", !.fenced = TRUE]
    /\ UNCHANGED <<world, lease, file, marker, native, sends, faults>>

PublishesBase ==
    /\ At("base_publish") /\ BaseValid
    /\ Shows("rollback", "base_receipt")
    /\ UNCHANGED <<disk, world, lease, file, marker, native, sends, faults>>

RetiresBaseReceipt ==
    /\ At("base_receipt") /\ BaseValid
    /\ marker' = FALSE
    /\ core' = [core EXCEPT !.pc = "base_close", !.latch = FALSE]
    /\ UNCHANGED <<disk, world, lease, file, native, sends, faults>>

\* save_catalog takes the rollback only with the whole evidence on record.
RollbackRecorded ==
    /\ disk.stage \in {"base_verified", "rolled_back"} /\ "base" \in disk.ids
    /\ "absence" \in disk.seen /\ "start_base" \in disk.fx

ClosesRollback ==
    /\ At("base_close") /\ BaseValid /\ ~ Fenced /\ RollbackRecorded
    /\ disk' = [disk EXCEPT !.phase = "rolled_back", !.stage = "rolled_back"]
    /\ core' = [core EXCEPT !.pc = "idle", !.op = "none", !.fenced = FALSE]
    /\ UNCHANGED <<world, lease, file, marker, native, sends, faults>>

(***************************************************************************)
(* Failures.                                                               *)
(***************************************************************************)

Busy == core.pc \notin {"idle", "down"}

\* Any step may raise or run into the deadline: the adapter of the running
\* command is killed, which proves nothing about the command.
Fails ==
    /\ Busy /\ core.pc # "marker" /\ faults.fails < MaxFails
    /\ faults' = [faults EXCEPT !.fails = @ + 1]
    /\ Go("idle")
    /\ adapter' = IF At("ack") /\ adapter[core.op] = "running"
                  THEN [adapter EXCEPT ![core.op] = "over"] ELSE adapter
    /\ UNCHANGED <<disk, world, lease, file, marker, record, queued, sends>>

Crash ==
    /\ core.pc # "down" /\ faults.crashes < MaxCrashes
    /\ faults' = [faults EXCEPT !.crashes = @ + 1]
    /\ core' = [core EXCEPT !.pc = "down", !.op = "none", !.latch = FALSE]
    /\ UNCHANGED <<disk, world, lease, file, marker, native, sends>>

SettledRelease == disk.phase = "released" /\ ~ marker /\ file = "candidate"

DurableEpoch ==
    IF disk.phase \in {"published", "released"} THEN "new"
    ELSE IF disk.phase = "rolled_back" THEN "rollback" ELSE "old"

\* CatalogRuntime.__init__: which generation to show and whether to fence.
Restarts ==
    /\ core.pc = "down"
    /\ core' = [pc |-> "idle", op |-> "none", latch |-> FALSE,
                fenced |-> CASE disk.phase = "none" -> FALSE
                             [] disk.phase = "aborted" -> file # "base" \/ marker
                             [] OTHER -> ~ SettledRelease,
                epoch |-> DurableEpoch]
    /\ UNCHANGED <<disk, world, lease, file, marker, native, sends, faults>>

\* A server dies, or one of its helper jobs fails: it can never be settled.
Dies(s) ==
    /\ inst[s] \in {"up", "stopping"} /\ faults.deaths < MaxDeaths
    /\ inst' = [inst EXCEPT ![s] = "dead"]
    /\ faults' = [faults EXCEPT !.deaths = @ + 1]
    /\ UNCHANGED <<core, disk, loaded, unit, lease, file, marker, native, sends>>

Edits ==
    /\ faults.edits < MaxEdits /\ file # "foreign"
    /\ file' = "foreign"
    /\ faults' = [faults EXCEPT !.edits = @ + 1]
    /\ UNCHANGED <<core, disk, world, lease, marker, native, sends>>

Forward ==
    \/ Claims \/ Announces \/ Binds \/ Submits \/ Sends \/ Acknowledges \/ SettlesOld
    \/ Replaces \/ StartsCandidate \/ Identifies \/ Adopts \/ ReleasesAccount
    \/ Publishes \/ RetiresReceipt \/ Releases \/ Finishes

Reconciliation ==
    \/ AbortsUnstarted \/ Reconciles \/ RecoversIdentity \/ SettlesAccount
    \/ RecoversPublication \/ RecoversReceipt \/ RecoversRelease

RollbackSteps ==
    \/ StopsAttempt \/ SettlesAttempt \/ SubmitsRestore \/ RestoresBytes \/ StartsBase
    \/ VerifiesBase \/ PublishesBase \/ RetiresBaseReceipt \/ ClosesRollback

Rollback == RollsBack \/ ResumesBase \/ RollbackSteps

Environment == Fails \/ Aborts \/ Crash \/ Restarts \/ Edits \/ \E s \in Servers : Dies(s)

Next == Forward \/ Reconciliation \/ Rollback \/ Adapter \/ Environment

Spec == Init /\ [][Next]_vars

\* A thread that owns a transaction and the adapter keep going, the service is
\* started again, and an operator asks for reconciliation as long as it helps;
\* nobody has to ask for a rollback.
Fairness ==
    /\ WF_vars(Forward) /\ WF_vars(Adapter) /\ WF_vars(RollbackSteps)
    /\ WF_vars(Reconciliation) /\ WF_vars(Restarts)

FairSpec == Spec /\ Fairness

(***************************************************************************)
(* Properties.                                                             *)
(***************************************************************************)

\* Each native command leaves the scheduler at most once in the life of the
\* transaction, whatever fails, crashes or is asked again.
OnceEach == \A c \in Commands : sends[c] <= 1

\* At most one proxy runs, and none starts beside a predecessor that has not
\* settled with its helper jobs - also when an adapter of a crashed scheduler
\* or a queued start job acts late, during a rollback.
OneServer ==
    /\ Cardinality({s \in Servers : inst[s] = "up"}) <= 1
    /\ inst["candidate"] # "none" => inst["old"] = "settled"
    /\ inst["base"] # "none" => inst["old"] = "settled" /\ inst["candidate"] \in {"none", "settled"}

\* While a command may have taken effect and the outcome is not published,
\* the receipt that makes the queue refuse other changes is on disk.
ReceiptKept == disk.fx # {} /\ disk.phase = "claimed" /\ core.pc # "base_close" =>
    marker \/ disk.stage = "base_verified"

\* Model actions and accounting are let through only when the generation that
\* the scheduler shows is the one in the file and no other proxy can appear.
\* (A file somebody else rewrote is what preflight and the proofs refuse.)
OpenAgrees == ~ Blocked /\ file # "foreign" =>
    /\ file = IF core.epoch = "new" THEN "candidate" ELSE "base"
    /\ queued = {}
    /\ core.epoch = "old" => disk.fx = {}
    /\ core.epoch = "rollback" => inst["candidate"] \in {"none", "settled"}

\* What the store accepts: save_catalog's transitions and its evidence for a
\* rollback, save_maintenance's receipts and identities that only grow.
PhaseAccepted ==
    \/ disk'.phase = disk.phase
    \/ disk.phase = "none" /\ disk'.phase = "claimed"
    \/ disk.phase = "claimed" /\ disk'.phase \in {"published", "aborted"}
    \/ disk.phase = "published" /\ disk'.phase = "released"
    \/ disk.phase \in {"claimed", "published"} /\ disk'.phase = "rolled_back" /\ RollbackRecorded
ProgressAccepted ==
    /\ disk.fx \subseteq disk'.fx /\ disk.acked \subseteq disk'.acked
    /\ disk.ids \subseteq disk'.ids /\ disk'.acked \subseteq disk'.fx

\* No path of the controller, of recovery or of rollback asks the store for a
\* step it refuses: the transaction would end in an error nobody can repair.
StoreAccepts == PhaseAccepted /\ ProgressAccepted

\* An aborted transaction left nothing: no command was ever sent and no
\* receipt stays behind.
AbortIsClean == disk.phase = "aborted" =>
    /\ \A c \in Commands : sends[c] = 0
    /\ ~ marker /\ file # "candidate"

\* A finished rollback can no longer be undone by a late start of the attempt.
RollbackIsFinal == disk.phase = "rolled_back" =>
    /\ inst["old"] = "settled" /\ loaded["base"] = "base"
    /\ inst["candidate"] \in {"none", "settled"} /\ "start_candidate" \notin queued
    /\ record["start_candidate"] \notin {"none", "preparing"}

\* A finished installation retired the old proxy, started the candidate from
\* the candidate's bytes and gave the removed model's account back.
ReleaseIsReal == disk.phase = "released" =>
    /\ inst["old"] = "settled" /\ loaded["candidate"] = "candidate" /\ sends["start_base"] = 0
    /\ Removal => lease = "released"

\* The account of the removed model is returned only after its unit exited on
\* a stop that is on record.
AccountAfterExit == lease = "released" => unit = "exited" /\ "stop_model" \in disk.fx

\* What a transaction promises in every state.
MaintenanceSafe ==
    TypeOK /\ OnceEach /\ OneServer /\ ReceiptKept /\ OpenAgrees /\ AbortIsClean
      /\ RollbackIsFinal /\ ReleaseIsReal /\ AccountAfterExit

\* Once the candidate was observed, failures and crashes at any later step
\* delay the release but cannot prevent it: reconciling publishes, retires the
\* receipt and lifts the fence, unless an operator chose to stop the candidate.
Recovers ==
    "candidate" \in disk.seen ~>
        (disk.phase = "released" /\ ~ Blocked) \/ "stop_candidate" \in disk.fx

=============================================================================
