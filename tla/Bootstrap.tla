------------------------------ MODULE Bootstrap ------------------------------
(***************************************************************************)
(* The first start under the scheduler: the old proxy is stopped, reviewed *)
(* files are staged, the default model gets a real account and a unit of   *)
(* its own, and a new proxy takes over.                                    *)
(*                                                                         *)
(* BootstrapController (bootstrap.py) is a command an operator runs, and   *)
(* runs again to observe, resume or roll back; its claim                   *)
(* (bootstrap_state.py) is durable.  The file and source executor          *)
(* (deploy/bootstrap_native.py) is a process in a session of its own that  *)
(* outlives the command.  The launcher (deploy/vllm-launch) runs inside    *)
(* the command and asks the placement controller over HTTP.                *)
(***************************************************************************)
EXTENDS Naturals, FiniteSets

CONSTANTS
    Modes,        \* what an operator asks for after a failure
    LateStart,    \* an executor may take its lock after its command was killed
    MaxCrashes,   \* bound: commands that are killed
    MaxFails,     \* bound: steps that end in an error or a deadline
    MaxDeaths     \* bound: units, proxies and executors that end by themselves

BootstrapAssumption ==
    /\ Modes \subseteq {"observe", "resume", "rollback"} /\ LateStart \in BOOLEAN
    /\ {MaxCrashes, MaxFails, MaxDeaths} \subseteq Nat

Order == <<"claimed", "stage_submitted", "staged", "placing", "placed", "start_submitted",
           "start_acknowledged", "health_observed", "confirm_submitted", "default_confirmed",
           "activate_submitted", "complete">>
Phases == {Order[i] : i \in DOMAIN Order} \cup {"none", "aborted"}
Effects == {"stage", "launch", "activate", "rollback"}
Native == Effects \ {"launch"}

VARIABLES
    core,      \* the command: program counter, current effect and mode
    claim,     \* the durable claim
    account,   \* the default's lease in the ledger
    unit,      \* the default's unit
    source,    \* the old and the new proxy
    files,     \* how far the file set was replaced
    record,    \* the executor's durable record, a set of marks
    executor,  \* the executor process of each effect
    waiting,   \* a place request whose launcher has given up
    sends,     \* ghost: how often each effect was sent
    faults     \* what has gone wrong so far

vars == <<core, claim, account, unit, source, files, record, executor, waiting, sends, faults>>
world == <<account, unit, source, files, record>>

TypeOK ==
    /\ core \in [pc : {"idle", "down", "submit", "send", "ack", "place", "admit", "start", "started",
                       "monitor", "confirm", "confirmed", "activate", "finish", "look",
                       "settle", "give_back"},
                 op : Native \cup {"none"}, mode : Modes \cup {"run", "none"}]
    /\ claim \in [stage : Phases, fx : [Effects -> {"none", "submitted", "acknowledged"}],
                  lease : BOOLEAN, seen : BOOLEAN]
    /\ account \in {"none", "pending", "stale", "confirmed", "released"}
    /\ unit \in {"none", "activating", "ready", "failed"}
    /\ source \in [old : {"up", "stopping", "gone"}, new : {"none", "queued", "up", "dead"}]
    /\ files \in {"before", "fragment", "partial", "after", "tagged"}
    /\ record \subseteq {"created", "stop", "absent", "activation", "start", "rollback", "rolled"}
    /\ executor \in [Native -> {"none", "check", "fragment", "stop", "wait", "install",
                                "tag", "start", "observe", "restore", "done", "over"}]
    /\ waiting \in {"none", "current", "rotated"}
    /\ sends \in [Effects -> Nat]
    /\ faults \in [crashes : 0 .. MaxCrashes, fails : 0 .. MaxFails, deaths : 0 .. MaxDeaths]

Init ==
    /\ core = [pc |-> "idle", op |-> "none", mode |-> "none"]
    /\ claim = [stage |-> "none", fx |-> [e \in Effects |-> "none"], lease |-> FALSE, seen |-> FALSE]
    /\ account = "none" /\ unit = "none"
    /\ source = [old |-> "up", new |-> "none"]
    /\ files = "before" /\ record = {}
    /\ executor = [e \in Native |-> "none"] /\ waiting = "none"
    /\ sends = [e \in Effects |-> 0]
    /\ faults = [crashes |-> 0, fails |-> 0, deaths |-> 0]

At(pc) == core.pc = pc
Go(pc) == core' = [core EXCEPT !.pc = pc, !.op = "none"]
Stage(s) == claim' = [claim EXCEPT !.stage = s]
Submitted(e) == claim.fx[e] # "none"
Pending == claim.stage \notin {"none", "complete", "aborted"}

(***************************************************************************)
(* What the executor observes.                                             *)
(***************************************************************************)

\* The executor's lock is held from its first durable step to its answer.
Locked == \E e \in Native : executor[e] \notin {"none", "check", "done", "over"}

\* Bug: a proxy that was signalled counts as gone.
SignalledSource == source.old # "up" /\ source.new \in {"none", "dead"}

SourceAbsent == source.old = "gone" /\ source.new \in {"none", "dead"}

UnitAbsent == unit \in {"none", "failed"}

\* _stage_proof over bootstrap_observe: files, recorded absence, no proxy.
StageProof == ~ Locked /\ files = "after" /\ SourceAbsent /\ "absent" \in record /\ "rolled" \notin record

\* _confirmed: the account, and a healthy unit that carries its token.
Confirmed == claim.lease /\ account = "confirmed" /\ unit = "ready"

ActiveReady ==
    ~ Locked /\ source.new = "up" /\ "start" \in record /\ files = "tagged" /\ Confirmed

(***************************************************************************)
(* The command: run.                                                       *)
(***************************************************************************)

\* Preflight and the claim, before any effect.
Claims ==
    /\ At("idle") /\ claim.stage = "none"
    /\ files = "before" /\ source.old = "up" /\ UnitAbsent
    /\ Stage("claimed")
    /\ core' = [pc |-> "submit", op |-> "stage", mode |-> "run"]
    /\ UNCHANGED <<world, executor, waiting, sends, faults>>

StageOf == [stage |-> "stage_submitted", activate |-> "activate_submitted"]

\* The submission is durable before the executor is called.
Submits ==
    /\ At("submit")
    /\ claim' = [claim EXCEPT !.fx[core.op] = "submitted",
                              !.stage = IF core.op = "rollback" THEN @ ELSE StageOf[core.op]]
    /\ core' = [core EXCEPT !.pc = "send"]
    /\ UNCHANGED <<world, executor, waiting, sends, faults>>

Sends ==
    /\ At("send")
    /\ executor' = [executor EXCEPT ![core.op] = "check"]
    /\ sends' = [sends EXCEPT ![core.op] = @ + 1]
    /\ core' = [core EXCEPT !.pc = "ack"]
    /\ UNCHANGED <<world, claim, waiting, faults>>

\* The launcher comes next: placing is durable before the HTTP request.
StageAcknowledged ==
    /\ At("ack") /\ core.op = "stage" /\ executor["stage"] = "done" /\ StageProof
    /\ claim' = [claim EXCEPT !.fx["stage"] = "acknowledged", !.stage = "staged"]
    /\ Go("look")
    /\ UNCHANGED <<world, executor, waiting, sends, faults>>

ActivateAcknowledged ==
    /\ At("ack") /\ core.op = "activate" /\ executor["activate"] = "done"
    /\ claim' = [claim EXCEPT !.fx["activate"] = "acknowledged"]
    /\ Go("finish")
    /\ UNCHANGED <<world, executor, waiting, sends, faults>>

(***************************************************************************)
(* The launcher and its requests to the placement controller.              *)
(***************************************************************************)

Placing ==
    /\ At("look") /\ core.mode \in {"run", "resume"} /\ ~ Submitted("launch")
    /\ claim.stage \in {"staged", "placing"}
    /\ UnitAbsent
    /\ Stage("placing") /\ Go("place")
    /\ UNCHANGED <<world, executor, waiting, sends, faults>>

CanAttach == claim.stage = "placing" /\ ~ claim.lease /\ StageProof

\* insert_lease: the lease and its attachment are one transaction.
Attaches ==
    /\ account' = "pending"
    /\ claim' = [claim EXCEPT !.stage = "placed", !.lease = TRUE]

Places ==
    /\ At("place") /\ CanAttach
    /\ Attaches /\ Go("admit")
    /\ UNCHANGED <<unit, source, files, record, executor, waiting, sends, faults>>

\* A request that outlived its launcher is served while a later command is
\* busy, if its capability is still the claim's.
LateRequest ==
    /\ waiting # "none" /\ core.pc \notin {"idle", "down"} /\ waiting' = "none"
    /\ IF waiting = "current" /\ CanAttach THEN Attaches ELSE UNCHANGED <<claim, account>>
    /\ UNCHANGED <<core, unit, source, files, record, executor, sends, faults>>

\* A prepared lease goes straight to the admission.
UsesPrepared ==
    /\ At("look") /\ core.mode = "resume" /\ ~ Submitted("launch")
    /\ claim.stage = "placed" /\ account \in {"pending", "stale"}
    /\ Go("admit")
    /\ UNCHANGED <<world, claim, executor, waiting, sends, faults>>

\* start_submitted: fresh absence of the unit and an unexpired reservation.
Admits ==
    /\ At("admit") /\ account = "pending" /\ UnitAbsent /\ StageProof
    /\ claim' = [claim EXCEPT !.stage = "start_submitted", !.fx["launch"] = "submitted"]
    /\ Go("start")
    /\ UNCHANGED <<world, executor, waiting, sends, faults>>

Starts ==
    /\ At("start")
    /\ unit' = "activating" /\ sends' = [sends EXCEPT !["launch"] = @ + 1]
    /\ Go("started")
    /\ UNCHANGED <<claim, account, source, files, record, executor, waiting, faults>>

\* systemd-run failed: the launcher gives the account back when nothing runs.
StartFails ==
    /\ At("start") /\ faults.fails < MaxFails
    /\ faults' = [faults EXCEPT !.fails = @ + 1]
    /\ account' = "released" /\ Go("idle")
    /\ UNCHANGED <<claim, unit, source, files, record, executor, waiting, sends>>

StartAcknowledged ==
    /\ At("started")
    /\ claim' = [claim EXCEPT !.fx["launch"] = "acknowledged", !.stage = "start_acknowledged"]
    /\ Go("monitor")
    /\ UNCHANGED <<world, executor, waiting, sends, faults>>

\* monitor_startup: two notifications around the first answer of /health.
HealthObserved ==
    /\ At("monitor") /\ unit = "ready"
    /\ IF claim.stage = "start_acknowledged"
       THEN Stage("health_observed") /\ UNCHANGED core
       ELSE Stage("confirm_submitted") /\ Go("confirm")
    /\ UNCHANGED <<world, executor, waiting, sends, faults>>

\* finish(confirm): a healthy unit, and a lease that was not released.
Confirms ==
    /\ At("confirm") /\ unit = "ready" /\ StageProof
    /\ account \in {"pending", "stale", "confirmed"}
    /\ account' = "confirmed" /\ Go("confirmed")
    /\ UNCHANGED <<claim, unit, source, files, record, executor, waiting, sends, faults>>

DefaultConfirmed ==
    /\ At("confirmed") /\ Confirmed
    /\ claim' = [claim EXCEPT !.stage = "default_confirmed", !.seen = TRUE]
    /\ Go("activate")
    /\ UNCHANGED <<world, executor, waiting, sends, faults>>

\* The unit ended before it was ready: the launcher releases the lease.
LauncherReleases ==
    /\ At("monitor") /\ unit = "failed"
    /\ account' = "released" /\ Go("idle")
    /\ UNCHANGED <<claim, unit, source, files, record, executor, waiting, sends, faults>>

(***************************************************************************)
(* Activation and the end.                                                 *)
(***************************************************************************)

Activates ==
    /\ At("activate") /\ Confirmed
    /\ core' = [core EXCEPT !.pc = "submit", !.op = "activate"]
    /\ UNCHANGED <<world, claim, executor, waiting, sends, faults>>

\* _finish_source and the terminal checks of _save, under the action lock.
Completes ==
    /\ At("finish") /\ ActiveReady /\ Confirmed
    /\ Stage("complete") /\ Go("idle")
    /\ UNCHANGED <<world, executor, waiting, sends, faults>>

(***************************************************************************)
(* The command: recover.                                                   *)
(***************************************************************************)

\* reclaim: a new owner and a new capability; nothing is repeated by it.
Reclaims == waiting' = IF waiting = "current" THEN "rotated" ELSE waiting

RollsBack ==
    /\ At("idle") /\ Pending /\ "rollback" \in Modes /\ ~ Submitted("launch")
    /\ core' = [pc |-> "give_back", op |-> "none", mode |-> "rollback"]
    /\ Reclaims
    /\ UNCHANGED <<world, claim, executor, sends, faults>>

\* finish(release) of the attached lease needs an absent unit; one rollback only.
GivesBack ==
    /\ At("give_back")
    /\ claim.lease /\ account # "released" => UnitAbsent
    /\ account' = IF claim.lease THEN "released" ELSE account
    /\ IF Submitted("rollback") THEN Go("idle")
       ELSE core' = [core EXCEPT !.pc = "submit", !.op = "rollback"]
    /\ UNCHANGED <<claim, unit, source, files, record, executor, waiting, sends, faults>>

\* The source is recorded absent, or the original one was never asked to stop.
RolledBack ==
    \/ SourceAbsent /\ "absent" \in record
    \/ source.old = "up" /\ "stop" \notin record

Aborts ==
    /\ At("ack") /\ core.op = "rollback" /\ executor["rollback"] = "done"
    /\ files = "before" /\ "rolled" \in record /\ RolledBack /\ UnitAbsent
    /\ account \in {"none", "released"}
    /\ claim' = [claim EXCEPT !.fx["rollback"] = "acknowledged", !.stage = "aborted"]
    /\ Go("idle")
    /\ UNCHANGED <<world, executor, waiting, sends, faults>>

\* observe and resume: a submitted activation is only ever observed.
Observes(mode) ==
    /\ At("idle") /\ Pending /\ mode \in Modes \ {"rollback"}
    /\ Reclaims
    /\ IF Submitted("activate")
       THEN core' = [pc |-> "finish", op |-> "none", mode |-> mode] /\ UNCHANGED claim
       ELSE /\ StageProof
            /\ IF claim.stage = "stage_submitted" THEN Stage("staged") ELSE UNCHANGED claim
            /\ core' = [pc |-> "look", op |-> "none", mode |-> mode]
    /\ UNCHANGED <<world, executor, sends, faults>>

\* Bug: only an acknowledged start is settled.
SettlesAcknowledged ==
    /\ At("look") /\ claim.fx["launch"] = "acknowledged" /\ claim.stage # "default_confirmed"
    /\ unit = "ready" /\ StageProof /\ account \in {"pending", "stale", "confirmed"}
    /\ claim' = [claim EXCEPT !.seen = TRUE]
    /\ Go("settle")
    /\ UNCHANGED <<world, executor, waiting, sends, faults>>

\* A launch that was submitted is settled by what its unit shows.
SettlesLaunch ==
    /\ At("look") /\ Submitted("launch") /\ claim.stage # "default_confirmed"
    /\ unit = "ready" /\ StageProof /\ account \in {"pending", "stale", "confirmed"}
    /\ claim' = [claim EXCEPT !.seen = TRUE]
    /\ Go("settle")
    /\ UNCHANGED <<world, executor, waiting, sends, faults>>

Settles ==
    /\ At("settle")
    /\ \/ /\ claim.stage \in {"start_submitted", "start_acknowledged"}
          /\ Stage("health_observed") /\ UNCHANGED <<core, account>>
       \/ /\ claim.stage = "health_observed"
          /\ Stage("confirm_submitted") /\ UNCHANGED <<core, account>>
       \/ /\ claim.stage = "confirm_submitted" /\ unit = "ready" /\ StageProof
          /\ account \in {"pending", "stale", "confirmed"}
          /\ account' = "confirmed" /\ Stage("default_confirmed") /\ Go("look")
    /\ UNCHANGED <<unit, source, files, record, executor, waiting, sends, faults>>

ResumesActivation ==
    /\ At("look") /\ core.mode = "resume" /\ claim.stage = "default_confirmed"
    /\ Go("activate")
    /\ UNCHANGED <<world, claim, executor, waiting, sends, faults>>

\* observe answers needs_resume.
NeedsResume ==
    /\ At("look") /\ core.mode = "observe"
    /\ ~ Submitted("launch") \/ claim.stage = "default_confirmed"
    /\ Go("idle")
    /\ UNCHANGED <<world, claim, executor, waiting, sends, faults>>

(***************************************************************************)
(* The executor.                                                           *)
(***************************************************************************)

Step(op, pc) == executor' = [executor EXCEPT ![op] = pc]
Mark(m) == record' = record \cup {m}
Running(op, pc) == executor[op] = pc

\* A refusal before the first durable step leaves no record.
Refuses(op) ==
    /\ Running(op, "check") /\ faults.fails < MaxFails
    /\ faults' = [faults EXCEPT !.fails = @ + 1]
    /\ Step(op, "over")
    /\ UNCHANGED <<core, claim, world, waiting, sends>>

Stages ==
    \/ /\ Running("stage", "check") /\ files = "before" /\ source.old = "up" /\ "created" \notin record
       /\ Mark("created") /\ Step("stage", "fragment")
       /\ UNCHANGED <<source, files>>
    \/ /\ Running("stage", "fragment") /\ files = "before"
       /\ files' = "fragment" /\ Step("stage", "stop")
       /\ UNCHANGED <<source, record>>
    \/ /\ Running("stage", "stop") /\ source.old = "up"
       /\ Mark("stop") /\ Step("stage", "wait")
       /\ UNCHANGED <<source, files>>
    \/ /\ Running("stage", "wait") /\ source.old = "up"
       /\ source' = [source EXCEPT !.old = "stopping"]
       /\ UNCHANGED <<files, record, executor>>
    \/ /\ Running("stage", "wait") /\ SourceAbsent /\ UnitAbsent
       /\ Mark("absent") /\ Step("stage", "install")
       /\ UNCHANGED <<source, files>>
    \/ /\ Running("stage", "install") /\ files \in {"fragment", "partial"}
       /\ files' = IF files = "fragment" THEN "partial" ELSE "after"
       /\ Step("stage", IF files = "fragment" THEN "install" ELSE "done")
       /\ UNCHANGED <<source, record>>

\* One activation, of the staged files, with no proxy and a real account.
MayActivate ==
    /\ "absent" \in record /\ "activation" \notin record /\ "rolled" \notin record
    /\ files = "after" /\ SourceAbsent /\ Confirmed

ActivatesSource ==
    \/ /\ Running("activate", "check") /\ ~ Locked /\ MayActivate
       /\ Mark("activation") /\ Step("activate", "tag")
       /\ UNCHANGED <<source, files>>
    \/ /\ Running("activate", "tag") /\ files = "after"
       /\ files' = "tagged" /\ Mark("start") /\ Step("activate", "start")
       /\ UNCHANGED source
    \/ /\ Running("activate", "start") /\ source.new = "none"
       /\ source' = [source EXCEPT !.new = "queued"] /\ Step("activate", "observe")
       /\ UNCHANGED <<files, record>>
    \/ /\ Running("activate", "observe") /\ source.new = "up" /\ Confirmed
       /\ Step("activate", "done")
       /\ UNCHANGED <<source, files, record>>

\* Files are given back only over an absent source or the untouched original.
MayRestore ==
    /\ "created" \in record /\ record \cap {"activation", "rollback", "rolled"} = {} /\ UnitAbsent
    /\ \/ SourceAbsent
       \/ source.old = "up" /\ "stop" \notin record /\ files \in {"before", "fragment"}

Restores ==
    \/ /\ Running("rollback", "check") /\ ~ Locked /\ MayRestore
       /\ Mark("rollback") /\ Step("rollback", "restore")
       /\ UNCHANGED <<source, files>>
    \/ /\ Running("rollback", "restore") /\ files # "before"
       /\ files' = IF files = "after" THEN "partial"
                   ELSE IF files = "partial" THEN "fragment" ELSE "before"
       /\ UNCHANGED <<source, record, executor>>
    \/ /\ Running("rollback", "restore") /\ files = "before" /\ "rolled" \notin record
       /\ SourceAbsent \/ (source.old = "up" /\ "stop" \notin record)
       /\ Mark("rolled") /\ Step("rollback", "done")
       /\ UNCHANGED <<source, files>>

Executor ==
    /\ Stages \/ ActivatesSource \/ Restores
    /\ UNCHANGED <<core, claim, account, unit, waiting, sends, faults>>

(***************************************************************************)
(* The environment.                                                        *)
(***************************************************************************)

SourceMoves ==
    /\ \/ source.old = "stopping" /\ source' = [source EXCEPT !.old = "gone"]
       \/ source.new = "queued" /\ source' = [source EXCEPT !.new = "up"]
    /\ UNCHANGED <<core, claim, account, unit, files, record, executor, waiting, sends, faults>>

UnitReady ==
    /\ unit = "activating" /\ unit' = "ready"
    /\ UNCHANGED <<core, claim, account, source, files, record, executor, waiting, sends, faults>>

\* A reservation runs out; the placement controller may mark it.
Expires ==
    /\ account = "pending" /\ account' = "stale"
    /\ UNCHANGED <<core, claim, unit, source, files, record, executor, waiting, sends, faults>>

\* The unit, the new proxy or a running executor ends by itself.
Dies ==
    /\ faults.deaths < MaxDeaths /\ faults' = [faults EXCEPT !.deaths = @ + 1]
    /\ \/ unit \in {"activating", "ready"} /\ unit' = "failed" /\ UNCHANGED <<source, executor>>
       \/ source.new = "up" /\ source' = [source EXCEPT !.new = "dead"] /\ UNCHANGED <<unit, executor>>
       \/ \E op \in Native :
            /\ executor[op] \notin {"none", "done", "over"}
            /\ Step(op, "over") /\ UNCHANGED <<unit, source>>
    /\ UNCHANGED <<core, claim, account, files, record, waiting, sends>>

\* The evidence the next step needs is missing: the command ends in an error.
Missing ==
    \/ At("ack") /\ executor[core.op] = "over"
    \/ At("ack") /\ core.op = "stage" /\ executor["stage"] = "done" /\ ~ StageProof
    \/ core.pc \in {"place", "admit", "confirm"} /\ ~ StageProof
    \/ At("place") /\ claim.stage # "placing"
    \/ At("admit") /\ account # "pending"
    \/ core.pc \in {"confirmed", "activate"} /\ ~ Confirmed
    \/ At("finish") /\ ~ ActiveReady
    \/ core.pc \in {"look", "settle", "confirm"} /\ (unit = "failed" \/ account = "released" \/ ~ StageProof)

GivesUp ==
    /\ Missing /\ Go("idle")
    /\ UNCHANGED <<claim, world, executor, waiting, sends, faults>>

\* An error or the deadline: the executor of the request is killed, and a
\* place request may still be on its way.
Fails ==
    /\ core.pc \notin {"idle", "down"} /\ faults.fails < MaxFails
    /\ faults' = [faults EXCEPT !.fails = @ + 1]
    /\ Go("idle")
    /\ executor' = IF At("ack") /\ executor[core.op] # "done"
                   THEN [executor EXCEPT ![core.op] = "over"] ELSE executor
    /\ waiting' = IF At("place") THEN "current" ELSE waiting
    /\ UNCHANGED <<claim, world, sends>>

\* The command is killed: its threads end, an executor process does not.
Crash ==
    /\ core.pc # "down" /\ faults.crashes < MaxCrashes
    /\ faults' = [faults EXCEPT !.crashes = @ + 1]
    /\ Go("down") /\ waiting' = "none"
    /\ executor' = [op \in Native |->
          IF executor[op] = "check" /\ ~ LateStart THEN "over" ELSE executor[op]]
    /\ UNCHANGED <<claim, world, sends>>

Restarts ==
    /\ At("down") /\ Go("idle")
    /\ UNCHANGED <<claim, world, executor, waiting, sends, faults>>

Command ==
    \/ Claims \/ Submits \/ Sends \/ StageAcknowledged \/ ActivateAcknowledged
    \/ Placing \/ Places \/ UsesPrepared \/ Admits \/ Starts \/ StartAcknowledged
    \/ HealthObserved \/ Confirms \/ DefaultConfirmed \/ LauncherReleases
    \/ Activates \/ Completes \/ GivesBack \/ Aborts
    \/ SettlesLaunch \/ Settles \/ ResumesActivation \/ NeedsResume \/ GivesUp

Operator == RollsBack \/ \E mode \in {"observe", "resume"} : Observes(mode)

Environment ==
    \/ SourceMoves \/ UnitReady \/ Expires \/ Dies \/ Fails \/ StartFails \/ Crash \/ Restarts
    \/ LateRequest \/ \E op \in Native : Refuses(op)

Next == Command \/ Operator \/ Executor \/ Environment

Spec == Init /\ [][Next]_vars

\* The command and the executor keep going, units and proxies start, and the
\* operator resumes as long as the bootstrap is pending.
Fairness ==
    /\ WF_vars(Command) /\ WF_vars(Executor) /\ WF_vars(SourceMoves)
    /\ WF_vars(UnitReady) /\ WF_vars(Restarts) /\ SF_vars(Observes("resume"))

FairSpec == Spec /\ Fairness

(***************************************************************************)
(* Properties.                                                             *)
(***************************************************************************)

\* Each effect, the start of the default included, is sent at most once, over
\* every failure, crash, observation, resumption and rollback.
OnceEach == \A e \in Effects : sends[e] <= 1

\* The default never runs without a live account: not after its launcher gave
\* the lease back, not after a rollback, not beside a late request.
UnitHasAccount == unit \in {"activating", "ready"} => account \in {"pending", "stale", "confirmed"}

\* The new proxy is started over the staged files only, when the old one has
\* gone, and for a default that holds a confirmed account.
HandoffInOrder ==
    source.new # "none" => source.old = "gone" /\ files = "tagged" /\ account = "confirmed"

\* A complete bootstrap has one launched default with a confirmed account and
\* one started proxy over the activated files; nothing is left to run.
CompleteIsReal == claim.stage = "complete" =>
    /\ account = "confirmed" /\ sends["launch"] = 1 /\ claim.seen
    /\ source.old = "gone" /\ source.new # "none" /\ files = "tagged"
    /\ "rolled" \notin record

\* An aborted bootstrap left the reviewed files, no unit and no account, and
\* neither an executor nor a waiting request can still change that.
AbortIsClean == claim.stage = "aborted" =>
    /\ files = "before" /\ unit = "none" /\ account \in {"none", "released"}
    /\ source.new = "none" /\ source.old # "stopping"
    /\ \A e \in Native : executor[e] \in {"none", "check", "done", "over"}

\* Files are only restored while no account of the default is live: a late
\* request of the first launcher cannot reserve under a rollback.  An executor
\* that takes its lock after its command was killed is the exception: the
\* operator may have resumed the launch before it starts.
RestoredWithoutAccount ==
    ~ LateStart /\ executor["rollback"] \in {"restore", "done"} => account \notin {"pending", "confirmed"}

\* What a bootstrap promises in every state.
BootstrapSafe ==
    TypeOK /\ OnceEach /\ UnitHasAccount /\ HandoffInOrder /\ CompleteIsReal /\ AbortIsClean
      /\ RestoredWithoutAccount

\* No path through run and recover asks the store for a step it refuses: the
\* stages only go on, receipts and the lease stay attached.
StageAccepted ==
    \/ claim'.stage = claim.stage
    \/ claim.stage = "none" /\ claim'.stage = "claimed"
    \/ \E i \in DOMAIN Order : i + 1 \in DOMAIN Order
          /\ claim.stage = Order[i] /\ claim'.stage = Order[i + 1]
    \/ claim.stage = "start_submitted" /\ claim'.stage = "health_observed" /\ claim.seen
    \/ Pending /\ claim'.stage = "aborted" /\ claim'.fx["rollback"] = "acknowledged"
StoreAccepts == /\ StageAccepted
                /\ claim.lease => claim'.lease
                /\ \A e \in Effects : \/ claim'.fx[e] = claim.fx[e]
                                      \/ claim.fx[e] = "none"
                                      \/ claim'.fx[e] = "acknowledged"

\* A default that was launched and answers ends with a confirmed account,
\* whatever command failed or was killed on the way.
LaunchSettles ==
    Submitted("launch") /\ unit = "ready" ~>
        claim.stage \in {"default_confirmed", "activate_submitted", "complete"}

=============================================================================
