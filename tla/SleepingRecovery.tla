-------------------------- MODULE SleepingRecovery --------------------------
(***************************************************************************)
(* Recovery of a sleeping model (llmsvc/recovery.py): a durable claim      *)
(* binds the account of the sleeper; its unit is stopped, the account      *)
(* released when the unit is gone, llama-swap told to unload the model,    *)
(* and a relocated model is started again on another GPU through an        *)
(* ordinary placement that is bound to the claim. Each command is marked   *)
(* in the ledger before it is sent and is never sent again: a restarted    *)
(* scheduler only observes what the claim says.                            *)
(*                                                                         *)
(* An account has one instance, so an account stands for its InvocationID. *)
(***************************************************************************)
EXTENDS Naturals, FiniteSets

CONSTANTS
  LeaseIds,    \* accounts of the model, each granted at most once
  MaxCrashes,  \* bound: crashes of the scheduler
  None

Commands == {"stop", "unload", "wake"}

VARIABLES
  row,     \* llmsvc_leases: status of each account
  claim,   \* llmsvc_recoveries: the claim that is not complete, or None
  unit,    \* systemd: the account whose instance runs, or None
  swap,    \* llama-swap's state of the model
  jobs,    \* commands that were sent and have neither taken effect nor failed
  round,   \* the collector round under way, or None
  sample,  \* the published round, or None
  pc,      \* where the recovery worker is
  seen,    \* it saw one round of the two it needs
  failure, \* the stop of the source was answered with an error
  crashes,
  sent     \* history: how often each command was sent for an account's claim

durable == <<row, claim>>
outside == <<unit, swap, jobs>>
sampler == <<round, sample>>
worker == <<pc, seen, failure>>
vars == <<durable, outside, sampler, worker, crashes, sent>>

Stages == {"claimed", "released", "settled", "waking", "destination"}
Claim == [source : LeaseIds, destination : LeaseIds \cup {None}, relocate : BOOLEAN,
          stage : Stages, submitted : SUBSET Commands, acknowledged : SUBSET Commands]
SleepingAssumption == MaxCrashes \in Nat /\ None \notin LeaseIds \cup Claim

\* What a round read; mark: it began after the worker's last boundary, and the
\* worker has not read it yet.
Round == [unit : LeaseIds \cup {None}, swap : {"stopped", "starting", "ready"},
          mark : {"old", "new"}]
\* The steps the worker takes with action_lock held.
LockedSteps == {"claimed", "marked", "stopping", "unloading", "waking"}
Steps == LockedSteps \cup {"idle", "observing", "observed", "unload sent", "unloaded",
                           "settling", "settled", "wake sent", "woken", "resuming"}
Open(l) == row[l] \in {"pending", "confirmed"}
Locked == pc \in LockedSteps
\* _permission = "wake"
MayPlace == pc \in {"waking", "wake sent"}

TypeOK ==
  /\ row \in [LeaseIds -> {"none", "pending", "confirmed", "released"}]
  /\ claim \in Claim \cup {None}
  /\ unit \in LeaseIds \cup {None}
  /\ swap \in {"stopped", "starting", "ready"} /\ jobs \subseteq Commands
  /\ round \in Round \cup {None} /\ sample \in Round \cup {None}
  /\ pc \in Steps /\ seen \in BOOLEAN /\ failure \in BOOLEAN
  /\ crashes \in 0..MaxCrashes
  /\ sent \in [LeaseIds -> [Commands -> Nat]]

Init ==
  /\ row = [l \in LeaseIds |-> "none"] /\ claim = None
  /\ unit = None /\ swap = "stopped" /\ jobs = {}
  /\ round = None /\ sample = None
  /\ pc = "idle" /\ seen = FALSE /\ failure = FALSE
  /\ crashes = 0 /\ sent = [l \in LeaseIds |-> [c \in Commands |-> 0]]

-----------------------------------------------------------------------------
(* What the ledger accepts *)

\* _validate_recovery: the progress flags a stage may have.
Valid(c) ==
  /\ c.acknowledged \subseteq c.submitted
  /\ c.stage = "claimed" => c.submitted \subseteq {"stop"} /\ c.destination = None
  /\ c.stage # "claimed" => "stop" \in c.submitted
  /\ "unload" \in c.submitted => "stop" \in c.acknowledged
  /\ "wake" \in c.submitted => "unload" \in c.acknowledged /\ c.stage \in {"waking", "destination"}
  /\ c.stage \in {"settled", "waking", "destination"} => "unload" \in c.acknowledged
  /\ c.stage \in {"waking", "destination"} => c.relocate /\ "wake" \in c.submitted
  /\ (c.stage = "destination") <=> (c.destination # None)
  /\ "wake" \in c.acknowledged => c.destination \notin {None, c.source}

\* advance_recovery: a claim ends undone, retired, or with its destination confirmed.
Completable(c) ==
  \/ c.stage = "claimed" /\ "stop" \notin c.submitted
  \/ c.stage = "settled" /\ "unload" \in c.acknowledged /\ ~c.relocate
  \/ /\ c.stage = "destination" /\ "wake" \in c.acknowledged
     /\ row[c.destination] = "confirmed"

-----------------------------------------------------------------------------
(* llama-swap, the launcher and the unit *)

ClientRequest ==
  /\ swap = "stopped" /\ swap' = "starting"
  /\ UNCHANGED <<durable, unit, jobs, sampler, worker, crashes, sent>>

\* POST /v1/place of a model that has a claim: only while its wake is under
\* way, and the account is bound to the claim in the same transaction.
BoundPlace(l) ==
  /\ MayPlace /\ claim.stage = "waking" /\ claim.destination = None
  /\ row[claim.source] = "released"
  /\ claim' = [claim EXCEPT !.stage = "destination", !.destination = l]

\* The launcher is granted an account and starts the unit.
Place(l) ==
  /\ ~Locked /\ swap = "starting" /\ unit = None /\ row[l] = "none"
  /\ sample # None /\ sample.unit = None
  /\ \A k \in LeaseIds : ~Open(k)
  /\ IF claim = None THEN UNCHANGED claim ELSE BoundPlace(l)
  /\ row' = [row EXCEPT ![l] = "pending"] /\ unit' = l
  /\ UNCHANGED <<swap, jobs, sampler, worker, crashes, sent>>

\* An account moves on, except the source's while the claim owns it.
Settles(l, status) ==
  /\ ~Locked /\ (claim # None => l = claim.destination)
  /\ row' = [row EXCEPT ![l] = status]
  /\ UNCHANGED <<claim, outside, sampler, worker, crashes, sent>>

Confirm(l) == row[l] = "pending" /\ unit = l /\ sample # None /\ sample.unit = l /\ Settles(l, "confirmed")
Release(l) == Open(l) /\ unit # l /\ sample # None /\ sample.unit = None /\ Settles(l, "released")

SwapMoves(from, guard, to) ==
  /\ swap = from /\ guard /\ swap' = to
  /\ UNCHANGED <<durable, unit, jobs, sampler, worker, crashes, sent>>

SwapReady == SwapMoves("starting", unit # None, "ready")
SwapGivesUp == SwapMoves("starting", unit = None, "stopped")
\* Its process ended, or llama-swap put it to sleep when it was idle.
SwapUnloads == SwapMoves("ready", TRUE, "stopped")

UnitExits ==
  /\ unit # None /\ unit' = None
  /\ UNCHANGED <<durable, swap, jobs, sampler, worker, crashes, sent>>

\* A command takes effect, also after the one who sent it stopped waiting.
Executes(command) ==
  /\ command \in jobs /\ jobs' = jobs \ {command}
  /\ UNCHANGED <<durable, sampler, worker, crashes, sent>>

StopExecutes == Executes("stop") /\ unit' = None /\ UNCHANGED swap
UnloadExecutes == Executes("unload") /\ swap' = "stopped" /\ UNCHANGED unit
WakeExecutes ==
  /\ Executes("wake") /\ swap' = (IF swap = "stopped" THEN "starting" ELSE swap)
  /\ UNCHANGED unit
CommandLost == \E command \in jobs : Executes(command) /\ UNCHANGED <<unit, swap>>

-----------------------------------------------------------------------------
(* The sampler *)

RoundBegin ==
  /\ round = None
  /\ round' = [unit |-> unit, swap |-> swap, mark |-> "new"]
  /\ UNCHANGED <<durable, outside, sample, worker, crashes, sent>>

RoundPublish ==
  /\ round # None /\ ~Locked
  /\ sample' = round /\ round' = None
  /\ UNCHANGED <<durable, outside, worker, crashes, sent>>

\* _boundary: rounds that began before it prove nothing any more.
Boundary ==
  /\ round' = IF round = None THEN None ELSE [round EXCEPT !.mark = "old"]
  /\ sample' = IF sample = None THEN None ELSE [sample EXCEPT !.mark = "old"]

\* _fresh_round and _post_boundary: the worker reads the next round once.
FreshRound ==
  /\ sample # None /\ sample.mark = "new"
  /\ sample' = [sample EXCEPT !.mark = "old"] /\ UNCHANGED round

\* _source_absent: the published round and a probe under the lock agree.
SourceAbsent == sample # None /\ sample.unit = None /\ unit = None
DestinationReady ==
  /\ sample.unit = claim.destination /\ sample.swap = "ready"
  /\ unit = claim.destination /\ row[unit] = "confirmed"

-----------------------------------------------------------------------------
(* The recovery worker *)

Goto(from, to) == pc = from /\ pc' = to

\* _claim: the account of the source is where the stage of the claim says.
ClaimHolds == row[claim.source] = (IF claim.stage = "claimed" THEN "confirmed" ELSE "released")

\* plan, the identity of the sleeper over a round, and claim_recovery.
ClaimSource(l) ==
  /\ Goto("idle", "claimed") /\ claim = None
  /\ row[l] = "confirmed" /\ unit = l /\ sample # None /\ sample.unit = l
  /\ \E relocate \in BOOLEAN :
       claim' = [source |-> l, destination |-> None, relocate |-> relocate, stage |-> "claimed",
                 submitted |-> {}, acknowledged |-> {}]
  /\ seen' = FALSE /\ failure' = FALSE
  /\ UNCHANGED <<row, outside, sampler, crashes, sent>>

\* A command is marked submitted, and a boundary taken, before it is sent.
Mark(from, to, command, stage) ==
  /\ Goto(from, to) /\ command \notin claim.submitted /\ ClaimHolds
  /\ claim' = [claim EXCEPT !.submitted = @ \cup {command}, !.stage = stage]
  /\ Boundary
  /\ UNCHANGED <<row, outside, seen, failure, crashes, sent>>

Send(from, to, command) ==
  /\ Goto(from, to) /\ ClaimHolds
  /\ jobs' = jobs \cup {command}
  /\ sent' = [sent EXCEPT ![claim.source][command] = @ + 1]
  /\ UNCHANGED <<durable, unit, swap, sampler, seen, failure, crashes>>

\* before_source_action
MarkStop == pc = "claimed" /\ unit = claim.source /\ Mark("claimed", "marked", "stop", "claimed")
SendStop == Send("marked", "stopping", "stop")

\* systemctl stop returns when the unit is gone, or fails at its deadline.
StopAnswers ==
  /\ Goto("stopping", "observing") /\ seen' = FALSE
  /\ "stop" \notin jobs /\ unit = None
  /\ claim' = [claim EXCEPT !.acknowledged = @ \cup {"stop"}]
  /\ UNCHANGED <<row, outside, sampler, failure, crashes, sent>>

\* It was refused, failed or was not sent at all: the source is observed all the same.
StopFails ==
  /\ pc \in {"marked", "stopping"} /\ pc' = "observing" /\ seen' = FALSE
  /\ failure' = TRUE /\ UNCHANGED claim
  /\ UNCHANGED <<row, outside, sampler, crashes, sent>>

\* The source's account is released with the first round that shows it gone.
ReleaseSource ==
  /\ row' = [row EXCEPT ![claim.source] = "released"]
  /\ claim' = [claim EXCEPT !.stage = "released"]

\* _observe_source
ObserveSource ==
  /\ pc = "observing" /\ FreshRound /\ ClaimHolds
  /\ seen' = SourceAbsent
  /\ pc' = IF SourceAbsent /\ seen THEN "observed" ELSE pc
  /\ IF SourceAbsent /\ claim.stage = "claimed" THEN ReleaseSource ELSE UNCHANGED durable
  /\ UNCHANGED <<outside, failure, crashes, sent>>

\* _cleanup_proxy
MayUnload == claim.stage = "released" /\ "stop" \in claim.acknowledged /\ ~failure
MarkUnload == pc = "observed" /\ MayUnload /\ SourceAbsent /\ Mark("observed", "unloading", "unload", "released")
SendUnload == Send("unloading", "unload sent", "unload")

UnloadAnswers ==
  /\ Goto("unload sent", "settling") /\ "unload" \notin jobs /\ swap # "ready"
  /\ ClaimHolds /\ SourceAbsent
  /\ claim' = [claim EXCEPT !.acknowledged = @ \cup {"unload"}] /\ seen' = FALSE
  /\ UNCHANGED <<row, outside, sampler, failure, crashes, sent>>

ProxySettled == sample.swap = "stopped" /\ SourceAbsent
Settle ==
  /\ pc = "settling" /\ FreshRound /\ ClaimHolds
  /\ seen' = ProxySettled
  /\ IF ProxySettled /\ seen
     THEN pc' = "settled" /\ claim' = [claim EXCEPT !.stage = "settled"]
     ELSE UNCHANGED <<pc, claim>>
  /\ UNCHANGED <<row, outside, failure, crashes, sent>>

Complete(from) ==
  /\ Goto(from, "idle") /\ Completable(claim)
  /\ claim' = None /\ seen' = FALSE /\ failure' = FALSE
  /\ UNCHANGED <<row, outside, crashes, sent>>

Retire ==
  /\ Complete("settled") /\ ~claim.relocate /\ SourceAbsent /\ UNCHANGED sampler

\* before_wake_request
MarkWake ==
  /\ pc = "settled" /\ claim.relocate /\ claim.stage = "settled" /\ SourceAbsent
  /\ Mark("settled", "waking", "wake", "waking")
SendWake == Send("waking", "wake sent", "wake")

\* after_wake_request: the answer counts for the instance bound to the claim.
WakeAnswers ==
  /\ Goto("wake sent", "woken") /\ "wake" \notin jobs /\ swap = "ready"
  /\ claim.stage = "destination" /\ unit = claim.destination
  /\ claim' = [claim EXCEPT !.acknowledged = @ \cup {"wake"}] /\ seen' = FALSE
  /\ Boundary
  /\ UNCHANGED <<row, outside, failure, crashes, sent>>

\* _observe_destination: two rounds, each between two probes of the instance.
ObserveDestination ==
  /\ FreshRound /\ DestinationReady
  /\ \/ ~seen /\ seen' = TRUE /\ UNCHANGED <<durable, outside, pc, failure, crashes, sent>>
     \/ seen /\ Complete(pc)

Relocated == pc = "woken" /\ ObserveDestination

\* A check, a deadline or an answer fails; a stop that was not marked is undone.
Fail ==
  /\ pc # "idle" /\ pc' = "idle" /\ seen' = FALSE /\ failure' = FALSE
  /\ \/ claim # None /\ claim.stage = "claimed" /\ claim.submitted = {} /\ claim' = None
     \/ UNCHANGED claim
  /\ UNCHANGED <<row, outside, sampler, crashes, sent>>

-----------------------------------------------------------------------------
(* Restart *)

Crash ==
  /\ crashes < MaxCrashes /\ crashes' = crashes + 1
  /\ pc' = "idle" /\ seen' = FALSE /\ failure' = FALSE
  /\ round' = None /\ sample' = None
  /\ UNCHANGED <<durable, outside, sent>>

\* run_once with a claim in the ledger: it is observed, whoever left it.
Resume ==
  /\ pc = "idle" /\ claim # None /\ ClaimHolds /\ pc' = "resuming"
  /\ seen' = FALSE /\ Boundary
  /\ UNCHANGED <<durable, outside, failure, crashes, sent>>

ResumeAborts ==
  /\ pc = "resuming" /\ claim.stage = "claimed" /\ claim.submitted = {}
  /\ Complete("resuming") /\ UNCHANGED sampler

\* Bug: only a stop that was acknowledged gives the account back.
ResumeReleasesAcknowledged ==
  /\ pc = "resuming" /\ claim.stage = "claimed" /\ "stop" \in claim.acknowledged
  /\ FreshRound /\ Goto("resuming", "idle")
  /\ IF SourceAbsent THEN ReleaseSource ELSE UNCHANGED durable
  /\ UNCHANGED <<outside, seen, failure, crashes, sent>>

\* Bug: an old claim releases the account of its source on a stopped proxy.
ResumeReleasesOnProxy ==
  /\ pc = "resuming" /\ claim.stage = "claimed" /\ claim.submitted # {}
  /\ FreshRound /\ Goto("resuming", "idle")
  /\ IF sample.swap = "stopped" THEN ReleaseSource ELSE UNCHANGED durable
  /\ UNCHANGED <<outside, seen, failure, crashes, sent>>

ResumeReleases ==
  /\ pc = "resuming" /\ claim.stage = "claimed" /\ claim.submitted # {}
  /\ FreshRound /\ Goto("resuming", "idle")
  /\ IF SourceAbsent THEN ReleaseSource ELSE UNCHANGED durable
  /\ UNCHANGED <<outside, seen, failure, crashes, sent>>

ResumeSettles ==
  /\ pc = "resuming" /\ claim.stage \in {"released", "settled"} /\ "unload" \in claim.acknowledged
  /\ FreshRound /\ ProxySettled
  /\ IF ~seen THEN seen' = TRUE /\ UNCHANGED <<pc, claim>>
     ELSE /\ pc' = "idle" /\ seen' = FALSE
          /\ claim' = IF claim.relocate THEN [claim EXCEPT !.stage = "settled"] ELSE None
  /\ UNCHANGED <<row, outside, failure, crashes, sent>>

ResumeRelocates ==
  /\ pc = "resuming" /\ claim.stage = "destination" /\ "wake" \in claim.acknowledged
  /\ ObserveDestination

Observing == ResumeAborts \/ ResumeReleases \/ ResumeSettles \/ ResumeRelocates

Environment ==
  \/ ClientRequest \/ SwapReady \/ SwapGivesUp \/ SwapUnloads \/ UnitExits
  \/ StopExecutes \/ UnloadExecutes \/ WakeExecutes \/ CommandLost
  \/ \E l \in LeaseIds : Place(l) \/ Confirm(l) \/ Release(l)

Recovering ==
  \/ \E l \in LeaseIds : ClaimSource(l)
  \/ MarkStop \/ SendStop \/ StopAnswers \/ StopFails \/ ObserveSource
  \/ MarkUnload \/ SendUnload \/ UnloadAnswers \/ Settle \/ Retire
  \/ MarkWake \/ SendWake \/ WakeAnswers \/ Relocated
  \/ Fail

Next ==
  \/ Environment \/ RoundBegin \/ RoundPublish
  \/ Recovering \/ Crash \/ Resume \/ Observing

Spec == Init /\ [][Next]_vars

\* A pass over an old claim ends without the round it waited for.
GivesUp == pc = "resuming" /\ pc' = "idle" /\ UNCHANGED <<claim, sampler>>

\* Rounds go on, the worker runs again and again and ends every pass at its
\* deadline, and the rounds do not miss that deadline for ever.
Fairness ==
  /\ WF_vars(RoundBegin) /\ WF_vars(RoundPublish)
  /\ WF_vars(Resume) /\ WF_vars(ResumeAborts) /\ WF_vars(ResumeReleases)
  /\ WF_vars(pc # "resuming" /\ Fail)
  /\ <>[][~GivesUp]_vars

FairSpec == Spec /\ Fairness

-----------------------------------------------------------------------------
(* Properties *)

\* An account whose claim or reconciliation releases it has no instance left:
\* the budget of a GPU is given back only when its process is gone.
ReleasedWhenGone == \A l \in LeaseIds : row[l] = "released" => unit # l

\* No stop, unload or cold request is sent twice for one claim, whatever
\* crashes and failed answers lie between.
OnceEach == \A l \in LeaseIds, c \in Commands : sent[l][c] <= 1

\* A command that may still take effect belongs to a claim that still fences
\* the model, and a late stop or unload can meet no instance but the one it was
\* meant for.
NoStaleCommand ==
  /\ jobs # {} => claim # None
  /\ jobs \cap {"stop", "unload"} # {} => unit \in {None, claim.source}

\* While a claim is open every open account of the model is one of its two, and
\* never both: a client that comes first gets no account of its own, and the
\* source is charged until the destination is granted.
BoundAccounts ==
  claim # None => \A l \in LeaseIds : Open(l) =>
    l = (IF claim.stage = "claimed" THEN claim.source ELSE claim.destination)

\* Every record the worker writes passes the ledger's own validation: no effect is
\* left behind by a step whose record the ledger would refuse.
ClaimValid == claim # None => Valid(claim)

\* What a claim promises, whatever crashes and failed answers lie behind.
RecoverySafe ==
  TypeOK /\ ReleasedWhenGone /\ OnceEach /\ NoStaleCommand /\ BoundAccounts /\ ClaimValid

\* After a crash or a failed pass a source that is gone gives its account back,
\* and a claim that sent nothing ends.
ClaimMovesOn ==
  (claim # None /\ claim.stage = "claimed" /\ unit = None) ~> (claim = None \/ claim.stage # "claimed")
=============================================================================
