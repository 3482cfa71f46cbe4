--------------------------- MODULE FaultRecovery ---------------------------
(***************************************************************************)
(* Fault recovery of one managed model (llmsvc/faults.py): evidence that   *)
(* the instance of a confirmed account failed becomes a durable claim, the *)
(* unit is stopped, its account released after two fresh rounds and a      *)
(* probe show it gone, and llama-swap told once to unload the model. The   *)
(* scheduler may crash between any two writes; ordinary stops, placement   *)
(* and lease reconciliation go on beside it.                               *)
(*                                                                         *)
(* The lease protocol is the one of Leases with a launcher that starts its *)
(* unit in time: a grant and its start are one step (Place). A unit has    *)
(* Restart=no, so an account has one instance and stands for its           *)
(* InvocationID. A stale account behaves here like a pending one.          *)
(***************************************************************************)
EXTENDS Integers, FiniteSets

CONSTANTS
  LeaseIds,    \* the ids of the model's accounts: their number bounds the grants
  MaxCrashes,  \* bound: crashes of the scheduler
  None

VARIABLES
  row,        \* llmsvc_leases: status of each account of the model
  claim,      \* llmsvc_faults: the claim that is not complete, or None
  unit,       \* systemd: the model's unit
  swap,       \* llama-swap's state of the model
  unloads,    \* unload requests llama-swap received and has not executed, by lease
  launching,  \* the account whose vllm-launch is still alive, or None
  round,      \* the collector round under way, or None
  sample,     \* the published round, or None when there is none that can be used
  pc,         \* where the fault worker is
  look,       \* what it remembers of its probes and rounds
  evidence,   \* FaultDetector: the account whose instance was seen serving, or None
  expected,   \* expected_stops: the account an ordinary stop was meant for
  pending,    \* an ordinary stop is still observed (controller.pending)
  reconciling,\* the account a reconcile probe saw without a process, or None
  crashes,
  ordered,    \* history: accounts whose instance an ordinary stop did stop
  sent,       \* history: unload requests sent for each account
  found       \* history: confirmed accounts the last restart found without a unit

durable == <<row, claim>>
outside == <<unit, swap, unloads, launching>>
worker == <<pc, look>>
detector == <<evidence, expected, pending>>
history == <<ordered, sent, found>>
vars == <<durable, outside, round, sample, worker, detector, reconciling, crashes, history>>

-----------------------------------------------------------------------------
(* State *)

OpenStatus == {"pending", "confirmed"}
Phases == {"loading", "serving", "failed", "stopping"}
\* The units are collected: one without processes is not loaded any more.
NoUnit == [phase |-> "absent", lease |-> None]
Unit == {NoUnit} \cup [phase : Phases, lease : LeaseIds]
Claim == [lease : LeaseIds, stage : {"claimed", "released"},
          submitted : BOOLEAN, acknowledged : BOOLEAN]
\* What the contract sees of a claim.
Fences == [lease : LeaseIds, stage : {"claimed", "freed", "submitted", "answered"}]
ASSUME FaultAssumption == MaxCrashes \in Nat /\ None \notin LeaseIds \cup Claim \cup Fences

UnitStates == {"active", "failed", "stopped"}
SwapStates == {"stopped", "starting", "ready"}
Round == [unit : UnitStates, swap : SwapStates, wanted : BOOLEAN]
\* mark: the round answers the worker's request, and the worker has read it.
Sample == [unit : UnitStates, healthy : BOOLEAN, swap : SwapStates,
           mark : {"other", "wanted", "taken"}]
\* lease: the account that is observed; after: the unit after the round; absent:
\* the last round showed it gone; proxy: llama-swap is waited for as well.
Look == [lease : LeaseIds \cup {None}, after : Unit, absent : BOOLEAN, proxy : BOOLEAN]
LockedSteps == {"claiming", "stopping", "marking", "sending", "sent", "acknowledging"}
Steps == LockedSteps \cup {"idle", "watching", "watched", "proven", "clean", "waiting",
                           "waited", "releasing", "completing"}

TypeOK ==
  /\ row \in [LeaseIds -> {"none", "released"} \cup OpenStatus]
  /\ claim \in Claim \cup {None}
  /\ unit \in Unit
  /\ swap \in SwapStates /\ unloads \subseteq LeaseIds
  /\ launching \in LeaseIds \cup {None}
  /\ round \in Round \cup {None} /\ sample \in Sample \cup {None}
  /\ pc \in Steps /\ look \in Look
  /\ evidence \in LeaseIds \cup {None}
  /\ expected \in LeaseIds \cup {None} /\ pending \in BOOLEAN
  /\ reconciling \in LeaseIds \cup {None}
  /\ crashes \in 0..MaxCrashes
  /\ ordered \subseteq LeaseIds /\ sent \in [LeaseIds -> Nat]
  /\ found \subseteq LeaseIds

NoLook == [lease |-> None, after |-> NoUnit, absent |-> FALSE, proxy |-> FALSE]

Init ==
  /\ row = [l \in LeaseIds |-> "none"] /\ claim = None
  /\ unit = NoUnit
  /\ swap = "stopped" /\ unloads = {} /\ launching = None
  /\ round = None /\ sample = None
  /\ pc = "idle" /\ look = NoLook
  /\ evidence = None /\ expected = None /\ pending = FALSE
  /\ reconciling = None /\ crashes = 0
  /\ ordered = {} /\ sent = [l \in LeaseIds |-> 0] /\ found = {}

Open(l) == row[l] \in OpenStatus
\* The worker holds action_lock: no other handler decides and no round is published.
Locked == pc \in LockedSteps
Active(u) == u.phase \in {"loading", "serving"}
Absent(u) == u.phase = "absent"

\* Bug: a stop of a unit that is gone counts as one that is under way.
StoppedAlways(u) == [u EXCEPT !.phase = "stopping"]

Stopped(u) == IF Absent(u) THEN u ELSE [u EXCEPT !.phase = "stopping"]
SampleSays(state) == sample # None /\ sample.unit = state

-----------------------------------------------------------------------------
(* llama-swap, the launcher and systemd *)

\* A client request: llama-swap starts the model, which runs vllm-launch.
Request ==
  /\ swap = "stopped" /\ swap' = "starting"
  /\ UNCHANGED <<durable, unit, unloads, launching, round, sample, worker,
                 detector, reconciling, crashes, history>>

\* Bug: a request is placed while the model has a claim.
FreeOfAccounts == \A k \in LeaseIds : ~Open(k)

\* Neither a claim nor an account fences the model.
Unfenced == claim = None /\ \A k \in LeaseIds : ~Open(k)

\* POST /v1/place, and the launcher starts the unit.
Place(l) ==
  /\ ~Locked /\ swap = "starting" /\ launching = None
  /\ Unfenced /\ Absent(unit) /\ SampleSays("stopped")
  /\ row[l] = "none"
  /\ row' = [row EXCEPT ![l] = "pending"]
  /\ unit' = [phase |-> "loading", lease |-> l] /\ launching' = l
  /\ UNCHANGED <<claim, swap, unloads, round, sample, worker, detector, reconciling,
                 crashes, history>>

\* The launcher ends: it got no place, has confirmed or released, or was killed.
LauncherEnds ==
  /\ launching # None /\ launching' = None
  /\ UNCHANGED <<durable, unit, swap, unloads, round, sample, worker, detector,
                 reconciling, crashes, history>>

SwapMoves(from, guard, to) ==
  /\ swap = from /\ guard /\ swap' = to
  /\ UNCHANGED <<durable, unit, unloads, launching, round, sample, worker,
                 detector, reconciling, crashes, history>>

SwapReady == SwapMoves("starting", unit.phase = "serving", "ready")
SwapGivesUp == SwapMoves("starting", launching = None, "stopped")
SwapNotices == SwapMoves("ready", Absent(unit), "stopped")

UnitMoves(from, to) ==
  /\ unit.phase \in from
  /\ unit' = IF to = "absent" THEN NoUnit ELSE [unit EXCEPT !.phase = to]
  /\ UNCHANGED <<durable, swap, unloads, launching, round, sample, worker,
                 detector, reconciling, crashes, history>>

UnitServes == UnitMoves({"loading"}, "serving")
UnitSick == UnitMoves({"serving"}, "loading")
UnitFails == UnitMoves({"loading", "serving"}, "failed")
UnitExits == UnitMoves(Phases, "absent")

\* llama-swap executes an unload it received; the worker that still waits for
\* the answer may get it.
UnloadExecutes(l) ==
  /\ l \in unloads /\ unloads' = unloads \ {l}
  /\ swap' = "stopped"
  /\ pc' \in IF pc = "sent" /\ claim.lease = l THEN {pc, "acknowledging"} ELSE {pc}
  /\ UNCHANGED <<durable, unit, launching, round, sample, look, detector,
                 reconciling, crashes, history>>

UnloadRejected(l) ==
  /\ l \in unloads /\ unloads' = unloads \ {l}
  /\ UNCHANGED <<durable, unit, swap, launching, round, sample, worker,
                 detector, reconciling, crashes, history>>

-----------------------------------------------------------------------------
(* The sampler: units and llama-swap are read first, the daemons afterwards *)

UnitState == IF Absent(unit) THEN "stopped" ELSE IF unit.phase = "failed" THEN "failed" ELSE "active"

\* The worker has asked for a round and no round that began since is published.
Waits == pc \in {"watching", "waiting"}

RoundBegin ==
  /\ round = None
  /\ round' = [unit |-> UnitState, swap |-> swap, wanted |-> Waits]
  /\ UNCHANGED <<durable, outside, sample, worker, detector, reconciling, crashes, history>>

\* A publication outdates the probes of reconcile. Only an awake daemon of a
\* model llama-swap calls ready counts as healthy.
RoundPublish ==
  /\ round # None /\ ~Locked
  /\ round' = None /\ reconciling' = None
  /\ \E answer \in BOOLEAN :
       /\ answer => unit.phase \in {"serving", "stopping"}
       /\ unit.phase = "serving" => answer
       /\ sample' = [unit |-> round.unit, healthy |-> answer /\ round.unit = "active",
                     swap |-> round.swap, mark |-> IF round.wanted /\ Waits THEN "wanted" ELSE "other"]
  /\ UNCHANGED <<durable, outside, worker, detector, crashes, history>>

\* Published with errors or without a source time, or too old by now.
RoundFails ==
  /\ ~Locked /\ (round # None \/ sample # None)
  /\ round' = None /\ sample' = None /\ reconciling' = None
  /\ UNCHANGED <<durable, outside, worker, detector, crashes, history>>

\* The worker asks for a round: the one under way does not count.
Ask ==
  /\ round' = IF round = None THEN None ELSE [round EXCEPT !.wanted = FALSE]
  /\ sample' = IF sample = None THEN None ELSE [sample EXCEPT !.mark = "other"]

TakenIsPublished == sample # None /\ sample.mark = "taken"

-----------------------------------------------------------------------------
(* Leases: confirm, release and reconcile, fenced by the claim *)

\* Bug: the ledger accepts a transition while the model has a claim.
ToReleasedUnfenced(l) == row' = [row EXCEPT ![l] = "released"]

\* store.transition_lease refuses every write while the model has a claim.
ToReleased(l) == claim = None /\ row' = [row EXCEPT ![l] = "released"]

Confirm(l) ==
  /\ ~Locked /\ claim = None
  /\ row[l] = "pending" /\ Active(unit) /\ unit.lease = l
  /\ sample # None /\ sample.healthy
  /\ row' = [row EXCEPT ![l] = "confirmed"]
  /\ UNCHANGED <<claim, outside, round, sample, worker, detector, reconciling, crashes, history>>

\* The launcher of the account saw its unit exit.
FinishRelease(l) ==
  /\ ~Locked /\ launching = l /\ Open(l)
  /\ Absent(unit) /\ SampleSays("stopped")
  /\ ToReleased(l)
  /\ launching' = None
  /\ UNCHANGED <<claim, unit, swap, unloads, round, sample, worker, detector,
                 reconciling, crashes, history>>

\* hold_account: an exit nobody ordered is left to the worker.
Held(l) == row[l] = "confirmed" /\ expected # l

\* The fence and the hold are read before the probe, and not again after it.
ReconcileProbe(l) ==
  /\ ~Locked /\ reconciling = None
  /\ Open(l) /\ claim = None /\ ~Held(l) /\ Absent(unit)
  /\ reconciling' = l
  /\ UNCHANGED <<durable, outside, round, sample, worker, detector, crashes, history>>

ReconcileRelease ==
  /\ ~Locked /\ reconciling # None /\ reconciling' = None
  /\ SampleSays("stopped")
  /\ Open(reconciling) /\ ToReleased(reconciling)
  /\ UNCHANGED <<claim, outside, round, sample, worker, detector, crashes, history>>

-----------------------------------------------------------------------------
(* Ordinary stops of the model controller *)

\* note_expected: the evidence is dropped before the stop is submitted.
Note(l) == expected' = l /\ evidence' = None

OrdinaryStop(l) ==
  /\ ~Locked /\ claim = None /\ ~pending
  /\ row[l] = "confirmed" /\ Active(unit) /\ unit.lease = l /\ SampleSays("active")
  /\ Note(l) /\ pending' = TRUE
  /\ unit' \in {unit, Stopped(unit)}  \* the submission may fail
  /\ ordered' = IF unit' = unit THEN ordered ELSE ordered \cup {unit.lease}
  /\ UNCHANGED <<durable, swap, unloads, launching, round, sample, worker,
                 reconciling, crashes, sent, found>>

OrdinaryStopEnds ==
  /\ pending /\ pending' = FALSE
  /\ UNCHANGED <<durable, outside, round, sample, worker, evidence, expected,
                 reconciling, crashes, history>>

-----------------------------------------------------------------------------
(* The worker observes (run_once, _observations) *)

Drop == evidence' = None

\* A probe, then a round that begins after it. Of one account both probes see the
\* same instance, so the first is not kept.
ObserveBegin(l) ==
  /\ pc = "idle" /\ claim = None /\ row[l] = "confirmed"
  /\ pc' = "watching"
  /\ look' = [NoLook EXCEPT !.lease = l]
  /\ Ask
  /\ UNCHANGED <<durable, outside, detector, reconciling, crashes, history>>

\* The fresh round, and a probe after it.
TakeRound ==
  /\ Waits /\ sample # None /\ sample.mark = "wanted"
  /\ sample' = [sample EXCEPT !.mark = "taken"]
  /\ look' = [look EXCEPT !.after = unit]
  /\ pc' = IF pc = "watching" THEN "watched" ELSE "waited"
  /\ UNCHANGED <<durable, outside, round, detector, reconciling, crashes, history>>

\* The probe and the round tell of one instance of the account, unchanged since.
Usable ==
  LET u == look.after IN
    /\ TakenIsPublished /\ row[look.lease] = "confirmed" /\ ~pending
    /\ u.phase # "stopping"
    /\ ~Absent(u) => u.lease = look.lease

\* The instance is gone or failed after it was seen serving.
ObserveExit ==
  LET u == look.after IN
    /\ sample.unit # "active" /\ UNCHANGED expected
    /\ \/ /\ Absent(u) /\ UNCHANGED evidence
          /\ pc' = IF evidence = look.lease THEN "proven" ELSE "idle"
       \/ /\ u.phase = "failed"
          /\ IF evidence = look.lease THEN pc' = "proven" /\ UNCHANGED evidence
                                       ELSE pc' = "idle" /\ Drop

ObserveHealthy ==
  /\ Active(look.after) /\ sample.unit = "active" /\ sample.healthy /\ sample.swap = "ready"
  /\ evidence' = look.lease /\ expected' = None
  /\ pc' = "idle"

\* Health failures or a mismatch of states: enough of them in a row are a proof.
ObserveUnhealthy ==
  /\ Active(look.after) /\ sample.unit = "active" /\ ~(sample.healthy /\ sample.swap = "ready")
  /\ IF evidence = look.lease
     THEN /\ pc' \in {"idle", "proven"} /\ UNCHANGED evidence
          /\ expected' = IF sample.healthy THEN None ELSE expected
     ELSE pc' = "idle" /\ Drop /\ UNCHANGED expected

\* The two do not agree, or are not of one instance of the account.
ObserveNothing ==
  /\ Usable => Active(look.after) # (sample.unit = "active")
  /\ Drop /\ UNCHANGED expected /\ pc' = "idle"

Observe ==
  /\ pc = "watched"
  /\ ObserveNothing \/ (Usable /\ (ObserveExit \/ ObserveHealthy \/ ObserveUnhealthy))
  /\ look' = NoLook
  /\ UNCHANGED <<durable, outside, round, sample, pending, reconciling, crashes, history>>

-----------------------------------------------------------------------------
(* The worker claims and stops (_begin), holding action_lock *)

\* _identity_matches: the unit is gone or the very instance of the account.
Matches(l, u) == Absent(u) \/ (u.phase # "stopping" /\ u.lease = l)

BeginProbe ==
  /\ pc = "proven" /\ evidence # None
  /\ TakenIsPublished /\ Matches(evidence, unit)
  /\ pc' = "claiming" /\ look' = [look EXCEPT !.after = unit]
  /\ UNCHANGED <<durable, outside, round, sample, detector, reconciling, crashes, history>>

\* Durable before the stop; a deadline may pass and the stop be left out.
BeginClaim ==
  /\ pc = "claiming" /\ claim = None /\ row[evidence] = "confirmed"
  /\ claim' = [lease |-> evidence, stage |-> "claimed", submitted |-> FALSE,
               acknowledged |-> FALSE]
  /\ pc' \in IF Absent(look.after) THEN {"clean"} ELSE {"stopping", "clean"}
  /\ look' = NoLook
  /\ UNCHANGED <<row, outside, round, sample, detector, reconciling, crashes, history>>

BeginStop ==
  /\ pc = "stopping" /\ pc' = "clean"
  /\ unit' \in {unit, Stopped(unit)}
  /\ UNCHANGED <<durable, swap, unloads, launching, round, sample, look,
                 detector, reconciling, crashes, history>>

-----------------------------------------------------------------------------
(* The worker cleans up (_cleanup, _wait_absence) *)

\* Bug: a claim whose account is released is not taken up again.
ResumesClaimed == claim # None /\ claim.stage = "claimed"

\* An unload whose outcome is unknown is never followed by anything.
Resumes == claim # None /\ (claim.submitted => claim.acknowledged)

\* Of a claim found at the begin of a cycle the unit is only observed.
CleanupBegin ==
  /\ pc = "idle" /\ Resumes
  /\ claim.stage = "claimed" => Absent(unit)
  /\ pc' = "clean" /\ look' = NoLook
  /\ UNCHANGED <<durable, outside, round, sample, detector, reconciling, crashes, history>>

\* _claim_current: the account has the status the stage says and is the only one.
ClaimCurrent ==
  /\ claim # None
  /\ row[claim.lease] = IF claim.stage = "claimed" THEN "confirmed" ELSE "released"
  /\ \A l \in LeaseIds : Open(l) => l = claim.lease

WaitRound ==
  /\ pc = "clean" /\ ClaimCurrent
  /\ pc' = "waiting" /\ Ask
  /\ UNCHANGED <<durable, outside, look, detector, reconciling, crashes, history>>

\* Bug: the round is believed without the probe.
RoundShowsExit == sample.unit # "active" /\ (look.proxy => sample.swap = "stopped")

\* The round shows no active unit and the probe no process.
ShowsAbsence ==
  sample.unit # "active" /\ Absent(look.after) /\ (look.proxy => sample.swap = "stopped")

\* Two rounds in succession have to show it.
WaitApply ==
  /\ pc = "waited" /\ ClaimCurrent /\ Matches(claim.lease, look.after)
  /\ IF TakenIsPublished /\ ShowsAbsence /\ look.absent
     THEN pc' = (IF look.proxy THEN "completing" ELSE "releasing") /\ UNCHANGED look
     ELSE pc' = "clean" /\ look' = [look EXCEPT !.absent = TakenIsPublished /\ ShowsAbsence]
  /\ UNCHANGED <<durable, outside, round, sample, detector, reconciling, crashes, history>>

\* Account and claim move in one transaction.
ReleaseAccount ==
  /\ pc = "releasing" /\ ClaimCurrent /\ TakenIsPublished
  /\ row' = [row EXCEPT ![claim.lease] = "released"]
  /\ claim' = [claim EXCEPT !.stage = "released"]
  /\ pc' = "marking"
  /\ UNCHANGED <<outside, round, sample, look, detector, reconciling, crashes, history>>

ProxyWait == pc' = "clean" /\ look' = [NoLook EXCEPT !.proxy = TRUE]

\* Bug: the submission is not written before the request.
NotWritten(c) == c

Submitted(c) == [c EXCEPT !.submitted = TRUE]

\* The submission is durable before the request; an acknowledged one is not sent again.
MarkSubmission ==
  /\ pc = "marking" /\ ClaimCurrent /\ Absent(unit)
  /\ IF claim.submitted
     THEN ProxyWait /\ UNCHANGED claim
     ELSE pc' = "sending" /\ claim' = Submitted(claim) /\ UNCHANGED look
  /\ UNCHANGED <<row, outside, round, sample, detector, reconciling, crashes, history>>

SendUnload ==
  /\ pc = "sending" /\ pc' = "sent"
  /\ unloads' = unloads \cup {claim.lease}
  /\ sent' = [sent EXCEPT ![claim.lease] = @ + 1]
  /\ UNCHANGED <<durable, unit, swap, launching, round, sample, look, detector,
                 reconciling, crashes, ordered, found>>

\* Bug: a request without an answer counts as acknowledged.
AnsweredOrNot == pc \in {"sent", "acknowledging"}

\* llama-swap answers an unload after it has executed it.
Answered == pc = "acknowledging"

Acknowledge ==
  /\ Answered /\ ClaimCurrent /\ Absent(unit)
  /\ claim' = [claim EXCEPT !.acknowledged = TRUE]
  /\ ProxyWait
  /\ UNCHANGED <<row, outside, round, sample, detector, reconciling, crashes, history>>

Complete ==
  /\ pc = "completing" /\ ClaimCurrent /\ TakenIsPublished /\ Absent(unit)
  /\ claim.acknowledged
  /\ claim' = None /\ pc' = "idle" /\ look' = NoLook
  /\ Drop /\ expected' = None
  /\ UNCHANGED <<row, outside, round, sample, pending, reconciling, crashes, history>>

\* A newer round, an ordinary stop or a unit that is neither gone nor the instance
\* of the claim ends the cycle.
CycleRefused ==
  /\ \/ pc \in {"proven", "releasing", "completing"} /\ ~TakenIsPublished
     \/ pc = "proven" /\ (evidence = None \/ ~Matches(evidence, unit))
     \/ pc = "waited" /\ ~Matches(claim.lease, look.after)
  /\ pc' = "idle" /\ look' = NoLook
  /\ IF pc = "proven" THEN Drop ELSE UNCHANGED evidence
  /\ UNCHANGED <<durable, outside, round, sample, expected, pending, reconciling, crashes, history>>

\* A deadline, a probe that tells nothing or of another instance, a lost answer.
\* Before the claim the volatile evidence goes with it.
WorkerFails ==
  /\ pc # "idle" /\ pc' = "idle" /\ look' = NoLook
  /\ IF claim = None THEN Drop ELSE UNCHANGED evidence
  /\ UNCHANGED <<durable, outside, round, sample, expected, pending, reconciling, crashes, history>>

\* The scheduler dies and starts again: the ledger and the outside stay.
Crash ==
  /\ crashes < MaxCrashes /\ crashes' = crashes + 1
  /\ round' = None /\ sample' = None /\ reconciling' = None
  /\ pc' = "idle" /\ look' = NoLook
  /\ Drop /\ expected' = None /\ pending' = FALSE
  /\ found' = {l \in LeaseIds : row[l] = "confirmed" /\ Absent(unit)}
  /\ UNCHANGED <<durable, outside, ordered, sent>>

-----------------------------------------------------------------------------
Environment ==
  \/ Request \/ LauncherEnds \/ SwapReady \/ SwapGivesUp \/ SwapNotices
  \/ UnitServes \/ UnitSick \/ UnitFails \/ UnitExits
  \/ \E l \in LeaseIds : UnloadExecutes(l) \/ UnloadRejected(l)

Accounts ==
  \/ \E l \in LeaseIds : Place(l) \/ Confirm(l) \/ FinishRelease(l) \/ ReconcileProbe(l)
  \/ ReconcileRelease

Sampler == RoundBegin \/ RoundPublish \/ RoundFails

OrdinaryStops == OrdinaryStopEnds \/ \E l \in LeaseIds : OrdinaryStop(l)

Cleanup ==
  \/ CleanupBegin \/ WaitRound \/ WaitApply \/ ReleaseAccount \/ MarkSubmission
  \/ SendUnload \/ Acknowledge \/ Complete

Worker ==
  \/ \E l \in LeaseIds : ObserveBegin(l)
  \/ TakeRound \/ Observe \/ BeginProbe \/ BeginClaim \/ BeginStop
  \/ Cleanup \/ CycleRefused \/ WorkerFails

Next == Environment \/ Accounts \/ Sampler \/ OrdinaryStops \/ Worker \/ Crash

Spec == Init /\ [][Next]_vars

-----------------------------------------------------------------------------
(* Safety *)

\* While a model has a claim its account is the only one, has the status of the
\* claim's stage, and once it is released no process exists until the claim is
\* complete (the claim fences every handler of faults.py, leases.py and store.py).
Fence ==
  claim # None =>
    /\ row[claim.lease] = IF claim.stage = "claimed" THEN "confirmed" ELSE "released"
    /\ \A l \in LeaseIds \ {claim.lease} : ~Open(l)
    /\ claim.stage = "released" => Absent(unit)

\* A claim sends at most one unload, whatever crashes, is lost or is refused
\* (the write-ahead mark of _cleanup).
OneUnload == \A l \in LeaseIds : sent[l] <= 1

\* An unload that llama-swap may still execute belongs to the present claim, so
\* it never stops a replacement of the model (_cleanup never completes or resumes
\* a claim whose unload has an unknown outcome).
NoUnloadOutlivesClaim ==
  unloads # {} => /\ claim # None /\ unloads = {claim.lease}
                  /\ claim.submitted /\ ~claim.acknowledged

\* The inductive invariant of the proofs: what an account, the worker at each of
\* its steps, reconcile and the requests under way may rely on (_claim_current,
\* _wait_absence and the write-ahead mark, across every crash).
AccountInv ==
  /\ \A k, l \in LeaseIds : Open(k) /\ Open(l) => k = l
  /\ \A l \in LeaseIds : Open(l) => unit.lease \in {l, None}
  /\ reconciling # None => /\ row[reconciling] # "none"
                           /\ Open(reconciling) => Absent(unit)

WorkerInv ==
  /\ pc \in {"watching", "watched", "proven", "claiming"} => claim = None
  /\ pc \in Steps \ {"idle", "watching", "watched", "proven", "claiming"} => claim # None
  /\ pc = "claiming" => evidence # None
  /\ pc = "waited" /\ Absent(look.after) => Absent(unit)
  /\ look.absent => claim # None /\ Absent(unit)
  /\ pc \in {"releasing", "completing"} => Absent(unit)
  /\ pc \in {"marking", "sending", "sent", "acknowledging"} => claim.stage = "released"

UnloadInv ==
  /\ claim # None => /\ claim.submitted => claim.stage = "released"
                     /\ claim.acknowledged => claim.submitted
                     /\ ~claim.submitted => sent[claim.lease] = 0
  /\ \A l \in LeaseIds : row[l] # "released" => sent[l] = 0
  /\ pc \in {"sending", "sent", "acknowledging"} => claim.submitted /\ ~claim.acknowledged
  /\ pc = "sending" => sent[claim.lease] = 0
  /\ pc \in {"sent", "acknowledging"} => sent[claim.lease] = 1
  /\ pc \in {"sending", "acknowledging"} => unloads = {}

FaultInv == /\ Fence /\ OneUnload /\ NoUnloadOutlivesClaim
            /\ AccountInv /\ WorkerInv /\ UnloadInv

\* The budget of a confirmed account comes back, from the worker, reconcile or the
\* launcher, only when the process is gone (_wait_absence, LeaseController._exited).
ConfirmedReleasedWhenGone ==
  [][\A l \in LeaseIds : row[l] = "confirmed" /\ row'[l] = "released" => Absent(unit)]_vars

\* Fault recovery implements its contract.
Stage(c) ==
  IF c.acknowledged THEN "answered" ELSE IF c.submitted THEN "submitted"
  ELSE IF c.stage = "released" THEN "freed" ELSE "claimed"

Contract == INSTANCE FaultContract WITH
  process <- unit.lease,
  fence <- IF claim = None THEN None ELSE [lease |-> claim.lease, stage |-> Stage(claim)],
  request <- unloads,
  asked <- {l \in LeaseIds : sent[l] > 0}

\* With evidence, rounds, probes, crashes and delayed requests, every step is one
\* of the contract or none.
ContractSpec == Contract!Spec

\* FAULTS.md: a normal stop removes the eligibility of the instance it stops, so its
\* exit is never claimed as a fault (note_expected, _observations).
OrderedNotClaimed == claim # None => claim.lease \notin ordered

-----------------------------------------------------------------------------
(* Liveness *)

Fairness ==
  /\ WF_vars(RoundBegin) /\ WF_vars(RoundPublish)
  /\ WF_vars(\E l \in LeaseIds : ObserveBegin(l))
  /\ WF_vars(TakeRound) /\ WF_vars(Observe) /\ WF_vars(BeginProbe)
  /\ WF_vars(BeginClaim) /\ WF_vars(BeginStop)
  /\ WF_vars(Cleanup) /\ WF_vars(CycleRefused)
  /\ WF_vars(\E l \in LeaseIds : ReconcileProbe(l)) /\ WF_vars(ReconcileRelease)
  /\ WF_vars(SwapGivesUp) /\ WF_vars(LauncherEnds)

FairSpec == Spec /\ Fairness

\* From some moment on the rounds are good and leave the worker the time to use
\* one before the next, no call fails, and no client asks for the model.
Calm ==
  <>[][/\ ~Request /\ ~RoundFails
       /\ WorkerFails => Observe \/ CycleRefused
       /\ RoundPublish => ~TakenIsPublished \/ pc \in {"idle", "watching", "waiting", "clean"}]_vars

\* A claim whose process is gone does not stay for ever, across a crash at any
\* point: it completes, or it ends in the unknown outcome of its unload (_cleanup).
ClaimResolves ==
  Calm => ((claim # None /\ Absent(unit)) ~>
             (claim = None \/ (claim.submitted /\ ~claim.acknowledged)))

\* DESIGN.md section 5 item 7: a restart releases the accounts it finds without a
\* unit (hold_account keeps them for a proof that cannot come any more).
RestartReleases == Calm => \A l \in LeaseIds : (l \in found) ~> (row[l] # "confirmed")
=============================================================================
