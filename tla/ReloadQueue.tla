---------------------------- MODULE ReloadQueue ----------------------------
(***************************************************************************)
(* The queue of configuration changes (llmsvc/reload.py). A change is a    *)
(* transform; it is validated when it is queued and again at its turn,     *)
(* written beside the file, announced by a durable marker, put in place    *)
(* and confirmed. Until the marker is retired every other change is fenced.*)
(* The scheduler may stop, and the power fail, between any two steps; what *)
(* was not synchronised then may be lost. Other writers append to the file.*)
(***************************************************************************)
EXTENDS Sequences, SequencesExt, FiniteSets

CONSTANTS
  Jobs,        \* requests; each appends itself to the file
  Maintenance, \* those that also stop and start services
  Foreign,     \* edits of other writers
  Conflicts,   \* sets of edits that the validator refuses together
  MaxCrashes,
  None

VARIABLES
  file, fileDisk,     \* the configuration: as seen, and as a power failure leaves it
  marker, markerDisk, \* <path>.llmsvc-pending
  latch,              \* _completion_marker
  pending, status,    \* _pending and the status of each job
  elapsed,            \* jobs whose timeout passed
  busy,               \* requests in flight, a model or a lease in the way
  serving,            \* the configuration llama-swap runs with
  effects,            \* maintenance jobs that touched services
  pc, work,           \* process_once, reconcile: the step and its local data
  unfinished,         \* history: put in place, neither completed nor proved since
  crashes

disk == <<file, fileDisk, marker, markerDisk>>
memory == <<latch, pending, status>>
env == <<elapsed, busy, serving, effects>>
vars == <<disk, memory, env, pc, work, unfinished, crashes>>

Edits == Jobs \cup Foreign
Files == {s \in Seq(Edits) : IsInjective(s)}
In(content) == ToSet(content)
Valid(content) == \A c \in Conflicts : ~(c \subseteq In(content))
Transform(j, content) == Append(content, j)
Markers == [job : Jobs, base : Files, candidate : Files]
Idle == [job |-> None, base |-> <<>>, candidate |-> <<>>]
ReloadAssumption ==
  /\ Maintenance \subseteq Jobs /\ Jobs \cap Foreign = {} /\ None \notin Edits \cup Markers
  /\ Conflicts \subseteq SUBSET Edits /\ MaxCrashes \in Nat
Fenced == latch # None \/ marker # None

TypeOK ==
  /\ file \in Files /\ fileDisk \in Files /\ serving \in Files
  /\ marker \in Markers \cup {None} /\ markerDisk \in Markers \cup {None}
  /\ latch \in Markers \cup {None}
  /\ pending \in {s \in Files : In(s) \subseteq Jobs}
  /\ status \in [Jobs -> {"none", "queued", "applied", "failed", "timed_out",
                          "reconciliation_required", "forgotten"}]
  /\ elapsed \subseteq Jobs /\ busy \in BOOLEAN /\ effects \subseteq Maintenance
  /\ pc \in {"idle", "staged", "compared", "announced", "marked", "prepared", "replaced", "synced",
             "adopted", "retire", "unlinked", "repair", "confirming", "proved", "absent",
             "absence synced"}
  /\ work \in Markers \cup {Idle} /\ unfinished \subseteq Jobs /\ crashes \in 0..MaxCrashes

Init ==
  /\ file = <<>> /\ fileDisk = <<>> /\ marker = None /\ markerDisk = None
  /\ latch = None /\ pending = <<>> /\ status = [j \in Jobs |-> "none"]
  /\ elapsed = {} /\ busy = FALSE /\ serving = <<>> /\ effects = {}
  /\ pc = "idle" /\ work = Idle /\ unfinished = {} /\ crashes = 0

----------------------------------------------------------------------------
(* Queueing. The file with all queued changes must be valid.                *)

Planned == FoldLeft(LAMBDA content, j : Transform(j, content), file, pending)

Enqueues(j) ==
  /\ pc = "idle" /\ ~Fenced /\ status[j] = "none"
  /\ j \in Maintenance => pending = <<>> \* base_sha256 is the digest of the file itself
  /\ j \notin In(Planned) /\ Valid(Transform(j, Planned))
  /\ pending' = Append(pending, j) /\ status' = [status EXCEPT ![j] = "queued"]
  /\ UNCHANGED <<disk, latch, env, pc, work, unfinished, crashes>>

----------------------------------------------------------------------------
(* One change. Each step may fail instead: Fails.                           *)

\* The head leaves the queue with a status.
Leaves(j, outcome) ==
  /\ pending' = Tail(pending) /\ status' = [status EXCEPT ![j] = outcome]
Returns == pc' = "idle" /\ work' = Idle

TimesOut ==
  /\ pc = "idle" /\ pending # <<>> /\ ~Fenced
  /\ Head(pending) \in elapsed /\ Leaves(Head(pending), "timed_out")
  /\ UNCHANGED <<disk, latch, env, pc, work, unfinished, crashes>>

\* Bug: the validation of the submission is relied on.
TakesUnchecked ==
  /\ pc = "idle" /\ pending # <<>> /\ ~Fenced /\ ~busy /\ Head(pending) \notin elapsed
  /\ pc' = "staged"
  /\ work' = [job |-> Head(pending), base |-> file, candidate |-> Transform(Head(pending), file)]
  /\ UNCHANGED <<disk, memory, env, unfinished, crashes>>
Takes ==
  /\ pc = "idle" /\ pending # <<>> /\ ~Fenced
  /\ LET j == Head(pending) IN
     /\ j \notin elapsed /\ ~busy
     /\ IF Valid(Transform(j, file))
        THEN /\ pc' = "staged"
             /\ work' = [job |-> j, base |-> file, candidate |-> Transform(j, file)]
             /\ UNCHANGED <<pending, status>>
        ELSE Leaves(j, "failed") /\ UNCHANGED <<pc, work>>
  /\ UNCHANGED <<disk, latch, env, unfinished, crashes>>

\* Blockers, the timeout and the file are looked at again after validation.
Compares ==
  /\ pc = "staged"
  /\ \/ busy /\ Returns /\ UNCHANGED memory
     \/ ~busy /\ work.job \in elapsed /\ Leaves(work.job, "timed_out") /\ Returns /\ UNCHANGED latch
     \/ ~busy /\ work.job \notin elapsed /\ file = work.base
        /\ pc' = "compared" /\ UNCHANGED <<memory, work>>
  /\ UNCHANGED <<disk, env, unfinished, crashes>>

Announces ==
  /\ pc = "compared" /\ marker = None
  /\ marker' = work /\ pc' = "announced"
  /\ UNCHANGED <<file, fileDisk, markerDisk, memory, env, work, unfinished, crashes>>

\* Bug: the marker's name is not made durable.
SyncsMarkerNot ==
  /\ pc = "announced" /\ pc' = "marked"
  /\ UNCHANGED <<disk, memory, env, work, unfinished, crashes>>
SyncsMarker ==
  /\ pc = "announced" /\ markerDisk' = marker /\ fileDisk' = file /\ pc' = "marked"
  /\ UNCHANGED <<file, marker, memory, env, work, unfinished, crashes>>

\* The last look: the marker is taken back. unlink and fsync are one step
\* here: a marker that comes back announces a change that was not made.
Withdraws ==
  /\ pc = "marked" /\ (busy \/ work.job \in elapsed)
  /\ marker' = None /\ \E m \in {marker, None} : markerDisk' = m
  /\ IF work.job \in elapsed THEN Leaves(work.job, "timed_out") ELSE UNCHANGED <<pending, status>>
  /\ Returns /\ UNCHANGED <<file, fileDisk, latch, env, unfinished, crashes>>

\* A maintenance change acts on services first; the latch is set before.
Prepares ==
  /\ pc = "marked" /\ ~busy /\ work.job \in Maintenance \ elapsed
  /\ latch' = marker /\ effects' = effects \cup {work.job} /\ pc' = "prepared"
  /\ UNCHANGED <<disk, pending, status, elapsed, busy, serving, work, unfinished, crashes>>

\* os.replace. A maintenance change looks once more at the file and the marker.
ReadyToReplace ==
  \/ pc = "marked" /\ ~busy /\ work.job \notin Maintenance \cup elapsed
  \/ pc = "prepared" /\ file = work.base /\ marker = latch

Replaces ==
  /\ ReadyToReplace
  /\ file' = work.candidate /\ unfinished' = unfinished \cup {work.job} /\ pc' = "replaced"
  /\ UNCHANGED <<fileDisk, marker, markerDisk, memory, env, work, crashes>>

SyncsFile ==
  /\ pc = "replaced" /\ fileDisk' = file /\ markerDisk' = marker /\ pc' = "synced"
  /\ UNCHANGED <<file, marker, memory, env, work, unfinished, crashes>>

\* notify_reload confirms that llama-swap runs with the candidate.
Notifies ==
  /\ pc = "synced" /\ In(work.candidate) \subseteq In(serving) /\ pc' = "adopted"
  /\ UNCHANGED <<disk, memory, env, work, unfinished, crashes>>

Completes ==
  /\ pc = "adopted" /\ unfinished' = unfinished \ {work.job} /\ pc' = "retire"
  /\ UNCHANGED <<disk, memory, env, work, crashes>>

\* _retire_marker: latch, unlink, synchronise; the latch goes last.
Unlinks ==
  /\ pc = "retire" /\ marker = work
  /\ latch' = work /\ marker' = None /\ pc' = "unlinked"
  /\ UNCHANGED <<file, fileDisk, markerDisk, pending, status, env, work, unfinished, crashes>>

\* The caller is process_once when its job is the head of the queue.
Own == pending # <<>> /\ Head(pending) = work.job
Retires ==
  /\ pc = "unlinked" /\ markerDisk' = marker /\ fileDisk' = file /\ latch' = None
  /\ IF Own THEN Leaves(work.job, "applied") ELSE UNCHANGED <<pending, status>>
  /\ Returns /\ UNCHANGED <<file, marker, env, unfinished, crashes>>

\* The unlink or its synchronisation failed: the marker is made again, and
\* that may fail as well. The latch stays.
Repairs ==
  /\ pc \in {"retire", "unlinked"}
  /\ latch' = work
  /\ \/ marker = None /\ marker' = work /\ \E m \in {work, None} : markerDisk' = m
     \/ UNCHANGED <<marker, markerDisk>>
  /\ IF Own THEN Leaves(work.job, "reconciliation_required") ELSE UNCHANGED <<pending, status>>
  /\ Returns /\ UNCHANGED <<file, fileDisk, env, unfinished, crashes>>

\* An exception, or a deadline. The marker goes only if nothing was done.
Committed == pc \in {"replaced", "synced", "adopted"}
Untouched == ~Committed /\ work.job \notin effects
Fails ==
  /\ pc \in {"staged", "compared", "announced", "marked", "prepared", "replaced", "synced", "adopted"}
  /\ Leaves(work.job, IF Untouched THEN "failed" ELSE "reconciliation_required")
  /\ IF Untouched /\ marker = work
     THEN marker' = None /\ \E m \in {markerDisk, None} : markerDisk' = m
     ELSE UNCHANGED <<marker, markerDisk>>
  /\ Returns /\ UNCHANGED <<file, fileDisk, latch, env, unfinished, crashes>>

\* The removal of the marker is not synchronised either: the exception leaves
\* process_once, and the job stays at the head, marked failed.
FailsTwice ==
  /\ pc \in {"announced", "marked"} /\ Untouched /\ marker = work
  /\ status' = [status EXCEPT ![work.job] = "failed"]
  /\ marker' = None /\ \E m \in {markerDisk, None} : markerDisk' = m
  /\ Returns /\ UNCHANGED <<file, fileDisk, latch, pending, env, unfinished, crashes>>

----------------------------------------------------------------------------
(* Reconciliation of a marker, and of a receipt whose marker is gone.       *)

\* The file is the candidate, or the base of a maintenance change.
SourceAllowed(m) == file = m.candidate \/ (m.job \in Maintenance /\ file = m.base)
\* The verifier: llama-swap runs with the file as it is.
Proved == In(file) \subseteq In(serving)
\* The receipt the core keeps in its claim: that of the last transaction.
Receipts == {m \in {marker, latch} : m # None}

ReadsRecovery ==
  /\ pc = "idle"
  /\ \E m \in Receipts :
       /\ latch \in {None, m} /\ SourceAllowed(m)
       /\ IF marker # None THEN marker = m /\ pc' = "confirming" ELSE pc' = "absent"
       /\ work' = m
  /\ UNCHANGED <<disk, memory, env, unfinished, crashes>>

\* The proof, then marker and file once more.
Reconciles ==
  /\ pc = "confirming" /\ Proved /\ SourceAllowed(work) /\ marker = work
  /\ unfinished' = unfinished \ {work.job} /\ pc' = "retire"
  /\ UNCHANGED <<disk, memory, env, work, crashes>>

\* confirm_retired_receipt without a marker: the directory is synchronised.
SyncsAbsence ==
  /\ pc = "absent" /\ Proved /\ SourceAllowed(work) /\ marker = None
  /\ markerDisk' = marker /\ fileDisk' = file /\ pc' = "absence synced"
  /\ UNCHANGED <<file, marker, memory, env, work, unfinished, crashes>>
ClearsLatch ==
  /\ pc = "absence synced" /\ SourceAllowed(work) /\ marker = None
  /\ latch' = None /\ unfinished' = unfinished \ {work.job}
  /\ Returns /\ UNCHANGED <<disk, pending, status, env, crashes>>

Refuses ==
  /\ pc \in {"confirming", "absent", "absence synced"} /\ Returns
  /\ UNCHANGED <<disk, memory, env, unfinished, crashes>>

----------------------------------------------------------------------------
(* Everything else.                                                         *)

Adopts == \* llama-swap reloads the file, or the maintenance adapter starts it
  /\ serving # file /\ serving' = file
  /\ UNCHANGED <<disk, memory, elapsed, busy, effects, pc, work, unfinished, crashes>>
Traffic ==
  /\ busy' = ~busy
  /\ UNCHANGED <<disk, memory, elapsed, serving, effects, pc, work, unfinished, crashes>>
Elapses ==
  /\ \E j \in In(pending) \ elapsed : elapsed' = elapsed \cup {j}
  /\ UNCHANGED <<disk, memory, busy, serving, effects, pc, work, unfinished, crashes>>
Edited ==
  /\ \E x \in Foreign \ In(file) : file' = Append(file, x) /\ Valid(file') /\ fileDisk' = file'
  /\ UNCHANGED <<marker, markerDisk, memory, env, pc, work, unfinished, crashes>>

Forgets ==
  /\ latch' = None /\ pending' = <<>>
  /\ status' = [j \in Jobs |-> IF status[j] = "none" THEN "none" ELSE "forgotten"]
  /\ Returns /\ crashes < MaxCrashes /\ crashes' = crashes + 1
Restarts == Forgets /\ UNCHANGED <<disk, env, unfinished>>
\* Each name that was not synchronised may have its old content again.
PowerFails ==
  /\ Forgets
  /\ file' \in {file, fileDisk} /\ fileDisk' = file'
  /\ marker' \in {marker, markerDisk} /\ markerDisk' = marker' /\ serving' = file'
  /\ UNCHANGED <<elapsed, busy, effects, unfinished>>

Processes == Takes \/ TimesOut \/ Compares \/ Announces \/ SyncsMarker \/ Withdraws \/ Prepares
  \/ Replaces \/ SyncsFile \/ Notifies \/ Completes \/ Unlinks \/ Retires \/ Repairs \/ Fails \/ FailsTwice
Recovers == ReadsRecovery \/ Reconciles \/ SyncsAbsence \/ ClearsLatch \/ Refuses
Environment == Adopts \/ Traffic \/ Elapses \/ Edited \/ Restarts \/ PowerFails
Next == (\E j \in Jobs : Enqueues(j)) \/ Processes \/ Recovers \/ Environment
Spec == Init /\ [][Next]_vars
\* The scheduler's loop goes on, llama-swap follows the file, time passes,
\* and at some time steps stop failing and proofs are not refused any more.
Fairness ==
  /\ WF_vars(Processes) /\ WF_vars(Adopts) /\ WF_vars(Elapses)
  /\ WF_vars(ReadsRecovery) /\ WF_vars(Reconciles \/ SyncsAbsence \/ ClearsLatch)
  /\ <>[][~(Fails \/ FailsTwice \/ Repairs \/ Refuses)]_vars
FairSpec == Spec /\ Fairness

----------------------------------------------------------------------------
\* A change that is in the file and neither completed nor proved since
\* keeps every other one out: through failures, restarts and power failures.
UnfinishedFenced == unfinished \cap In(file) # {} => Fenced

\* A change that is reported failed or timed out, and is not taken again, left
\* nothing: not in the file, not on the services.
NoTrace == \A j \in Jobs \ In(pending) : status[j] \in {"failed", "timed_out"} =>
  j \notin In(file) \cup In(fileDisk) \cup effects

\* A change that is reported applied survives a power failure, and its marker
\* does not come back with it.
AppliedDurable == \A j \in Jobs : status[j] = "applied" /\ pc = "idle" /\ j \notin Foreign =>
  /\ j \in In(file) => j \in In(fileDisk)
  /\ markerDisk # None => markerDisk.job # j

\* What the queue puts in place is valid as a whole, with the edits that
\* other writers made after it was queued.
ValidWrites == pc' = "replaced" /\ pc # "replaced" => Valid(file')

\* A change is put in place only when llama-swap runs with all earlier ones.
OneAtATime == pc' = "replaced" /\ pc # "replaced" => In(file) \cap Jobs \subseteq In(serving)

\* The operator sees it: the snapshot of the queue shows a change in the file
\* that is not finished, from memory or, after a restart, from the marker.
Shown == {j \in Jobs : status[j] = "reconciliation_required"}
  \cup (IF marker # None THEN {marker.job} ELSE {}) \cup (IF Own THEN {work.job} ELSE {})
UnfinishedShown == unfinished \cap In(file) \subseteq Shown

\* A change of reload.py that is in the file and not finished fences every other
\* one and is shown to the operator, one reported undone left no trace, and one
\* reported applied survives a power failure.
ChangesFenced == TypeOK /\ UnfinishedFenced /\ NoTrace /\ AppliedDurable /\ UnfinishedShown
\* What the queue promises of every step.
WriteStep == ValidWrites /\ OneAtATime

\* A queued change does not wait for ever, behind traffic or behind another
\* change that has to be reconciled first.
QueueDrains == \A j \in Jobs : status[j] = "queued" ~> status[j] # "queued"
=============================================================================
