------------------------- MODULE DirectoryReconciler -------------------------
(***************************************************************************)
(* Directory-driven registration (reconcile.py) with what it reads and what *)
(* it submits: the scan of the shared roots (discovery.py), the records and *)
(* transforms of the registry (registry.py), and the one pending change of  *)
(* the catalog.  Users edit descriptors, wake models and pin them at any    *)
(* moment, also between the scan, the decision and the change.              *)
(*                                                                         *)
(* Directories and names are numbers, in the order of the scan and of the   *)
(* configuration file; time is counted in intervals of the reconciler.      *)
(***************************************************************************)
EXTENDS Integers, FiniteSets

CONSTANTS
    Dirs, Names,
    MaxCandidates,  \* the scan lists no more
    FirstBackoff, MaxBackoff,  \* in intervals
    Pinnable, Wakeable, Drifting,  \* the names users pin, wake and edit the limits of
    MaxEdits, MaxFailures  \* bounds: descriptor edits; failed submissions, changes and stops

NumbersAssumption ==
    /\ Dirs \subseteq Nat \ {0} /\ Names \subseteq Nat \ {0} /\ IsFiniteSet(Dirs)
    /\ {MaxCandidates, FirstBackoff, MaxBackoff} \subseteq Nat \ {0} /\ MaxBackoff >= FirstBackoff
    /\ Pinnable \cup Wakeable \cup Drifting \subseteq Names

VARIABLES
    disk,     \* descriptor of each directory: Gone, Broken, or the name it declares
    config,   \* entry of each name: NoEntry, Hand, or the directory of its record
    drift,    \* names whose limits are not the configured ones
    runtime,  \* state of each model
    sampled,     \* state of each model in the last sample
    pinned,
    job,      \* the pending change
    fenced,
    stopping,       \* the model whose stop is running, or NoEntry
    resting,  \* TRUE within an interval of the last scan or submission
    backoff,  \* per name, and for Limits: intervals left and attempts
    tick,     \* the run in progress and the rows it scanned
    strayed,  \* ghost: names whose record's directory stopped declaring them
    bounds

directoryVars == <<disk, config, drift, runtime, sampled, pinned, job, fenced, stopping, resting, backoff, tick, strayed, bounds>>

Gone == 0
Broken == -1
NoEntry == 0
Hand == -1
Limits == 0  \* CONCURRENCY_BACKOFF_KEY
ModelStates == {"stopped", "awake", "sleeping"}
NoJob == [kind |-> "none", name |-> 0, dir |-> 0]
NoRow == [status |-> "none", name |-> 0]
NoRun == [at |-> "idle", rows |-> [d \in Dirs |-> NoRow]]
NoBackoff == [left |-> 0, attempts |-> 0]

Records == {n \in Names : config[n] \in Dirs}
Configured == {n \in Names : config[n] # NoEntry}
Declares(d, n) == disk[d] \in {n, Broken}

DirectoryTypeOK ==
    /\ disk \in [Dirs -> {Gone, Broken} \cup Names] /\ config \in [Names -> {NoEntry, Hand} \cup Dirs]
    /\ drift \subseteq Configured /\ pinned \subseteq Names /\ strayed \subseteq Records
    /\ runtime \in [Names -> ModelStates] /\ sampled \in [Names -> ModelStates \cup {"unknown"}]
    /\ job \in [kind : {"none", "add", "remove", "limits", "cleanup"}, name : Names \cup {0}, dir : Dirs \cup {0}]
    /\ {fenced, resting} \subseteq BOOLEAN /\ stopping \in Names \cup {NoEntry}
    /\ \A k \in Names \cup {Limits} : backoff[k].left > 0 => backoff[k].attempts > 0 /\ backoff[k].left <= MaxBackoff
    /\ tick.at \in {"idle", "scanned"}

DirectoryInit ==
    /\ disk \in [Dirs -> {Gone, Broken} \cup Names]
    /\ config \in [Names -> {NoEntry, Hand} \cup Dirs]
    /\ strayed = {n \in Records : ~Declares(config[n], n)}
    /\ drift = {} /\ pinned = {}
    /\ runtime \in [Names -> {"stopped", "awake"}] /\ (\A n \in Names : config[n] = NoEntry => runtime[n] = "stopped")
    /\ sampled = [n \in Names |-> "unknown"]
    /\ job = NoJob /\ fenced = FALSE /\ stopping = NoEntry /\ resting = FALSE
    /\ backoff = [k \in Names \cup {Limits} |-> NoBackoff]
    /\ tick = NoRun
    /\ bounds = [edits |-> 0, failures |-> 0]

MayFail == bounds.failures < MaxFailures
CountsFailure == bounds' = [bounds EXCEPT !.failures = @ + 1]

(* ------------------------------- the scan ------------------------------ *)

\* _survey, _build: sorted, bounded, and a name belongs to the first directory that declares it.
Listed(d) == disk[d] # Gone /\ Cardinality({e \in Dirs : e <= d /\ disk[e] # Gone}) <= MaxCandidates
Claimed(d) == \E e \in Dirs : e < d /\ disk[e] = disk[d]

Row(d) ==
    IF ~Listed(d) THEN NoRow
    ELSE IF disk[d] = Broken \/ Claimed(d) THEN [status |-> "invalid", name |-> 0]
    ELSE [status |-> IF disk[d] \in Configured THEN "configured" ELSE "pending", name |-> disk[d]]

\* resolve: the directory a pending name is imported from now.
Source(n) == {d \in Dirs : Row(d) = [status |-> "pending", name |-> n]}

(* ---------------------------- the reconciler --------------------------- *)

BacksOff(k) == backoff[k].left > 0

Delay(attempts) ==
    LET d == FirstBackoff * 2 ^ (attempts - 1) IN IF d > MaxBackoff THEN MaxBackoff ELSE d

SetBackoff(table, k) ==
    LET old == table[k].attempts
        a == IF old > 0 /\ Delay(old) = MaxBackoff THEN old ELSE old + 1
    IN [table EXCEPT ![k] = [left |-> Delay(a), attempts |-> a]]

Forgets(ks) == [k \in DOMAIN backoff |-> IF k \in ks THEN NoBackoff ELSE backoff[k]]

Precondition == job = NoJob /\ ~fenced /\ ~resting

\* _precondition, _discovered_rows and the entries of configured names, which are dropped.
Scan ==
    /\ tick.at = "idle" /\ Precondition
    /\ tick' = [at |-> "scanned", rows |-> [d \in Dirs |-> Row(d)]]
    /\ backoff' = Forgets({n \in Names : \E d \in Dirs : Row(d) = [status |-> "configured", name |-> n]})
    /\ resting' = TRUE
    /\ UNCHANGED <<disk, config, drift, runtime, sampled, pinned, job, fenced, stopping, strayed, bounds>>

PendingNames == {n \in Names : \E d \in Dirs : tick.rows[d] = [status |-> "pending", name |-> n]}
Candidates == {n \in PendingNames : ~BacksOff(n)}

First(n, s) == n \in s /\ \A m \in s : n <= m

\* _orphan_reason: the descriptor is looked at now, the rows are those of the scan.
Orphan(n) ==
    LET d == config[n] scanned == tick.rows[d] IN
    \/ disk[d] = Gone
    \/ scanned.status \in {"pending", "configured"} /\ scanned # [status |-> "configured", name |-> n]

Orphans == {n \in Records : Orphan(n) /\ ~BacksOff(n)}

Done == tick' = NoRun

Submits(kind, n, d) == job' = [kind |-> kind, name |-> n, dir |-> d]

\* registry.add: the name is resolved again, with a scan of its own.
Resolves(n) == Source(n)

Add ==
    /\ tick.at = "scanned" /\ Done
    /\ \E n \in Candidates :
        /\ First(n, Candidates) /\ backoff' = SetBackoff(backoff, n)
        /\ \/ \E d \in Resolves(n) : Submits("add", n, d) /\ UNCHANGED bounds
           \/ Resolves(n) = {} /\ UNCHANGED <<job, bounds>>
           \/ MayFail /\ CountsFailure /\ UNCHANGED job
    /\ resting' = TRUE
    /\ UNCHANGED <<disk, config, drift, runtime, sampled, pinned, fenced, stopping, strayed>>

\* _reconcile_orphans begins by forgetting the backoff of every name that has no record.
Kept == Forgets(Names \ Records)

\* reload_blockers: one model that is not known, or a pinned one that is awake, blocks the round.
Blocked == \E n \in Configured : sampled[n] = "unknown" \/ (sampled[n] = "awake" /\ n \in pinned)

AtOrphan(n) == tick.at = "scanned" /\ Candidates = {} /\ First(n, Orphans) /\ ~Blocked

\* plan_temporary_model_removal, evaluated at the submission and again before the change is applied.
Removable(n) == sampled[n] = "stopped" /\ n \notin pinned

Remove ==
    \E n \in Names :
        /\ AtOrphan(n) /\ sampled[n] = "stopped" /\ Removable(n)
        /\ Submits("remove", n, 0) /\ backoff' = SetBackoff(Kept, n) /\ resting' = TRUE /\ Done
        /\ UNCHANGED <<disk, config, drift, runtime, sampled, pinned, fenced, stopping, strayed, bounds>>

\* The exception of a refused removal: run_once knows no name for it and sets no backoff.
RemovalRefused ==
    \E n \in Names :
        /\ AtOrphan(n) /\ sampled[n] = "stopped" /\ Done /\ backoff' = Kept
        /\ \/ ~Removable(n) /\ UNCHANGED bounds
           \/ MayFail /\ CountsFailure
        /\ UNCHANGED <<disk, config, drift, runtime, sampled, pinned, job, fenced, stopping, resting, strayed>>

\* actions.stop_model looks again: it is blocked for a pinned model and has nothing to do for a stopped one.
Stop ==
    \E n \in Names :
        /\ AtOrphan(n) /\ sampled[n] # "stopped" /\ stopping = NoEntry
        /\ stopping' = IF n \in pinned \/ runtime[n] = "stopped" THEN NoEntry ELSE n
        /\ backoff' = SetBackoff(Kept, n) /\ resting' = TRUE /\ Done
        /\ UNCHANGED <<disk, config, drift, runtime, sampled, pinned, job, fenced, strayed, bounds>>

\* No submission for a record: nothing to do, the sample blocks it, or an operation runs.
NoAction ==
    /\ tick.at = "scanned" /\ Candidates = {}
    /\ \/ Orphans = {}
       \/ Blocked
       \/ stopping # NoEntry /\ \E n \in Orphans : First(n, Orphans) /\ sampled[n] # "stopped"

NothingDue == NoAction /\ (BacksOff(Limits) \/ drift = {})

Rests ==
    /\ NothingDue /\ backoff' = Kept /\ Done
    /\ UNCHANGED <<disk, config, drift, runtime, sampled, pinned, job, fenced, stopping, resting, strayed, bounds>>

\* _converge_concurrency: one change for every entry whose limits are not the configured ones.
Converge ==
    /\ NoAction /\ ~BacksOff(Limits) /\ drift # {} /\ Done
    /\ \/ Submits("limits", 0, 0) /\ backoff' = [Kept EXCEPT ![Limits] = NoBackoff] /\ resting' = TRUE /\ UNCHANGED bounds
       \/ MayFail /\ CountsFailure /\ backoff' = SetBackoff(Kept, Limits) /\ UNCHANGED <<job, resting>>
    /\ UNCHANGED <<disk, config, drift, runtime, sampled, pinned, fenced, stopping, strayed>>

Elapse ==
    /\ tick.at = "idle" /\ (resting \/ \E k \in DOMAIN backoff : backoff[k].left > 0)
    /\ resting' = FALSE
    /\ backoff' = [k \in DOMAIN backoff |-> IF backoff[k].left > 0 THEN [backoff[k] EXCEPT !.left = @ - 1] ELSE backoff[k]]
    /\ UNCHANGED <<disk, config, drift, runtime, sampled, pinned, job, fenced, stopping, tick, strayed, bounds>>

(* ------------------------------ the change ----------------------------- *)

AddApplies ==
    /\ job.kind = "add" /\ config[job.name] = NoEntry /\ job' = NoJob
    /\ config' = [config EXCEPT ![job.name] = job.dir]
    /\ strayed' = IF Declares(job.dir, job.name) THEN strayed \ {job.name} ELSE strayed \cup {job.name}
    /\ sampled' = [sampled EXCEPT ![job.name] = "unknown"]
    /\ UNCHANGED <<disk, drift, runtime, pinned, fenced, stopping, resting, backoff, tick, bounds>>

\* Bug: what was removable when it was asked still is.
StillRemovableAlways(n) == TRUE

StillRemovable(n) == Removable(n)

\* The entry is gone before the unit is: cleanup is the second half of the same change.
RemoveApplies ==
    /\ job.kind = "remove" /\ StillRemovable(job.name)
    /\ config' = [config EXCEPT ![job.name] = NoEntry]
    /\ drift' = drift \ {job.name} /\ strayed' = strayed \ {job.name}
    /\ job' = [job EXCEPT !.kind = "cleanup"]
    /\ UNCHANGED <<disk, runtime, sampled, pinned, fenced, stopping, resting, backoff, tick, bounds>>

WithStopped(n) == [runtime EXCEPT ![n] = "stopped"]

CleanUp ==
    /\ job.kind = "cleanup" /\ ~fenced
    /\ \/ runtime' = WithStopped(job.name) /\ job' = NoJob /\ UNCHANGED <<fenced, bounds>>
       \/ MayFail /\ CountsFailure /\ fenced' = TRUE /\ UNCHANGED <<runtime, job>>
    /\ UNCHANGED <<disk, config, drift, sampled, pinned, stopping, resting, backoff, tick, strayed>>

LimitsApply ==
    /\ job.kind = "limits" /\ drift' = {} /\ job' = NoJob
    /\ UNCHANGED <<disk, config, runtime, sampled, pinned, fenced, stopping, resting, backoff, tick, strayed, bounds>>

\* Before it is applied a change may be refused, for good.
ChangeFails ==
    /\ job.kind \in {"add", "remove", "limits"} /\ job' = NoJob
    /\ \/ MayFail /\ CountsFailure
       \/ /\ job.kind = "add" => config[job.name] # NoEntry
          /\ job.kind = "remove" => ~StillRemovable(job.name)
          /\ job.kind # "limits" /\ UNCHANGED bounds
    /\ UNCHANGED <<disk, config, drift, runtime, sampled, pinned, fenced, stopping, resting, backoff, tick, strayed>>

\* The operator settles the fenced change once the unit is gone.
Reconciled ==
    /\ fenced /\ fenced' = FALSE /\ job' = NoJob
    /\ runtime' = IF job.kind = "cleanup" THEN WithStopped(job.name) ELSE runtime
    /\ UNCHANGED <<disk, config, drift, sampled, pinned, stopping, resting, backoff, tick, strayed, bounds>>

StopEnds ==
    /\ stopping # NoEntry /\ stopping' = NoEntry
    /\ \/ runtime' = [runtime EXCEPT ![stopping] = "stopped"] /\ UNCHANGED bounds
       \/ MayFail /\ CountsFailure /\ UNCHANGED runtime
    /\ UNCHANGED <<disk, config, drift, sampled, pinned, job, fenced, resting, backoff, tick, strayed>>

\* Backoff and the run are lost, a queued change with them; one that was being applied fences.
Restarts ==
    /\ MayFail /\ CountsFailure
    /\ tick' = NoRun /\ backoff' = [k \in DOMAIN backoff |-> NoBackoff] /\ resting' = FALSE /\ stopping' = NoEntry
    /\ sampled' = [n \in Names |-> "unknown"]
    /\ fenced' = (job.kind = "cleanup") /\ job' = IF job.kind = "cleanup" THEN job ELSE NoJob
    /\ UNCHANGED <<disk, config, drift, runtime, pinned, strayed>>

(* ------------------------------- the world ----------------------------- *)

Edit ==
    \E d \in Dirs, v \in {Gone, Broken} \cup Names :
        /\ bounds.edits < MaxEdits /\ v # disk[d]
        /\ disk' = [disk EXCEPT ![d] = v] /\ bounds' = [bounds EXCEPT !.edits = @ + 1]
        /\ strayed' = strayed \cup {n \in Records : config[n] = d /\ v \notin {n, Broken}}
        /\ UNCHANGED <<config, drift, runtime, sampled, pinned, job, fenced, stopping, resting, backoff, tick>>

\* A request wakes a configured model, or started to before its entry was removed.
Wake ==
    \E n \in Wakeable :
        /\ n \in Configured \/ (job = [kind |-> "cleanup", name |-> n, dir |-> 0] /\ ~fenced)
        /\ runtime[n] # "awake" /\ runtime' = [runtime EXCEPT ![n] = "awake"]
        /\ UNCHANGED <<disk, config, drift, sampled, pinned, job, fenced, stopping, resting, backoff, tick, strayed, bounds>>

Sleep ==
    \E n \in Wakeable :
        /\ runtime[n] = "awake" /\ runtime' = [runtime EXCEPT ![n] = "sleeping"]
        /\ UNCHANGED <<disk, config, drift, sampled, pinned, job, fenced, stopping, resting, backoff, tick, strayed, bounds>>

\* A round: a model whose probe or activity fails is unknown in it.
Observe ==
    \E lost \in SUBSET Wakeable :
        /\ sampled' = [n \in Names |-> IF n \in lost THEN "unknown" ELSE runtime[n]] /\ sampled' # sampled
        /\ UNCHANGED <<disk, config, drift, runtime, pinned, job, fenced, stopping, resting, backoff, tick, strayed, bounds>>

Pin ==
    \E n \in Pinnable :
        /\ n \in Configured
        /\ pinned' = IF n \in pinned THEN pinned \ {n} ELSE pinned \cup {n}
        /\ UNCHANGED <<disk, config, drift, runtime, sampled, job, fenced, stopping, resting, backoff, tick, strayed, bounds>>

Drifts ==
    \E n \in Drifting \cap Configured :
        /\ n \notin drift /\ bounds.edits < MaxEdits
        /\ drift' = drift \cup {n} /\ bounds' = [bounds EXCEPT !.edits = @ + 1]
        /\ UNCHANGED <<disk, config, runtime, sampled, pinned, job, fenced, stopping, resting, backoff, tick, strayed>>

Runs == Add \/ Remove \/ RemovalRefused \/ Stop \/ Rests \/ Converge
TakesEffect == AddApplies \/ RemoveApplies \/ CleanUp \/ LimitsApply \/ ChangeFails

DirectoryNext ==
    \/ Scan \/ Runs \/ Elapse
    \/ TakesEffect \/ Reconciled \/ StopEnds \/ Restarts
    \/ Edit \/ Wake \/ Sleep \/ Observe \/ Pin \/ Drifts

DirectorySpec == DirectoryInit /\ [][DirectoryNext]_directoryVars

(* ------------------------------ properties ----------------------------- *)

SubmittedNow(kind, n) == job.kind = "none" /\ job'.kind = kind /\ job'.name = n

(* reconcile.py:205-230: a model is stopped or unregistered only when its directory stopped declaring it
   at some moment since it was registered; a descriptor that does not parse, a second directory with the
   same name, a full scan or an edit between scan and decision never does it, and no entry written by hand
   is touched. *)
OnlyStrayed ==
    \A n \in Names : (SubmittedNow("remove", n) \/ (stopping' = n /\ stopping # n)) => n \in strayed

(* registry.py:1563-1598: a name is registered from the directory that declares it when it is submitted,
   also when it moved to another directory after the scan. *)
AddedAsDeclared ==
    \A n \in Names : SubmittedNow("add", n) => disk[job'.dir] = n /\ config[n] = NoEntry

(* registry.py:1664-1700: pins and samples change while a removal is queued; an entry disappears only
   when the newest sample shows its model stopped and nobody pinned it. *)
ProtectedUntilApplied ==
    \A n \in Names : (config[n] \in Dirs /\ config'[n] = NoEntry) => (sampled[n] = "stopped" /\ n \notin pinned)

(* registry.py:1684-1694: a late request may start the unit after its entry was removed; when the change
   is over, no unit without an entry runs. *)
NoUnitLeft ==
    \A n \in Names : (config[n] = NoEntry /\ job.name # n /\ ~fenced) => runtime[n] = "stopped"

(* What the reconciler promises of every step. *)
ReconcilerStep == OnlyStrayed /\ AddedAsDeclared /\ ProtectedUntilApplied
=============================================================================
