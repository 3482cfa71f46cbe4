------------------------------ MODULE MCLiveness ------------------------------
(***************************************************************************)
(* What must happen in the end, one component at a time: each on its       *)
(* smallest instance with the failures that it must survive, under the     *)
(* fairness its own module states and justifies.                           *)
(***************************************************************************)
EXTENDS TLC

CONSTANTS
  Parts,
  One, Two, a, b, card, \* a model, an account or a change; two of them
  OneCard, \* the card of the pool
  Nothing

VARIABLES
  part, \* the component that this behaviour exercises
  l_row, l_overdue, l_unit, l_starts, l_launcher, l_places, l_section, l_probe,
  l_round, l_sample, l_restarts, \* Leases
  s_row, s_claim, s_unit, s_swap, s_jobs, s_round, s_sample, s_pc, s_seen, s_failure,
  s_crashes, s_sent, \* SleepingRecovery
  w_account, w_unit, w_asleep, w_swap, w_jobs, w_sample, w_unread, w_since, w_window,
  w_pc, w_target, w_seen, w_retry, w_sent, \* WakeFailure
  r_file, r_fileDisk, r_marker, r_markerDisk, r_latch, r_pending, r_status, r_elapsed,
  r_busy, r_serving, r_effects, r_pc, r_work, r_unfinished, r_crashes, \* ReloadQueue
  m_core, m_disk, m_inst, m_loaded, m_unit, m_lease, m_file, m_marker, m_adapter,
  m_record, m_queued, m_sends, m_faults, \* Maintenance
  b_core, b_claim, b_account, b_unit, b_source, b_files, b_record, b_executor,
  b_waiting, b_sends, b_faults, \* Bootstrap
  e_up, e_stream, e_reader, e_buffer, e_bridge, e_sched, e_view, e_faults, \* EventRelay
  a_now, a_source, a_all, a_files, a_disk, a_run, a_crashes \* FleetArchive

lVars == <<l_row, l_overdue, l_unit, l_starts, l_launcher, l_places, l_section, l_probe,
           l_round, l_sample, l_restarts>>
sVars == <<s_row, s_claim, s_unit, s_swap, s_jobs, s_round, s_sample, s_pc, s_seen,
           s_failure, s_crashes, s_sent>>
wVars == <<w_account, w_unit, w_asleep, w_swap, w_jobs, w_sample, w_unread, w_since,
           w_window, w_pc, w_target, w_seen, w_retry, w_sent>>
rVars == <<r_file, r_fileDisk, r_marker, r_markerDisk, r_latch, r_pending, r_status,
           r_elapsed, r_busy, r_serving, r_effects, r_pc, r_work, r_unfinished,
           r_crashes>>
mVars == <<m_core, m_disk, m_inst, m_loaded, m_unit, m_lease, m_file, m_marker,
           m_adapter, m_record, m_queued, m_sends, m_faults>>
bVars == <<b_core, b_claim, b_account, b_unit, b_source, b_files, b_record, b_executor,
           b_waiting, b_sends, b_faults>>
eVars == <<e_up, e_stream, e_reader, e_buffer, e_bridge, e_sched, e_view, e_faults>>
aVars == <<a_now, a_source, a_all, a_files, a_disk, a_run, a_crashes>>
vars == <<part, lVars, sVars, wVars, rVars, mVars, bVars, eVars, aVars>>

L == INSTANCE Leases WITH Models <- One, Gpus <- OneCard, LeaseIds <- One,
       Budget <- [m \in One |-> 1], Capacity <- [g \in OneCard |-> 1], MaxRestarts <- 1,
       StartsInTime <- FALSE, None <- Nothing, row <- l_row, overdue <- l_overdue,
       unit <- l_unit, starts <- l_starts, launcher <- l_launcher, places <- l_places,
       section <- l_section, probe <- l_probe, round <- l_round, sample <- l_sample,
       restarts <- l_restarts
S == INSTANCE SleepingRecovery WITH LeaseIds <- One, MaxCrashes <- 1, None <- Nothing,
       row <- s_row, claim <- s_claim, unit <- s_unit, swap <- s_swap, jobs <- s_jobs,
       round <- s_round, sample <- s_sample, pc <- s_pc, seen <- s_seen,
       failure <- s_failure, crashes <- s_crashes, sent <- s_sent
W == INSTANCE WakeFailure WITH WakeLeases <- One, MinSamples <- 2, Grace <- 1,
       MaxUnloads <- 2, NoLease <- Nothing, account <- w_account, instance <- w_unit,
       asleep <- w_asleep, proxy <- w_swap, calls <- w_jobs, latest <- w_sample,
       unread <- w_unread, since <- w_since, window <- w_window, doing <- w_pc,
       target <- w_target, exitSeen <- w_seen, retry <- w_retry, unloadsSent <- w_sent
R == INSTANCE ReloadQueue WITH Jobs <- Two, Maintenance <- One, Foreign <- {},
       Conflicts <- {}, MaxCrashes <- 1, None <- Nothing, file <- r_file,
       fileDisk <- r_fileDisk, marker <- r_marker, markerDisk <- r_markerDisk,
       latch <- r_latch, pending <- r_pending, status <- r_status, elapsed <- r_elapsed,
       busy <- r_busy, serving <- r_serving, effects <- r_effects, pc <- r_pc,
       work <- r_work, unfinished <- r_unfinished, crashes <- r_crashes
M == INSTANCE Maintenance WITH Removal <- FALSE, MaxCrashes <- 2, MaxFails <- 2,
       MaxDeaths <- 0, MaxEdits <- 0, core <- m_core, disk <- m_disk, inst <- m_inst,
       loaded <- m_loaded, unit <- m_unit, lease <- m_lease, file <- m_file,
       marker <- m_marker, adapter <- m_adapter, record <- m_record, queued <- m_queued,
       sends <- m_sends, faults <- m_faults
B == INSTANCE Bootstrap WITH Modes <- {"resume"}, LateStart <- FALSE, MaxCrashes <- 2,
       MaxFails <- 2, MaxDeaths <- 0, core <- b_core, claim <- b_claim,
       account <- b_account, unit <- b_unit, source <- b_source, files <- b_files,
       record <- b_record, executor <- b_executor, waiting <- b_waiting,
       sends <- b_sends, faults <- b_faults
E == INSTANCE EventRelay WITH MaxRequests <- 1, Capacity <- 2, Batch <- 1,
       MaxChanges <- 1, MaxBreaks <- 0, up <- e_up, stream <- e_stream,
       reader <- e_reader, buffer <- e_buffer, bridge <- e_bridge, sched <- e_sched,
       view <- e_view, faults <- e_faults
A == INSTANCE FleetArchive WITH Hour <- 1, Day <- 2, Raw <- 1, Hourly <- 2,
       MaxTime <- 4, MaxCrashes <- 1, now <- a_now, source <- a_source, all <- a_all,
       files <- a_files, disk <- a_disk, run <- a_run, crashes <- a_crashes

ASSUME InstancesAssumption ==
  /\ S!SleepingAssumption
  /\ W!WakeFailureAssumption
  /\ R!ReloadAssumption
  /\ M!MaintenanceAssumption
  /\ B!BootstrapAssumption
  /\ A!ArchiveAssumption

Init ==
  /\ part \in Parts
  /\ L!Init /\ S!Init /\ W!WakeInit /\ R!Init /\ M!Init /\ B!Init /\ E!RelayInit /\ A!Init

Next ==
  \/ part = "leases" /\ L!Next
     /\ UNCHANGED <<part, sVars, wVars, rVars, mVars, bVars, eVars, aVars>>
  \/ part = "sleeping" /\ S!Next
     /\ UNCHANGED <<part, lVars, wVars, rVars, mVars, bVars, eVars, aVars>>
  \/ part = "wedged" /\ W!WakeNext
     /\ UNCHANGED <<part, lVars, sVars, rVars, mVars, bVars, eVars, aVars>>
  \/ part = "queue" /\ R!Next
     /\ UNCHANGED <<part, lVars, sVars, wVars, mVars, bVars, eVars, aVars>>
  \/ part = "maintenance" /\ M!Next
     /\ UNCHANGED <<part, lVars, sVars, wVars, rVars, bVars, eVars, aVars>>
  \/ part = "bootstrap" /\ B!Next
     /\ UNCHANGED <<part, lVars, sVars, wVars, rVars, mVars, eVars, aVars>>
  \/ part = "relay" /\ E!RelayNext
     /\ UNCHANGED <<part, lVars, sVars, wVars, rVars, mVars, bVars, aVars>>
  \/ part = "archive" /\ A!Next
     /\ UNCHANGED <<part, lVars, sVars, wVars, rVars, mVars, bVars, eVars>>

Spec == Init /\ [][Next]_vars

-----------------------------------------------------------------------------
(* Properties: each under the fairness of its component. *)

\* A budget whose process is gone, or never came, is given back: neither a dead
\* launcher, nor a lost answer, nor a restart leaks it (leases.py reconcile).
BudgetComesBack == part = "leases" /\ L!Fairness => L!BudgetComesBack

\* A claim of the sleeping recovery whose source is gone moves on, and a wedged
\* wake is stopped and unloaded (recovery.py, wake_failure.py).
RecoveriesEnd ==
  /\ part = "sleeping" /\ S!Fairness => S!ClaimMovesOn
  /\ part = "wedged" /\ W!WakeFairness => W!WedgeEnds

\* A queued change of the configuration, an observed candidate and a launched
\* default reach their end over failures and crashes at any step.
TransactionsSettle ==
  /\ part = "queue" /\ R!Fairness => R!QueueDrains
  /\ part = "maintenance" /\ M!Fairness => M!Recovers
  /\ part = "bootstrap" /\ B!Fairness => B!LaunchSettles

\* What the relay has buffered reaches the stream, and the archive what the
\* database still has, however often they are interrupted.
ViewsCatchUp ==
  /\ part = "relay" /\ E!RelayFairness => E!BufferDrains
  /\ part = "archive" /\ A!Fairness => A!CatchesUp
=============================================================================
