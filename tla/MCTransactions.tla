--------------------------- MODULE MCTransactions ---------------------------
(***************************************************************************)
(* The transactions of the system, one at a time: the queue of             *)
(* configuration changes, the maintenance of the catalog, the first start  *)
(* under the scheduler, and the installers of the host tools. The quiet    *)
(* period that admits a change comes with its own variables.               *)
(***************************************************************************)
EXTENDS QuietPeriod, ReloadQueue, ScanInstall, TLC

CONSTANTS
  Parts,
  Pair  \* two commands of an installer

VARIABLES
  part, \* the component and instance that this behaviour exercises
  \* Maintenance
  m_core, m_disk, inst, loaded, m_unit, lease, m_file, m_marker, adapter, m_record, queued,
  m_sends, m_faults,
  \* Bootstrap
  b_core, claim, account, b_unit, b_source, files, b_record, executor, waiting, b_sends,
  b_faults,
  \* OwnedInstall
  o_file, o_source, o_unit, late, o_receipt, lock, o_run, o_sent, o_bounds

mVars == <<m_core, m_disk, inst, loaded, m_unit, lease, m_file, m_marker, adapter, m_record,
           queued, m_sends, m_faults>>
bVars == <<b_core, claim, account, b_unit, b_source, files, b_record, executor, waiting,
           b_sends, b_faults>>
oVars == <<o_file, o_source, o_unit, late, o_receipt, lock, o_run, o_sent, o_bounds>>
allVars == <<part, quietVars, vars, mVars, bVars, scanVars, oVars>>

M == INSTANCE MaintenanceProofs WITH Removal <- TRUE, MaxCrashes <- 2, MaxFails <- 3, MaxDeaths <- 2,
       MaxEdits <- 1, core <- m_core, disk <- m_disk, unit <- m_unit, file <- m_file, marker <- m_marker,
       record <- m_record, sends <- m_sends, faults <- m_faults
\* With executors that take their lock before their command is killed, or after it.
B == INSTANCE BootstrapProofs WITH Modes <- {"observe", "resume", "rollback"}, LateStart <- FALSE,
       MaxCrashes <- 2, MaxFails <- 2, MaxDeaths <- 1, core <- b_core, unit <- b_unit,
       source <- b_source, record <- b_record, sends <- b_sends, faults <- b_faults
Late == INSTANCE BootstrapProofs WITH Modes <- {"observe", "resume", "rollback"}, LateStart <- TRUE,
       MaxCrashes <- 2, MaxFails <- 1, MaxDeaths <- 1, core <- b_core, unit <- b_unit,
       source <- b_source, record <- b_record, sends <- b_sends, faults <- b_faults
Archive == INSTANCE OwnedInstallProofs WITH Observer <- FALSE, Commands <- Pair, MaxFailures <- 1,
       MaxReboots <- 1, MaxEdits <- 1, file <- o_file, source <- o_source, unit <- o_unit,
       receipt <- o_receipt, run <- o_run, sent <- o_sent, bounds <- o_bounds
Hub == INSTANCE OwnedInstallProofs WITH Observer <- TRUE, Commands <- Pair, MaxFailures <- 1,
       MaxReboots <- 0, MaxEdits <- 0, file <- o_file, source <- o_source, unit <- o_unit,
       receipt <- o_receipt, run <- o_run, sent <- o_sent, bounds <- o_bounds

ASSUME InstancesAssumption ==
  /\ ReloadAssumption /\ M!MaintenanceAssumption /\ ScanInstallAssumption
  /\ B!BootstrapAssumption /\ Late!BootstrapAssumption
  /\ Archive!OwnedInstallAssumption /\ Hub!OwnedInstallAssumption

AllInit ==
  /\ part \in Parts
  /\ QuietInit /\ Init /\ M!Init
  /\ IF part = "late" THEN Late!Init ELSE B!Init
  /\ ScanInit /\ (part = "scan" \/ ~ unit.enabled)
  /\ IF part = "hub" THEN Hub!Init ELSE Archive!Init

AllNext ==
  \/ part = "quiet" /\ QuietNext /\ UNCHANGED <<part, vars, mVars, bVars, scanVars, oVars>>
  \/ part = "queue" /\ Next /\ UNCHANGED <<part, quietVars, mVars, bVars, scanVars, oVars>>
  \/ part = "maintenance" /\ M!Next /\ UNCHANGED <<part, quietVars, vars, bVars, scanVars, oVars>>
  \/ part = "bootstrap" /\ B!Next /\ UNCHANGED <<part, quietVars, vars, mVars, scanVars, oVars>>
  \/ part = "late" /\ Late!Next /\ UNCHANGED <<part, quietVars, vars, mVars, scanVars, oVars>>
  \/ part = "scan" /\ ScanNext /\ UNCHANGED <<part, quietVars, vars, mVars, bVars, oVars>>
  \/ part = "archive" /\ Archive!Next /\ UNCHANGED <<part, quietVars, vars, mVars, bVars, scanVars>>
  \/ part = "hub" /\ Hub!Next /\ UNCHANGED <<part, quietVars, vars, mVars, bVars, scanVars>>

AllSpec == AllInit /\ [][AllNext]_allVars

Symmetry == Permutations(Pair)

-----------------------------------------------------------------------------
(* Properties *)

\* A transaction of the catalog sends each native command once, runs one proxy at
\* a time, keeps its receipt until the outcome is published, and lets work through
\* only on the generation that is in force; an abort, a rollback and a release are
\* what they say, also when adapters of a crashed scheduler act late.
MaintenanceSafe == part = "maintenance" => M!MaintenanceSafe

\* A bootstrap sends each effect once, starts the new proxy only over the staged
\* files, an absent predecessor and a default with a confirmed account, and leaves
\* nothing when it is aborted, over every crash, resumption and rollback.
BootstrapSafe ==
  /\ part = "bootstrap" => B!BootstrapSafe
  /\ part = "late" => Late!BootstrapSafe

\* The installers of the scanner, the archive and the observer send a systemctl
\* call of one receipt once, own what they leave behind, and let no scan run on
\* files of which some are put back.
InstallsSafe ==
  /\ part = "scan" => InstallSafe
  /\ part = "archive" => Archive!InstallSafe
  /\ part = "hub" => Hub!InstallSafe

\* No step does what must not be done at that moment: a change is put in place only
\* when it is valid with the edits of others and llama-swap runs with all earlier
\* ones; the store is asked for no transition it refuses; an installer gives up its
\* receipt only with everything as it was, removes files only from units at rest,
\* and never overwrites what somebody else wrote.
StepsAccepted ==
  [][/\ part = "queue" => WriteStep
     /\ part = "maintenance" => M!StoreAccepts
     /\ part = "bootstrap" => B!StoreAccepts
     /\ part = "late" => Late!StoreAccepts
     /\ part = "scan" => InstallStep
     /\ part = "archive" => Archive!InstallStep
     /\ part = "hub" => Hub!InstallStep]_allVars
=============================================================================
