------------------------------ MODULE ScanInstall ------------------------------
(***************************************************************************)
(* The installer of the host scanner (deploy/host/fleet-scan-admin.py):     *)
(* install replaces files and starts a timer, rollback puts the previous    *)
(* files and the previous timer back.  A receipt on disk says what was      *)
(* submitted and what is done; the command may die, its systemctl calls may *)
(* fail or be applied without an answer, the host may reboot and somebody   *)
(* may edit a file between two commands.                                   *)
(***************************************************************************)
EXTENDS Naturals, FiniteSets

CONSTANTS
    ScanFiles,
    MaxFailures,  \* bound: failed steps, killed commands and lost answers
    MaxReboots,   \* bound: reboots of the host
    MaxEdits      \* bound: files edited by somebody else

ScanInstallAssumption ==
    /\ {MaxFailures, MaxReboots, MaxEdits} \subseteq Nat /\ IsFiniteSet(ScanFiles)
    /\ ScanFiles \cap {"none", "stop", "files", "units", "remove"} = {}  \* a command is at a file or at one of these

VARIABLES
    script,     \* content of each file
    unit,     \* the timer, and whether its scan runs
    receipt,  \* the receipt on disk
    run,      \* the command
    sent,     \* ghost: how often a systemctl command of this receipt was sent
    before,   \* ghost: the timer when the receipt was made
    bounds

scanVars == <<script, unit, receipt, run, sent, before, bounds>>

InstallEffects == {"install_stop_timer", "install_reload", "install_enable_timer"}
RestoreEffects == {"restore_stop_timer", "restore_reload", "restore_enable_timer", "restore_start_timer"}
Effects == InstallEffects \cup RestoreEffects
FileStates == {"pending", "install_submitted", "installed", "restore_submitted", "restored"}

NoReceipt == [phase |-> "none", files |-> [f \in ScanFiles |-> "pending"], effects |-> [e \in Effects |-> "none"],
              enabled |-> FALSE, active |-> FALSE]
NoRun == [cmd |-> "none", at |-> "none", effect |-> "none"]

\* check_files: what a file may be in each state of the receipt.
MayBe(s) ==
    (IF s \in {"pending", "install_submitted", "restore_submitted", "restored"} THEN {"previous"} ELSE {})
      \cup (IF s \in {"install_submitted", "installed", "restore_submitted"} THEN {"new"} ELSE {})

ScanTypeOK ==
    /\ script \in [ScanFiles -> {"previous", "new", "foreign"}]
    /\ unit \in [enabled : BOOLEAN, active : BOOLEAN, scan : BOOLEAN]
    /\ receipt \in [phase : {"none", "installing", "installed", "restoring", "restored"}, files : [ScanFiles -> FileStates],
                    effects : [Effects -> {"none", "submitted", "acknowledged"}], enabled : BOOLEAN, active : BOOLEAN]
    /\ receipt.phase = "installed" => \A f \in ScanFiles : receipt.files[f] = "installed"
    /\ receipt.phase = "restored" => \A f \in ScanFiles : receipt.files[f] = "restored"
    /\ run.cmd \in {"none", "install", "restore"}
       /\ run.at \in {"none", "stop", "files", "units", "remove"} \cup ScanFiles
    /\ run.effect \in Effects \cup {"none"}

ScanInit ==
    /\ script = [f \in ScanFiles |-> "previous"]
    /\ unit \in {[enabled |-> on, active |-> on, scan |-> FALSE] : on \in BOOLEAN}
    /\ receipt = NoReceipt /\ run = NoRun /\ sent = [e \in Effects |-> 0] /\ before = unit
    /\ bounds = [failures |-> 0, reboots |-> 0, edits |-> 0]

(***************************************************************************)
(* The host.                                                               *)
(***************************************************************************)

Fires ==
    /\ unit' = [unit EXCEPT !.scan = ~ unit.scan] /\ (unit.scan \/ unit.active)
    /\ UNCHANGED <<script, receipt, run, sent, before, bounds>>

Reboots ==
    /\ bounds.reboots < MaxReboots /\ bounds' = [bounds EXCEPT !.reboots = @ + 1]
    /\ unit' = [unit EXCEPT !.active = unit.enabled, !.scan = FALSE] /\ run' = NoRun
    /\ UNCHANGED <<script, receipt, sent, before>>

FileEdited ==
    /\ run.cmd = "none" /\ bounds.edits < MaxEdits /\ bounds' = [bounds EXCEPT !.edits = @ + 1]
    /\ \E f \in ScanFiles : script' = [script EXCEPT ![f] = "foreign"]
    /\ UNCHANGED <<unit, receipt, run, sent, before>>

(***************************************************************************)
(* systemctl with a receipt: submitted, sent, acknowledged.                *)
(***************************************************************************)

NotYet(e) == receipt.effects[e] = "none"

Submits(e) ==
    /\ NotYet(e)
    /\ receipt' = [receipt EXCEPT !.effects[e] = "submitted"] /\ run' = [run EXCEPT !.effect = e]
    /\ UNCHANGED <<script, unit, sent, before, bounds>>

Applied(e) ==
    CASE e = "install_stop_timer" -> [unit EXCEPT !.active = FALSE]
      [] e = "install_enable_timer" -> [unit EXCEPT !.active = TRUE, !.enabled = TRUE]
      [] e = "restore_stop_timer" -> [unit EXCEPT !.active = FALSE, !.enabled = FALSE]
      [] e = "restore_enable_timer" -> [unit EXCEPT !.enabled = TRUE]
      [] e = "restore_start_timer" -> [unit EXCEPT !.active = TRUE]
      [] OTHER -> unit

\* A failure of the command itself may come after it was applied.
Sends ==
    /\ run.effect # "none"
    /\ unit' = Applied(run.effect) /\ sent' = [sent EXCEPT ![run.effect] = @ + 1]
    /\ receipt' = [receipt EXCEPT !.effects[run.effect] = "acknowledged"]
       /\ run' = [run EXCEPT !.effect = "none"]
    /\ UNCHANGED <<script, before, bounds>>

\* The caller of an install goes on with the restore; a command may be killed.
Raised == IF run.cmd = "install" THEN {[NoRun EXCEPT !.cmd = "restore"], NoRun} ELSE {NoRun}

LosesAnswer ==
    /\ run.effect # "none" /\ bounds.failures < MaxFailures
       /\ bounds' = [bounds EXCEPT !.failures = @ + 1]
    /\ unit' \in {unit, Applied(run.effect)} /\ sent' = [sent EXCEPT ![run.effect] = @ + 1]
    /\ run' \in Raised
    /\ UNCHANGED <<script, receipt, before>>

CommandFails ==
    /\ run.cmd # "none" /\ bounds.failures < MaxFailures
       /\ bounds' = [bounds EXCEPT !.failures = @ + 1]
    /\ run' \in Raised
    /\ UNCHANGED <<script, unit, receipt, sent, before>>

Goes(at) == run' = [run EXCEPT !.at = at]
Ready(cmd, at) == run.cmd = cmd /\ run.at = at /\ run.effect = "none"

(***************************************************************************)
(* stop_units: nothing may run before a file is touched.                   *)
(***************************************************************************)

\* A oneshot that runs is neither active nor inactive and is refused.
NoScan == ~ unit.scan

Armed(cmd) == unit.active \/ (cmd = "restore" /\ unit.enabled)
StopTimer(cmd) == IF cmd = "install" THEN "install_stop_timer" ELSE "restore_stop_timer"

Stops(cmd) ==
    /\ Ready(cmd, "stop") /\ NoScan /\ Armed(cmd) /\ Submits(StopTimer(cmd))

Stopped(cmd) ==
    /\ Ready(cmd, "stop") /\ NoScan /\ ~ Armed(cmd) /\ Goes("files")
    /\ UNCHANGED <<script, unit, receipt, sent, before, bounds>>

\* A scan runs, or the timer was stopped once and is on again.
Refused(cmd) ==
    /\ Ready(cmd, "stop") /\ (unit.scan \/ (Armed(cmd) /\ ~ NotYet(StopTimer(cmd))))
       /\ run' \in Raised
    /\ UNCHANGED <<script, unit, receipt, sent, before, bounds>>

(***************************************************************************)
(* The files, one after the other.                                         *)
(***************************************************************************)

Checked == \A f \in ScanFiles : script[f] \in MayBe(receipt.files[f])

ToRestore == {f \in ScanFiles : receipt.files[f] # "restored"}

Notes(f, state) ==
    /\ receipt' = [receipt EXCEPT !.files[f] = state]
    /\ UNCHANGED <<script, unit, run, sent, before, bounds>>

Writes(f, content) ==
    /\ script' = [script EXCEPT ![f] = content]
    /\ UNCHANGED <<unit, receipt, run, sent, before, bounds>>

\* Submitted, written, done; the next file only then.
Installs ==
    /\ Ready("install", "files")
    /\ LET busy == {f \in ScanFiles : receipt.files[f] = "install_submitted"} IN
         IF busy = {} THEN Checked /\ \E f \in ScanFiles : receipt.files[f] = "pending"
         /\ Notes(f, "install_submitted")
         ELSE \E f \in busy : IF script[f] = "new" THEN Notes(f, "installed") ELSE Writes(f, "new")

\* run.at names the file under way; what an earlier attempt wrote stays.
Restores ==
    /\ run.cmd = "restore" /\ run.effect = "none"
    /\ \/ /\ run.at = "files" /\ Checked
          /\ \E f \in ToRestore : receipt' = [receipt EXCEPT !.files[f] = "restore_submitted"]
             /\ Goes(f)
          /\ UNCHANGED <<script, unit, sent, before, bounds>>
       \/ /\ run.at \in ScanFiles /\ script[run.at] # "previous" /\ Writes(run.at, "previous")
       \/ /\ run.at \in ScanFiles /\ script[run.at] = "previous"
          /\ receipt' = [receipt EXCEPT !.files[run.at] = "restored"] /\ Goes("files")
          /\ UNCHANGED <<script, unit, sent, before, bounds>>

FilesDone(cmd) ==
    /\ Ready(cmd, "files") /\ Goes("units")
    /\ IF cmd = "install" THEN \A f \in ScanFiles : receipt.files[f] = "installed" ELSE ToRestore = {}
    /\ UNCHANGED <<script, unit, receipt, sent, before, bounds>>

Unexpected(cmd) ==
    /\ Ready(cmd, "files") /\ ~ Checked /\ run' \in Raised
    /\ UNCHANGED <<script, unit, receipt, sent, before, bounds>>

(***************************************************************************)
(* administer: the commands around them.                                   *)
(***************************************************************************)

BeginsInstall ==
    /\ run.cmd = "none" /\ receipt.phase = "none" /\ NoScan
    /\ receipt' = [NoReceipt EXCEPT !.phase = "installing", !.enabled = unit.enabled, !.active = unit.active]
    /\ script' = [f \in ScanFiles |-> "previous"]  \* what is there is the previous content
    /\ run' = [NoRun EXCEPT !.cmd = "install", !.at = "stop"]
    /\ sent' = [e \in Effects |-> 0] /\ before' = unit
    /\ UNCHANGED <<unit, bounds>>

BeginsRollback ==
    /\ run.cmd = "none" /\ receipt.phase # "none" /\ run' = [NoRun EXCEPT !.cmd = "restore"]
    /\ UNCHANGED <<script, unit, receipt, sent, before, bounds>>

Pending == \E e \in Effects : receipt.effects[e] = "submitted"

\* An effect without an answer ends every later command here.
BeginsRestore ==
    /\ Ready("restore", "none") /\ ~ Pending /\ Checked
    /\ receipt' = [receipt EXCEPT !.phase = IF @ = "restored" THEN @ ELSE "restoring"]
    /\ Goes(IF ToRestore = {} THEN "units" ELSE "stop")
    /\ UNCHANGED <<script, unit, sent, before, bounds>>

GivesUp ==
    /\ Ready("restore", "none") /\ (Pending \/ ~ Checked) /\ run' = NoRun
    /\ UNCHANGED <<script, unit, receipt, sent, before, bounds>>

\* The commands after the files, in their order.
Due(cmd) ==
    IF cmd = "install" THEN {"install_reload", "install_enable_timer"}
    ELSE {"restore_reload"} \cup (IF receipt.enabled THEN {"restore_enable_timer"} ELSE {})
           \cup (IF receipt.active THEN {"restore_start_timer"} ELSE {})

Later(e) == CASE e = "install_reload" -> {"install_enable_timer"}
              [] e = "restore_reload" -> {"restore_enable_timer", "restore_start_timer"}
              [] e = "restore_enable_timer" -> {"restore_start_timer"}
              [] OTHER -> {}

Controls(cmd) ==
    /\ Ready(cmd, "units")
    /\ \E e \in Due(cmd) : (\A d \in Due(cmd) : e \in Later(d) => ~ NotYet(d)) /\ Submits(e)

Confirmed(cmd) ==
    /\ Ready(cmd, "units") /\ \A e \in Due(cmd) : ~ NotYet(e)
    /\ IF cmd = "install" THEN unit.enabled /\ unit.active
       ELSE unit.enabled = receipt.enabled /\ unit.active = receipt.active
    /\ receipt' = [receipt EXCEPT !.phase = IF cmd = "install" THEN "installed" ELSE "restored"]
    /\ run' = IF cmd = "install" THEN NoRun ELSE [run EXCEPT !.at = "remove"]
    /\ UNCHANGED <<script, unit, sent, before, bounds>>

Unconfirmed(cmd) ==
    /\ Ready(cmd, "units") /\ \A e \in Due(cmd) : ~ NotYet(e)
    /\ IF cmd = "install" THEN ~ (unit.enabled /\ unit.active)
       ELSE ~ (unit.enabled = receipt.enabled /\ unit.active = receipt.active)
    /\ run' \in Raised
    /\ UNCHANGED <<script, unit, receipt, sent, before, bounds>>

Removes ==
    /\ Ready("restore", "remove") /\ receipt' = NoReceipt /\ run' = NoRun
    /\ UNCHANGED <<script, unit, sent, before, bounds>>

CommandSteps(cmd) ==
    Stops(cmd) \/ Stopped(cmd) \/ Refused(cmd) \/ FilesDone(cmd) \/ Unexpected(cmd)
      \/ Controls(cmd) \/ Confirmed(cmd) \/ Unconfirmed(cmd)

ScanNext ==
    \/ Fires \/ Reboots \/ FileEdited
    \/ Sends \/ LosesAnswer \/ CommandFails
    \/ \E cmd \in {"install", "restore"} : CommandSteps(cmd)
    \/ Installs \/ Restores
    \/ BeginsInstall \/ BeginsRollback \/ BeginsRestore \/ GivesUp \/ Removes

ScanSpec == ScanInit /\ [][ScanNext]_scanVars

(***************************************************************************)
(* Properties.                                                             *)
(***************************************************************************)

\* A systemctl command of one receipt is sent at most once, whatever answer
\* was lost and however often the command is repeated.
SentOnce == \A e \in Effects : sent[e] <= 1

\* While some files are put back and others are not, no scan runs and none
\* can start, even when the host reboots in between.
NoScanOnMixed ==
    receipt.phase = "restoring"
    /\ (\E f \in ScanFiles : receipt.files[f] \in {"restore_submitted", "restored"})
        /\ (\E f \in ScanFiles : receipt.files[f] # "restored")
        => ~ unit.active /\ ~ unit.scan

\* The receipt is given up only with every file and the timer as they were
\* before the install, wherever that stopped.
RestoredExactly ==
    receipt.phase # "none" /\ receipt'.phase = "none" =>
        /\ \A f \in ScanFiles : script[f] = "previous"
        /\ unit.enabled = before.enabled /\ unit.active = before.active

\* What somebody else wrote between two commands is never overwritten.
ForeignKept == \A f \in ScanFiles : script[f] = "foreign"
/\ receipt.phase # "none" => script'[f] = "foreign"

\* What the installer promises in every state, and of every step.
InstallSafe == ScanTypeOK /\ SentOnce /\ NoScanOnMixed
InstallStep == RestoredExactly /\ ForeignKept

=============================================================================
