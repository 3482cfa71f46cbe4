---------------------------- MODULE OwnedInstall ----------------------------
(***************************************************************************)
(* The installers of the fleet observer and of the fleet archive           *)
(* (deploy/fleet-observer/fleet-observer-admin.py,                         *)
(* deploy/fleet-archive/fleet-archive-admin.py).  Unlike the installer of   *)
(* the scanner they create what was not there, own exactly that and remove  *)
(* it again.  Two commands may be started at once, each reads the host      *)
(* before it takes the lock; a systemctl call may fail, or lose its answer  *)
(* and take effect later; commands die and the host reboots.               *)
(***************************************************************************)
EXTENDS Naturals, Sequences, FiniteSets

CONSTANTS
    Observer,     \* TRUE: the observer's installer, FALSE: the archive's
    Commands,     \* commands that may be under way together
    MaxFailures,  \* bound: failed steps, killed commands, lost answers, dead services
    MaxReboots,   \* bound: reboots of the host
    MaxEdits      \* bound: files, sources and units changed by somebody else

OwnedInstallAssumption ==
    Observer \in BOOLEAN /\ {MaxFailures, MaxReboots, MaxEdits} \subseteq Nat /\ "none" \notin Commands

VARIABLES
    file,     \* the installed files; "config" stands for those that are no unit
    source,   \* what an install would write now is what the receipt records
    unit,     \* the units as systemd has them
    late,     \* systemctl calls whose answer was lost and that are yet to act
    receipt,  \* the receipt on disk
    lock,     \* the command that holds install.lock, or "none"
    run,      \* each command
    sent,     \* ghost: how often each call of this receipt was sent
    bounds

host == <<file, source, unit, late>>
vars == <<file, source, unit, late, receipt, lock, run, sent, bounds>>

Units == {"archive", "timer"} \cup (IF Observer THEN {"observer"} ELSE {})
Files == Units \cup {"config"}

InstallEffects ==
    IF Observer THEN <<"install_reload", "enable_observer", "enable_timer">> ELSE <<"install_reload", "enable_timer">>
StopEffects ==
    IF Observer THEN <<"disable_timer", "stop_archive", "disable_observer">> ELSE <<"disable_timer", "stop_archive">>
Effects == {"install_reload", "enable_observer", "enable_timer", "disable_timer", "stop_archive",
            "disable_observer", "rollback_reload"}
UnitOf(e) == CASE e \in {"enable_timer", "disable_timer"} -> "timer"
               [] e = "stop_archive" -> "archive"
               [] e \in {"enable_observer", "disable_observer"} -> "observer"
               [] OTHER -> "none"

NoEffects == [e \in Effects |-> "none"]
NoReceipt == [phase |-> "none", effects |-> NoEffects]
NoRun == [cmd |-> "none", at |-> "none", next |-> 1, seen |-> NoReceipt, exists |-> {}]

TypeOK ==
    /\ file \in [Files -> {"absent", "ours", "foreign"}] /\ source \in BOOLEAN
    /\ unit \in [Units -> [active : BOOLEAN, enabled : BOOLEAN, cached : BOOLEAN]]
    /\ late \subseteq Effects
    /\ receipt \in [phase : {"none", "prepared", "installed", "rolling_back", "rolled_back"},
                    effects : [Effects -> {"none", "submitted", "done"}]]
    /\ receipt.phase \in {"none", "rolled_back"} => late = {}
    /\ lock \in Commands \cup {"none"} /\ (lock # "none" => run[lock].cmd # "none")
    /\ \A c \in Commands :
         /\ run[c].cmd \in {"none", "install", "rollback"} /\ run[c].next \in 1 .. 4 /\ run[c].exists \subseteq Units
         /\ run[c].at \in {"none", "lock", "begin", "files", "units", "call", "stop", "remove", "reload"}

Init ==
    /\ file = [f \in Files |-> "absent"] /\ source = TRUE /\ late = {}
    /\ unit = [u \in Units |-> [active |-> FALSE, enabled |-> FALSE, cached |-> FALSE]]
    /\ receipt = NoReceipt /\ lock = "none" /\ run = [c \in Commands |-> NoRun]
    /\ sent = [e \in Effects |-> 0] /\ bounds = [failures |-> 0, reboots |-> 0, edits |-> 0]

(***************************************************************************)
(* The host.                                                               *)
(***************************************************************************)

\* systemd knows a unit that it has loaded or whose file it finds.
Exists(u) == file[u] # "absent" \/ unit[u].cached

Fires ==
    /\ unit' = [unit EXCEPT !["archive"].active = ~ @] /\ (unit["archive"].active \/ unit["timer"].active)
    /\ UNCHANGED <<file, source, late, receipt, lock, run, sent, bounds>>

Dies ==
    /\ Observer /\ unit["observer"].active /\ unit' = [unit EXCEPT !["observer"].active = FALSE]
    /\ bounds.failures < MaxFailures /\ bounds' = [bounds EXCEPT !.failures = @ + 1]
    /\ UNCHANGED <<file, source, late, receipt, lock, run, sent>>

Reboots ==
    /\ bounds.reboots < MaxReboots /\ bounds' = [bounds EXCEPT !.reboots = @ + 1]
    /\ unit' = [u \in Units |-> [unit[u] EXCEPT !.active = unit[u].enabled /\ file[u] # "absent",
                                                !.cached = file[u] # "absent"]]
    /\ late' = {} /\ lock' = "none" /\ run' = [c \in Commands |-> NoRun]
    /\ UNCHANGED <<file, source, receipt, sent>>

\* Not between a check of the files and the writes or the removals after it.
Edits ==
    /\ bounds.edits < MaxEdits /\ bounds' = [bounds EXCEPT !.edits = @ + 1]
    /\ lock # "none" => run[lock].at \in {"units", "call", "stop"}
    /\ \/ \E f \in Files : file' = [file EXCEPT ![f] = "foreign"] /\ UNCHANGED source
       \/ source' = FALSE /\ UNCHANGED file
    /\ UNCHANGED <<unit, late, receipt, lock, run, sent>>

\* The operator starts and enables a unit by hand, between two commands.
ByHand ==
    /\ bounds.edits < MaxEdits /\ bounds' = [bounds EXCEPT !.edits = @ + 1] /\ \A c \in Commands : run[c].cmd = "none"
    /\ \E u \in Units \ {"archive"} :
         file[u] = "ours" /\ unit' = [unit EXCEPT ![u] = [active |-> TRUE, enabled |-> TRUE, cached |-> TRUE]]
    /\ UNCHANGED <<file, source, late, receipt, lock, run, sent>>

Applied(e) ==
    LET u == UnitOf(e) IN
      CASE u = "none" -> [v \in Units |-> [unit[v] EXCEPT !.cached = file[v] # "absent" \/ unit[v].active]]
        [] e \in {"enable_timer", "enable_observer"} ->
             IF file[u] = "absent" THEN unit ELSE [unit EXCEPT ![u] = [active |-> TRUE, enabled |-> TRUE, cached |-> TRUE]]
        [] OTHER -> [unit EXCEPT ![u].active = FALSE, ![u].enabled = FALSE]

Acts ==
    /\ \E e \in late : unit' = Applied(e) /\ late' = late \ {e}
    /\ UNCHANGED <<file, source, receipt, lock, run, sent, bounds>>

(***************************************************************************)
(* What a command checks before it takes the lock.                         *)
(***************************************************************************)

\* check_files: as the receipt says, or missing where that is allowed.
Checked(missing) == \A f \in Files : file[f] = "ours" \/ (missing /\ file[f] = "absent")
Occupied == \E f \in Files : file[f] # "absent"

Pending == \E e \in Effects : receipt.effects[e] = "submitted"

\* The archive's installer tells units that came back after it stopped them.
CameBack ==
    /\ ~ Observer /\ receipt.phase = "rolling_back"
    /\ \/ receipt.effects["disable_timer"] = "done" /\ (unit["timer"].active \/ unit["timer"].enabled)
       \/ receipt.effects["stop_archive"] = "done" /\ unit["archive"].active

FilesAgree == IF receipt.phase = "none" THEN ~ Occupied ELSE Checked(receipt.phase # "installed")

Preflight(cmd) ==
    /\ IF receipt.phase = "none" THEN cmd = "install" /\ \A u \in Units : ~ Exists(u)
       ELSE /\ ~ Pending /\ ~ CameBack
            /\ cmd = "install" => source /\ receipt.phase # "rolling_back"
            /\ cmd = "rollback" => (Observer => source) /\ receipt.phase # "rolled_back"
    /\ FilesAgree

Reads(c, cmd) ==
    /\ run[c].cmd = "none" /\ Preflight(cmd)
    /\ run' = [run EXCEPT ![c] = [NoRun EXCEPT !.cmd = cmd, !.at = "lock", !.seen = receipt,
                                               !.exists = {u \in Units : Exists(u)}]]
    /\ UNCHANGED <<host, receipt, lock, sent, bounds>>

Same(c) == receipt = run[c].seen

At(c, at) == run[c].at = at
Goes(c, at) == run' = [run EXCEPT ![c].at = at]
Ends(c) == run' = [run EXCEPT ![c] = NoRun] /\ lock' = IF lock = c THEN "none" ELSE lock

Locks(c) ==
    /\ At(c, "lock")
    /\ IF lock = "none" /\ Same(c) /\ FilesAgree THEN lock' = c /\ Goes(c, "begin") ELSE Ends(c)
    /\ UNCHANGED <<host, receipt, sent, bounds>>

Fails(c) ==
    /\ run[c].cmd # "none" /\ bounds.failures < MaxFailures /\ bounds' = [bounds EXCEPT !.failures = @ + 1]
    /\ Ends(c) /\ UNCHANGED <<host, receipt, sent>>

(***************************************************************************)
(* effect: a call is recorded, sent, and recorded as done.                 *)
(***************************************************************************)

\* Bug: only the result of a call is recorded.
SubmitsUnsaved(c, e) == Goes(c, "call") /\ UNCHANGED <<host, receipt, lock, sent, bounds>>

Submits(c, e) ==
    /\ receipt' = [receipt EXCEPT !.effects[e] = "submitted"] /\ Goes(c, "call")
    /\ UNCHANGED <<host, lock, sent, bounds>>

Listed(c) == IF run[c].cmd = "install" THEN InstallEffects ELSE StopEffects
Due(c) == IF run[c].next > Len(Listed(c)) THEN "rollback_reload" ELSE Listed(c)[run[c].next]
Stage(c) == IF run[c].cmd = "install" THEN "units" ELSE "stop"

\* The observer's installer looks again before each call.
Trusted == Observer => source /\ Checked(receipt.phase = "rolling_back")
Missing(c, e) == run[c].cmd = "rollback" /\ (IF Observer THEN ~ Exists(UnitOf(e)) ELSE UnitOf(e) \notin run[c].exists)

Calls(c) ==
    /\ At(c, Stage(c)) /\ run[c].next <= Len(Listed(c))
    /\ LET e == Due(c) IN
         IF receipt.effects[e] # "done" /\ ~ Trusted THEN Ends(c) /\ UNCHANGED <<host, receipt, sent, bounds>>
         ELSE IF receipt.effects[e] = "done" \/ Missing(c, e)
         THEN run' = [run EXCEPT ![c].next = @ + 1] /\ UNCHANGED <<host, receipt, lock, sent, bounds>>
         ELSE Submits(c, e)

Answered(c) ==
    LET e == Due(c) IN
      /\ At(c, "call") /\ unit' = Applied(e) /\ sent' = [sent EXCEPT ![e] = @ + 1]
      /\ receipt' = IF Observer /\ e = "rollback_reload" THEN receipt ELSE [receipt EXCEPT !.effects[e] = "done"]
      /\ IF e = "rollback_reload" THEN Goes(c, "reload")
         ELSE run' = [run EXCEPT ![c].at = Stage(c), ![c].next = @ + 1]
      /\ UNCHANGED <<file, source, late, lock, bounds>>

\* An error may come before, after or without the effect, or the effect later.
Unanswered(c) ==
    LET e == Due(c) IN
      /\ At(c, "call") /\ bounds.failures < MaxFailures /\ bounds' = [bounds EXCEPT !.failures = @ + 1]
      /\ sent' = [sent EXCEPT ![e] = @ + 1] /\ Ends(c)
      /\ \/ unit' \in {unit, Applied(e)} /\ UNCHANGED late
         \/ late' = late \cup {e} /\ UNCHANGED unit
      /\ UNCHANGED <<file, source, receipt>>

(***************************************************************************)
(* administer, under the lock.                                             *)
(***************************************************************************)

Records(c) ==
    IF run[c].cmd = "rollback" THEN [receipt EXCEPT !.phase = "rolling_back"]
    ELSE IF receipt.phase \in {"none", "rolled_back"} THEN [NoReceipt EXCEPT !.phase = "prepared"] ELSE receipt

Begins(c) ==
    /\ At(c, "begin") /\ receipt' = Records(c)
    /\ sent' = IF receipt'.phase = "prepared" /\ receipt.phase # "prepared" THEN [e \in Effects |-> 0] ELSE sent
    /\ Goes(c, IF run[c].cmd = "install" THEN "files" ELSE "stop")
    /\ UNCHANGED <<host, lock, bounds>>

Writes(c) ==
    /\ At(c, "files") /\ \E f \in Files : file[f] = "absent" /\ file' = [file EXCEPT ![f] = "ours"]
    /\ UNCHANGED <<source, unit, late, receipt, lock, run, sent, bounds>>

Written(c) ==
    /\ At(c, "files") /\ \A f \in Files : file[f] # "absent"
    /\ IF Checked(FALSE) THEN Goes(c, "units") /\ UNCHANGED lock ELSE Ends(c)
    /\ UNCHANGED <<host, receipt, sent, bounds>>

Started == \A u \in Units \ {"archive"} : unit[u].active /\ unit[u].enabled

Activated(c) ==
    /\ At(c, "units") /\ run[c].next > Len(InstallEffects) /\ Ends(c)
    /\ receipt' = IF Started THEN [receipt EXCEPT !.phase = "installed"] ELSE receipt
    /\ UNCHANGED <<host, sent, bounds>>

AtRest == \A u \in Units : ~ unit[u].active /\ ~ unit[u].enabled

Unchanged == Checked(TRUE)

Stopped(c) ==
    /\ At(c, "stop") /\ run[c].next > Len(StopEffects)
    /\ IF AtRest /\ Unchanged THEN Goes(c, "remove") /\ UNCHANGED lock ELSE Ends(c)
    /\ UNCHANGED <<host, receipt, sent, bounds>>

\* systemd may keep a unit whose file is gone until it is told to reload.
Removes(c) ==
    /\ At(c, "remove")
    /\ \E f \in Files : /\ file[f] # "absent" /\ file' = [file EXCEPT ![f] = "absent"]
                        /\ IF f \in Units THEN \E kept \in BOOLEAN : unit' = [unit EXCEPT ![f].cached = kept]
                           ELSE UNCHANGED unit
    /\ UNCHANGED <<source, late, receipt, lock, run, sent, bounds>>

Removed(c) ==
    /\ At(c, "remove") /\ \A f \in Files : file[f] = "absent"
    /\ IF receipt.effects["rollback_reload"] = "done"
       THEN Goes(c, "reload") /\ UNCHANGED <<host, receipt, lock, sent, bounds>>
       ELSE Submits(c, "rollback_reload")

\* The archive's receipt is removed, the observer's is kept as rolled back.
Closes(c) ==
    /\ At(c, "reload") /\ Ends(c)
    /\ receipt' = IF Observer THEN [receipt EXCEPT !.phase = "rolled_back", !.effects["rollback_reload"] = "done"]
                  ELSE NoReceipt
    /\ UNCHANGED <<host, sent, bounds>>

Next ==
    \/ Fires \/ Dies \/ Reboots \/ Edits \/ ByHand \/ Acts
    \/ \E c \in Commands :
         \/ \E cmd \in {"install", "rollback"} : Reads(c, cmd)
         \/ Locks(c) \/ Fails(c) \/ Calls(c) \/ Answered(c) \/ Unanswered(c)
         \/ Begins(c) \/ Writes(c) \/ Written(c) \/ Activated(c)
         \/ Stopped(c) \/ Removes(c) \/ Removed(c) \/ Closes(c)

Spec == Init /\ [][Next]_vars

(***************************************************************************)
(* Properties.                                                             *)
(***************************************************************************)

\* A systemctl call of one receipt is sent at most once, whichever command
\* sends it, whatever answer was lost and wherever the command died.
SentOnce == \A e \in Effects : sent[e] <= 1

\* What the installer wrote, and any call of it that is still to act, is
\* covered by an open receipt: nothing of its own is ever left behind.
Owned ==
    (\E f \in Files : file[f] = "ours") \/ late # {} => receipt.phase \in {"prepared", "installed", "rolling_back"}

\* A file is removed only while no unit runs, is enabled or can still be
\* started by a call that was sent earlier.
RemovedQuiet ==
    (\E f \in Files : file[f] # "absent" /\ file'[f] = "absent") =>
        /\ late \cap {"enable_timer", "enable_observer"} = {}
        /\ \A u \in Units : ~ unit[u].active /\ ~ unit[u].enabled

\* What somebody else put in the place of a file is not overwritten, and not
\* removed, by any command, even when it appears while the units are stopped.
ForeignKept == \A f \in Files : file[f] = "foreign" => file'[f] = "foreign"

\* What the installers promise in every state, and of every step.
InstallSafe == TypeOK /\ SentOnce /\ Owned
InstallStep == RemovedQuiet /\ ForeignKept

=============================================================================
