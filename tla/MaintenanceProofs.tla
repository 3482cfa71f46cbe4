--------------------------- MODULE MaintenanceProofs ---------------------------
(***************************************************************************)
(* Proofs about Maintenance: whatever fails, crashes or is asked again, a  *)
(* transaction of the catalog sends each native command once, runs one     *)
(* proxy at a time, keeps its receipt until the outcome is published and   *)
(* lets work through only on the generation that is in force.              *)
(***************************************************************************)
EXTENDS Maintenance, FiniteSetTheorems, TLAPS

USE DEF world, native, vars

-----------------------------------------------------------------------------
(* The inductive invariant *)

\* A command has an adapter once it was sent, and is on record before.
Sending ==
  /\ core.pc \in {"submit", "send", "ack"} => core.op \in Commands
  /\ core.pc = "identify" => core.op \in Starts /\ adapter[core.op] = "done"
  /\ core.pc \in {"send", "ack", "identify"} => core.op \in disk.fx
  /\ core.pc = "send" => adapter[core.op] = "none"
  /\ \A c \in Commands : /\ sends[c] = (IF adapter[c] = "none" THEN 0 ELSE 1)
                         /\ adapter[c] # "none" => c \in disk.fx
  /\ disk.acked \subseteq disk.fx

\* A proxy that was started, or may be, is one that its start record names.
Starting ==
  /\ \A op \in Starts :
       /\ record[op] # "none" => adapter[op] # "none"
       /\ adapter[op] = "done" => record[op] = "started"
       /\ op \in queued => record[op] = "submitted" /\ inst[Target[op]] = "none"
       /\ inst[Target[op]] # "none" => record[op] \in {"submitted", "started"}
  /\ "candidate" \in disk.ids => record["start_candidate"] \in {"submitted", "started"}

\* A start is submitted, or is about to be.
Asked(op) == op \in disk.fx \/ (core.pc = "submit" /\ core.op = op)

\* A proxy is asked for over predecessors that are settled for good.
Settling ==
  /\ Asked("start_candidate") => Retired("old")
  /\ Asked("start_base") => Retired("old") /\ AttemptSettled

\* Where the scheduler is in a transaction of each phase.
BasePc == {"base_publish", "base_receipt", "base_close"}
Placing ==
  /\ disk.phase \in {"none", "aborted"} => disk.fx = {} /\ core.pc \in {"idle", "down"}
  /\ core.pc \in {"marker", "bind"} => disk.fx = {} /\ disk.phase = "claimed"
  /\ core.pc \notin {"idle", "down", "marker", "bind", "submit"} => disk.fx # {}
  /\ core.pc \in {"receipt", "release"} => disk.phase = "published"
  /\ core.pc \in {"rc_receipt", "rc_release"} => disk.phase \in {"published", "released"}
  /\ core.pc = "finish" => disk.phase = "released"
  /\ disk.phase = "released" =>
       core.pc \in {"idle", "down", "finish", "rc_identify", "rc_prove", "rc_receipt", "rc_release"}
  /\ disk.phase = "rolled_back" => core.pc \in {"idle", "down"} \cup BasePc
  /\ disk.fx = {} => file # "candidate"

\* Once the base is asked for, nothing but its start and its publication goes on.
Returning ==
  /\ "start_base" \in disk.fx =>
       /\ core.pc \in {"idle", "down", "send", "ack", "identify", "rb_base"} \cup BasePc
       /\ core.pc \in {"send", "ack", "identify"} => core.op = "start_base"
  /\ core.pc \in {"rb_base"} \cup BasePc => "start_base" \in disk.fx
  /\ disk.stage = "base_verified" =>
       "start_base" \in disk.fx /\ core.pc \in {"idle", "down"} \cup BasePc
  /\ core.pc \in BasePc => disk.stage = "base_verified" \/ disk.phase = "rolled_back"

\* The receipt, from before the first effect to the outcome.
Receipted ==
  /\ core.pc = "bind" => marker
  /\ core.pc = "submit" /\ disk.fx = {} => marker
  /\ disk.phase = "aborted" => ~ marker
  /\ ReceiptKept

\* The generation that is shown.
Showing ==
  /\ disk.phase \in {"none", "claimed", "aborted"} /\ "start_base" \notin disk.fx => core.epoch = "old"
  /\ core.pc # "down" /\ disk.phase = "published" /\ "start_base" \notin disk.fx => core.epoch = "new"
  /\ core.pc # "down" /\ disk.phase = "released" => core.epoch = "new"
  /\ core.pc # "down" /\ disk.phase = "rolled_back" => core.epoch = "rollback"
  /\ core.pc \in {"base_receipt", "base_close"} => core.epoch = "rollback"

\* What stays of an outcome.
Outcome ==
  /\ disk.phase = "released" =>
       /\ "start_base" \notin disk.fx /\ file # "base" /\ Retired("old")
       /\ inst["candidate"] # "none" /\ loaded["candidate"] = "candidate"
       /\ Removal => lease = "released"
  /\ disk.phase = "rolled_back" =>
       /\ "start_base" \in disk.fx /\ file # "candidate"
       /\ inst["base"] # "none" /\ loaded["base"] = "base"
  /\ AccountAfterExit

Control == Sending /\ Starting /\ Settling /\ Placing /\ Returning
MaintenanceInv == TypeOK /\ Control /\ Receipted /\ Showing /\ Outcome

-----------------------------------------------------------------------------
(* Types *)

\* The types of the records without the elements of their sets.
PcSet == {"idle", "down", "marker", "bind", "submit", "send", "ack", "identify",
          "observe_old", "replace", "after", "adopt", "clean_exit", "prove",
          "receipt", "release", "finish", "rb_look", "rb_restore", "rb_write",
          "rb_start", "rb_base", "base_publish", "base_receipt", "base_close",
          "rc_identify", "rc_prove", "rc_receipt", "rc_release"}
CoreOps == Commands \cup {"none"}
Epochs == {"old", "new", "rollback"}
CoreSet == [pc : PcSet, op : CoreOps, fenced : BOOLEAN, latch : BOOLEAN, epoch : Epochs]
Phases == Closed \cup {"none", "claimed", "published"}
Stages == Commands \cup Closed
            \cup {"none", "claimed", "old_settled", "adopted", "rollback_settled",
                  "restore_config", "base_verified"}
Fx == SUBSET (Commands \cup {"restore_config"})
Acked == SUBSET Commands
Ids == SUBSET {"candidate", "base"}
Seen == SUBSET {"candidate", "absence", "base"}
DiskSet == [phase : Phases, bound : BOOLEAN, stage : Stages, fx : Fx, acked : Acked, ids : Ids,
            seen : Seen]
FaultSet == [crashes : 0 .. MaxCrashes, fails : 0 .. MaxFails, deaths : 0 .. MaxDeaths,
             edits : 0 .. MaxEdits]
WorldOK ==
  /\ inst \in [Servers -> {"none", "up", "stopping", "settled", "dead"}]
  /\ loaded \in [Servers -> {"none", "base", "candidate", "foreign"}]
  /\ unit \in {"active", "stopping", "exited"} /\ lease \in {"confirmed", "released"}
  /\ file \in {"base", "candidate", "foreign"} /\ marker \in BOOLEAN
NativeOK ==
  /\ adapter \in [Commands -> {"none", "running", "done", "over"}]
  /\ record \in [Starts -> {"none", "preparing", "aborted", "submitted", "started"}]
  /\ queued \subseteq Starts
  /\ sends \in [Commands -> Nat]

Typed == core \in CoreSet /\ disk \in DiskSet /\ WorldOK /\ NativeOK /\ faults \in FaultSet

LEMMA TypeIs == TypeOK <=> Typed
BY DEF TypeOK, Typed, CoreSet, PcSet, CoreOps, Epochs, DiskSet, Phases, Stages, Fx, Acked, Ids, Seen,
       WorldOK, NativeOK, FaultSet

LEMMA TypeNext == Typed' => TypeOK'
BY TypeIs, PTL

-----------------------------------------------------------------------------
(* What a step writes *)

Turns(pc, op, epoch) ==
  core' \in CoreSet /\ core'.pc = pc /\ core'.op = op /\ core'.epoch = epoch
Notes(phase, stage, fx, acked, ids) ==
  /\ disk' \in DiskSet
  /\ disk'.phase = phase /\ disk'.stage = stage /\ disk'.fx = fx /\ disk'.acked = acked
  /\ disk'.ids = ids

\* The scheduler goes on, or turns to a command.
LEMMA CoreGoes ==
  ASSUME core \in CoreSet, NEW pc \in PcSet, Go(pc)
  PROVE  Turns(pc, "none", core.epoch)
BY DEF CoreSet, CoreOps, Go, Turns
LEMMA CoreTurns ==
  ASSUME core \in CoreSet, NEW op \in Commands, Effect(op)
  PROVE  Turns("submit", op, core.epoch)
BY DEF CoreSet, CoreOps, PcSet, Effect, Turns

\* The scheduler comes up again with the generation that is on record.
LEMMA RestartTurns == ASSUME Restarts PROVE Turns("idle", "none", DurableEpoch)
<1>1. PICK fenced \in BOOLEAN : core' = [pc |-> "idle", op |-> "none", latch |-> FALSE,
                                         fenced |-> fenced, epoch |-> DurableEpoch]
  BY DEF Restarts
<1>2. DurableEpoch \in Epochs
  BY DEF DurableEpoch, Epochs
<1> QED BY <1>1, <1>2 DEF CoreSet, CoreOps, PcSet, Turns

\* Steps of the scheduler that write its checkpoint and nothing else.
LEMMA TypeCarried ==
  ASSUME Typed, core' \in CoreSet, disk' \in DiskSet,
         UNCHANGED <<world, lease, file, marker, native, sends, faults>>
  PROVE  TypeOK'
BY TypeNext DEF Typed, WorldOK, NativeOK

\* What has gone wrong is counted.
LEMMA FaultCounted ==
  ASSUME MaintenanceAssumption, faults \in FaultSet,
         \/ faults.crashes < MaxCrashes /\ faults' = [faults EXCEPT !.crashes = @ + 1]
         \/ faults.fails < MaxFails /\ faults' = [faults EXCEPT !.fails = @ + 1]
         \/ faults.deaths < MaxDeaths /\ faults' = [faults EXCEPT !.deaths = @ + 1]
         \/ faults.edits < MaxEdits /\ faults' = [faults EXCEPT !.edits = @ + 1]
  PROVE  faults' \in FaultSet
<1> USE DEF MaintenanceAssumption, FaultSet
<1>1. CASE faults.crashes < MaxCrashes /\ faults' = [faults EXCEPT !.crashes = @ + 1]
  BY <1>1
<1>2. CASE faults.fails < MaxFails /\ faults' = [faults EXCEPT !.fails = @ + 1]
  BY <1>2
<1>3. CASE faults.deaths < MaxDeaths /\ faults' = [faults EXCEPT !.deaths = @ + 1]
  BY <1>3
<1>4. CASE faults.edits < MaxEdits /\ faults' = [faults EXCEPT !.edits = @ + 1]
  BY <1>4
<1> QED BY <1>1, <1>2, <1>3, <1>4

\* An identity that a recovery finds is noted, or known already.
LEMMA IdentityNoted ==
  ASSUME disk \in DiskSet, RecoversIdentity
  PROVE  \/ disk' = disk
         \/ /\ AttemptBound("start_candidate") /\ inst["candidate"] = "up"
            /\ Notes(disk.phase, "adopted", disk.fx, disk.acked, disk.ids \cup {"candidate"})
<1>1. \/ disk' = disk
      \/ /\ AttemptBound("start_candidate") /\ inst["candidate"] = "up"
         /\ disk' = [disk EXCEPT !.ids = @ \cup {"candidate"}, !.stage = "adopted",
                                 !.seen = @ \cup {"candidate"}]
  BY DEF RecoversIdentity, CandidateValid
<1>2. /\ "adopted" \in Stages /\ disk.ids \cup {"candidate"} \in Ids
      /\ disk.seen \cup {"candidate"} \in Seen
  BY DEF DiskSet, Stages, Ids, Seen
<1> QED BY <1>1, <1>2 DEF DiskSet, Notes

-----------------------------------------------------------------------------
(* The steps *)

\* The transaction itself.
LEMMA Forwards ==
  ASSUME MaintenanceAssumption, MaintenanceInv, Forward
  PROVE  MaintenanceInv'
<1> USE DEF MaintenanceInv, Control, Sending, Starting, Asked, Settling, BasePc, Placing, Returning,
            Receipted, ReceiptKept, Showing, Outcome, AccountAfterExit, Retired, AttemptSettled,
            KnownUnsubmitted
<1>0. core \in CoreSet /\ disk \in DiskSet /\ WorldOK /\ NativeOK /\ faults \in FaultSet
  BY TypeIs DEF Typed
<1>1. CASE Claims
  <2>1. Turns("marker", core.op, core.epoch)
    BY <1>0, <1>1 DEF Claims, CoreSet, PcSet, Turns
  <2>2. Notes("claimed", "claimed", disk.fx, disk.acked, disk.ids)
    BY <1>0, <1>1 DEF Claims, DiskSet, Notes, Phases, Stages
  <2>3. TypeOK'
    BY <1>0, <1>1, <2>1, <2>2, TypeNext DEF Claims, Typed, WorldOK, NativeOK, Turns, Notes
  <2> QED BY <1>0, <1>1, <2>1, <2>2, <2>3 DEF Claims, At, Turns, Notes
<1>2. CASE Announces
  <2>1. Turns("bind", core.op, core.epoch)
    BY <1>0, <1>2 DEF Announces, CoreSet, PcSet, Turns
  <2>3. TypeOK'
    BY <1>0, <1>2, <2>1, TypeNext DEF Announces, Typed, WorldOK, NativeOK, Turns
  <2> QED BY <1>0, <1>2, <2>1, <2>3 DEF Announces, At, Turns
<1>3. CASE Binds
  <2>1. Turns("submit", "stop_old", core.epoch)
    BY <1>0, <1>3, CoreTurns DEF Binds, Commands, Starts, Stops
  <2>2. Notes(disk.phase, disk.stage, disk.fx, disk.acked, disk.ids)
    BY <1>0, <1>3 DEF Binds, DiskSet, Notes
  <2>3. TypeOK'
    BY <1>0, <1>3, <2>1, <2>2, TypeNext DEF Binds, Typed, WorldOK, NativeOK, Turns, Notes
  <2> QED BY <1>0, <1>3, <2>1, <2>2, <2>3 DEF Binds, At, Turns, Notes, Commands, Starts, Stops
<1>4. CASE Submits
  <2>1. Turns("send", core.op, core.epoch)
    BY <1>0, <1>4 DEF Submits, CoreSet, PcSet, Turns
  <2>2. Notes(disk.phase, core.op, disk.fx \cup {core.op}, disk.acked, disk.ids)
    <3>1. core.op \in Stages /\ disk.fx \cup {core.op} \in Fx
      BY <1>0, <1>4 DEF Submits, DiskSet, At, Stages, Fx
    <3> QED BY <1>0, <1>4, <3>1 DEF Submits, DiskSet, Notes
  <2>3. TypeOK'
    BY <1>0, <1>4, <2>1, <2>2, TypeNext DEF Submits, Typed, WorldOK, NativeOK, Turns, Notes
  <2> QED BY <1>0, <1>4, <2>1, <2>2, <2>3 DEF Submits, At, Turns, Notes, NotYet, Commands, Starts, Stops
<1>5. CASE Sends
  <2>1. Turns("ack", core.op, core.epoch)
    BY <1>0, <1>5 DEF Sends, CoreSet, PcSet, Turns
  <2>3. TypeOK'
    BY <1>0, <1>5, <2>1, TypeNext DEF Sends, Typed, WorldOK, NativeOK, Turns, At
  <2> QED BY <1>0, <1>5, <2>1, <2>3 DEF Sends, At, Turns, NativeOK, Commands, Starts, Stops
<1>6. CASE Acknowledges
  <2>1. Turns(AfterAck[core.op], core.op, core.epoch)
    BY <1>0, <1>6 DEF Acknowledges, CoreSet, PcSet, Turns, AfterAck, At, Commands, Starts, Stops
  <2>2. Notes(disk.phase, disk.stage, disk.fx, disk.acked \cup {core.op}, disk.ids)
    BY <1>0, <1>6 DEF Acknowledges, DiskSet, Notes, At, Acked
  <2>3. TypeOK'
    BY <1>0, <1>6, <2>1, <2>2, TypeNext DEF Acknowledges, Typed, WorldOK, NativeOK, Turns, Notes
  <2> QED BY <1>0, <1>6, <2>1, <2>2, <2>3 DEF Acknowledges, At, Turns, Notes, AfterAck, Commands,
             Starts, Stops
<1>7. CASE SettlesOld
  <2>1. Turns("replace", "none", core.epoch)
    BY <1>0, <1>7, CoreGoes DEF SettlesOld, PcSet
  <2>2. Notes(disk.phase, "old_settled", disk.fx, disk.acked, disk.ids)
    BY <1>0, <1>7 DEF SettlesOld, DiskSet, Notes, Stage, Stages
  <2>3. TypeOK'
    BY <1>0, <1>7, <2>1, <2>2, TypeNext DEF SettlesOld, Typed, WorldOK, NativeOK, Turns, Notes
  <2> QED BY <1>0, <1>7, <2>1, <2>2, <2>3 DEF SettlesOld, At, Turns, Notes, OldSettled
<1>8. CASE Replaces
  <2>1. Turns("after", "none", core.epoch)
    BY <1>0, <1>8, CoreGoes DEF Replaces, PcSet
  <2>3. TypeOK'
    BY <1>0, <1>8, <2>1, TypeNext DEF Replaces, Typed, WorldOK, NativeOK, Turns
  <2> QED BY <1>0, <1>8, <2>1, <2>3 DEF Replaces, At, Turns
<1>9. CASE StartsCandidate
  <2>1. Turns("submit", "start_candidate", core.epoch)
    BY <1>0, <1>9, CoreTurns DEF StartsCandidate, Commands, Starts, Stops
  <2>3. TypeOK'
    BY <1>0, <1>9, <2>1, TypeNext DEF StartsCandidate, Typed, WorldOK, NativeOK, Turns
  <2> QED BY <1>0, <1>9, <2>1, <2>3 DEF StartsCandidate, At, Turns, OldSettled, Commands, Starts, Stops
<1>10. CASE Identifies
  <2>1. Turns(IF core.op = "start_base" THEN "rb_base" ELSE "adopt", "none", core.epoch)
    BY <1>0, <1>10, CoreGoes DEF Identifies, PcSet
  <2>2. Notes(disk.phase, disk.stage, disk.fx, disk.acked, disk.ids \cup {Target[core.op]})
    BY <1>0, <1>10 DEF Identifies, DiskSet, Notes, At, Ids, Target, Starts
  <2>3. TypeOK'
    BY <1>0, <1>10, <2>1, <2>2, TypeNext DEF Identifies, Typed, WorldOK, NativeOK, Turns, Notes
  <2> QED BY <1>0, <1>10, <2>1, <2>2, <2>3 DEF Identifies, At, Turns, Notes, Target, Starts
<1>11. CASE Adopts
  <2>1. /\ Turns("submit", "stop_model", core.epoch) \/ Turns("prove", "none", core.epoch)
        /\ core' \in CoreSet
    <3>1. CASE Removal
      BY <1>0, <1>11, <3>1, CoreTurns DEF Adopts, Commands, Turns
    <3>2. CASE ~ Removal
      BY <1>0, <1>11, <3>2, CoreGoes DEF Adopts, PcSet, Turns
    <3> QED BY <3>1, <3>2
  <2>2. Notes(disk.phase, "adopted", disk.fx, disk.acked, disk.ids)
    BY <1>0, <1>11 DEF Adopts, DiskSet, Notes, Stages, Seen
  <2>3. TypeOK'
    BY <1>0, <1>11, <2>1, <2>2, TypeNext DEF Adopts, Typed, WorldOK, NativeOK, Notes
  <2> QED BY <1>0, <1>11, <2>1, <2>2, <2>3 DEF Adopts, At, Turns, Notes, Commands, Starts, Stops
<1>12. CASE ReleasesAccount
  <2>1. Turns("prove", "none", core.epoch)
    BY <1>0, <1>12, CoreGoes DEF ReleasesAccount, PcSet
  <2>3. TypeOK'
    BY <1>0, <1>12, <2>1, TypeNext DEF ReleasesAccount, Typed, WorldOK, NativeOK, Turns, GivesBack
  <2> QED BY <1>0, <1>12, <2>1, <2>3 DEF ReleasesAccount, At, Turns, GivesBack
<1>13. CASE Publishes
  <2>1. Turns("receipt", core.op, "new")
    BY <1>0, <1>13 DEF Publishes, Shows, CoreSet, CoreOps, PcSet, Epochs, Turns
  <2>2. Notes("published", disk.stage, disk.fx, disk.acked, disk.ids)
    BY <1>0, <1>13 DEF Publishes, DiskSet, Notes, Phases
  <2>3. TypeOK'
    BY <1>0, <1>13, <2>1, <2>2, TypeNext DEF Publishes, Typed, WorldOK, NativeOK, Turns, Notes
  <2> QED BY <1>0, <1>13, <2>1, <2>2, <2>3 DEF Publishes, At, Turns, Notes
<1>14. CASE RetiresReceipt
  <2>1. Turns("release", core.op, core.epoch)
    BY <1>0, <1>14 DEF RetiresReceipt, CoreSet, PcSet, Turns
  <2>3. TypeOK'
    BY <1>0, <1>14, <2>1, TypeNext DEF RetiresReceipt, Typed, WorldOK, NativeOK, Turns
  <2> QED BY <1>0, <1>14, <2>1, <2>3 DEF RetiresReceipt, At, Turns
<1>15. CASE Releases
  <2>1. Turns("finish", "none", core.epoch)
    BY <1>0, <1>15, CoreGoes DEF Releases, PcSet
  <2>2. Notes("released", disk.stage, disk.fx, disk.acked, disk.ids)
    BY <1>0, <1>15 DEF Releases, DiskSet, Notes, Phases, Closed
  <2>3. TypeOK'
    BY <1>0, <1>15, <2>1, <2>2, TypeNext DEF Releases, Typed, WorldOK, NativeOK, Turns, Notes
  <2> QED BY <1>0, <1>15, <2>1, <2>2, <2>3 DEF Releases, At, Turns, Notes, ReleaseReady, Proved,
             CandidateValid, CleanupConfirmed, BackendsConfirmed
<1>16. CASE Finishes
  <2>1. Turns("idle", "none", core.epoch)
    BY <1>0, <1>16 DEF Finishes, CoreSet, PcSet, Turns, CoreOps
  <2>2. Notes(disk.phase, "released", disk.fx, disk.acked, disk.ids)
    BY <1>0, <1>16 DEF Finishes, DiskSet, Notes, Stage, Stages, Closed
  <2>3. TypeOK'
    BY <1>0, <1>16, <2>1, <2>2, TypeNext DEF Finishes, Typed, WorldOK, NativeOK, Turns, Notes
  <2> QED BY <1>0, <1>16, <2>1, <2>2, <2>3 DEF Finishes, At, Turns, Notes
<1> QED BY <1>1, <1>2, <1>3, <1>4, <1>5, <1>6, <1>7, <1>8, <1>9, <1>10, <1>11, <1>12, <1>13, <1>14,
           <1>15, <1>16, Zenon DEF Forward

\* Explicit reconciliation.
LEMMA Reconciled ==
  ASSUME MaintenanceAssumption, MaintenanceInv, Reconciliation
  PROVE  MaintenanceInv'
<1> USE DEF MaintenanceInv, Control, Sending, Starting, Asked, Settling, BasePc, Placing, Returning,
            Receipted, ReceiptKept, Showing, Outcome, AccountAfterExit, Retired, AttemptSettled,
            KnownUnsubmitted
<1>0. core \in CoreSet /\ disk \in DiskSet /\ WorldOK /\ NativeOK /\ faults \in FaultSet
  BY TypeIs DEF Typed
<1>1. CASE AbortsUnstarted
  <2>1. Turns(core.pc, core.op, core.epoch)
    BY <1>0, <1>1 DEF AbortsUnstarted, CoreSet, PcSet, Turns
  <2>2. Notes("aborted", "aborted", disk.fx, disk.acked, disk.ids)
    BY <1>0, <1>1 DEF AbortsUnstarted, DiskSet, Notes, Phases, Stages, Closed
  <2>3. TypeOK'
    BY <1>0, <1>1, <2>1, <2>2, TypeNext DEF AbortsUnstarted, Typed, WorldOK, NativeOK, Turns, Notes
  <2> QED BY <1>0, <1>1, <2>1, <2>2, <2>3 DEF AbortsUnstarted, At, Turns, Notes
<1>2. CASE Reconciles
  <2>1. Turns("rc_identify", core.op, core.epoch)
    BY <1>0, <1>2 DEF Reconciles, CoreSet, PcSet, Turns
  <2>2. Notes(disk.phase, disk.stage, disk.fx, disk.acked, disk.ids)
    BY <1>0, <1>2 DEF Reconciles, DiskSet, Notes
  <2>3. TypeOK'
    BY <1>0, <1>2, <2>1, <2>2, TypeNext DEF Reconciles, Typed, WorldOK, NativeOK, Turns, Notes
  <2> QED BY <1>0, <1>2, <2>1, <2>2, <2>3 DEF Reconciles, At, Turns, Notes, Rolling
<1>3. CASE RecoversIdentity
  <2>1. Turns("rc_prove", "none", core.epoch)
    BY <1>0, <1>3, CoreGoes DEF RecoversIdentity, PcSet
  <2>2. \/ disk' = disk
        \/ /\ AttemptBound("start_candidate") /\ inst["candidate"] = "up"
           /\ Notes(disk.phase, "adopted", disk.fx, disk.acked, disk.ids \cup {"candidate"})
    BY <1>0, <1>3, IdentityNoted
  <2>3. TypeOK'
    BY <1>0, <1>3, <2>1, <2>2, TypeNext DEF RecoversIdentity, Typed, WorldOK, NativeOK, Turns, Notes
  <2> QED BY <1>0, <1>3, <2>1, <2>2, <2>3 DEF RecoversIdentity, AttemptBound, At, Turns, Notes
<1>4. CASE SettlesAccount
  <2>3. TypeOK'
    BY <1>0, <1>4, TypeNext DEF SettlesAccount, Typed, WorldOK, NativeOK, GivesBack
  <2> QED BY <1>0, <1>4, <2>3 DEF SettlesAccount, At, GivesBack
<1>5. CASE RecoversPublication
  <2>1. Turns("rc_receipt", core.op, "new")
    BY <1>0, <1>5 DEF RecoversPublication, Shows, CoreSet, CoreOps, PcSet, Epochs, Turns
  <2>2. \/ core.epoch = "new" /\ disk' = disk
        \/ core.epoch # "new" /\ Notes("published", disk.stage, disk.fx, disk.acked, disk.ids)
    BY <1>0, <1>5 DEF RecoversPublication, DiskSet, Notes, Phases
  <2>3. TypeOK'
    BY <1>0, <1>5, <2>1, <2>2, TypeNext DEF RecoversPublication, Typed, WorldOK, NativeOK, Turns, Notes
  <2>4. disk.phase \in {"none", "claimed", "published", "released", "aborted", "rolled_back"}
    BY <1>0 DEF DiskSet, Phases, Closed
  <2> QED BY <1>0, <1>5, <2>1, <2>2, <2>3, <2>4 DEF RecoversPublication, At, Turns, Notes
<1>6. CASE RecoversReceipt
  <2>1. Turns("rc_release", core.op, core.epoch)
    BY <1>0, <1>6 DEF RecoversReceipt, CoreSet, PcSet, Turns
  <2>3. TypeOK'
    BY <1>0, <1>6, <2>1, TypeNext DEF RecoversReceipt, Typed, WorldOK, NativeOK, Turns
  <2> QED BY <1>0, <1>6, <2>1, <2>3 DEF RecoversReceipt, At, Turns
<1>7. CASE RecoversRelease
  <2>1. Turns("finish", "none", core.epoch)
    BY <1>0, <1>7, CoreGoes DEF RecoversRelease, PcSet
  <2>2. Notes("released", disk.stage, disk.fx, disk.acked, disk.ids)
    BY <1>0, <1>7 DEF RecoversRelease, DiskSet, Notes, Phases, Closed
  <2>3. TypeOK'
    BY <1>0, <1>7, <2>1, <2>2, TypeCarried, SMTT(30) DEF RecoversRelease, Typed, Turns, Notes
  <2> QED BY <1>0, <1>7, <2>1, <2>2, <2>3 DEF RecoversRelease, At, Turns, Notes, ReleaseReady,
             Proved, CandidateValid, CleanupConfirmed, BackendsConfirmed
<1> QED BY <1>1, <1>2, <1>3, <1>4, <1>5, <1>6, <1>7 DEF Reconciliation

\* Explicit rollback.
LEMMA RolledBack ==
  ASSUME MaintenanceAssumption, MaintenanceInv, Rollback
  PROVE  MaintenanceInv'
<1> USE DEF MaintenanceInv, Control, Sending, Starting, Asked, Settling, BasePc, Placing, Returning,
            Receipted, ReceiptKept, Showing, Outcome, AccountAfterExit, Retired, AttemptSettled,
            KnownUnsubmitted
<1>0. core \in CoreSet /\ disk \in DiskSet /\ WorldOK /\ NativeOK /\ faults \in FaultSet
  BY TypeIs DEF Typed
<1>1. CASE RollsBack
  <2>1. Turns("rb_look", core.op, core.epoch)
    BY <1>0, <1>1 DEF RollsBack, CoreSet, PcSet, Turns
  <2>3. TypeOK'
    BY <1>0, <1>1, <2>1, TypeNext DEF RollsBack, Typed, WorldOK, NativeOK, Turns
  <2> QED BY <1>0, <1>1, <2>1, <2>3 DEF RollsBack, At, Turns, NotYet
<1>2. CASE StopsAttempt
  <2>1. Turns("submit", "stop_candidate", core.epoch)
    BY <1>0, <1>2, CoreTurns DEF StopsAttempt, Commands, Starts, Stops
  <2>2. Notes(disk.phase, disk.stage, disk.fx, disk.acked, disk.ids \cup {"candidate"})
    BY <1>0, <1>2 DEF StopsAttempt, DiskSet, Notes, Ids
  <2>3. TypeOK'
    BY <1>0, <1>2, <2>1, <2>2, TypeNext DEF StopsAttempt, Typed, WorldOK, NativeOK, Turns, Notes
  <2> QED BY <1>0, <1>2, <2>1, <2>2, <2>3 DEF StopsAttempt, At, Turns, Notes, AttemptBound, Target,
             Commands, Starts, Stops
<1>3. CASE SettlesAttempt
  <2>1. Turns("rb_restore", "none", core.epoch)
    BY <1>0, <1>3, CoreGoes DEF SettlesAttempt, PcSet
  <2>2. Notes(disk.phase, "rollback_settled", disk.fx, disk.acked, disk.ids)
    BY <1>0, <1>3 DEF SettlesAttempt, DiskSet, Notes, Stages, Seen
  <2>3. TypeOK'
    BY <1>0, <1>3, <2>1, <2>2, TypeNext DEF SettlesAttempt, Typed, WorldOK, NativeOK, Turns, Notes
  <2> QED BY <1>0, <1>3, <2>1, <2>2, <2>3 DEF SettlesAttempt, At, Turns, Notes
<1>4. CASE SubmitsRestore
  <2>1. CASE file = "base"
    <3>1. Turns("rb_start", "none", core.epoch) /\ disk' = disk
      BY <1>0, <1>4, <2>1, CoreGoes DEF SubmitsRestore, PcSet
    <3>2. TypeOK'
      BY <1>0, <1>4, <3>1, TypeNext DEF SubmitsRestore, Typed, WorldOK, NativeOK, Turns
    <3> QED BY <1>0, <1>4, <3>1, <3>2 DEF SubmitsRestore, At, Turns
  <2>2. CASE file # "base"
    <3>1. Turns("rb_write", "none", core.epoch)
      BY <1>0, <1>4, <2>2, CoreGoes DEF SubmitsRestore, PcSet
    <3>2. Notes(disk.phase, "restore_config", disk.fx \cup {"restore_config"}, disk.acked, disk.ids)
      <4>1. disk' = [disk EXCEPT !.fx = @ \cup {"restore_config"}, !.stage = "restore_config"]
        BY <1>4, <2>2 DEF SubmitsRestore
      <4> QED BY <1>0, <4>1 DEF DiskSet, Notes, Stages, Fx
    <3>3. TypeOK'
      BY <1>0, <1>4, <3>1, <3>2, TypeNext DEF SubmitsRestore, Typed, WorldOK, NativeOK, Turns, Notes
    <3> QED BY <1>0, <1>4, <3>1, <3>2, <3>3 DEF SubmitsRestore, At, Turns, Notes, Commands, Starts, Stops
  <2> QED BY <2>1, <2>2
<1>5. CASE RestoresBytes
  <2>1. Turns("rb_start", "none", core.epoch)
    BY <1>0, <1>5, CoreGoes DEF RestoresBytes, PcSet
  <2>3. TypeOK'
    BY <1>0, <1>5, <2>1, TypeNext DEF RestoresBytes, Typed, WorldOK, NativeOK, Turns
  <2> QED BY <1>0, <1>5, <2>1, <2>3 DEF RestoresBytes, At, Turns
<1>6. CASE StartsBase
  <2>1. Turns("submit", "start_base", core.epoch)
    BY <1>0, <1>6, CoreTurns DEF StartsBase, Commands, Starts, Stops
  <2>3. TypeOK'
    BY <1>0, <1>6, <2>1, TypeNext DEF StartsBase, Typed, WorldOK, NativeOK, Turns
  <2> QED BY <1>0, <1>6, <2>1, <2>3 DEF StartsBase, At, Turns, AttemptAbsent, OldSettled, Commands,
             Starts, Stops
<1>7. CASE VerifiesBase
  <2>1. Turns("base_publish", "none", core.epoch)
    BY <1>0, <1>7, CoreGoes DEF VerifiesBase, PcSet
  <2>2. Notes(disk.phase, "base_verified", disk.fx, disk.acked, disk.ids)
    BY <1>0, <1>7 DEF VerifiesBase, DiskSet, Notes, Stages, Seen
  <2>3. TypeOK'
    BY <1>0, <1>7, <2>1, <2>2, TypeNext DEF VerifiesBase, Typed, WorldOK, NativeOK, Turns, Notes
  <2> QED BY <1>0, <1>7, <2>1, <2>2, <2>3 DEF VerifiesBase, At, Turns, Notes
<1>8. CASE ResumesBase
  <2>1. Turns("base_publish", core.op, core.epoch)
    BY <1>0, <1>8 DEF ResumesBase, CoreSet, PcSet, Turns
  <2>2. Notes(disk.phase, IF disk.phase = "rolled_back" THEN disk.stage ELSE "base_verified",
              disk.fx, disk.acked, disk.ids \cup {"base"})
    BY <1>0, <1>8 DEF ResumesBase, DiskSet, Notes, Stages, Ids, Seen
  <2>3. TypeOK'
    BY <1>0, <1>8, <2>1, <2>2, TypeNext DEF ResumesBase, Typed, WorldOK, NativeOK, Turns, Notes
  <2> QED BY <1>0, <1>8, <2>1, <2>2, <2>3 DEF ResumesBase, At, Turns, Notes, Rolling
<1>9. CASE PublishesBase
  <2>1. Turns("base_receipt", core.op, "rollback")
    BY <1>0, <1>9 DEF PublishesBase, CoreSet, PcSet, Turns, Shows, CoreOps, Epochs
  <2>3. TypeOK'
    BY <1>0, <1>9, <2>1, TypeNext DEF PublishesBase, Typed, WorldOK, NativeOK, Turns
  <2> QED BY <1>0, <1>9, <2>1, <2>3 DEF PublishesBase, At, Turns
<1>10. CASE RetiresBaseReceipt
  <2>1. Turns("base_close", core.op, core.epoch)
    BY <1>0, <1>10 DEF RetiresBaseReceipt, CoreSet, PcSet, Turns
  <2>3. TypeOK'
    BY <1>0, <1>10, <2>1, TypeNext DEF RetiresBaseReceipt, Typed, WorldOK, NativeOK, Turns
  <2> QED BY <1>0, <1>10, <2>1, <2>3 DEF RetiresBaseReceipt, At, Turns
<1>11. CASE ClosesRollback
  <2>1. Turns("idle", "none", core.epoch)
    BY <1>0, <1>11 DEF ClosesRollback, CoreSet, PcSet, Turns, CoreOps
  <2>2. Notes("rolled_back", "rolled_back", disk.fx, disk.acked, disk.ids)
    BY <1>0, <1>11 DEF ClosesRollback, DiskSet, Notes, Phases, Stages, Closed
  <2>3. TypeOK'
    BY <1>0, <1>11, <2>1, <2>2, TypeCarried, SMTT(30) DEF ClosesRollback, Typed, Turns, Notes
  <2> QED BY <1>0, <1>11, <2>1, <2>2, <2>3 DEF ClosesRollback, At, Turns, Notes, BaseValid
<1> QED BY <1>1, <1>2, <1>3, <1>4, <1>5, <1>6, <1>7, <1>8, <1>9, <1>10, <1>11 DEF Rollback, RollbackSteps

\* The native adapter and what it starts and stops.
LEMMA Adapts ==
  ASSUME MaintenanceAssumption, MaintenanceInv, Adapter
  PROVE  MaintenanceInv'
<1> USE DEF MaintenanceInv, Control, Sending, Starting, Asked, Settling, BasePc, Placing, Returning,
            Receipted, ReceiptKept, Showing, Outcome, AccountAfterExit, Retired, AttemptSettled,
            KnownUnsubmitted
<1>0. core \in CoreSet /\ disk \in DiskSet /\ WorldOK /\ NativeOK /\ faults \in FaultSet
  BY TypeIs DEF Typed
<1>1. ASSUME NEW op \in Stops, Signals(op) PROVE MaintenanceInv'
  <2>3. TypeOK'
    BY <1>0, <1>1, TypeNext DEF Signals, Typed, WorldOK, NativeOK, Commands, Starts, Stops
  <2> QED BY <1>0, <1>1, <2>3 DEF Signals, At, Target, Servers, Commands, Starts, Stops
<1>2. ASSUME NEW s \in Servers, Exits(s) PROVE MaintenanceInv'
  <2>3. TypeOK'
    BY <1>0, <1>2, TypeNext DEF Exits, Typed, WorldOK, NativeOK
  <2> QED BY <1>0, <1>2, <2>3 DEF Exits, At, Target, Servers, Commands, Starts, Stops
<1>3. CASE StopsModel
  <2>3. TypeOK'
    BY <1>0, <1>3, TypeNext DEF StopsModel, Typed, WorldOK, NativeOK, Commands, Starts, Stops
  <2> QED BY <1>0, <1>3, <2>3 DEF StopsModel, At, Commands, Starts, Stops
<1>4. CASE ModelExits
  <2>3. TypeOK'
    BY <1>0, <1>4, TypeNext DEF ModelExits, Typed, WorldOK, NativeOK
  <2> QED BY <1>0, <1>4, <2>3 DEF ModelExits, At
<1>5. ASSUME NEW op \in Starts, Prepares(op) PROVE MaintenanceInv'
  <2>3. TypeOK'
    BY <1>0, <1>5, TypeNext DEF Prepares, Typed, WorldOK, NativeOK
  <2> QED BY <1>0, <1>5, <2>3 DEF Prepares, At, Commands, Starts, Stops
<1>6. ASSUME NEW op \in Starts, CommandsStart(op) PROVE MaintenanceInv'
  <2>3. TypeOK'
    BY <1>0, <1>6, TypeNext DEF CommandsStart, Typed, WorldOK, NativeOK
  <2> QED BY <1>0, <1>6, <2>3 DEF CommandsStart, At, NativeOK, Commands, Starts, Stops
<1>7. ASSUME NEW op \in Starts, Refuses(op) PROVE MaintenanceInv'
  <2>3. TypeOK'
    BY <1>0, <1>7, TypeNext DEF Refuses, Typed, WorldOK, NativeOK
  <2> QED BY <1>0, <1>7, <2>3 DEF Refuses, At, Commands, Starts, Stops
<1>8. ASSUME NEW op \in Starts, Boots(op) PROVE MaintenanceInv'
  <2>3. TypeOK'
    BY <1>0, <1>8, TypeNext DEF Boots, Typed, WorldOK, NativeOK
  <2> QED BY <1>0, <1>8, <2>3 DEF Boots, At, Target, Servers, Commands, Starts, Stops
<1>9. ASSUME NEW op \in Starts, Confirms(op) PROVE MaintenanceInv'
  <2>3. TypeOK'
    BY <1>0, <1>9, TypeNext DEF Confirms, Typed, WorldOK, NativeOK
  <2> QED BY <1>0, <1>9, <2>3 DEF Confirms, At, NativeOK, AttemptBound, Target, Commands, Starts, Stops
<1> QED BY <1>1, <1>2, <1>3, <1>4, <1>5, <1>6, <1>7, <1>8, <1>9 DEF Adapter

\* Failures.
LEMMA Suffers ==
  ASSUME MaintenanceAssumption, MaintenanceInv, Environment
  PROVE  MaintenanceInv'
<1> USE DEF MaintenanceInv, Control, Sending, Starting, Asked, Settling, BasePc, Placing, Returning,
            Receipted, ReceiptKept, Showing, Outcome, AccountAfterExit, Retired, AttemptSettled,
            KnownUnsubmitted
<1>0. core \in CoreSet /\ disk \in DiskSet /\ WorldOK /\ NativeOK /\ faults \in FaultSet
  BY TypeIs DEF Typed
<1>1. CASE Fails
  <2>1. Turns("idle", "none", core.epoch)
    BY <1>0, <1>1, CoreGoes DEF Fails, PcSet
  <2>3. TypeOK'
    BY <1>0, <1>1, <2>1, FaultCounted, TypeNext DEF Fails, Typed, WorldOK, NativeOK, Turns
  <2> QED BY <1>0, <1>1, <2>1, FaultCounted, <2>3 DEF Fails, At, Turns, Busy
<1>2. CASE Aborts
  <2>1. Turns("idle", "none", core.epoch)
    BY <1>0, <1>2 DEF Aborts, CoreSet, PcSet, Turns, CoreOps
  <2>2. Notes("aborted", "aborted", disk.fx, disk.acked, disk.ids)
    BY <1>0, <1>2 DEF Aborts, DiskSet, Notes, Phases, Stages, Closed
  <2>3. TypeOK'
    BY <1>0, <1>2, <2>1, <2>2, FaultCounted, TypeNext DEF Aborts, Typed, WorldOK, NativeOK, Turns, Notes
  <2> QED BY <1>0, <1>2, <2>1, <2>2, FaultCounted, <2>3 DEF Aborts, At, Turns, Notes, Fenced
<1>3. CASE Crash
  <2>1. Turns("down", "none", core.epoch)
    BY <1>0, <1>3 DEF Crash, CoreSet, PcSet, Turns, CoreOps
  <2>3. TypeOK'
    BY <1>0, <1>3, <2>1, FaultCounted, TypeNext DEF Crash, Typed, WorldOK, NativeOK, Turns
  <2> QED BY <1>0, <1>3, <2>1, FaultCounted, <2>3 DEF Crash, At, Turns
<1>4. CASE Restarts
  <2>1. Turns("idle", "none", DurableEpoch)
    BY <1>4, RestartTurns
  <2>3. TypeOK'
    BY <1>0, <1>4, <2>1, TypeNext DEF Restarts, Typed, WorldOK, NativeOK, Turns
  <2> QED BY <1>0, <1>4, <2>1, <2>3 DEF Restarts, At, Turns, DurableEpoch
<1>5. CASE Edits
  <2>3. TypeOK'
    BY <1>0, <1>5, FaultCounted, TypeNext DEF Edits, Typed, WorldOK, NativeOK
  <2> QED BY <1>0, <1>5, FaultCounted, <2>3 DEF Edits, At
<1>6. ASSUME NEW s \in Servers, Dies(s) PROVE MaintenanceInv'
  <2>3. TypeOK'
    BY <1>0, <1>6, FaultCounted, TypeNext DEF Dies, Typed, WorldOK, NativeOK
  <2> QED BY <1>0, <1>6, FaultCounted, <2>3 DEF Dies, At, Target, Servers, Commands, Starts, Stops
<1> QED BY <1>1, <1>2, <1>3, <1>4, <1>5, <1>6 DEF Environment

LEMMA MaintenanceInit == MaintenanceAssumption /\ Init => MaintenanceInv
<1> SUFFICES ASSUME MaintenanceAssumption, Init PROVE MaintenanceInv
  OBVIOUS
<1>1. TypeOK
  <2>1. core \in CoreSet
    BY DEF Init, CoreSet, CoreOps, PcSet, Epochs
  <2>2. disk \in DiskSet
    BY DEF Init, DiskSet, Phases, Stages, Fx, Acked, Ids, Seen
  <2>3. WorldOK /\ NativeOK
    BY DEF Init, WorldOK, NativeOK
  <2>4. faults \in FaultSet
    BY DEF Init, FaultSet, MaintenanceAssumption
  <2> QED BY <2>1, <2>2, <2>3, <2>4, TypeIs DEF Typed
<1>2. Control
  BY DEF Init, Control, Sending, Starting, Asked, Settling, BasePc, Placing, Returning, Target,
         Commands, Starts, Stops, Servers
<1>3. Receipted /\ Showing /\ Outcome
  BY DEF Init, Receipted, ReceiptKept, Showing, Outcome, AccountAfterExit, BasePc
<1> QED BY <1>1, <1>2, <1>3 DEF MaintenanceInv

LEMMA MaintenanceNext == MaintenanceAssumption /\ MaintenanceInv /\ [Next]_vars => MaintenanceInv'
<1> SUFFICES ASSUME MaintenanceAssumption, MaintenanceInv, [Next]_vars PROVE MaintenanceInv'
  OBVIOUS
<1>1. CASE Next
  BY <1>1, Forwards, Reconciled, RolledBack, Adapts, Suffers DEF Next
<1>2. CASE UNCHANGED vars
  <2>1. TypeOK'
    BY <1>2 DEF TypeOK, MaintenanceInv
  <2>2. Control'
    BY <1>2 DEF MaintenanceInv, Control, Sending, Starting, Asked, Settling, Placing, Returning,
                Retired, AttemptSettled, KnownUnsubmitted
  <2>3. Receipted' /\ Showing' /\ Outcome'
    BY <1>2 DEF MaintenanceInv, Receipted, ReceiptKept, Showing, Outcome, AccountAfterExit, Retired
  <2> QED BY <2>1, <2>2, <2>3 DEF MaintenanceInv
<1> QED BY <1>1, <1>2

-----------------------------------------------------------------------------
(* What a transaction promises *)

\* A successor is there only over predecessors that are settled.
LEMMA Successors ==
  ASSUME MaintenanceInv
  PROVE  /\ inst["candidate"] # "none" => inst["old"] = "settled"
         /\ inst["base"] # "none" => inst["old"] = "settled" /\ inst["candidate"] \in {"none", "settled"}
         /\ "start_base" \in disk.fx =>
              /\ inst["old"] = "settled" /\ inst["candidate"] \in {"none", "settled"}
              /\ record["start_candidate"] \notin {"none", "preparing"}
              /\ "start_candidate" \notin queued
BY DEF MaintenanceInv, Control, Sending, Starting, Asked, Settling, Retired, AttemptSettled,
       KnownUnsubmitted, Target, Commands, Starts, Stops

LEMMA OneUp == ASSUME MaintenanceInv PROVE OneServer
<1> DEFINE up == {s \in Servers : inst[s] = "up"}
<1>1. \A s, t \in up : s = t
  BY Successors DEF Servers
<1>2. Cardinality(up) <= 1
  <2>1. CASE up = {}
    BY <2>1, FS_EmptySet
  <2>2. CASE up # {}
    <3>1. PICK s : up = {s}
      BY <1>1, <2>2
    <3>2. Cardinality(up) = 1
      BY <3>1, FS_Singleton, Zenon
    <3> QED BY <3>2
  <2> QED BY <2>1, <2>2
<1> QED BY <1>2, Successors DEF OneServer

\* What is let through agrees with what is shown.
LEMMA Opened == ASSUME MaintenanceInv PROVE OpenAgrees
<1> SUFFICES ASSUME ~ Blocked, file # "foreign"
             PROVE  /\ file = IF core.epoch = "new" THEN "candidate" ELSE "base"
                    /\ queued = {}
                    /\ core.epoch = "old" => disk.fx = {}
                    /\ core.epoch = "rollback" => inst["candidate"] \in {"none", "settled"}
  BY DEF OpenAgrees
<1>1. core.pc # "down" /\ disk.phase \in {"none", "aborted", "released", "rolled_back"}
  BY DEF Blocked, CatalogPending, Closed
<1>2. file \in {"base", "candidate"} /\ queued \subseteq Starts
  BY DEF MaintenanceInv, TypeOK
<1>3. \A op \in queued : op \in disk.fx /\ inst[Target[op]] = "none"
  BY <1>2 DEF MaintenanceInv, Control, Sending, Starting, Starts, Commands
<1>4. CASE disk.phase \in {"none", "aborted"}
  <2>1. disk.fx = {} /\ core.epoch = "old" /\ file # "candidate"
    BY <1>4 DEF MaintenanceInv, Control, Placing, Showing
  <2> QED BY <1>2, <1>3, <2>1
<1>5. CASE disk.phase = "released"
  <2>1. /\ core.epoch = "new" /\ file # "base" /\ "start_base" \notin disk.fx
        /\ inst["candidate"] # "none"
    BY <1>1, <1>5 DEF MaintenanceInv, Showing, Outcome
  <2>2. queued = {}
    BY <1>2, <1>3, <2>1 DEF Starts, Target
  <2> QED BY <1>2, <2>1, <2>2
<1>6. CASE disk.phase = "rolled_back"
  <2>1. /\ core.epoch = "rollback" /\ file # "candidate" /\ "start_base" \in disk.fx
        /\ inst["base"] # "none"
    BY <1>1, <1>6 DEF MaintenanceInv, Showing, Outcome
  <2>2. queued = {}
    BY <1>2, <1>3, <2>1, Successors DEF Starts, Target
  <2> QED BY <1>2, <2>1, <2>2, Successors
<1> QED BY <1>1, <1>4, <1>5, <1>6

LEMMA MaintenanceKeepsSafe == MaintenanceInv => MaintenanceSafe
<1> SUFFICES ASSUME MaintenanceInv PROVE MaintenanceSafe
  OBVIOUS
<1>1. OnceEach
  BY DEF MaintenanceInv, Control, Sending, OnceEach
<1>2. AbortIsClean
  BY DEF MaintenanceInv, Control, Sending, Placing, Receipted, AbortIsClean
<1>3. RollbackIsFinal
  BY Successors DEF MaintenanceInv, Outcome, RollbackIsFinal
<1>4. ReleaseIsReal
  <2>1. "start_base" \in Commands
    BY DEF Commands, Starts
  <2> QED BY <2>1 DEF MaintenanceInv, Control, Sending, Outcome, Retired, ReleaseIsReal
<1> QED BY <1>1, <1>2, <1>3, <1>4, OneUp, Opened DEF MaintenanceInv, Receipted, Outcome, MaintenanceSafe

-----------------------------------------------------------------------------
(* What the store is asked for *)

\* The phase of a transaction whose scheduler is at a step.
LEMMA PhaseKnown ==
  ASSUME MaintenanceInv
  PROVE  /\ disk.phase \in {"none", "claimed", "published", "released", "aborted", "rolled_back"}
         /\ core.pc \notin {"idle", "down"} => disk.phase \notin {"none", "aborted"}
         /\ core.pc = "marker" => disk.phase = "claimed"
         /\ core.pc \in {"prove", "base_close"} => disk.phase # "released"
         /\ core.pc \in {"prove", "rc_prove", "rc_release"} => disk.phase # "rolled_back"
         /\ core.pc = "rc_release" => disk.phase \in {"published", "released"}
         /\ core.pc # "down" /\ disk.phase = "released" => core.epoch = "new"
<1>1. disk.phase \in Phases
  BY TypeIs DEF MaintenanceInv, Typed, DiskSet
<1> QED BY <1>1 DEF Phases, Closed, MaintenanceInv, Control, Placing, Showing, BasePc

\* A step that only notes progress.
LEMMA ProgressNoted ==
  ASSUME MaintenanceInv, NEW stage, NEW fx, NEW acked, NEW ids, NEW phase,
         Notes(phase, stage, fx, acked, ids), disk.fx \subseteq fx, disk.ids \subseteq ids,
         acked = disk.acked \/ (At("ack") /\ acked = disk.acked \cup {core.op})
  PROVE  ProgressAccepted /\ disk'.phase = phase
<1>1. disk.acked \subseteq disk.fx /\ (At("ack") => core.op \in disk.fx)
  BY DEF MaintenanceInv, Control, Sending, At
<1> QED BY <1>1 DEF Notes, ProgressAccepted

LEMMA Written == ASSUME MaintenanceInv, Next PROVE StoreAccepts
<1>0. disk \in DiskSet
  BY TypeIs DEF MaintenanceInv, Typed
<1>1. CASE Claims
  <2>1. Notes("claimed", "claimed", disk.fx, disk.acked, disk.ids)
    BY <1>0, <1>1 DEF Claims, DiskSet, Notes, Phases, Stages
  <2> QED BY <1>1, <2>1, ProgressNoted, PhaseKnown DEF Claims, At, StoreAccepts, PhaseAccepted
<1>2. CASE Binds
  <2>1. Notes(disk.phase, disk.stage, disk.fx, disk.acked, disk.ids)
    BY <1>0, <1>2 DEF Binds, DiskSet, Notes, Phases
  <2> QED BY <1>2, <2>1, ProgressNoted, PhaseKnown DEF Binds, At, StoreAccepts, PhaseAccepted
<1>3. CASE Submits
  <2>1. Notes(disk.phase, core.op, disk.fx \cup {core.op}, disk.acked, disk.ids)
    BY <1>0, <1>3 DEF Submits, DiskSet, Notes, Stages, Fx, At, MaintenanceInv, Control, Sending
  <2> QED BY <1>3, <2>1, ProgressNoted, PhaseKnown DEF Submits, At, StoreAccepts, PhaseAccepted
<1>4. CASE Acknowledges
  <2>1. Notes(disk.phase, disk.stage, disk.fx, disk.acked \cup {core.op}, disk.ids)
    BY <1>0, <1>4 DEF Acknowledges, DiskSet, Notes, Acked, At, MaintenanceInv, Control, Sending
  <2> QED BY <1>4, <2>1, ProgressNoted, PhaseKnown DEF Acknowledges, At, StoreAccepts, PhaseAccepted
<1>5. CASE SettlesOld
  <2>1. Notes(disk.phase, "old_settled", disk.fx, disk.acked, disk.ids)
    BY <1>0, <1>5 DEF SettlesOld, DiskSet, Notes, Stage, Stages
  <2> QED BY <1>5, <2>1, ProgressNoted, PhaseKnown DEF SettlesOld, At, StoreAccepts, PhaseAccepted
<1>6. CASE Identifies
  <2>1. Notes(disk.phase, disk.stage, disk.fx, disk.acked, disk.ids \cup {Target[core.op]})
    BY <1>0, <1>6 DEF Identifies, DiskSet, Notes, Ids, At, MaintenanceInv, Control, Sending, Starts, Target
  <2> QED BY <1>6, <2>1, ProgressNoted, PhaseKnown DEF Identifies, At, StoreAccepts, PhaseAccepted
<1>7. CASE Adopts
  <2>1. Notes(disk.phase, "adopted", disk.fx, disk.acked, disk.ids)
    BY <1>0, <1>7 DEF Adopts, DiskSet, Notes, Stages, Seen
  <2> QED BY <1>7, <2>1, ProgressNoted, PhaseKnown DEF Adopts, At, StoreAccepts, PhaseAccepted
<1>8. CASE Publishes
  <2>1. Notes("published", disk.stage, disk.fx, disk.acked, disk.ids)
    BY <1>0, <1>8 DEF Publishes, DiskSet, Notes, Phases
  <2> QED BY <1>8, <2>1, ProgressNoted, PhaseKnown DEF Publishes, At, StoreAccepts, PhaseAccepted
<1>9. CASE Releases
  <2>1. Notes("released", disk.stage, disk.fx, disk.acked, disk.ids)
    BY <1>0, <1>9 DEF Releases, DiskSet, Notes, Phases, Closed
  <2> QED BY <1>9, <2>1, ProgressNoted, PhaseKnown DEF Releases, At, StoreAccepts, PhaseAccepted
<1>10. CASE Finishes
  <2>1. Notes(disk.phase, "released", disk.fx, disk.acked, disk.ids)
    BY <1>0, <1>10 DEF Finishes, DiskSet, Notes, Stage, Stages, Closed
  <2> QED BY <1>10, <2>1, ProgressNoted, PhaseKnown DEF Finishes, At, StoreAccepts, PhaseAccepted
<1>11. CASE AbortsUnstarted
  <2>1. Notes("aborted", "aborted", disk.fx, disk.acked, disk.ids)
    BY <1>0, <1>11 DEF AbortsUnstarted, DiskSet, Notes, Phases, Stages, Closed
  <2> QED BY <1>11, <2>1, ProgressNoted, PhaseKnown DEF AbortsUnstarted, At, StoreAccepts, PhaseAccepted
<1>12. CASE Reconciles
  <2>1. Notes(disk.phase, disk.stage, disk.fx, disk.acked, disk.ids)
    BY <1>0, <1>12 DEF Reconciles, DiskSet, Notes, Phases
  <2> QED BY <1>12, <2>1, ProgressNoted, PhaseKnown DEF Reconciles, At, StoreAccepts, PhaseAccepted
<1>13. CASE RecoversIdentity
  <2>1. \/ Notes(disk.phase, disk.stage, disk.fx, disk.acked, disk.ids)
        \/ Notes(disk.phase, "adopted", disk.fx, disk.acked, disk.ids \cup {"candidate"})
    BY <1>0, <1>13, IdentityNoted DEF Notes
  <2> QED BY <2>1, ProgressNoted DEF StoreAccepts, PhaseAccepted
<1>14. CASE RecoversPublication
  <2>1. \/ Notes(disk.phase, disk.stage, disk.fx, disk.acked, disk.ids)
        \/ core.epoch # "new" /\ Notes("published", disk.stage, disk.fx, disk.acked, disk.ids)
    BY <1>0, <1>14 DEF RecoversPublication, DiskSet, Notes, Phases
  <2> QED BY <1>14, <2>1, ProgressNoted, PhaseKnown DEF RecoversPublication, At, StoreAccepts, PhaseAccepted
<1>15. CASE RecoversRelease
  <2>1. Notes("released", disk.stage, disk.fx, disk.acked, disk.ids)
    BY <1>0, <1>15 DEF RecoversRelease, DiskSet, Notes, Phases, Closed
  <2> QED BY <1>15, <2>1, ProgressNoted, PhaseKnown DEF RecoversRelease, At, StoreAccepts, PhaseAccepted
<1>16. CASE StopsAttempt
  <2>1. Notes(disk.phase, disk.stage, disk.fx, disk.acked, disk.ids \cup {"candidate"})
    BY <1>0, <1>16 DEF StopsAttempt, DiskSet, Notes, Ids
  <2> QED BY <1>16, <2>1, ProgressNoted, PhaseKnown DEF StopsAttempt, At, StoreAccepts, PhaseAccepted
<1>17. CASE SettlesAttempt
  <2>1. Notes(disk.phase, "rollback_settled", disk.fx, disk.acked, disk.ids)
    BY <1>0, <1>17 DEF SettlesAttempt, DiskSet, Notes, Stages, Seen
  <2> QED BY <1>17, <2>1, ProgressNoted, PhaseKnown DEF SettlesAttempt, At, StoreAccepts, PhaseAccepted
<1>18. CASE SubmitsRestore
  <2>1. \/ disk' = disk
        \/ disk' = [disk EXCEPT !.fx = @ \cup {"restore_config"}, !.stage = "restore_config"]
    BY <1>18 DEF SubmitsRestore
  <2>2. \/ Notes(disk.phase, disk.stage, disk.fx, disk.acked, disk.ids)
        \/ Notes(disk.phase, "restore_config", disk.fx \cup {"restore_config"}, disk.acked, disk.ids)
    <3>1. "restore_config" \in Stages /\ disk.fx \cup {"restore_config"} \in Fx
      BY <1>0 DEF DiskSet, Stages, Fx
    <3> QED BY <1>0, <2>1, <3>1 DEF DiskSet, Notes
  <2> QED BY <2>2, ProgressNoted DEF StoreAccepts, PhaseAccepted
<1>19. CASE VerifiesBase
  <2>1. Notes(disk.phase, "base_verified", disk.fx, disk.acked, disk.ids)
    BY <1>0, <1>19 DEF VerifiesBase, DiskSet, Notes, Stages, Seen
  <2> QED BY <1>19, <2>1, ProgressNoted, PhaseKnown DEF VerifiesBase, At, StoreAccepts, PhaseAccepted
<1>20. CASE ResumesBase
  <2>1. Notes(disk.phase, IF disk.phase = "rolled_back" THEN disk.stage ELSE "base_verified", disk.fx,
              disk.acked, disk.ids \cup {"base"})
    BY <1>0, <1>20 DEF ResumesBase, DiskSet, Notes, Stages, Ids, Seen
  <2> QED BY <2>1, ProgressNoted DEF StoreAccepts, PhaseAccepted
<1>21. CASE ClosesRollback
  <2>1. Notes("rolled_back", "rolled_back", disk.fx, disk.acked, disk.ids)
    BY <1>0, <1>21 DEF ClosesRollback, DiskSet, Notes, Phases, Stages, Closed
  <2> QED BY <1>21, <2>1, ProgressNoted, PhaseKnown DEF ClosesRollback, At, StoreAccepts, PhaseAccepted
<1>22. CASE Aborts
  <2>1. Notes("aborted", "aborted", disk.fx, disk.acked, disk.ids)
    BY <1>0, <1>22 DEF Aborts, DiskSet, Notes, Phases, Stages, Closed
  <2> QED BY <1>22, <2>1, ProgressNoted, PhaseKnown DEF Aborts, At, StoreAccepts, PhaseAccepted
<1>23. CASE \/ Announces \/ Sends \/ Replaces \/ StartsCandidate \/ ReleasesAccount \/ RetiresReceipt
           \/ SettlesAccount \/ RecoversReceipt \/ RollsBack \/ RestoresBytes \/ StartsBase
           \/ PublishesBase \/ RetiresBaseReceipt \/ Adapter \/ Fails \/ Crash \/ Restarts \/ Edits
           \/ \E s \in Servers : Dies(s)
  <2>1. disk' = disk
    BY <1>23 DEF Announces, Sends, Replaces, StartsCandidate, ReleasesAccount, RetiresReceipt,
       SettlesAccount,
      RecoversReceipt, RollsBack, RestoresBytes, StartsBase, PublishesBase, RetiresBaseReceipt, Fails, Crash,
      Restarts, Edits, Dies, Adapter, Signals, Exits, StopsModel, ModelExits, Prepares, CommandsStart, Refuses,
      Boots, Confirms
  <2>2. disk.acked \subseteq disk.fx
    BY DEF MaintenanceInv, Control, Sending
  <2> QED BY <2>1, <2>2 DEF StoreAccepts, PhaseAccepted, ProgressAccepted
<1> QED BY <1>1, <1>2, <1>3, <1>4, <1>5, <1>6, <1>7, <1>8, <1>9, <1>10, <1>11, <1>12, <1>13, <1>14,
           <1>15, <1>16, <1>17, <1>18, <1>19, <1>20, <1>21, <1>22, <1>23
         DEF Next, Forward, Reconciliation, Rollback, RollbackSteps, Environment

-----------------------------------------------------------------------------

\* Whatever fails, crashes or is asked again: each command is sent once, one proxy runs
\* at a time over settled predecessors, the receipt stays until the outcome is
\* published, and an abort, a rollback and a release are what they say.
THEOREM SafeHolds == ASSUME MaintenanceAssumption PROVE Spec => []MaintenanceSafe
<1>1. Init => MaintenanceInv
  BY MaintenanceInit
<1>2. MaintenanceInv /\ [Next]_vars => MaintenanceInv'
  BY MaintenanceNext
<1>3. MaintenanceInv => MaintenanceSafe
  BY MaintenanceKeepsSafe
<1> QED BY <1>1, <1>2, <1>3, PTL DEF Spec

\* No path of the transaction, of its recovery or of its rollback asks the store for a
\* step it refuses.
THEOREM StoreHolds == ASSUME MaintenanceAssumption PROVE Spec => [][StoreAccepts]_vars
<1>1. Init => MaintenanceInv
  BY MaintenanceInit
<1>2. MaintenanceInv /\ [Next]_vars => MaintenanceInv'
  BY MaintenanceNext
<1>3. MaintenanceInv /\ [Next]_vars => [StoreAccepts]_vars
  BY Written
<1> QED BY <1>1, <1>2, <1>3, PTL DEF Spec
===============================================================================
