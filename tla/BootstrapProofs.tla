---------------------------- MODULE BootstrapProofs ----------------------------
(***************************************************************************)
(* Proofs about the bootstrap: each effect is sent once, the new proxy      *)
(* starts only over the staged files and an absent predecessor, an abort    *)
(* leaves nothing, and the store is asked for no transition it refuses.     *)
(* BootInv relates the claim, the executors, the record on disk and the     *)
(* account in every step of the command, of its executors and of systemd.   *)
(***************************************************************************)
EXTENDS Bootstrap, TLAPS

Pcs == {"idle", "down", "submit", "send", "ack", "place", "admit", "start", "started", "monitor", "confirm",
        "confirmed", "activate", "finish", "look", "settle", "give_back"}
Cores == [pc : Pcs, op : Native \cup {"none"}, mode : Modes \cup {"run", "none"}]
Claimed == [stage : Phases, fx : [Effects -> {"none", "submitted", "acknowledged"}], lease : BOOLEAN, seen : BOOLEAN]
Sources == [old : {"up", "stopping", "gone"}, new : {"none", "queued", "up", "dead"}]
Marks == {"created", "stop", "absent", "activation", "start", "rollback", "rolled"}
Faulty == [crashes : 0 .. MaxCrashes, fails : 0 .. MaxFails, deaths : 0 .. MaxDeaths]
Executing == {"fragment", "stop", "wait", "install", "tag", "start", "observe", "restore"}
ExecutorStates == {"none", "check", "done", "over"} \cup Executing
Live == {"pending", "stale", "confirmed"}
Gone == {"none", "released"}

Types ==
    /\ core \in Cores /\ claim \in Claimed
    /\ account \in Live \cup Gone /\ unit \in {"none", "activating", "ready", "failed"}
    /\ source \in Sources /\ files \in {"before", "fragment", "partial", "after", "tagged"}
    /\ record \in SUBSET Marks /\ executor \in [Native -> ExecutorStates]
    /\ waiting \in {"none", "current", "rotated"}
    /\ sends \in [Effects -> {0, 1}] /\ faults \in Faulty

\* The stages of a claim whose default was launched, and of one with a lease.
Launched == {"start_submitted", "start_acknowledged", "health_observed", "confirm_submitted", "default_confirmed",
             "activate_submitted", "complete"}
Settled == {"default_confirmed", "activate_submitted", "complete"}

\* What the stage says of the submissions, the lease and the account.
Staging ==
    /\ claim.fx["launch"] # "none" <=> claim.stage \in Launched
    /\ claim.fx["activate"] # "none" <=> claim.stage \in {"activate_submitted", "complete"}
    /\ claim.stage \in {"none", "claimed"} => claim.fx["stage"] = "none"
    /\ claim.stage = "none" => claim.fx["rollback"] = "none"
    /\ claim.stage \in Launched \cup {"placed"} => claim.lease
    /\ claim.lease => claim.stage \in Launched \cup {"placed", "aborted"}
    /\ claim.lease <=> account # "none"
    /\ claim.stage \in Settled => account = "confirmed" /\ claim.seen /\ sends["launch"] = 1

\* An effect is sent after it was submitted, and its executor exists when it was sent.
Sending ==
    /\ \A e \in Effects : claim.fx[e] = "none" => sends[e] = 0
    /\ \A e \in Native : executor[e] = "none" <=> sends[e] = 0
    /\ unit # "none" => sends["launch"] = 1
    /\ core.pc = "submit" => core.op \in Native /\ claim.fx[core.op] = "none"
    /\ core.pc = "send" => core.op \in Native /\ claim.fx[core.op] # "none" /\ sends[core.op] = 0
    /\ core.pc = "ack" => core.op \in Native /\ claim.fx[core.op] # "none" /\ sends[core.op] = 1
    /\ core.pc = "start" => sends["launch"] = 0

\* The stage and the account where the command is.
RollingBack ==
    core.pc = "give_back" \/ (core.pc \in {"submit", "send", "ack"} /\ core.op = "rollback")
Placed ==
    /\ core.pc = "submit" /\ core.op = "stage" => claim.stage = "claimed"
    /\ core.pc \in {"send", "ack"} /\ core.op = "stage" => claim.stage = "stage_submitted"
    /\ core.pc = "submit" /\ core.op = "activate" => claim.stage = "default_confirmed"
    /\ core.pc \in {"send", "ack"} /\ core.op = "activate" => claim.stage = "activate_submitted"
    /\ RollingBack => claim.stage \notin Launched \cup {"none", "aborted"}
    /\ RollingBack /\ core.pc # "give_back" => account \in Gone
    /\ core.pc = "admit" => claim.stage = "placed"
    /\ core.pc = "start" => claim.stage = "start_submitted" /\ account \in {"pending", "stale"}
    /\ core.pc = "started" => claim.stage = "start_submitted"
    /\ core.pc = "monitor" => claim.stage \in {"start_acknowledged", "health_observed"}
    /\ core.pc \in {"confirm", "confirmed"} => claim.stage = "confirm_submitted"
    /\ core.pc = "activate" => claim.stage = "default_confirmed"
    /\ core.pc = "settle" => claim.seen
    /\ core.pc = "finish" => claim.stage = "activate_submitted"
    /\ core.pc = "place" => claim.stage # "none"
    /\ waiting = "current" => core.pc = "idle" /\ claim.stage # "none"

\* How far the executors are, by the marks of the record.
Filed ==
    /\ "created" \notin record => record = {} /\ files = "before" /\ source.old = "up" /\ source.new = "none"
    /\ executor["stage"] \in Executing =>
         record \cap {"activation", "rollback"} = {} /\ "created" \in record
    /\ executor["stage"] = "wait" => "stop" \in record
    /\ "stop" \notin record => source.old = "up"
    /\ "absent" \in record => source.old = "gone"
    /\ source.new # "none" => "start" \in record
    /\ executor["activate"] \in Executing => "activation" \in record
    /\ executor["activate"] \in {"start", "observe"} => "start" \in record
    /\ "start" \in record => "activation" \in record /\ files = "tagged"
    /\ "activation" \in record =>
         /\ "absent" \in record /\ "rolled" \notin record /\ executor["rollback"] # "restore"
         /\ executor["activate"] \notin {"none", "check"}
    /\ executor["rollback"] \in Executing => "rollback" \in record
    /\ "rollback" \in record => "created" \in record /\ executor["rollback"] \notin {"none", "check"}
    /\ "rolled" \in record => "rollback" \in record
    /\ executor["rollback"] = "done" => "rolled" \in record
    /\ executor["stage"] \notin {"tag", "start", "observe", "restore"}
    /\ executor["activate"] \notin {"fragment", "stop", "wait", "install", "restore"}
    /\ executor["rollback"] \notin Executing \ {"restore"}

\* What the end of a bootstrap left.
Ended ==
    /\ claim.stage = "complete" => source.new # "none"
    /\ claim.stage = "aborted" =>
         /\ files = "before" /\ "rolled" \in record /\ executor["rollback"] = "done"
         /\ account \in Gone /\ source.old # "stopping"

UnitHeld == unit \in {"activating", "ready"} => account \in Live

\* An executor that is in time restores only for a command that gave the account back.
Restoring == ~ LateStart =>
    /\ executor["rollback"] = "check" => core.pc = "ack" /\ core.op = "rollback"
    /\ executor["rollback"] \in {"restore", "done"} => account \in Gone

BootInv == Types /\ Staging /\ Sending /\ Placed /\ Filed /\ Ended /\ UnitHeld /\ Restoring

-----------------------------------------------------------------------------
(* What a step starts from *)

Known == BootInv /\ BootstrapAssumption

Typed ==
  /\ core \in Cores /\ claim \in Claimed /\ record \in SUBSET Marks /\ source \in Sources /\ faults \in Faulty
  /\ claim.fx \in [Effects -> {"none", "submitted", "acknowledged"}] /\ claim.stage \in Phases
  /\ claim.lease \in BOOLEAN /\ claim.seen \in BOOLEAN
  /\ executor \in [Native -> ExecutorStates] /\ sends \in [Effects -> {0, 1}]
  /\ Effects = {"stage", "launch", "activate", "rollback"} /\ Native = {"stage", "activate", "rollback"}
  /\ core.pc \in Pcs /\ core.op \in Native \cup {"none"}
LEMMA KnownTypes == Known => Typed
BY DEF Known, BootInv, Types, Typed, Cores, Claimed, Effects, Native

LEMMA PhasesAre ==
  Phases = Launched \cup {"claimed", "stage_submitted", "staged", "placing", "placed", "none", "aborted"}
<1>1. /\ DOMAIN Order = 1 .. 12
      /\ Order[1] = "claimed" /\ Order[2] = "stage_submitted" /\ Order[3] = "staged" /\ Order[4] = "placing"
      /\ Order[5] = "placed" /\ Order[6] = "start_submitted" /\ Order[7] = "start_acknowledged"
      /\ Order[8] = "health_observed" /\ Order[9] = "confirm_submitted" /\ Order[10] = "default_confirmed"
      /\ Order[11] = "activate_submitted" /\ Order[12] = "complete"
  BY DEF Order
<1>2. 1 .. 12 = {1, 2, 3, 4, 5, 6, 7, 8, 9, 10, 11, 12}
  OBVIOUS
<1>3. Phases = {Order[i] : i \in {1, 2, 3, 4, 5, 6, 7, 8, 9, 10, 11, 12}} \cup {"none", "aborted"}
  BY <1>1, <1>2 DEF Phases
<1> QED BY <1>1, <1>3 DEF Launched

\* The command goes on without an effect in hand.
LEMMA GoIs ==
  ASSUME core \in Cores, NEW pc \in Pcs, Go(pc)
  PROVE  core' \in Cores /\ core'.pc = pc /\ core'.op = "none" /\ core'.mode = core.mode
<1> DEFINE c == [core EXCEPT !.pc = pc, !.op = "none"]
<1>1. c = [[core EXCEPT !.pc = pc] EXCEPT !.op = "none"]
  OBVIOUS
<1>2. core' = c
  BY DEF Go
<1> QED BY <1>1, <1>2 DEF Cores

-----------------------------------------------------------------------------
(* The command: run *)

\* A command that only goes on.
LEMMA GoKeeps ==
  ASSUME Known, NEW pc \in Pcs, Go(pc), UNCHANGED <<claim, account, unit, source, files, record, executor, waiting, sends, faults>>,
         pc \notin {"submit", "send", "ack", "give_back", "start", "place"},
         pc = "admit" => claim.stage = "placed",
         pc = "started" => claim.stage = "start_submitted",
         pc = "monitor" => claim.stage \in {"start_acknowledged", "health_observed"},
         pc \in {"confirm", "confirmed"} => claim.stage = "confirm_submitted",
         pc = "activate" => claim.stage = "default_confirmed",
         pc = "settle" => claim.seen,
         pc = "finish" => claim.stage = "activate_submitted",
         waiting = "current" => pc = "idle",
         ~ LateStart => executor["rollback"] # "check"
  PROVE  BootInv'
<1>0. BootInv /\ Typed
  BY KnownTypes DEF Known
<1>1. core' \in Cores /\ core'.pc = pc /\ core'.op = "none"
  BY <1>0, GoIs DEF Typed
<1>2. Types'
  BY <1>0, <1>1 DEF BootInv, Types
<1>3. Staging'
  BY <1>0, <1>1 DEF BootInv, Typed, Staging, Launched, Settled
<1>4. Sending'
  BY <1>0, <1>1 DEF BootInv, Typed, Sending
<1>5. Placed'
  BY <1>0, <1>1 DEF BootInv, Typed, Placed, RollingBack, Launched
<1>6. Filed'
  BY <1>0, <1>1 DEF BootInv, Typed, Filed, Executing
<1>7. Ended'
  BY <1>0, <1>1 DEF BootInv, Typed, Ended
<1>8. UnitHeld'
  BY <1>0, <1>1 DEF BootInv, Typed, UnitHeld
<1>9. Restoring'
  BY <1>0, <1>1 DEF BootInv, Typed, Restoring
<1> QED BY <1>2, <1>3, <1>4, <1>5, <1>6, <1>7, <1>8, <1>9 DEF BootInv

\* The claim comes before any effect.
LEMMA ClaimsKeep ==
  ASSUME Known, Claims
  PROVE  BootInv'
<1>0. BootInv /\ Typed
  BY KnownTypes DEF Known
<1>1. UNCHANGED <<account, unit, source, files, record, executor, waiting, sends, faults>> /\ claim.stage = "none" /\ core.pc = "idle"
  BY <1>0 DEF Claims, At, world, Pending, Submitted
<1>2. core' \in Cores /\ core'.pc = "submit" /\ core'.op = "stage"
  BY <1>0 DEF Claims, Cores, Pcs, Typed
<1>3. /\ claim' \in Claimed /\ claim'.stage = "claimed" /\ claim'.fx = claim.fx
      /\ claim'.lease = claim.lease /\ claim'.seen = claim.seen
  BY <1>0, PhasesAre DEF Claims, Stage, Claimed, Typed, Launched
<1>4. Types'
  BY <1>0, <1>1, <1>2, <1>3 DEF BootInv, Types
<1>5. Staging'
  BY <1>0, <1>1, <1>2, <1>3 DEF BootInv, Typed, Staging, Launched, Settled, Sending
<1>6. Sending'
  BY <1>0, <1>1, <1>2, <1>3 DEF BootInv, Typed, Sending, Staging
<1>7. Placed'
  BY <1>0, <1>1, <1>2, <1>3 DEF BootInv, Typed, Placed, RollingBack, Launched
<1>8. Filed'
  BY <1>0, <1>1, <1>2, <1>3 DEF BootInv, Typed, Filed, Executing
<1>9. Ended'
  BY <1>0, <1>1, <1>2, <1>3 DEF BootInv, Typed, Ended
<1>10. UnitHeld'
  BY <1>0, <1>1, <1>2, <1>3 DEF BootInv, Typed, UnitHeld
<1>11. Restoring'
  BY <1>0, <1>1, <1>2, <1>3 DEF BootInv, Typed, Restoring
<1> QED BY <1>4, <1>5, <1>6, <1>7, <1>8, <1>9, <1>10, <1>11 DEF BootInv

\* A submission is durable before the executor is called.
LEMMA SubmitsKeep ==
  ASSUME Known, Submits
  PROVE  BootInv'
<1>0. BootInv /\ Typed
  BY KnownTypes DEF Known
<1>1. UNCHANGED <<account, unit, source, files, record, executor, waiting, sends, faults>> /\ core.pc = "submit"
  BY <1>0 DEF Submits, At, world, Pending, Submitted
<1>2. core.op \in Native /\ claim.fx[core.op] = "none"
  BY <1>0, <1>1 DEF BootInv, Sending
<1>3. core' \in Cores /\ core'.pc = "send" /\ core'.op = core.op
  BY <1>0, <1>2 DEF Submits, Cores, Pcs, Typed
<1>4. /\ claim' \in Claimed /\ claim'.fx = [claim.fx EXCEPT ![core.op] = "submitted"]
      /\ claim'.lease = claim.lease /\ claim'.seen = claim.seen
      /\ core.op = "stage" => claim'.stage = "stage_submitted"
      /\ core.op = "activate" => claim'.stage = "activate_submitted"
      /\ core.op = "rollback" => claim'.stage = claim.stage
  <2> DEFINE st == IF core.op = "rollback" THEN claim.stage ELSE StageOf[core.op]
             fx == [claim.fx EXCEPT ![core.op] = "submitted"]
             next == [[claim EXCEPT !.fx = fx] EXCEPT !.stage = st]
  <2>1. core.op = "stage" => st = "stage_submitted"
    BY DEF StageOf
  <2>2. core.op = "activate" => st = "activate_submitted"
    BY DEF StageOf
  <2>3. st \in Phases
    BY <1>0, <1>2, <2>1, <2>2, PhasesAre DEF Typed, Launched
  <2>4. fx \in [Effects -> {"none", "submitted", "acknowledged"}]
    BY <1>0 DEF Typed
  <2>5. claim' = next
    BY <1>0, <1>2 DEF Submits, Typed, Claimed
  <2> HIDE DEF st, fx
  <2>6. next \in Claimed /\ next.fx = fx /\ next.stage = st /\ next.lease = claim.lease /\ next.seen = claim.seen
    BY <1>0, <2>3, <2>4 DEF Claimed, Typed
  <2> QED BY <2>1, <2>2, <2>5, <2>6 DEF st, fx
<1>5. /\ core.op = "stage" => claim.stage = "claimed"
      /\ core.op = "activate" => claim.stage = "default_confirmed"
      /\ core.op = "rollback" => claim.stage \notin Launched \cup {"none", "aborted"} /\ account \in Gone
  BY <1>0, <1>1 DEF BootInv, Placed, RollingBack
<1>6. Types'
  BY <1>0, <1>1, <1>2, <1>3, <1>4, <1>5 DEF BootInv, Types
<1>7. Staging'
  BY <1>0, <1>1, <1>2, <1>3, <1>4, <1>5 DEF BootInv, Typed, Staging, Launched, Settled
<1>8. Sending'
  BY <1>0, <1>1, <1>2, <1>3, <1>4, <1>5 DEF BootInv, Typed, Sending
<1>9. Placed'
  BY <1>0, <1>1, <1>2, <1>3, <1>4, <1>5 DEF BootInv, Typed, Placed, RollingBack, Launched
<1>10. Filed'
  BY <1>0, <1>1, <1>2, <1>3, <1>4, <1>5 DEF BootInv, Typed, Filed, Executing
<1>11. Ended'
  BY <1>0, <1>1, <1>2, <1>3, <1>4, <1>5 DEF BootInv, Typed, Ended, Launched
<1>12. UnitHeld'
  BY <1>0, <1>1, <1>2, <1>3, <1>4, <1>5 DEF BootInv, Typed, UnitHeld
<1>13. Restoring'
  BY <1>0, <1>1, <1>2, <1>3, <1>4, <1>5 DEF BootInv, Typed, Restoring
<1> QED BY <1>6, <1>7, <1>8, <1>9, <1>10, <1>11, <1>12, <1>13 DEF BootInv

\* The executor of an effect is started once.
LEMMA SendsKeep ==
  ASSUME Known, Sends
  PROVE  BootInv'
<1>0. BootInv /\ Typed
  BY KnownTypes DEF Known
<1>1. UNCHANGED <<claim, account, unit, source, files, record, waiting, faults>> /\ core.pc = "send"
  BY <1>0 DEF Sends, At, world, Pending, Submitted
<1>2. core.op \in Native /\ claim.fx[core.op] # "none" /\ sends[core.op] = 0 /\ executor[core.op] = "none"
  BY <1>0, <1>1 DEF BootInv, Sending, Typed
<1>3. core' \in Cores /\ core'.pc = "ack" /\ core'.op = core.op
  BY <1>0 DEF Sends, Cores, Pcs, Typed
<1>4. /\ executor' = [executor EXCEPT ![core.op] = "check"] /\ executor' \in [Native -> ExecutorStates]
      /\ sends' = [sends EXCEPT ![core.op] = 1] /\ sends' \in [Effects -> {0, 1}]
  BY <1>0, <1>2 DEF Sends, Typed, ExecutorStates
<1>5. Types'
  BY <1>0, <1>1, <1>2, <1>3, <1>4 DEF BootInv, Types
<1>6. Staging'
  BY <1>0, <1>1, <1>2, <1>3, <1>4 DEF BootInv, Typed, Staging, Launched, Settled
<1>7. Sending'
  BY <1>0, <1>1, <1>2, <1>3, <1>4 DEF BootInv, Typed, Sending
<1>8. Placed'
  BY <1>0, <1>1, <1>2, <1>3, <1>4 DEF BootInv, Typed, Placed, RollingBack, Launched
<1>9. Filed'
  BY <1>0, <1>1, <1>2, <1>3, <1>4 DEF BootInv, Typed, Filed, Executing
<1>10. Ended'
  BY <1>0, <1>1, <1>2, <1>3, <1>4 DEF BootInv, Typed, Ended
<1>11. UnitHeld'
  BY <1>0, <1>1, <1>2, <1>3, <1>4 DEF BootInv, Typed, UnitHeld
<1>12. Restoring'
  BY <1>0, <1>1, <1>2, <1>3, <1>4 DEF BootInv, Typed, Restoring
<1> QED BY <1>5, <1>6, <1>7, <1>8, <1>9, <1>10, <1>11, <1>12 DEF BootInv

\* The staged files are acknowledged.
LEMMA StageAckKeeps ==
  ASSUME Known, StageAcknowledged
  PROVE  BootInv'
<1>0. BootInv /\ Typed
  BY KnownTypes DEF Known
<1>1. UNCHANGED <<account, unit, source, files, record, executor, waiting, sends, faults>> /\ core.pc = "ack" /\ core.op = "stage"
  BY <1>0 DEF StageAcknowledged, At, world, Pending, Submitted
<1>2. core' \in Cores /\ core'.pc = "look" /\ core'.op = "none"
  BY <1>0, GoIs DEF StageAcknowledged, Pcs, Typed
<1>3. /\ claim' \in Claimed /\ claim'.stage = "staged" /\ claim'.fx = [claim.fx EXCEPT !["stage"] = "acknowledged"]
      /\ claim'.lease = claim.lease /\ claim'.seen = claim.seen
  BY <1>0, PhasesAre DEF StageAcknowledged, Stage, Claimed, Typed, Launched
<1>4. claim.stage = "stage_submitted"
  BY <1>0, <1>1 DEF BootInv, Placed
<1>5. Types'
  BY <1>0, <1>1, <1>2, <1>3, <1>4 DEF BootInv, Types
<1>6. Staging'
  BY <1>0, <1>1, <1>2, <1>3, <1>4 DEF BootInv, Typed, Staging, Launched, Settled
<1>7. Sending'
  BY <1>0, <1>1, <1>2, <1>3, <1>4 DEF BootInv, Typed, Sending
<1>8. Placed'
  BY <1>0, <1>1, <1>2, <1>3, <1>4 DEF BootInv, Typed, Placed, RollingBack, Launched
<1>9. Filed'
  BY <1>0, <1>1, <1>2, <1>3, <1>4 DEF BootInv, Typed, Filed, Executing
<1>10. Ended'
  BY <1>0, <1>1, <1>2, <1>3, <1>4 DEF BootInv, Typed, Ended
<1>11. UnitHeld'
  BY <1>0, <1>1, <1>2, <1>3, <1>4 DEF BootInv, Typed, UnitHeld
<1>12. Restoring'
  BY <1>0, <1>1, <1>2, <1>3, <1>4 DEF BootInv, Typed, Restoring
<1> QED BY <1>5, <1>6, <1>7, <1>8, <1>9, <1>10, <1>11, <1>12 DEF BootInv

\* The activation is acknowledged.
LEMMA ActivateAckKeeps ==
  ASSUME Known, ActivateAcknowledged
  PROVE  BootInv'
<1>0. BootInv /\ Typed
  BY KnownTypes DEF Known
<1>1. UNCHANGED <<account, unit, source, files, record, executor, waiting, sends, faults>> /\ core.pc = "ack" /\ core.op = "activate"
  BY <1>0 DEF ActivateAcknowledged, At, world, Pending, Submitted
<1>2. core' \in Cores /\ core'.pc = "finish" /\ core'.op = "none"
  BY <1>0, GoIs DEF ActivateAcknowledged, Pcs, Typed
<1>3. /\ claim' \in Claimed /\ claim'.stage = claim.stage /\ claim'.fx = [claim.fx EXCEPT !["activate"] = "acknowledged"]
      /\ claim'.lease = claim.lease /\ claim'.seen = claim.seen
  BY <1>0, PhasesAre DEF ActivateAcknowledged, Stage, Claimed, Typed, Launched
<1>4. claim.stage = "activate_submitted" /\ claim.fx["activate"] # "none"
  BY <1>0, <1>1 DEF BootInv, Placed, Staging
<1>5. Types'
  BY <1>0, <1>1, <1>2, <1>3, <1>4 DEF BootInv, Types
<1>6. Staging'
  BY <1>0, <1>1, <1>2, <1>3, <1>4 DEF BootInv, Typed, Staging, Launched, Settled
<1>7. Sending'
  BY <1>0, <1>1, <1>2, <1>3, <1>4 DEF BootInv, Typed, Sending
<1>8. Placed'
  BY <1>0, <1>1, <1>2, <1>3, <1>4 DEF BootInv, Typed, Placed, RollingBack, Launched
<1>9. Filed'
  BY <1>0, <1>1, <1>2, <1>3, <1>4 DEF BootInv, Typed, Filed, Executing
<1>10. Ended'
  BY <1>0, <1>1, <1>2, <1>3, <1>4 DEF BootInv, Typed, Ended
<1>11. UnitHeld'
  BY <1>0, <1>1, <1>2, <1>3, <1>4 DEF BootInv, Typed, UnitHeld
<1>12. Restoring'
  BY <1>0, <1>1, <1>2, <1>3, <1>4 DEF BootInv, Typed, Restoring
<1> QED BY <1>5, <1>6, <1>7, <1>8, <1>9, <1>10, <1>11, <1>12 DEF BootInv

\* The launcher is about to place.
LEMMA PlacingKeeps ==
  ASSUME Known, Placing
  PROVE  BootInv'
<1>0. BootInv /\ Typed
  BY KnownTypes DEF Known
<1>1. UNCHANGED <<account, unit, source, files, record, executor, waiting, sends, faults>> /\ core.pc = "look" /\ claim.stage \in {"staged", "placing"}
  BY <1>0 DEF Placing, At, world, Pending, Submitted
<1>2. core' \in Cores /\ core'.pc = "place" /\ core'.op = "none"
  BY <1>0, GoIs DEF Placing, Pcs, Typed
<1>3. /\ claim' \in Claimed /\ claim'.stage = "placing" /\ claim'.fx = claim.fx
      /\ claim'.lease = claim.lease /\ claim'.seen = claim.seen
  BY <1>0, PhasesAre DEF Placing, Stage, Claimed, Typed, Launched
<1>4. Types'
  BY <1>0, <1>1, <1>2, <1>3 DEF BootInv, Types
<1>5. Staging'
  BY <1>0, <1>1, <1>2, <1>3 DEF BootInv, Typed, Staging, Launched, Settled
<1>6. Sending'
  BY <1>0, <1>1, <1>2, <1>3 DEF BootInv, Typed, Sending
<1>7. Placed'
  BY <1>0, <1>1, <1>2, <1>3 DEF BootInv, Typed, Placed, RollingBack, Launched
<1>8. Filed'
  BY <1>0, <1>1, <1>2, <1>3 DEF BootInv, Typed, Filed, Executing
<1>9. Ended'
  BY <1>0, <1>1, <1>2, <1>3 DEF BootInv, Typed, Ended
<1>10. UnitHeld'
  BY <1>0, <1>1, <1>2, <1>3 DEF BootInv, Typed, UnitHeld
<1>11. Restoring'
  BY <1>0, <1>1, <1>2, <1>3 DEF BootInv, Typed, Restoring
<1> QED BY <1>4, <1>5, <1>6, <1>7, <1>8, <1>9, <1>10, <1>11 DEF BootInv

\* The lease is attached where it is made.
LEMMA PlacesKeeps ==
  ASSUME Known, Places
  PROVE  BootInv'
<1>0. BootInv /\ Typed
  BY KnownTypes DEF Known
<1>1. UNCHANGED <<unit, source, files, record, executor, waiting, sends, faults>> /\ core.pc = "place"
  BY <1>0 DEF Places, At, world, Pending, Submitted
<1>2. core' \in Cores /\ core'.pc = "admit" /\ core'.op = "none"
  BY <1>0, GoIs DEF Places, Pcs, Typed
<1>3. /\ claim' \in Claimed /\ claim'.stage = "placed" /\ claim'.fx = claim.fx
      /\ claim'.lease = TRUE /\ claim'.seen = claim.seen
  BY <1>0, PhasesAre DEF Places, Stage, Claimed, Typed, Launched, Attaches
<1>4. /\ account' = "pending" /\ claim.stage = "placing" /\ ~ claim.lease
      /\ executor["rollback"] # "restore" /\ "rolled" \notin record
  BY <1>0 DEF Places, Attaches, CanAttach, StageProof, Locked, Typed
<1>5. Types'
  BY <1>0, <1>1, <1>2, <1>3, <1>4 DEF BootInv, Types, Live
<1>6. Staging'
  BY <1>0, <1>1, <1>2, <1>3, <1>4 DEF BootInv, Typed, Staging, Launched, Settled
<1>7. Sending'
  BY <1>0, <1>1, <1>2, <1>3, <1>4 DEF BootInv, Typed, Sending
<1>8. Placed'
  BY <1>0, <1>1, <1>2, <1>3, <1>4 DEF BootInv, Typed, Placed, RollingBack, Launched
<1>9. Filed'
  BY <1>0, <1>1, <1>2, <1>3, <1>4 DEF BootInv, Typed, Filed, Executing
<1>10. Ended'
  BY <1>0, <1>1, <1>2, <1>3, <1>4 DEF BootInv, Typed, Ended
<1>11. UnitHeld'
  BY <1>0, <1>1, <1>2, <1>3, <1>4 DEF BootInv, Typed, UnitHeld, Sending, Staging, Launched
<1>12. Restoring'
  BY <1>0, <1>1, <1>2, <1>3, <1>4 DEF BootInv, Typed, Restoring, Filed
<1> QED BY <1>5, <1>6, <1>7, <1>8, <1>9, <1>10, <1>11, <1>12 DEF BootInv

\* A late request is refused.
LEMMA LateKeeps ==
  ASSUME Known, LateRequest
  PROVE  BootInv'
<1>0. BootInv /\ Typed
  BY KnownTypes DEF Known
<1>1. UNCHANGED <<core, unit, source, files, record, executor, sends, faults>> /\ waiting' = "none" /\ core.pc # "idle"
  BY <1>0 DEF LateRequest, At, world, Pending, Submitted
<1>2. claim' = claim /\ account' = account
  BY <1>0, <1>1 DEF LateRequest, BootInv, Placed
<1>3. Types'
  BY <1>0, <1>1, <1>2 DEF BootInv, Types
<1>4. Staging'
  BY <1>0, <1>1, <1>2 DEF BootInv, Typed, Staging, Launched, Settled
<1>5. Sending'
  BY <1>0, <1>1, <1>2 DEF BootInv, Typed, Sending
<1>6. Placed'
  BY <1>0, <1>1, <1>2 DEF BootInv, Typed, Placed, RollingBack, Launched
<1>7. Filed'
  BY <1>0, <1>1, <1>2 DEF BootInv, Typed, Filed, Executing
<1>8. Ended'
  BY <1>0, <1>1, <1>2 DEF BootInv, Typed, Ended
<1>9. UnitHeld'
  BY <1>0, <1>1, <1>2 DEF BootInv, Typed, UnitHeld
<1>10. Restoring'
  BY <1>0, <1>1, <1>2 DEF BootInv, Typed, Restoring
<1> QED BY <1>3, <1>4, <1>5, <1>6, <1>7, <1>8, <1>9, <1>10 DEF BootInv

\* A start is admitted.
LEMMA AdmitsKeep ==
  ASSUME Known, Admits
  PROVE  BootInv'
<1>0. BootInv /\ Typed
  BY KnownTypes DEF Known
<1>1. UNCHANGED <<account, unit, source, files, record, executor, waiting, sends, faults>> /\ core.pc = "admit" /\ account = "pending"
  BY <1>0 DEF Admits, At, world, Pending, Submitted
<1>2. core' \in Cores /\ core'.pc = "start" /\ core'.op = "none"
  BY <1>0, GoIs DEF Admits, Pcs, Typed
<1>3. /\ claim' \in Claimed /\ claim'.stage = "start_submitted" /\ claim'.fx = [claim.fx EXCEPT !["launch"] = "submitted"]
      /\ claim'.lease = claim.lease /\ claim'.seen = claim.seen
  BY <1>0, PhasesAre DEF Admits, Stage, Claimed, Typed, Launched
<1>4. claim.stage = "placed"
  BY <1>0, <1>1 DEF BootInv, Placed
<1>5. sends["launch"] = 0
  BY <1>0, <1>4 DEF BootInv, Staging, Sending, Launched, Typed
<1>6. Types'
  BY <1>0, <1>1, <1>2, <1>3, <1>4, <1>5 DEF BootInv, Types
<1>7. Staging'
  BY <1>0, <1>1, <1>2, <1>3, <1>4, <1>5 DEF BootInv, Typed, Staging, Launched, Settled
<1>8. Sending'
  BY <1>0, <1>1, <1>2, <1>3, <1>4, <1>5 DEF BootInv, Typed, Sending
<1>9. Placed'
  BY <1>0, <1>1, <1>2, <1>3, <1>4, <1>5 DEF BootInv, Typed, Placed, RollingBack, Launched
<1>10. Filed'
  BY <1>0, <1>1, <1>2, <1>3, <1>4, <1>5 DEF BootInv, Typed, Filed, Executing
<1>11. Ended'
  BY <1>0, <1>1, <1>2, <1>3, <1>4, <1>5 DEF BootInv, Typed, Ended
<1>12. UnitHeld'
  BY <1>0, <1>1, <1>2, <1>3, <1>4, <1>5 DEF BootInv, Typed, UnitHeld
<1>13. Restoring'
  BY <1>0, <1>1, <1>2, <1>3, <1>4, <1>5 DEF BootInv, Typed, Restoring
<1> QED BY <1>6, <1>7, <1>8, <1>9, <1>10, <1>11, <1>12, <1>13 DEF BootInv

\* The unit is started once.
LEMMA StartsKeep ==
  ASSUME Known, Starts
  PROVE  BootInv'
<1>0. BootInv /\ Typed
  BY KnownTypes DEF Known
<1>1. UNCHANGED <<claim, account, source, files, record, executor, waiting, faults>> /\ core.pc = "start" /\ unit' = "activating"
  BY <1>0 DEF Starts, At, world, Pending, Submitted
<1>2. core' \in Cores /\ core'.pc = "started" /\ core'.op = "none"
  BY <1>0, GoIs DEF Starts, Pcs, Typed
<1>3. claim.stage = "start_submitted" /\ account \in {"pending", "stale"} /\ sends["launch"] = 0
  BY <1>0, <1>1 DEF BootInv, Placed, Sending
<1>4. sends' = [sends EXCEPT !["launch"] = 1] /\ sends' \in [Effects -> {0, 1}]
  BY <1>0, <1>3 DEF Starts, Typed
<1>5. Types'
  BY <1>0, <1>1, <1>2, <1>3, <1>4 DEF BootInv, Types
<1>6. Staging'
  BY <1>0, <1>1, <1>2, <1>3, <1>4 DEF BootInv, Typed, Staging, Launched, Settled
<1>7. Sending'
  BY <1>0, <1>1, <1>2, <1>3, <1>4 DEF BootInv, Typed, Sending, Staging, Launched
<1>8. Placed'
  BY <1>0, <1>1, <1>2, <1>3, <1>4 DEF BootInv, Typed, Placed, RollingBack, Launched
<1>9. Filed'
  BY <1>0, <1>1, <1>2, <1>3, <1>4 DEF BootInv, Typed, Filed, Executing
<1>10. Ended'
  BY <1>0, <1>1, <1>2, <1>3, <1>4 DEF BootInv, Typed, Ended
<1>11. UnitHeld'
  BY <1>0, <1>1, <1>2, <1>3, <1>4 DEF BootInv, Typed, UnitHeld, Live
<1>12. Restoring'
  BY <1>0, <1>1, <1>2, <1>3, <1>4 DEF BootInv, Typed, Restoring
<1> QED BY <1>5, <1>6, <1>7, <1>8, <1>9, <1>10, <1>11, <1>12 DEF BootInv

\* The start is acknowledged.
LEMMA StartAckKeeps ==
  ASSUME Known, StartAcknowledged
  PROVE  BootInv'
<1>0. BootInv /\ Typed
  BY KnownTypes DEF Known
<1>1. UNCHANGED <<account, unit, source, files, record, executor, waiting, sends, faults>> /\ core.pc = "started"
  BY <1>0 DEF StartAcknowledged, At, world, Pending, Submitted
<1>2. core' \in Cores /\ core'.pc = "monitor" /\ core'.op = "none"
  BY <1>0, GoIs DEF StartAcknowledged, Pcs, Typed
<1>3. /\ claim' \in Claimed /\ claim'.stage = "start_acknowledged" /\ claim'.fx = [claim.fx EXCEPT !["launch"] = "acknowledged"]
      /\ claim'.lease = claim.lease /\ claim'.seen = claim.seen
  BY <1>0, PhasesAre DEF StartAcknowledged, Stage, Claimed, Typed, Launched
<1>4. claim.stage = "start_submitted"
  BY <1>0, <1>1 DEF BootInv, Placed
<1>5. Types'
  BY <1>0, <1>1, <1>2, <1>3, <1>4 DEF BootInv, Types
<1>6. Staging'
  BY <1>0, <1>1, <1>2, <1>3, <1>4 DEF BootInv, Typed, Staging, Launched, Settled
<1>7. Sending'
  BY <1>0, <1>1, <1>2, <1>3, <1>4 DEF BootInv, Typed, Sending
<1>8. Placed'
  BY <1>0, <1>1, <1>2, <1>3, <1>4 DEF BootInv, Typed, Placed, RollingBack, Launched
<1>9. Filed'
  BY <1>0, <1>1, <1>2, <1>3, <1>4 DEF BootInv, Typed, Filed, Executing
<1>10. Ended'
  BY <1>0, <1>1, <1>2, <1>3, <1>4 DEF BootInv, Typed, Ended
<1>11. UnitHeld'
  BY <1>0, <1>1, <1>2, <1>3, <1>4 DEF BootInv, Typed, UnitHeld
<1>12. Restoring'
  BY <1>0, <1>1, <1>2, <1>3, <1>4 DEF BootInv, Typed, Restoring
<1> QED BY <1>5, <1>6, <1>7, <1>8, <1>9, <1>10, <1>11, <1>12 DEF BootInv

\* A healthy answer is recorded before the confirmation is asked for.
LEMMA HealthKeeps ==
  ASSUME Known, HealthObserved
  PROVE  BootInv'
<1>0. BootInv /\ Typed
  BY KnownTypes DEF Known
<1>1. UNCHANGED <<account, unit, source, files, record, executor, waiting, sends, faults>> /\ core.pc = "monitor"
  BY <1>0 DEF HealthObserved, At, world, Pending, Submitted
<1>2. claim.stage \in {"start_acknowledged", "health_observed"}
  BY <1>0, <1>1 DEF BootInv, Placed
<1>3. /\ claim' \in Claimed /\ claim'.stage = (IF claim.stage = "start_acknowledged" THEN "health_observed" ELSE "confirm_submitted") /\ claim'.fx = claim.fx
      /\ claim'.lease = claim.lease /\ claim'.seen = claim.seen
  BY <1>0, PhasesAre DEF HealthObserved, Stage, Claimed, Typed, Launched
<1>4. /\ core' \in Cores /\ core'.pc = IF claim.stage = "start_acknowledged" THEN "monitor" ELSE "confirm"
      /\ core'.pc \in {"monitor", "confirm"}
  BY <1>0, <1>1, GoIs DEF HealthObserved, Typed, Pcs
<1>5. Types'
  BY <1>0, <1>1, <1>2, <1>3, <1>4 DEF BootInv, Types
<1>6. Staging'
  BY <1>0, <1>1, <1>2, <1>3, <1>4 DEF BootInv, Typed, Staging, Launched, Settled
<1>7. Sending'
  BY <1>0, <1>1, <1>2, <1>3, <1>4 DEF BootInv, Typed, Sending
<1>8. Placed'
  BY <1>0, <1>1, <1>2, <1>3, <1>4 DEF BootInv, Typed, Placed, RollingBack, Launched
<1>9. Filed'
  BY <1>0, <1>1, <1>2, <1>3, <1>4 DEF BootInv, Typed, Filed, Executing
<1>10. Ended'
  BY <1>0, <1>1, <1>2, <1>3, <1>4 DEF BootInv, Typed, Ended
<1>11. UnitHeld'
  BY <1>0, <1>1, <1>2, <1>3, <1>4 DEF BootInv, Typed, UnitHeld
<1>12. Restoring'
  BY <1>0, <1>1, <1>2, <1>3, <1>4 DEF BootInv, Typed, Restoring
<1> QED BY <1>5, <1>6, <1>7, <1>8, <1>9, <1>10, <1>11, <1>12 DEF BootInv

\* The account of a healthy unit is confirmed.
LEMMA ConfirmsKeep ==
  ASSUME Known, Confirms
  PROVE  BootInv'
<1>0. BootInv /\ Typed
  BY KnownTypes DEF Known
<1>1. UNCHANGED <<claim, unit, source, files, record, executor, waiting, sends, faults>> /\ core.pc = "confirm" /\ account' = "confirmed" /\ account # "none"
  BY <1>0 DEF Confirms, At, world, Pending, Submitted
<1>2. core' \in Cores /\ core'.pc = "confirmed" /\ core'.op = "none"
  BY <1>0, GoIs DEF Confirms, Pcs, Typed
<1>3. claim.stage = "confirm_submitted"
  BY <1>0, <1>1 DEF BootInv, Placed
<1>4. executor["rollback"] # "restore" /\ "rolled" \notin record
  BY <1>0 DEF Confirms, StageProof, Locked, Typed
<1>5. Types'
  BY <1>0, <1>1, <1>2, <1>3, <1>4 DEF BootInv, Types, Live
<1>6. Staging'
  BY <1>0, <1>1, <1>2, <1>3, <1>4 DEF BootInv, Typed, Staging, Launched, Settled
<1>7. Sending'
  BY <1>0, <1>1, <1>2, <1>3, <1>4 DEF BootInv, Typed, Sending
<1>8. Placed'
  BY <1>0, <1>1, <1>2, <1>3, <1>4 DEF BootInv, Typed, Placed, RollingBack, Launched
<1>9. Filed'
  BY <1>0, <1>1, <1>2, <1>3, <1>4 DEF BootInv, Typed, Filed, Executing
<1>10. Ended'
  BY <1>0, <1>1, <1>2, <1>3, <1>4 DEF BootInv, Typed, Ended
<1>11. UnitHeld'
  BY <1>0, <1>1, <1>2, <1>3, <1>4 DEF BootInv, Typed, UnitHeld, Live
<1>12. Restoring'
  BY <1>0, <1>1, <1>2, <1>3, <1>4 DEF BootInv, Typed, Restoring, Filed
<1> QED BY <1>5, <1>6, <1>7, <1>8, <1>9, <1>10, <1>11, <1>12 DEF BootInv

\* The confirmed default is recorded.
LEMMA DefaultKeeps ==
  ASSUME Known, DefaultConfirmed
  PROVE  BootInv'
<1>0. BootInv /\ Typed
  BY KnownTypes DEF Known
<1>1. UNCHANGED <<account, unit, source, files, record, executor, waiting, sends, faults>> /\ core.pc = "confirmed" /\ account = "confirmed" /\ unit = "ready"
  BY <1>0 DEF DefaultConfirmed, At, world, Pending, Submitted, Confirmed
<1>2. core' \in Cores /\ core'.pc = "activate" /\ core'.op = "none"
  BY <1>0, GoIs DEF DefaultConfirmed, Pcs, Typed
<1>3. /\ claim' \in Claimed /\ claim'.stage = "default_confirmed" /\ claim'.fx = claim.fx
      /\ claim'.lease = claim.lease /\ claim'.seen = TRUE
  BY <1>0, PhasesAre DEF DefaultConfirmed, Stage, Claimed, Typed, Launched
<1>4. claim.stage = "confirm_submitted" /\ sends["launch"] = 1
  BY <1>0, <1>1 DEF BootInv, Placed, Sending
<1>5. Types'
  BY <1>0, <1>1, <1>2, <1>3, <1>4 DEF BootInv, Types
<1>6. Staging'
  BY <1>0, <1>1, <1>2, <1>3, <1>4 DEF BootInv, Typed, Staging, Launched, Settled
<1>7. Sending'
  BY <1>0, <1>1, <1>2, <1>3, <1>4 DEF BootInv, Typed, Sending
<1>8. Placed'
  BY <1>0, <1>1, <1>2, <1>3, <1>4 DEF BootInv, Typed, Placed, RollingBack, Launched
<1>9. Filed'
  BY <1>0, <1>1, <1>2, <1>3, <1>4 DEF BootInv, Typed, Filed, Executing
<1>10. Ended'
  BY <1>0, <1>1, <1>2, <1>3, <1>4 DEF BootInv, Typed, Ended
<1>11. UnitHeld'
  BY <1>0, <1>1, <1>2, <1>3, <1>4 DEF BootInv, Typed, UnitHeld
<1>12. Restoring'
  BY <1>0, <1>1, <1>2, <1>3, <1>4 DEF BootInv, Typed, Restoring
<1> QED BY <1>5, <1>6, <1>7, <1>8, <1>9, <1>10, <1>11, <1>12 DEF BootInv

\* The launcher gives the account of a unit that ended back.
LEMMA LauncherKeeps ==
  ASSUME Known, LauncherReleases
  PROVE  BootInv'
<1>0. BootInv /\ Typed
  BY KnownTypes DEF Known
<1>1. UNCHANGED <<claim, unit, source, files, record, executor, waiting, sends, faults>> /\ core.pc = "monitor" /\ unit = "failed" /\ account' = "released"
  BY <1>0 DEF LauncherReleases, At, world, Pending, Submitted
<1>2. core' \in Cores /\ core'.pc = "idle" /\ core'.op = "none"
  BY <1>0, GoIs DEF LauncherReleases, Pcs, Typed
<1>3. claim.stage \in {"start_acknowledged", "health_observed"}
  BY <1>0, <1>1 DEF BootInv, Placed
<1>4. Types'
  BY <1>0, <1>1, <1>2, <1>3 DEF BootInv, Types, Gone
<1>5. Staging'
  BY <1>0, <1>1, <1>2, <1>3 DEF BootInv, Typed, Staging, Launched, Settled
<1>6. Sending'
  BY <1>0, <1>1, <1>2, <1>3 DEF BootInv, Typed, Sending
<1>7. Placed'
  BY <1>0, <1>1, <1>2, <1>3 DEF BootInv, Typed, Placed, RollingBack, Launched
<1>8. Filed'
  BY <1>0, <1>1, <1>2, <1>3 DEF BootInv, Typed, Filed, Executing
<1>9. Ended'
  BY <1>0, <1>1, <1>2, <1>3 DEF BootInv, Typed, Ended, Gone
<1>10. UnitHeld'
  BY <1>0, <1>1, <1>2, <1>3 DEF BootInv, Typed, UnitHeld
<1>11. Restoring'
  BY <1>0, <1>1, <1>2, <1>3 DEF BootInv, Typed, Restoring, Gone
<1> QED BY <1>4, <1>5, <1>6, <1>7, <1>8, <1>9, <1>10, <1>11 DEF BootInv

\* The launcher gives the account of a start that failed back.
LEMMA StartFailsKeeps ==
  ASSUME Known, StartFails
  PROVE  BootInv'
<1>0. BootInv /\ Typed
  BY KnownTypes DEF Known
<1>1. UNCHANGED <<claim, unit, source, files, record, executor, waiting, sends>> /\ core.pc = "start" /\ account' = "released"
  BY <1>0 DEF StartFails, At, world, Pending, Submitted
<1>2. core' \in Cores /\ core'.pc = "idle" /\ core'.op = "none"
  BY <1>0, GoIs DEF StartFails, Pcs, Typed
<1>3. claim.stage = "start_submitted" /\ unit = "none"
  BY <1>0, <1>1 DEF BootInv, Placed, Sending
<1>4. faults' \in Faulty
  BY <1>0 DEF StartFails, Faulty, Typed, Known, BootstrapAssumption
<1>5. Types'
  BY <1>0, <1>1, <1>2, <1>3, <1>4 DEF BootInv, Types, Gone
<1>6. Staging'
  BY <1>0, <1>1, <1>2, <1>3, <1>4 DEF BootInv, Typed, Staging, Launched, Settled
<1>7. Sending'
  BY <1>0, <1>1, <1>2, <1>3, <1>4 DEF BootInv, Typed, Sending
<1>8. Placed'
  BY <1>0, <1>1, <1>2, <1>3, <1>4 DEF BootInv, Typed, Placed, RollingBack, Launched
<1>9. Filed'
  BY <1>0, <1>1, <1>2, <1>3, <1>4 DEF BootInv, Typed, Filed, Executing
<1>10. Ended'
  BY <1>0, <1>1, <1>2, <1>3, <1>4 DEF BootInv, Typed, Ended, Gone
<1>11. UnitHeld'
  BY <1>0, <1>1, <1>2, <1>3, <1>4 DEF BootInv, Typed, UnitHeld
<1>12. Restoring'
  BY <1>0, <1>1, <1>2, <1>3, <1>4 DEF BootInv, Typed, Restoring, Gone
<1> QED BY <1>5, <1>6, <1>7, <1>8, <1>9, <1>10, <1>11, <1>12 DEF BootInv

\* The activation comes next.
LEMMA ActivatesKeep ==
  ASSUME Known, Activates
  PROVE  BootInv'
<1>0. BootInv /\ Typed
  BY KnownTypes DEF Known
<1>1. UNCHANGED <<claim, account, unit, source, files, record, executor, waiting, sends, faults>> /\ core.pc = "activate"
  BY <1>0 DEF Activates, At, world, Pending, Submitted
<1>2. core' \in Cores /\ core'.pc = "submit" /\ core'.op = "activate"
  BY <1>0 DEF Activates, Cores, Pcs, Typed
<1>3. claim.stage = "default_confirmed" /\ claim.fx["activate"] = "none"
  BY <1>0, <1>1 DEF BootInv, Placed, Staging
<1>4. Types'
  BY <1>0, <1>1, <1>2, <1>3 DEF BootInv, Types
<1>5. Staging'
  BY <1>0, <1>1, <1>2, <1>3 DEF BootInv, Typed, Staging, Launched, Settled
<1>6. Sending'
  BY <1>0, <1>1, <1>2, <1>3 DEF BootInv, Typed, Sending
<1>7. Placed'
  BY <1>0, <1>1, <1>2, <1>3 DEF BootInv, Typed, Placed, RollingBack, Launched
<1>8. Filed'
  BY <1>0, <1>1, <1>2, <1>3 DEF BootInv, Typed, Filed, Executing
<1>9. Ended'
  BY <1>0, <1>1, <1>2, <1>3 DEF BootInv, Typed, Ended
<1>10. UnitHeld'
  BY <1>0, <1>1, <1>2, <1>3 DEF BootInv, Typed, UnitHeld
<1>11. Restoring'
  BY <1>0, <1>1, <1>2, <1>3 DEF BootInv, Typed, Restoring
<1> QED BY <1>4, <1>5, <1>6, <1>7, <1>8, <1>9, <1>10, <1>11 DEF BootInv

\* The bootstrap is complete.
LEMMA CompletesKeep ==
  ASSUME Known, Completes
  PROVE  BootInv'
<1>0. BootInv /\ Typed
  BY KnownTypes DEF Known
<1>1. UNCHANGED <<account, unit, source, files, record, executor, waiting, sends, faults>> /\ core.pc = "finish" /\ source.new = "up"
  BY <1>0 DEF Completes, At, world, Pending, Submitted, ActiveReady
<1>2. core' \in Cores /\ core'.pc = "idle" /\ core'.op = "none"
  BY <1>0, GoIs DEF Completes, Pcs, Typed
<1>3. /\ claim' \in Claimed /\ claim'.stage = "complete" /\ claim'.fx = claim.fx
      /\ claim'.lease = claim.lease /\ claim'.seen = claim.seen
  BY <1>0, PhasesAre DEF Completes, Stage, Claimed, Typed, Launched
<1>4. claim.stage = "activate_submitted"
  BY <1>0, <1>1 DEF BootInv, Placed
<1>5. Types'
  BY <1>0, <1>1, <1>2, <1>3, <1>4 DEF BootInv, Types
<1>6. Staging'
  BY <1>0, <1>1, <1>2, <1>3, <1>4 DEF BootInv, Typed, Staging, Launched, Settled
<1>7. Sending'
  BY <1>0, <1>1, <1>2, <1>3, <1>4 DEF BootInv, Typed, Sending
<1>8. Placed'
  BY <1>0, <1>1, <1>2, <1>3, <1>4 DEF BootInv, Typed, Placed, RollingBack, Launched
<1>9. Filed'
  BY <1>0, <1>1, <1>2, <1>3, <1>4 DEF BootInv, Typed, Filed, Executing
<1>10. Ended'
  BY <1>0, <1>1, <1>2, <1>3, <1>4 DEF BootInv, Typed, Ended
<1>11. UnitHeld'
  BY <1>0, <1>1, <1>2, <1>3, <1>4 DEF BootInv, Typed, UnitHeld
<1>12. Restoring'
  BY <1>0, <1>1, <1>2, <1>3, <1>4 DEF BootInv, Typed, Restoring
<1> QED BY <1>5, <1>6, <1>7, <1>8, <1>9, <1>10, <1>11, <1>12 DEF BootInv

-----------------------------------------------------------------------------
(* The command: recover *)

\* A rollback begins while the default was not launched.
LEMMA RollsBackKeeps ==
  ASSUME Known, RollsBack
  PROVE  BootInv'
<1>0. BootInv /\ Typed
  BY KnownTypes DEF Known
<1>1. UNCHANGED <<claim, account, unit, source, files, record, executor, sends, faults>> /\ core.pc = "idle" /\ claim.fx["launch"] = "none" /\ claim.stage \notin {"none", "complete", "aborted"}
  BY <1>0 DEF RollsBack, At, world, Pending, Submitted
<1>2. core' \in Cores /\ core'.pc = "give_back" /\ core'.op = "none"
  BY <1>0 DEF RollsBack, Cores, Pcs, Typed
<1>3. waiting' \in {"none", "rotated"}
  BY <1>0 DEF RollsBack, Reclaims, BootInv, Types
<1>4. claim.stage \notin Launched
  BY <1>0, <1>1 DEF BootInv, Staging
<1>5. Types'
  BY <1>0, <1>1, <1>2, <1>3, <1>4 DEF BootInv, Types
<1>6. Staging'
  BY <1>0, <1>1, <1>2, <1>3, <1>4 DEF BootInv, Typed, Staging, Launched, Settled
<1>7. Sending'
  BY <1>0, <1>1, <1>2, <1>3, <1>4 DEF BootInv, Typed, Sending
<1>8. Placed'
  BY <1>0, <1>1, <1>2, <1>3, <1>4 DEF BootInv, Typed, Placed, RollingBack, Launched
<1>9. Filed'
  BY <1>0, <1>1, <1>2, <1>3, <1>4 DEF BootInv, Typed, Filed, Executing
<1>10. Ended'
  BY <1>0, <1>1, <1>2, <1>3, <1>4 DEF BootInv, Typed, Ended
<1>11. UnitHeld'
  BY <1>0, <1>1, <1>2, <1>3, <1>4 DEF BootInv, Typed, UnitHeld
<1>12. Restoring'
  BY <1>0, <1>1, <1>2, <1>3, <1>4 DEF BootInv, Typed, Restoring
<1> QED BY <1>5, <1>6, <1>7, <1>8, <1>9, <1>10, <1>11, <1>12 DEF BootInv

\* The account is given back before the files are.
LEMMA GivesBackKeeps ==
  ASSUME Known, GivesBack
  PROVE  BootInv'
<1>0. BootInv /\ Typed
  BY KnownTypes DEF Known
<1>1. UNCHANGED <<claim, unit, source, files, record, executor, waiting, sends, faults>> /\ core.pc = "give_back"
  BY <1>0 DEF GivesBack, At, world, Pending, Submitted
<1>2. claim.stage \notin Launched \cup {"none", "aborted"}
  BY <1>0, <1>1 DEF BootInv, Placed, RollingBack
<1>3. account' \in Gone /\ (account' # "none" <=> claim.lease)
  BY <1>0 DEF GivesBack, Gone, BootInv, Staging, Typed
<1>4. /\ core' \in Cores
      /\ \/ core'.pc = "idle" /\ core'.op = "none"
         \/ core'.pc = "submit" /\ core'.op = "rollback" /\ claim.fx["rollback"] = "none"
  <2>1. CASE Submitted("rollback")
    <3>1. Go("idle")
      BY <1>0, <2>1 DEF GivesBack
    <3> QED BY <1>0, <3>1, GoIs DEF Pcs, Typed
  <2>2. CASE ~ Submitted("rollback")
    <3>1. core' = [core EXCEPT !.pc = "submit", !.op = "rollback"]
      BY <1>0, <2>2 DEF GivesBack
    <3>2. core' \in Cores /\ core'.pc = "submit" /\ core'.op = "rollback"
      BY <1>0, <3>1 DEF Cores, Pcs, Typed
    <3> QED BY <2>2, <3>2 DEF Submitted
  <2> QED BY <2>1, <2>2
<1>5. unit \notin {"activating", "ready"}
  <2>1. claim.fx["launch"] = "none"
    BY <1>0, <1>2 DEF BootInv, Staging
  <2>2. sends["launch"] = 0
    BY <1>0, <2>1 DEF BootInv, Sending, Typed
  <2> QED BY <1>0, <2>2 DEF BootInv, Sending
<1>6. Types'
  BY <1>0, <1>1, <1>2, <1>3, <1>4, <1>5 DEF BootInv, Types, Gone
<1>7. Staging'
  BY <1>0, <1>1, <1>2, <1>3, <1>4, <1>5 DEF BootInv, Typed, Staging, Launched, Settled
<1>8. Sending'
  BY <1>0, <1>1, <1>2, <1>3, <1>4, <1>5 DEF BootInv, Typed, Sending
<1>9. Placed'
  BY <1>0, <1>1, <1>2, <1>3, <1>4, <1>5 DEF BootInv, Typed, Placed, RollingBack, Launched
<1>10. Filed'
  BY <1>0, <1>1, <1>2, <1>3, <1>4, <1>5 DEF BootInv, Typed, Filed, Executing
<1>11. Ended'
  BY <1>0, <1>1, <1>2, <1>3, <1>4, <1>5 DEF BootInv, Typed, Ended
<1>12. UnitHeld'
  BY <1>0, <1>1, <1>2, <1>3, <1>4, <1>5 DEF BootInv, Typed, UnitHeld
<1>13. Restoring'
  BY <1>0, <1>1, <1>2, <1>3, <1>4, <1>5 DEF BootInv, Typed, Restoring
<1> QED BY <1>6, <1>7, <1>8, <1>9, <1>10, <1>11, <1>12, <1>13 DEF BootInv

\* A rollback that is done ends the bootstrap.
LEMMA AbortsKeep ==
  ASSUME Known, Aborts
  PROVE  BootInv'
<1>0. BootInv /\ Typed
  BY KnownTypes DEF Known
<1>1. UNCHANGED <<account, unit, source, files, record, executor, waiting, sends, faults>> /\ core.pc = "ack" /\ core.op = "rollback"
      /\ executor["rollback"] = "done" /\ files = "before" /\ "rolled" \in record /\ account \in Gone
      /\ source.old # "stopping"
  BY <1>0 DEF Aborts, At, world, Pending, Submitted, RolledBack, SourceAbsent, Gone
<1>2. core' \in Cores /\ core'.pc = "idle" /\ core'.op = "none"
  BY <1>0, GoIs DEF Aborts, Pcs, Typed
<1>3. /\ claim' \in Claimed /\ claim'.stage = "aborted" /\ claim'.fx = [claim.fx EXCEPT !["rollback"] = "acknowledged"]
      /\ claim'.lease = claim.lease /\ claim'.seen = claim.seen
  BY <1>0, PhasesAre DEF Aborts, Stage, Claimed, Typed, Launched
<1>4. claim.stage \notin Launched
  BY <1>0, <1>1 DEF BootInv, Placed, RollingBack
<1>5. Types'
  BY <1>0, <1>1, <1>2, <1>3, <1>4 DEF BootInv, Types
<1>6. Staging'
  BY <1>0, <1>1, <1>2, <1>3, <1>4 DEF BootInv, Typed, Staging, Launched, Settled
<1>7. Sending'
  BY <1>0, <1>1, <1>2, <1>3, <1>4 DEF BootInv, Typed, Sending
<1>8. Placed'
  BY <1>0, <1>1, <1>2, <1>3, <1>4 DEF BootInv, Typed, Placed, RollingBack, Launched
<1>9. Filed'
  BY <1>0, <1>1, <1>2, <1>3, <1>4 DEF BootInv, Typed, Filed, Executing
<1>10. Ended'
  BY <1>0, <1>1, <1>2, <1>3, <1>4 DEF BootInv, Typed, Ended
<1>11. UnitHeld'
  BY <1>0, <1>1, <1>2, <1>3, <1>4 DEF BootInv, Typed, UnitHeld
<1>12. Restoring'
  BY <1>0, <1>1, <1>2, <1>3, <1>4 DEF BootInv, Typed, Restoring
<1> QED BY <1>5, <1>6, <1>7, <1>8, <1>9, <1>10, <1>11, <1>12 DEF BootInv

\* A command observes, or resumes, what was submitted.
LEMMA ObservesKeep ==
  ASSUME Known, NEW mode \in {"observe", "resume"}, Observes(mode)
  PROVE  BootInv'
<1>0. BootInv /\ Typed
  BY KnownTypes DEF Known
<1>1. UNCHANGED <<account, unit, source, files, record, executor, sends, faults>> /\ core.pc = "idle" /\ claim.stage \notin {"none", "complete", "aborted"} /\ mode \in Modes
  BY <1>0 DEF Observes, At, world, Pending, Submitted
<1>2. waiting' \in {"none", "rotated"}
  BY <1>0 DEF Observes, Reclaims, BootInv, Types
<1>3. /\ core' \in Cores /\ core'.op = "none"
      /\ \/ core'.pc = "finish" /\ claim.fx["activate"] # "none" /\ claim' = claim
         \/ core'.pc = "look"
  BY <1>0, <1>1 DEF Observes, Cores, Pcs, Typed, Submitted
<1>4. /\ claim' \in Claimed /\ claim'.fx = claim.fx /\ claim'.lease = claim.lease /\ claim'.seen = claim.seen
      /\ claim'.stage = claim.stage \/ (claim.stage = "stage_submitted" /\ claim'.stage = "staged")
  BY <1>0, PhasesAre DEF Observes, Stage, Claimed, Typed, Launched
<1>5. Types'
  BY <1>0, <1>1, <1>2, <1>3, <1>4 DEF BootInv, Types
<1>6. Staging'
  BY <1>0, <1>1, <1>2, <1>3, <1>4 DEF BootInv, Typed, Staging, Launched, Settled
<1>7. Sending'
  BY <1>0, <1>1, <1>2, <1>3, <1>4 DEF BootInv, Typed, Sending
<1>8. Placed'
  BY <1>0, <1>1, <1>2, <1>3, <1>4 DEF BootInv, Typed, Placed, RollingBack, Launched, Staging
<1>9. Filed'
  BY <1>0, <1>1, <1>2, <1>3, <1>4 DEF BootInv, Typed, Filed, Executing
<1>10. Ended'
  BY <1>0, <1>1, <1>2, <1>3, <1>4 DEF BootInv, Typed, Ended
<1>11. UnitHeld'
  BY <1>0, <1>1, <1>2, <1>3, <1>4 DEF BootInv, Typed, UnitHeld
<1>12. Restoring'
  BY <1>0, <1>1, <1>2, <1>3, <1>4 DEF BootInv, Typed, Restoring
<1> QED BY <1>5, <1>6, <1>7, <1>8, <1>9, <1>10, <1>11, <1>12 DEF BootInv

\* A launch that was submitted is settled by what its unit shows.
LEMMA SettleKeeps ==
  ASSUME Known, SettlesLaunch
  PROVE  BootInv'
<1>0. BootInv /\ Typed
  BY KnownTypes DEF Known
<1>1. UNCHANGED <<account, unit, source, files, record, executor, waiting, sends, faults>> /\ core.pc = "look"
  BY <1>0 DEF SettlesLaunch, At, world, Pending, Submitted
<1>2. core' \in Cores /\ core'.pc = "settle" /\ core'.op = "none"
  BY <1>0, GoIs DEF SettlesLaunch, Pcs, Typed
<1>3. /\ claim' \in Claimed /\ claim'.stage = claim.stage /\ claim'.fx = claim.fx
      /\ claim'.lease = claim.lease /\ claim'.seen = TRUE
  BY <1>0, PhasesAre DEF SettlesLaunch, Stage, Claimed, Typed, Launched
<1>4. Types'
  BY <1>0, <1>1, <1>2, <1>3 DEF BootInv, Types
<1>5. Staging'
  BY <1>0, <1>1, <1>2, <1>3 DEF BootInv, Typed, Staging, Launched, Settled
<1>6. Sending'
  BY <1>0, <1>1, <1>2, <1>3 DEF BootInv, Typed, Sending
<1>7. Placed'
  BY <1>0, <1>1, <1>2, <1>3 DEF BootInv, Typed, Placed, RollingBack, Launched
<1>8. Filed'
  BY <1>0, <1>1, <1>2, <1>3 DEF BootInv, Typed, Filed, Executing
<1>9. Ended'
  BY <1>0, <1>1, <1>2, <1>3 DEF BootInv, Typed, Ended
<1>10. UnitHeld'
  BY <1>0, <1>1, <1>2, <1>3 DEF BootInv, Typed, UnitHeld
<1>11. Restoring'
  BY <1>0, <1>1, <1>2, <1>3 DEF BootInv, Typed, Restoring
<1> QED BY <1>4, <1>5, <1>6, <1>7, <1>8, <1>9, <1>10, <1>11 DEF BootInv

\* It is settled in the stages of the launcher.
LEMMA SettlesKeep ==
  ASSUME Known, Settles
  PROVE  BootInv'
<1>0. BootInv /\ Typed
  BY KnownTypes DEF Known
<1>1. UNCHANGED <<unit, source, files, record, executor, waiting, sends, faults>> /\ core.pc = "settle"
  BY <1>0 DEF Settles, At, world, Pending, Submitted
<1>2. claim.seen
  BY <1>0, <1>1 DEF BootInv, Placed
<1>3. /\ claim' \in Claimed /\ claim'.fx = claim.fx /\ claim'.lease = claim.lease /\ claim'.seen = claim.seen
      /\ \/ /\ claim'.stage \in {"health_observed", "confirm_submitted"} /\ UNCHANGED <<core, account>>
            /\ claim.stage \in {"start_submitted", "start_acknowledged", "health_observed"}
         \/ /\ claim'.stage = "default_confirmed" /\ claim.stage = "confirm_submitted" /\ account' = "confirmed"
            /\ unit = "ready" /\ Go("look") /\ account # "none"
            /\ executor["rollback"] # "restore" /\ "rolled" \notin record
  BY <1>0, PhasesAre DEF Settles, Stage, Claimed, Typed, Launched, StageProof, Locked
<1>4. core' \in Cores /\ (core' = core \/ (core'.pc = "look" /\ core'.op = "none"))
  BY <1>0, <1>3, GoIs DEF Typed, Pcs
<1>5. Types'
  BY <1>0, <1>1, <1>2, <1>3, <1>4 DEF BootInv, Types, Live
<1>6. Staging'
  BY <1>0, <1>1, <1>2, <1>3, <1>4 DEF BootInv, Typed, Staging, Launched, Settled, Sending
<1>7. Sending'
  BY <1>0, <1>1, <1>2, <1>3, <1>4 DEF BootInv, Typed, Sending
<1>8. Placed'
  BY <1>0, <1>1, <1>2, <1>3, <1>4 DEF BootInv, Typed, Placed, RollingBack, Launched, Staging
<1>9. Filed'
  BY <1>0, <1>1, <1>2, <1>3, <1>4 DEF BootInv, Typed, Filed, Executing
<1>10. Ended'
  BY <1>0, <1>1, <1>2, <1>3, <1>4 DEF BootInv, Typed, Ended
<1>11. UnitHeld'
  BY <1>0, <1>1, <1>2, <1>3, <1>4 DEF BootInv, Typed, UnitHeld, Live
<1>12. Restoring'
  BY <1>0, <1>1, <1>2, <1>3, <1>4 DEF BootInv, Typed, Restoring, Filed
<1> QED BY <1>5, <1>6, <1>7, <1>8, <1>9, <1>10, <1>11, <1>12 DEF BootInv

-----------------------------------------------------------------------------
(* The executor *)

\* The staging creates its record.
LEMMA StageBegins ==
  ASSUME Known,
         Running("stage", "check"),
         files = "before",
         source.old = "up",
         "created" \notin record,
         Mark("created"),
         Step("stage", "fragment"),
         UNCHANGED <<core, claim, account, unit, waiting, sends, faults, source, files>>
  PROVE  BootInv'
<1>0. BootInv /\ Typed
  BY KnownTypes DEF Known
<1>1. executor' = [executor EXCEPT !["stage"] = "fragment"] /\ executor' \in [Native -> ExecutorStates]
  BY <1>0 DEF Step, Typed, ExecutorStates, Executing
<1>2. record' = record \cup {"created"} /\ record' \in SUBSET Marks
  BY <1>0 DEF Mark, Typed, Marks
<1>3. executor["stage"] = "check"
  BY DEF Running
<1>4. Types'
  BY <1>0, <1>1, <1>2, <1>3 DEF BootInv, Types
<1>5. Staging'
  BY <1>0, <1>1, <1>2, <1>3 DEF BootInv, Typed, Staging, Launched, Settled
<1>6. Sending'
  BY <1>0, <1>1, <1>2, <1>3 DEF BootInv, Typed, Sending
<1>7. Placed'
  BY <1>0, <1>1, <1>2, <1>3 DEF BootInv, Typed, Placed, RollingBack, Launched
<1>8. Filed'
  BY <1>0, <1>1, <1>2, <1>3 DEF BootInv, Typed, Filed, Executing
<1>9. Ended'
  BY <1>0, <1>1, <1>2, <1>3 DEF BootInv, Typed, Ended, Filed, Executing
<1>10. UnitHeld'
  BY <1>0, <1>1, <1>2, <1>3 DEF BootInv, Typed, UnitHeld
<1>11. Restoring'
  BY <1>0, <1>1, <1>2, <1>3 DEF BootInv, Typed, Restoring
<1> QED BY <1>4, <1>5, <1>6, <1>7, <1>8, <1>9, <1>10, <1>11 DEF BootInv

\* The staging replaces the first file.
LEMMA StageFragment ==
  ASSUME Known,
         Running("stage", "fragment"),
         files = "before",
         files' = "fragment",
         Step("stage", "stop"),
         UNCHANGED <<core, claim, account, unit, waiting, sends, faults, source, record>>
  PROVE  BootInv'
<1>0. BootInv /\ Typed
  BY KnownTypes DEF Known
<1>1. executor' = [executor EXCEPT !["stage"] = "stop"] /\ executor' \in [Native -> ExecutorStates]
  BY <1>0 DEF Step, Typed, ExecutorStates, Executing
<1>2. executor["stage"] = "fragment"
  BY DEF Running
<1>3. Types'
  BY <1>0, <1>1, <1>2 DEF BootInv, Types
<1>4. Staging'
  BY <1>0, <1>1, <1>2 DEF BootInv, Typed, Staging, Launched, Settled
<1>5. Sending'
  BY <1>0, <1>1, <1>2 DEF BootInv, Typed, Sending
<1>6. Placed'
  BY <1>0, <1>1, <1>2 DEF BootInv, Typed, Placed, RollingBack, Launched
<1>7. Filed'
  BY <1>0, <1>1, <1>2 DEF BootInv, Typed, Filed, Executing
<1>8. Ended'
  BY <1>0, <1>1, <1>2 DEF BootInv, Typed, Ended, Filed, Executing
<1>9. UnitHeld'
  BY <1>0, <1>1, <1>2 DEF BootInv, Typed, UnitHeld
<1>10. Restoring'
  BY <1>0, <1>1, <1>2 DEF BootInv, Typed, Restoring
<1> QED BY <1>3, <1>4, <1>5, <1>6, <1>7, <1>8, <1>9, <1>10 DEF BootInv

\* The staging records that it will stop the source.
LEMMA StageStops ==
  ASSUME Known,
         Running("stage", "stop"),
         source.old = "up",
         Mark("stop"),
         Step("stage", "wait"),
         UNCHANGED <<core, claim, account, unit, waiting, sends, faults, source, files>>
  PROVE  BootInv'
<1>0. BootInv /\ Typed
  BY KnownTypes DEF Known
<1>1. executor' = [executor EXCEPT !["stage"] = "wait"] /\ executor' \in [Native -> ExecutorStates]
  BY <1>0 DEF Step, Typed, ExecutorStates, Executing
<1>2. record' = record \cup {"stop"} /\ record' \in SUBSET Marks
  BY <1>0 DEF Mark, Typed, Marks
<1>3. executor["stage"] = "stop"
  BY DEF Running
<1>4. Types'
  BY <1>0, <1>1, <1>2, <1>3 DEF BootInv, Types
<1>5. Staging'
  BY <1>0, <1>1, <1>2, <1>3 DEF BootInv, Typed, Staging, Launched, Settled
<1>6. Sending'
  BY <1>0, <1>1, <1>2, <1>3 DEF BootInv, Typed, Sending
<1>7. Placed'
  BY <1>0, <1>1, <1>2, <1>3 DEF BootInv, Typed, Placed, RollingBack, Launched
<1>8. Filed'
  BY <1>0, <1>1, <1>2, <1>3 DEF BootInv, Typed, Filed, Executing
<1>9. Ended'
  BY <1>0, <1>1, <1>2, <1>3 DEF BootInv, Typed, Ended, Filed, Executing
<1>10. UnitHeld'
  BY <1>0, <1>1, <1>2, <1>3 DEF BootInv, Typed, UnitHeld
<1>11. Restoring'
  BY <1>0, <1>1, <1>2, <1>3 DEF BootInv, Typed, Restoring
<1> QED BY <1>4, <1>5, <1>6, <1>7, <1>8, <1>9, <1>10, <1>11 DEF BootInv

\* The source is asked to stop.
LEMMA StageSignals ==
  ASSUME Known,
         Running("stage", "wait"),
         source.old = "up",
         source' = [source EXCEPT !.old = "stopping"],
         UNCHANGED <<core, claim, account, unit, waiting, sends, faults, files, record, executor>>
  PROVE  BootInv'
<1>0. BootInv /\ Typed
  BY KnownTypes DEF Known
<1>1. source' \in Sources /\ source'.old = "stopping" /\ source'.new = source.new
  BY <1>0 DEF Sources, Typed
<1>2. executor["stage"] = "wait"
  BY DEF Running
<1>3. Types'
  BY <1>0, <1>1, <1>2 DEF BootInv, Types
<1>4. Staging'
  BY <1>0, <1>1, <1>2 DEF BootInv, Typed, Staging, Launched, Settled
<1>5. Sending'
  BY <1>0, <1>1, <1>2 DEF BootInv, Typed, Sending
<1>6. Placed'
  BY <1>0, <1>1, <1>2 DEF BootInv, Typed, Placed, RollingBack, Launched
<1>7. Filed'
  BY <1>0, <1>1, <1>2 DEF BootInv, Typed, Filed, Executing
<1>8. Ended'
  BY <1>0, <1>1, <1>2 DEF BootInv, Typed, Ended, Filed, Executing
<1>9. UnitHeld'
  BY <1>0, <1>1, <1>2 DEF BootInv, Typed, UnitHeld
<1>10. Restoring'
  BY <1>0, <1>1, <1>2 DEF BootInv, Typed, Restoring
<1> QED BY <1>3, <1>4, <1>5, <1>6, <1>7, <1>8, <1>9, <1>10 DEF BootInv

\* The absence of the source is recorded.
LEMMA StageSees ==
  ASSUME Known,
         Running("stage", "wait"),
         SourceAbsent,
         Mark("absent"),
         Step("stage", "install"),
         UNCHANGED <<core, claim, account, unit, waiting, sends, faults, source, files>>
  PROVE  BootInv'
<1>0. BootInv /\ Typed
  BY KnownTypes DEF Known
<1>1. executor' = [executor EXCEPT !["stage"] = "install"] /\ executor' \in [Native -> ExecutorStates]
  BY <1>0 DEF Step, Typed, ExecutorStates, Executing
<1>2. record' = record \cup {"absent"} /\ record' \in SUBSET Marks
  BY <1>0 DEF Mark, Typed, Marks
<1>3. executor["stage"] = "wait"
  BY DEF Running
<1>4. source.old = "gone"
  BY DEF SourceAbsent
<1>5. Types'
  BY <1>0, <1>1, <1>2, <1>3, <1>4 DEF BootInv, Types
<1>6. Staging'
  BY <1>0, <1>1, <1>2, <1>3, <1>4 DEF BootInv, Typed, Staging, Launched, Settled
<1>7. Sending'
  BY <1>0, <1>1, <1>2, <1>3, <1>4 DEF BootInv, Typed, Sending
<1>8. Placed'
  BY <1>0, <1>1, <1>2, <1>3, <1>4 DEF BootInv, Typed, Placed, RollingBack, Launched
<1>9. Filed'
  BY <1>0, <1>1, <1>2, <1>3, <1>4 DEF BootInv, Typed, Filed, Executing
<1>10. Ended'
  BY <1>0, <1>1, <1>2, <1>3, <1>4 DEF BootInv, Typed, Ended, Filed, Executing
<1>11. UnitHeld'
  BY <1>0, <1>1, <1>2, <1>3, <1>4 DEF BootInv, Typed, UnitHeld
<1>12. Restoring'
  BY <1>0, <1>1, <1>2, <1>3, <1>4 DEF BootInv, Typed, Restoring
<1> QED BY <1>5, <1>6, <1>7, <1>8, <1>9, <1>10, <1>11, <1>12 DEF BootInv

\* The staging replaces the other files.
LEMMA StageInstalls ==
  ASSUME Known,
         Running("stage", "install"),
         files \in {"fragment", "partial"},
         files' = IF files = "fragment" THEN "partial" ELSE "after",
         Step("stage", IF files = "fragment" THEN "install" ELSE "done"),
         UNCHANGED <<core, claim, account, unit, waiting, sends, faults, source, record>>
  PROVE  BootInv'
<1>0. BootInv /\ Typed
  BY KnownTypes DEF Known
<1>1. files' \in {"partial", "after"}
  OBVIOUS
<1>2. /\ executor' = [executor EXCEPT !["stage"] = IF files = "fragment" THEN "install" ELSE "done"]
      /\ executor' \in [Native -> ExecutorStates]
  BY <1>0 DEF Step, Typed, ExecutorStates, Executing
<1>3. executor["stage"] = "install"
  BY DEF Running
<1>4. Types'
  BY <1>0, <1>1, <1>2, <1>3 DEF BootInv, Types
<1>5. Staging'
  BY <1>0, <1>1, <1>2, <1>3 DEF BootInv, Typed, Staging, Launched, Settled
<1>6. Sending'
  BY <1>0, <1>1, <1>2, <1>3 DEF BootInv, Typed, Sending
<1>7. Placed'
  BY <1>0, <1>1, <1>2, <1>3 DEF BootInv, Typed, Placed, RollingBack, Launched
<1>8. Filed'
  BY <1>0, <1>1, <1>2, <1>3 DEF BootInv, Typed, Filed, Executing
<1>9. Ended'
  BY <1>0, <1>1, <1>2, <1>3 DEF BootInv, Typed, Ended, Filed, Executing
<1>10. UnitHeld'
  BY <1>0, <1>1, <1>2, <1>3 DEF BootInv, Typed, UnitHeld
<1>11. Restoring'
  BY <1>0, <1>1, <1>2, <1>3 DEF BootInv, Typed, Restoring
<1> QED BY <1>4, <1>5, <1>6, <1>7, <1>8, <1>9, <1>10, <1>11 DEF BootInv

\* The activation is recorded once, over the staged files.
LEMMA ActivationBegins ==
  ASSUME Known,
         Running("activate", "check"),
         ~ Locked,
         MayActivate,
         Mark("activation"),
         Step("activate", "tag"),
         UNCHANGED <<core, claim, account, unit, waiting, sends, faults, source, files>>
  PROVE  BootInv'
<1>0. BootInv /\ Typed
  BY KnownTypes DEF Known
<1>1. executor' = [executor EXCEPT !["activate"] = "tag"] /\ executor' \in [Native -> ExecutorStates]
  BY <1>0 DEF Step, Typed, ExecutorStates, Executing
<1>2. record' = record \cup {"activation"} /\ record' \in SUBSET Marks
  BY <1>0 DEF Mark, Typed, Marks
<1>3. executor["activate"] = "check"
  BY DEF Running
<1>4. executor["rollback"] # "restore" /\ executor["stage"] \notin Executing
  BY <1>0 DEF Locked, Typed, Executing
<1>5. "absent" \in record /\ "rolled" \notin record /\ files = "after"
  BY DEF MayActivate
<1>6. Types'
  BY <1>0, <1>1, <1>2, <1>3, <1>4, <1>5 DEF BootInv, Types
<1>7. Staging'
  BY <1>0, <1>1, <1>2, <1>3, <1>4, <1>5 DEF BootInv, Typed, Staging, Launched, Settled
<1>8. Sending'
  BY <1>0, <1>1, <1>2, <1>3, <1>4, <1>5 DEF BootInv, Typed, Sending
<1>9. Placed'
  BY <1>0, <1>1, <1>2, <1>3, <1>4, <1>5 DEF BootInv, Typed, Placed, RollingBack, Launched
<1>10. Filed'
  BY <1>0, <1>1, <1>2, <1>3, <1>4, <1>5 DEF BootInv, Typed, Filed, Executing
<1>11. Ended'
  BY <1>0, <1>1, <1>2, <1>3, <1>4, <1>5 DEF BootInv, Typed, Ended, Filed, Executing
<1>12. UnitHeld'
  BY <1>0, <1>1, <1>2, <1>3, <1>4, <1>5 DEF BootInv, Typed, UnitHeld
<1>13. Restoring'
  BY <1>0, <1>1, <1>2, <1>3, <1>4, <1>5 DEF BootInv, Typed, Restoring
<1> QED BY <1>6, <1>7, <1>8, <1>9, <1>10, <1>11, <1>12, <1>13 DEF BootInv

\* The start of the new proxy is recorded with the last file.
LEMMA ActivationTags ==
  ASSUME Known,
         Running("activate", "tag"),
         files = "after",
         files' = "tagged",
         Mark("start"),
         Step("activate", "start"),
         UNCHANGED <<core, claim, account, unit, waiting, sends, faults, source>>
  PROVE  BootInv'
<1>0. BootInv /\ Typed
  BY KnownTypes DEF Known
<1>1. executor' = [executor EXCEPT !["activate"] = "start"] /\ executor' \in [Native -> ExecutorStates]
  BY <1>0 DEF Step, Typed, ExecutorStates, Executing
<1>2. record' = record \cup {"start"} /\ record' \in SUBSET Marks
  BY <1>0 DEF Mark, Typed, Marks
<1>3. executor["activate"] = "tag"
  BY DEF Running
<1>4. Types'
  BY <1>0, <1>1, <1>2, <1>3 DEF BootInv, Types
<1>5. Staging'
  BY <1>0, <1>1, <1>2, <1>3 DEF BootInv, Typed, Staging, Launched, Settled
<1>6. Sending'
  BY <1>0, <1>1, <1>2, <1>3 DEF BootInv, Typed, Sending
<1>7. Placed'
  BY <1>0, <1>1, <1>2, <1>3 DEF BootInv, Typed, Placed, RollingBack, Launched
<1>8. Filed'
  BY <1>0, <1>1, <1>2, <1>3 DEF BootInv, Typed, Filed, Executing
<1>9. Ended'
  BY <1>0, <1>1, <1>2, <1>3 DEF BootInv, Typed, Ended, Filed, Executing
<1>10. UnitHeld'
  BY <1>0, <1>1, <1>2, <1>3 DEF BootInv, Typed, UnitHeld
<1>11. Restoring'
  BY <1>0, <1>1, <1>2, <1>3 DEF BootInv, Typed, Restoring
<1> QED BY <1>4, <1>5, <1>6, <1>7, <1>8, <1>9, <1>10, <1>11 DEF BootInv

\* The new proxy is asked for.
LEMMA ActivationStarts ==
  ASSUME Known,
         Running("activate", "start"),
         source' = [source EXCEPT !.new = "queued"],
         Step("activate", "observe"),
         UNCHANGED <<core, claim, account, unit, waiting, sends, faults, files, record>>
  PROVE  BootInv'
<1>0. BootInv /\ Typed
  BY KnownTypes DEF Known
<1>1. executor' = [executor EXCEPT !["activate"] = "observe"] /\ executor' \in [Native -> ExecutorStates]
  BY <1>0 DEF Step, Typed, ExecutorStates, Executing
<1>2. source' \in Sources /\ source'.new = "queued" /\ source'.old = source.old
  BY <1>0 DEF Sources, Typed
<1>3. executor["activate"] = "start"
  BY DEF Running
<1>4. Types'
  BY <1>0, <1>1, <1>2, <1>3 DEF BootInv, Types
<1>5. Staging'
  BY <1>0, <1>1, <1>2, <1>3 DEF BootInv, Typed, Staging, Launched, Settled
<1>6. Sending'
  BY <1>0, <1>1, <1>2, <1>3 DEF BootInv, Typed, Sending
<1>7. Placed'
  BY <1>0, <1>1, <1>2, <1>3 DEF BootInv, Typed, Placed, RollingBack, Launched
<1>8. Filed'
  BY <1>0, <1>1, <1>2, <1>3 DEF BootInv, Typed, Filed, Executing
<1>9. Ended'
  BY <1>0, <1>1, <1>2, <1>3 DEF BootInv, Typed, Ended, Filed, Executing
<1>10. UnitHeld'
  BY <1>0, <1>1, <1>2, <1>3 DEF BootInv, Typed, UnitHeld
<1>11. Restoring'
  BY <1>0, <1>1, <1>2, <1>3 DEF BootInv, Typed, Restoring
<1> QED BY <1>4, <1>5, <1>6, <1>7, <1>8, <1>9, <1>10, <1>11 DEF BootInv

\* The activation is done.
LEMMA ActivationEnds ==
  ASSUME Known,
         Running("activate", "observe"),
         source.new = "up",
         Step("activate", "done"),
         UNCHANGED <<core, claim, account, unit, waiting, sends, faults, source, files, record>>
  PROVE  BootInv'
<1>0. BootInv /\ Typed
  BY KnownTypes DEF Known
<1>1. executor' = [executor EXCEPT !["activate"] = "done"] /\ executor' \in [Native -> ExecutorStates]
  BY <1>0 DEF Step, Typed, ExecutorStates, Executing
<1>2. executor["activate"] = "observe"
  BY DEF Running
<1>3. Types'
  BY <1>0, <1>1, <1>2 DEF BootInv, Types
<1>4. Staging'
  BY <1>0, <1>1, <1>2 DEF BootInv, Typed, Staging, Launched, Settled
<1>5. Sending'
  BY <1>0, <1>1, <1>2 DEF BootInv, Typed, Sending
<1>6. Placed'
  BY <1>0, <1>1, <1>2 DEF BootInv, Typed, Placed, RollingBack, Launched
<1>7. Filed'
  BY <1>0, <1>1, <1>2 DEF BootInv, Typed, Filed, Executing
<1>8. Ended'
  BY <1>0, <1>1, <1>2 DEF BootInv, Typed, Ended, Filed, Executing
<1>9. UnitHeld'
  BY <1>0, <1>1, <1>2 DEF BootInv, Typed, UnitHeld
<1>10. Restoring'
  BY <1>0, <1>1, <1>2 DEF BootInv, Typed, Restoring
<1> QED BY <1>3, <1>4, <1>5, <1>6, <1>7, <1>8, <1>9, <1>10 DEF BootInv

\* The restoration is recorded once.
LEMMA RestoreBegins ==
  ASSUME Known,
         Running("rollback", "check"),
         ~ Locked,
         MayRestore,
         Mark("rollback"),
         Step("rollback", "restore"),
         UNCHANGED <<core, claim, account, unit, waiting, sends, faults, source, files>>
  PROVE  BootInv'
<1>0. BootInv /\ Typed
  BY KnownTypes DEF Known
<1>1. executor' = [executor EXCEPT !["rollback"] = "restore"] /\ executor' \in [Native -> ExecutorStates]
  BY <1>0 DEF Step, Typed, ExecutorStates, Executing
<1>2. record' = record \cup {"rollback"} /\ record' \in SUBSET Marks
  BY <1>0 DEF Mark, Typed, Marks
<1>3. executor["rollback"] = "check"
  BY DEF Running
<1>4. executor["stage"] \notin Executing
  BY <1>0 DEF Locked, Typed, Executing
<1>5. "created" \in record /\ "activation" \notin record /\ "rolled" \notin record
  BY DEF MayRestore
<1>6. Types'
  BY <1>0, <1>1, <1>2, <1>3, <1>4, <1>5 DEF BootInv, Types
<1>7. Staging'
  BY <1>0, <1>1, <1>2, <1>3, <1>4, <1>5 DEF BootInv, Typed, Staging, Launched, Settled
<1>8. Sending'
  BY <1>0, <1>1, <1>2, <1>3, <1>4, <1>5 DEF BootInv, Typed, Sending
<1>9. Placed'
  BY <1>0, <1>1, <1>2, <1>3, <1>4, <1>5 DEF BootInv, Typed, Placed, RollingBack, Launched
<1>10. Filed'
  BY <1>0, <1>1, <1>2, <1>3, <1>4, <1>5 DEF BootInv, Typed, Filed, Executing
<1>11. Ended'
  BY <1>0, <1>1, <1>2, <1>3, <1>4, <1>5 DEF BootInv, Typed, Ended, Filed, Executing
<1>12. UnitHeld'
  BY <1>0, <1>1, <1>2, <1>3, <1>4, <1>5 DEF BootInv, Typed, UnitHeld
<1>13. Restoring'
  BY <1>0, <1>1, <1>2, <1>3, <1>4, <1>5 DEF BootInv, Typed, Restoring, Placed, RollingBack
<1> QED BY <1>6, <1>7, <1>8, <1>9, <1>10, <1>11, <1>12, <1>13 DEF BootInv

\* A file is given back.
LEMMA RestoreFiles ==
  ASSUME Known,
         Running("rollback", "restore"),
         files # "before",
         files' = IF files = "after" THEN "partial" ELSE IF files = "partial" THEN "fragment" ELSE "before",
         UNCHANGED <<core, claim, account, unit, waiting, sends, faults, source, record, executor>>
  PROVE  BootInv'
<1>0. BootInv /\ Typed
  BY KnownTypes DEF Known
<1>1. files' \in {"before", "partial", "fragment"}
  OBVIOUS
<1>2. executor["rollback"] = "restore"
  BY DEF Running
<1>3. Types'
  BY <1>0, <1>1, <1>2 DEF BootInv, Types
<1>4. Staging'
  BY <1>0, <1>1, <1>2 DEF BootInv, Typed, Staging, Launched, Settled
<1>5. Sending'
  BY <1>0, <1>1, <1>2 DEF BootInv, Typed, Sending
<1>6. Placed'
  BY <1>0, <1>1, <1>2 DEF BootInv, Typed, Placed, RollingBack, Launched
<1>7. Filed'
  BY <1>0, <1>1, <1>2 DEF BootInv, Typed, Filed, Executing
<1>8. Ended'
  BY <1>0, <1>1, <1>2 DEF BootInv, Typed, Ended, Filed, Executing
<1>9. UnitHeld'
  BY <1>0, <1>1, <1>2 DEF BootInv, Typed, UnitHeld
<1>10. Restoring'
  BY <1>0, <1>1, <1>2 DEF BootInv, Typed, Restoring
<1> QED BY <1>3, <1>4, <1>5, <1>6, <1>7, <1>8, <1>9, <1>10 DEF BootInv

\* The restoration is done.
LEMMA RestoreEnds ==
  ASSUME Known,
         Running("rollback", "restore"),
         files = "before",
         Mark("rolled"),
         Step("rollback", "done"),
         UNCHANGED <<core, claim, account, unit, waiting, sends, faults, source, files>>
  PROVE  BootInv'
<1>0. BootInv /\ Typed
  BY KnownTypes DEF Known
<1>1. executor' = [executor EXCEPT !["rollback"] = "done"] /\ executor' \in [Native -> ExecutorStates]
  BY <1>0 DEF Step, Typed, ExecutorStates, Executing
<1>2. record' = record \cup {"rolled"} /\ record' \in SUBSET Marks
  BY <1>0 DEF Mark, Typed, Marks
<1>3. executor["rollback"] = "restore"
  BY DEF Running
<1>4. Types'
  BY <1>0, <1>1, <1>2, <1>3 DEF BootInv, Types
<1>5. Staging'
  BY <1>0, <1>1, <1>2, <1>3 DEF BootInv, Typed, Staging, Launched, Settled
<1>6. Sending'
  BY <1>0, <1>1, <1>2, <1>3 DEF BootInv, Typed, Sending
<1>7. Placed'
  BY <1>0, <1>1, <1>2, <1>3 DEF BootInv, Typed, Placed, RollingBack, Launched
<1>8. Filed'
  BY <1>0, <1>1, <1>2, <1>3 DEF BootInv, Typed, Filed, Executing
<1>9. Ended'
  BY <1>0, <1>1, <1>2, <1>3 DEF BootInv, Typed, Ended, Filed, Executing
<1>10. UnitHeld'
  BY <1>0, <1>1, <1>2, <1>3 DEF BootInv, Typed, UnitHeld
<1>11. Restoring'
  BY <1>0, <1>1, <1>2, <1>3 DEF BootInv, Typed, Restoring
<1> QED BY <1>4, <1>5, <1>6, <1>7, <1>8, <1>9, <1>10, <1>11 DEF BootInv

-----------------------------------------------------------------------------
(* The environment *)

\* A request is refused before its first durable step.
LEMMA RefusesKeep ==
  ASSUME Known, NEW op \in Native, Refuses(op)
  PROVE  BootInv'
<1>0. BootInv /\ Typed
  BY KnownTypes DEF Known
<1>1. UNCHANGED <<core, claim, account, unit, source, files, record, waiting, sends>> /\ executor[op] = "check"
  BY <1>0 DEF Refuses, At, world, Pending, Submitted, Running
<1>2. executor' = [executor EXCEPT ![op] = "over"] /\ executor' \in [Native -> ExecutorStates]
  BY <1>0 DEF Refuses, Step, Typed, ExecutorStates
<1>3. faults' \in Faulty
  BY <1>0 DEF Refuses, Faulty, Typed, Known, BootstrapAssumption
<1>4. Types'
  BY <1>0, <1>1, <1>2, <1>3 DEF BootInv, Types
<1>5. Staging'
  BY <1>0, <1>1, <1>2, <1>3 DEF BootInv, Typed, Staging, Launched, Settled
<1>6. Sending'
  BY <1>0, <1>1, <1>2, <1>3 DEF BootInv, Typed, Sending
<1>7. Placed'
  BY <1>0, <1>1, <1>2, <1>3 DEF BootInv, Typed, Placed, RollingBack, Launched
<1>8. Filed'
  BY <1>0, <1>1, <1>2, <1>3 DEF BootInv, Typed, Filed, Executing
<1>9. Ended'
  BY <1>0, <1>1, <1>2, <1>3 DEF BootInv, Typed, Ended
<1>10. UnitHeld'
  BY <1>0, <1>1, <1>2, <1>3 DEF BootInv, Typed, UnitHeld
<1>11. Restoring'
  BY <1>0, <1>1, <1>2, <1>3 DEF BootInv, Typed, Restoring
<1> QED BY <1>4, <1>5, <1>6, <1>7, <1>8, <1>9, <1>10, <1>11 DEF BootInv

\* The old proxy ends or the new one comes up.
LEMMA SourceMovesKeep ==
  ASSUME Known, SourceMoves
  PROVE  BootInv'
<1>0. BootInv /\ Typed
  BY KnownTypes DEF Known
<1>1. UNCHANGED <<core, claim, account, unit, files, record, executor, waiting, sends, faults>>
  BY <1>0 DEF SourceMoves, At, world, Pending, Submitted
<1>2. /\ source' \in Sources
      /\ \/ source.old = "stopping" /\ source'.old = "gone" /\ source'.new = source.new
         \/ source.new = "queued" /\ source'.new = "up" /\ source'.old = source.old
  BY <1>0 DEF SourceMoves, Sources, Typed
<1>3. Types'
  BY <1>0, <1>1, <1>2 DEF BootInv, Types
<1>4. Staging'
  BY <1>0, <1>1, <1>2 DEF BootInv, Typed, Staging, Launched, Settled
<1>5. Sending'
  BY <1>0, <1>1, <1>2 DEF BootInv, Typed, Sending
<1>6. Placed'
  BY <1>0, <1>1, <1>2 DEF BootInv, Typed, Placed, RollingBack, Launched
<1>7. Filed'
  BY <1>0, <1>1, <1>2 DEF BootInv, Typed, Filed, Executing
<1>8. Ended'
  BY <1>0, <1>1, <1>2 DEF BootInv, Typed, Ended
<1>9. UnitHeld'
  BY <1>0, <1>1, <1>2 DEF BootInv, Typed, UnitHeld
<1>10. Restoring'
  BY <1>0, <1>1, <1>2 DEF BootInv, Typed, Restoring
<1> QED BY <1>3, <1>4, <1>5, <1>6, <1>7, <1>8, <1>9, <1>10 DEF BootInv

\* The unit becomes ready.
LEMMA UnitReadyKeeps ==
  ASSUME Known, UnitReady
  PROVE  BootInv'
<1>0. BootInv /\ Typed
  BY KnownTypes DEF Known
<1>1. UNCHANGED <<core, claim, account, source, files, record, executor, waiting, sends, faults>> /\ unit = "activating" /\ unit' = "ready"
  BY <1>0 DEF UnitReady, At, world, Pending, Submitted
<1>2. Types'
  BY <1>0, <1>1 DEF BootInv, Types
<1>3. Staging'
  BY <1>0, <1>1 DEF BootInv, Typed, Staging, Launched, Settled
<1>4. Sending'
  BY <1>0, <1>1 DEF BootInv, Typed, Sending
<1>5. Placed'
  BY <1>0, <1>1 DEF BootInv, Typed, Placed, RollingBack, Launched
<1>6. Filed'
  BY <1>0, <1>1 DEF BootInv, Typed, Filed, Executing
<1>7. Ended'
  BY <1>0, <1>1 DEF BootInv, Typed, Ended
<1>8. UnitHeld'
  BY <1>0, <1>1 DEF BootInv, Typed, UnitHeld
<1>9. Restoring'
  BY <1>0, <1>1 DEF BootInv, Typed, Restoring
<1> QED BY <1>2, <1>3, <1>4, <1>5, <1>6, <1>7, <1>8, <1>9 DEF BootInv

\* A reservation runs out.
LEMMA ExpiresKeeps ==
  ASSUME Known, Expires
  PROVE  BootInv'
<1>0. BootInv /\ Typed
  BY KnownTypes DEF Known
<1>1. UNCHANGED <<core, claim, unit, source, files, record, executor, waiting, sends, faults>> /\ account = "pending" /\ account' = "stale"
  BY <1>0 DEF Expires, At, world, Pending, Submitted
<1>2. Types'
  BY <1>0, <1>1 DEF BootInv, Types, Live
<1>3. Staging'
  BY <1>0, <1>1 DEF BootInv, Typed, Staging, Launched, Settled
<1>4. Sending'
  BY <1>0, <1>1 DEF BootInv, Typed, Sending
<1>5. Placed'
  BY <1>0, <1>1 DEF BootInv, Typed, Placed, RollingBack, Launched, Gone
<1>6. Filed'
  BY <1>0, <1>1 DEF BootInv, Typed, Filed, Executing
<1>7. Ended'
  BY <1>0, <1>1 DEF BootInv, Typed, Ended, Gone
<1>8. UnitHeld'
  BY <1>0, <1>1 DEF BootInv, Typed, UnitHeld, Live
<1>9. Restoring'
  BY <1>0, <1>1 DEF BootInv, Typed, Restoring, Gone
<1> QED BY <1>2, <1>3, <1>4, <1>5, <1>6, <1>7, <1>8, <1>9 DEF BootInv

\* The unit, the new proxy or an executor ends.
LEMMA DiesKeeps ==
  ASSUME Known, Dies
  PROVE  BootInv'
<1>0. BootInv /\ Typed
  BY KnownTypes DEF Known
<1>1. UNCHANGED <<core, claim, account, files, record, waiting, sends>>
  BY <1>0 DEF Dies, At, world, Pending, Submitted
<1>2. faults' \in Faulty
  BY <1>0 DEF Dies, Faulty, Typed, Known, BootstrapAssumption
<1>3. \/ unit # "none" /\ unit' = "failed" /\ UNCHANGED <<source, executor>>
      \/ /\ source' \in Sources /\ source.new = "up" /\ source'.new = "dead" /\ source'.old = source.old
         /\ UNCHANGED <<unit, executor>>
      \/ /\ executor' \in [Native -> ExecutorStates] /\ UNCHANGED <<unit, source>>
         /\ \E op \in Native : /\ executor[op] \notin {"none", "done", "over"}
                               /\ executor' = [executor EXCEPT ![op] = "over"]
  BY <1>0 DEF Dies, Step, Sources, Typed, ExecutorStates
<1>4. Types'
  BY <1>0, <1>1, <1>2, <1>3 DEF BootInv, Types
<1>5. Staging'
  BY <1>0, <1>1, <1>2, <1>3 DEF BootInv, Typed, Staging, Launched, Settled
<1>6. Sending'
  BY <1>0, <1>1, <1>2, <1>3 DEF BootInv, Typed, Sending
<1>7. Placed'
  BY <1>0, <1>1, <1>2, <1>3 DEF BootInv, Typed, Placed, RollingBack, Launched
<1>8. Filed'
  BY <1>0, <1>1, <1>2, <1>3 DEF BootInv, Typed, Filed, Executing
<1>9. Ended'
  BY <1>0, <1>1, <1>2, <1>3 DEF BootInv, Typed, Ended
<1>10. UnitHeld'
  BY <1>0, <1>1, <1>2, <1>3 DEF BootInv, Typed, UnitHeld
<1>11. Restoring'
  BY <1>0, <1>1, <1>2, <1>3 DEF BootInv, Typed, Restoring
<1> QED BY <1>4, <1>5, <1>6, <1>7, <1>8, <1>9, <1>10, <1>11 DEF BootInv

\* A command that fails kills the executor it waits for.
LEMMA FailsKeep ==
  ASSUME Known, Fails
  PROVE  BootInv'
<1>0. BootInv /\ Typed
  BY KnownTypes DEF Known
<1>1. UNCHANGED <<claim, account, unit, source, files, record, sends>> /\ core.pc # "idle"
  BY <1>0 DEF Fails, At, world, Pending, Submitted
<1>2. faults' \in Faulty
  BY <1>0 DEF Fails, Faulty, Typed, Known, BootstrapAssumption
<1>3. core' \in Cores /\ core'.pc = "idle" /\ core'.op = "none"
  BY <1>0, GoIs DEF Fails, Pcs, Typed
<1>4. waiting' \in {"none", "current", "rotated"} /\ (waiting' = "current" => claim.stage # "none")
  BY <1>0 DEF Fails, At, BootInv, Types, Placed
<1>5. core.pc = "ack" => core.op \in Native /\ executor[core.op] # "none"
  BY <1>0 DEF BootInv, Sending, Typed
<1>6. /\ executor' \in [Native -> ExecutorStates]
      /\ \A e \in Native : executor'[e] = executor[e] \/ (executor[e] \notin {"none", "done"} /\ executor'[e] = "over")
      /\ core.pc = "ack" /\ core.op = "rollback" => executor'["rollback"] # "check"
  BY <1>0, <1>5 DEF Fails, At, Typed, ExecutorStates
<1>7. Types'
  BY <1>0, <1>1, <1>2, <1>3, <1>4, <1>5, <1>6 DEF BootInv, Types
<1>8. Staging'
  BY <1>0, <1>1, <1>2, <1>3, <1>4, <1>5, <1>6 DEF BootInv, Typed, Staging, Launched, Settled
<1>9. Sending'
  BY <1>0, <1>1, <1>2, <1>3, <1>4, <1>5, <1>6 DEF BootInv, Typed, Sending
<1>10. Placed'
  BY <1>0, <1>1, <1>2, <1>3, <1>4, <1>5, <1>6 DEF BootInv, Typed, Placed, RollingBack, Launched
<1>11. Filed'
  BY <1>0, <1>1, <1>2, <1>3, <1>4, <1>5, <1>6 DEF BootInv, Typed, Filed, Executing
<1>12. Ended'
  BY <1>0, <1>1, <1>2, <1>3, <1>4, <1>5, <1>6 DEF BootInv, Typed, Ended
<1>13. UnitHeld'
  BY <1>0, <1>1, <1>2, <1>3, <1>4, <1>5, <1>6 DEF BootInv, Typed, UnitHeld
<1>14. Restoring'
  BY <1>0, <1>1, <1>2, <1>3, <1>4, <1>5, <1>6 DEF BootInv, Typed, Restoring
<1> QED BY <1>7, <1>8, <1>9, <1>10, <1>11, <1>12, <1>13, <1>14 DEF BootInv

\* A command is killed.
LEMMA CrashKeeps ==
  ASSUME Known, Crash
  PROVE  BootInv'
<1>0. BootInv /\ Typed
  BY KnownTypes DEF Known
<1>1. UNCHANGED <<claim, account, unit, source, files, record, sends>> /\ waiting' = "none"
  BY <1>0 DEF Crash, At, world, Pending, Submitted
<1>2. faults' \in Faulty
  BY <1>0 DEF Crash, Faulty, Typed, Known, BootstrapAssumption
<1>3. core' \in Cores /\ core'.pc = "down" /\ core'.op = "none"
  BY <1>0, GoIs DEF Crash, Pcs, Typed
<1>4. /\ executor' \in [Native -> ExecutorStates]
      /\ \A e \in Native : executor'[e] = executor[e] \/ (executor[e] = "check" /\ executor'[e] = "over")
      /\ ~ LateStart => executor'["rollback"] # "check"
  BY <1>0 DEF Crash, Typed, ExecutorStates
<1>5. Types'
  BY <1>0, <1>1, <1>2, <1>3, <1>4 DEF BootInv, Types
<1>6. Staging'
  BY <1>0, <1>1, <1>2, <1>3, <1>4 DEF BootInv, Typed, Staging, Launched, Settled
<1>7. Sending'
  BY <1>0, <1>1, <1>2, <1>3, <1>4 DEF BootInv, Typed, Sending
<1>8. Placed'
  BY <1>0, <1>1, <1>2, <1>3, <1>4 DEF BootInv, Typed, Placed, RollingBack, Launched
<1>9. Filed'
  BY <1>0, <1>1, <1>2, <1>3, <1>4 DEF BootInv, Typed, Filed, Executing
<1>10. Ended'
  BY <1>0, <1>1, <1>2, <1>3, <1>4 DEF BootInv, Typed, Ended
<1>11. UnitHeld'
  BY <1>0, <1>1, <1>2, <1>3, <1>4 DEF BootInv, Typed, UnitHeld
<1>12. Restoring'
  BY <1>0, <1>1, <1>2, <1>3, <1>4 DEF BootInv, Typed, Restoring
<1> QED BY <1>5, <1>6, <1>7, <1>8, <1>9, <1>10, <1>11, <1>12 DEF BootInv

-----------------------------------------------------------------------------
(* Every step *)

\* Every step of the command keeps the invariant.
LEMMA CommandKeeps ==
  ASSUME Known, Command
  PROVE  BootInv'
<1>0. BootInv
  BY DEF Known
<1>1. CASE Claims
  BY <1>1, ClaimsKeep
<1>2. CASE Submits
  BY <1>2, SubmitsKeep
<1>3. CASE Sends
  BY <1>3, SendsKeep
<1>4. CASE StageAcknowledged
  BY <1>4, StageAckKeeps
<1>5. CASE ActivateAcknowledged
  BY <1>5, ActivateAckKeeps
<1>6. CASE Placing
  BY <1>6, PlacingKeeps
<1>7. CASE Places
  BY <1>7, PlacesKeeps
<1>8. CASE UsesPrepared
  <2>1. UNCHANGED <<claim, account, unit, source, files, record, executor, waiting, sends, faults>> /\ core.pc = "look"
    BY <1>8 DEF UsesPrepared, world, At
  <2>2. Go("admit") /\ claim.stage = "placed" /\ "admit" \in Pcs
    BY <1>8 DEF UsesPrepared, Pcs
  <2>3. waiting # "current" /\ (~ LateStart => executor["rollback"] # "check")
    BY <1>0, <2>1 DEF BootInv, Placed, Restoring
  <2> QED BY <2>1, <2>2, <2>3, GoKeeps
<1>9. CASE Admits
  BY <1>9, AdmitsKeep
<1>10. CASE Starts
  BY <1>10, StartsKeep
<1>11. CASE StartAcknowledged
  BY <1>11, StartAckKeeps
<1>12. CASE HealthObserved
  BY <1>12, HealthKeeps
<1>13. CASE Confirms
  BY <1>13, ConfirmsKeep
<1>14. CASE DefaultConfirmed
  BY <1>14, DefaultKeeps
<1>15. CASE LauncherReleases
  BY <1>15, LauncherKeeps
<1>16. CASE Activates
  BY <1>16, ActivatesKeep
<1>17. CASE Completes
  BY <1>17, CompletesKeep
<1>18. CASE GivesBack
  BY <1>18, GivesBackKeeps
<1>19. CASE Aborts
  BY <1>19, AbortsKeep
<1>20. CASE SettlesLaunch
  BY <1>20, SettleKeeps
<1>21. CASE Settles
  BY <1>21, SettlesKeep
<1>22. CASE ResumesActivation
  <2>1. UNCHANGED <<claim, account, unit, source, files, record, executor, waiting, sends, faults>> /\ core.pc = "look"
    BY <1>22 DEF ResumesActivation, world, At
  <2>2. Go("activate") /\ claim.stage = "default_confirmed" /\ "activate" \in Pcs
    BY <1>22 DEF ResumesActivation, Pcs
  <2>3. waiting # "current" /\ (~ LateStart => executor["rollback"] # "check")
    BY <1>0, <2>1 DEF BootInv, Placed, Restoring
  <2> QED BY <2>1, <2>2, <2>3, GoKeeps
<1>23. CASE NeedsResume
  <2>1. UNCHANGED <<claim, account, unit, source, files, record, executor, waiting, sends, faults>> /\ core.pc = "look"
    BY <1>23 DEF NeedsResume, world, At
  <2>2. Go("idle") /\ "idle" \in Pcs
    BY <1>23 DEF NeedsResume, Pcs
  <2>3. ~ LateStart => executor["rollback"] # "check"
    BY <1>0, <2>1 DEF BootInv, Restoring
  <2> QED BY <2>1, <2>2, <2>3, GoKeeps
<1>24. CASE GivesUp
  <2>1. UNCHANGED <<claim, account, unit, source, files, record, executor, waiting, sends, faults>>
    BY <1>24 DEF GivesUp, world
  <2>2. Go("idle") /\ Missing /\ "idle" \in Pcs
    BY <1>24 DEF GivesUp, Pcs
  <2>3. ~ LateStart => executor["rollback"] # "check"
    BY <1>0, <2>2 DEF BootInv, Restoring, Missing, At
  <2> QED BY <2>1, <2>2, <2>3, GoKeeps
<1> QED BY <1>1, <1>2, <1>3, <1>4, <1>5, <1>6, <1>7, <1>8, <1>9, <1>10, <1>11, <1>12, <1>13, <1>14, <1>15, <1>16,
        <1>17, <1>18, <1>19, <1>20, <1>21, <1>22, <1>23, <1>24 DEF Command

\* Every step of an executor keeps the invariant.
LEMMA ExecutorKeeps ==
  ASSUME Known, Executor
  PROVE  BootInv'
<1>1. UNCHANGED <<core, claim, account, unit, waiting, sends, faults>>
  BY DEF Executor
<1>2. CASE Stages
  BY <1>1, <1>2, StageBegins, StageFragment, StageStops, StageSignals, StageSees, StageInstalls DEF Stages
<1>3. CASE ActivatesSource
  BY <1>1, <1>3, ActivationBegins, ActivationTags, ActivationStarts, ActivationEnds DEF ActivatesSource
<1>4. CASE Restores
  BY <1>1, <1>4, RestoreBegins, RestoreFiles, RestoreEnds DEF Restores
<1> QED BY <1>2, <1>3, <1>4 DEF Executor

\* Every step of the environment and of the operator keeps the invariant.
LEMMA EnvironmentKeeps ==
  ASSUME Known, Operator \/ Environment
  PROVE  BootInv'
<1>1. CASE Operator
  BY <1>1, RollsBackKeeps, ObservesKeep DEF Operator
<1>2. CASE Restarts
  <2>1. UNCHANGED <<claim, account, unit, source, files, record, executor, waiting, sends, faults>> /\ core.pc = "down"
    BY <1>2 DEF Restarts, world, At
  <2>2. Go("idle") /\ "idle" \in Pcs
    BY <1>2 DEF Restarts, Pcs
  <2>3. ~ LateStart => executor["rollback"] # "check"
    BY <2>1 DEF Known, BootInv, Restoring
  <2> QED BY <2>1, <2>2, <2>3, GoKeeps
<1>3. CASE Environment /\ ~ Restarts
  BY <1>3, SourceMovesKeep, UnitReadyKeeps, ExpiresKeeps, DiesKeeps, FailsKeep, StartFailsKeeps, CrashKeeps, LateKeeps,
     RefusesKeep DEF Environment
<1> QED BY <1>1, <1>2, <1>3

\* No step, and no stutter, leaves the invariant.
LEMMA BootStep == BootstrapAssumption /\ BootInv /\ [Next]_vars => BootInv'
<1>1. SUFFICES ASSUME BootstrapAssumption, BootInv, [Next]_vars PROVE BootInv'
  OBVIOUS
<1>2. Known
  BY <1>1 DEF Known
<1>3. CASE UNCHANGED vars
  BY <1>1, <1>3 DEF vars, BootInv, Types, Staging, Sending, Placed, RollingBack, Filed, Ended, UnitHeld, Restoring
<1>4. CASE Next
  BY <1>2, <1>4, CommandKeeps, ExecutorKeeps, EnvironmentKeeps DEF Next
<1> QED BY <1>1, <1>3, <1>4

\* The bootstrap begins in the invariant.
LEMMA BootInit == BootstrapAssumption /\ Init => BootInv
<1>1. SUFFICES ASSUME BootstrapAssumption, Init PROVE BootInv
  OBVIOUS
<1>2. /\ Effects = {"stage", "launch", "activate", "rollback"} /\ Native = {"stage", "activate", "rollback"}
      /\ "none" \in Phases
  BY DEF Effects, Native, Phases
<1>3. Types
  <2>1. core \in Cores
    BY <1>1 DEF Init, Cores, Pcs
  <2>2. claim \in Claimed
    BY <1>1, <1>2 DEF Init, Claimed
  <2>3. faults \in Faulty
    BY <1>1 DEF Init, Faulty, BootstrapAssumption
  <2>4. source \in Sources /\ executor \in [Native -> ExecutorStates] /\ sends \in [Effects -> {0, 1}]
    BY <1>1 DEF Init, Sources, ExecutorStates
  <2> QED BY <1>1, <2>1, <2>2, <2>3, <2>4 DEF Init, Types, Gone
<1>4. Staging /\ Sending
  BY <1>1, <1>2 DEF Init, Staging, Sending, Launched, Settled
<1>5. Placed /\ Filed /\ Ended /\ UnitHeld /\ Restoring
  BY <1>1, <1>2 DEF Init, Placed, RollingBack, Filed, Executing, Ended, UnitHeld, Restoring
<1> QED BY <1>3, <1>4, <1>5 DEF BootInv

-----------------------------------------------------------------------------
(* What a bootstrap promises *)

LEMMA BootKeepsSafe == BootInv => BootstrapSafe
<1> SUFFICES ASSUME BootInv PROVE BootstrapSafe
  OBVIOUS
<1>1. Types /\ Staging /\ Sending /\ Filed /\ Ended /\ UnitHeld /\ Restoring
  BY DEF BootInv
<1>2. Effects = {"stage", "launch", "activate", "rollback"} /\ Native = {"stage", "activate", "rollback"}
  BY DEF Effects, Native
<1>3. TypeOK
  <2>1. sends \in [Effects -> Nat]
    BY <1>1 DEF Types
  <2>2. executor \in [Native -> {"none", "check", "fragment", "stop", "wait", "install",
                                 "tag", "start", "observe", "restore", "done", "over"}]
    BY <1>1 DEF Types, ExecutorStates, Executing
  <2>3. /\ core \in [pc : Pcs, op : Native \cup {"none"}, mode : Modes \cup {"run", "none"}]
        /\ claim \in [stage : Phases, fx : [Effects -> {"none", "submitted", "acknowledged"}],
                      lease : BOOLEAN, seen : BOOLEAN]
        /\ account \in {"none", "pending", "stale", "confirmed", "released"}
        /\ source \in [old : {"up", "stopping", "gone"}, new : {"none", "queued", "up", "dead"}]
        /\ record \subseteq Marks
        /\ faults \in [crashes : 0 .. MaxCrashes, fails : 0 .. MaxFails, deaths : 0 .. MaxDeaths]
    BY <1>1 DEF Types, Cores, Claimed, Live, Gone, Sources, Faulty
  <2> QED BY <1>1, <2>1, <2>2, <2>3 DEF Types, TypeOK, Pcs, Marks
<1>4. OnceEach
  BY <1>1 DEF Types, OnceEach
<1>5. UnitHasAccount
  BY <1>1 DEF UnitHasAccount, UnitHeld, Live
<1>6. source.new # "none" =>
        /\ "activation" \in record /\ files = "tagged" /\ source.old = "gone" /\ "rolled" \notin record
        /\ claim.fx["activate"] # "none"
  <2>1. "activation" \in record => claim.fx["activate"] # "none"
    BY <1>1, <1>2 DEF Filed, Sending
  <2> QED BY <1>1, <2>1 DEF Filed
<1>7. claim.stage \in Settled => account = "confirmed" /\ claim.seen /\ sends["launch"] = 1
  BY <1>1 DEF Staging
<1>8. HandoffInOrder
  BY <1>1, <1>6, <1>7 DEF HandoffInOrder, Staging, Settled
<1>9. CompleteIsReal
  BY <1>1, <1>6, <1>7 DEF CompleteIsReal, Ended, Settled
<1>10. AbortIsClean
  <2> SUFFICES ASSUME claim.stage = "aborted" PROVE AbortIsClean
    BY DEF AbortIsClean
  <2>1. files = "before" /\ "rolled" \in record /\ executor["rollback"] = "done" /\ account \in Gone
        /\ source.old # "stopping"
    BY <1>1 DEF Ended
  <2>2. "rollback" \in record /\ source.new = "none" /\ "activation" \notin record
    BY <1>1, <1>6, <2>1 DEF Filed
  <2>3. unit = "none"
    <3>1. claim.fx["launch"] = "none"
      BY <1>1 DEF Staging, Launched
    <3>2. sends["launch"] = 0
      BY <1>1, <1>2, <3>1 DEF Sending
    <3> QED BY <1>1, <3>2 DEF Sending
  <2>4. \A e \in Native : executor[e] \in {"none", "check", "done", "over"}
    <3>1. executor["stage"] \notin Executing /\ executor["activate"] \notin Executing
      BY <1>1, <2>2 DEF Filed
    <3> QED BY <1>1, <1>2, <2>1, <3>1 DEF Types, ExecutorStates
  <2> QED BY <2>1, <2>2, <2>3, <2>4 DEF AbortIsClean, Gone
<1>11. RestoredWithoutAccount
  BY <1>1 DEF RestoredWithoutAccount, Restoring, Gone
<1> QED BY <1>3, <1>4, <1>5, <1>8, <1>9, <1>10, <1>11 DEF BootstrapSafe

-----------------------------------------------------------------------------
(* What the store is asked for *)

\* The stage that follows another one.
LEMMA StagesFollow ==
  ASSUME \/ claim.stage = "claimed" /\ claim'.stage = "stage_submitted"
         \/ claim.stage = "stage_submitted" /\ claim'.stage = "staged"
         \/ claim.stage = "staged" /\ claim'.stage = "placing"
         \/ claim.stage = "placing" /\ claim'.stage = "placed"
         \/ claim.stage = "placed" /\ claim'.stage = "start_submitted"
         \/ claim.stage = "start_submitted" /\ claim'.stage = "start_acknowledged"
         \/ claim.stage = "start_acknowledged" /\ claim'.stage = "health_observed"
         \/ claim.stage = "health_observed" /\ claim'.stage = "confirm_submitted"
         \/ claim.stage = "confirm_submitted" /\ claim'.stage = "default_confirmed"
         \/ claim.stage = "default_confirmed" /\ claim'.stage = "activate_submitted"
         \/ claim.stage = "activate_submitted" /\ claim'.stage = "complete"
  PROVE  StageAccepted
<1>1. DOMAIN Order = 1 .. 12
  BY DEF Order
<1>2. /\ Order[1] = "claimed" /\ Order[2] = "stage_submitted" /\ Order[3] = "staged" /\ Order[4] = "placing"
      /\ Order[5] = "placed" /\ Order[6] = "start_submitted" /\ Order[7] = "start_acknowledged"
      /\ Order[8] = "health_observed" /\ Order[9] = "confirm_submitted" /\ Order[10] = "default_confirmed"
      /\ Order[11] = "activate_submitted" /\ Order[12] = "complete"
  BY DEF Order
<1>3. ASSUME NEW i \in 1 .. 11, claim.stage = Order[i], claim'.stage = Order[i + 1]
      PROVE  StageAccepted
  <2>1. i \in DOMAIN Order /\ i + 1 \in DOMAIN Order
    BY <1>1
  <2> QED BY <1>3, <2>1 DEF StageAccepted
<1>4. \E i \in 1 .. 11 : claim.stage = Order[i] /\ claim'.stage = Order[i + 1]
  <2>1. \A i \in 1 .. 11 : (claim.stage = Order[i] /\ claim'.stage = Order[i + 1])
           => \E j \in 1 .. 11 : claim.stage = Order[j] /\ claim'.stage = Order[j + 1]
    OBVIOUS
  <2>2. /\ 1 \in 1 .. 11 /\ 2 \in 1 .. 11 /\ 3 \in 1 .. 11 /\ 4 \in 1 .. 11 /\ 5 \in 1 .. 11 /\ 6 \in 1 .. 11
        /\ 7 \in 1 .. 11 /\ 8 \in 1 .. 11 /\ 9 \in 1 .. 11 /\ 10 \in 1 .. 11 /\ 11 \in 1 .. 11
        /\ 1 + 1 = 2 /\ 2 + 1 = 3 /\ 3 + 1 = 4 /\ 4 + 1 = 5 /\ 5 + 1 = 6 /\ 6 + 1 = 7 /\ 7 + 1 = 8 /\ 8 + 1 = 9
        /\ 9 + 1 = 10 /\ 10 + 1 = 11 /\ 11 + 1 = 12
    OBVIOUS
  <2> QED BY <1>2, <2>1, <2>2
<1> QED BY <1>3, <1>4

\* A claim of which only the stage and the evidence of health change is accepted with its stage.
LEMMA OnlyStage ==
  ASSUME StageAccepted, claim'.fx = claim.fx, claim'.lease = claim.lease
  PROVE  StoreAccepts
BY DEF StoreAccepts

\* No step of the system asks the store for a transition it refuses.
LEMMA BootAccepts ==
  ASSUME BootstrapAssumption, BootInv, [Next]_vars
  PROVE  StoreAccepts
<1>0. BootInv /\ Typed
  BY KnownTypes DEF Known
<1>1. CASE UNCHANGED claim
  BY <1>1 DEF StoreAccepts, StageAccepted
<1>2. CASE Claims
  <2>1. /\ claim.stage = "none" /\ claim'.stage = "claimed" /\ claim'.fx = claim.fx
        /\ claim'.lease = claim.lease
    BY <1>0, <1>2 DEF Claims, Stage, Typed, Claimed
  <2> QED BY <2>1, OnlyStage DEF StageAccepted
<1>3. CASE Submits
  <2>1. core.op \in Native /\ claim.fx[core.op] = "none" /\ core.pc = "submit"
    BY <1>0, <1>3 DEF Submits, At, BootInv, Sending
  <2>2. claim'.fx = [claim.fx EXCEPT ![core.op] = "submitted"] /\ claim'.lease = claim.lease
    BY <1>0, <1>3, <2>1 DEF Submits, Typed, Claimed
  <2>3. StageAccepted
    <3>1. CASE core.op = "stage"
      <4>1. claim.stage = "claimed" /\ claim'.stage = "stage_submitted"
        BY <1>0, <1>3, <2>1, <3>1 DEF Submits, StageOf, Typed, Claimed, BootInv, Placed
      <4> QED BY <4>1, StagesFollow
    <3>2. CASE core.op = "activate"
      <4>1. claim.stage = "default_confirmed" /\ claim'.stage = "activate_submitted"
        BY <1>0, <1>3, <2>1, <3>2 DEF Submits, StageOf, Typed, Claimed, BootInv, Placed
      <4> QED BY <4>1, StagesFollow
    <3>3. CASE core.op = "rollback"
      <4>1. claim'.stage = claim.stage
        BY <1>0, <1>3, <3>3 DEF Submits, Typed, Claimed
      <4> QED BY <4>1 DEF StageAccepted
    <3> QED BY <1>0, <2>1, <3>1, <3>2, <3>3 DEF Typed
  <2> QED BY <1>0, <2>1, <2>2, <2>3 DEF StoreAccepts, Typed
<1>4. CASE StageAcknowledged
  <2>1. /\ claim'.stage = "staged" /\ claim'.lease = claim.lease
        /\ claim'.fx = [claim.fx EXCEPT !["stage"] = "acknowledged"]
    BY <1>0, <1>4 DEF StageAcknowledged, Typed, Claimed
  <2>2. claim.stage = "stage_submitted"
    BY <1>0, <1>4 DEF StageAcknowledged, At, BootInv, Placed
  <2>3. StageAccepted
    BY <2>1, <2>2, StagesFollow
  <2> QED BY <1>0, <2>1, <2>3 DEF StoreAccepts, Typed
<1>5. CASE ActivateAcknowledged
  <2>1. /\ claim'.stage = claim.stage /\ claim'.lease = claim.lease
        /\ claim'.fx = [claim.fx EXCEPT !["activate"] = "acknowledged"]
    BY <1>0, <1>5 DEF ActivateAcknowledged, Typed, Claimed
  <2> QED BY <1>0, <2>1 DEF StoreAccepts, StageAccepted, Typed
<1>6. CASE Placing
  <2>1. /\ claim.stage \in {"staged", "placing"} /\ claim'.stage = "placing" /\ claim'.fx = claim.fx
        /\ claim'.lease = claim.lease
    BY <1>0, <1>6 DEF Placing, Stage, Typed, Claimed
  <2>2. StageAccepted
    BY <2>1, StagesFollow DEF StageAccepted
  <2> QED BY <2>1, <2>2, OnlyStage
<1>7. CASE Places \/ LateRequest
  <2>1. CASE UNCHANGED claim
    BY <1>1, <2>1
  <2>2. CASE Attaches /\ CanAttach
    <3>1. /\ claim.stage = "placing" /\ claim'.stage = "placed" /\ claim'.fx = claim.fx
          /\ claim'.lease = TRUE
      BY <1>0, <2>2 DEF Attaches, CanAttach, Typed, Claimed
    <3>2. StageAccepted
      BY <3>1, StagesFollow
    <3> QED BY <3>1, <3>2 DEF StoreAccepts
  <2> QED BY <1>7, <2>1, <2>2 DEF Places, LateRequest
<1>8. CASE Admits
  <2>1. /\ claim'.stage = "start_submitted" /\ claim'.lease = claim.lease
        /\ claim'.fx = [claim.fx EXCEPT !["launch"] = "submitted"]
    BY <1>0, <1>8 DEF Admits, Typed, Claimed
  <2>2. claim.stage = "placed" /\ claim.fx["launch"] = "none"
    BY <1>0, <1>8 DEF Admits, At, BootInv, Placed, Staging, Launched
  <2>3. StageAccepted
    BY <2>1, <2>2, StagesFollow
  <2> QED BY <1>0, <2>1, <2>2, <2>3 DEF StoreAccepts, Typed
<1>9. CASE StartAcknowledged
  <2>1. /\ claim'.stage = "start_acknowledged" /\ claim'.lease = claim.lease
        /\ claim'.fx = [claim.fx EXCEPT !["launch"] = "acknowledged"]
    BY <1>0, <1>9 DEF StartAcknowledged, Typed, Claimed
  <2>2. claim.stage = "start_submitted"
    BY <1>0, <1>9 DEF StartAcknowledged, At, BootInv, Placed
  <2>3. StageAccepted
    BY <2>1, <2>2, StagesFollow
  <2> QED BY <1>0, <2>1, <2>3 DEF StoreAccepts, Typed
<1>10. CASE HealthObserved
  <2>1. claim.stage \in {"start_acknowledged", "health_observed"}
    BY <1>0, <1>10 DEF HealthObserved, At, BootInv, Placed
  <2>2. /\ claim'.stage = IF claim.stage = "start_acknowledged" THEN "health_observed" ELSE "confirm_submitted"
        /\ claim'.fx = claim.fx /\ claim'.lease = claim.lease
    BY <1>0, <1>10 DEF HealthObserved, Stage, Typed, Claimed
  <2>3. StageAccepted
    BY <2>1, <2>2, StagesFollow
  <2> QED BY <2>2, <2>3, OnlyStage
<1>11. CASE DefaultConfirmed
  <2>1. /\ claim'.stage = "default_confirmed" /\ claim'.fx = claim.fx /\ claim'.lease = claim.lease
    BY <1>0, <1>11 DEF DefaultConfirmed, Typed, Claimed
  <2>2. claim.stage = "confirm_submitted"
    BY <1>0, <1>11 DEF DefaultConfirmed, At, BootInv, Placed
  <2>3. StageAccepted
    BY <2>1, <2>2, StagesFollow
  <2> QED BY <2>1, <2>3, OnlyStage
<1>12. CASE Completes
  <2>1. /\ claim'.stage = "complete" /\ claim'.fx = claim.fx /\ claim'.lease = claim.lease
    BY <1>0, <1>12 DEF Completes, Stage, Typed, Claimed
  <2>2. claim.stage = "activate_submitted"
    BY <1>0, <1>12 DEF Completes, At, BootInv, Placed
  <2>3. StageAccepted
    BY <2>1, <2>2, StagesFollow
  <2> QED BY <2>1, <2>3, OnlyStage
<1>13. CASE Aborts
  <2>1. /\ claim'.stage = "aborted" /\ claim'.lease = claim.lease
        /\ claim'.fx = [claim.fx EXCEPT !["rollback"] = "acknowledged"]
    BY <1>0, <1>13 DEF Aborts, Typed, Claimed
  <2>2. claim.stage \notin Launched \cup {"none", "aborted"}
    BY <1>0, <1>13 DEF Aborts, At, BootInv, Placed, RollingBack
  <2>3. StageAccepted
    BY <1>0, <2>1, <2>2 DEF StageAccepted, Pending, Launched, Typed
  <2> QED BY <1>0, <2>1, <2>3 DEF StoreAccepts, Typed
<1>14. CASE \E mode \in {"observe", "resume"} : Observes(mode)
  <2>1. CASE UNCHANGED claim
    BY <1>1, <2>1
  <2>2. CASE claim.stage = "stage_submitted" /\ Stage("staged")
    <3>1. claim'.stage = "staged" /\ claim'.fx = claim.fx /\ claim'.lease = claim.lease
      BY <1>0, <2>2 DEF Stage, Typed, Claimed
    <3>2. StageAccepted
      BY <2>2, <3>1, StagesFollow
    <3> QED BY <3>1, <3>2, OnlyStage
  <2> QED BY <1>14, <2>1, <2>2 DEF Observes
<1>15. CASE SettlesLaunch
  <2>1. claim'.stage = claim.stage /\ claim'.fx = claim.fx /\ claim'.lease = claim.lease
    BY <1>0, <1>15 DEF SettlesLaunch, Typed, Claimed
  <2> QED BY <2>1, OnlyStage DEF StageAccepted
<1>16. CASE Settles
  <2>1. claim.seen
    BY <1>0, <1>16 DEF Settles, At, BootInv, Placed
  <2>2. /\ claim'.fx = claim.fx /\ claim'.lease = claim.lease
        /\ \/ claim.stage \in {"start_submitted", "start_acknowledged"} /\ claim'.stage = "health_observed"
           \/ claim.stage = "health_observed" /\ claim'.stage = "confirm_submitted"
           \/ claim.stage = "confirm_submitted" /\ claim'.stage = "default_confirmed"
    BY <1>0, <1>16 DEF Settles, Stage, Typed, Claimed
  <2>3. StageAccepted
    BY <2>1, <2>2, StagesFollow DEF StageAccepted
  <2> QED BY <2>2, <2>3, OnlyStage
<1>17. CASE \/ Sends \/ UsesPrepared \/ Starts \/ Confirms \/ LauncherReleases \/ Activates \/ GivesBack
            \/ ResumesActivation \/ NeedsResume \/ GivesUp \/ RollsBack \/ Executor
            \/ UNCHANGED vars
  BY <1>1, <1>17 DEF Sends, UsesPrepared, Starts, Confirms, LauncherReleases, Activates, GivesBack,
     ResumesActivation, NeedsResume, GivesUp, RollsBack, Executor, vars
<1>18. CASE Environment /\ ~ LateRequest
  BY <1>1, <1>18 DEF Environment, SourceMoves, UnitReady, Expires, Dies, Fails, StartFails, Crash, Restarts, Refuses
<1> QED BY <1>2, <1>3, <1>4, <1>5, <1>6, <1>7, <1>8, <1>9, <1>10, <1>11, <1>12, <1>13, <1>14, <1>15, <1>16,
        <1>17, <1>18 DEF Next, Command, Operator

\* For all bounds, with executors that are in time or late: a bootstrap sends every effect
\* once, starts the new proxy only over the staged files, an absent predecessor and a default
\* with a confirmed account, leaves nothing when it is aborted, and asks its store for no
\* transition that it refuses, over every crash, resumption and rollback.
THEOREM BootHolds == BootstrapAssumption => (Spec => []BootstrapSafe /\ [][StoreAccepts]_vars)
<1> SUFFICES ASSUME BootstrapAssumption PROVE Spec => []BootstrapSafe /\ [][StoreAccepts]_vars
  OBVIOUS
<1>1. Init => BootInv
  BY BootInit
<1>2. BootInv /\ [Next]_vars => BootInv'
  BY BootStep
<1>3. BootInv => BootstrapSafe
  BY BootKeepsSafe
<1>4. BootInv /\ [Next]_vars => StoreAccepts
  BY BootAccepts
<1> QED BY <1>1, <1>2, <1>3, <1>4, PTL DEF Spec

=============================================================================
