-------------------------- MODULE OwnedInstallProofs ---------------------------
(***************************************************************************)
(* Proofs about the installers of the observer and of the archive, for any  *)
(* number of commands that wait for the same lock: a call of one receipt is *)
(* sent once, what is left behind is owned by a receipt, and files are      *)
(* removed only from units at rest and never when somebody else wrote them. *)
(***************************************************************************)
EXTENDS OwnedInstall, TLAPS

Places == {"none", "lock", "begin", "files", "units", "call", "stop", "remove", "reload"}
Open == {"prepared", "installed", "rolling_back"}
Receipts == [phase : {"none", "rolled_back"} \cup Open, effects : [Effects -> {"none", "submitted", "done"}]]
UnitStates == [active : BOOLEAN, enabled : BOOLEAN, cached : BOOLEAN]
Runs == [cmd : {"none", "install", "rollback"}, at : Places, next : 1 .. 4, seen : Receipts, exists : SUBSET Units]

Types ==
    /\ file \in [Files -> {"absent", "ours", "foreign"}] /\ source \in BOOLEAN
    /\ unit \in [Units -> UnitStates]
    /\ late \in SUBSET Effects /\ receipt \in Receipts
    /\ lock \in Commands \cup {"none"} /\ run \in [Commands -> Runs]
    /\ sent \in [Effects -> {0, 1}]

\* A command that does not hold the lock has only looked.
Holding == \A c \in Commands :
    /\ run[c].cmd = "none" <=> run[c].at = "none"
    /\ run[c].cmd # "none" => (run[c].at = "lock" <=> lock # c)
    /\ lock = c => run[c].cmd # "none"

\* What it saw: no call without an answer, and a receipt that it may go on with.
Looked == \A c \in Commands : run[c].at = "lock" =>
    /\ \A e \in Effects : run[c].seen.effects[e] # "submitted"
    /\ run[c].cmd = "install" => run[c].seen.phase # "rolling_back"
    /\ run[c].cmd = "rollback" => run[c].seen.phase \in Open

\* The receipt where the holder of the lock is.
Placing == \A c \in Commands :
    /\ run[c].at = "begin" /\ run[c].cmd = "install" => receipt.phase # "rolling_back"
    /\ run[c].at = "begin" /\ run[c].cmd = "rollback" => receipt.phase \in Open
    /\ run[c].at \in {"files", "units"} => run[c].cmd = "install"
    /\ run[c].at \in {"stop", "remove", "reload"} => run[c].cmd = "rollback"
    /\ run[c].at \notin {"none", "lock", "begin"} =>
         IF run[c].cmd = "install" THEN receipt.phase \in {"prepared", "installed"} ELSE receipt.phase = "rolling_back"
    /\ run[c].at = "call" /\ run[c].cmd = "install" => run[c].next <= Len(Listed(c))

\* Under the lock only the call in hand has no answer; a call that is late
\* has none either, and keeps every command out.
Answers == \A c \in Commands : lock = c => \A e \in Effects : receipt.effects[e] = "submitted" =>
    \/ run[c].at = "call" /\ e = Due(c)
    \/ run[c].at = "reload" /\ e = "rollback_reload"
Lates ==
    /\ \A e \in late : receipt.effects[e] = "submitted"
    /\ lock # "none" => late = {}
    /\ receipt.phase \notin Open => late = {}

\* A call is sent after it was recorded.
Recorded ==
    /\ receipt.phase = "none" => receipt = NoReceipt
    /\ receipt.phase # "none" => \A e \in Effects : receipt.effects[e] = "none" => sent[e] = 0
    /\ \A c \in Commands : run[c].at = "call" => receipt.effects[Due(c)] = "submitted" /\ sent[Due(c)] = 0

\* The files that are left when the receipt is closed are not ours.
NoneOurs == \A f \in Files : file[f] # "ours"
Left ==
    /\ receipt.phase \notin Open => NoneOurs
    /\ \A c \in Commands : run[c].at = "reload" \/ (run[c].at = "call" /\ run[c].next > Len(Listed(c))) => NoneOurs

\* Files are removed from units at rest, and only own ones.
Removing == \A c \in Commands : run[c].at = "remove" =>
    /\ AtRest /\ run[c].next > Len(Listed(c))
    /\ \A f \in Files : file[f] # "foreign"

OwnedInv == Types /\ Holding /\ Looked /\ Placing /\ Answers /\ Lates /\ Recorded /\ Left /\ Removing

-----------------------------------------------------------------------------
(* What a step starts from *)

Known == OwnedInv /\ OwnedInstallAssumption

Typed ==
  /\ receipt \in Receipts /\ receipt.effects \in [Effects -> {"none", "submitted", "done"}]
  /\ run \in [Commands -> Runs] /\ "none" \notin Commands
  /\ sent \in [Effects -> {0, 1}] /\ late \in SUBSET Effects
  /\ \A d \in Commands : /\ run[d] \in Runs /\ run[d].next \in 1 .. 4 /\ run[d].cmd \in {"none", "install", "rollback"}
                         /\ run[d].at \in Places
                         /\ Len(Listed(d)) \in {2, 3}
                         /\ Due(d) \in Effects
                         /\ run[d].next <= Len(Listed(d)) <=> Due(d) # "rollback_reload"
LEMMA KnownTypes == Known => Typed
<1> SUFFICES ASSUME Known PROVE Typed
  OBVIOUS
<1>1. /\ receipt \in Receipts /\ receipt.effects \in [Effects -> {"none", "submitted", "done"}]
      /\ run \in [Commands -> Runs] /\ "none" \notin Commands
      /\ sent \in [Effects -> {0, 1}] /\ late \in SUBSET Effects
  BY DEF Known, OwnedInv, Types, Receipts, OwnedInstallAssumption
<1>2. ASSUME NEW d \in Commands
      PROVE  /\ run[d] \in Runs /\ run[d].next \in 1 .. 4 /\ run[d].cmd \in {"none", "install", "rollback"}
             /\ run[d].at \in Places
  BY <1>1 DEF Runs
<1>3. ASSUME NEW d \in Commands
      PROVE  /\ Len(Listed(d)) \in {2, 3} /\ Due(d) \in Effects
             /\ run[d].next <= Len(Listed(d)) <=> Due(d) # "rollback_reload"
  <2>1. Len(Listed(d)) \in {2, 3}
    BY DEF Listed, InstallEffects, StopEffects
  <2>2. \A n \in 1 .. Len(Listed(d)) : Listed(d)[n] \in Effects \ {"rollback_reload"}
    <3>1. \A n \in {1, 2, 3} : n <= Len(Listed(d)) => Listed(d)[n] \in Effects \ {"rollback_reload"}
      BY DEF Listed, InstallEffects, StopEffects, Effects
    <3> QED BY <3>1, <2>1
  <2>3. "rollback_reload" \in Effects
    BY DEF Effects
  <2> QED BY <1>2, <2>1, <2>2, <2>3 DEF Due
<1> QED BY <1>1, <1>2, <1>3 DEF Typed

\* The call that is due depends on the command and on how far it is.
LEMMA SameDue ==
  ASSUME NEW c, run'[c].cmd = run[c].cmd
  PROVE  /\ Listed(c)' = Listed(c) /\ Len(Listed(c))' = Len(Listed(c)) /\ Stage(c)' = Stage(c)
         /\ run'[c].next = run[c].next => Due(c)' = Due(c)
BY DEF Listed, Due, Stage, InstallEffects, StopEffects

\* Who holds the lock is alone with it.
LEMMA Holds ==
  ASSUME Known, NEW c \in Commands, run[c].at \notin {"none", "lock"}
  PROVE  /\ lock = c /\ run[c].cmd # "none" /\ late = {}
         /\ \A d \in Commands \ {c} : run[d].at \in {"none", "lock"}
BY DEF Known, OwnedInv, Types, Holding, Lates, OwnedInstallAssumption

\* What a call does to the units.
LEMMA AppliedIs ==
  ASSUME unit \in [Units -> UnitStates], NEW e \in Effects
  PROVE  Applied(e) \in [Units -> UnitStates]
<1>1. CASE UnitOf(e) = "none"
  BY <1>1 DEF Applied, UnitStates
<1>2. CASE UnitOf(e) # "none" /\ e \in {"enable_timer", "enable_observer"}
  BY <1>2 DEF Applied, UnitStates
<1>3. CASE UnitOf(e) # "none" /\ e \notin {"enable_timer", "enable_observer"}
  <2> DEFINE u == UnitOf(e)  stopped == [[unit EXCEPT ![u].active = FALSE] EXCEPT ![u].enabled = FALSE]
  <2>1. Applied(e) = [unit EXCEPT ![u].active = FALSE, ![u].enabled = FALSE]
    BY <1>3 DEF Applied
  <2>2. [unit EXCEPT ![u].active = FALSE] \in [Units -> UnitStates]
    BY DEF UnitStates
  <2>3. stopped \in [Units -> UnitStates]
    BY <2>2 DEF UnitStates
  <2> QED BY <2>1, <2>3
<1> QED BY <1>1, <1>2, <1>3

-----------------------------------------------------------------------------
(* Commands that end, and the host *)

\* A command that ends leaves what it recorded.
LEMMA EndKeeps ==
  ASSUME Known,
         NEW c \in Commands, run[c].cmd # "none", Ends(c), UNCHANGED <<file, source>>,
         unit' \in [Units -> UnitStates], receipt' \in Receipts, sent' \in [Effects -> {0, 1}], late' \in SUBSET Effects,
         lock # c => UNCHANGED <<unit, receipt, sent, late>>,
         \A e \in late' : receipt'.effects[e] = "submitted",
         receipt'.phase \notin Open => late' = {} /\ NoneOurs,
         receipt'.phase # "none" => \A e \in Effects : receipt'.effects[e] = "none" => sent'[e] = 0,
         receipt'.phase = "none" => receipt' = NoReceipt
  PROVE  OwnedInv'
<1>0. OwnedInv /\ Typed
  BY KnownTypes DEF Known
<1>1. /\ NoReceipt \in Receipts /\ NoRun \in Runs /\ run' \in [Commands -> Runs]
      /\ NoRun.cmd = "none" /\ NoRun.at = "none" /\ run'[c] = NoRun
      /\ \A d \in Commands \ {c} : run'[d] = run[d]
  BY <1>0 DEF Ends, NoRun, NoReceipt, NoEffects, Receipts, Runs, Places, Typed
<1>2. /\ lock' = IF lock = c THEN "none" ELSE lock
      /\ lock = c => \A d \in Commands \ {c} : run[d].at \in {"none", "lock"}
      /\ lock # c => run[c].at = "lock"
  BY <1>0 DEF Ends, OwnedInv, Holding, Typed
<1>3. \A d \in Commands : run'[d].cmd = run[d].cmd =>
        /\ Len(Listed(d))' = Len(Listed(d))
        /\ run'[d].next = run[d].next => Due(d)' = Due(d)
  BY SameDue
<1>4. Types'
  BY <1>0, <1>1, <1>2, <1>3 DEF OwnedInv, Types
<1>5. Holding'
  BY <1>0, <1>1, <1>2, <1>3 DEF OwnedInv, Typed, Holding
<1>6. Looked'
  BY <1>0, <1>1, <1>2, <1>3 DEF OwnedInv, Typed, Looked
<1>7. Placing'
  BY <1>0, <1>1, <1>2, <1>3 DEF OwnedInv, Typed, Placing
<1>8. Answers'
  BY <1>0, <1>1, <1>2, <1>3 DEF OwnedInv, Typed, Answers
<1>9. Lates'
  BY <1>0, <1>1, <1>2, <1>3 DEF OwnedInv, Typed, Lates
<1>10. Recorded'
  BY <1>0, <1>1, <1>2, <1>3 DEF OwnedInv, Typed, Recorded
<1>11. Left'
  BY <1>0, <1>1, <1>2, <1>3 DEF OwnedInv, Typed, Left, NoneOurs
<1>12. Removing'
  BY <1>0, <1>1, <1>2, <1>3 DEF OwnedInv, Typed, Removing, AtRest
<1> QED BY <1>4, <1>5, <1>6, <1>7, <1>8, <1>9, <1>10, <1>11, <1>12 DEF OwnedInv

\* The host: nothing that a command does, and nothing while files are removed.
LEMMA HostKeeps ==
  ASSUME Known,
         UNCHANGED <<receipt, lock, run, sent>>, source' \in BOOLEAN, unit' \in [Units -> UnitStates],
         file' \in [Files -> {"absent", "ours", "foreign"}], late' \subseteq late, NoneOurs => NoneOurs', Removing'
  PROVE  OwnedInv'
<1>0. OwnedInv /\ Typed
  BY KnownTypes DEF Known
<1>1. \A d \in Commands : run'[d].cmd = run[d].cmd =>
        /\ Len(Listed(d))' = Len(Listed(d))
        /\ run'[d].next = run[d].next => Due(d)' = Due(d)
  BY SameDue
<1>2. Types'
  BY <1>0, <1>1 DEF OwnedInv, Types
<1>3. Holding'
  BY <1>0, <1>1 DEF OwnedInv, Typed, Holding
<1>4. Looked'
  BY <1>0, <1>1 DEF OwnedInv, Typed, Looked
<1>5. Placing'
  BY <1>0, <1>1 DEF OwnedInv, Typed, Placing
<1>6. Answers'
  BY <1>0, <1>1 DEF OwnedInv, Typed, Answers
<1>7. Lates'
  BY <1>0, <1>1 DEF OwnedInv, Typed, Lates
<1>8. Recorded'
  BY <1>0, <1>1 DEF OwnedInv, Typed, Recorded
<1>9. Left'
  BY <1>0, <1>1 DEF OwnedInv, Typed, Left, NoneOurs
<1>10. Removing'
  BY <1>0, <1>1 DEF OwnedInv, Typed, Removing, AtRest
<1> QED BY <1>2, <1>3, <1>4, <1>5, <1>6, <1>7, <1>8, <1>9, <1>10 DEF OwnedInv

\* The host reboots.
LEMMA RebootKeeps ==
  ASSUME Known, Reboots
  PROVE  OwnedInv'
<1>0. OwnedInv /\ Typed
  BY KnownTypes DEF Known
<1>1. /\ NoReceipt \in Receipts /\ NoRun \in Runs /\ NoRun.cmd = "none" /\ NoRun.at = "none"
  BY DEF NoRun, NoReceipt, NoEffects, Receipts, Runs, Places
<1>2. /\ unit' \in [Units -> UnitStates] /\ late' = {} /\ lock' = "none" /\ run' = [c \in Commands |-> NoRun]
      /\ UNCHANGED <<file, source, receipt, sent>>
  <2>1. \A u \in Units : unit[u] \in UnitStates
    BY <1>0 DEF OwnedInv, Types
  <2>2. \A u \in Units : [unit[u] EXCEPT !.active = unit[u].enabled /\ file[u] # "absent",
                                       !.cached = file[u] # "absent"] \in UnitStates
    BY <2>1 DEF UnitStates
  <2> QED BY <2>2 DEF Reboots
<1>3. run' \in [Commands -> Runs] /\ \A d \in Commands : run'[d] = NoRun
  BY <1>1, <1>2
<1>4. Types'
  BY <1>0, <1>1, <1>2, <1>3 DEF OwnedInv, Types
<1>5. Holding'
  BY <1>0, <1>1, <1>2, <1>3 DEF OwnedInv, Typed, Holding
<1>6. Looked'
  BY <1>0, <1>1, <1>2, <1>3 DEF OwnedInv, Typed, Looked
<1>7. Placing'
  BY <1>0, <1>1, <1>2, <1>3 DEF OwnedInv, Typed, Placing
<1>8. Answers'
  BY <1>0, <1>1, <1>2, <1>3 DEF OwnedInv, Typed, Answers
<1>9. Lates'
  BY <1>0, <1>1, <1>2, <1>3 DEF OwnedInv, Typed, Lates
<1>10. Recorded'
  BY <1>0, <1>1, <1>2, <1>3 DEF OwnedInv, Typed, Recorded
<1>11. Left'
  BY <1>0, <1>1, <1>2, <1>3 DEF OwnedInv, Typed, Left, NoneOurs
<1>12. Removing'
  BY <1>0, <1>1, <1>2, <1>3 DEF OwnedInv, Typed, Removing, AtRest
<1> QED BY <1>4, <1>5, <1>6, <1>7, <1>8, <1>9, <1>10, <1>11, <1>12 DEF OwnedInv

-----------------------------------------------------------------------------
(* The commands *)

\* A command looks before it takes the lock.
LEMMA ReadKeeps ==
  ASSUME Known, NEW c \in Commands, NEW cmd \in {"install", "rollback"}, Reads(c, cmd)
  PROVE  OwnedInv'
<1>0. OwnedInv /\ Typed
  BY KnownTypes DEF Known
<1>1. /\ NoReceipt \in Receipts /\ NoRun \in Runs /\ NoRun.cmd = "none" /\ NoRun.at = "none"
  BY DEF NoRun, NoReceipt, NoEffects, Receipts, Runs, Places
<1>2. /\ run' \in [Commands -> Runs] /\ \A d \in Commands \ {c} : run'[d] = run[d]
      /\ run'[c].cmd = cmd /\ run'[c].at = "lock" /\ run'[c].seen = receipt
  BY <1>0, <1>1 DEF Reads, Runs, Typed, Places, NoRun
<1>3. /\ UNCHANGED <<file, source, unit, late, receipt, lock, sent>> /\ run[c].cmd = "none" /\ cmd \in {"install", "rollback"}
  BY DEF Reads, host
<1>4. /\ \A e \in Effects : receipt.effects[e] # "submitted"
      /\ cmd = "install" => receipt.phase # "rolling_back"
      /\ cmd = "rollback" => receipt.phase \in Open
  BY <1>0 DEF Reads, Preflight, Pending, NoReceipt, NoEffects, Typed, Receipts, Open, OwnedInv, Recorded
<1>5. \A d \in Commands : run'[d].cmd = run[d].cmd =>
        /\ Len(Listed(d))' = Len(Listed(d))
        /\ run'[d].next = run[d].next => Due(d)' = Due(d)
  BY SameDue
<1>6. lock # c
  BY <1>0, <1>3 DEF OwnedInv, Holding
<1>7. Types'
  BY <1>0, <1>1, <1>2, <1>3, <1>4, <1>5, <1>6 DEF OwnedInv, Types
<1>8. Holding'
  BY <1>0, <1>1, <1>2, <1>3, <1>4, <1>5, <1>6 DEF OwnedInv, Typed, Holding
<1>9. Looked'
  BY <1>0, <1>1, <1>2, <1>3, <1>4, <1>5, <1>6 DEF OwnedInv, Typed, Looked
<1>10. Placing'
  BY <1>0, <1>1, <1>2, <1>3, <1>4, <1>5, <1>6 DEF OwnedInv, Typed, Placing
<1>11. Answers'
  BY <1>0, <1>1, <1>2, <1>3, <1>4, <1>5, <1>6 DEF OwnedInv, Typed, Answers
<1>12. Lates'
  BY <1>0, <1>1, <1>2, <1>3, <1>4, <1>5, <1>6 DEF OwnedInv, Typed, Lates
<1>13. Recorded'
  BY <1>0, <1>1, <1>2, <1>3, <1>4, <1>5, <1>6 DEF OwnedInv, Typed, Recorded
<1>14. Left'
  BY <1>0, <1>1, <1>2, <1>3, <1>4, <1>5, <1>6 DEF OwnedInv, Typed, Left, NoneOurs
<1>15. Removing'
  BY <1>0, <1>1, <1>2, <1>3, <1>4, <1>5, <1>6 DEF OwnedInv, Typed, Removing, AtRest
<1> QED BY <1>7, <1>8, <1>9, <1>10, <1>11, <1>12, <1>13, <1>14, <1>15 DEF OwnedInv

\* The lock is taken when nothing has changed.
LEMMA LockKeeps ==
  ASSUME Known, NEW c \in Commands, At(c, "lock"), lock = "none", Same(c), lock' = c, Goes(c, "begin"),
         UNCHANGED <<file, source, unit, late, receipt, sent>>
  PROVE  OwnedInv'
<1>0. OwnedInv /\ Typed
  BY KnownTypes DEF Known
<1>1. /\ run' \in [Commands -> Runs] /\ \A d \in Commands \ {c} : run'[d] = run[d]
      /\ run'[c].cmd = run[c].cmd
      /\ run'[c].at = "begin"
      /\ run'[c].next = run[c].next
      /\ run'[c].seen = run[c].seen
  BY <1>0 DEF Goes, Runs, Typed, Places
<1>2. /\ run[c].at = "lock" /\ run[c].cmd # "none" /\ receipt = run[c].seen
      /\ \A d \in Commands : run[d].at \in {"none", "lock"}
  BY <1>0 DEF At, Same, OwnedInv, Holding, Typed
<1>3. \A e \in Effects : receipt.effects[e] # "submitted"
  BY <1>0, <1>2 DEF OwnedInv, Looked
<1>4. late = {}
  BY <1>0, <1>3 DEF OwnedInv, Lates, Typed
<1>5. \A d \in Commands : run'[d].cmd = run[d].cmd =>
        /\ Len(Listed(d))' = Len(Listed(d))
        /\ run'[d].next = run[d].next => Due(d)' = Due(d)
  BY SameDue
<1>6. Types'
  BY <1>0, <1>1, <1>2, <1>3, <1>4, <1>5 DEF OwnedInv, Types
<1>7. Holding'
  BY <1>0, <1>1, <1>2, <1>3, <1>4, <1>5 DEF OwnedInv, Typed, Holding
<1>8. Looked'
  BY <1>0, <1>1, <1>2, <1>3, <1>4, <1>5 DEF OwnedInv, Typed, Looked
<1>9. Placing'
  BY <1>0, <1>1, <1>2, <1>3, <1>4, <1>5 DEF OwnedInv, Typed, Placing, Looked
<1>10. Answers'
  BY <1>0, <1>1, <1>2, <1>3, <1>4, <1>5 DEF OwnedInv, Typed, Answers
<1>11. Lates'
  BY <1>0, <1>1, <1>2, <1>3, <1>4, <1>5 DEF OwnedInv, Typed, Lates
<1>12. Recorded'
  BY <1>0, <1>1, <1>2, <1>3, <1>4, <1>5 DEF OwnedInv, Typed, Recorded
<1>13. Left'
  BY <1>0, <1>1, <1>2, <1>3, <1>4, <1>5 DEF OwnedInv, Typed, Left, NoneOurs
<1>14. Removing'
  BY <1>0, <1>1, <1>2, <1>3, <1>4, <1>5 DEF OwnedInv, Typed, Removing, AtRest
<1> QED BY <1>6, <1>7, <1>8, <1>9, <1>10, <1>11, <1>12, <1>13, <1>14 DEF OwnedInv

\* An install is prepared, or a rollback is begun.
LEMMA BeginKeeps ==
  ASSUME Known, NEW c \in Commands, Begins(c)
  PROVE  OwnedInv'
<1>0. OwnedInv /\ Typed
  BY KnownTypes DEF Known
<1>1. run[c].at = "begin" /\ UNCHANGED <<file, source, unit, late, lock>>
  BY DEF Begins, At, host
<1>2. /\ lock = c /\ run[c].cmd # "none" /\ late = {}
      /\ \A d \in Commands \ {c} : run[d].at \in {"none", "lock"}
  BY <1>1, Holds
<1>3. /\ run' \in [Commands -> Runs] /\ \A d \in Commands \ {c} : run'[d] = run[d]
      /\ run'[c].cmd = run[c].cmd
      /\ run'[c].at = (IF run[c].cmd = "install" THEN "files" ELSE "stop")
      /\ run'[c].next = run[c].next
      /\ run'[c].seen = run[c].seen
  BY <1>0 DEF Begins, Goes, Runs, Typed, Places
<1>4. \A e \in Effects : receipt.effects[e] # "submitted"
  BY <1>0, <1>1, <1>2 DEF OwnedInv, Answers
<1>5. /\ receipt' \in Receipts
      /\ receipt'.phase = IF run[c].cmd = "rollback" THEN "rolling_back"
                          ELSE IF receipt.phase \in {"none", "rolled_back"} THEN "prepared" ELSE receipt.phase
  BY <1>0 DEF Begins, Records, NoReceipt, NoEffects, Receipts, Open, Typed
<1>6. /\ \A e \in Effects : receipt'.effects[e] # "submitted"
      /\ sent' \in [Effects -> {0, 1}]
      /\ \A e \in Effects : receipt'.effects[e] = "none" => sent'[e] = 0
  BY <1>0, <1>1, <1>4, <1>5 DEF Begins, Records, NoReceipt, NoEffects, Typed, OwnedInv, Recorded, Placing, Open, Receipts
<1>7. /\ run[c].cmd \in {"install", "rollback"}
      /\ run[c].cmd = "install" => receipt'.phase \in {"prepared", "installed"} /\ receipt'.phase \in Open
      /\ run[c].cmd = "rollback" => receipt'.phase = "rolling_back" /\ receipt'.phase \in Open
      /\ receipt'.phase # "none"
  BY <1>0, <1>1, <1>2, <1>5 DEF Typed, OwnedInv, Placing, Receipts, Open
<1>8. \A d \in Commands : run'[d].cmd = run[d].cmd =>
        /\ Len(Listed(d))' = Len(Listed(d))
        /\ run'[d].next = run[d].next => Due(d)' = Due(d)
  BY SameDue
<1>9. Types'
  BY <1>0, <1>1, <1>2, <1>3, <1>4, <1>5, <1>6, <1>7, <1>8 DEF OwnedInv, Types
<1>10. Holding'
  BY <1>0, <1>1, <1>2, <1>3, <1>4, <1>5, <1>6, <1>7, <1>8 DEF OwnedInv, Typed, Holding
<1>11. Looked'
  BY <1>0, <1>2, <1>3, <1>7 DEF OwnedInv, Typed, Looked
<1>12. Placing'
  BY <1>0, <1>1, <1>2, <1>3, <1>4, <1>5, <1>6, <1>7, <1>8 DEF OwnedInv, Typed, Placing
<1>13. Answers'
  BY <1>0, <1>1, <1>2, <1>3, <1>4, <1>5, <1>6, <1>7, <1>8 DEF OwnedInv, Typed, Answers
<1>14. Lates'
  BY <1>0, <1>1, <1>2, <1>3, <1>4, <1>5, <1>6, <1>7, <1>8 DEF OwnedInv, Typed, Lates
<1>15. Recorded'
  BY <1>0, <1>2, <1>3, <1>5, <1>6, <1>7 DEF OwnedInv, Typed, Recorded
<1>16. Left'
  BY <1>0, <1>1, <1>2, <1>3, <1>4, <1>5, <1>6, <1>7, <1>8 DEF OwnedInv, Typed, Left, NoneOurs
<1>17. Removing'
  BY <1>0, <1>1, <1>2, <1>3, <1>4, <1>5, <1>6, <1>7, <1>8 DEF OwnedInv, Typed, Removing, AtRest
<1> QED BY <1>9, <1>10, <1>11, <1>12, <1>13, <1>14, <1>15, <1>16, <1>17 DEF OwnedInv

\* Files that are missing are written.
LEMMA WriteKeeps ==
  ASSUME Known, NEW c \in Commands, Writes(c)
  PROVE  OwnedInv'
<1>0. OwnedInv /\ Typed
  BY KnownTypes DEF Known
<1>1. run[c].at = "files" /\ UNCHANGED <<source, unit, late, receipt, lock, run, sent>>
  BY DEF Writes, At
<1>2. /\ lock = c /\ run[c].cmd # "none" /\ late = {}
      /\ \A d \in Commands \ {c} : run[d].at \in {"none", "lock"}
  BY <1>1, Holds
<1>3. file' \in [Files -> {"absent", "ours", "foreign"}]
  BY <1>0 DEF Writes, OwnedInv, Types
<1>4. receipt.phase \in Open
  BY <1>0, <1>1 DEF OwnedInv, Placing, Open
<1>5. \A d \in Commands : run'[d].cmd = run[d].cmd =>
        /\ Len(Listed(d))' = Len(Listed(d))
        /\ run'[d].next = run[d].next => Due(d)' = Due(d)
  BY SameDue
<1>6. Types'
  BY <1>0, <1>1, <1>2, <1>3, <1>4, <1>5 DEF OwnedInv, Types
<1>7. Holding'
  BY <1>0, <1>1, <1>2, <1>3, <1>4, <1>5 DEF OwnedInv, Typed, Holding
<1>8. Looked'
  BY <1>0, <1>1, <1>2, <1>3, <1>4, <1>5 DEF OwnedInv, Typed, Looked
<1>9. Placing'
  BY <1>0, <1>1, <1>2, <1>3, <1>4, <1>5 DEF OwnedInv, Typed, Placing
<1>10. Answers'
  BY <1>0, <1>1, <1>2, <1>3, <1>4, <1>5 DEF OwnedInv, Typed, Answers
<1>11. Lates'
  BY <1>0, <1>1, <1>2, <1>3, <1>4, <1>5 DEF OwnedInv, Typed, Lates
<1>12. Recorded'
  BY <1>0, <1>1, <1>2, <1>3, <1>4, <1>5 DEF OwnedInv, Typed, Recorded
<1>13. Left'
  BY <1>0, <1>1, <1>2, <1>3, <1>4, <1>5 DEF OwnedInv, Typed, Left, NoneOurs
<1>14. Removing'
  BY <1>0, <1>1, <1>2, <1>3, <1>4, <1>5 DEF OwnedInv, Typed, Removing, AtRest
<1> QED BY <1>6, <1>7, <1>8, <1>9, <1>10, <1>11, <1>12, <1>13, <1>14 DEF OwnedInv

\* The files are complete.
LEMMA WrittenKeeps ==
  ASSUME Known, NEW c \in Commands, At(c, "files"), Goes(c, "units"), UNCHANGED <<host, lock, receipt, sent>>
  PROVE  OwnedInv'
<1>0. OwnedInv /\ Typed
  BY KnownTypes DEF Known
<1>1. run[c].at = "files"
  BY DEF At
<1>2. /\ lock = c /\ run[c].cmd # "none" /\ late = {}
      /\ \A d \in Commands \ {c} : run[d].at \in {"none", "lock"}
  BY <1>1, Holds
<1>3. /\ run' \in [Commands -> Runs] /\ \A d \in Commands \ {c} : run'[d] = run[d]
      /\ run'[c].cmd = run[c].cmd
      /\ run'[c].at = "units"
      /\ run'[c].next = run[c].next
      /\ run'[c].seen = run[c].seen
  BY <1>0 DEF Goes, Runs, Typed, Places
<1>4. UNCHANGED <<file, source, unit, late>>
  BY DEF host
<1>5. \A d \in Commands : run'[d].cmd = run[d].cmd =>
        /\ Len(Listed(d))' = Len(Listed(d))
        /\ run'[d].next = run[d].next => Due(d)' = Due(d)
  BY SameDue
<1>6. Types'
  BY <1>0, <1>1, <1>2, <1>3, <1>4, <1>5 DEF OwnedInv, Types
<1>7. Holding'
  BY <1>0, <1>1, <1>2, <1>3, <1>4, <1>5 DEF OwnedInv, Typed, Holding
<1>8. Looked'
  BY <1>0, <1>1, <1>2, <1>3, <1>4, <1>5 DEF OwnedInv, Typed, Looked
<1>9. Placing'
  BY <1>0, <1>1, <1>2, <1>3, <1>4, <1>5 DEF OwnedInv, Typed, Placing
<1>10. Answers'
  BY <1>0, <1>1, <1>2, <1>3, <1>4, <1>5 DEF OwnedInv, Typed, Answers
<1>11. Lates'
  BY <1>0, <1>1, <1>2, <1>3, <1>4, <1>5 DEF OwnedInv, Typed, Lates
<1>12. Recorded'
  BY <1>0, <1>1, <1>2, <1>3, <1>4, <1>5 DEF OwnedInv, Typed, Recorded
<1>13. Left'
  BY <1>0, <1>1, <1>2, <1>3, <1>4, <1>5 DEF OwnedInv, Typed, Left, NoneOurs
<1>14. Removing'
  BY <1>0, <1>1, <1>2, <1>3, <1>4, <1>5 DEF OwnedInv, Typed, Removing, AtRest
<1> QED BY <1>6, <1>7, <1>8, <1>9, <1>10, <1>11, <1>12, <1>13, <1>14 DEF OwnedInv

\* A call that was done, or whose unit is missing, is passed.
LEMMA SkipKeeps ==
  ASSUME Known, NEW c \in Commands, At(c, Stage(c)), run[c].next <= Len(Listed(c)),
         run' = [run EXCEPT ![c].next = @ + 1], UNCHANGED <<host, receipt, lock, sent>>
  PROVE  OwnedInv'
<1>0. OwnedInv /\ Typed
  BY KnownTypes DEF Known
<1>1. run[c].at \in {"units", "stop"}
  BY DEF At, Stage
<1>2. /\ lock = c /\ run[c].cmd # "none" /\ late = {}
      /\ \A d \in Commands \ {c} : run[d].at \in {"none", "lock"}
  BY <1>1, Holds
<1>3. /\ run' \in [Commands -> Runs] /\ \A d \in Commands \ {c} : run'[d] = run[d]
      /\ run'[c].cmd = run[c].cmd
      /\ run'[c].at = run[c].at
      /\ run'[c].next = run[c].next + 1
      /\ run'[c].seen = run[c].seen
  <2>0. run[c].next \in 1 .. 4 /\ Len(Listed(c)) \in {2, 3} /\ run[c].next <= Len(Listed(c))
    BY <1>0 DEF Typed
  <2>6. \A n \in 1 .. 4 : \A m \in {2, 3} : n <= m => n + 1 \in 1 .. 4
    OBVIOUS
  <2>1. run[c].next + 1 \in 1 .. 4
    BY <2>0, <2>6
  <2>5. run' = [run EXCEPT ![c] = [run[c] EXCEPT !.next = run[c].next + 1]]
    OBVIOUS
  <2>2. run[c] \in Runs
    BY <1>0 DEF Typed
  <2>3. [run[c] EXCEPT !.next = run[c].next + 1] \in Runs
    BY <2>1, <2>2 DEF Runs
  <2>4. run' \in [Commands -> Runs] /\ run'[c] = [run[c] EXCEPT !.next = run[c].next + 1]
    BY <1>0, <2>5, <2>3 DEF Typed
  <2> QED BY <2>2, <2>4 DEF Runs
<1>4. UNCHANGED <<file, source, unit, late>>
  BY DEF host
<1>5. \A d \in Commands : run'[d].cmd = run[d].cmd =>
        /\ Len(Listed(d))' = Len(Listed(d))
        /\ run'[d].next = run[d].next => Due(d)' = Due(d)
  BY SameDue
<1>6. Types'
  BY <1>0, <1>1, <1>2, <1>3, <1>4, <1>5 DEF OwnedInv, Types
<1>7. Holding'
  BY <1>0, <1>1, <1>2, <1>3, <1>4, <1>5 DEF OwnedInv, Typed, Holding
<1>8. Looked'
  BY <1>0, <1>1, <1>2, <1>3, <1>4, <1>5 DEF OwnedInv, Typed, Looked
<1>9. Placing'
  BY <1>0, <1>1, <1>2, <1>3, <1>4, <1>5 DEF OwnedInv, Typed, Placing
<1>10. Answers'
  BY <1>0, <1>1, <1>2, <1>3, <1>4, <1>5 DEF OwnedInv, Typed, Answers
<1>11. Lates'
  BY <1>0, <1>1, <1>2, <1>3, <1>4, <1>5 DEF OwnedInv, Typed, Lates
<1>12. Recorded'
  BY <1>0, <1>1, <1>2, <1>3, <1>4, <1>5 DEF OwnedInv, Typed, Recorded
<1>13. Left'
  BY <1>0, <1>1, <1>2, <1>3, <1>4, <1>5 DEF OwnedInv, Typed, Left, NoneOurs
<1>14. Removing'
  BY <1>0, <1>1, <1>2, <1>3, <1>4, <1>5 DEF OwnedInv, Typed, Removing, AtRest
<1> QED BY <1>6, <1>7, <1>8, <1>9, <1>10, <1>11, <1>12, <1>13, <1>14 DEF OwnedInv

\* A call is recorded.
LEMMA SubmitKeeps ==
  ASSUME Known, NEW c \in Commands, Submits(c, Due(c)), receipt.effects[Due(c)] # "done",
         \/ At(c, Stage(c)) /\ run[c].next <= Len(Listed(c))
         \/ At(c, "remove") /\ run[c].next > Len(Listed(c)) /\ NoneOurs
  PROVE  OwnedInv'
<1>0. OwnedInv /\ Typed
  BY KnownTypes DEF Known
<1>1. run[c].at \in {"units", "stop", "remove"} /\ Due(c) \in Effects
  BY <1>0 DEF At, Stage, Typed
<1>2. /\ lock = c /\ run[c].cmd # "none" /\ late = {}
      /\ \A d \in Commands \ {c} : run[d].at \in {"none", "lock"}
  BY <1>1, Holds
<1>3. /\ run' \in [Commands -> Runs] /\ \A d \in Commands \ {c} : run'[d] = run[d]
      /\ run'[c].cmd = run[c].cmd
      /\ run'[c].at = "call"
      /\ run'[c].next = run[c].next
      /\ run'[c].seen = run[c].seen
  BY <1>0, SMTT(30) DEF Submits, Goes, Runs, Typed, Places
<1>4. UNCHANGED <<file, source, unit, late, lock, sent>>
  BY DEF Submits, host
<1>5. /\ receipt' \in Receipts /\ receipt'.phase = receipt.phase
      /\ receipt'.effects = [receipt.effects EXCEPT ![Due(c)] = "submitted"]
  BY <1>0, <1>1 DEF Submits, Receipts, Typed
<1>6. \A e \in Effects : receipt.effects[e] # "submitted"
  BY <1>0, <1>1, <1>2 DEF OwnedInv, Answers
<1>7. /\ receipt.phase # "none" /\ receipt.effects[Due(c)] = "none" /\ sent[Due(c)] = 0
      /\ run[c].cmd = "install" => receipt.phase \in {"prepared", "installed"} /\ run[c].next <= Len(Listed(c))
      /\ run[c].cmd = "rollback" => receipt.phase = "rolling_back"
      /\ run[c].next > Len(Listed(c)) => NoneOurs
  BY <1>0, <1>1, <1>2, <1>6 DEF OwnedInv, Placing, Recorded, Typed, At, Stage
<1>8. receipt.phase \in Open /\ NoneOurs' = NoneOurs /\ run[c].cmd \in {"install", "rollback"}
  BY <1>0, <1>2, <1>4, <1>7 DEF Open, NoneOurs, Typed
<1>9. \A d \in Commands : run'[d].cmd = run[d].cmd =>
        /\ Len(Listed(d))' = Len(Listed(d))
        /\ run'[d].next = run[d].next => Due(d)' = Due(d)
  BY SameDue
<1>10. Types'
  BY <1>0, <1>1, <1>2, <1>3, <1>4, <1>5, <1>6, <1>7, <1>8, <1>9 DEF OwnedInv, Types
<1>11. Holding'
  BY <1>0, <1>1, <1>2, <1>3, <1>4, <1>5, <1>6, <1>7, <1>8, <1>9 DEF OwnedInv, Typed, Holding
<1>12. Looked'
  BY <1>0, <1>1, <1>2, <1>3, <1>4, <1>5, <1>6, <1>7, <1>8, <1>9 DEF OwnedInv, Typed, Looked
<1>13. Placing'
  BY <1>0, <1>1, <1>2, <1>3, <1>4, <1>5, <1>6, <1>7, <1>8, <1>9 DEF OwnedInv, Typed, Placing
<1>14. Answers'
  BY <1>0, <1>1, <1>2, <1>3, <1>4, <1>5, <1>6, <1>7, <1>8, <1>9 DEF OwnedInv, Typed, Answers
<1>15. Lates'
  BY <1>0, <1>1, <1>2, <1>3, <1>4, <1>5, <1>6, <1>7, <1>8, <1>9 DEF OwnedInv, Typed, Lates
<1>16. Recorded'
  BY <1>0, <1>1, <1>2, <1>3, <1>4, <1>5, <1>6, <1>7, <1>8, <1>9 DEF OwnedInv, Typed, Recorded
<1>17. Left'
  BY <1>0, <1>1, <1>2, <1>3, <1>4, <1>5, <1>6, <1>7, <1>8, <1>9 DEF OwnedInv, Typed, Left, NoneOurs
<1>18. Removing'
  BY <1>0, <1>1, <1>2, <1>3, <1>4, <1>5, <1>6, <1>7, <1>8, <1>9 DEF OwnedInv, Typed, Removing, AtRest
<1> QED BY <1>10, <1>11, <1>12, <1>13, <1>14, <1>15, <1>16, <1>17, <1>18 DEF OwnedInv

\* A call is sent and answered.
LEMMA AnswerKeeps ==
  ASSUME Known, NEW c \in Commands, Answered(c)
  PROVE  OwnedInv'
<1>0. OwnedInv /\ Typed
  BY KnownTypes DEF Known
<1>1. run[c].at = "call" /\ Due(c) \in Effects /\ UNCHANGED <<file, source, late, lock>>
  BY <1>0 DEF Answered, At, Typed
<1>2. /\ lock = c /\ run[c].cmd # "none" /\ late = {}
      /\ \A d \in Commands \ {c} : run[d].at \in {"none", "lock"}
  BY <1>1, Holds
<1>3. sent[Due(c)] = 0 /\ receipt.effects[Due(c)] = "submitted"
  BY <1>0, <1>1 DEF OwnedInv, Recorded
<1>4. sent' = [sent EXCEPT ![Due(c)] = 1] /\ sent' \in [Effects -> {0, 1}] /\ unit' \in [Units -> UnitStates]
  BY <1>0, <1>1, <1>3, AppliedIs DEF Answered, Typed, OwnedInv, Types
<1>5. /\ run' \in [Commands -> Runs] /\ \A d \in Commands \ {c} : run'[d] = run[d]
      /\ run'[c].cmd = run[c].cmd
      /\ IF Due(c) = "rollback_reload" THEN run'[c].at = "reload" /\ run'[c].next = run[c].next
         ELSE run'[c].at = Stage(c) /\ run'[c].next = run[c].next + 1
  BY <1>0, SMTT(30) DEF Answered, Goes, Stage, Runs, Typed, Places
<1>6. /\ receipt' \in Receipts /\ receipt'.phase = receipt.phase
      /\ receipt'.effects = [receipt.effects EXCEPT ![Due(c)] =
           IF Observer /\ Due(c) = "rollback_reload" THEN "submitted" ELSE "done"]
  BY <1>0, <1>1, <1>3 DEF Answered, Receipts, Typed
<1>7. \A e \in Effects : receipt.effects[e] = "submitted" => e = Due(c)
  BY <1>0, <1>1, <1>2 DEF OwnedInv, Answers
<1>8. /\ run[c].cmd = "install" => Due(c) # "rollback_reload" /\ Stage(c) = "units"
      /\ run[c].cmd = "rollback" => Stage(c) = "stop" /\ receipt.phase = "rolling_back"
      /\ Due(c) = "rollback_reload" => NoneOurs
      /\ run[c].cmd \in {"install", "rollback"} /\ receipt.phase \in Open /\ receipt.phase # "none"
  BY <1>0, <1>1, <1>2 DEF OwnedInv, Placing, Left, Stage, Typed, Open
<1>9. \A d \in Commands : run'[d].cmd = run[d].cmd =>
        /\ Len(Listed(d))' = Len(Listed(d))
        /\ run'[d].next = run[d].next => Due(d)' = Due(d)
  BY SameDue
<1>10. Types'
  BY <1>0, <1>1, <1>2, <1>3, <1>4, <1>5, <1>6, <1>7, <1>8, <1>9 DEF OwnedInv, Types
<1>11. Holding'
  BY <1>0, <1>1, <1>2, <1>3, <1>4, <1>5, <1>6, <1>7, <1>8, <1>9 DEF OwnedInv, Typed, Holding
<1>12. Looked'
  BY <1>0, <1>1, <1>2, <1>3, <1>4, <1>5, <1>6, <1>7, <1>8, <1>9 DEF OwnedInv, Typed, Looked
<1>13. Placing'
  BY <1>0, <1>1, <1>2, <1>3, <1>4, <1>5, <1>6, <1>7, <1>8, <1>9 DEF OwnedInv, Typed, Placing
<1>14. Answers'
  BY <1>0, <1>1, <1>2, <1>3, <1>4, <1>5, <1>6, <1>7, <1>8, <1>9 DEF OwnedInv, Typed, Answers
<1>15. Lates'
  BY <1>0, <1>1, <1>2, <1>3, <1>4, <1>5, <1>6, <1>7, <1>8, <1>9 DEF OwnedInv, Typed, Lates
<1>16. Recorded'
  BY <1>0, <1>1, <1>2, <1>3, <1>4, <1>5, <1>6, <1>7, <1>8, <1>9, SMTT(30) DEF OwnedInv, Typed, Recorded
<1>17. Left'
  BY <1>0, <1>1, <1>2, <1>3, <1>4, <1>5, <1>6, <1>7, <1>8, <1>9 DEF OwnedInv, Typed, Left, NoneOurs
<1>18. Removing'
  BY <1>0, <1>1, <1>2, <1>3, <1>4, <1>5, <1>6, <1>7, <1>8, <1>9 DEF OwnedInv, Typed, Removing, AtRest
<1> QED BY <1>10, <1>11, <1>12, <1>13, <1>14, <1>15, <1>16, <1>17, <1>18 DEF OwnedInv

\* The units are at rest and the files are own ones.
LEMMA StoppedKeeps ==
  ASSUME Known, NEW c \in Commands, At(c, "stop"), AtRest, Unchanged, Goes(c, "remove"), UNCHANGED <<host, lock, receipt, sent>>, run[c].next > Len(Listed(c))
  PROVE  OwnedInv'
<1>0. OwnedInv /\ Typed
  BY KnownTypes DEF Known
<1>1. run[c].at = "stop"
  BY DEF At
<1>2. /\ lock = c /\ run[c].cmd # "none" /\ late = {}
      /\ \A d \in Commands \ {c} : run[d].at \in {"none", "lock"}
  BY <1>1, Holds
<1>3. /\ run' \in [Commands -> Runs] /\ \A d \in Commands \ {c} : run'[d] = run[d]
      /\ run'[c].cmd = run[c].cmd
      /\ run'[c].at = "remove"
      /\ run'[c].next = run[c].next
      /\ run'[c].seen = run[c].seen
  BY <1>0 DEF Goes, Runs, Typed, Places
<1>4. UNCHANGED <<file, source, unit, late>> /\ \A f \in Files : file[f] # "foreign"
  BY DEF host, Unchanged, Checked
<1>5. \A d \in Commands : run'[d].cmd = run[d].cmd =>
        /\ Len(Listed(d))' = Len(Listed(d))
        /\ run'[d].next = run[d].next => Due(d)' = Due(d)
  BY SameDue
<1>6. Types'
  BY <1>0, <1>1, <1>2, <1>3, <1>4, <1>5 DEF OwnedInv, Types
<1>7. Holding'
  BY <1>0, <1>1, <1>2, <1>3, <1>4, <1>5 DEF OwnedInv, Typed, Holding
<1>8. Looked'
  BY <1>0, <1>1, <1>2, <1>3, <1>4, <1>5 DEF OwnedInv, Typed, Looked
<1>9. Placing'
  BY <1>0, <1>1, <1>2, <1>3, <1>4, <1>5 DEF OwnedInv, Typed, Placing
<1>10. Answers'
  BY <1>0, <1>1, <1>2, <1>3, <1>4, <1>5 DEF OwnedInv, Typed, Answers
<1>11. Lates'
  BY <1>0, <1>1, <1>2, <1>3, <1>4, <1>5 DEF OwnedInv, Typed, Lates
<1>12. Recorded'
  BY <1>0, <1>1, <1>2, <1>3, <1>4, <1>5 DEF OwnedInv, Typed, Recorded
<1>13. Left'
  BY <1>0, <1>1, <1>2, <1>3, <1>4, <1>5 DEF OwnedInv, Typed, Left, NoneOurs
<1>14. Removing'
  BY <1>0, <1>1, <1>2, <1>3, <1>4, <1>5 DEF OwnedInv, Typed, Removing, AtRest
<1> QED BY <1>6, <1>7, <1>8, <1>9, <1>10, <1>11, <1>12, <1>13, <1>14 DEF OwnedInv

\* A file is removed.
LEMMA RemoveKeeps ==
  ASSUME Known, NEW c \in Commands, Removes(c)
  PROVE  OwnedInv'
<1>0. OwnedInv /\ Typed
  BY KnownTypes DEF Known
<1>1. run[c].at = "remove" /\ UNCHANGED <<source, late, receipt, lock, run, sent>>
  BY DEF Removes, At
<1>2. /\ file' \in [Files -> {"absent", "ours", "foreign"}] /\ (NoneOurs => NoneOurs')
      /\ \A f \in Files : file'[f] = file[f] \/ file'[f] = "absent"
  BY <1>0 DEF Removes, OwnedInv, Types, NoneOurs
<1>3. /\ unit \in [Units -> UnitStates] /\ unit' \in [Units -> UnitStates]
      /\ \A u \in Units : unit'[u].active = unit[u].active /\ unit'[u].enabled = unit[u].enabled
  BY <1>0 DEF Removes, OwnedInv, Types, UnitStates
<1>4. AtRest => AtRest'
  BY <1>3 DEF AtRest
<1>5. \A d \in Commands : run'[d].cmd = run[d].cmd =>
        /\ Len(Listed(d))' = Len(Listed(d))
        /\ run'[d].next = run[d].next => Due(d)' = Due(d)
  BY SameDue
<1>6. Types'
  BY <1>0, <1>1, <1>2, <1>3, <1>4, <1>5 DEF OwnedInv, Types
<1>7. Holding'
  BY <1>0, <1>1, <1>2, <1>3, <1>4, <1>5 DEF OwnedInv, Typed, Holding
<1>8. Looked'
  BY <1>0, <1>1, <1>2, <1>3, <1>4, <1>5 DEF OwnedInv, Typed, Looked
<1>9. Placing'
  BY <1>0, <1>1, <1>2, <1>3, <1>4, <1>5 DEF OwnedInv, Typed, Placing
<1>10. Answers'
  BY <1>0, <1>1, <1>2, <1>3, <1>4, <1>5 DEF OwnedInv, Typed, Answers
<1>11. Lates'
  BY <1>0, <1>1, <1>2, <1>3, <1>4, <1>5 DEF OwnedInv, Typed, Lates
<1>12. Recorded'
  BY <1>0, <1>1, <1>2, <1>3, <1>4, <1>5 DEF OwnedInv, Typed, Recorded
<1>13. Left'
  BY <1>0, <1>1, <1>2, <1>3, <1>4, <1>5 DEF OwnedInv, Typed, Left, NoneOurs
<1>14. Removing'
  BY <1>0, <1>1, <1>2, <1>4, <1>5 DEF OwnedInv, Typed, Removing
<1> QED BY <1>6, <1>7, <1>8, <1>9, <1>10, <1>11, <1>12, <1>13, <1>14 DEF OwnedInv

\* All files are gone.
LEMMA RemovedKeeps ==
  ASSUME Known, NEW c \in Commands, At(c, "remove"), NoneOurs, Goes(c, "reload"), UNCHANGED <<host, receipt, lock, sent>>
  PROVE  OwnedInv'
<1>0. OwnedInv /\ Typed
  BY KnownTypes DEF Known
<1>1. run[c].at = "remove"
  BY DEF At
<1>2. /\ lock = c /\ run[c].cmd # "none" /\ late = {}
      /\ \A d \in Commands \ {c} : run[d].at \in {"none", "lock"}
  BY <1>1, Holds
<1>3. /\ run' \in [Commands -> Runs] /\ \A d \in Commands \ {c} : run'[d] = run[d]
      /\ run'[c].cmd = run[c].cmd
      /\ run'[c].at = "reload"
      /\ run'[c].next = run[c].next
      /\ run'[c].seen = run[c].seen
  BY <1>0 DEF Goes, Runs, Typed, Places
<1>4. UNCHANGED <<file, source, unit, late>> /\ NoneOurs'
  BY DEF host, NoneOurs
<1>5. \A d \in Commands : run'[d].cmd = run[d].cmd =>
        /\ Len(Listed(d))' = Len(Listed(d))
        /\ run'[d].next = run[d].next => Due(d)' = Due(d)
  BY SameDue
<1>6. Types'
  BY <1>0, <1>1, <1>2, <1>3, <1>4, <1>5 DEF OwnedInv, Types
<1>7. Holding'
  BY <1>0, <1>1, <1>2, <1>3, <1>4, <1>5 DEF OwnedInv, Typed, Holding
<1>8. Looked'
  BY <1>0, <1>1, <1>2, <1>3, <1>4, <1>5 DEF OwnedInv, Typed, Looked
<1>9. Placing'
  BY <1>0, <1>1, <1>2, <1>3, <1>4, <1>5 DEF OwnedInv, Typed, Placing
<1>10. Answers'
  BY <1>0, <1>1, <1>2, <1>3, <1>4, <1>5 DEF OwnedInv, Typed, Answers
<1>11. Lates'
  BY <1>0, <1>1, <1>2, <1>3, <1>4, <1>5 DEF OwnedInv, Typed, Lates
<1>12. Recorded'
  BY <1>0, <1>1, <1>2, <1>3, <1>4, <1>5 DEF OwnedInv, Typed, Recorded
<1>13. Left'
  BY <1>0, <1>1, <1>2, <1>3, <1>4, <1>5 DEF OwnedInv, Typed, Left, NoneOurs
<1>14. Removing'
  BY <1>0, <1>1, <1>2, <1>3, <1>4, <1>5 DEF OwnedInv, Typed, Removing, AtRest
<1> QED BY <1>6, <1>7, <1>8, <1>9, <1>10, <1>11, <1>12, <1>13, <1>14 DEF OwnedInv

-----------------------------------------------------------------------------
(* Every step *)

LEMMA FiresKeeps == ASSUME Known, Fires PROVE OwnedInv'
<1>1. OwnedInv /\ UNCHANGED <<file, source, late, receipt, lock, run, sent>>
  BY DEF Known, Fires
<1>2. unit \in [Units -> UnitStates] /\ "archive" \in Units /\ "timer" \in Units
  BY <1>1 DEF OwnedInv, Types, Units
<1>3. unit' \in [Units -> UnitStates]
  BY <1>2 DEF Fires, UnitStates
<1>4. ~ AtRest
  BY <1>2 DEF Fires, AtRest
<1>5. Removing'
  BY <1>1, <1>4 DEF OwnedInv, Removing
<1> QED BY <1>1, <1>3, <1>5, HostKeeps DEF OwnedInv, Types, NoneOurs

LEMMA DiesKeeps == ASSUME Known, Dies PROVE OwnedInv'
<1>1. OwnedInv /\ UNCHANGED <<file, source, late, receipt, lock, run, sent>>
  BY DEF Known, Dies
<1>2. unit \in [Units -> UnitStates] /\ "observer" \in Units
  BY <1>1 DEF OwnedInv, Types, Units, Dies
<1>3. unit' \in [Units -> UnitStates]
  BY <1>2 DEF Dies, UnitStates
<1>4. ~ AtRest
  BY <1>2 DEF Dies, AtRest
<1>5. Removing'
  BY <1>1, <1>4 DEF OwnedInv, Removing
<1> QED BY <1>1, <1>3, <1>5, HostKeeps DEF OwnedInv, Types, NoneOurs

LEMMA EditsKeep == ASSUME Known, Edits PROVE OwnedInv'
<1>1. OwnedInv /\ UNCHANGED <<unit, late, receipt, lock, run, sent>>
  BY DEF Known, Edits
<1>2. file' \in [Files -> {"absent", "ours", "foreign"}] /\ source' \in BOOLEAN /\ (NoneOurs => NoneOurs')
  BY <1>1 DEF OwnedInv, Types, Edits, NoneOurs
<1>3. ~ \E c \in Commands : run[c].at = "remove"
  <2>1. ASSUME NEW c \in Commands, run[c].at = "remove" PROVE FALSE
    <3>1. lock = c /\ c # "none"
      BY <2>1, Holds DEF Known, OwnedInstallAssumption
    <3> QED BY <2>1, <3>1 DEF Edits
  <2> QED BY <2>1
<1>4. Removing'
  BY <1>1, <1>3 DEF Removing
<1> QED BY <1>1, <1>2, <1>4, HostKeeps DEF OwnedInv, Types

LEMMA ByHandKeeps == ASSUME Known, ByHand PROVE OwnedInv'
<1>1. OwnedInv /\ UNCHANGED <<file, source, late, receipt, lock, run, sent>>
  BY DEF Known, ByHand
<1>2. unit' \in [Units -> UnitStates]
  BY <1>1 DEF ByHand, OwnedInv, Types, UnitStates
<1>3. ~ \E c \in Commands : run[c].at = "remove"
  BY <1>1 DEF ByHand, OwnedInv, Holding
<1>4. Removing'
  BY <1>1, <1>3 DEF Removing
<1> QED BY <1>1, <1>2, <1>4, HostKeeps DEF OwnedInv, Types, NoneOurs

LEMMA ActsKeep == ASSUME Known, Acts PROVE OwnedInv'
<1>1. OwnedInv /\ UNCHANGED <<file, source, receipt, lock, run, sent>>
  BY DEF Known, Acts
<1>2. PICK e \in late : unit' = Applied(e) /\ late' = late \ {e}
  BY DEF Acts
<1>3. unit' \in [Units -> UnitStates]
  BY <1>1, <1>2, AppliedIs DEF OwnedInv, Types
<1>4. ~ \E c \in Commands : run[c].at = "remove"
  <2>1. ASSUME NEW c \in Commands, run[c].at = "remove" PROVE FALSE
    BY <1>2, <2>1, Holds
  <2> QED BY <2>1
<1>5. Removing'
  BY <1>1, <1>4 DEF Removing
<1> QED BY <1>1, <1>2, <1>3, <1>5, HostKeeps DEF OwnedInv, Types, NoneOurs

\* An end without a call and without a write of the receipt.
LEMMA QuitKeeps ==
  ASSUME Known, NEW c \in Commands, run[c].cmd # "none", Ends(c), UNCHANGED <<host, receipt, sent>>
  PROVE  OwnedInv'
<1>1. OwnedInv /\ UNCHANGED <<file, source, unit, late, receipt, sent>>
  BY DEF Known, host
<1>2. /\ unit' \in [Units -> UnitStates] /\ receipt' \in Receipts /\ sent' \in [Effects -> {0, 1}]
      /\ late' \in SUBSET Effects
  BY <1>1 DEF OwnedInv, Types
<1>3. \A e \in late' : receipt'.effects[e] = "submitted"
  BY <1>1 DEF OwnedInv, Lates
<1>4. receipt'.phase \notin Open => late' = {} /\ NoneOurs
  BY <1>1 DEF OwnedInv, Lates, Left
<1>5. /\ receipt'.phase # "none" => \A e \in Effects : receipt'.effects[e] = "none" => sent'[e] = 0
      /\ receipt'.phase = "none" => receipt' = NoReceipt
  BY <1>1 DEF OwnedInv, Recorded
<1> QED BY <1>1, <1>2, <1>3, <1>4, <1>5, EndKeeps

LEMMA UnansweredKeeps == ASSUME Known, NEW c \in Commands, Unanswered(c) PROVE OwnedInv'
<1>0. OwnedInv /\ Typed
  BY KnownTypes DEF Known
<1>1. run[c].at = "call" /\ UNCHANGED <<file, source, receipt>> /\ Ends(c) /\ Due(c) \in Effects
  BY <1>0 DEF Unanswered, At, Typed
<1>2. lock = c /\ run[c].cmd # "none" /\ late = {}
  BY <1>1, Holds
<1>3. sent[Due(c)] = 0 /\ receipt.effects[Due(c)] = "submitted"
  BY <1>0, <1>1 DEF OwnedInv, Recorded
<1>4. /\ sent' \in [Effects -> {0, 1}] /\ \A e \in Effects \ {Due(c)} : sent'[e] = sent[e]
  BY <1>0, <1>1, <1>3 DEF Unanswered, Typed
<1>5. /\ unit' \in [Units -> UnitStates] /\ late' \subseteq {Due(c)}
  <2>1. unit \in [Units -> UnitStates] /\ Applied(Due(c)) \in [Units -> UnitStates]
    BY <1>0, <1>1, AppliedIs DEF OwnedInv, Types
  <2> QED BY <1>2, <2>1 DEF Unanswered
<1>6. receipt'.phase \in Open /\ receipt'.phase # "none"
  BY <1>0, <1>1, <1>2 DEF OwnedInv, Placing, Open
<1>7. \A e \in Effects : receipt'.effects[e] = "none" => sent'[e] = 0
  BY <1>0, <1>1, <1>3, <1>4, <1>6 DEF OwnedInv, Recorded
<1>8. receipt' \in Receipts /\ late' \in SUBSET Effects /\ \A e \in late' : receipt'.effects[e] = "submitted"
  BY <1>0, <1>1, <1>3, <1>5 DEF Typed
<1> QED BY <1>0, <1>1, <1>2, <1>4, <1>5, <1>6, <1>7, <1>8, EndKeeps

LEMMA ActivatedKeeps == ASSUME Known, NEW c \in Commands, Activated(c) PROVE OwnedInv'
<1>0. OwnedInv /\ Typed
  BY KnownTypes DEF Known
<1>1. run[c].at = "units" /\ UNCHANGED <<file, source, unit, late, sent>> /\ Ends(c)
  BY DEF Activated, At, host
<1>2. lock = c /\ run[c].cmd # "none" /\ late = {}
  BY <1>1, Holds
<1>3. /\ receipt' \in Receipts /\ receipt'.effects = receipt.effects /\ receipt'.phase \in {"prepared", "installed"}
      /\ receipt.phase # "none"
  BY <1>0, <1>1, <1>2 DEF Activated, OwnedInv, Placing, Receipts, Open, Typed
<1>4. receipt'.phase \in Open /\ receipt'.phase # "none"
  BY <1>3 DEF Open
<1>5. \A e \in Effects : receipt'.effects[e] = "none" => sent'[e] = 0
  BY <1>0, <1>1, <1>3 DEF OwnedInv, Recorded
<1>6. unit' \in [Units -> UnitStates] /\ sent' \in [Effects -> {0, 1}] /\ late' = {}
  BY <1>0, <1>1, <1>2 DEF OwnedInv, Types
<1> QED BY <1>0, <1>1, <1>2, <1>3, <1>4, <1>5, <1>6, EndKeeps

LEMMA ClosesKeeps == ASSUME Known, NEW c \in Commands, Closes(c) PROVE OwnedInv'
<1>0. OwnedInv /\ Typed
  BY KnownTypes DEF Known
<1>1. run[c].at = "reload" /\ UNCHANGED <<file, source, unit, late, sent>> /\ Ends(c)
  BY DEF Closes, At, host
<1>2. lock = c /\ run[c].cmd # "none" /\ late = {}
  BY <1>1, Holds
<1>3. NoneOurs /\ receipt.phase # "none"
  BY <1>0, <1>1 DEF OwnedInv, Left, Placing
<1>4. /\ receipt' \in Receipts
      /\ \/ receipt' = NoReceipt /\ receipt'.phase = "none"
         \/ /\ receipt'.phase # "none"
            /\ \A e \in Effects : receipt'.effects[e] = "none" => receipt.effects[e] = "none"
  BY <1>0 DEF Closes, NoReceipt, NoEffects, Receipts, Typed
<1>5. receipt'.phase # "none" => \A e \in Effects : receipt'.effects[e] = "none" => sent'[e] = 0
  BY <1>0, <1>1, <1>3, <1>4 DEF OwnedInv, Recorded
<1>6. unit' \in [Units -> UnitStates] /\ sent' \in [Effects -> {0, 1}] /\ late' = {}
  BY <1>0, <1>1, <1>2 DEF OwnedInv, Types
<1> QED BY <1>0, <1>1, <1>2, <1>3, <1>4, <1>5, <1>6, EndKeeps

\* A command that stands somewhere is under way.
LEMMA Stands == ASSUME Known, NEW c \in Commands, run[c].at # "none" PROVE run[c].cmd # "none"
BY DEF Known, OwnedInv, Holding

LEMMA CommandKeeps ==
  ASSUME Known, NEW c \in Commands,
         \/ Locks(c) \/ Fails(c) \/ Calls(c) \/ Written(c) \/ Stopped(c) \/ Removed(c)
  PROVE  OwnedInv'
<1>1. CASE Locks(c)
  <2>1. CASE Ends(c)
    BY <1>1, <2>1, Stands, QuitKeeps DEF Locks, At
  <2>2. CASE lock = "none" /\ Same(c) /\ lock' = c /\ Goes(c, "begin")
    BY <1>1, <2>2, LockKeeps DEF Locks, host
  <2> QED BY <1>1, <2>1, <2>2 DEF Locks
<1>2. CASE Fails(c)
  BY <1>2, QuitKeeps DEF Fails
<1>3. CASE Calls(c)
  <2>1. At(c, Stage(c)) /\ run[c].next <= Len(Listed(c)) /\ run[c].at # "none"
    BY <1>3 DEF Calls, At, Stage
  <2>2. CASE Ends(c) /\ UNCHANGED <<host, receipt, sent, bounds>>
    BY <2>1, <2>2, Stands, QuitKeeps
  <2>3. CASE run' = [run EXCEPT ![c].next = @ + 1] /\ UNCHANGED <<host, receipt, lock, sent, bounds>>
    BY <2>1, <2>3, SkipKeeps
  <2>4. CASE receipt.effects[Due(c)] # "done" /\ Submits(c, Due(c))
    BY <2>1, <2>4, SubmitKeeps
  <2> QED BY <1>3, <2>2, <2>3, <2>4 DEF Calls
<1>4. CASE Written(c)
  <2>1. CASE Ends(c)
    BY <1>4, <2>1, Stands, QuitKeeps DEF Written, At
  <2>2. CASE Goes(c, "units") /\ UNCHANGED lock
    BY <1>4, <2>2, WrittenKeeps DEF Written
  <2> QED BY <1>4, <2>1, <2>2 DEF Written
<1>5. CASE Stopped(c)
  <2>1. CASE Ends(c)
    BY <1>5, <2>1, Stands, QuitKeeps DEF Stopped, At
  <2>2. CASE AtRest /\ Unchanged /\ Goes(c, "remove") /\ UNCHANGED lock
    <3>1. run[c].cmd = "rollback"
      BY <1>5 DEF Stopped, At, Known, OwnedInv, Placing
    <3>2. Len(Listed(c)) = Len(StopEffects)
      BY <3>1 DEF Listed
    <3> QED BY <1>5, <2>2, <3>2, StoppedKeeps DEF Stopped
  <2> QED BY <1>5, <2>1, <2>2 DEF Stopped
<1>6. CASE Removed(c)
  <2>0. At(c, "remove") /\ NoneOurs
    BY <1>6 DEF Removed, NoneOurs
  <2>1. CASE Goes(c, "reload") /\ UNCHANGED <<host, receipt, lock, sent, bounds>>
    BY <2>0, <2>1, RemovedKeeps
  <2>2. CASE receipt.effects["rollback_reload"] # "done" /\ Submits(c, "rollback_reload")
    <3>1. run[c].next > Len(Listed(c)) /\ Due(c) = "rollback_reload"
      BY <2>0, KnownTypes DEF Known, OwnedInv, Removing, At, Typed, Due
    <3> QED BY <2>0, <2>2, <3>1, SubmitKeeps
  <2> QED BY <1>6, <2>1, <2>2 DEF Removed
<1> QED BY <1>1, <1>2, <1>3, <1>4, <1>5, <1>6

LEMMA OwnedStep == OwnedInstallAssumption /\ OwnedInv /\ [Next]_vars => OwnedInv'
<1> SUFFICES ASSUME OwnedInstallAssumption, OwnedInv, [Next]_vars PROVE OwnedInv'
  OBVIOUS
<1>0. Known
  BY DEF Known
<1>1. ASSUME NEW c \in Commands,
             \/ \E cmd \in {"install", "rollback"} : Reads(c, cmd)
             \/ Locks(c) \/ Fails(c) \/ Calls(c) \/ Answered(c) \/ Unanswered(c)
             \/ Begins(c) \/ Writes(c) \/ Written(c) \/ Activated(c)
             \/ Stopped(c) \/ Removes(c) \/ Removed(c) \/ Closes(c)
      PROVE  OwnedInv'
  BY <1>0, <1>1, CommandKeeps, ReadKeeps, AnswerKeeps, UnansweredKeeps, BeginKeeps, WriteKeeps, ActivatedKeeps,
    RemoveKeeps, ClosesKeeps
<1>2. CASE UNCHANGED vars
  <2>1. UNCHANGED <<file, source, unit, late, receipt, lock, run, sent>>
    BY <1>2 DEF vars
  <2>2. (AtRest => AtRest') /\ (NoneOurs => NoneOurs') /\ \A d \in Commands : Len(Listed(d))' = Len(Listed(d))
    BY <2>1, SameDue DEF AtRest, NoneOurs
  <2>3. Removing'
    BY <2>1, <2>2 DEF OwnedInv, Removing
  <2> QED BY <1>0, <2>1, <2>2, <2>3, HostKeeps DEF OwnedInv, Types
<1> QED BY <1>0, <1>1, <1>2, FiresKeeps, DiesKeeps, RebootKeeps, EditsKeep, ByHandKeeps, ActsKeep DEF Next

LEMMA OwnedInit == OwnedInstallAssumption /\ Init => OwnedInv
<1> SUFFICES ASSUME OwnedInstallAssumption, Init PROVE OwnedInv
  OBVIOUS
<1>1. /\ NoReceipt \in Receipts /\ NoReceipt.phase = "none" /\ NoRun \in Runs /\ NoRun.cmd = "none" /\ NoRun.at = "none"
      /\ \A e \in Effects : NoReceipt.effects[e] = "none"
  BY DEF NoRun, NoReceipt, NoEffects, Receipts, Runs, Places
<1>2. /\ file = [f \in Files |-> "absent"] /\ source = TRUE /\ late = {} /\ receipt = NoReceipt /\ lock = "none"
      /\ run = [c \in Commands |-> NoRun] /\ sent = [e \in Effects |-> 0] /\ "none" \notin Commands
  BY DEF Init, OwnedInstallAssumption
<1>3. unit \in [Units -> UnitStates]
  BY DEF Init, UnitStates
<1>4. Types
  BY <1>1, <1>2, <1>3 DEF Types
<1>5. Holding /\ Looked /\ Placing /\ Removing
  BY <1>1, <1>2 DEF Holding, Looked, Placing, Removing
<1>6. Answers /\ Lates /\ Recorded /\ Left
  BY <1>1, <1>2 DEF Answers, Lates, Recorded, Left, NoneOurs
<1> QED BY <1>4, <1>5, <1>6 DEF OwnedInv

-----------------------------------------------------------------------------
(* What it is for *)

LEMMA OwnedKeepsSafe == OwnedInstallAssumption /\ OwnedInv => InstallSafe
<1> SUFFICES ASSUME OwnedInstallAssumption, OwnedInv PROVE InstallSafe
  OBVIOUS
<1>0. Typed
  BY KnownTypes DEF Known
<1>1. TypeOK
  <2>1. receipt.phase \in {"none", "rolled_back"} => late = {}
    BY DEF OwnedInv, Lates, Open
  <2>2. \A c \in Commands :
         /\ run[c].cmd \in {"none", "install", "rollback"} /\ run[c].next \in 1 .. 4 /\ run[c].exists \subseteq Units
         /\ run[c].at \in {"none", "lock", "begin", "files", "units", "call", "stop", "remove", "reload"}
    BY <1>0 DEF Typed, Runs, Places
  <2>3. receipt \in [phase : {"none", "prepared", "installed", "rolling_back", "rolled_back"},
                     effects : [Effects -> {"none", "submitted", "done"}]]
    BY <1>0 DEF Typed, Receipts, Open
  <2>4. unit \in [Units -> [active : BOOLEAN, enabled : BOOLEAN, cached : BOOLEAN]]
    BY DEF OwnedInv, Types, UnitStates
  <2>5. lock # "none" => run[lock].cmd # "none"
    BY DEF OwnedInv, Types, Holding
  <2> QED BY <2>1, <2>2, <2>3, <2>4, <2>5 DEF OwnedInv, Types, TypeOK
<1>2. SentOnce
  BY DEF OwnedInv, Types, SentOnce
<1>3. Owned
  BY SMTT(30) DEF OwnedInv, Lates, Left, NoneOurs, Open, Owned
<1> QED BY <1>1, <1>2, <1>3 DEF InstallSafe

\* Which steps write a file.
LEMMA OnFiles ==
  ASSUME [Next]_vars, file' # file
  PROVE  Edits \/ \E c \in Commands : Writes(c) \/ Removes(c)
BY DEF Next, vars, host, Fires, Dies, Reboots, ByHand, Acts, Reads, Locks, Fails, Calls, Submits, Answered, Unanswered,
  Begins, Written, Activated, Stopped, Removed, Closes

LEMMA OwnedWrites == OwnedInstallAssumption /\ OwnedInv /\ [Next]_vars => InstallStep
<1> SUFFICES ASSUME OwnedInstallAssumption, OwnedInv, [Next]_vars PROVE InstallStep
  OBVIOUS
<1>0. Known /\ file \in [Files -> {"absent", "ours", "foreign"}]
  BY DEF Known, OwnedInv, Types
<1>1. ASSUME NEW c \in Commands, Removes(c)
      PROVE  late = {} /\ AtRest /\ \A f \in Files : file[f] # "foreign"
  <2>1. run[c].at = "remove"
    BY <1>1 DEF Removes, At
  <2>2. late = {}
    BY <1>0, <2>1, Holds
  <2> QED BY <2>1, <2>2 DEF OwnedInv, Removing
<1>2. RemovedQuiet
  <2>1. ASSUME NEW f \in Files, file[f] # "absent", file'[f] = "absent"
        PROVE  \E c \in Commands : Removes(c)
    BY <1>0, <2>1, OnFiles DEF Edits, Writes
  <2> QED BY <1>1, <2>1 DEF RemovedQuiet, AtRest
<1>3. ForeignKept
  <2>1. ASSUME NEW f \in Files, file[f] = "foreign" PROVE file'[f] = "foreign"
    <3>1. CASE Edits
      BY <1>0, <2>1, <3>1 DEF Edits
    <3>2. ASSUME NEW c \in Commands, Writes(c) PROVE file'[f] = "foreign"
      BY <1>0, <2>1, <3>2 DEF Writes
    <3> QED BY <1>1, <2>1, <3>1, <3>2, OnFiles
  <2> QED BY <2>1 DEF ForeignKept
<1> QED BY <1>2, <1>3 DEF InstallStep

\* For both installers, any commands at once and any failures, reboots and edits:
\* a call of one receipt is sent once, what is left behind is covered by an open
\* receipt, files are removed from units at rest only, and what somebody else put
\* in their place stays.
THEOREM OwnedHolds == OwnedInstallAssumption => (Spec => []InstallSafe /\ [][InstallStep]_vars)
<1> SUFFICES ASSUME OwnedInstallAssumption PROVE Spec => []InstallSafe /\ [][InstallStep]_vars
  OBVIOUS
<1>1. Init => OwnedInv
  BY OwnedInit
<1>2. OwnedInv /\ [Next]_vars => OwnedInv'
  BY OwnedStep
<1>3. OwnedInv => InstallSafe
  BY OwnedKeepsSafe
<1>4. OwnedInv /\ [Next]_vars => InstallStep
  BY OwnedWrites
<1> QED BY <1>1, <1>2, <1>3, <1>4, PTL DEF Spec

=============================================================================
