---------------------------- MODULE MCOperations ----------------------------
(***************************************************************************)
(* The operations of the scheduler on models, one component at a time: the *)
(* claims of the sleeping recovery, the operations of actions.py beside    *)
(* each other, the recovery of a wedged wake. `part` names the component a *)
(* behaviour exercises; the state of the others stays as it began.         *)
(***************************************************************************)
EXTENDS SleepingRecovery, WakeFailure, TLC

CONSTANTS
  Parts,
  Two,   \* two accounts, two models, two operations; never compared with each other
  One,   \* a model
  Three  \* operations

VARIABLES
  part, \* the component and instance that this behaviour exercises
  \* ModelActions
  inst, here, a_account, reserved, a_claim, a_sample, pending, entry, free, auto, op, vacated

aVars == <<inst, here, a_account, reserved, a_claim, a_sample, pending, entry, free, auto, op,
           vacated>>
allVars == <<part, vars, wakeVars, aVars>>

\* Two operations of every kind on one model, three of the kinds that meet in the
\* registry of transitions, and two on two models of a GPU that is evacuated.
AllKinds == {"wake", "sleep", "stop", "preload", "free", "reserve", "auto", "evict", "recover"}
Every == INSTANCE ModelActionsProofs WITH Models <- One, Ops <- Two, Requests <- AllKinds,
         account <- a_account, claim <- a_claim, sample <- a_sample
Many == INSTANCE ModelActionsProofs WITH Models <- One, Ops <- Three,
         Requests <- {"preload", "free", "recover"},
         account <- a_account, claim <- a_claim, sample <- a_sample
Both == INSTANCE ModelActionsProofs WITH Models <- Two, Ops <- Two, Requests <- {"reserve"},
         account <- a_account, claim <- a_claim, sample <- a_sample

ASSUME InstancesAssumption ==
  SleepingAssumption /\ WakeFailureAssumption
    /\ Every!ActionsAssumption /\ Many!ActionsAssumption /\ Both!ActionsAssumption

AllInit ==
  /\ part \in Parts
  /\ Init /\ WakeInit
  /\ CASE part = "many" -> Many!Init [] part = "both" -> Both!Init [] OTHER -> Every!Init

AllNext ==
  \/ part = "sleeping" /\ Next /\ UNCHANGED <<part, aVars, wakeVars>>
  \/ part = "wedged" /\ WakeNext /\ UNCHANGED <<part, vars, aVars>>
  \/ part = "every" /\ Every!Next /\ UNCHANGED <<part, vars, wakeVars>>
  \/ part = "many" /\ Many!Next /\ UNCHANGED <<part, vars, wakeVars>>
  \/ part = "both" /\ Both!Next /\ UNCHANGED <<part, vars, wakeVars>>

AllSpec == AllInit /\ [][AllNext]_allVars

Symmetry == Permutations(Two)

-----------------------------------------------------------------------------
(* Properties *)

\* A model has one operation of actions.py at a time, a claimed model none but its
\* recovery's, and a GPU that was reported vacated stays so while it is reserved;
\* every end of an operation gives back what it took and nothing else.
OperationsApart ==
  CASE part = "every" -> Every!OperationsApart
    [] part = "many" -> Many!OperationsApart
    [] part = "both" -> Both!OperationsApart
    [] OTHER -> TRUE

\* The worker of wake_failure.py stops and unloads only an instance that is there
\* and wedged, and no account more than MAX_UNLOAD_ATTEMPTS times.
RecoveryDue == [][part = "wedged" => DueStep]_allVars
=============================================================================
