--------------------------- MODULE SchedulerProofs ---------------------------
(***************************************************************************)
(* Proofs about four parts of the running scheduler.                       *)
(*                                                                         *)
(* FaultRecovery, for any number of accounts and crashes: type             *)
(* correctness, the inductive invariant FaultInv (the fence of a claim,    *)
(* one unload, no unload that outlives its claim) and the rule that a      *)
(* confirmed account is released only when its process is gone.            *)
(*                                                                         *)
(* EventRelay: nothing that was offered to the buffer is lost silently, a  *)
(* dropped count is not taken for reported, and a replaced generation      *)
(* shows nothing more.                                                     *)
(*                                                                         *)
(* CatalogManifest, for any models, ports and edits: no two units listen   *)
(* on one port, the native profile has the rows it needs, a removed model  *)
(* comes back only when nothing of it is left.                             *)
(*                                                                         *)
(* RegistryConfig, for any names, ports and shares: the configuration that *)
(* registrations, removals and an administrator write is consistent.       *)
(***************************************************************************)
EXTENDS FaultRecovery, EventRelay, CatalogManifest, RegistryConfig, FiniteSetTheorems, SequenceTheorems, TLAPS

-----------------------------------------------------------------------------
(* Records *)

\* What the worker's changes of its memory keep: the type, and whether a round
\* showed the unit gone.
LEMMA LookFacts ==
  /\ NoLook \in Look /\ ~NoLook.absent /\ Absent(NoLook.after)
  /\ \A l \in LeaseIds : [NoLook EXCEPT !.lease = l] \in Look /\ ~[NoLook EXCEPT !.lease = l].absent
  /\ [NoLook EXCEPT !.proxy = TRUE] \in Look /\ ~[NoLook EXCEPT !.proxy = TRUE].absent
  /\ \A k \in Look, u \in Unit :
       /\ [k EXCEPT !.after = u] \in Look
       /\ [k EXCEPT !.after = u].after = u /\ [k EXCEPT !.after = u].absent = k.absent
  /\ \A k \in Look, b \in BOOLEAN :
       [k EXCEPT !.absent = b] \in Look /\ [k EXCEPT !.absent = b].absent = b
BY DEF NoLook, Look, NoUnit, Unit, Absent

\* The forms of a unit: without a process there is no account, and a stop
\* changes the phase only.
LEMMA UnitFacts ==
  /\ NoUnit \in Unit /\ Absent(NoUnit) /\ NoUnit.lease = None
  /\ \A u \in Unit : /\ Absent(u) => u = NoUnit
                     /\ u.lease \in LeaseIds \cup {None}
                     /\ Stopped(u) \in Unit /\ Stopped(u).lease = u.lease
                     /\ Absent(Stopped(u)) <=> Absent(u)
  /\ \A u \in Unit, p \in Phases :
       ~Absent(u) => /\ [u EXCEPT !.phase = p] \in Unit /\ [u EXCEPT !.phase = p].lease = u.lease
                     /\ ~Absent([u EXCEPT !.phase = p])
  /\ \A l \in LeaseIds, p \in Phases :
       /\ [phase |-> p, lease |-> l] \in Unit /\ [phase |-> p, lease |-> l].lease = l
       /\ ~Absent([phase |-> p, lease |-> l])
BY DEF NoUnit, Unit, Phases, Absent, Stopped

\* None is no claim, and each advance of a claim changes one field of it.
LEMMA ClaimFacts ==
  /\ None \notin Claim
  /\ \A c \in Claim :
       /\ c.lease \in LeaseIds /\ c.stage \in {"claimed", "released"}
       /\ c.submitted \in BOOLEAN /\ c.acknowledged \in BOOLEAN
       /\ Submitted(c) \in Claim /\ Submitted(c).submitted /\ Submitted(c).lease = c.lease
       /\ Submitted(c).stage = c.stage /\ Submitted(c).acknowledged = c.acknowledged
  /\ \A c \in Claim : LET d == [c EXCEPT !.acknowledged = TRUE] IN
       /\ d \in Claim /\ d.lease = c.lease /\ d.stage = c.stage
       /\ d.submitted = c.submitted /\ d.acknowledged
  /\ \A c \in Claim : LET d == [c EXCEPT !.stage = "released"] IN
       /\ d \in Claim /\ d.lease = c.lease /\ d.stage = "released"
       /\ d.submitted = c.submitted /\ d.acknowledged = c.acknowledged
BY FaultAssumption DEF Claim, Submitted


\* The initial state is well typed.
LEMMA TypeInit == Init => TypeOK
<1> SUFFICES ASSUME Init PROVE TypeOK
  OBVIOUS
<1>1. look \in Look /\ unit \in Unit
  BY LookFacts, UnitFacts DEF Init
<1>2. crashes \in 0..MaxCrashes
  BY FaultAssumption DEF Init
<1> QED
  BY <1>1, <1>2 DEF Init, TypeOK, Steps, SwapStates

\* The steps of llama-swap, the launcher and systemd keep the types.
LEMMA TypeEnvironment ==
  ASSUME TypeOK, FaultInv, Environment
  PROVE  TypeOK'
<1> USE DEF TypeOK, durable, outside, worker, detector, history
<1>1. CASE Request
  BY <1>1 DEF Request, SwapStates
<1>2. CASE LauncherEnds
  BY <1>2 DEF LauncherEnds
<1>3. CASE SwapReady
  BY <1>3 DEF SwapReady, SwapMoves, SwapStates
<1>4. CASE SwapGivesUp
  BY <1>4 DEF SwapGivesUp, SwapMoves, SwapStates
<1>5. CASE SwapNotices
  BY <1>5 DEF SwapNotices, SwapMoves, SwapStates
<1>6. CASE UnitServes
  BY UnitFacts, <1>6 DEF UnitServes, UnitMoves, Phases, Absent
<1>7. CASE UnitSick
  BY UnitFacts, <1>7 DEF UnitSick, UnitMoves, Phases, Absent
<1>8. CASE UnitFails
  BY UnitFacts, <1>8 DEF UnitFails, UnitMoves, Phases, Absent
<1>9. CASE UnitExits
  BY UnitFacts, <1>9 DEF UnitExits, UnitMoves, Phases
<1>10. CASE \E l \in LeaseIds : UnloadExecutes(l)
  BY <1>10 DEF UnloadExecutes, SwapStates, Steps, LockedSteps
<1>11. CASE \E l \in LeaseIds : UnloadRejected(l)
  BY <1>11 DEF UnloadRejected
<1> QED
  BY <1>1, <1>2, <1>3, <1>4, <1>5, <1>6, <1>7, <1>8, <1>9, <1>10, <1>11 DEF Environment

\* The steps of the lease protocol keep the types.
LEMMA TypeAccounts ==
  ASSUME TypeOK, FaultInv, Accounts
  PROVE  TypeOK'
<1> USE DEF TypeOK, durable, outside, worker, detector, history
<1>1. CASE \E l \in LeaseIds : Place(l)
  <2>1. PICK l \in LeaseIds : Place(l)
    BY <1>1
  <2>2. unit' \in Unit
    BY <2>1, UnitFacts DEF Place, Phases
  <2> QED
    BY <2>1, <2>2 DEF Place, OpenStatus
<1>2. CASE \E l \in LeaseIds : Confirm(l)
  BY <1>2 DEF Confirm, OpenStatus
<1>3. CASE \E l \in LeaseIds : FinishRelease(l)
  BY <1>3 DEF FinishRelease, ToReleased
<1>4. CASE \E l \in LeaseIds : ReconcileProbe(l)
  BY <1>4 DEF ReconcileProbe
<1>5. CASE ReconcileRelease
  BY <1>5 DEF ReconcileRelease, ToReleased
<1> QED
  BY <1>1, <1>2, <1>3, <1>4, <1>5 DEF Accounts

\* The steps of the sampler keep the types.
LEMMA TypeSampler ==
  ASSUME TypeOK, FaultInv, Sampler
  PROVE  TypeOK'
<1> USE DEF TypeOK, durable, outside, worker, detector, history
<1>1. CASE RoundBegin
  BY <1>1 DEF RoundBegin, Round, UnitState, UnitStates, Waits
<1>2. CASE RoundPublish
  BY <1>2 DEF RoundPublish, Round, Sample
<1>3. CASE RoundFails
  BY <1>3 DEF RoundFails
<1> QED
  BY <1>1, <1>2, <1>3 DEF Sampler

\* The ordinary stops keep the types.
LEMMA TypeStops ==
  ASSUME TypeOK, FaultInv, OrdinaryStops
  PROVE  TypeOK'
<1> USE DEF TypeOK, durable, outside, worker, detector, history
<1>1. CASE OrdinaryStopEnds
  BY <1>1 DEF OrdinaryStopEnds
<1>2. CASE \E l \in LeaseIds : OrdinaryStop(l)
  BY UnitFacts, <1>2 DEF OrdinaryStop, Note, Open
<1> QED
  BY <1>1, <1>2 DEF OrdinaryStops

\* The steps of the worker and a crash keep the types, given the claim or the
\* evidence each step reads.
LEMMA TypeWorker ==
  ASSUME TypeOK, FaultInv, Worker \/ Crash
  PROVE  TypeOK'
<1> USE DEF TypeOK, durable, outside, worker, detector, history
<1>1. CASE \E l \in LeaseIds : ObserveBegin(l)
  <2>1. PICK l \in LeaseIds : ObserveBegin(l)
    BY <1>1
  <2>2. look' \in Look
    BY <2>1, LookFacts DEF ObserveBegin
  <2>3. round' \in Round \cup {None} /\ sample' \in Sample \cup {None}
    BY <2>1 DEF ObserveBegin, Ask, Round, Sample
  <2> QED
    BY <2>1, <2>2, <2>3 DEF ObserveBegin, Steps
<1>2. CASE TakeRound
  BY LookFacts, <1>2 DEF TakeRound, Waits, Sample, Steps
<1>3. CASE Observe
  <2>1. look' \in Look
    BY <1>3, LookFacts DEF Observe
  <2>2. /\ evidence' \in LeaseIds \cup {None} /\ expected' \in LeaseIds \cup {None}
        /\ pc' \in {"idle", "proven"}
    <3> USE DEF Drop, Look
    <3>1. CASE ObserveNothing
      BY <1>3, <3>1 DEF Observe, ObserveNothing
    <3>2. CASE ObserveExit
      BY <1>3, <3>2 DEF Observe, ObserveExit
    <3>3. CASE ObserveHealthy
      BY <1>3, <3>3 DEF Observe, ObserveHealthy
    <3>4. CASE ObserveUnhealthy
      BY <1>3, <3>4 DEF Observe, ObserveUnhealthy
    <3> QED
      BY <1>3, <3>1, <3>2, <3>3, <3>4 DEF Observe
  <2> QED
    BY <1>3, <2>1, <2>2 DEF Observe, Steps
<1>4. CASE BeginProbe
  BY LookFacts, <1>4 DEF BeginProbe, Steps, LockedSteps
<1>5. CASE BeginClaim
  <2>1. evidence \in LeaseIds
    BY <1>5 DEF BeginClaim, FaultInv, WorkerInv
  <2>2. claim' \in Claim
    BY <1>5, <2>1 DEF BeginClaim, Claim
  <2> QED
    BY <1>5, <2>2, LookFacts DEF BeginClaim, Steps, LockedSteps
<1>6. CASE BeginStop
  BY UnitFacts, <1>6 DEF BeginStop, Steps
<1>7. CASE CleanupBegin
  BY LookFacts, <1>7 DEF CleanupBegin, Steps
<1>8. CASE WaitRound
  BY <1>8 DEF WaitRound, Ask, Round, Sample, Steps
<1>9. CASE WaitApply
  <2>1. CASE TakenIsPublished /\ ShowsAbsence /\ look.absent
    <3>1. pc' \in Steps /\ look' = look
      BY <1>9, <2>1 DEF WaitApply, Steps
    <3> QED
      BY <1>9, <3>1 DEF WaitApply
  <2>2. CASE ~(TakenIsPublished /\ ShowsAbsence /\ look.absent)
    <3> DEFINE absent == TakenIsPublished /\ ShowsAbsence
    <3>1. pc' = "clean" /\ look' = [look EXCEPT !.absent = absent]
      BY <1>9, <2>2 DEF WaitApply
    <3>2. absent \in BOOLEAN
      BY DEF TakenIsPublished, ShowsAbsence
    <3>3. look' \in Look
      <4> HIDE DEF absent
      <4> QED
        BY <3>1, <3>2, LookFacts
    <3> QED
      BY <1>9, <3>1, <3>3 DEF WaitApply, Steps
  <2> QED
    BY <2>1, <2>2
<1>10. CASE ReleaseAccount
  BY ClaimFacts, <1>10 DEF ReleaseAccount, ClaimCurrent, Steps, LockedSteps
<1>11. CASE MarkSubmission
  <2>1. claim \in Claim
    BY <1>11 DEF MarkSubmission, ClaimCurrent
  <2>2. CASE claim.submitted
    BY <1>11, <2>1, <2>2, LookFacts DEF MarkSubmission, ProxyWait, Steps
  <2>3. CASE ~claim.submitted
    <3>1. claim' = Submitted(claim) /\ pc' = "sending" /\ UNCHANGED look
      BY <1>11, <2>3 DEF MarkSubmission
    <3>2. claim' \in Claim
      BY <3>1, <2>1, ClaimFacts
    <3> QED
      BY <1>11, <3>1, <3>2 DEF MarkSubmission, Steps, LockedSteps
  <2> QED
    BY <2>2, <2>3
<1>12. CASE SendUnload
  <2>1. claim.lease \in LeaseIds
    BY <1>12, ClaimFacts DEF SendUnload, FaultInv, WorkerInv, Steps, LockedSteps
  <2> QED
    BY <1>12, <2>1 DEF SendUnload, Steps, LockedSteps
<1>13. CASE Acknowledge
  BY ClaimFacts, LookFacts, <1>13 DEF Acknowledge, ClaimCurrent, ProxyWait, Steps
<1>14. CASE Complete
  BY LookFacts, <1>14 DEF Complete, Drop, Steps
<1>15. CASE CycleRefused
  BY LookFacts, <1>15 DEF CycleRefused, Drop, Steps
<1>16. CASE WorkerFails
  BY LookFacts, <1>16 DEF WorkerFails, Drop, Steps
<1>17. CASE Crash
  <2>1. crashes' \in 0..MaxCrashes
    BY <1>17, FaultAssumption DEF Crash
  <2>2. look' \in Look /\ found' \subseteq LeaseIds
    BY <1>17, LookFacts DEF Crash
  <2> QED
    BY <1>17, <2>1, <2>2 DEF Crash, Drop, Steps
<1> QED
  BY <1>1, <1>2, <1>3, <1>4, <1>5, <1>6, <1>7, <1>8, <1>9, <1>10, <1>11, <1>12, <1>13, <1>14,
       <1>15, <1>16, <1>17 DEF Worker, Cleanup

\* The steps of llama-swap, the launcher and systemd preserve the invariant: an
\* unload is spent, a process is never created.
LEMMA InvEnvironment ==
  ASSUME TypeOK, FaultInv, Environment
  PROVE  FaultInv'
<1> USE DEF FaultInv, Fence, OneUnload, NoUnloadOutlivesClaim, AccountInv, WorkerInv, UnloadInv,
     Open, OpenStatus, Steps, LockedSteps, TypeOK, durable, outside, worker, detector, history
<1>1. CASE Request
  BY <1>1 DEF Request
<1>2. CASE LauncherEnds
  BY <1>2 DEF LauncherEnds
<1>3. CASE SwapReady
  BY <1>3 DEF SwapReady, SwapMoves
<1>4. CASE SwapGivesUp
  BY <1>4 DEF SwapGivesUp, SwapMoves
<1>5. CASE SwapNotices
  BY <1>5 DEF SwapNotices, SwapMoves
<1>6. CASE UnitServes
  BY <1>6 DEF UnitServes, UnitMoves, Phases, Absent
<1>7. CASE UnitSick
  BY <1>7 DEF UnitSick, UnitMoves, Absent
<1>8. CASE UnitFails
  BY <1>8 DEF UnitFails, UnitMoves, Absent
<1>9. CASE UnitExits
  BY <1>9 DEF UnitExits, UnitMoves, Phases, Absent, NoUnit
<1>10. CASE \E l \in LeaseIds : UnloadExecutes(l)
  BY <1>10 DEF UnloadExecutes
<1>11. CASE \E l \in LeaseIds : UnloadRejected(l)
  BY <1>11 DEF UnloadRejected
<1> QED
  BY <1>1, <1>2, <1>3, <1>4, <1>5, <1>6, <1>7, <1>8, <1>9, <1>10, <1>11 DEF Environment

\* The lease protocol preserves the invariant: the claim refuses every other
\* release.
LEMMA InvAccounts ==
  ASSUME TypeOK, FaultInv, Accounts
  PROVE  FaultInv'
<1> USE DEF FaultInv, Fence, OneUnload, NoUnloadOutlivesClaim, AccountInv, WorkerInv, UnloadInv,
     Open, OpenStatus, Steps, LockedSteps, TypeOK, durable, outside, worker, detector, history
<1>1. CASE \E l \in LeaseIds : Place(l)
  BY UnitFacts, <1>1 DEF Place, Unfenced, Absent
<1>2. CASE \E l \in LeaseIds : Confirm(l)
  BY <1>2 DEF Confirm
<1>3. CASE \E l \in LeaseIds : FinishRelease(l)
  BY <1>3 DEF FinishRelease, ToReleased
<1>4. CASE \E l \in LeaseIds : ReconcileProbe(l)
  BY <1>4 DEF ReconcileProbe
<1>5. CASE ReconcileRelease
  BY <1>5 DEF ReconcileRelease, ToReleased
<1> QED
  BY <1>1, <1>2, <1>3, <1>4, <1>5 DEF Accounts

\* The sampler preserves the invariant: it makes no step while the worker is
\* locked.
LEMMA InvSampler ==
  ASSUME TypeOK, FaultInv, Sampler
  PROVE  FaultInv'
<1> USE DEF FaultInv, Fence, OneUnload, NoUnloadOutlivesClaim, AccountInv, WorkerInv, UnloadInv,
     Open, OpenStatus, Steps, LockedSteps, TypeOK, durable, outside, worker, detector, history
<1>1. CASE RoundBegin
  BY <1>1 DEF RoundBegin
<1>2. CASE RoundPublish
  BY <1>2 DEF RoundPublish
<1>3. CASE RoundFails
  BY <1>3 DEF RoundFails
<1> QED
  BY <1>1, <1>2, <1>3 DEF Sampler

\* The ordinary stops preserve the invariant.
LEMMA InvStops ==
  ASSUME TypeOK, FaultInv, OrdinaryStops
  PROVE  FaultInv'
<1> USE DEF FaultInv, Fence, OneUnload, NoUnloadOutlivesClaim, AccountInv, WorkerInv, UnloadInv,
     Open, OpenStatus, Steps, LockedSteps, TypeOK, durable, outside, worker, detector, history
<1>1. CASE OrdinaryStopEnds
  BY <1>1 DEF OrdinaryStopEnds
<1>2. CASE \E l \in LeaseIds : OrdinaryStop(l)
  BY UnitFacts, <1>2, SMTT(30) DEF OrdinaryStop, Note, Locked
<1> QED
  BY <1>1, <1>2 DEF OrdinaryStops

\* Every step of the worker, and a crash before or after it, preserves the
\* invariant.
LEMMA InvWorker ==
  ASSUME TypeOK, FaultInv, Worker \/ Crash
  PROVE  FaultInv'
<1> USE DEF FaultInv, Fence, OneUnload, NoUnloadOutlivesClaim, AccountInv, WorkerInv, UnloadInv,
     Open, OpenStatus, Steps, LockedSteps, TypeOK, durable, outside, worker, detector, history
<1>1. CASE \E l \in LeaseIds : ObserveBegin(l)
  BY LookFacts, <1>1 DEF ObserveBegin
<1>2. CASE TakeRound
  BY LookFacts, <1>2 DEF TakeRound, Waits
<1>3. CASE Observe
  BY LookFacts, <1>3 DEF Observe, ObserveNothing, ObserveExit, ObserveHealthy, ObserveUnhealthy
<1>4. CASE BeginProbe
  BY LookFacts, <1>4 DEF BeginProbe
<1>5. CASE BeginClaim
  <2>1. evidence \in LeaseIds /\ claim = None /\ row[evidence] = "confirmed"
    BY <1>5 DEF BeginClaim
  <2>2. /\ claim' \in Claim /\ claim'.lease = evidence /\ claim'.stage = "claimed"
        /\ claim'.submitted = FALSE /\ claim'.acknowledged = FALSE
    BY <1>5, <2>1 DEF BeginClaim, Claim
  <2>3. claim' # None
    BY <2>2, ClaimFacts
  <2>4. /\ pc' \in {"clean", "stopping"} /\ look' = NoLook
        /\ UNCHANGED <<row, unit, sent, unloads, reconciling>>
    BY <1>5 DEF BeginClaim
  <2>5. unloads = {} /\ sent[evidence] = 0
    BY <2>1
  <2>11. Fence'
    BY <2>1, <2>2, <2>3, <2>4, <2>5
  <2>12. OneUnload' /\ NoUnloadOutlivesClaim'
    BY <2>1, <2>2, <2>3, <2>4, <2>5
  <2>13. AccountInv'
    BY <2>1, <2>2, <2>3, <2>4, <2>5
  <2>14. WorkerInv'
    BY <2>1, <2>2, <2>3, <2>4, <2>5, LookFacts
  <2>15. UnloadInv'
    BY <2>1, <2>2, <2>3, <2>4, <2>5
  <2> QED
    BY <2>11, <2>12, <2>13, <2>14, <2>15
<1>6. CASE BeginStop
  BY UnitFacts, <1>6 DEF BeginStop
<1>7. CASE CleanupBegin
  BY LookFacts, <1>7 DEF CleanupBegin, Resumes
<1>8. CASE WaitRound
  BY <1>8 DEF WaitRound
<1>9. CASE WaitApply
  <2>1. UNCHANGED <<row, unit, sent, unloads, reconciling, claim>> /\ claim # None
    BY <1>9 DEF WaitApply
  <2>2. CASE TakenIsPublished /\ ShowsAbsence /\ look.absent
    <3>1. pc' \in {"completing", "releasing"} /\ look' = look
      BY <1>9, <2>2 DEF WaitApply
    <3>2. Absent(unit)
      BY <2>2
    <3> QED
      BY <2>1, <3>1, <3>2
  <2>3. CASE ~(TakenIsPublished /\ ShowsAbsence /\ look.absent)
    <3>1. pc' = "clean" /\ look' = [look EXCEPT !.absent = TakenIsPublished /\ ShowsAbsence]
      BY <1>9, <2>3 DEF WaitApply
    <3>2. CASE TakenIsPublished /\ ShowsAbsence
      <4>1. look' = [look EXCEPT !.absent = TRUE]
        BY <3>1, <3>2
      <4>2. look'.absent = TRUE
        BY <4>1, LookFacts
      <4>3. Absent(unit)
        BY <1>9, <3>2 DEF WaitApply, ShowsAbsence
      <4> QED
        BY <2>1, <3>1, <4>2, <4>3
    <3>3. CASE ~(TakenIsPublished /\ ShowsAbsence)
      <4>1. look' = [look EXCEPT !.absent = FALSE]
        BY <3>1, <3>3
      <4>2. look'.absent = FALSE
        BY <4>1, LookFacts
      <4> QED
        BY <2>1, <3>1, <4>2
    <3> QED
      BY <3>2, <3>3
  <2> QED
    BY <2>2, <2>3
<1>10. CASE ReleaseAccount
  <2>1. /\ claim # None /\ claim \in Claim /\ claim.lease \in LeaseIds
        /\ \A l \in LeaseIds : Open(l) => l = claim.lease
    BY <1>10, ClaimFacts DEF ReleaseAccount, ClaimCurrent
  <2>2. /\ claim' \in Claim /\ claim'.lease = claim.lease /\ claim'.stage = "released"
        /\ claim'.submitted = claim.submitted /\ claim'.acknowledged = claim.acknowledged
    BY <1>10, <2>1, ClaimFacts DEF ReleaseAccount
  <2>3. claim' # None
    BY <2>2, ClaimFacts
  <2>4. /\ row' = [row EXCEPT ![claim.lease] = "released"] /\ pc' = "marking"
        /\ UNCHANGED <<look, unit, sent, unloads, reconciling>> /\ Absent(unit)
    BY <1>10 DEF ReleaseAccount
  <2>5. row'[claim.lease] = "released" /\ \A l \in LeaseIds : ~Open(l)'
    BY <2>1, <2>4
  <2>11. Fence'
    BY <2>1, <2>2, <2>3, <2>4, <2>5
  <2>12. OneUnload' /\ NoUnloadOutlivesClaim'
    BY <2>1, <2>2, <2>3, <2>4, <2>5
  <2>13. AccountInv'
    BY <2>1, <2>2, <2>3, <2>4, <2>5
  <2>14. WorkerInv'
    BY <2>1, <2>2, <2>3, <2>4, <2>5
  <2>15. UnloadInv'
    BY <2>1, <2>2, <2>3, <2>4, <2>5
  <2> QED
    BY <2>11, <2>12, <2>13, <2>14, <2>15
<1>11. CASE MarkSubmission
  <2>1. /\ claim # None /\ claim \in Claim /\ claim.lease \in LeaseIds
        /\ claim.stage = "released" /\ Absent(unit)
        /\ UNCHANGED <<row, unit, sent, unloads, reconciling>>
    BY <1>11, ClaimFacts DEF MarkSubmission, ClaimCurrent
  <2>2. CASE claim.submitted
    <3>a. pc' = "clean" /\ look' = [NoLook EXCEPT !.proxy = TRUE] /\ claim' = claim
      BY <1>11, <2>2 DEF MarkSubmission, ProxyWait
    <3>1. pc' = "clean" /\ ~look'.absent /\ claim' = claim
      BY <3>a, LookFacts
    <3>2. Fence' /\ OneUnload' /\ NoUnloadOutlivesClaim' /\ AccountInv'
      BY <2>1, <3>1
    <3>3. WorkerInv'
      BY <2>1, <3>1
    <3>4. UnloadInv'
      BY <2>1, <3>1
    <3> QED
      BY <3>2, <3>3, <3>4
  <2>3. CASE ~claim.submitted
    <3>1. claim' = Submitted(claim) /\ pc' = "sending" /\ look' = look
      BY <1>11, <2>3 DEF MarkSubmission
    <3>2. /\ claim' \in Claim /\ claim'.lease = claim.lease /\ claim'.stage = "released"
          /\ claim'.submitted /\ claim'.acknowledged = claim.acknowledged
      BY <2>1, <3>1, ClaimFacts
    <3>3. /\ claim' # None /\ unloads = {} /\ sent[claim.lease] = 0
          /\ ~claim.acknowledged
      BY <2>1, <2>3, <3>2, ClaimFacts
    <3>4. Fence' /\ OneUnload' /\ NoUnloadOutlivesClaim' /\ AccountInv'
      BY <2>1, <3>1, <3>2, <3>3
    <3>5. WorkerInv'
      BY <2>1, <3>1, <3>2, <3>3
    <3>6. UnloadInv'
      BY <2>1, <3>1, <3>2, <3>3
    <3> QED
      BY <3>4, <3>5, <3>6
  <2> QED
    BY <2>2, <2>3
<1>12. CASE SendUnload
  BY ClaimFacts, <1>12 DEF SendUnload
<1>13. CASE Acknowledge
  <2>1. /\ claim # None /\ claim \in Claim /\ claim.lease \in LeaseIds
        /\ claim.stage = "released" /\ claim.submitted /\ unloads = {}
        /\ UNCHANGED <<row, unit, sent, unloads, reconciling>>
    BY <1>13, ClaimFacts DEF Acknowledge, ClaimCurrent, Answered
  <2>2. /\ claim' \in Claim /\ claim'.lease = claim.lease /\ claim'.stage = "released"
        /\ claim'.submitted /\ claim'.acknowledged
    BY <1>13, <2>1, ClaimFacts DEF Acknowledge
  <2>3. claim' # None
    BY <2>2, ClaimFacts
  <2>4. pc' = "clean" /\ ~look'.absent
    BY <1>13, LookFacts DEF Acknowledge, ProxyWait
  <2>11. Fence'
    BY <2>1, <2>2, <2>3, <2>4
  <2>12. OneUnload' /\ NoUnloadOutlivesClaim'
    BY <2>1, <2>2, <2>3, <2>4
  <2>13. AccountInv'
    BY <2>1, <2>2, <2>3, <2>4
  <2>14. WorkerInv'
    BY <2>1, <2>2, <2>3, <2>4
  <2>15. UnloadInv'
    BY <2>1, <2>2, <2>3, <2>4
  <2> QED
    BY <2>11, <2>12, <2>13, <2>14, <2>15
<1>14. CASE Complete
  BY LookFacts, <1>14 DEF Complete, Drop
<1>15. CASE CycleRefused
  BY LookFacts, <1>15 DEF CycleRefused, Drop
<1>16. CASE WorkerFails
  BY LookFacts, <1>16 DEF WorkerFails, Drop
<1>17. CASE Crash
  BY LookFacts, <1>17 DEF Crash, Drop
<1> QED
  BY <1>1, <1>2, <1>3, <1>4, <1>5, <1>6, <1>7, <1>8, <1>9, <1>10, <1>11, <1>12, <1>13, <1>14,
       <1>15, <1>16, <1>17 DEF Worker, Cleanup

\* The invariant holds initially.
LEMMA FaultInvInit == Init => FaultInv
<1> SUFFICES ASSUME Init PROVE FaultInv
  OBVIOUS
<1> USE UnitFacts, LookFacts DEF Init, Open, OpenStatus
<1>1. Fence /\ OneUnload /\ NoUnloadOutlivesClaim
  BY DEF Fence, OneUnload, NoUnloadOutlivesClaim
<1>2. AccountInv /\ WorkerInv /\ UnloadInv
  BY DEF AccountInv, WorkerInv, UnloadInv
<1> QED
  BY <1>1, <1>2 DEF FaultInv

\* Types and the inductive invariant are preserved by every step.
LEMMA Step == TypeOK /\ FaultInv /\ [Next]_vars => (TypeOK /\ FaultInv)'
<1> SUFFICES ASSUME TypeOK, FaultInv, [Next]_vars PROVE TypeOK' /\ FaultInv'
  OBVIOUS
<1>1. CASE Environment
  BY <1>1, TypeEnvironment, InvEnvironment
<1>2. CASE Accounts
  BY <1>2, TypeAccounts, InvAccounts
<1>3. CASE Sampler
  BY <1>3, TypeSampler, InvSampler
<1>4. CASE OrdinaryStops
  BY <1>4, TypeStops, InvStops
<1>5. CASE Worker \/ Crash
  BY <1>5, TypeWorker, InvWorker
<1>6. CASE UNCHANGED vars
  <2> USE <1>6 DEF vars, durable, outside, worker, detector, history
  <2>1. TypeOK'
    BY DEF TypeOK
  <2>2. FaultInv'
    BY DEF FaultInv, Fence, OneUnload, NoUnloadOutlivesClaim, AccountInv, WorkerInv,
           UnloadInv, Open
  <2> QED
    BY <2>1, <2>2
<1> QED
  BY <1>1, <1>2, <1>3, <1>4, <1>5, <1>6 DEF Next

\* Types and the inductive invariant hold together: the worker's steps are well
\* typed only because it has a claim, or evidence, wherever its code reads one.
THEOREM Invariants == Spec => [](TypeOK /\ FaultInv)
BY TypeInit, FaultInvInit, Step, PTL DEF Spec

\* Every variable of fault recovery keeps its type.
THEOREM TypeCorrect == Spec => []TypeOK
BY Invariants, PTL

\* What the worker, reconcile and the requests under way rely on at each step,
\* across any number of crashes.
THEOREM Recovery == Spec => []FaultInv
BY Invariants, PTL

\* A claim fences its model: no second account, no other status, no process once
\* the account is released.
THEOREM FenceHolds == Spec => []Fence
<1>1. FaultInv => Fence
  BY DEF FaultInv
<1> QED
  BY <1>1, Recovery, PTL

\* llama-swap is asked at most once to unload the model of a claim.
THEOREM OneUnloadHolds == Spec => []OneUnload
<1>1. FaultInv => OneUnload
  BY DEF FaultInv
<1> QED
  BY <1>1, Recovery, PTL

\* An unload that may still be executed belongs to the claim that fences the model,
\* so it cannot hit an instance started later.
THEOREM NoLateUnload == Spec => []NoUnloadOutlivesClaim
<1>1. FaultInv => NoUnloadOutlivesClaim
  BY DEF FaultInv
<1> QED
  BY <1>1, Recovery, PTL

\* Who releases a confirmed account: the launcher, reconcile or the worker, each
\* with the process gone.
LEMMA ReleaseStep ==
  ASSUME TypeOK, FaultInv, [Next]_vars, NEW l \in LeaseIds,
         row[l] = "confirmed", row'[l] = "released"
  PROVE  Absent(unit)
<1>1. row' # row
  OBVIOUS
<1>2. CASE \E k \in LeaseIds : FinishRelease(k)
  BY <1>2 DEF FinishRelease
<1>3. CASE ReconcileRelease
  <2>1. reconciling \in LeaseIds /\ Open(reconciling) /\ row' = [row EXCEPT ![reconciling] = "released"]
    BY <1>3 DEF ReconcileRelease, ToReleased, TypeOK
  <2>2. QED
    BY <2>1, <1>3 DEF ReconcileRelease, FaultInv, AccountInv
<1>4. CASE ReleaseAccount
  BY <1>4 DEF ReleaseAccount, FaultInv, WorkerInv
<1>5. CASE \E k \in LeaseIds : Place(k) \/ Confirm(k)
  BY <1>5 DEF Place, Confirm, TypeOK
<1> USE <1>1 DEF durable, outside, worker, detector, history
<1>6. ASSUME Environment \/ Sampler \/ OrdinaryStops \/ Crash \/ UNCHANGED vars PROVE FALSE
  BY <1>6 DEF vars, Environment, Request, LauncherEnds, SwapReady, SwapGivesUp, SwapNotices,
       SwapMoves,
     UnitServes, UnitSick, UnitFails, UnitExits, UnitMoves, UnloadExecutes, UnloadRejected,
     Sampler, RoundBegin, RoundPublish, RoundFails, OrdinaryStops, OrdinaryStop, OrdinaryStopEnds, Crash
<1>7. ASSUME \E k \in LeaseIds : ReconcileProbe(k) PROVE FALSE
  BY <1>7 DEF ReconcileProbe
<1>8. ASSUME Worker, ~ReleaseAccount PROVE FALSE
  BY <1>8 DEF Worker, ObserveBegin, TakeRound, Observe, BeginProbe, BeginClaim, BeginStop, Cleanup,
     CleanupBegin, WaitRound, WaitApply, MarkSubmission, SendUnload, Acknowledge, Complete,
     CycleRefused, WorkerFails
<1> QED
  BY <1>2, <1>3, <1>4, <1>5, <1>6, <1>7, <1>8 DEF Next, Accounts

\* The budget of a confirmed account comes back only in a state where its process is
\* gone, whoever releases it and however long ago it was probed.
THEOREM ReleaseHolds == Spec => ConfirmedReleasedWhenGone
<1>1. TypeOK /\ FaultInv /\ [Next]_vars =>
        [\A l \in LeaseIds : row[l] = "confirmed" /\ row'[l] = "released" => Absent(unit)]_vars
  BY ReleaseStep
<1> QED
  BY <1>1, Invariants, PTL DEF Spec, ConfirmedReleasedWhenGone

-----------------------------------------------------------------------------
(* Fault recovery implements its contract: every step, with its rounds, its  *)
(* probes and its crashes, is one of the contract or changes nothing of it.  *)

ContractFence == IF claim = None THEN None ELSE [lease |-> claim.lease, stage |-> Stage(claim)]
ContractAsked == {l \in LeaseIds : sent[l] > 0}
ContractView == <<unit.lease, ContractFence, unloads, ContractAsked>>

LEMMA ContractInit == Init => Contract!Init
BY UnitFacts DEF Init, Contract!Init

\* What the contract sees depends on the unit's account, the claim and the requests.
LEMMA Unseen ==
  ASSUME UNCHANGED <<unit.lease, claim, unloads, sent>>
  PROVE  UNCHANGED ContractView
BY DEF ContractView, ContractFence, ContractAsked, Stage

\* A fence is no account, and its fields are those of the claim.
LEMMA FenceFacts ==
  ASSUME TypeOK, claim # None
  PROVE  /\ ContractFence # None
         /\ ContractFence.lease = claim.lease /\ ContractFence.stage = Stage(claim)
         /\ claim \in Claim /\ claim.lease \in LeaseIds
<1>1. ContractFence = [lease |-> claim.lease, stage |-> Stage(claim)]
  BY DEF ContractFence
<1>2. claim \in Claim /\ claim.lease \in LeaseIds
  BY ClaimFacts DEF TypeOK
<1>3. ContractFence \in Fences
  BY <1>1, <1>2 DEF Fences, Stage
<1>4. None \notin Fences
  BY FaultAssumption
<1> QED
  BY <1>1, <1>2, <1>3, <1>4

\* The outside: an exit, a spent request, or nothing the contract sees.
LEMMA ContractEnvironment ==
  ASSUME TypeOK, FaultInv, Environment
  PROVE  Contract!Next \/ UNCHANGED ContractView
<1> USE DEF durable, outside, worker, detector, history
<1>1. CASE Request \/ LauncherEnds \/ SwapReady \/ SwapGivesUp \/ SwapNotices
  BY <1>1, Unseen DEF Request, LauncherEnds, SwapReady, SwapGivesUp, SwapNotices, SwapMoves
<1>2. CASE UnitServes \/ UnitSick \/ UnitFails
  <2>1. unit'.lease = unit.lease
    BY <1>2, UnitFacts DEF UnitServes, UnitSick, UnitFails, UnitMoves, Phases, Absent, TypeOK
  <2> QED
    BY <1>2, <2>1, Unseen DEF UnitServes, UnitSick, UnitFails, UnitMoves
<1>3. CASE UnitExits
  <2>1. unit' = NoUnit /\ UNCHANGED <<claim, unloads, sent>>
    BY <1>3 DEF UnitExits, UnitMoves
  <2>2. Contract!Exit
    BY <2>1, UnitFacts DEF Contract!Exit, Stage
  <2> QED
    BY <2>2 DEF Contract!Next
<1>4. CASE \E l \in LeaseIds : UnloadExecutes(l) \/ UnloadRejected(l)
  <2>1. UNCHANGED <<claim, unit, sent>> /\ \E l \in unloads : unloads' = unloads \ {l}
    BY <1>4 DEF UnloadExecutes, UnloadRejected
  <2>2. unloads' = {}
    BY <2>1 DEF FaultInv, NoUnloadOutlivesClaim
  <2>3. Contract!Spend
    BY <2>1, <2>2 DEF Contract!Spend, Stage
  <2> QED
    BY <2>3 DEF Contract!Next
<1> QED
  BY <1>1, <1>2, <1>3, <1>4 DEF Environment

\* The lease protocol: only a placement is seen, and only an unfenced one happens.
LEMMA ContractAccounts ==
  ASSUME TypeOK, FaultInv, Accounts
  PROVE  Contract!Next \/ UNCHANGED ContractView
<1> USE DEF durable, outside, worker, detector, history
<1>1. ASSUME NEW l \in LeaseIds, Place(l)
      PROVE  Contract!Start(l)
  <2>1. unit' = [phase |-> "loading", lease |-> l] /\ UNCHANGED <<claim, unloads, sent>>
    BY <1>1 DEF Place
  <2>2. unit'.lease = l
    BY <2>1
  <2>3. claim = None /\ unloads = {} /\ unit.lease = None
    BY <1>1, UnitFacts DEF Place, Unfenced, FaultInv, NoUnloadOutlivesClaim, TypeOK
  <2>4. ~ (sent[l] > 0)
    BY <1>1 DEF Place, FaultInv, UnloadInv
  <2> QED
    BY <2>1, <2>2, <2>3, <2>4 DEF Contract!Start, Stage
<1>2. CASE ReconcileRelease \/ \E l \in LeaseIds : Confirm(l) \/ FinishRelease(l) \/ ReconcileProbe(l)
  BY <1>2, Unseen DEF ReconcileRelease, Confirm, FinishRelease, ReconcileProbe
<1> QED
  BY <1>1, <1>2 DEF Accounts, Contract!Next

\* The worker: a claim, a freed account, a submission, the request, its answer
\* and the end of the claim are steps of the contract, all others are not seen.
LEMMA ContractWorker ==
  ASSUME TypeOK, FaultInv, Worker
  PROVE  Contract!Next \/ UNCHANGED ContractView
<1> USE DEF durable, outside, worker, detector, history
<1>1. CASE BeginClaim
  <2>1. /\ evidence \in LeaseIds /\ claim = None /\ row[evidence] = "confirmed"
        /\ UNCHANGED <<unit, sent, unloads>>
    BY <1>1 DEF BeginClaim, FaultInv, WorkerInv, TypeOK
  <2>2. /\ claim' \in Claim /\ claim'.lease = evidence /\ claim'.stage = "claimed"
        /\ claim'.submitted = FALSE /\ claim'.acknowledged = FALSE
    BY <1>1, <2>1 DEF BeginClaim, Claim
  <2>3. claim' # None /\ Stage(claim') = "claimed"
    BY <2>2, ClaimFacts DEF Stage
  <2>4. unit.lease \in {evidence, None} /\ ~ (sent[evidence] > 0)
    BY <2>1 DEF FaultInv, AccountInv, UnloadInv, Open, OpenStatus
  <2>5. Contract!Claim(evidence)
    BY <2>1, <2>2, <2>3, <2>4 DEF Contract!Claim
  <2> QED
    BY <2>1, <2>5 DEF Contract!Next
<1>2. CASE ReleaseAccount
  <2>1. /\ claim # None /\ unit.lease = None /\ UNCHANGED <<unit, sent, unloads>>
        /\ claim' = [claim EXCEPT !.stage = "released"]
    BY <1>2, UnitFacts DEF ReleaseAccount, ClaimCurrent, FaultInv, WorkerInv, TypeOK
  <2>2. claim \in Claim
    BY <2>1 DEF TypeOK
  <2>3. /\ claim' \in Claim /\ claim'.lease = claim.lease /\ claim'.stage = "released"
        /\ claim'.submitted = claim.submitted /\ claim'.acknowledged = claim.acknowledged
    BY <2>1, <2>2, ClaimFacts
  <2>4. claim' # None
    BY <2>3, ClaimFacts
  <2>5. CASE claim.stage = "claimed"
    <3>1. ~ claim.submitted /\ ~ claim.acknowledged
      BY <2>1, <2>5 DEF FaultInv, UnloadInv
    <3>2. Stage(claim) = "claimed" /\ Stage(claim') = "freed"
      BY <2>3, <2>5, <3>1 DEF Stage
    <3>3. Contract!Free
      BY <2>1, <2>3, <2>4, <3>2, FenceFacts DEF Contract!Free, Contract!Advance, ContractFence
    <3> QED
      BY <3>3 DEF Contract!Next
  <2>6. CASE claim.stage = "released"
    <3>1. Stage(claim') = Stage(claim)
      BY <2>3, <2>6 DEF Stage
    <3> QED
      BY <2>1, <2>3, <2>4, <3>1 DEF ContractView, ContractFence, ContractAsked
  <2> QED
    BY <2>2, <2>5, <2>6, ClaimFacts
<1>3. CASE MarkSubmission
  <2>1. /\ claim # None /\ unit.lease = None /\ UNCHANGED <<unit, sent, unloads>>
        /\ claim.stage = "released"
    BY <1>3, UnitFacts DEF MarkSubmission, ClaimCurrent, FaultInv, WorkerInv, TypeOK
  <2>2. CASE claim.submitted
    BY <1>3, <2>1, <2>2, Unseen DEF MarkSubmission
  <2>3. CASE ~ claim.submitted
    <3>1. claim \in Claim /\ claim' = Submitted(claim)
      BY <1>3, <2>1, <2>3 DEF MarkSubmission, TypeOK
    <3>2. /\ claim' \in Claim /\ claim'.lease = claim.lease /\ claim'.stage = "released"
          /\ claim'.submitted /\ claim'.acknowledged = claim.acknowledged
      BY <2>1, <3>1, ClaimFacts
    <3>3. claim' # None /\ ~ claim.acknowledged
      BY <2>1, <2>3, <3>2, ClaimFacts DEF FaultInv, UnloadInv
    <3>4. Stage(claim) = "freed" /\ Stage(claim') = "submitted"
      BY <2>1, <2>3, <3>2, <3>3 DEF Stage
    <3>5. Contract!Submit
      BY <2>1, <3>2, <3>3, <3>4, FenceFacts DEF Contract!Submit, Contract!Advance, ContractFence
    <3> QED
      BY <3>5 DEF Contract!Next
  <2> QED
    BY <2>2, <2>3
<1>4. CASE SendUnload
  <2>1. /\ claim # None /\ claim.submitted /\ ~ claim.acknowledged /\ sent[claim.lease] = 0
        /\ unloads = {} /\ UNCHANGED <<unit, claim>>
        /\ unloads' = unloads \cup {claim.lease} /\ sent' = [sent EXCEPT ![claim.lease] = @ + 1]
    BY <1>4 DEF SendUnload, FaultInv, WorkerInv, UnloadInv, Steps, LockedSteps
  <2>2. claim.lease \in LeaseIds /\ Stage(claim) = "submitted"
    BY <2>1, FenceFacts DEF Stage
  <2>3. {l \in LeaseIds : sent'[l] > 0} = {l \in LeaseIds : sent[l] > 0} \cup {claim.lease}
    BY <2>1, <2>2 DEF TypeOK
  <2>4. PICK l \in LeaseIds : l = claim.lease
    BY <2>2
  <2>5. Contract!Ask(l)
    BY <2>1, <2>2, <2>3, <2>4 DEF Contract!Ask
  <2> QED
    BY <2>5 DEF Contract!Next
<1>5. CASE Acknowledge
  <2>1. /\ claim # None /\ claim.submitted /\ ~ claim.acknowledged /\ unloads = {}
        /\ sent[claim.lease] > 0 /\ unit.lease = None /\ UNCHANGED <<unit, sent, unloads>>
        /\ claim' = [claim EXCEPT !.acknowledged = TRUE]
    BY <1>5, UnitFacts
       DEF Acknowledge, Answered, ClaimCurrent, FaultInv, UnloadInv, TypeOK
  <2>2. claim \in Claim /\ claim.lease \in LeaseIds
    BY <2>1, FenceFacts
  <2>3. claim' \in Claim /\ claim'.lease = claim.lease /\ claim'.acknowledged
    BY <2>1, <2>2, ClaimFacts
  <2>4. claim' # None /\ Stage(claim) = "submitted" /\ Stage(claim') = "answered"
    BY <2>1, <2>3, ClaimFacts DEF Stage
  <2>5. Contract!Answer
    BY <2>1, <2>2, <2>3, <2>4, FenceFacts DEF Contract!Answer, Contract!Advance, ContractFence
  <2> QED
    BY <2>5 DEF Contract!Next
<1>6. CASE Complete
  <2>1. /\ claim # None /\ claim.acknowledged /\ claim' = None /\ unit.lease = None
        /\ UNCHANGED <<unit, sent, unloads>>
    BY <1>6, UnitFacts DEF Complete, ClaimCurrent, TypeOK
  <2>2. Contract!Finish
    <3>1. Stage(claim) = "answered"
      BY <2>1 DEF Stage
    <3> QED
      BY <2>1, <3>1, FenceFacts DEF Contract!Finish, ContractFence
  <2> QED
    BY <2>2 DEF Contract!Next
<1>7. CASE BeginStop
  <2>1. unit'.lease = unit.lease
    BY <1>7, UnitFacts DEF BeginStop, TypeOK
  <2> QED
    BY <1>7, <2>1, Unseen DEF BeginStop
<1>8. CASE \/ \E l \in LeaseIds : ObserveBegin(l)
           \/ TakeRound \/ Observe \/ BeginProbe \/ CleanupBegin \/ WaitRound \/ WaitApply
           \/ CycleRefused \/ WorkerFails
  BY <1>8, Unseen DEF ObserveBegin, TakeRound, Observe, BeginProbe, CleanupBegin, WaitRound,
     WaitApply, CycleRefused, WorkerFails
<1> QED
  BY <1>1, <1>2, <1>3, <1>4, <1>5, <1>6, <1>7, <1>8 DEF Worker, Cleanup

LEMMA ContractMoves ==
  ASSUME TypeOK, FaultInv, [Next]_vars
  PROVE  Contract!Next \/ UNCHANGED ContractView
<1> USE DEF durable, outside, worker, detector, history
<1>1. CASE Sampler
  BY <1>1, Unseen DEF Sampler, RoundBegin, RoundPublish, RoundFails
<1>2. CASE OrdinaryStops
  <2>1. unit'.lease = unit.lease
    BY <1>2, UnitFacts DEF OrdinaryStops, OrdinaryStopEnds, OrdinaryStop, TypeOK
  <2> QED
    BY <1>2, <2>1, Unseen DEF OrdinaryStops, OrdinaryStopEnds, OrdinaryStop
<1>3. CASE Crash
  BY <1>3, Unseen DEF Crash
<1>4. CASE UNCHANGED vars
  BY <1>4, Unseen DEF vars
<1> QED
  BY <1>1, <1>2, <1>3, <1>4, ContractEnvironment, ContractAccounts, ContractWorker DEF Next

LEMMA ContractStep ==
  ASSUME TypeOK, FaultInv, [Next]_vars
  PROVE  [Contract!Next]_(Contract!vars)
BY ContractMoves DEF ContractView, ContractFence, ContractAsked, Contract!vars

\* Fault recovery, with its rounds, probes, evidence, worker and crashes, implements
\* the contract: a claim fences, the budget is freed when the process is gone, one
\* request is sent, and the fence falls when it was answered.
THEOREM ContractHolds == Spec => ContractSpec
<1>1. TypeOK /\ FaultInv /\ [Next]_vars => [Contract!Next]_(Contract!vars)
  BY ContractStep
<1> QED
  BY <1>1, ContractInit, Invariants, PTL DEF Spec, ContractSpec, Contract!Spec

-----------------------------------------------------------------------------
(* The event relay *)


Frames == [state : {"ready", "stopped", "none"}, n : Unknown .. MaxRequests]
Queues == Seq(Events)
Counts == Fresh .. MaxRequests
States == {"none", "ready", "stopped"}
Shapes == [queue : Queues, dropped : Nat, owed : Int, state : States, count : Counts]
Buffers == {b \in Shapes : Len(b.queue) <= Capacity}
Batches == {p \in [on : BOOLEAN, events : Queues, dropped : Nat] : Len(p.events) <= Capacity}
BridgeSteps == {"run", "stopping", "batch", "first", "rest", "second", "discard", "closed"}

\* What the buffer owes beyond what it holds and what it has counted.
Beyond(b) == b.owed - Len(b.queue) - b.dropped

\* The variables keep their shape.
Typed ==
    /\ up \in [state : {"ready", "stopped"}, requests : 0 .. MaxRequests]
    /\ stream \in [open : BOOLEAN, frames : Seq(Frames)]
    /\ reader \in [pc : {"off", "top", "connecting", "reading", "stopped"}, stop : BOOLEAN,
                   have : BOOLEAN]
    /\ sched \in [locked : BOOLEAN, epoch : {"old", "new"}]
    /\ faults \in [changes : 0 .. MaxChanges, breaks : 0 .. MaxBreaks]
ViewShape == view = [state |-> view.state, count |-> view.count, lossy |-> view.lossy]

\* A batch that is not pending is empty, and the tail is taken only when no
\* batch is pending.
BridgeShape ==
    /\ bridge \in [pc : BridgeSteps, pending : Batches]
    /\ ~ bridge.pending.on => bridge.pending = NoBatch
    /\ bridge.pc \in {"batch", "rest", "closed"} => ~ bridge.pending.on

RelayInv == Typed /\ ViewShape /\ BridgeShape /\ buffer \in Buffers /\ EveryEventCounted

-----------------------------------------------------------------------------
(* The operators of the buffer. *)

Keeps(b, c) == c \in Buffers /\ Beyond(c) = Beyond(b)

\* The record keeps its shape.
LEMMA Shaped ==
    ASSUME NEW b \in Shapes
    PROVE  /\ \A q \in Queues, o \in Int : [b EXCEPT !.queue = q, !.owed = o] \in Shapes
           /\ \A d \in Nat, o \in Int : [b EXCEPT !.dropped = d, !.owed = o] \in Shapes
           /\ \A q \in Queues, d \in Nat : [b EXCEPT !.queue = q, !.dropped = d] \in Shapes
           /\ \A q \in Queues, d \in Nat, o \in Int :
                [b EXCEPT !.queue = q, !.dropped = d, !.owed = o] \in Shapes
           /\ \A o \in Int : [b EXCEPT !.owed = o] \in Shapes
           /\ \A s \in States : [b EXCEPT !.state = s] \in Shapes
           /\ \A n \in Counts : [b EXCEPT !.count = n] \in Shapes
<1> DEFINE N == Nat
           I == Int
<1>1. Shapes = [queue : Queues, dropped : N, owed : I, state : States, count : Counts] BY DEF Shapes
<1> HIDE DEF N, I
<1>2. \A q \in Queues, o \in I : [b EXCEPT !.queue = q, !.owed = o] \in Shapes BY <1>1
<1>3. \A d \in N, o \in I : [b EXCEPT !.dropped = d, !.owed = o] \in Shapes BY <1>1
<1>4. \A q \in Queues, d \in N : [b EXCEPT !.queue = q, !.dropped = d] \in Shapes BY <1>1
<1>5. \A q \in Queues, d \in N, o \in I : [b EXCEPT !.queue = q, !.dropped = d, !.owed = o] \in Shapes
  BY <1>1
<1>6. \A o \in I : [b EXCEPT !.owed = o] \in Shapes BY <1>1
<1>7. /\ \A s \in States : [b EXCEPT !.state = s] \in Shapes
      /\ \A n \in Counts : [b EXCEPT !.count = n] \in Shapes
  BY <1>1
<1> QED BY <1>2, <1>3, <1>4, <1>5, <1>6, <1>7 DEF N, I

\* Appending to a sequence.
LEMMA Appended ==
    ASSUME NEW S, NEW s \in Seq(S), NEW e \in S
    PROVE  /\ Append(s, e) \in Seq(S)
           /\ Len(Append(s, e)) = Len(s) + 1
           /\ Append(s, e)[Len(s) + 1] = e
           /\ \A i \in 1 .. Len(s) : Append(s, e)[i] = s[i]
    OBVIOUS

\* An event goes to the queue or to the drops.
LEMMA PutKeeps ==
    ASSUME NEW b \in Buffers, NEW e \in Events
    PROVE  /\ Keeps(b, Put(b, e))
           /\ Put(b, e).state = b.state /\ Put(b, e).count = b.count
           /\ Put(b, e).queue = IF Room(b) THEN Append(b.queue, e) ELSE b.queue
<1>0. /\ Len(b.queue) \in Nat /\ Len(b.queue) <= Capacity /\ Capacity \in Nat
      /\ b.queue \in Queues /\ b.dropped \in Nat /\ b.owed \in Int /\ b \in Shapes
  <2>1. b \in Shapes /\ b.queue \in Queues /\ b.dropped \in Nat /\ b.owed \in Int
    BY DEF Buffers, Shapes
  <2> QED BY <2>1, LenProperties, SizesAssumption DEF Buffers, Queues
<1>1. CASE Room(b)
  <2> DEFINE q == Append(b.queue, e)
             c == [b EXCEPT !.queue = Append(@, e), !.owed = @ + 1]
  <2>1. q \in Queues /\ Len(q) = Len(b.queue) + 1
    BY <1>0, AppendProperties DEF Queues
  <2>2. Put(b, e) = c BY <1>1 DEF Put
  <2>3. /\ c.queue = q /\ c.owed = b.owed + 1 /\ c.dropped = b.dropped
        /\ c.state = b.state /\ c.count = b.count
    BY <1>0 DEF Shapes
  <2>5. c \in Shapes
    <3> HIDE DEF q
    <3>1. c = [b EXCEPT !.queue = q, !.owed = b.owed + 1] BY <1>0 DEF Shapes, q
    <3>2. b.owed + 1 \in Int BY <1>0
    <3> QED BY <1>0, <2>1, <3>1, <3>2, Shaped
  <2> HIDE DEF q, c
  <2>6. Len(b.queue) < Capacity BY <1>1 DEF Room
  <2>7. c \in Buffers BY <1>0, <2>1, <2>3, <2>5, <2>6 DEF Buffers
  <2>8. Beyond(c) = Beyond(b) BY <1>0, <2>1, <2>3, SMTT(30) DEF Beyond
  <2> QED BY <1>1, <2>2, <2>3, <2>7, <2>8 DEF Keeps, q
<1>2. CASE ~ Room(b)
  <2> DEFINE c == [b EXCEPT !.dropped = @ + 1, !.owed = @ + 1]
  <2>2. Put(b, e) = c BY <1>2 DEF Put
  <2>3. /\ c.queue = b.queue /\ c.owed = b.owed + 1 /\ c.dropped = b.dropped + 1
        /\ c.state = b.state /\ c.count = b.count
    BY <1>0 DEF Shapes
  <2>5. c \in Shapes
    <3>1. b.owed + 1 \in Int /\ b.dropped + 1 \in Nat BY <1>0
    <3> QED BY <1>0, <3>1, Shaped
  <2> HIDE DEF c
  <2>7. c \in Buffers BY <1>0, <2>3, <2>5 DEF Buffers
  <2>8. Beyond(c) = Beyond(b) BY <1>0, <2>3, SMTT(30) DEF Beyond
  <2> QED BY <1>2, <2>2, <2>3, <2>7, <2>8 DEF Keeps
<1> QED BY <1>1, <1>2

\* What is still queued of a count, and a change of the remembered count that
\* comes with its event.
Queued(b, n) == \E i \in DOMAIN b.queue : b.queue[i].kind = "count" /\ b.queue[i].n = n
Grows(b, c) == \A n : Queued(b, n) => Queued(c, n)
Reports(b, c) ==
    /\ Keeps(b, c) /\ Grows(b, c)
    /\ c.count # b.count /\ c.count # Fresh => Queued(c, c.count)

LEMMA ReportsItself == ASSUME NEW b \in Buffers PROVE Reports(b, b)
    BY DEF Reports, Keeps, Grows

LEMMA ReportsTransitive ==
    ASSUME NEW a, NEW b, NEW c, Reports(a, b), Reports(b, c)
    PROVE  Reports(a, c)
    BY DEF Reports, Keeps, Grows

LEMMA EventsOK ==
    /\ \A s \in {"ready", "stopped"} : Event("state", s, Unknown) \in Events
    /\ \A n \in Unknown .. MaxRequests : Event("count", "none", n) \in Events
    /\ Event("connection", "none", Unknown) \in Events
    /\ Event("error", "none", Unknown) \in Events
    BY BoundsAssumption DEF Event, Events, Unknown

LEMMA PutGrows ==
    ASSUME NEW b \in Buffers, NEW e \in Events
    PROVE  Grows(b, Put(b, e))
<1>1. CASE ~ Room(b)
  BY <1>1, PutKeeps DEF Grows, Queued
<1>2. CASE Room(b)
  <2>1. Put(b, e).queue = Append(b.queue, e) BY <1>2, PutKeeps
  <2>2. b.queue \in Seq(Events) BY DEF Buffers, Shapes, Queues
  <2>3. /\ DOMAIN b.queue = 1 .. Len(b.queue) /\ Len(b.queue) \in Nat
        /\ DOMAIN Append(b.queue, e) = 1 .. Len(b.queue) + 1
    BY <2>2, LenProperties, AppendProperties
  <2>4. \A i \in DOMAIN b.queue : i \in DOMAIN Append(b.queue, e) /\ Append(b.queue, e)[i] = b.queue[i]
    BY <2>2, <2>3, AppendProperties
  <2> QED BY <2>1, <2>4 DEF Grows, Queued
<1> QED BY <1>1, <1>2

LEMMA PutReports ==
    ASSUME NEW b \in Buffers, NEW e \in Events
    PROVE  Reports(b, Put(b, e))
    BY PutKeeps, PutGrows DEF Reports

\* A remembered state says nothing of the rest.
LEMMA StateReports ==
    ASSUME NEW b \in Buffers, NEW s \in States
    PROVE  Reports(b, [b EXCEPT !.state = s])
<1> DEFINE c == [b EXCEPT !.state = s]
<1>0. b \in Shapes /\ b.queue \in Queues /\ b.dropped \in Nat /\ b.owed \in Int /\ b.count \in Counts
      /\ Len(b.queue) <= Capacity
  BY DEF Buffers, Shapes
<1>1. c \in Shapes BY <1>0, Shaped
<1>2. c.queue = b.queue /\ c.owed = b.owed /\ c.dropped = b.dropped /\ c.count = b.count
  BY <1>0 DEF Shapes
<1> HIDE DEF c
<1>3. c \in Buffers /\ Beyond(c) = Beyond(b) BY <1>1, <1>2 DEF Buffers, Beyond
<1>4. Reports(b, c) BY <1>2, <1>3 DEF Reports, Keeps, Grows, Queued
<1> QED BY <1>4 DEF c

LEMMA CountShape ==
    ASSUME NEW b \in Buffers, NEW n \in Counts
    PROVE  /\ Keeps(b, [b EXCEPT !.count = n]) /\ Grows(b, [b EXCEPT !.count = n])
           /\ [b EXCEPT !.count = n].count = n /\ [b EXCEPT !.count = n].queue = b.queue
<1> DEFINE c == [b EXCEPT !.count = n]
<1>0. b \in Shapes /\ b.queue \in Queues /\ b.dropped \in Nat /\ b.owed \in Int /\ b.state \in States
      /\ Len(b.queue) <= Capacity
  BY DEF Buffers, Shapes
<1>1. c \in Shapes BY <1>0, Shaped
<1>2. c.queue = b.queue /\ c.owed = b.owed /\ c.dropped = b.dropped /\ c.count = n
  BY <1>0 DEF Shapes
<1> HIDE DEF c
<1>3. c \in Buffers /\ Beyond(c) = Beyond(b) BY <1>1, <1>2 DEF Buffers, Beyond
<1>4. Keeps(b, c) /\ Grows(b, c) /\ c.count = n /\ c.queue = b.queue
  BY <1>2, <1>3 DEF Keeps, Grows, Queued
<1> QED BY <1>4 DEF c

LEMMA PutStateReports ==
    ASSUME NEW b \in Buffers, NEW s \in {"ready", "stopped"}
    PROVE  Reports(b, PutState(b, s))
<1>1. CASE b.state = s BY <1>1, ReportsItself DEF PutState
<1>2. CASE b.state # s
  <2> DEFINE c == Put(b, Event("state", s, Unknown))
             t == IF Room(b) THEN s ELSE c.state
  <2>1. Reports(b, c) BY PutReports, EventsOK
  <2>2. c \in Buffers BY <2>1 DEF Reports, Keeps
  <2>3. c.state \in States BY <2>2 DEF Buffers, Shapes
  <2>4. t \in States BY <2>3 DEF States
  <2>5. Reports(c, [c EXCEPT !.state = t]) BY <2>2, <2>4, StateReports
  <2>6. PutState(b, s) = [c EXCEPT !.state = t] BY <1>2, <2>2 DEF PutState
  <2> QED BY <2>1, <2>5, <2>6, ReportsTransitive
<1> QED BY <1>1, <1>2

\* A count is remembered only with its event in the queue.
LEMMA PutCountReports ==
    ASSUME NEW b \in Buffers, NEW n \in Unknown .. MaxRequests
    PROVE  Reports(b, PutCount(b, n))
<1>1. CASE b.count = n BY <1>1, ReportsItself DEF PutCount
<1>2. CASE b.count # n
  <2> DEFINE e == Event("count", "none", n)
             c == Put(b, e)
             m == IF Room(b) THEN n ELSE c.count
             d == [c EXCEPT !.count = m]
  <2>1. e \in Events BY EventsOK
  <2>2. Reports(b, c) /\ c \in Buffers /\ c.count = b.count BY <2>1, PutKeeps, PutReports DEF Keeps
  <2>3. m \in Counts BY <2>2, BoundsAssumption DEF Unknown, Fresh, Counts, Buffers, Shapes
  <2>4. PutCount(b, n) = d BY <1>2, <2>2 DEF PutCount
  <2>5. Keeps(c, d) /\ Grows(c, d) /\ d.count = m /\ d.queue = c.queue BY <2>2, <2>3, CountShape
  <2>6. ASSUME Room(b) PROVE Queued(d, n)
    <3>1. d.queue = Append(b.queue, e) BY <2>1, <2>5, <2>6, PutKeeps
    <3>2. b.queue \in Seq(Events) BY DEF Buffers, Shapes, Queues
    <3>3. Len(b.queue) \in Nat BY <3>2, LenProperties
    <3>4. Len(b.queue) + 1 \in DOMAIN Append(b.queue, e) /\ Append(b.queue, e)[Len(b.queue) + 1] = e
      BY <2>1, <3>2, <3>3, AppendProperties, LenProperties
    <3>5. e.kind = "count" /\ e.n = n BY DEF Event
    <3> QED BY <3>1, <3>4, <3>5 DEF Queued
  <2>7. d.count # b.count => Queued(d, d.count) BY <2>2, <2>5, <2>6
  <2> HIDE DEF d, c, e, m
  <2> QED BY <2>2, <2>4, <2>5, <2>7 DEF Reports, Keeps, Grows
<1> QED BY <1>1, <1>2

LEMMA PutConnectionReports ==
    ASSUME NEW b \in Buffers, NEW connected \in BOOLEAN
    PROVE  Reports(b, PutConnection(b, connected))
<1> DEFINE e == Event("connection", "none", Unknown)
           c == [[b EXCEPT !.state = "none"] EXCEPT !.count = Fresh]
           d == [b EXCEPT !.state = "none", !.count = Fresh]
<1>1. e \in Events BY EventsOK
<1>2. CASE ~ connected BY <1>1, <1>2, PutReports DEF PutConnection
<1>3. CASE connected
  <2>1. Reports(b, [b EXCEPT !.state = "none"]) BY StateReports DEF States
  <2>2. Fresh \in Counts BY BoundsAssumption DEF Fresh, Counts
  <2>3. [b EXCEPT !.state = "none"] \in Buffers BY <2>1 DEF Reports, Keeps
  <2>4. Reports([b EXCEPT !.state = "none"], c) BY <2>2, <2>3, CountShape DEF Reports
  <2>5. d = c BY DEF Buffers, Shapes
  <2>6. Reports(b, d) BY <2>1, <2>4, <2>5, ReportsTransitive
  <2>7. Reports(d, Put(d, e)) BY <1>1, <2>6, PutReports DEF Reports, Keeps
  <2>8. PutConnection(b, connected) = Put(d, e) BY <1>3 DEF PutConnection
  <2> QED BY <2>6, <2>7, <2>8, ReportsTransitive
<1> QED BY <1>2, <1>3

LEMMA PutErrorReports ==
    ASSUME NEW b \in Buffers, NEW invalid \in BOOLEAN
    PROVE  Reports(b, PutError(b, invalid))
<1> DEFINE e == Event("error", "none", Unknown)
           d == [b EXCEPT !.dropped = @ + 1, !.owed = @ + 1]
<1>1. e \in Events BY EventsOK
<1>2. CASE ~ invalid BY <1>1, <1>2, PutReports DEF PutError
<1>3. CASE invalid
  <2>1. b \in Shapes /\ b.dropped \in Nat /\ b.owed \in Int /\ b.queue \in Queues BY DEF Buffers, Shapes
  <2>2. Len(b.queue) \in Nat BY <2>1, LenProperties DEF Queues
  <2>3. d \in Shapes
    <3>1. b.owed + 1 \in Int /\ b.dropped + 1 \in Nat BY <2>1
    <3> QED BY <2>1, <3>1, Shaped
  <2>4. d.queue = b.queue /\ d.dropped = b.dropped + 1 /\ d.owed = b.owed + 1 /\ d.count = b.count
    BY <2>1 DEF Shapes
  <2>5. PutError(b, invalid) = Put(d, e) BY <1>3 DEF PutError
  <2> HIDE DEF d, e
  <2>6. Beyond(d) = Beyond(b) BY <2>1, <2>2, <2>4, SMTT(30) DEF Beyond
  <2>7. Reports(b, d) BY <2>3, <2>4, <2>6 DEF Reports, Keeps, Grows, Queued, Buffers
  <2>8. Reports(d, Put(d, e)) BY <1>1, <2>7, PutReports DEF Reports, Keeps
  <2> QED BY <2>5, <2>7, <2>8, ReportsTransitive
<1> QED BY <1>2, <1>3

\* The end of a connection.
LEMMA EndedReports ==
    ASSUME NEW b \in Buffers, NEW invalid \in BOOLEAN
    PROVE  Reports(b, Ended(b, invalid))
<1>0. Unknown \in Unknown .. MaxRequests BY BoundsAssumption DEF Unknown
<1>1. CASE reader.stop BY <1>0, <1>1, PutCountReports DEF Ended
<1>2. CASE ~ reader.stop
  <2> DEFINE c == PutError(b, invalid)
             d == PutCount(c, Unknown)
  <2>1. Reports(b, c) BY PutErrorReports
  <2>2. Reports(c, d) BY <1>0, <2>1, PutCountReports DEF Reports, Keeps
  <2>3. Reports(d, PutConnection(d, FALSE)) BY <2>2, PutConnectionReports DEF Reports, Keeps
  <2>4. Ended(b, invalid) = PutConnection(d, FALSE) BY <1>2 DEF Ended
  <2> QED BY <2>1, <2>2, <2>3, <2>4, ReportsTransitive
<1> QED BY <1>1, <1>2
-----------------------------------------------------------------------------
(* The steps of the reader, the proxy and its stream. *)

LEMMA BufferFacts ==
    ASSUME RelayInv
    PROVE  /\ buffer \in Shapes /\ buffer.queue \in Queues /\ Len(buffer.queue) \in 0 .. Capacity
           /\ buffer.dropped \in Nat /\ buffer.owed \in Int
           /\ Beyond(buffer) = BatchSize /\ BatchSize \in Nat
           /\ bridge.pending.events \in Queues /\ Len(bridge.pending.events) \in 0 .. Capacity
           /\ bridge.pending.dropped \in Nat /\ bridge.pending.on \in BOOLEAN /\ bridge.pc \in BridgeSteps
<1>1. /\ buffer \in Shapes /\ buffer.queue \in Queues /\ Len(buffer.queue) <= Capacity
      /\ buffer.dropped \in Nat /\ buffer.owed \in Int
  BY DEF RelayInv, Buffers, Shapes
<1>2. /\ bridge.pending.events \in Queues /\ Len(bridge.pending.events) <= Capacity
      /\ bridge.pending.dropped \in Nat /\ bridge.pending.on \in BOOLEAN /\ bridge.pc \in BridgeSteps
  BY DEF RelayInv, BridgeShape, Batches
<1>3. Len(buffer.queue) \in Nat /\ Len(bridge.pending.events) \in Nat
  BY <1>1, <1>2, LenProperties DEF Queues
<1>4. Capacity \in Nat BY SizesAssumption
<1>5. BatchSize \in Nat BY <1>2, <1>3 DEF BatchSize
<1>6. buffer.owed = Len(buffer.queue) + buffer.dropped + BatchSize BY DEF RelayInv, EveryEventCounted
<1>7. Beyond(buffer) = BatchSize BY <1>1, <1>3, <1>5, <1>6 DEF Beyond
<1> QED BY <1>1, <1>2, <1>3, <1>4, <1>5, <1>7

\* What the reader puts into the buffer is counted.
LEMMA SourceCounted ==
    ASSUME RelayInv, Reports(buffer, buffer'), UNCHANGED sink
    PROVE  /\ buffer' \in Buffers /\ EveryEventCounted' /\ RelayStep
           /\ ViewShape' /\ BridgeShape'
<1>1. buffer' \in Buffers /\ Beyond(buffer') = Beyond(buffer) BY DEF Reports, Keeps
<1>2. BatchSize' = BatchSize BY DEF sink, BatchSize
<1>3. buffer'.owed \in Int /\ buffer'.dropped \in Nat /\ buffer'.queue \in Queues
  BY <1>1 DEF Buffers, Shapes
<1>4. Len(buffer'.queue) \in Nat BY <1>3, LenProperties DEF Queues
<1>5. EveryEventCounted' BY <1>1, <1>2, <1>3, <1>4, BufferFacts, SMTT(30) DEF EveryEventCounted, Beyond
<1>6. DropsAreRetried BY DEF Reports, Queued, DropsAreRetried
<1>7. OldGenerationSilent BY DEF sink, OldGenerationSilent
<1>8. ViewShape' /\ BridgeShape' BY DEF RelayInv, ViewShape, BridgeShape, sink
<1> QED BY <1>1, <1>5, <1>6, <1>7, <1>8 DEF RelayStep

LEMMA SourceStays ==
    ASSUME RelayInv, UNCHANGED <<buffer, sink>>
    PROVE  Reports(buffer, buffer')
    BY ReportsItself DEF RelayInv

\* Every step of the reader.
LEMMA ReaderSteps ==
    ASSUME RelayInv, Reader
    PROVE  Reports(buffer, buffer') /\ UNCHANGED sink /\ Typed'
<1> USE DEF RelayInv
<1>1. CASE ReaderStarts
  <2>1. Unknown \in Unknown .. MaxRequests BY BoundsAssumption DEF Unknown
  <2>2. Reports(buffer, buffer') BY <1>1, <2>1, PutCountReports DEF ReaderStarts
  <2> QED BY <1>1, <2>2 DEF ReaderStarts, Typed, sink
<1>2. CASE Connecting
  BY <1>2, PutConnectionReports DEF Connecting, Typed, sink
<1>3. CASE Opens
  <2>1. stream'.frames \in Seq(Frames)
    BY <1>3, BoundsAssumption DEF Opens, Typed, Frames, Unknown
  <2>2. Reports(buffer, buffer') BY <1>3, PutConnectionReports DEF Opens
  <2> QED BY <1>3, <2>1, <2>2 DEF Opens, Typed, sink
<1>4. ASSUME NEW again \in BOOLEAN, Consumes(again) PROVE Reports(buffer, buffer') /\ UNCHANGED sink /\ Typed'
  <2> DEFINE frame == Head(stream.frames)
  <2>1. frame \in Frames /\ Tail(stream.frames) \in Seq(Frames)
    <3>1. stream.frames \in Seq(Frames) /\ stream.frames # <<>> BY <1>4 DEF Consumes, Typed
    <3> QED BY <3>1, HeadTailProperties
  <2>2. frame.state \in {"ready", "stopped", "none"} /\ frame.n \in Unknown .. MaxRequests
    BY <2>1 DEF Frames
  <2>3. Reports(buffer, buffer')
    <3>1. CASE frame.state # "none" /\ ~ again
      BY <1>4, <2>2, <3>1, PutStateReports DEF Consumes
    <3>2. CASE ~ (frame.state # "none" /\ ~ again)
      <4>1. buffer' = PutCount(IF again THEN PutCount(buffer, Unknown) ELSE buffer, frame.n)
        BY <1>4, <3>2 DEF Consumes
      <4>2. Unknown \in Unknown .. MaxRequests BY BoundsAssumption DEF Unknown
      <4>3. CASE again
        <5>1. Reports(buffer, PutCount(buffer, Unknown)) BY <4>2, PutCountReports
        <5>2. PutCount(buffer, Unknown) \in Buffers BY <5>1 DEF Reports, Keeps
        <5>3. Reports(PutCount(buffer, Unknown), buffer') BY <2>2, <4>1, <4>3, <5>2, PutCountReports
        <5> QED BY <5>1, <5>3, ReportsTransitive
      <4>4. CASE ~ again BY <2>2, <4>1, <4>4, PutCountReports
      <4> QED BY <4>3, <4>4
    <3> QED BY <3>1, <3>2
  <2>4. reader' \in [pc : {"off", "top", "connecting", "reading", "stopped"}, stop : BOOLEAN, have : BOOLEAN]
    BY <1>4 DEF Consumes, Typed
  <2>5. stream' \in [open : BOOLEAN, frames : Seq(Frames)]
    <3>1. stream' = [stream EXCEPT !.frames = Tail(stream.frames)] BY <1>4 DEF Consumes
    <3> QED BY <2>1, <3>1 DEF Typed
  <2> QED BY <1>4, <2>3, <2>4, <2>5 DEF Consumes, Typed, sink
<1>5. CASE StreamEnds
  <2>1. <<>> \in Seq(Frames) OBVIOUS
  <2> QED BY <1>5, <2>1, EndedReports DEF StreamEnds, Typed, sink
<1>6. CASE ReaderStops
  BY <1>6, PutConnectionReports, ReportsItself DEF ReaderStops, Typed, sink
<1> QED BY <1>1, <1>2, <1>3, <1>4, <1>5, <1>6 DEF Reader

\* Every step of the proxy and of its stream.
LEMMA ProxySteps ==
    ASSUME RelayInv, Changes \/ Breaks
    PROVE  Reports(buffer, buffer') /\ UNCHANGED sink /\ Typed'
<1> USE DEF RelayInv
<1>1. CASE Changes
  <2>1. UNCHANGED <<reader, buffer, sink>> BY <1>1 DEF Changes
  <2>2. faults' \in [changes : 0 .. MaxChanges, breaks : 0 .. MaxBreaks]
    <3>1. faults.changes + 1 \in 0 .. MaxChanges BY <1>1, BoundsAssumption DEF Changes, Typed
    <3>2. faults' = [faults EXCEPT !.changes = faults.changes + 1] BY <1>1 DEF Changes, Typed
    <3> QED BY <3>1, <3>2 DEF Typed
  <2>3. up' \in [state : {"ready", "stopped"}, requests : 0 .. MaxRequests]
    BY <1>1 DEF Changes, Typed
  <2>4. up'.state \in {"ready", "stopped"} /\ up'.requests \in 0 .. MaxRequests BY <2>3
  <2>5. stream' \in [open : BOOLEAN, frames : Seq(Frames)]
    <3>1. PICK flip \in BOOLEAN :
            stream' = IF ~ stream.open THEN stream
                      ELSE [stream EXCEPT !.frames = Append(@,
                              [state |-> IF flip THEN up'.state ELSE "none",
                               n |-> IF flip THEN Unknown ELSE up'.requests])]
      BY <1>1 DEF Changes
    <3> DEFINE f == [state |-> IF flip THEN up'.state ELSE "none",
                     n |-> IF flip THEN Unknown ELSE up'.requests]
    <3>2. f \in Frames BY <2>4, BoundsAssumption DEF Frames, Unknown
    <3>3. stream.frames \in Seq(Frames) BY DEF Typed
    <3>4. Append(stream.frames, f) \in Seq(Frames) BY <3>2, <3>3, AppendProperties
    <3> QED BY <3>1, <3>4 DEF Typed
  <2> QED BY <2>1, <2>2, <2>3, <2>5, ReportsItself DEF Typed, sink
<1>2. CASE Breaks
  <2>1. faults' \in [changes : 0 .. MaxChanges, breaks : 0 .. MaxBreaks] /\ UNCHANGED <<up, sink>>
    <3>1. faults.breaks + 1 \in 0 .. MaxBreaks BY <1>2, BoundsAssumption DEF Breaks, Typed
    <3>2. faults' = [faults EXCEPT !.breaks = faults.breaks + 1] BY <1>2 DEF Breaks, Typed
    <3>3. UNCHANGED <<up, sink>> BY <1>2 DEF Breaks
    <3> QED BY <3>1, <3>2, <3>3 DEF Typed
  <2>2. /\ stream' \in [open : BOOLEAN, frames : Seq(Frames)]
        /\ reader' \in [pc : {"off", "top", "connecting", "reading", "stopped"}, stop : BOOLEAN,
                        have : BOOLEAN]
    <3>1. <<>> \in Seq(Frames) OBVIOUS
    <3>2. stream' = stream \/ stream' = [open |-> FALSE, frames |-> <<>>] BY <1>2 DEF Breaks
    <3>3. \/ reader' = reader \/ reader' = [reader EXCEPT !.pc = "top"]
          \/ reader' = [reader EXCEPT !.pc = "top", !.have = FALSE]
      BY <1>2 DEF Breaks
    <3>4. stream' \in [open : BOOLEAN, frames : Seq(Frames)]
      <4>1. stream \in [open : BOOLEAN, frames : Seq(Frames)] BY DEF Typed
      <4>2. [open |-> FALSE, frames |-> <<>>] \in [open : BOOLEAN, frames : Seq(Frames)] BY <3>1
      <4> QED BY <3>2, <4>1, <4>2
    <3>5. reader' \in [pc : {"off", "top", "connecting", "reading", "stopped"}, stop : BOOLEAN,
                       have : BOOLEAN]
      BY <3>3 DEF Typed
    <3> QED BY <3>4, <3>5
  <2>3. Reports(buffer, buffer')
    BY <1>2, EndedReports, PutErrorReports, ReportsItself DEF Breaks
  <2> QED BY <2>1, <2>2, <2>3 DEF Typed, sink
<1> QED BY <1>1, <1>2
-----------------------------------------------------------------------------
(* The steps of the bridge. *)

LEMMA EmptyBatch == NoBatch \in Batches /\ NoBatch.events = <<>> /\ NoBatch.dropped = 0
    BY SizesAssumption DEF NoBatch, Batches, Queues

\* A drain moves a part of the queue and every counted drop to the batch.
LEMMA TakesCounted ==
    ASSUME RelayInv, bridge.pending = NoBatch, NEW n \in Nat, NEW next \in BridgeSteps \ {"batch", "rest", "closed"},
           Takes(n, next)
    PROVE  /\ buffer' \in Buffers /\ EveryEventCounted' /\ BridgeShape'
           /\ buffer'.count = buffer.count
<1> DEFINE size == Len(buffer.queue)
           k == Smaller(n, size)
           taken == SubSeq(buffer.queue, 1, k)
           left == SubSeq(buffer.queue, k + 1, size)
<1>1. k \in 0 .. size /\ size \in 0 .. Capacity BY BufferFacts DEF Smaller
<1>2. buffer.queue \in Seq(Events) BY BufferFacts DEF Queues
<1>3. \A i \in 1 .. size : buffer.queue[i] \in Events BY <1>2, ElementOfSeq
<1>4. taken \in Queues /\ Len(taken) = k
  BY <1>1, <1>2, <1>3, SubSeqProperties DEF Queues
<1>5. left \in Queues /\ Len(left) = size - k
  BY <1>1, <1>2, <1>3, SubSeqProperties DEF Queues
<1>6. buffer' = [buffer EXCEPT !.queue = left, !.dropped = 0] BY BufferFacts DEF Takes
<1>7. /\ bridge' = [bridge EXCEPT !.pc = next, !.pending = [on |-> TRUE, events |-> taken, dropped |-> buffer.dropped]]
  BY DEF Takes
<1> HIDE DEF taken, left, k
<1>8. /\ buffer' \in Shapes /\ buffer'.queue = left /\ buffer'.dropped = 0 /\ buffer'.owed = buffer.owed
      /\ buffer'.count = buffer.count
  <2>1. buffer' \in Shapes BY <1>5, <1>6, BufferFacts, Shaped
  <2> QED BY <1>6, <2>1, BufferFacts DEF Shapes
<1>9. buffer' \in Buffers
  <2>1. Len(buffer'.queue) <= Capacity BY <1>1, <1>5, <1>8, SizesAssumption
  <2> QED BY <1>8, <2>1 DEF Buffers
<1>10. /\ bridge'.pc = next /\ bridge'.pending = [on |-> TRUE, events |-> taken, dropped |-> buffer.dropped]
       /\ bridge' \in [pc : BridgeSteps, pending : Batches]
  <2>1. [on |-> TRUE, events |-> taken, dropped |-> buffer.dropped] \in Batches
    BY <1>1, <1>4, BufferFacts, SizesAssumption DEF Batches
  <2> QED BY <1>7, <2>1 DEF RelayInv, BridgeShape
<1>11. BridgeShape' BY <1>10 DEF BridgeShape
<1>12. BatchSize' = k + buffer.dropped BY <1>4, <1>10 DEF BatchSize
<1>13. Beyond(buffer) = 0 /\ Len(<<>>) = 0 BY BufferFacts, EmptyBatch DEF BatchSize
<1>14. EveryEventCounted'
  <2>1. buffer'.owed = size + buffer.dropped BY <1>1, <1>8, <1>13, BufferFacts, SMTT(30) DEF Beyond
  <2>2. Len(buffer'.queue) = size - k /\ buffer'.dropped = 0 BY <1>5, <1>8
  <2>3. k \in Int /\ size \in Int /\ buffer.dropped \in Int BY <1>1, BufferFacts
  <2>4. size + buffer.dropped = (size - k) + 0 + (k + buffer.dropped) BY <2>3
  <2> QED BY <1>12, <2>1, <2>2, <2>4 DEF EveryEventCounted
<1> QED BY <1>8, <1>9, <1>11, <1>14

\* A batch that was emitted, or discarded and counted, is out.
LEMMA EmptiedCounted ==
    ASSUME RelayInv, NEW next \in BridgeSteps, Emptied(next, BatchSize)
    PROVE  /\ buffer' \in Buffers /\ EveryEventCounted' /\ BridgeShape'
           /\ buffer'.count = buffer.count
<1>1. buffer.owed - BatchSize \in Int /\ buffer' = [buffer EXCEPT !.owed = buffer.owed - BatchSize]
  BY BufferFacts DEF Emptied
<1>2. /\ buffer' \in Shapes /\ buffer'.queue = buffer.queue /\ buffer'.dropped = buffer.dropped
      /\ buffer'.owed = buffer.owed - BatchSize /\ buffer'.count = buffer.count
  <2>1. buffer' \in Shapes BY <1>1, BufferFacts, Shaped
  <2> QED BY <1>1, <2>1, BufferFacts DEF Shapes
<1>3. buffer' \in Buffers BY <1>2, BufferFacts DEF Buffers
<1>4. bridge' \in [pc : BridgeSteps, pending : Batches] /\ bridge'.pc = next /\ bridge'.pending = NoBatch
  BY EmptyBatch DEF Emptied, RelayInv, BridgeShape
<1>5. BridgeShape' BY <1>4 DEF BridgeShape, NoBatch
<1>6. BatchSize' = 0 BY <1>4, EmptyBatch DEF BatchSize
<1>7. EveryEventCounted' BY <1>2, <1>6, BufferFacts DEF EveryEventCounted, Beyond
<1> QED BY <1>2, <1>3, <1>5, <1>7

LEMMA EmitsCounted ==
    ASSUME RelayInv, NEW next \in BridgeSteps, Emits(next)
    PROVE  /\ buffer' \in Buffers /\ EveryEventCounted' /\ BridgeShape' /\ ViewShape' /\ RelayStep
<1>1. /\ buffer' \in Buffers /\ EveryEventCounted' /\ BridgeShape' /\ buffer'.count = buffer.count
  BY EmptiedCounted DEF Emits
<1>2. CASE sched.epoch = "old" /\ Published
  <2>1. ViewShape' BY <1>2 DEF ViewShape, Published
  <2>2. RelayStep BY <1>1, <1>2 DEF RelayStep, DropsAreRetried, OldGenerationSilent
  <2> QED BY <1>1, <2>1, <2>2
<1>3. CASE sched.epoch = "new" /\ view' = [view EXCEPT !.lossy = @ \/ BatchSize > 0]
  <2>1. view = [state |-> view.state, count |-> view.count, lossy |-> view.lossy]
    BY DEF RelayInv, ViewShape
  <2>2. view' = [view EXCEPT !.lossy = view.lossy \/ BatchSize > 0] BY <1>3, <2>1
  <2>3. ViewShape' /\ view'.state = view.state /\ view'.count = view.count
    BY <2>1, <2>2 DEF ViewShape
  <2> QED BY <1>1, <2>3 DEF RelayStep, DropsAreRetried, OldGenerationSilent
<1> QED BY <1>2, <1>3 DEF Emits

\* Every step of the bridge.
LEMMA BridgeMoves ==
    ASSUME RelayInv, Bridge \/ Closing
    PROVE  /\ buffer' \in Buffers /\ EveryEventCounted' /\ BridgeShape' /\ ViewShape' /\ RelayStep
           /\ UNCHANGED <<up, stream, reader, sched, faults>>
<1>0. ASSUME buffer'.count = buffer.count, view' = view PROVE ViewShape' /\ RelayStep
  BY <1>0 DEF RelayInv, ViewShape, RelayStep, DropsAreRetried, OldGenerationSilent
<1>1. CASE Drains
  <2>1. bridge.pending = NoBatch BY <1>1 DEF Drains, RelayInv, BridgeShape
  <2>2. "run" \in BridgeSteps \ {"batch", "rest", "closed"} BY DEF BridgeSteps
  <2>3. Batch \in Nat BY SizesAssumption
  <2> QED BY <1>0, <1>1, <2>1, <2>2, <2>3, TakesCounted DEF Drains
<1>2. CASE Publishes
  <2>1. "run" \in BridgeSteps BY DEF BridgeSteps
  <2> QED BY <1>2, <2>1, EmitsCounted DEF Publishes
<1>3. CASE Joined
  <2>1. buffer' = buffer /\ view' = view BY <1>3 DEF Joined, source
  <2>2. bridge' = [bridge EXCEPT !.pc = IF bridge.pending.on THEN "first" ELSE "batch"]
    BY <1>3 DEF Joined
  <2>3. bridge' \in [pc : BridgeSteps, pending : Batches] /\ bridge'.pending = bridge.pending
        /\ (bridge'.pc \in {"batch", "rest", "closed"} => ~ bridge.pending.on)
    BY <2>2, BufferFacts DEF RelayInv, BridgeShape, BridgeSteps
  <2>4. BridgeShape' BY <2>3 DEF RelayInv, BridgeShape
  <2>5. EveryEventCounted' BY <2>1, <2>3 DEF RelayInv, EveryEventCounted, BatchSize
  <2> QED BY <1>0, <1>3, <2>1, <2>4, <2>5 DEF Joined, source, RelayInv
<1>4. CASE TakesTail
  <2>1. bridge.pending = NoBatch BY <1>4 DEF TakesTail, RelayInv, BridgeShape
  <2>2. {"first", "second"} \subseteq BridgeSteps \ {"batch", "rest", "closed"} BY DEF BridgeSteps
  <2>3. Batch \in Nat /\ Capacity \in Nat BY SizesAssumption
  <2> QED BY <1>0, <1>4, <2>1, <2>2, <2>3, TakesCounted DEF TakesTail
<1>5. CASE PublishesTail
  <2>1. CASE sched.locked
    <3>1. buffer' = buffer /\ view' = view /\ bridge' = [bridge EXCEPT !.pc = "discard"]
      BY <1>5, <2>1 DEF PublishesTail
    <3>2. bridge' \in [pc : BridgeSteps, pending : Batches] /\ bridge'.pending = bridge.pending
          /\ bridge'.pc = "discard"
      BY <3>1 DEF RelayInv, BridgeShape, BridgeSteps
    <3>3. BridgeShape' BY <3>2 DEF RelayInv, BridgeShape
    <3>4. EveryEventCounted' BY <3>1, <3>2 DEF RelayInv, EveryEventCounted, BatchSize
    <3> QED BY <1>0, <1>5, <3>1, <3>3, <3>4 DEF PublishesTail, RelayInv
  <2>2. CASE ~ sched.locked
    <3>1. {"rest", "closed"} \subseteq BridgeSteps BY DEF BridgeSteps
    <3> QED BY <1>5, <2>2, <3>1, EmitsCounted DEF PublishesTail
  <2> QED BY <2>1, <2>2
<1>6. CASE Discards
  <2>1. /\ buffer' = [buffer EXCEPT !.queue = <<>>, !.dropped = 0, !.owed = 0]
        /\ bridge' = [bridge EXCEPT !.pc = "closed", !.pending = NoBatch]
        /\ view' = [view EXCEPT !.lossy = TRUE]
    <3>1. buffer.owed - BatchSize - Len(buffer.queue) - buffer.dropped = 0
      BY BufferFacts, SMTT(30) DEF Beyond
    <3>2. buffer' = [buffer EXCEPT !.queue = <<>>, !.dropped = 0,
                                   !.owed = buffer.owed - BatchSize - Len(buffer.queue) - buffer.dropped]
      BY <1>6, BufferFacts DEF Discards, Shapes
    <3> QED BY <1>6, <3>1, <3>2 DEF Discards
  <2>2. <<>> \in Queues /\ Len(<<>>) = 0 BY DEF Queues
  <2>3. /\ buffer' \in Shapes /\ buffer'.queue = <<>> /\ buffer'.dropped = 0 /\ buffer'.owed = 0
        /\ buffer'.count = buffer.count
    <3>1. buffer' \in Shapes
      <4>1. \A d \in Nat, o \in Int : [buffer EXCEPT !.queue = <<>>, !.dropped = d, !.owed = o] \in Shapes
        BY <2>2, BufferFacts, Shaped
      <4> DEFINE zero == 0
      <4>2. zero \in Nat /\ zero \in Int OBVIOUS
      <4>3. buffer' = [buffer EXCEPT !.queue = <<>>, !.dropped = zero, !.owed = zero] BY <2>1
      <4> HIDE DEF zero
      <4> QED BY <4>1, <4>2, <4>3
    <3> QED BY <2>1, <3>1, BufferFacts DEF Shapes
  <2>4. buffer' \in Buffers BY <2>2, <2>3, SizesAssumption DEF Buffers
  <2>5. bridge' \in [pc : BridgeSteps, pending : Batches] /\ bridge'.pending = NoBatch
    BY <2>1, EmptyBatch DEF RelayInv, BridgeShape, BridgeSteps
  <2>6. BridgeShape' BY <2>5 DEF BridgeShape, NoBatch
  <2>7. EveryEventCounted' BY <2>2, <2>3, <2>5, EmptyBatch DEF EveryEventCounted, BatchSize
  <2>8. ViewShape' /\ view'.state = view.state /\ view'.count = view.count
    BY <2>1 DEF RelayInv, ViewShape
  <2>9. RelayStep BY <2>3, <2>8 DEF RelayStep, DropsAreRetried, OldGenerationSilent
  <2> QED BY <1>6, <2>4, <2>6, <2>7, <2>8, <2>9 DEF Discards
<1> QED BY <1>1, <1>2, <1>3, <1>4, <1>5, <1>6 DEF Bridge, Closing

-----------------------------------------------------------------------------
(* The invariant, the steps and the theorems. *)

LEMMA RelayBegins == RelayInit => RelayInv
<1> SUFFICES ASSUME RelayInit PROVE RelayInv OBVIOUS
<1> USE BoundsAssumption, SizesAssumption
<1>1. Typed BY DEF RelayInit, Typed
<1>2. ViewShape BY DEF RelayInit, ViewShape
<1>3. bridge = [pc |-> "run", pending |-> NoBatch] BY DEF RelayInit
<1>4. BridgeShape BY <1>3, EmptyBatch DEF BridgeShape, BridgeSteps
<1>5. /\ buffer.queue = <<>> /\ buffer.dropped = 0 /\ buffer.owed = 0
      /\ buffer = [queue |-> <<>>, dropped |-> 0, owed |-> 0, state |-> "none", count |-> Fresh]
  BY DEF RelayInit
<1>6. <<>> \in Queues /\ Len(<<>>) = 0 /\ Fresh \in Counts /\ "none" \in States
  BY DEF Queues, Counts, States, Fresh
<1>7. buffer \in Buffers BY <1>5, <1>6 DEF Buffers, Shapes
<1>8. EveryEventCounted BY <1>3, <1>5, <1>6, EmptyBatch DEF EveryEventCounted, BatchSize
<1> QED BY <1>1, <1>2, <1>4, <1>7, <1>8 DEF RelayInv

LEMMA RelayGoesOn ==
    ASSUME RelayInv, [RelayNext]_relayVars
    PROVE  RelayInv' /\ (RelayStep \/ UNCHANGED relayVars)
<1>1. CASE Reader \/ Changes \/ Breaks
  BY <1>1, ReaderSteps, ProxySteps, SourceCounted DEF RelayInv
<1>2. CASE Bridge \/ Closing
  <2>1. Typed' BY <1>2, BridgeMoves DEF RelayInv, Typed
  <2> QED BY <1>2, <2>1, BridgeMoves DEF RelayInv
<1>3. CASE Closes
  <2>1. bridge'.pending = bridge.pending /\ bridge' \in [pc : BridgeSteps, pending : Batches] /\ bridge'.pc = "stopping"
    BY <1>3 DEF Closes, RelayInv, BridgeShape, BridgeSteps
  <2>2. BridgeShape' BY <2>1 DEF RelayInv, BridgeShape
  <2>3. Typed' /\ ViewShape' BY <1>3 DEF Closes, RelayInv, Typed, ViewShape
  <2>4. EveryEventCounted' /\ buffer' \in Buffers
    BY <1>3, <2>1 DEF Closes, RelayInv, EveryEventCounted, BatchSize
  <2>5. RelayStep BY <1>3 DEF Closes, RelayStep, DropsAreRetried, OldGenerationSilent
  <2> QED BY <2>2, <2>3, <2>4, <2>5 DEF RelayInv
<1>4. CASE Locks \/ Republishes
  <2>1. UNCHANGED <<source, bridge, view, faults>> BY <1>4 DEF Locks, Republishes
  <2>2. sched' \in [locked : BOOLEAN, epoch : {"old", "new"}]
    BY <1>4 DEF Locks, Republishes, RelayInv, Typed
  <2>3. Typed' /\ ViewShape' /\ BridgeShape'
    BY <2>1, <2>2 DEF RelayInv, Typed, ViewShape, BridgeShape, source
  <2>4. EveryEventCounted' /\ buffer' \in Buffers
    BY <2>1 DEF source, RelayInv, EveryEventCounted, BatchSize
  <2>5. RelayStep BY <2>1 DEF source, RelayStep, DropsAreRetried, OldGenerationSilent
  <2> QED BY <2>3, <2>4, <2>5 DEF RelayInv
<1>5. CASE UNCHANGED relayVars
  <2>1. RelayInv'
    BY <1>5 DEF relayVars, RelayInv, Typed, ViewShape, BridgeShape, EveryEventCounted, BatchSize
  <2> QED BY <1>5, <2>1
<1> QED BY <1>1, <1>2, <1>3, <1>4, <1>5 DEF RelayNext

\* The inductive invariant of the relay holds in every state.
THEOREM RelayInvariants == RelaySpec => []RelayInv
    BY RelayBegins, RelayGoesOn, PTL DEF RelaySpec

\* The variables of the relay keep their types: the queue and the pending
\* batch never exceed the capacity of the buffer.
THEOREM RelayTypes == RelaySpec => []RelayTypeOK
<1>1. RelayInv => RelayTypeOK
  <2> SUFFICES ASSUME RelayInv PROVE RelayTypeOK OBVIOUS
  <2>1. stream.open \in BOOLEAN BY DEF RelayInv, Typed
  <2> QED BY <2>1, BufferFacts DEF RelayInv, Typed, RelayTypeOK, Queues, BridgeSteps
<1> QED BY <1>1, RelayInvariants, PTL

\* DataPlaneEventBuffer and DataPlaneBridge: whatever the capacity, the batch
\* size and the number of failures, an event that was offered is in the queue,
\* in the pending batch, on the stream or counted as dropped.
THEOREM Counted == RelaySpec => []EveryEventCounted
    BY RelayInvariants, PTL DEF RelayInv

\* A remembered count always comes with its queued event, and a replaced
\* generation shows nothing more.
THEOREM StepsHold == RelaySpec => [][RelayStep]_relayVars
<1>1. RelayInv /\ [RelayNext]_relayVars => [RelayStep]_relayVars BY RelayGoesOn
<1> QED BY <1>1, RelayInvariants, PTL DEF RelaySpec

-----------------------------------------------------------------------------
(* The catalog: what the manifest promises *)

\* Types
Manifests == [Names -> Ports \cup {0}]
Files == [port : Manifests, cmd : [Names -> Cmds], default : SUBSET Names]
TxnPhases == {"queued", "claimed", "replaced", "published", "restored"}
Transactions ==
  [phase : TxnPhases, base : Files, cand : Files, kept : Manifests, retains : Manifests, owned : BOOLEAN]
Carrying == txn.phase \in TxnPhases

Shape ==
  /\ file \in Files /\ txn \in Transactions \cup {NoTransaction}
  /\ active_models \in Manifests /\ retained \in Manifests /\ units \in Manifests
  /\ rows \in [Names -> Cmds \cup {0}]
  /\ retire \in [of : {"none", "this", "earlier"}, removed : SUBSET Names, updated : SUBSET Names]
  /\ snapshot \in [ok : BOOLEAN, stopped : SUBSET Names]
  /\ bridges \in [kept : 0..2, open : 0..2]
  /\ pins \subseteq Names /\ leased \subseteq Names /\ starting \subseteq Names

\* The phase says which of the two generations is written and which is published.
Follows ==
  /\ txn.phase = "none" => active_models = file.port
  /\ txn.phase \in {"queued", "claimed", "restored"} => file = txn.base
  /\ txn.phase \in {"replaced", "published"} => file = txn.cand
  /\ txn.phase \in {"queued", "claimed", "replaced", "restored"} =>
       active_models = txn.base.port /\ retained = txn.kept
  /\ txn.phase = "published" => active_models = txn.cand.port /\ retained = txn.retains

\* The port a generation knows a model by, and a generation whose ports are apart.
PortOf(ports, kept, n) == IF ports[n] # 0 THEN ports[n] ELSE kept[n]
Apart(ports, kept) ==
  /\ \A n \in Names : ports[n] = 0 \/ kept[n] = 0
  /\ \A n, m \in Names : n # m /\ PortOf(ports, kept, n) # 0 => PortOf(ports, kept, n) # PortOf(ports, kept, m)

Generations ==
  /\ Apart(active_models, retained)
  /\ Carrying => Apart(txn.base.port, txn.kept) /\ Apart(txn.cand.port, txn.retains)

\* A unit listens where the published generation knows it; only active models start.
Units ==
  /\ \A n \in Names : units[n] # 0 => units[n] = PortOf(active_models, retained, n)
  /\ snapshot.ok => \A n \in snapshot.stopped : active_models[n] = 0 => units[n] = 0
  /\ \A n \in starting : active_models[n] # 0
  /\ Fenced => starting = {}

\* A model that runs is known by one port in both generations.
Carried ==
  Carrying => \A n \in Names :
            \/ PortOf(txn.cand.port, txn.retains, n) = PortOf(txn.base.port, txn.kept, n)
            \/ txn.base.port[n] = 0 /\ units[n] = 0

Rows ==
  /\ \A n \in Names : file.port[n] # 0 => rows[n] # 0
  /\ Carrying => \A n \in Names : txn.base.port[n] # 0 \/ txn.cand.port[n] # 0 => rows[n] # 0
  /\ Carrying /\ retire.of = "this" => \A n \in retire.removed : txn.cand.port[n] = 0

Bridges ==
  /\ bridges.kept = bridges.open
  /\ txn.phase \notin {"published", "restored"} => bridges.kept = 0
  /\ txn.phase = "published" => bridges.kept < 2

ManifestInv == Shape /\ Follows /\ Generations /\ Units /\ Carried /\ Rows /\ Bridges

\* A command of the instance.
LEMMA SomeCmd == CatalogAssumption => Some \in Cmds
BY DEF CatalogAssumption, Some

\* What the registry and the operator send is a configuration.
LEMMA CandidateType ==
  ASSUME CatalogAssumption, Shape, NEW cand \in Candidates PROVE cand \in Files
<1>1. ASSUME NEW n \in Names, NEW p \in Ports PROVE Added(n, p) \in Files
  BY SomeCmd DEF Shape, Files, Manifests, Added
<1>2. ASSUME NEW n \in Names PROVE Removed(n) \in Files
  BY DEF Shape, Files, Manifests, Removed
<1>3. ASSUME NEW n \in Names, NEW c \in Cmds PROVE Recommanded(n, c) \in Files
  BY DEF Shape, Files, Recommanded
<1>4. QED
  BY <1>1, <1>2, <1>3 DEF Candidates, In

\* A transaction that is open carries two generations.
LEMMA OpenType ==
  ASSUME Shape, txn.phase # "none" PROVE txn \in Transactions /\ Carrying
BY DEF Shape, Transactions, NoTransaction, Carrying

\* A step to another phase.
LEMMA PhaseType ==
  ASSUME txn \in Transactions, NEW p \in TxnPhases, Phase(p) PROVE txn' \in Transactions
BY DEF Transactions, Phase

\* What is retained for a candidate.
LEMMA RetainsType ==
  ASSUME Shape, NEW ports \in Manifests PROVE Retains(ports) \in Manifests
BY DEF Shape, Manifests, Retains

\* An admitted candidate names no port twice, also beside what it retains.
LEMMA AdmittedApart ==
  ASSUME Shape, Apart(active_models, retained), NEW ports \in Manifests, NoAlias(ports)
  PROVE  Apart(ports, Retains(ports))
<1> DEFINE kept == Retains(ports)
<1>1. \A n \in Names : ports[n] = 0 \/ kept[n] = 0
  BY DEF Retains
<1>2. \A n \in Names : ports[n] = 0 /\ kept[n] # 0 => kept[n] = PortOf(active_models, retained, n)
  BY DEF Retains, PortOf
<1>3. \A n, m \in Names : n # m /\ ports[n] # 0 /\ ports[m] # 0 => ports[n] # ports[m]
  BY DEF NoAlias, In
<1>4. \A n, m \in Names : kept[n] # 0 /\ ports[m] # 0 => kept[n] # ports[m]
  BY DEF NoAlias, In
<1> HIDE DEF kept
<1>5. ASSUME NEW n \in Names, NEW m \in Names, n # m, PortOf(ports, kept, n) # 0
      PROVE  PortOf(ports, kept, n) # PortOf(ports, kept, m)
  <2>1. CASE ports[n] # 0 /\ ports[m] # 0
    BY <1>3, <1>5, <2>1 DEF PortOf
  <2>2. CASE ports[n] # 0 /\ ports[m] = 0
    BY <1>4, <2>2 DEF PortOf
  <2>3. CASE ports[n] = 0 /\ ports[m] # 0
    BY <1>4, <2>3 DEF PortOf
  <2>4. CASE ports[n] = 0 /\ ports[m] = 0
    <3>1. kept[n] # 0 /\ kept[n] = PortOf(active_models, retained, n)
      BY <1>2, <1>5, <2>4 DEF PortOf
    <3>2. kept[m] = 0 \/ kept[m] = PortOf(active_models, retained, m)
      BY <1>2, <2>4
    <3>3. QED
      BY <1>5, <2>4, <3>1, <3>2 DEF Apart, PortOf
  <2>5. QED
    BY <2>1, <2>2, <2>3, <2>4
<1>6. QED
  BY <1>1, <1>5 DEF Apart, kept

\* The first configuration, with all units stopped, satisfies the invariant.
LEMMA ManifestInitInv == CatalogAssumption /\ ManifestInit => ManifestInv
<1> SUFFICES ASSUME CatalogAssumption, ManifestInit PROVE ManifestInv
  OBVIOUS
<1> USE SomeCmd DEF ManifestInit, CatalogAssumption
<1>1. Shape
  BY DEF Shape, Files, Manifests, NoRows, Unobserved, Closed
<1>2. Follows /\ Bridges
  BY DEF Follows, NoTransaction, Closed, Bridges
<1>3. Generations /\ Carried
  BY DEF Generations, Carried, Apart, PortOf, NoTransaction, Carrying, TxnPhases
<1>4. Units
  BY DEF Units, Unobserved
<1>5. Rows
  BY DEF Rows, NoTransaction, Carrying, TxnPhases
<1>6. QED
  BY <1>1, <1>2, <1>3, <1>4, <1>5 DEF ManifestInv

\* Every step keeps the types; two replaced generations are open at most.
LEMMA ShapeStep ==
  ASSUME CatalogAssumption, ManifestInv, [ManifestNext]_manifestVars PROVE Shape'
<1> USE DEF ManifestInv, CatalogAssumption
<1>1. ASSUME NEW cand \in Candidates, Submit(cand) PROVE Shape'
  <2>1. cand \in Files
    BY CandidateType
  <2>2. Retains(cand.port) \in Manifests
    BY <2>1, RetainsType DEF Files
  <2>3. txn' \in Transactions
    BY <1>1, <2>1, <2>2 DEF Submit, Shape, Transactions, TxnPhases
  <2>4. rows' \in [Names -> Cmds \cup {0}]
    BY <1>1, <2>1 DEF Submit, Sync, Shape, Files
  <2>5. In(file.port) \ In(cand.port) \subseteq Names /\ Changed(cand) \subseteq Names
    BY DEF In, Changed
  <2>6. retire' \in [of : {"none", "this", "earlier"}, removed : SUBSET Names, updated : SUBSET Names]
    BY <1>1, <2>5 DEF Submit, ToRetire, Shape
  <2>7. QED
    BY <1>1, <2>3, <2>4, <2>6 DEF Submit, Shape
<1>2. CASE Expires
  BY <1>2 DEF Shape, Expires, Finishes
<1>3. CASE Claims
  <2>1. txn \in Transactions
    BY <1>3, OpenType DEF Claims
  <2>2. txn' \in Transactions
    BY <1>3, <2>1 DEF Claims, Transactions, TxnPhases
  <2>3. QED
    BY <1>3, <2>2 DEF Shape, Claims
<1>4. CASE Aborts
  BY <1>4 DEF Shape, Aborts, Finishes
<1>5. CASE Replaces
  <2>1. txn \in Transactions
    BY <1>5, OpenType DEF Replaces
  <2>2. txn' \in Transactions
    BY <1>5, <2>1, PhaseType DEF Replaces, TxnPhases
  <2>3. QED
    BY <1>5, <2>1, <2>2 DEF Shape, Replaces, Transactions
<1>6. CASE PublishesCandidate
  <2>1. txn \in Transactions
    BY <1>6, OpenType DEF PublishesCandidate
  <2>2. txn' \in Transactions
    BY <1>6, <2>1, PhaseType DEF PublishesCandidate, TxnPhases
  <2>3. txn.cand.port \in Manifests /\ txn.retains \in Manifests
    BY <2>1 DEF Transactions, Files
  <2>4. bridges'.kept \in 0..2 /\ bridges'.open \in 0..2 /\ bridges' \in [kept : 0..2, open : 0..2]
    BY <1>6 DEF PublishesCandidate, Shows, Bridges
  <2>5. QED
    BY <1>6, <2>2, <2>3, <2>4 DEF Shape, PublishesCandidate, Shows, Unobserved
<1>7. CASE Retires
  BY <1>7 DEF Shape, Bridges, Retires, ClosesOld
<1>8. CASE Releases
  BY <1>8 DEF Shape, Files, Releases, RetiredRows, NoRows, Finishes
<1>9. CASE Fails
  <2>1. txn \in Transactions
    BY <1>9, OpenType DEF Fails, Fenced
  <2>2. txn' \in Transactions
    BY <1>9, <2>1 DEF Fails, Transactions
  <2>3. QED
    BY <1>9, <2>2 DEF Shape, Fails
<1>10. CASE Reconciled
  BY <1>10 DEF Shape, Reconciled, Finishes
<1>11. CASE RollsBack
  <2>1. txn \in Transactions
    BY <1>11, OpenType DEF RollsBack
  <2>2. txn' \in Transactions
    BY <1>11, <2>1, PhaseType DEF RollsBack, TxnPhases
  <2>3. txn.base \in Files /\ txn.base.port \in Manifests /\ txn.kept \in Manifests
    BY <2>1 DEF Transactions, Files
  <2>4. bridges' \in [kept : 0..2, open : 0..2]
    BY <1>11 DEF RollsBack, Shows, Shape, Bridges
  <2>5. QED
    BY <1>11, <2>2, <2>3, <2>4 DEF Shape, RollsBack, Shows, Unobserved
<1>12. CASE FinishesBase
  BY <1>12 DEF Shape, FinishesBase, Finishes
<1>13. CASE Restarts
  <2>1. txn' \in Transactions \cup {NoTransaction}
    <3>1. CASE Fenced
      <4>1. txn \in Transactions
        BY <3>1, OpenType DEF Fenced
      <4>2. QED
        BY <1>13, <4>1 DEF Restarts, Transactions
    <3>2. QED
      BY <1>13, <3>1 DEF Restarts
  <2>2. QED
    BY <1>13, <2>1 DEF Shape, Restarts, NoRows, Unobserved, Closed
<1>14. CASE Observes
  BY <1>14 DEF Shape, Observes, In
<1>15. CASE Ages
  BY <1>15 DEF Shape, Ages
<1>16. ASSUME NEW n \in Names, Places(n) PROVE Shape'
  BY <1>16 DEF Shape, Places
<1>17. ASSUME NEW n \in Names, Lands(n) PROVE Shape'
  BY <1>17 DEF Shape, Manifests, Lands
<1>18. ASSUME NEW n \in Names, ByHand(n) PROVE Shape'
  BY <1>18 DEF Shape, Manifests, ByHand
<1>19. ASSUME NEW n \in Names, Stops(n) PROVE Shape'
  BY <1>19 DEF Shape, Manifests, Stops
<1>20. ASSUME NEW n \in Names, Frees(n) PROVE Shape'
  BY <1>20 DEF Shape, Frees
<1>21. ASSUME NEW n \in Names, Pin(n) PROVE Shape'
  BY <1>21 DEF Shape, Pin
<1>22. CASE UNCHANGED manifestVars
  BY <1>22 DEF Shape, manifestVars
<1>23. QED
  BY <1>1, <1>2, <1>3, <1>4, <1>5, <1>6, <1>7, <1>8, <1>9, <1>10, <1>11, <1>12, <1>13, <1>14,
     <1>15, <1>16, <1>17, <1>18, <1>19, <1>20, <1>21, <1>22 DEF ManifestNext

\* Every step keeps what the phase says of the file and of what is published.
LEMMA FollowsStep ==
  ASSUME CatalogAssumption, ManifestInv, [ManifestNext]_manifestVars PROVE Follows'
<1> USE DEF ManifestInv, CatalogAssumption
<1>1. ASSUME NEW cand \in Candidates, Submit(cand) PROVE Follows'
  BY <1>1 DEF Follows, Submit
<1>2. CASE Expires
  BY <1>2 DEF Follows, NoTransaction, Expires, Finishes
<1>3. CASE Claims
  BY <1>3 DEF Follows, Claims
<1>4. CASE Aborts
  BY <1>4 DEF Follows, NoTransaction, Aborts, Finishes
<1>5. CASE Replaces
  BY <1>5 DEF Follows, Replaces, Phase
<1>6. CASE PublishesCandidate
  BY <1>6 DEF Follows, PublishesCandidate, Shows, Phase
<1>7. CASE Retires
  BY <1>7 DEF Follows, Retires
<1>8. CASE Releases
  BY <1>8 DEF Follows, NoTransaction, Releases, Finishes
<1>9. CASE Fails
  BY <1>9 DEF Follows, Fails
<1>10. CASE Reconciled
  BY <1>10 DEF Follows, NoTransaction, Reconciled, Finishes
<1>11. CASE RollsBack
  BY <1>11 DEF Follows, RollsBack, Shows, Phase
<1>12. CASE FinishesBase
  BY <1>12 DEF Follows, NoTransaction, FinishesBase, Finishes
<1>13. CASE Restarts
  BY <1>13 DEF Follows, NoTransaction, Restarts, Fenced
<1>14. CASE Observes
  BY <1>14 DEF Follows, Observes
<1>15. CASE Ages
  BY <1>15 DEF Follows, Ages
<1>16. ASSUME NEW n \in Names, Places(n) PROVE Follows'
  BY <1>16 DEF Follows, Places
<1>17. ASSUME NEW n \in Names, Lands(n) PROVE Follows'
  BY <1>17 DEF Follows, Lands
<1>18. ASSUME NEW n \in Names, ByHand(n) PROVE Follows'
  BY <1>18 DEF Follows, ByHand
<1>19. ASSUME NEW n \in Names, Stops(n) PROVE Follows'
  BY <1>19 DEF Follows, Stops
<1>20. ASSUME NEW n \in Names, Frees(n) PROVE Follows'
  BY <1>20 DEF Follows, Frees
<1>21. ASSUME NEW n \in Names, Pin(n) PROVE Follows'
  BY <1>21 DEF Follows, Pin
<1>22. CASE UNCHANGED manifestVars
  BY <1>22 DEF Follows, manifestVars
<1>23. QED
  BY <1>1, <1>2, <1>3, <1>4, <1>5, <1>6, <1>7, <1>8, <1>9, <1>10, <1>11, <1>12, <1>13, <1>14,
     <1>15, <1>16, <1>17, <1>18, <1>19, <1>20, <1>21, <1>22 DEF ManifestNext

\* The ports of both generations stay apart: `prepare` refuses an alias.
LEMMA GenerationsStep ==
  ASSUME CatalogAssumption, ManifestInv, [ManifestNext]_manifestVars PROVE Generations'
<1> USE DEF ManifestInv, CatalogAssumption
<1>1. ASSUME NEW cand \in Candidates, Submit(cand) PROVE Generations'
  <2>1. cand \in Files /\ cand.port \in Manifests /\ NoAlias(cand.port)
    BY <1>1, CandidateType DEF Submit, Files, Prepared
  <2>2. Apart(cand.port, Retains(cand.port))
    BY <2>1, AdmittedApart DEF Generations
  <2>3. Apart(file.port, retained)
    BY <1>1 DEF Submit, Follows, Generations
  <2>4. /\ txn'.base = file /\ txn'.cand = cand /\ txn'.kept = retained /\ txn'.retains = Retains(cand.port)
        /\ active_models' = active_models /\ retained' = retained
    BY <1>1 DEF Submit
  <2>5. QED
    BY <2>2, <2>3, <2>4 DEF Generations
<1>2. CASE Expires
  BY <1>2 DEF Generations, Carrying, TxnPhases, NoTransaction, Expires, Finishes
<1>3. CASE Claims
  BY <1>3 DEF Generations, Carrying, TxnPhases, Claims
<1>4. CASE Aborts
  BY <1>4 DEF Generations, Carrying, TxnPhases, NoTransaction, Aborts, Finishes
<1>5. CASE Replaces
  BY <1>5 DEF Generations, Carrying, TxnPhases, Replaces, Phase
<1>6. CASE PublishesCandidate
  BY <1>6 DEF Generations, Carrying, TxnPhases, PublishesCandidate, Shows, Phase
<1>7. CASE Retires
  BY <1>7 DEF Generations, Carrying, Retires
<1>8. CASE Releases
  BY <1>8 DEF Generations, Carrying, TxnPhases, NoTransaction, Releases, Finishes
<1>9. CASE Fails
  BY <1>9 DEF Generations, Carrying, Fails
<1>10. CASE Reconciled
  BY <1>10 DEF Generations, Carrying, TxnPhases, NoTransaction, Reconciled, Finishes
<1>11. CASE RollsBack
  BY <1>11 DEF Generations, Carrying, TxnPhases, RollsBack, Shows, Phase
<1>12. CASE FinishesBase
  BY <1>12 DEF Generations, Carrying, TxnPhases, NoTransaction, FinishesBase, Finishes
<1>13. CASE Restarts
  BY <1>13 DEF Generations, Carrying, TxnPhases, NoTransaction, Restarts
<1>14. CASE Observes
  BY <1>14 DEF Generations, Carrying, Observes
<1>15. CASE Ages
  BY <1>15 DEF Generations, Carrying, Ages
<1>16. ASSUME NEW n \in Names, Places(n) PROVE Generations'
  BY <1>16 DEF Generations, Carrying, Places
<1>17. ASSUME NEW n \in Names, Lands(n) PROVE Generations'
  BY <1>17 DEF Generations, Carrying, Lands
<1>18. ASSUME NEW n \in Names, ByHand(n) PROVE Generations'
  BY <1>18 DEF Generations, Carrying, ByHand
<1>19. ASSUME NEW n \in Names, Stops(n) PROVE Generations'
  BY <1>19 DEF Generations, Carrying, Stops
<1>20. ASSUME NEW n \in Names, Frees(n) PROVE Generations'
  BY <1>20 DEF Generations, Carrying, Frees
<1>21. ASSUME NEW n \in Names, Pin(n) PROVE Generations'
  BY <1>21 DEF Generations, Carrying, Pin
<1>22. CASE UNCHANGED manifestVars
  BY <1>22 DEF Generations, Carrying, manifestVars
<1>23. QED
  BY <1>1, <1>2, <1>3, <1>4, <1>5, <1>6, <1>7, <1>8, <1>9, <1>10, <1>11, <1>12, <1>13, <1>14,
     <1>15, <1>16, <1>17, <1>18, <1>19, <1>20, <1>21, <1>22 DEF ManifestNext

\* A unit listens where the published generation knows its model, also when the
\* generation changes under it: it is carried over.
LEMMA UnitsStep ==
  ASSUME CatalogAssumption, ManifestInv, [ManifestNext]_manifestVars PROVE Units'
<1> USE DEF ManifestInv, CatalogAssumption
<1>1. ASSUME NEW cand \in Candidates, Submit(cand) PROVE Units'
  BY <1>1 DEF Units, Fenced, Submit
<1>2. CASE Expires
  BY <1>2 DEF Units, Fenced, NoTransaction, Expires, Finishes
<1>3. CASE Claims
  BY <1>3 DEF Units, Claims, QuietNow
<1>4. CASE Aborts
  BY <1>4 DEF Units, Fenced, Aborts
<1>5. CASE Replaces
  BY <1>5 DEF Units, Fenced, Replaces
<1>6. CASE PublishesCandidate
  <2>1. txn \in Transactions /\ Carrying
    BY <1>6, OpenType DEF PublishesCandidate
  <2>2. active_models = txn.base.port /\ retained = txn.kept
    BY <1>6 DEF PublishesCandidate, Follows
  <2>3. active_models' = txn.cand.port /\ retained' = txn.retains /\ snapshot'.ok = FALSE
    BY <1>6 DEF PublishesCandidate, Shows, Unobserved
  <2>4. starting = {} /\ UNCHANGED <<units, starting>>
    BY <1>6 DEF PublishesCandidate, Units, Fenced
  <2>5. ASSUME NEW n \in Names, units[n] # 0 PROVE units[n] = PortOf(txn.cand.port, txn.retains, n)
    BY <2>1, <2>2, <2>5 DEF Carried, Units
  <2>6. QED
    BY <2>3, <2>4, <2>5 DEF Units
<1>7. CASE Retires
  BY <1>7 DEF Units, Fenced, Retires
<1>8. CASE Releases
  BY <1>8 DEF Units, Fenced, Releases
<1>9. CASE Fails
  BY <1>9 DEF Units, Fails
<1>10. CASE Reconciled
  BY <1>10 DEF Units, Fenced, Reconciled
<1>11. CASE RollsBack
  <2>1. txn \in Transactions /\ Carrying
    BY <1>11, OpenType DEF RollsBack
  <2>2. active_models' = txn.base.port /\ retained' = txn.kept /\ snapshot'.ok = FALSE
    BY <1>11 DEF RollsBack, Shows, Unobserved
  <2>3. starting = {} /\ UNCHANGED <<units, starting>>
    BY <1>11 DEF RollsBack, Units, Fenced
  <2>4. ASSUME NEW n \in Names, units[n] # 0 PROVE units[n] = PortOf(txn.base.port, txn.kept, n)
    <3>1. units[n] = PortOf(active_models, retained, n)
      BY <2>4 DEF Units
    <3>2. \/ active_models = txn.base.port /\ retained = txn.kept
          \/ active_models = txn.cand.port /\ retained = txn.retains
      BY <1>11 DEF RollsBack, Follows
    <3>3. PortOf(txn.cand.port, txn.retains, n) = PortOf(txn.base.port, txn.kept, n)
      BY <2>1, <2>4 DEF Carried
    <3>4. QED
      BY <3>1, <3>2, <3>3
  <2>5. QED
    BY <2>2, <2>3, <2>4 DEF Units
<1>12. CASE FinishesBase
  BY <1>12 DEF Units, Fenced, FinishesBase
<1>13. CASE Restarts
  BY <1>13 DEF Units, Fenced, NoTransaction, Restarts, Unobserved
<1>14. CASE Observes
  BY <1>14 DEF Units, Fenced, Observes
<1>15. CASE Ages
  BY <1>15 DEF Units, Fenced, Ages
<1>16. ASSUME NEW n \in Names, Places(n) PROVE Units'
  BY <1>16 DEF Units, Fenced, Places, In
<1>17. ASSUME NEW n \in Names, Lands(n) PROVE Units'
  <2>1. active_models[n] # 0 /\ ~Fenced
    BY <1>17 DEF Lands, Units
  <2>2. ASSUME NEW m \in Names PROVE units'[m] = units[m] \/ (m = n /\ units'[m] = active_models[m])
    BY <1>17 DEF Lands, Shape, Manifests
  <2>3. QED
    BY <1>17, <2>2 DEF Lands, Units, PortOf, Fenced, Shape
<1>18. ASSUME NEW n \in Names, ByHand(n) PROVE Units'
  <2>1. active_models[n] # 0 /\ ~Fenced
    BY <1>18 DEF ByHand, In
  <2>2. ASSUME NEW m \in Names PROVE units'[m] = units[m] \/ (m = n /\ units'[m] = active_models[m])
    BY <1>18 DEF ByHand
  <2>3. QED
    BY <1>18 DEF ByHand, Units, PortOf, Fenced
<1>19. ASSUME NEW n \in Names, Stops(n) PROVE Units'
  BY <1>19 DEF Units, Fenced, Stops
<1>20. ASSUME NEW n \in Names, Frees(n) PROVE Units'
  BY <1>20 DEF Units, Fenced, Frees
<1>21. ASSUME NEW n \in Names, Pin(n) PROVE Units'
  BY <1>21 DEF Units, Fenced, Pin
<1>22. CASE UNCHANGED manifestVars
  BY <1>22 DEF Units, Fenced, manifestVars
<1>23. QED
  BY <1>1, <1>2, <1>3, <1>4, <1>5, <1>6, <1>7, <1>8, <1>9, <1>10, <1>11, <1>12, <1>13, <1>14,
     <1>15, <1>16, <1>17, <1>18, <1>19, <1>20, <1>21, <1>22 DEF ManifestNext

\* A model that runs keeps its port in the candidate; one that neither generation
\* knew before the transaction cannot start while it is open.
LEMMA CarriedStep ==
  ASSUME CatalogAssumption, ManifestInv, [ManifestNext]_manifestVars PROVE Carried'
<1> USE DEF ManifestInv, CatalogAssumption
<1>1. ASSUME NEW cand \in Candidates, Submit(cand) PROVE Carried'
  <2>1. /\ txn'.base = file /\ txn'.cand = cand /\ txn'.kept = retained /\ txn'.retains = Retains(cand.port)
        /\ units' = units /\ file.port = active_models /\ Prepared(cand)
    BY <1>1 DEF Submit, Follows
  <2>2. ASSUME NEW n \in Names
        PROVE  \/ PortOf(cand.port, Retains(cand.port), n) = PortOf(file.port, retained, n)
               \/ file.port[n] = 0 /\ units[n] = 0
    <3>1. CASE cand.port[n] # 0
      <4>1. cand.port[n] = PortOf(active_models, retained, n) \/ (active_models[n] = 0 /\ retained[n] = 0)
        BY <2>1, <3>1 DEF Prepared, In, PortOf
      <4>2. QED
        BY <2>1, <4>1 DEF PortOf, Units
    <3>2. CASE cand.port[n] = 0 /\ active_models[n] # 0
      BY <2>1, <3>2 DEF PortOf, Retains
    <3>3. CASE cand.port[n] = 0 /\ active_models[n] = 0 /\ InUse(n)
      BY <2>1, <3>3 DEF PortOf, Retains
    <3>4. CASE active_models[n] = 0 /\ ~InUse(n)
      BY <2>1, <3>4 DEF InUse, Units
    <3>5. QED
      BY <3>1, <3>2, <3>3, <3>4
  <2>3. QED
    BY <2>1, <2>2 DEF Carried
<1>2. CASE Expires
  BY <1>2 DEF Carried, Carrying, TxnPhases, NoTransaction, Expires, Finishes
<1>3. CASE Claims
  BY <1>3 DEF Carried, Carrying, TxnPhases, Claims
<1>4. CASE Aborts
  BY <1>4 DEF Carried, Carrying, TxnPhases, NoTransaction, Aborts, Finishes
<1>5. CASE Replaces
  BY <1>5 DEF Carried, Carrying, TxnPhases, Replaces, Phase
<1>6. CASE PublishesCandidate
  BY <1>6 DEF Carried, Carrying, TxnPhases, PublishesCandidate, Phase
<1>7. CASE Retires
  BY <1>7 DEF Carried, Carrying, Retires
<1>8. CASE Releases
  BY <1>8 DEF Carried, Carrying, TxnPhases, NoTransaction, Releases, Finishes
<1>9. CASE Fails
  BY <1>9 DEF Carried, Carrying, Fails
<1>10. CASE Reconciled
  BY <1>10 DEF Carried, Carrying, TxnPhases, NoTransaction, Reconciled, Finishes
<1>11. CASE RollsBack
  BY <1>11 DEF Carried, Carrying, TxnPhases, RollsBack, Phase
<1>12. CASE FinishesBase
  BY <1>12 DEF Carried, Carrying, TxnPhases, NoTransaction, FinishesBase, Finishes
<1>13. CASE Restarts
  BY <1>13 DEF Carried, Carrying, TxnPhases, NoTransaction, Restarts
<1>14. CASE Observes
  BY <1>14 DEF Carried, Carrying, Observes
<1>15. CASE Ages
  BY <1>15 DEF Carried, Carrying, Ages
<1>16. ASSUME NEW n \in Names, Places(n) PROVE Carried'
  BY <1>16 DEF Carried, Carrying, Places
<1>17. ASSUME NEW n \in Names, Lands(n) PROVE Carried'
  <2>1. active_models[n] # 0 /\ ~Fenced
    BY <1>17 DEF Lands, Units
  <2>2. ASSUME NEW m \in Names, m # n PROVE units'[m] = units[m]
    <3>1. units' = units \/ units' = [units EXCEPT ![n] = active_models[n]]
      BY <1>17 DEF Lands
    <3>2. QED
      BY <2>2, <3>1 DEF Shape, Manifests
  <2>3. Carrying => txn.base.port[n] # 0
    BY <2>1 DEF Carrying, TxnPhases, Fenced, Follows
  <2>4. QED
    BY <1>17, <2>2, <2>3 DEF Lands, Carried, Carrying
<1>18. ASSUME NEW n \in Names, ByHand(n) PROVE Carried'
  BY <1>18 DEF Follows, Carried, Fenced, Carrying, TxnPhases, ByHand
<1>19. ASSUME NEW n \in Names, Stops(n) PROVE Carried'
  BY <1>19 DEF Carried, Carrying, Stops
<1>20. ASSUME NEW n \in Names, Frees(n) PROVE Carried'
  BY <1>20 DEF Carried, Carrying, Frees
<1>21. ASSUME NEW n \in Names, Pin(n) PROVE Carried'
  BY <1>21 DEF Carried, Carrying, Pin
<1>22. CASE UNCHANGED manifestVars
  BY <1>22 DEF Carried, Carrying, manifestVars
<1>23. QED
  BY <1>1, <1>2, <1>3, <1>4, <1>5, <1>6, <1>7, <1>8, <1>9, <1>10, <1>11, <1>12, <1>13, <1>14,
     <1>15, <1>16, <1>17, <1>18, <1>19, <1>20, <1>21, <1>22 DEF ManifestNext

\* A row is there before the claim, and goes only with the release of its removal.
LEMMA RowsStep ==
  ASSUME CatalogAssumption, ManifestInv, [ManifestNext]_manifestVars PROVE Rows'
<1> USE DEF ManifestInv, CatalogAssumption
<1>1. ASSUME NEW cand \in Candidates, Submit(cand) PROVE Rows'
  <2>1. /\ txn'.base = file /\ txn'.cand = cand /\ UNCHANGED file /\ cand \in Files
        /\ rows' = Sync(cand) /\ retire' = ToRetire(cand)
    BY <1>1, CandidateType DEF Submit
  <2>2. ASSUME NEW n \in Names, file.port[n] # 0 \/ cand.port[n] # 0 PROVE rows'[n] # 0
    <3>1. CASE file.port[n] # 0
      BY <2>1, <3>1 DEF Sync, In, Rows
    <3>2. CASE file.port[n] = 0 /\ cand.port[n] # 0
      BY <2>1, <3>2 DEF Sync, In, Files
    <3>3. QED
      BY <2>2, <3>1, <3>2
  <2>3. retire'.of = "this" => retire'.removed = In(file.port) \ In(cand.port)
    BY <2>1 DEF ToRetire
  <2>4. QED
    BY <2>1, <2>2, <2>3 DEF Rows, In
<1>2. CASE Expires
  BY <1>2 DEF Rows, Carrying, TxnPhases, NoTransaction, Expires, Finishes
<1>3. CASE Claims
  BY <1>3 DEF Rows, Carrying, TxnPhases, Claims
<1>4. CASE Aborts
  BY <1>4 DEF Rows, Carrying, TxnPhases, NoTransaction, Aborts, Finishes
<1>5. CASE Replaces
  BY <1>5 DEF Rows, Carrying, TxnPhases, Replaces, Phase
<1>6. CASE PublishesCandidate
  BY <1>6 DEF Rows, Carrying, TxnPhases, PublishesCandidate, Phase
<1>7. CASE Retires
  BY <1>7 DEF Rows, Carrying, Retires
<1>8. CASE Releases
  <2>1. txn \in Transactions /\ Carrying /\ file = txn.cand
    BY <1>8, OpenType DEF Releases, Follows
  <2>2. \A n \in Names : file.cmd[n] # 0
    BY <2>1 DEF Transactions, Files
  <2>3. ASSUME NEW n \in Names, file.port[n] # 0 PROVE rows'[n] # 0
    <3>1. rows[n] # 0
      BY <2>3 DEF Rows
    <3>2. retire.of = "this" => n \notin retire.removed
      BY <2>1, <2>3 DEF Rows
    <3>3. QED
      BY <1>8, <2>2, <3>1, <3>2 DEF Releases, RetiredRows
  <2>4. QED
    BY <1>8, <2>3 DEF Releases, Finishes, NoTransaction, Rows, Carrying, TxnPhases
<1>9. CASE Fails
  BY <1>9 DEF Rows, Carrying, Fails
<1>10. CASE Reconciled
  BY <1>10 DEF Rows, Carrying, TxnPhases, NoTransaction, Reconciled, Finishes
<1>11. CASE RollsBack
  BY <1>11 DEF Rows, Carrying, TxnPhases, RollsBack, Phase
<1>12. CASE FinishesBase
  BY <1>12 DEF Rows, Carrying, TxnPhases, NoTransaction, FinishesBase, Finishes
<1>13. CASE Restarts
  BY <1>13 DEF Rows, Carrying, TxnPhases, NoTransaction, Restarts, NoRows
<1>14. CASE Observes
  BY <1>14 DEF Rows, Carrying, Observes
<1>15. CASE Ages
  BY <1>15 DEF Rows, Carrying, Ages
<1>16. ASSUME NEW n \in Names, Places(n) PROVE Rows'
  BY <1>16 DEF Rows, Carrying, Places
<1>17. ASSUME NEW n \in Names, Lands(n) PROVE Rows'
  BY <1>17 DEF Rows, Carrying, Lands
<1>18. ASSUME NEW n \in Names, ByHand(n) PROVE Rows'
  BY <1>18 DEF Rows, Carrying, ByHand
<1>19. ASSUME NEW n \in Names, Stops(n) PROVE Rows'
  BY <1>19 DEF Rows, Carrying, Stops
<1>20. ASSUME NEW n \in Names, Frees(n) PROVE Rows'
  BY <1>20 DEF Rows, Carrying, Frees
<1>21. ASSUME NEW n \in Names, Pin(n) PROVE Rows'
  BY <1>21 DEF Rows, Carrying, Pin
<1>22. CASE UNCHANGED manifestVars
  BY <1>22 DEF Rows, Carrying, manifestVars
<1>23. QED
  BY <1>1, <1>2, <1>3, <1>4, <1>5, <1>6, <1>7, <1>8, <1>9, <1>10, <1>11, <1>12, <1>13, <1>14,
     <1>15, <1>16, <1>17, <1>18, <1>19, <1>20, <1>21, <1>22 DEF ManifestNext

\* Handles and bridges go together, and a release waits for the last of them.
LEMMA BridgesStep ==
  ASSUME CatalogAssumption, ManifestInv, [ManifestNext]_manifestVars PROVE Bridges'
<1> USE DEF ManifestInv, CatalogAssumption
<1>1. ASSUME NEW cand \in Candidates, Submit(cand) PROVE Bridges'
  BY <1>1 DEF Bridges, Submit
<1>2. CASE Expires
  BY <1>2 DEF Bridges, Expires
<1>3. CASE Claims
  BY <1>3 DEF Bridges, Claims
<1>4. CASE Aborts
  BY <1>4 DEF Bridges, Aborts
<1>5. CASE Replaces
  BY <1>5 DEF Bridges, Replaces
<1>6. CASE PublishesCandidate
  BY <1>6 DEF Bridges, PublishesCandidate, Shows, Phase
<1>7. CASE Retires
  BY <1>7 DEF Shape, Bridges, Retires, ClosesOld
<1>8. CASE Releases
  BY <1>8 DEF Bridges, Releases, ReleaseReady
<1>9. CASE Fails
  BY <1>9 DEF Bridges, Fails
<1>10. CASE Reconciled
  BY <1>10 DEF Bridges, Reconciled, ReleaseReady
<1>11. CASE RollsBack
  BY <1>11 DEF Bridges, RollsBack, Shows, Phase
<1>12. CASE FinishesBase
  BY <1>12 DEF Bridges, NoTransaction, FinishesBase, Finishes
<1>13. CASE Restarts
  BY <1>13 DEF Bridges, Restarts, Closed
<1>14. CASE Observes
  BY <1>14 DEF Bridges, Observes
<1>15. CASE Ages
  BY <1>15 DEF Bridges, Ages
<1>16. ASSUME NEW n \in Names, Places(n) PROVE Bridges'
  BY <1>16 DEF Bridges, Places
<1>17. ASSUME NEW n \in Names, Lands(n) PROVE Bridges'
  BY <1>17 DEF Bridges, Lands
<1>18. ASSUME NEW n \in Names, ByHand(n) PROVE Bridges'
  BY <1>18 DEF Bridges, ByHand
<1>19. ASSUME NEW n \in Names, Stops(n) PROVE Bridges'
  BY <1>19 DEF Bridges, Stops
<1>20. ASSUME NEW n \in Names, Frees(n) PROVE Bridges'
  BY <1>20 DEF Bridges, Frees
<1>21. ASSUME NEW n \in Names, Pin(n) PROVE Bridges'
  BY <1>21 DEF Bridges, Pin
<1>22. CASE UNCHANGED manifestVars
  BY <1>22 DEF Bridges, manifestVars
<1>23. QED
  BY <1>1, <1>2, <1>3, <1>4, <1>5, <1>6, <1>7, <1>8, <1>9, <1>10, <1>11, <1>12, <1>13, <1>14,
     <1>15, <1>16, <1>17, <1>18, <1>19, <1>20, <1>21, <1>22 DEF ManifestNext

\* Every step keeps the invariant.
LEMMA ManifestInvStep ==
  ASSUME CatalogAssumption, ManifestInv, [ManifestNext]_manifestVars PROVE ManifestInv'
BY ShapeStep, FollowsStep, GenerationsStep, UnitsStep, CarriedStep, RowsStep, BridgesStep DEF
   ManifestInv

\* The invariant implies what the catalog promises in every state.
LEMMA ManifestSafe == CatalogAssumption /\ ManifestInv => ManifestSound
<1> SUFFICES ASSUME CatalogAssumption, ManifestInv PROVE ManifestSound
  OBVIOUS
<1>1. ManifestTypeOK
  BY DEF ManifestInv, Shape, Generations, Apart, Transactions, TxnPhases, NoTransaction,
     Manifests, ManifestTypeOK
<1>2. ASSUME NEW n \in Names, NEW m \in Names, n # m, units[n] # 0 PROVE units[n] # units[m]
  <2>1. units[n] = PortOf(active_models, retained, n)
    BY <1>2 DEF ManifestInv, Units
  <2>2. PortOf(active_models, retained, n) # PortOf(active_models, retained, m)
    BY <1>2, <2>1 DEF ManifestInv, Generations, Apart
  <2>3. units[m] = 0 \/ units[m] = PortOf(active_models, retained, m)
    BY DEF ManifestInv, Units
  <2>4. QED
    BY <1>2, <2>1, <2>2, <2>3
<1>3. PortsApart
  BY <1>2 DEF PortsApart
<1>4. RowsPresent
  BY DEF ManifestInv, Rows, Carrying, TxnPhases, RowsPresent
<1>5. OneBridge
  BY DEF ManifestInv, Bridges, OneBridge
<1>6. QED
  BY <1>1, <1>3, <1>4, <1>5 DEF ManifestSound

\* A step that changes what is published.
LEMMA StepJustified ==
  ASSUME CatalogAssumption, ManifestInv, ManifestNext PROVE ManifestStep
<1> DEFINE Kept == UNCHANGED active_models /\ ~(txn.phase = "published" /\ txn'.phase = "none")
<1>1. ASSUME Kept PROVE ManifestStep
  BY <1>1 DEF ManifestStep, ReactivatedClean, PinnedStays, ManifestInv, Generations, Apart
<1>2. ASSUME NEW cand \in Candidates, Submit(cand) PROVE Kept
  BY <1>2 DEF Submit
<1>3. ASSUME Expires \/ Claims \/ Aborts \/ Replaces \/ Retires \/ Fails \/ FinishesBase \/ Observes \/ Ages PROVE Kept
  BY <1>3 DEF Expires, Claims, Aborts, Replaces, Retires, Fails, FinishesBase, Observes, Ages,
     ManifestInv, Shape, Transactions, NoTransaction
<1>4. ASSUME Restarts PROVE Kept
  BY <1>4 DEF Restarts, Fenced
<1>5. ASSUME NEW n \in Names, Places(n) \/ Lands(n) \/ ByHand(n) \/ Stops(n) \/ Frees(n) \/ Pin(n) PROVE Kept
  BY <1>5 DEF Places, Lands, ByHand, Stops, Frees, Pin
<1> HIDE DEF Kept
<1>6. CASE PublishesCandidate
  <2>1. txn \in Transactions
    BY <1>6, OpenType DEF ManifestInv, PublishesCandidate
  <2>2. active_models' = txn.cand.port /\ retained = txn.kept /\ txn'.phase # "none"
    BY <1>6 DEF PublishesCandidate, Shows, Phase, ManifestInv, Follows
  <2>3. ASSUME NEW n \in Names, retained[n] # 0, active_models'[n] # 0
        PROVE  units[n] = 0 /\ n \notin leased \cup starting
    <3>1. ~InUse(n)
      BY <1>6, <2>2, <2>3 DEF PublishesCandidate, Reactivation, In
    <3>2. active_models[n] = 0
      BY <2>3 DEF ManifestInv, Generations, Apart
    <3>3. QED
      BY <3>1, <3>2 DEF InUse, References, ManifestInv, Units
  <2>4. QED
    BY <2>2, <2>3 DEF ManifestStep, ReactivatedClean, PinnedStays
<1>7. CASE RollsBack
  <2>1. txn \in Transactions /\ Carrying
    BY <1>7, OpenType DEF ManifestInv, RollsBack
  <2>2. txn'.phase = "restored" /\ active_models' = txn.base.port
    BY <1>7 DEF RollsBack, Shows, Phase
  <2>3. txn.phase = "replaced" => retained = txn.kept
    BY DEF ManifestInv, Follows
  <2>4. QED
    BY <2>1, <2>2, <2>3 DEF ManifestStep, ReactivatedClean, PinnedStays, ManifestInv, Generations,
       Apart
<1>8. CASE Releases \/ Reconciled
  <2>1. /\ txn.phase = "published" /\ Membership(txn.base, txn.cand)
        /\ UNCHANGED <<file, pins>>
    BY <1>8 DEF Releases, Reconciled, ReleaseReady
  <2>2. file = txn.cand
    BY <2>1 DEF ManifestInv, Follows
  <2>3. QED
    BY <2>1, <2>2 DEF ManifestStep, ReactivatedClean, PinnedStays, Membership, In, ManifestInv,
       Shape
<1>9. QED
  BY <1>1, <1>2, <1>3, <1>4, <1>5, <1>6, <1>7, <1>8 DEF ManifestNext

\* Whatever catalog.py removes, retains and adds again: no two units listen on one
\* port, the adapter's profile has a row for every model it may meet, and no bridge
\* of a replaced generation stays open once the fence is lifted; a removed model is
\* active again only when nothing of it is left, and a removal is released only
\* while nobody pinned the model, also when the pin came after the claim.
THEOREM ManifestHolds ==
  CatalogAssumption => (ManifestSpec => []ManifestSound /\ [][ManifestStep]_manifestVars)
<1> SUFFICES ASSUME CatalogAssumption PROVE ManifestSpec => []ManifestSound /\ [][ManifestStep]_manifestVars
  OBVIOUS
<1>1. ManifestInit => ManifestInv
  BY ManifestInitInv
<1>2. ManifestInv /\ [ManifestNext]_manifestVars => ManifestInv'
  BY ManifestInvStep
<1>3. ManifestInv => ManifestSound
  BY ManifestSafe
<1>4. ManifestInv /\ [ManifestNext]_manifestVars => [ManifestStep]_manifestVars
  BY StepJustified
<1>5. QED
  BY <1>1, <1>2, <1>3, <1>4, PTL DEF ManifestSpec

-----------------------------------------------------------------------------
(* The rows of the native profile. *)

RemovedBy(base, cand) == In(base.port) \ In(cand.port)
UpdatedBy(base, cand) == {n \in In(base.port) \cap In(cand.port) : base.cmd[n] # cand.cmd[n]}

\* Without a reconciliation a row is what the written generation says, or what the release will make of it.
Renewed ==
  /\ txn.phase = "none" => \A n \in Names : file.port[n] # 0 => rows[n] = file.cmd[n]
  /\ Carrying =>
       /\ \A n \in Names : txn.base.port[n] # 0 => rows[n] = txn.base.cmd[n]
       /\ \A n \in Names : txn.base.port[n] = 0 /\ txn.cand.port[n] # 0 => rows[n] = txn.cand.cmd[n]
       /\ LET removed == RemovedBy(txn.base, txn.cand) updated == UpdatedBy(txn.base, txn.cand)
          IN IF removed \cup updated = {} THEN retire.of # "this"
             ELSE retire.of = "this" /\ retire.removed = removed /\ retire.updated = updated

\* Every step but a reconciliation and a restart keeps what a row says.
LEMMA RenewedStep ==
  ASSUME CatalogAssumption, ~Reconciles, ManifestInv, Renewed, [ManifestNext]_manifestVars PROVE Renewed'
<1>1. ASSUME NEW cand \in Candidates, Submit(cand) PROVE Renewed'
  <2>1. /\ txn.phase = "none" /\ txn'.phase = "queued" /\ txn'.base = file /\ txn'.cand = cand /\ cand \in Files
        /\ rows' = Sync(cand) /\ retire' = ToRetire(cand)
    BY <1>1, CandidateType DEF Submit, ManifestInv
  <2>2. ASSUME NEW n \in Names, file.port[n] # 0 PROVE rows'[n] = file.cmd[n]
    BY <2>1, <2>2 DEF Sync, In, Renewed
  <2>3. ASSUME NEW n \in Names, file.port[n] = 0, cand.port[n] # 0 PROVE rows'[n] = cand.cmd[n]
    BY <2>1, <2>3 DEF Sync, In
  <2>4. IF RemovedBy(file, cand) \cup UpdatedBy(file, cand) = {} THEN retire'.of # "this"
        ELSE /\ retire'.of = "this" /\ retire'.removed = RemovedBy(file, cand)
             /\ retire'.updated = UpdatedBy(file, cand)
    BY <2>1 DEF ToRetire, RemovedBy, UpdatedBy, Changed
  <2>5. QED
    BY <2>1, <2>2, <2>3, <2>4 DEF Renewed
<1>2. CASE Expires \/ Aborts \/ FinishesBase
  <2>1. /\ txn.phase \in {"queued", "claimed", "restored"} /\ Carrying /\ txn'.phase = "none" /\ ~Carrying'
        /\ UNCHANGED <<file, rows>>
    BY <1>2 DEF Expires, Aborts, FinishesBase, Finishes, NoTransaction, Carrying, TxnPhases
  <2>2. file = txn.base
    BY <2>1 DEF ManifestInv, Follows
  <2>3. QED
    BY <2>1, <2>2 DEF Renewed
<1>3. CASE Releases
  <2>1. txn \in Transactions /\ Carrying /\ file = txn.cand
    BY <1>3, OpenType DEF Releases, ManifestInv, Follows
  <2>2. /\ txn'.phase = "none" /\ ~Carrying' /\ UNCHANGED file /\ rows' = RetiredRows
    BY <1>3 DEF Releases, Finishes, NoTransaction, Carrying, TxnPhases
  <2>3. ASSUME NEW n \in Names, file.port[n] # 0 PROVE rows'[n] = file.cmd[n]
    <3>1. n \notin RemovedBy(txn.base, txn.cand)
      BY <2>1, <2>3 DEF RemovedBy, In
    <3>2. CASE n \in UpdatedBy(txn.base, txn.cand)
      BY <2>1, <2>2, <3>1, <3>2 DEF Renewed, RetiredRows
    <3>3. CASE n \notin UpdatedBy(txn.base, txn.cand)
      <4>1. rows[n] = file.cmd[n]
        BY <2>1, <2>3, <3>3 DEF Renewed, UpdatedBy, In
      <4>2. retire.of = "this" => n \notin retire.removed \cup retire.updated
        BY <2>1, <3>1, <3>3 DEF Renewed
      <4>3. QED
        BY <2>2, <4>1, <4>2 DEF RetiredRows
    <3>4. QED
      BY <3>2, <3>3
  <2>4. QED
    BY <2>2, <2>3 DEF Renewed
<1>4. ASSUME \/ Claims \/ Replaces \/ PublishesCandidate \/ Retires \/ Fails \/ RollsBack
      PROVE  Renewed'
  <2>1. txn.phase # "none"
    BY <1>4 DEF Claims, Replaces, PublishesCandidate, Retires, Fails, RollsBack, Fenced
  <2>2. txn \in Transactions /\ Carrying
    BY <2>1, OpenType DEF ManifestInv
  <2>3. /\ txn'.base = txn.base /\ txn'.cand = txn.cand /\ txn'.phase \in TxnPhases
        /\ UNCHANGED <<rows, retire>>
    BY <1>4, <2>2 DEF Claims, Replaces, PublishesCandidate, Retires, Fails, RollsBack, Phase,
       Transactions, TxnPhases
  <2>4. QED
    BY <2>2, <2>3 DEF Renewed, TxnPhases
<1>5. CASE Reconciled \/ Restarts
  BY <1>5 DEF Reconciled, Restarts
<1>6. ASSUME \/ Observes \/ Ages
             \/ \E n \in Names : Places(n) \/ Lands(n) \/ ByHand(n) \/ Stops(n) \/ Frees(n) \/ Pin(n)
             \/ UNCHANGED manifestVars
      PROVE  Renewed'
  <2>1. UNCHANGED <<file, txn, rows, retire>>
    BY <1>6 DEF Observes, Ages, Places, Lands, ByHand, Stops, Frees, Pin, manifestVars
  <2>2. QED
    BY <2>1 DEF Renewed, Carrying
<1>7. QED
  BY <1>1, <1>2, <1>3, <1>4, <1>5, <1>6 DEF ManifestNext

\* While no transaction is finished by a reconciliation, the adapter's profile has
\* the command of every model whenever no transaction is open (maintenance_apply.py).
THEOREM RowsFollowHolds == CatalogAssumption /\ Reconciles = FALSE => (ManifestSpec => []RowsFollow)
<1> SUFFICES ASSUME CatalogAssumption, Reconciles = FALSE PROVE ManifestSpec => []RowsFollow
  OBVIOUS
<1>1. ManifestInit => ManifestInv /\ Renewed
  BY ManifestInitInv DEF ManifestInit, NoTransaction, Renewed, Carrying, TxnPhases
<1>2. ManifestInv /\ Renewed /\ [ManifestNext]_manifestVars => (ManifestInv /\ Renewed)'
  BY ManifestInvStep, RenewedStep
<1>3. Renewed => RowsFollow
  BY DEF Renewed, RowsFollow
<1>4. QED
  BY <1>1, <1>2, <1>3, PTL DEF ManifestSpec

-----------------------------------------------------------------------------
(* The configuration *)

\* An entry says one share in each of the places that say one.
OneShare(e) ==
  /\ Resolved(e, e.share) # 0
  /\ e.option # 0 => Resolved(e, e.option) = Resolved(e, e.share)
  /\ e.macro # 0 => e.macro = Resolved(e, e.share)

Shared == \A n \in Bases : OneShare(models[n])

(* Lists of members *)

\* A new last member leaves the others in their order.
LEMMA MemberAppended ==
  ASSUME NEW S, NEW s \in Seq(S), NEW n \in S, n \notin ToSet(s), IsInjective(s)
  PROVE  LET r == Append(s, n) IN
         /\ r \in Seq(S) /\ IsInjective(r) /\ ToSet(r) = ToSet(s) \cup {n}
         /\ \A a, b : b # n => (Before(r, a, b) <=> Before(s, a, b))
         /\ \A a : Before(r, a, n) <=> a \in ToSet(s)
<1> DEFINE r == Append(s, n)
<1>1. r \in Seq(S) /\ DOMAIN r = 1..Len(s)+1 /\ DOMAIN s = 1..Len(s) /\ Len(s) \in Nat
  OBVIOUS
<1>2. r[Len(s)+1] = n /\ \A i \in 1..Len(s) : r[i] = s[i]
  OBVIOUS
<1>3. \A i \in 1..Len(s) : s[i] # n
  BY <1>1 DEF ToSet
<1>4. IsInjective(r)
  BY <1>1, <1>2, <1>3 DEF IsInjective
<1>5. ToSet(r) = ToSet(s) \cup {n}
  BY <1>1, <1>2 DEF ToSet
<1>6. ASSUME NEW a, NEW b, b # n PROVE Before(r, a, b) <=> Before(s, a, b)
  BY <1>1, <1>2, <1>3, <1>6 DEF Before
<1>7. ASSUME NEW a PROVE Before(r, a, n) <=> a \in ToSet(s)
  <2>1. ASSUME Before(r, a, n) PROVE a \in ToSet(s)
    BY <1>1, <1>2, <1>3, <2>1 DEF Before, ToSet
  <2>2. ASSUME a \in ToSet(s) PROVE Before(r, a, n)
    BY <1>1, <1>2, <2>2 DEF Before, ToSet
  <2>3. QED
    BY <2>1, <2>2
<1> HIDE DEF r
<1>8. QED
  BY <1>1, <1>4, <1>5, <1>6, <1>7 DEF r

\* A sequence without its k-th element.
LEMMA Omitted ==
  ASSUME NEW S, NEW s \in Seq(S), NEW k \in 1..Len(s)
  PROVE  /\ RemoveAt(s, k) \in Seq(S) /\ Len(RemoveAt(s, k)) = Len(s)-1
         /\ \A i \in 1..Len(s)-1 : RemoveAt(s, k)[i] = IF i < k THEN s[i] ELSE s[i+1]
<1> DEFINE u == SubSeq(s, 1, k-1)  v == SubSeq(s, k+1, Len(s))
<1>1. Len(s) \in Nat /\ k \in Int /\ \A i \in 1..Len(s) : s[i] \in S
  OBVIOUS
<1>2. u \in Seq(S) /\ Len(u) = k-1 /\ \A i \in 1..k-1 : u[i] = s[i]
  <2>1. \A i \in 1..k-1 : s[i] \in S
    BY <1>1
  <2>2. k-1 \in Int /\ 1 \in Int
    BY <1>1
  <2>3. u \in Seq(S) /\ Len(u) = (IF 1 <= k-1 THEN k-1-1+1 ELSE 0) /\ \A i \in 1..k-1-1+1 : u[i] = s[1+i-1]
    BY <2>1, <2>2, SubSeqProperties
  <2> HIDE DEF u
  <2>4. QED
    BY <1>1, <2>3
<1>3. v \in Seq(S) /\ Len(v) = Len(s)-k /\ \A i \in 1..Len(s)-k : v[i] = s[k+i]
  <2>1. \A i \in k+1..Len(s) : s[i] \in S
    BY <1>1
  <2>2. k+1 \in Int /\ Len(s) \in Int
    BY <1>1
  <2>3. /\ v \in Seq(S) /\ Len(v) = IF k+1 <= Len(s) THEN Len(s)-(k+1)+1 ELSE 0
        /\ \A i \in 1..Len(s)-(k+1)+1 : v[i] = s[(k+1)+i-1]
    BY <2>1, <2>2, SubSeqProperties
  <2> HIDE DEF v
  <2>4. Len(v) = Len(s)-k /\ Len(s)-(k+1)+1 = Len(s)-k
    BY <1>1, <2>3
  <2>5. \A i \in Int : (k+1)+i-1 = k+i
    BY <1>1
  <2>6. QED
    BY <2>3, <2>4, <2>5
<1>4. RemoveAt(s, k) = u \o v
  BY DEF RemoveAt
<1> HIDE DEF u, v
<1>5. /\ u \o v \in Seq(S) /\ Len(u \o v) = Len(u) + Len(v)
      /\ \A i \in 1..Len(u) + Len(v) : (u \o v)[i] = IF i <= Len(u) THEN u[i] ELSE v[i - Len(u)]
  BY <1>2, <1>3, ConcatProperties
<1>6. Len(u) + Len(v) = Len(s)-1
  BY <1>1, <1>2, <1>3
<1>7. ASSUME NEW i \in 1..Len(s)-1 PROVE (u \o v)[i] = IF i < k THEN s[i] ELSE s[i+1]
  <2>1. (u \o v)[i] = IF i <= k-1 THEN u[i] ELSE v[i - (k-1)]
    BY <1>2, <1>5, <1>6
  <2>2. CASE i < k
    BY <1>1, <1>2, <2>1, <2>2
  <2>3. CASE ~(i < k)
    <3>1. i - (k-1) \in 1..Len(s)-k /\ k + (i - (k-1)) = i+1 /\ ~(i <= k-1)
      BY <1>1, <2>3
    <3>2. v[i - (k-1)] = s[k + (i - (k-1))]
      BY <1>3, <3>1
    <3>3. QED
      BY <2>1, <2>3, <3>1, <3>2
  <2>4. QED
    BY <2>2, <2>3
<1>8. QED
  BY <1>4, <1>5, <1>6, <1>7

\* What is left without the k-th element is in its order.
LEMMA Shortened ==
  ASSUME NEW S, NEW s, s \in Seq(S), NEW r, r \in Seq(S), NEW k \in 1..Len(s), IsInjective(s),
         Len(r) = Len(s)-1, \A i \in 1..Len(s)-1 : r[i] = IF i < k THEN s[i] ELSE s[i+1]
  PROVE  /\ IsInjective(r) /\ ToSet(r) = ToSet(s) \ {s[k]}
         /\ \A a, b : a # s[k] /\ b # s[k] => (Before(r, a, b) <=> Before(s, a, b))
<1>1. /\ DOMAIN s = 1..Len(s) /\ DOMAIN r = 1..Len(s)-1 /\ Len(s) \in Nat
      /\ \A i, j \in 1..Len(s) : s[i] = s[j] => i = j
  <2>1. DOMAIN s = 1..Len(s) /\ Len(s) \in Nat
    OBVIOUS
  <2>2. DOMAIN r = 1..Len(s)-1
    OBVIOUS
  <2>3. QED
    BY <2>1, <2>2 DEF IsInjective
<1> DEFINE from(i) == IF i < k THEN i ELSE i+1
           to(i) == IF i < k THEN i ELSE i-1
<1>2. ASSUME NEW i \in 1..Len(s)-1
      PROVE from(i) \in 1..Len(s) /\ from(i) # k /\ r[i] = s[from(i)]
  BY <1>1
<1>3. ASSUME NEW i \in 1..Len(s), i # k
      PROVE to(i) \in 1..Len(s)-1 /\ from(to(i)) = i
  BY <1>1, <1>3
<1>4. \A i, j \in Int : /\ i < j => from(i) < from(j)
                        /\ i # j => from(i) # from(j)
  BY <1>1
<1>5. \A i, j \in 1..Len(s) : i # k /\ j # k /\ i < j => to(i) < to(j)
  BY <1>1
<1> HIDE DEF from, to
<1>6. ASSUME NEW i \in 1..Len(s), i # k PROVE to(i) \in 1..Len(s)-1 /\ r[to(i)] = s[i]
  BY <1>2, <1>3, <1>6
<1>7. IsInjective(r)
  <2>1. SUFFICES ASSUME NEW i \in 1..Len(s)-1, NEW j \in 1..Len(s)-1, r[i] = r[j] PROVE i = j
    BY <1>1 DEF IsInjective
  <2>2. from(i) = from(j)
    BY <1>1, <1>2, <2>1
  <2>3. i \in Int /\ j \in Int
    OBVIOUS
  <2>4. QED
    BY <1>4, <2>2, <2>3
<1>8. ToSet(r) = ToSet(s) \ {s[k]}
  <2>1. ASSUME NEW x \in ToSet(r) PROVE x \in ToSet(s) \ {s[k]}
    <3>1. PICK i \in 1..Len(s)-1 : x = r[i]
      BY <1>1 DEF ToSet
    <3>2. QED
      BY <1>1, <1>2, <3>1 DEF ToSet
  <2>2. ASSUME NEW x \in ToSet(s), x # s[k] PROVE x \in ToSet(r)
    <3>1. PICK i \in 1..Len(s) : x = s[i]
      BY <1>1 DEF ToSet
    <3>2. to(i) \in 1..Len(s)-1 /\ r[to(i)] = x
      BY <1>6, <2>2, <3>1
    <3>3. QED
      BY <1>1, <3>2 DEF ToSet
  <2>3. QED
    BY <2>1, <2>2
<1>9. ASSUME NEW a, NEW b, a # s[k], b # s[k] PROVE Before(r, a, b) <=> Before(s, a, b)
  <2>1. ASSUME Before(r, a, b) PROVE Before(s, a, b)
    <3>1. PICK i, j \in 1..Len(s)-1 : i < j /\ r[i] = a /\ r[j] = b
      BY <1>1, <2>1 DEF Before
    <3>2. i \in Int /\ j \in Int
      OBVIOUS
    <3>3. from(i) \in 1..Len(s) /\ from(j) \in 1..Len(s) /\ from(i) < from(j) /\ s[from(i)] = a /\ s[from(j)] = b
      BY <1>2, <1>4, <3>1, <3>2
    <3>4. QED
      BY <1>1, <3>3 DEF Before
  <2>2. ASSUME Before(s, a, b) PROVE Before(r, a, b)
    <3>1. PICK i, j \in 1..Len(s) : i < j /\ s[i] = a /\ s[j] = b
      BY <1>1, <2>2 DEF Before
    <3>2. i # k /\ j # k
      BY <1>9, <3>1
    <3>3. to(i) \in 1..Len(s)-1 /\ to(j) \in 1..Len(s)-1 /\ to(i) < to(j) /\ r[to(i)] = a /\ r[to(j)] = b
      BY <1>5, <1>6, <3>1, <3>2
    <3>4. QED
      BY <1>1, <3>3 DEF Before
  <2>3. QED
    BY <2>1, <2>2
<1>10. QED
  BY <1>7, <1>8, <1>9

\* A member that goes leaves the others in their order.
LEMMA Left ==
  ASSUME NEW S, NEW s, s \in Seq(S), NEW n, IsInjective(s)
  PROVE  /\ Dropped(s, n) \in Seq(S) /\ IsInjective(Dropped(s, n)) /\ ToSet(Dropped(s, n)) = ToSet(s) \ {n}
         /\ \A a, b : a # n /\ b # n => (Before(Dropped(s, n), a, b) <=> Before(s, a, b))
<1>1. DOMAIN s = 1..Len(s)
  OBVIOUS
<1>2. CASE ~Contains(s, n)
  <2>1. Dropped(s, n) = s /\ n \notin ToSet(s)
    BY <1>1, <1>2 DEF Dropped, Contains, ToSet
  <2>2. QED
    BY <2>1
<1>3. CASE Contains(s, n)
  <2>1. \E i \in DOMAIN s : s[i] = n
    BY <1>1, <1>3 DEF Contains
  <2>2. PICK k \in 1..Len(s) : s[k] = n /\ Dropped(s, n) = RemoveAt(s, k)
    BY <1>1, <1>3, <2>1 DEF Dropped
  <2>3. /\ RemoveAt(s, k) \in Seq(S) /\ Len(RemoveAt(s, k)) = Len(s)-1
        /\ \A i \in 1..Len(s)-1 : RemoveAt(s, k)[i] = IF i < k THEN s[i] ELSE s[i+1]
    BY Omitted
  <2>4. /\ IsInjective(RemoveAt(s, k)) /\ ToSet(RemoveAt(s, k)) = ToSet(s) \ {s[k]}
        /\ \A a, b : a # s[k] /\ b # s[k] => (Before(RemoveAt(s, k), a, b) <=> Before(s, a, b))
    BY <2>3, Shortened
  <2>5. QED
    BY <2>2, <2>3, <2>4
<1>4. QED
  BY <1>2, <1>3

-----------------------------------------------------------------------------
(* Shares *)

\* Three values are finitely many.
LEMMA FewFinite == \A a, b, c : IsFiniteSet({a} \cup {b} \cup {c})
BY FS_Singleton, FS_AddElement

\* A consistent entry says one share.
LEMMA ConsistentShares ==
  ASSUME PortsAssumption, NEW e \in Entries, Consistent(e) PROVE OneShare(e)
<1> DEFINE V == {Resolved(e, v) : v \in {e.share, e.option, e.macro} \ {0}}
       D == {Resolved(e, e.share)} \cup {Resolved(e, e.option)} \cup {Resolved(e, e.macro)}
<1>1. V \subseteq D /\ IsFiniteSet(D) /\ Cardinality(V) = 1
  BY FewFinite DEF Consistent
<1> HIDE DEF V, D
<1>2. PICK x : V = {x}
  BY <1>1, FS_Subset, FS_Singleton
<1>3. /\ e.share # 0 /\ e.share \in Utils \cup {Macro} /\ e.option \in Utils \cup {Macro, 0}
      /\ e.macro \in Utils \cup {0} /\ Utils \subseteq Nat \ {0}
  BY DEF Entries, PortsAssumption, Macro
<1>4. \A v \in {e.share, e.option, e.macro} \ {0} : Resolved(e, v) = x
  BY <1>2 DEF V
<1>5. e.macro # 0 => Resolved(e, e.macro) = e.macro
  BY <1>3 DEF Resolved, Macro
<1>6. Resolved(e, e.share) # 0
  BY DEF Consistent
<1>7. QED
  BY <1>3, <1>4, <1>5, <1>6 DEF OneShare

\* The share the registry records of an entry is the one it says.
LEMMA EffectiveShare ==
  ASSUME PortsAssumption, NEW e \in Entries, OneShare(e)
  PROVE  Effective(e) \in Utils \cup {0} /\ (Effective(e) # 0 => Effective(e) = Resolved(e, e.share))
<1> DEFINE V == {e.macro, e.option} \ {0, Macro}
<1>1. /\ e.option \in Utils \cup {Macro, 0} /\ e.macro \in Utils \cup {0}
  BY DEF Entries
<1>2. Effective(e) = IF Cardinality(V) = 1 THEN CHOOSE v \in V : TRUE ELSE 0
  BY DEF Effective
<1>3. CASE Cardinality(V) = 1
  <2>1. \E x : V = {x}
    <3> DEFINE D == {e.macro} \cup {e.option} \cup {e.option}
    <3>1. V \subseteq D /\ IsFiniteSet(D)
      BY FewFinite
    <3> HIDE DEF V, D
    <3>2. QED
      BY <1>3, <3>1, FS_Subset, FS_Singleton
  <2>2. Effective(e) \in V
    BY <1>2, <1>3, <2>1
  <2>3. Effective(e) \in Utils
    BY <1>1, <2>2
  <2>4. Effective(e) = e.macro \/ (Effective(e) = e.option /\ e.option \notin {0, Macro})
    BY <2>2
  <2>5. Effective(e) # 0
    BY <2>2
  <2>6. QED
    BY <2>3, <2>4, <2>5 DEF OneShare, Resolved
<1>4. CASE Cardinality(V) # 1
  BY <1>2, <1>4
<1>5. QED
  BY <1>3, <1>4

\* What an entry records of its share is what every place says.
Told(e) ==
  e.known # 0 => /\ Resolved(e, e.share) = e.known
                 /\ e.option # 0 => Resolved(e, e.option) = e.known

OwnStop(n, e) ==
  /\ e.stopPort # 0 => e.stopPort = e.daemon
  /\ e.stopModel # NoName => e.stopModel = n
  /\ e.unit = n

\* A clone is typed, is told the share that is recorded, and stops itself.
LEMMA CloneFacts ==
  ASSUME PortsAssumption, NEW e \in Entries, OneShare(e), NEW n \in ModelNames, NEW base \in ModelNames,
         NEW o \in Overrides, NEW daemon \in DaemonPorts, NEW listen \in Listens(e, daemon),
         NEW c, c = Recorded(Clone(e, n, o, daemon, listen), base, o)
  PROVE  /\ c \in Entries /\ c.base = base /\ c.daemon = daemon /\ c.listen = listen /\ c.aliases = o.aliases
         /\ Told(c) /\ OwnStop(n, c)
<1> DEFINE w == WithUtil(e, o.util)
<1>1. listen \in WrapperPorts \cup {Template}
  BY DEF Listens
<1>2. o.util \in Utils \cup {0} /\ o.aliases \in SUBSET Aliases /\ o.limit \in Nat /\ DefaultLimit \in Nat
  BY DEF Overrides, AliasSets, PortsAssumption
<1>3. /\ w \in Entries
      /\ o.util = 0 => w = e
      /\ o.util # 0 => /\ Resolved(w, w.share) = o.util
                       /\ w.option # 0 => Resolved(w, w.option) = o.util
  <2>1. CASE o.util = 0
    BY <2>1 DEF WithUtil
  <2>2. CASE o.util # 0
    <3>1. o.util \in Utils /\ o.util # 0
      BY <1>2, <2>2
    <3>2. w = [e EXCEPT !.share = IF @ = Macro THEN Macro ELSE o.util,
                        !.option = IF @ \in {0, Macro} THEN @ ELSE o.util,
                        !.macro = IF @ # 0 \/ Macro \in {e.share, e.option} THEN o.util ELSE 0]
      BY <2>2 DEF WithUtil
    <3>3. /\ w.share = (IF e.share = Macro THEN Macro ELSE o.util)
          /\ w.option = (IF e.option \in {0, Macro} THEN e.option ELSE o.util)
          /\ w.macro = (IF e.macro # 0 \/ Macro \in {e.share, e.option} THEN o.util ELSE 0)
      BY <3>2 DEF Entries
    <3>4. w \in Entries
      BY <3>1, <3>2, ZenonT(60) DEF Entries
    <3>5. Macro # 0 /\ o.util # Macro
      BY <3>1 DEF Macro, PortsAssumption
    <3>6. QED
      BY <2>2, <3>3, <3>4, <3>5 DEF Resolved
  <2>3. QED
    BY <2>1, <2>2
<1> HIDE DEF w
<1> DEFINE d == [w EXCEPT !.unit = n, !.daemon = daemon, !.listen = listen]
           f == [d EXCEPT !.stopPort = StopPort(e, daemon), !.stopModel = StopModel(e, n),
                          !.aliases = o.aliases, !.limit = EffectiveLimit(e, o)]
           known == IF o.util # 0 THEN o.util ELSE Effective(f)
<1>4. d = [w EXCEPT !.unit = n, !.daemon = daemon, !.listen = listen]
  OBVIOUS
<1>5. f = [d EXCEPT !.stopPort = StopPort(e, daemon), !.stopModel = StopModel(e, n),
                    !.aliases = o.aliases, !.limit = EffectiveLimit(e, o)]
  OBVIOUS
<1>6. c = [f EXCEPT !.base = base, !.wanted = o.limit, !.known = known]
  BY DEF Recorded, Clone, Command, w
<1>7. known = IF o.util # 0 THEN o.util ELSE Effective(f)
  OBVIOUS
<1> HIDE DEF d, f, known
<1>8. d \in Entries /\ d.unit = n /\ d.daemon = daemon /\ d.listen = listen
      /\ d.share = w.share /\ d.option = w.option /\ d.macro = w.macro
  BY <1>1, <1>3, <1>4 DEF Entries
<1>9. StopPort(e, daemon) \in {0, daemon} /\ StopModel(e, n) \in {NoName, n} /\ EffectiveLimit(e, o) \in Nat
  BY <1>2 DEF StopPort, StopModel, EffectiveLimit, Entries
<1>10. /\ f \in Entries /\ f.unit = d.unit /\ f.daemon = d.daemon /\ f.listen = d.listen
       /\ f.aliases = o.aliases /\ f.stopPort = StopPort(e, daemon) /\ f.stopModel = StopModel(e, n)
       /\ f.share = d.share /\ f.option = d.option /\ f.macro = d.macro
  <2>1. /\ StopPort(e, daemon) \in DaemonPorts \cup ReservedPorts \cup {0}
        /\ StopModel(e, n) \in ModelNames \cup {NoName} /\ o.aliases \in SUBSET Aliases
        /\ EffectiveLimit(e, o) \in Nat /\ d \in Entries
    BY <1>2, <1>8, <1>9
  <2>2. f \in Entries
    BY <1>5, <2>1 DEF Entries
  <2>3. QED
    BY <1>5, <2>1, <2>2 DEF Entries
<1>11. /\ known \in Utils \cup {0}
       /\ known # 0 => Resolved(f, f.share) = known
       /\ known # 0 /\ f.option # 0 => Resolved(f, f.option) = known
  <2>1. f.share = w.share /\ f.option = w.option /\ f.macro = w.macro
    BY <1>8, <1>10
  <2>2. CASE o.util # 0
    BY <1>2, <1>3, <1>7, <2>1, <2>2 DEF Resolved
  <2>3. CASE o.util = 0
    <3>1. OneShare(f)
      BY <1>3, <2>1, <2>3 DEF OneShare, Resolved
    <3>2. Effective(f) \in Utils \cup {0} /\ (Effective(f) # 0 => Effective(f) = Resolved(f, f.share))
      BY <1>10, <3>1, EffectiveShare
    <3>3. QED
      BY <1>7, <2>3, <3>1, <3>2 DEF OneShare
  <2>4. QED
    BY <2>2, <2>3
<1>12. /\ c \in Entries /\ c.base = base /\ c.daemon = f.daemon /\ c.listen = f.listen
       /\ c.aliases = f.aliases /\ c.unit = f.unit /\ c.stopPort = f.stopPort /\ c.stopModel = f.stopModel
       /\ c.share = f.share /\ c.option = f.option /\ c.macro = f.macro /\ c.known = known
  <2>1. base \in ModelNames \cup {NoName} /\ o.limit \in Nat /\ known \in Utils \cup {0} /\ f \in Entries
    BY <1>2, <1>10, <1>11
  <2>2. c \in Entries
    BY <1>6, <2>1, ZenonT(60) DEF Entries
  <2>3. QED
    BY <1>6, <2>1, <2>2 DEF Entries
<1>13. Told(c)
  <2>1. Resolved(c, c.share) = Resolved(f, f.share) /\ Resolved(c, c.option) = Resolved(f, f.option)
    BY <1>12 DEF Resolved
  <2>2. c.known = known /\ c.option = f.option
    BY <1>12
  <2>3. QED
    BY <1>11, <2>1, <2>2 DEF Told
<1>14. OwnStop(n, c)
  BY <1>8, <1>9, <1>10, <1>12 DEF OwnStop
<1>15. QED
  BY <1>8, <1>10, <1>12, <1>13, <1>14

-----------------------------------------------------------------------------
(* The invariant *)

\* The entries agree with each other, and each with itself.
Agree == PortsDistinct /\ IdsDistinct /\ StopsItself /\ UtilAgrees /\ Shared

EntriesFormed == Configured \subseteq ModelNames /\ models \in [Configured -> Entries]

\* The shares of all entries agree when each entry tells its own.
LEMMA ToldAgrees == UtilAgrees <=> \A n \in Configured : Told(models[n])
BY DEF UtilAgrees, Told, Resolved

\* The stop commands are right when each entry stops itself.
LEMMA OwnStopAgrees == StopsItself <=> \A n \in Configured : OwnStop(n, models[n])
BY DEF StopsItself, OwnStop

\* A new entry with ports and ids of its own agrees with the others.
LEMMA EntryAdded ==
  ASSUME PortsAssumption, EntriesFormed, Agree, NEW n \in ModelNames, NEW e \in Entries, models' = With(n, e),
         n \notin Configured, e.daemon \notin DaemonPortsTaken,
         e.listen = Template \/ \A m \in Configured : models[m].listen # e.listen,
         ({n} \cup e.aliases) \cap Reserved = {},
         Told(e), OwnStop(n, e), e.base = NoName => OneShare(e)
  PROVE  EntriesFormed' /\ Agree'
<1>1. /\ Configured' = Configured \cup {n} /\ models'[n] = e
      /\ \A m \in Configured : m # n /\ models'[m] = models[m]
  BY DEF With, Configured
<1>2. EntriesFormed'
  <2>1. models' \in [Configured' -> Entries]
    BY <1>1 DEF With, EntriesFormed
  <2>2. QED
    BY <1>1, <2>1 DEF EntriesFormed
<1>3. PortsDistinct'
  <2>1. \A m \in Configured : models[m].daemon # e.daemon
    BY DEF DaemonPortsTaken
  <2>2. \A m \in Configured : models[m].listen = e.listen => e.listen = 0
    BY DEF Template
  <2>3. QED
    BY <1>1, <2>1, <2>2 DEF PortsDistinct, Agree
<1>4. IdsDistinct'
  <2>1. \A m \in Configured : ({m} \cup models[m].aliases) \cap ({n} \cup e.aliases) = {}
    BY DEF Reserved, Ids
  <2>2. QED
    BY <1>1, <2>1 DEF IdsDistinct, Agree
<1>5. StopsItself'
  <2>1. \A m \in Configured : OwnStop(m, models[m])
    BY OwnStopAgrees DEF Agree
  <2>2. \A m \in Configured' : OwnStop(m, models'[m])
    BY <1>1, <2>1
  <2>3. QED
    BY <2>2 DEF OwnStop, StopsItself
<1>6. UtilAgrees'
  <2>1. \A m \in Configured : Told(models[m])
    BY ToldAgrees DEF Agree
  <2>2. \A m \in Configured' : Told(models'[m])
    BY <1>1, <2>1
  <2>3. QED
    BY <2>2 DEF Told, UtilAgrees, Resolved
<1>7. Shared'
  BY <1>1 DEF Shared, Bases, Records, Agree
<1>8. QED
  BY <1>2, <1>3, <1>4, <1>5, <1>6, <1>7 DEF Agree

\* New limits change nothing else.
LEMMA LimitsChanged ==
  ASSUME EntriesFormed, Agree, models' \in [Configured -> Entries],
         \A n \in Configured : \E l \in Nat : models'[n] = [models[n] EXCEPT !.limit = l]
  PROVE  EntriesFormed' /\ Agree' /\ Bases' = Bases
<1>1. Configured' = Configured
  BY DEF Configured
<1>2. ASSUME NEW n \in Configured
      PROVE  /\ models'[n].daemon = models[n].daemon /\ models'[n].listen = models[n].listen
             /\ models'[n].aliases = models[n].aliases /\ models'[n].stopPort = models[n].stopPort
             /\ models'[n].stopModel = models[n].stopModel /\ models'[n].unit = models[n].unit
             /\ models'[n].share = models[n].share /\ models'[n].option = models[n].option
             /\ models'[n].macro = models[n].macro /\ models'[n].known = models[n].known
             /\ models'[n].base = models[n].base
  <2>1. models[n] \in Entries
    BY DEF EntriesFormed
  <2>2. PICK l \in Nat : models'[n] = [models[n] EXCEPT !.limit = l]
    OBVIOUS
  <2>3. QED
    BY <2>1, <2>2 DEF Entries
<1>3. EntriesFormed'
  BY <1>1 DEF EntriesFormed
<1>4. PortsDistinct'
  BY <1>1, <1>2 DEF PortsDistinct, Agree
<1>5. IdsDistinct'
  BY <1>1, <1>2 DEF IdsDistinct, Agree
<1>6. StopsItself'
  BY <1>1, <1>2 DEF StopsItself, Agree
<1>7. UtilAgrees'
  BY <1>1, <1>2 DEF UtilAgrees, Agree
<1>8. Bases' = Bases
  BY <1>1, <1>2 DEF Bases, Records
<1>9. Shared'
  <2>1. ASSUME NEW n \in Bases PROVE OneShare(models'[n])
    <3>1. n \in Configured /\ OneShare(models[n])
      BY DEF Bases, Agree, Shared
    <3>2. QED
      BY <1>2, <3>1 DEF OneShare, Resolved
  <2>2. QED
    BY <1>8, <2>1 DEF Shared
<1>10. QED
  BY <1>3, <1>4, <1>5, <1>6, <1>7, <1>8, <1>9 DEF Agree

\* What remains after a removal still agrees.
LEMMA EntryRemoved ==
  ASSUME EntriesFormed, Agree, NEW n \in Configured, models' = Without(n) PROVE EntriesFormed' /\ Agree'
<1>1. Configured' = Configured \ {n} /\ \A m \in Configured \ {n} : models'[m] = models[m]
  BY DEF Without, Configured
<1>2. EntriesFormed'
  BY <1>1 DEF EntriesFormed, Without
<1>3. PortsDistinct' /\ IdsDistinct'
  BY <1>1 DEF PortsDistinct, IdsDistinct, Agree
<1>4. StopsItself' /\ UtilAgrees'
  BY <1>1 DEF StopsItself, UtilAgrees, Agree
<1>5. Shared'
  BY <1>1 DEF Shared, Bases, Records, Agree
<1>6. QED
  BY <1>2, <1>3, <1>4, <1>5 DEF Agree

-----------------------------------------------------------------------------
(* The administrator's part *)

Members ==
  /\ groups \in [Groups -> Seq(ModelNames)]
  /\ \A g \in Groups : IsInjective(groups[g]) /\ ToSet(groups[g]) \subseteq Configured
AdminFormed ==
  /\ admin = [entries |-> admin.entries, groups |-> admin.groups]
  /\ admin.entries \in [DOMAIN admin.entries -> Entries]
  /\ admin.groups \in [Groups -> Seq(ModelNames)]

RegistryInv == EntriesFormed /\ Agree /\ Members /\ AdminFormed /\ AdminKept

\* The first configuration is the administrator's.
LEMMA RegistryInitInv == PortsAssumption /\ RegistryInit => RegistryInv
<1> SUFFICES ASSUME PortsAssumption, RegistryInit PROVE RegistryInv
  OBVIOUS
<1>1. PICK listen \in [HandWritten -> WrapperPorts \cup {Template}], helper \in [HandWritten -> BOOLEAN],
           share \in [HandWritten -> Utils \cup {Macro}], option \in [HandWritten -> Utils \cup {Macro, 0}],
           macro \in [HandWritten -> Utils \cup {0}], alias \in [HandWritten -> AliasSets] :
        /\ \A m, n \in HandWritten : m # n /\ listen[m] = listen[n] => listen[m] = Template
        /\ \A m, n \in HandWritten : m # n => ({m} \cup alias[m]) \cap ({n} \cup alias[n]) = {}
        /\ models = [n \in HandWritten |->
                       Written(n, HandPorts[n], listen[n], helper[n], share[n], option[n], macro[n], alias[n])]
        /\ \A n \in HandWritten : Consistent(models[n])
  BY DEF RegistryInit
<1>2. Configured = HandWritten
  BY <1>1 DEF Configured
<1>3. ASSUME NEW n \in HandWritten
      PROVE  /\ models[n] \in Entries /\ models[n].base = NoName /\ models[n].unit = n
             /\ models[n].daemon = HandPorts[n] /\ models[n].listen = listen[n] /\ models[n].aliases = alias[n]
             /\ models[n].stopPort \in {0, HandPorts[n]} /\ models[n].stopModel \in {NoName, n}
             /\ models[n].known = 0
  <2>1. models[n] = Written(n, HandPorts[n], listen[n], helper[n], share[n], option[n], macro[n], alias[n])
    BY <1>1
  <2>2. n \in ModelNames /\ HandPorts[n] \in DaemonPorts
    BY DEF PortsAssumption
  <2>3. /\ listen[n] \in WrapperPorts \cup {Template} /\ share[n] \in Utils \cup {Macro}
        /\ option[n] \in Utils \cup {Macro, 0} /\ macro[n] \in Utils \cup {0}
    BY <1>1
  <2>4. alias[n] \in SUBSET Aliases
    BY <1>1 DEF AliasSets
  <2>5. QED
    BY <2>1, <2>2, <2>3, <2>4 DEF Written, Entries
<1>4. EntriesFormed
  BY <1>1, <1>2, <1>3 DEF EntriesFormed, PortsAssumption
<1>5. PortsDistinct
  BY <1>1, <1>2, <1>3 DEF PortsDistinct, PortsAssumption, Template
<1>6. IdsDistinct
  BY <1>1, <1>2, <1>3 DEF IdsDistinct
<1>7. StopsItself
  BY <1>2, <1>3 DEF StopsItself
<1>8. UtilAgrees
  BY <1>2, <1>3 DEF UtilAgrees
<1>9. Shared
  BY <1>1, <1>2, <1>3, ConsistentShares DEF Shared, Bases, Records
<1>10. Bases = Configured
  BY <1>2, <1>3 DEF Bases, Records
<1>11. ASSUME NEW g \in Groups
       PROVE  groups[g] \in Seq(ModelNames) /\ IsInjective(groups[g]) /\ ToSet(groups[g]) \subseteq Configured
  <2>1. CASE groups[g] = <<>>
    BY <2>1 DEF IsInjective, ToSet
  <2>2. ASSUME NEW n \in HandWritten, groups[g] = <<n>>
        PROVE  groups[g] \in Seq(ModelNames) /\ IsInjective(groups[g]) /\ ToSet(groups[g]) \subseteq Configured
    <3>1. n \in ModelNames /\ DOMAIN <<n>> = 1..1 /\ <<n>>[1] = n
      BY <2>2 DEF PortsAssumption
    <3>2. QED
      BY <1>2, <2>2, <3>1 DEF IsInjective, ToSet
  <2>3. QED
    BY <2>1, <2>2 DEF RegistryInit
<1>12. Members
  BY <1>11 DEF Members, RegistryInit
<1>13. admin = [entries |-> models, groups |-> groups]
  BY DEF RegistryInit
<1>14. AdminFormed
  BY <1>4, <1>12, <1>13, <1>2 DEF AdminFormed, Members, EntriesFormed, Configured
<1>15. SameEntries /\ SameMembers
  <2>1. ASSUME NEW g \in Groups
        PROVE IsInjective(admin.groups[g]) /\ ToSet(admin.groups[g]) = ToSet(groups[g]) \cap Bases
    BY <1>10, <1>11, <1>13
  <2>2. QED
    BY <1>10, <1>13, <2>1 DEF SameEntries, SameMembers, Configured
<1>16. QED
  BY <1>4, <1>5, <1>6, <1>7, <1>8, <1>9, <1>12, <1>14, <1>15 DEF RegistryInv, Agree, AdminKept

\* A clone joins the groups of its base, and nobody else's place changes.
LEMMA JoinsKeep ==
  ASSUME Members, NEW base, NEW n \in ModelNames, n \notin Configured, NEW g \in Groups
  PROVE  LET r == Joins(base, n)[g] IN
         /\ r \in Seq(ModelNames) /\ IsInjective(r) /\ ToSet(r) \subseteq ToSet(groups[g]) \cup {n}
         /\ ToSet(groups[g]) \subseteq ToSet(r)
         /\ \A a, b : a # n /\ b # n => (Before(r, a, b) <=> Before(groups[g], a, b))
<1>1. groups[g] \in Seq(ModelNames) /\ IsInjective(groups[g]) /\ n \notin ToSet(groups[g])
  BY DEF Members
<1>2. CASE Contains(groups[g], base)
  <2>1. Joins(base, n)[g] = Append(groups[g], n)
    BY <1>2 DEF Joins
  <2>2. /\ Append(groups[g], n) \in Seq(ModelNames) /\ IsInjective(Append(groups[g], n))
        /\ ToSet(Append(groups[g], n)) = ToSet(groups[g]) \cup {n}
        /\ \A a, b : b # n => (Before(Append(groups[g], n), a, b) <=> Before(groups[g], a, b))
    BY <1>1, MemberAppended
  <2>3. QED
    BY <2>1, <2>2
<1>3. CASE ~Contains(groups[g], base)
  BY <1>1, <1>3 DEF Joins
<1>4. QED
  BY <1>2, <1>3

\* What an administrator wrote stays when only entries of clones come and go.
LEMMA EntriesKept ==
  ASSUME SameEntries, admin' = admin, Bases' = Bases, \A n \in Bases : models'[n] = models[n]
  PROVE  SameEntries'
BY DEF SameEntries

\* Members that are not the administrator's come and go beside the others.
LEMMA MembersKept ==
  ASSUME SameMembers, admin' = admin, Bases' = Bases, NEW n, n \notin Bases,
         \A g \in Groups : /\ ToSet(groups'[g]) \cup {n} = ToSet(groups[g]) \cup {n}
                           /\ \A a, b : a # n /\ b # n => (Before(groups'[g], a, b) <=> Before(groups[g], a, b))
  PROVE  SameMembers'
<1>1. ASSUME NEW g \in Groups PROVE ToSet(groups'[g]) \cap Bases = ToSet(groups[g]) \cap Bases
  OBVIOUS
<1>2. \A m \in Bases : m # n
  OBVIOUS
<1>3. ASSUME NEW g \in Groups, NEW a \in Bases, NEW b \in Bases
      PROVE  Before(groups'[g], a, b) <=> Before(admin.groups[g], a, b)
  BY <1>2, <1>3 DEF SameMembers
<1>4. QED
  BY <1>1, <1>3 DEF SameMembers

\* A registration adds a consistent entry under a free name and free ports.
LEMMA AddStep ==
  ASSUME PortsAssumption, RegistryInv, NEW n \in ModelNames, NEW base \in Configured, NEW o \in Overrides,
         AddModel(n, base, o)
  PROVE  RegistryInv'
<1>1. base \in Bases /\ base \in ModelNames /\ base # NoName /\ models[base] \in Entries /\ OneShare(models[base])
  BY DEF AddModel, RegistryInv, EntriesFormed, Agree, Shared, PortsAssumption
<1>2. ({n} \cup o.aliases) \cap Reserved = {} /\ n \notin Configured
  BY DEF AddModel, FreeIds, Reserved, Ids
<1>3. PICK daemon \in DaemonPorts :
        /\ Least(daemon, DaemonPorts \ DaemonPortsTaken)
        /\ \E listen \in Listens(models[base], daemon) :
              Writes(With(n, Recorded(Clone(models[base], n, o, daemon, listen), base, o)))
  BY DEF AddModel
<1>4. PICK listen \in Listens(models[base], daemon) :
        Writes(With(n, Recorded(Clone(models[base], n, o, daemon, listen), base, o)))
  BY <1>3
<1> DEFINE e == Recorded(Clone(models[base], n, o, daemon, listen), base, o)
<1>5. /\ e \in Entries /\ e.base = base /\ e.daemon = daemon /\ e.listen = listen /\ e.aliases = o.aliases
      /\ Told(e) /\ OwnStop(n, e)
  BY <1>1, CloneFacts
<1>6. models' = With(n, e) /\ daemon \notin DaemonPortsTaken
  BY <1>3, <1>4 DEF Writes, Least
<1>7. listen = Template \/ \A m \in Configured : models[m].listen # listen
  BY DEF Listens, Least, WrapperPortsTaken
<1> HIDE DEF e
<1>8. EntriesFormed' /\ Agree'
  BY <1>1, <1>2, <1>5, <1>6, <1>7, EntryAdded DEF RegistryInv
<1>9. /\ Configured' = Configured \cup {n} /\ models'[n] = e
      /\ \A m \in Configured : m # n /\ models'[m] = models[m]
  BY <1>2, <1>6 DEF With, Configured
<1>10. Bases' = Bases /\ n \notin Bases /\ \A m \in Bases : models'[m] = models[m]
  BY <1>1, <1>2, <1>5, <1>9 DEF Bases, Records
<1>11. groups' = Joins(base, n) /\ admin' = admin
  BY DEF AddModel
<1>12. ASSUME NEW g \in Groups
       PROVE  /\ groups'[g] \in Seq(ModelNames) /\ IsInjective(groups'[g])
              /\ ToSet(groups'[g]) \subseteq ToSet(groups[g]) \cup {n} /\ ToSet(groups[g]) \subseteq ToSet(groups'[g])
              /\ \A a, b : a # n /\ b # n => (Before(groups'[g], a, b) <=> Before(groups[g], a, b))
  BY <1>2, <1>11, JoinsKeep DEF RegistryInv
<1>13. Members'
  <2>1. groups' = [g \in Groups |-> groups'[g]]
    BY <1>11 DEF Joins
  <2>2. \A g \in Groups : ToSet(groups'[g]) \subseteq Configured'
    BY <1>9, <1>12 DEF RegistryInv, Members
  <2>3. groups' \in [Groups -> Seq(ModelNames)]
    BY <1>12, <2>1
  <2>4. QED
    BY <1>12, <2>2, <2>3 DEF Members
<1>14. SameMembers'
  BY <1>10, <1>11, <1>12, MembersKept DEF RegistryInv, AdminKept
<1>15. SameEntries'
  BY <1>10, <1>11, EntriesKept DEF RegistryInv, AdminKept
<1>16. AdminFormed'
  BY <1>11 DEF RegistryInv, AdminFormed
<1>17. QED
  BY <1>8, <1>13, <1>14, <1>15, <1>16 DEF RegistryInv, AdminKept

\* A removal takes the entry and its memberships, and nothing of an administrator.
LEMMA RemoveStep ==
  ASSUME RegistryInv, NEW n \in ModelNames, RemoveModel(n) PROVE RegistryInv'
<1>1. n \in Records /\ n \in Configured /\ n \notin Bases /\ models' = Without(n) /\ groups' = Leaves(n) /\ admin' = admin
  BY DEF RemoveModel, Records, Bases, Writes
<1>2. EntriesFormed' /\ Agree'
  BY <1>1, EntryRemoved DEF RegistryInv
<1>3. Configured' = Configured \ {n} /\ \A m \in Configured \ {n} : models'[m] = models[m]
  BY <1>1 DEF Without, Configured
<1>4. Bases' = Bases /\ \A m \in Bases : models'[m] = models[m]
  BY <1>1, <1>3 DEF Bases, Records
<1>5. ASSUME NEW g \in Groups
      PROVE  /\ groups'[g] \in Seq(ModelNames) /\ IsInjective(groups'[g]) /\ ToSet(groups'[g]) = ToSet(groups[g]) \ {n}
             /\ \A a, b : a # n /\ b # n => (Before(groups'[g], a, b) <=> Before(groups[g], a, b))
  <2>1. groups[g] \in Seq(ModelNames) /\ IsInjective(groups[g]) /\ groups'[g] = Dropped(groups[g], n)
    BY <1>1 DEF RegistryInv, Members, Leaves
  <2>2. QED
    BY <2>1, Left
<1>6. Members'
  <2>1. groups' = [g \in Groups |-> groups'[g]]
    BY <1>1 DEF Leaves
  <2>2. \A g \in Groups : ToSet(groups'[g]) \subseteq Configured'
    BY <1>3, <1>5 DEF RegistryInv, Members
  <2>3. groups' \in [Groups -> Seq(ModelNames)]
    BY <1>5, <2>1
  <2>4. QED
    BY <1>5, <2>2, <2>3 DEF Members
<1>7. SameMembers'
  <2>1. \A g \in Groups : ToSet(groups'[g]) \cup {n} = ToSet(groups[g]) \cup {n}
    BY <1>5
  <2>2. QED
    BY <1>1, <1>4, <1>5, <2>1, MembersKept DEF RegistryInv, AdminKept
<1>8. SameEntries'
  BY <1>1, <1>4, EntriesKept DEF RegistryInv, AdminKept
<1>9. AdminFormed'
  BY <1>1 DEF RegistryInv, AdminFormed
<1>10. QED
  BY <1>2, <1>6, <1>7, <1>8, <1>9 DEF RegistryInv, AdminKept

\* New limits leave an administrator's entry what it was but for its limit.
LEMMA LimitsKept ==
  ASSUME EntriesFormed, AdminFormed, SameEntries, admin' = admin, Bases' = Bases,
         \A n \in Configured : \E l \in Nat : models'[n] = [models[n] EXCEPT !.limit = l]
  PROVE  SameEntries'
<1>1. ASSUME NEW n \in Bases PROVE [models'[n] EXCEPT !.limit = 0] = [models[n] EXCEPT !.limit = 0]
  <2>1. n \in Configured /\ models[n] \in Entries
    BY DEF Bases, EntriesFormed
  <2>2. PICK l \in Nat : models'[n] = [models[n] EXCEPT !.limit = l]
    BY <2>1
  <2>3. QED
    BY <2>1, <2>2 DEF Entries
<1>2. QED
  BY <1>1 DEF SameEntries

\* A convergence and an administrator's limit change limits only.
LEMMA LimitsStep ==
  ASSUME PortsAssumption, RegistryInv, Converge \/ \E n \in Configured : AdminLimits(n) PROVE RegistryInv'
<1>1. /\ models' \in [Configured -> Entries] /\ UNCHANGED <<groups, admin>>
      /\ \A n \in Configured : \E l \in Nat : models'[n] = [models[n] EXCEPT !.limit = l]
  <2>1. CASE Converge
    <3>1. models' = [n \in Configured |-> WithLimit(n)] /\ UNCHANGED <<groups, admin>>
      BY <2>1 DEF Converge, Writes
    <3>2. ASSUME NEW n \in Configured
          PROVE Desired(n) \in Nat /\ models[n] \in Entries /\ [models[n] EXCEPT !.limit = Desired(n)] \in Entries
      <4>1. models[n] \in Entries
        BY DEF RegistryInv, EntriesFormed
      <4>2. Desired(n) \in Nat
        BY <4>1 DEF Desired, Entries, PortsAssumption
      <4>3. QED
        BY <4>1, <4>2 DEF Entries
    <3>3. QED
      BY <3>1, <3>2 DEF WithLimit
  <2>2. ASSUME NEW n \in Configured, AdminLimits(n)
        PROVE  /\ models' \in [Configured -> Entries] /\ UNCHANGED <<groups, admin>>
               /\ \A m \in Configured : \E l \in Nat : models'[m] = [models[m] EXCEPT !.limit = l]
    <3> DEFINE l == IF models[n].limit = 1 THEN 2 ELSE 1
    <3>1. models' = [models EXCEPT ![n].limit = l] /\ UNCHANGED <<groups, admin>> /\ l \in Nat
      BY <2>2 DEF AdminLimits
    <3> HIDE DEF l
    <3>2. \A m \in Configured : models[m] \in Entries
      BY DEF RegistryInv, EntriesFormed
    <3>3. models' = [models EXCEPT ![n] = [models[n] EXCEPT !.limit = l]]
      BY <3>1
    <3>4. [models[n] EXCEPT !.limit = l] \in Entries
      BY <3>1, <3>2 DEF Entries
    <3>5. ASSUME NEW m \in Configured, m # n PROVE models'[m] = [models[m] EXCEPT !.limit = models[m].limit]
      BY <3>2, <3>3, <3>5 DEF Entries, RegistryInv, EntriesFormed
    <3>6. models'[n] = [models[n] EXCEPT !.limit = l]
      BY <3>3 DEF RegistryInv, EntriesFormed
    <3>7. \A m \in Configured : models[m].limit \in Nat
      BY <3>2 DEF Entries
    <3>8. models' \in [Configured -> Entries]
      BY <3>3, <3>4 DEF RegistryInv, EntriesFormed
    <3>9. QED
      BY <3>1, <3>5, <3>6, <3>7, <3>8
  <2>3. QED
    BY <2>1, <2>2
<1>2. EntriesFormed' /\ Agree' /\ Bases' = Bases
  BY <1>1, LimitsChanged DEF RegistryInv
<1>3. Configured' = Configured
  BY <1>1 DEF Configured
<1>4. Members' /\ AdminFormed'
  BY <1>1, <1>3 DEF RegistryInv, Members, AdminFormed
<1>5. SameMembers'
  BY <1>1, <1>2 DEF RegistryInv, AdminKept, SameMembers
<1>6. SameEntries'
  BY <1>1, <1>2, LimitsKept DEF RegistryInv, AdminKept
<1>7. QED
  BY <1>2, <1>4, <1>5, <1>6 DEF RegistryInv, AdminKept

\* An administrator's new entry has an id and a port of its own.
LEMMA AdminAddsStep ==
  ASSUME PortsAssumption, RegistryInv, NEW n \in ModelNames, NEW p \in DaemonPorts, AdminAdds(n, p)
  PROVE  RegistryInv'
<1>1. PICK u \in Utils : models' = With(n, Written(n, p, Template, FALSE, u, 0, 0, {}))
  BY DEF AdminAdds
<1> DEFINE e == Written(n, p, Template, FALSE, u, 0, 0, {})
<1>2. u \in Nat \ {0}
  BY DEF PortsAssumption
<1>3. /\ e \in Entries /\ e.base = NoName /\ e.daemon = p /\ e.listen = Template /\ e.aliases = {} /\ e.unit = n
      /\ e.stopPort = p /\ e.stopModel = NoName /\ e.share = u /\ e.option = 0 /\ e.macro = 0 /\ e.known = 0
  BY DEF Written, Entries
<1> HIDE DEF e
<1>4. Told(e) /\ OwnStop(n, e)
  BY <1>3 DEF Told, OwnStop
<1>5. OneShare(e)
  BY <1>2, <1>3 DEF OneShare, Resolved, Macro
<1>6. n \notin Configured /\ ({n} \cup e.aliases) \cap Reserved = {} /\ p \notin DaemonPortsTaken
  BY <1>3 DEF AdminAdds, Reserved, Ids
<1>7. models' = With(n, e)
  BY <1>1 DEF e
<1>8. EntriesFormed' /\ Agree'
  BY <1>3, <1>4, <1>5, <1>6, <1>7, EntryAdded DEF RegistryInv
<1>9. /\ Configured' = Configured \cup {n} /\ models'[n] = e
      /\ \A m \in Configured : m # n /\ models'[m] = models[m]
  BY <1>6, <1>7 DEF With, Configured
<1>10. Bases' = Bases \cup {n} /\ n \notin Bases /\ \A m \in Bases : models'[m] = models[m] /\ m # n
  BY <1>3, <1>6, <1>9 DEF Bases, Records
<1>11. /\ admin'.groups = admin.groups /\ groups' = groups
       /\ admin'.entries = [m \in DOMAIN admin.entries \cup {n} |-> IF m = n THEN e ELSE admin.entries[m]]
       /\ admin' = [entries |-> admin'.entries, groups |-> admin'.groups]
  <2>1. admin' = [admin EXCEPT !.entries =
                    [m \in DOMAIN admin.entries \cup {n} |-> IF m = n THEN models'[n] ELSE admin.entries[m]]]
    BY DEF AdminAdds
  <2>2. admin = [entries |-> admin.entries, groups |-> admin.groups]
    BY DEF RegistryInv, AdminFormed
  <2>3. groups' = groups
    BY DEF AdminAdds
  <2>4. QED
    BY <1>9, <2>1, <2>2, <2>3
<1>12. Members'
  BY <1>9, <1>11 DEF RegistryInv, Members
<1>13. AdminFormed'
  <2>1. \A m \in DOMAIN admin.entries : admin.entries[m] \in Entries
    BY DEF RegistryInv, AdminFormed
  <2>2. admin'.entries \in [DOMAIN admin'.entries -> Entries]
    BY <1>3, <1>11, <2>1
  <2>3. QED
    BY <1>11, <2>2 DEF RegistryInv, AdminFormed
<1>14. SameEntries'
  BY <1>9, <1>10, <1>11 DEF RegistryInv, AdminKept, SameEntries
<1>15. SameMembers'
  <2>1. \A g \in Groups : n \notin ToSet(groups[g])
    BY <1>6 DEF RegistryInv, Members
  <2>2. ASSUME NEW g \in Groups
        PROVE  /\ IsInjective(admin'.groups[g]) /\ ToSet(admin'.groups[g]) = ToSet(groups'[g]) \cap Bases'
               /\ n \notin ToSet(admin.groups[g])
    BY <1>10, <1>11, <2>1 DEF RegistryInv, AdminKept, SameMembers
  <2>3. ASSUME NEW g \in Groups, NEW a \in Bases', NEW b \in Bases'
        PROVE  Before(groups'[g], a, b) <=> Before(admin'.groups[g], a, b)
    <3>1. CASE a = n \/ b = n
      <4>1. ~Before(groups[g], a, b)
        BY <2>1, <3>1 DEF Before, ToSet
      <4>2. ~Before(admin.groups[g], a, b)
        BY <2>2, <3>1 DEF Before, ToSet
      <4>3. QED
        BY <1>11, <4>1, <4>2
    <3>2. CASE a # n /\ b # n
      BY <1>10, <1>11, <3>2 DEF RegistryInv, AdminKept, SameMembers
    <3>3. QED
      BY <3>1, <3>2
  <2>4. QED
    BY <2>2, <2>3 DEF SameMembers
<1>16. QED
  BY <1>8, <1>12, <1>13, <1>14, <1>15 DEF RegistryInv, AdminKept

\* An administrator's model takes its place among the members, here and there.
LEMMA AdminJoinsStep ==
  ASSUME RegistryInv, NEW n \in ModelNames, NEW g \in Groups, AdminJoins(n, g) PROVE RegistryInv'
<1>1. /\ n \in Bases /\ n \in Configured /\ models' = models /\ Bases' = Bases /\ Configured' = Configured
      /\ groups' = [groups EXCEPT ![g] = Append(groups[g], n)]
  BY DEF AdminJoins, Bases, Records, Configured
<1>2. /\ admin'.entries = admin.entries /\ admin'.groups = [admin.groups EXCEPT ![g] = Append(admin.groups[g], n)]
      /\ admin' = [entries |-> admin'.entries, groups |-> admin'.groups]
  <2>1. admin' = [admin EXCEPT !.groups[g] = Append(admin.groups[g], n)]
    BY DEF AdminJoins
  <2>2. admin = [entries |-> admin.entries, groups |-> admin.groups]
    BY DEF RegistryInv, AdminFormed
  <2>3. QED
    BY <2>1, <2>2
<1> DEFINE s == groups[g]  t == admin.groups[g]
<1>3. /\ s \in Seq(ModelNames) /\ t \in Seq(ModelNames) /\ IsInjective(s) /\ IsInjective(t)
      /\ ToSet(t) = ToSet(s) \cap Bases /\ ToSet(s) \subseteq Configured
      /\ \A a, b \in Bases : Before(s, a, b) <=> Before(t, a, b)
  BY DEF RegistryInv, Members, AdminFormed, AdminKept, SameMembers
<1>4. n \notin ToSet(s)
  <2>1. ~Contains(s, n)
    BY DEF AdminJoins
  <2>2. QED
    BY <1>3, <2>1 DEF Contains, ToSet
<1> HIDE DEF s, t
<1>5. /\ Append(s, n) \in Seq(ModelNames) /\ IsInjective(Append(s, n)) /\ ToSet(Append(s, n)) = ToSet(s) \cup {n}
      /\ \A a, b : b # n => (Before(Append(s, n), a, b) <=> Before(s, a, b))
      /\ \A a : Before(Append(s, n), a, n) <=> a \in ToSet(s)
  BY <1>3, <1>4, MemberAppended
<1>6. /\ Append(t, n) \in Seq(ModelNames) /\ IsInjective(Append(t, n)) /\ ToSet(Append(t, n)) = ToSet(t) \cup {n}
      /\ \A a, b : b # n => (Before(Append(t, n), a, b) <=> Before(t, a, b))
      /\ \A a : Before(Append(t, n), a, n) <=> a \in ToSet(t)
  BY <1>3, <1>4, MemberAppended
<1>7. ASSUME NEW a \in Bases, NEW b \in Bases
      PROVE  Before(Append(s, n), a, b) <=> Before(Append(t, n), a, b)
  BY <1>3, <1>5, <1>6
<1>8. ToSet(Append(t, n)) = ToSet(Append(s, n)) \cap Bases
  BY <1>1, <1>3, <1>5, <1>6
<1>9. /\ groups'[g] = Append(s, n) /\ admin'.groups[g] = Append(t, n)
      /\ \A h \in Groups : h # g => groups'[h] = groups[h] /\ admin'.groups[h] = admin.groups[h]
      /\ groups' \in [Groups -> Seq(ModelNames)] /\ admin'.groups \in [Groups -> Seq(ModelNames)]
  BY <1>1, <1>2, <1>5, <1>6 DEF RegistryInv, Members, AdminFormed, s, t
<1>10. EntriesFormed' /\ Agree' /\ SameEntries'
  BY <1>1, <1>2 DEF RegistryInv, EntriesFormed, Agree, PortsDistinct, IdsDistinct, StopsItself, UtilAgrees, Shared,
     AdminKept, SameEntries
<1>11. Members'
  <2>1. ToSet(Append(s, n)) \subseteq Configured
    BY <1>1, <1>3, <1>5
  <2>2. QED
    BY <1>1, <1>5, <1>9, <2>1 DEF RegistryInv, Members
<1>12. AdminFormed'
  BY <1>2, <1>9 DEF RegistryInv, AdminFormed
<1>13. SameMembers'
  <2>1. ASSUME NEW h \in Groups, NEW a \in Bases, NEW b \in Bases
        PROVE  Before(groups'[h], a, b) <=> Before(admin'.groups[h], a, b)
    BY <1>7, <1>9 DEF RegistryInv, AdminKept, SameMembers
  <2>2. ASSUME NEW h \in Groups
        PROVE  IsInjective(admin'.groups[h]) /\ ToSet(admin'.groups[h]) = ToSet(groups'[h]) \cap Bases
    BY <1>6, <1>8, <1>9 DEF RegistryInv, AdminKept, SameMembers
  <2>3. QED
    BY <1>1, <2>1, <2>2 DEF SameMembers
<1>14. QED
  BY <1>10, <1>11, <1>12, <1>13 DEF RegistryInv, AdminKept

\* It leaves its place, here and there.
LEMMA AdminLeavesStep ==
  ASSUME RegistryInv, NEW n \in ModelNames, NEW g \in Groups, AdminLeaves(n, g) PROVE RegistryInv'
<1>1. /\ n \in Bases /\ models' = models /\ Bases' = Bases /\ Configured' = Configured
      /\ groups' = [groups EXCEPT ![g] = Dropped(groups[g], n)]
  BY DEF AdminLeaves, Bases, Records, Configured
<1>2. /\ admin'.entries = admin.entries /\ admin'.groups = [admin.groups EXCEPT ![g] = Dropped(admin.groups[g], n)]
      /\ admin' = [entries |-> admin'.entries, groups |-> admin'.groups]
  <2>1. admin' = [admin EXCEPT !.groups[g] = Dropped(admin.groups[g], n)]
    BY DEF AdminLeaves
  <2>2. admin = [entries |-> admin.entries, groups |-> admin.groups]
    BY DEF RegistryInv, AdminFormed
  <2>3. QED
    BY <2>1, <2>2
<1> DEFINE s == groups[g]  t == admin.groups[g]
<1>3. /\ s \in Seq(ModelNames) /\ t \in Seq(ModelNames) /\ IsInjective(s) /\ IsInjective(t)
      /\ ToSet(t) = ToSet(s) \cap Bases /\ ToSet(s) \subseteq Configured
      /\ \A a, b \in Bases : Before(s, a, b) <=> Before(t, a, b)
  BY DEF RegistryInv, Members, AdminFormed, AdminKept, SameMembers
<1> HIDE DEF s, t
<1>4. /\ Dropped(s, n) \in Seq(ModelNames) /\ IsInjective(Dropped(s, n)) /\ ToSet(Dropped(s, n)) = ToSet(s) \ {n}
      /\ \A a, b : a # n /\ b # n => (Before(Dropped(s, n), a, b) <=> Before(s, a, b))
  BY <1>3, Left
<1>5. /\ Dropped(t, n) \in Seq(ModelNames) /\ IsInjective(Dropped(t, n)) /\ ToSet(Dropped(t, n)) = ToSet(t) \ {n}
      /\ \A a, b : a # n /\ b # n => (Before(Dropped(t, n), a, b) <=> Before(t, a, b))
  BY <1>3, Left
<1>6. ASSUME NEW a \in Bases, NEW b \in Bases
      PROVE  Before(Dropped(s, n), a, b) <=> Before(Dropped(t, n), a, b)
  <2>1. CASE a = n \/ b = n
    <3>1. n \notin ToSet(Dropped(s, n)) /\ n \notin ToSet(Dropped(t, n))
      BY <1>4, <1>5
    <3>2. ~Before(Dropped(s, n), a, b)
      BY <2>1, <3>1 DEF Before, ToSet
    <3>3. ~Before(Dropped(t, n), a, b)
      BY <2>1, <3>1 DEF Before, ToSet
    <3>4. QED
      BY <3>2, <3>3
  <2>2. CASE a # n /\ b # n
    BY <1>3, <1>4, <1>5, <2>2
  <2>3. QED
    BY <2>1, <2>2
<1>7. ToSet(Dropped(t, n)) = ToSet(Dropped(s, n)) \cap Bases
  BY <1>3, <1>4, <1>5
<1>8. /\ groups'[g] = Dropped(s, n) /\ admin'.groups[g] = Dropped(t, n)
      /\ \A h \in Groups : h # g => groups'[h] = groups[h] /\ admin'.groups[h] = admin.groups[h]
      /\ groups' \in [Groups -> Seq(ModelNames)] /\ admin'.groups \in [Groups -> Seq(ModelNames)]
  BY <1>1, <1>2, <1>4, <1>5 DEF RegistryInv, Members, AdminFormed, s, t
<1>9. EntriesFormed' /\ Agree' /\ SameEntries'
  BY <1>1, <1>2 DEF RegistryInv, EntriesFormed, Agree, PortsDistinct, IdsDistinct, StopsItself, UtilAgrees, Shared,
     AdminKept, SameEntries
<1>10. Members'
  <2>1. ToSet(Dropped(s, n)) \subseteq Configured
    BY <1>3, <1>4
  <2>2. QED
    BY <1>1, <1>4, <1>8, <2>1 DEF RegistryInv, Members
<1>11. AdminFormed'
  BY <1>2, <1>8 DEF RegistryInv, AdminFormed
<1>12. SameMembers'
  <2>1. ASSUME NEW h \in Groups, NEW a \in Bases, NEW b \in Bases
        PROVE  Before(groups'[h], a, b) <=> Before(admin'.groups[h], a, b)
    BY <1>6, <1>8 DEF RegistryInv, AdminKept, SameMembers
  <2>2. ASSUME NEW h \in Groups
        PROVE  IsInjective(admin'.groups[h]) /\ ToSet(admin'.groups[h]) = ToSet(groups'[h]) \cap Bases
    BY <1>5, <1>7, <1>8 DEF RegistryInv, AdminKept, SameMembers
  <2>3. QED
    BY <1>1, <2>1, <2>2 DEF SameMembers
<1>13. QED
  BY <1>9, <1>10, <1>11, <1>12 DEF RegistryInv, AdminKept

\* Every operation keeps the invariant.
LEMMA RegistryInvStep ==
  ASSUME PortsAssumption, RegistryInv, [RegistryNext]_registryVars PROVE RegistryInv'
<1>1. CASE Adds
  BY <1>1, AddStep DEF Adds
<1>2. ASSUME NEW n \in ModelNames, RemoveModel(n) PROVE RegistryInv'
  BY <1>2, RemoveStep
<1>3. CASE Converge
  BY <1>3, LimitsStep
<1>4. CASE AdminEdits
  <2>1. ASSUME NEW n \in ModelNames, NEW p \in DaemonPorts, AdminAdds(n, p) PROVE RegistryInv'
    BY <2>1, AdminAddsStep
  <2>2. ASSUME NEW n \in ModelNames, NEW g \in Groups, AdminJoins(n, g) PROVE RegistryInv'
    BY <2>2, AdminJoinsStep
  <2>3. ASSUME NEW n \in ModelNames, NEW g \in Groups, AdminLeaves(n, g) PROVE RegistryInv'
    BY <2>3, AdminLeavesStep
  <2>4. ASSUME NEW n \in Configured, AdminLimits(n) PROVE RegistryInv'
    BY <2>4, LimitsStep
  <2>5. QED
    BY <1>4, <2>1, <2>2, <2>3, <2>4 DEF AdminEdits
<1>5. CASE UNCHANGED registryVars
  BY <1>5 DEF registryVars, RegistryInv, EntriesFormed, Agree, PortsDistinct, IdsDistinct, StopsItself, UtilAgrees,
     Shared, Members, AdminFormed, AdminKept, SameEntries, SameMembers, Bases, Records, Configured
<1>6. QED
  BY <1>1, <1>2, <1>3, <1>4, <1>5 DEF RegistryNext

\* The invariant has what the run checks.
LEMMA RegistryConsistent == RegistryInv => ConfigConsistent
BY DEF RegistryInv, ConfigConsistent, Agree, EntriesFormed, Members, RegistryTypeOK

\* For any names, ports, shares and limits, and any number of hand-written entries that
\* are consistent to begin with: after every registration, removal, convergence and edit of
\* an administrator no two models share a port or an id, a clone's stop command stops the
\* clone, its share is said once, and the administrator's entries and members are there in
\* their order (registry.py).
THEOREM RegistryHolds == PortsAssumption => (RegistrySpec => []ConfigConsistent)
<1> SUFFICES ASSUME PortsAssumption PROVE RegistrySpec => []ConfigConsistent
  OBVIOUS
<1>1. RegistryInit => RegistryInv
  BY RegistryInitInv
<1>2. RegistryInv /\ [RegistryNext]_registryVars => RegistryInv'
  BY RegistryInvStep
<1>3. RegistryInv => ConfigConsistent
  BY RegistryConsistent
<1>4. QED
  BY <1>1, <1>2, <1>3, PTL DEF RegistrySpec
=============================================================================
