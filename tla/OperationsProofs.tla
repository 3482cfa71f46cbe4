--------------------------- MODULE OperationsProofs ---------------------------
(***************************************************************************)
(* Proofs about SleepingRecovery: a claim fences its model until it is     *)
(* settled, sends each command once and gives the account of its source    *)
(* back when the instance is gone, for any number of accounts and crashes. *)
(* About WakeFailure: the worker stops and unloads only what is there and  *)
(* wedged, for any number of accounts, any window of evidence and any      *)
(* bound on the attempts. Then what the components of MCOperations promise *)
(* beside each other: their theorems as properties of the whole.           *)
(***************************************************************************)
EXTENDS MCOperations, TLAPS

USE DEF durable, outside, sampler, worker, vars

-----------------------------------------------------------------------------
(* The inductive invariant *)

\* The step between the mark of a command and its submission.
Presend(c) ==
  \/ c = "stop" /\ pc = "marked"
  \/ c = "unload" /\ pc = "unloading"
  \/ c = "wake" /\ pc = "waking"

\* Where the worker is tells how far the claim has come.
Progress ==
  /\ pc # "idle" => claim # None
  /\ pc \in {"claimed", "marked", "stopping"} => claim.stage = "claimed"
  /\ pc = "claimed" => claim.submitted = {}
  /\ pc \in {"marked", "stopping", "observing"} => "stop" \in claim.submitted
  /\ pc = "observing" => claim.stage \in {"claimed", "released"}
  /\ pc = "observing" /\ seen => claim.stage = "released"
  /\ pc \in {"observed", "unloading", "unload sent", "settling"} => claim.stage = "released"
  /\ pc \in {"unloading", "unload sent"} => "unload" \in claim.submitted
  /\ pc = "settling" => "unload" \in claim.acknowledged
  /\ pc = "settled" => claim.stage = "settled"
  /\ pc = "waking" => claim.stage = "waking"
  /\ pc = "wake sent" => claim.stage \in {"waking", "destination"}
  /\ pc = "woken" => "wake" \in claim.acknowledged

\* A command that was sent is marked in the open claim, or its account was released.
Sending ==
  /\ \A l \in LeaseIds, c \in Commands : sent[l][c] \in {0, 1}
  /\ claim # None => \A c \in Commands : c \notin claim.submitted \/ Presend(c) => sent[claim.source][c] = 0
  /\ \A l \in LeaseIds, c \in Commands :
       row[l] # "released" /\ (claim = None \/ claim.source # l) => sent[l][c] = 0

\* A command that may still take effect is marked and not answered.
Waiting ==
  /\ claim = None => jobs = {}
  /\ claim # None => /\ jobs \subseteq claim.submitted
                     /\ jobs \cap claim.acknowledged = {}
                     /\ \A c \in Commands : Presend(c) => c \notin jobs /\ c \notin claim.acknowledged

\* One account is open at most, and a claim knows whose instance may run.
Accounts ==
  /\ \A k, l \in LeaseIds : Open(k) /\ Open(l) => k = l
  /\ unit # None => Open(unit)
  /\ claim # None =>
       /\ row[claim.source] = IF claim.stage = "claimed" THEN "confirmed" ELSE "released"
       /\ claim.stage = "destination" => row[claim.destination] # "none" /\ claim.destination # claim.source
       /\ unit \in {None, claim.source, claim.destination}

Safe == Progress /\ Sending /\ Waiting /\ Accounts /\ BoundAccounts /\ ClaimValid
SleepingInv == TypeOK /\ Safe

-----------------------------------------------------------------------------
(* What the worker writes of a claim *)

\* A claim has the fields of its type.
LEMMA ClaimFields ==
  ASSUME NEW c \in Claim
  PROVE  /\ c.source \in LeaseIds /\ c.destination \in LeaseIds \cup {None} /\ c.relocate \in BOOLEAN
         /\ c.stage \in Stages /\ c.submitted \subseteq Commands /\ c.acknowledged \subseteq Commands
BY DEF Claim

\* A mark adds one command and sets the stage.
LEMMA MarkFields ==
  ASSUME claim \in Claim, NEW command \in Commands, NEW stage \in Stages,
         claim' = [claim EXCEPT !.submitted = @ \cup {command}, !.stage = stage]
  PROVE  /\ claim' \in Claim /\ claim'.source = claim.source /\ claim'.destination = claim.destination
         /\ claim'.relocate = claim.relocate /\ claim'.stage = stage
         /\ claim'.submitted = claim.submitted \cup {command}
         /\ claim'.acknowledged = claim.acknowledged
BY DEF Claim

\* An answer adds one acknowledgement.
LEMMA AnswerFields ==
  ASSUME NEW c \in Claim, NEW command \in Commands, NEW d,
         d = [c EXCEPT !.acknowledged = @ \cup {command}]
  PROVE  /\ d \in Claim /\ d.source = c.source /\ d.destination = c.destination /\ d.relocate = c.relocate
         /\ d.stage = c.stage /\ d.submitted = c.submitted /\ d.acknowledged = c.acknowledged \cup {command}
BY DEF Claim

\* A stage is set alone.
LEMMA StageFields ==
  ASSUME NEW c \in Claim, NEW stage \in Stages, NEW d, d = [c EXCEPT !.stage = stage]
  PROVE  /\ d \in Claim /\ d.source = c.source /\ d.destination = c.destination /\ d.relocate = c.relocate
         /\ d.stage = stage /\ d.submitted = c.submitted /\ d.acknowledged = c.acknowledged
BY DEF Claim

\* A placement binds its account to the claim.
LEMMA BoundFields ==
  ASSUME claim \in Claim, NEW l \in LeaseIds,
         claim' = [claim EXCEPT !.stage = "destination", !.destination = l]
  PROVE  /\ claim' \in Claim /\ claim'.source = claim.source /\ claim'.destination = l
         /\ claim'.relocate = claim.relocate /\ claim'.stage = "destination"
         /\ claim'.submitted = claim.submitted /\ claim'.acknowledged = claim.acknowledged
BY DEF Claim, Stages

-----------------------------------------------------------------------------
(* Steps that differ in what they leave alone *)

\* A claim that is there has the fields of its type.
LEMMA ClaimThere ==
  ASSUME TypeOK, claim # None
  PROVE  /\ claim \in Claim /\ claim.source \in LeaseIds
         /\ claim.destination \in LeaseIds \cup {None} /\ claim.relocate \in BOOLEAN
         /\ claim.stage \in Stages /\ claim.submitted \subseteq Commands
         /\ claim.acknowledged \subseteq Commands
BY ClaimFields DEF TypeOK

\* The rest of the system and most steps of the worker leave the ledger alone;
\* a unit may end and a command take effect.
LEMMA Keeps ==
  ASSUME TypeOK, Safe, Progress', row' = row, claim' = claim, sent' = sent,
         unit' \in {unit, None}, jobs' \subseteq jobs,
         \A c \in Commands : Presend(c)' => Presend(c)
  PROVE  Safe'
<1>1. Sending'
  BY DEF Safe, Sending
<1>2. Waiting'
  BY DEF Safe, Waiting
<1>3. Accounts'
  BY DEF Safe, Accounts, Open
<1>4. BoundAccounts' /\ ClaimValid'
  BY DEF Safe, BoundAccounts, Open, ClaimValid, Valid
<1> QED BY <1>1, <1>2, <1>3, <1>4 DEF Safe

\* The worker records progress in the claim: a mark, an answer, a stage.
LEMMA Writes ==
  ASSUME TypeOK, Safe, Progress', claim # None, claim' # None,
         row' = row, unit' = unit, jobs' = jobs, sent' = sent,
         claim'.source = claim.source, claim'.destination = claim.destination,
         claim.stage = "claimed" <=> claim'.stage = "claimed",
         claim.stage = "destination" <=> claim'.stage = "destination",
         claim.submitted \subseteq claim'.submitted, jobs \cap claim'.acknowledged = {},
         \A c \in Commands : c \notin claim'.submitted \/ Presend(c)' => c \notin claim.submitted \/ Presend(c),
         \A c \in Commands : Presend(c)' => c \notin jobs /\ c \notin claim'.acknowledged,
         ClaimValid'
  PROVE  Safe'
<1>1. Sending'
  BY DEF Safe, Sending
<1>2. Waiting'
  BY DEF Safe, Waiting
<1>3. Accounts'
  BY DEF Safe, Accounts, Open
<1>4. BoundAccounts'
  BY DEF Safe, BoundAccounts, Open
<1> QED BY <1>1, <1>2, <1>3, <1>4 DEF Safe

\* A claim ends with no command of its own under way: undone before it sent one,
\* or with every command answered.
LEMMA Completes ==
  ASSUME TypeOK, Safe, claim # None, Completable(claim), claim' = None, pc' = "idle",
         row' = row, unit' = unit, jobs' = jobs, sent' = sent
  PROVE  Safe'
<1>0. /\ claim.submitted \subseteq {"stop", "unload", "wake"} /\ claim.source \in LeaseIds
      /\ Valid(claim)
  BY ClaimThere DEF Commands, Safe, ClaimValid
<1>1. jobs = {}
  <2>1. jobs \subseteq claim.submitted /\ jobs \cap claim.acknowledged = {}
    BY DEF Safe, Waiting
  <2>2. claim.submitted \subseteq claim.acknowledged
    BY <1>0 DEF Completable, Valid
  <2> QED BY <2>1, <2>2
<1>2. Progress' /\ BoundAccounts' /\ ClaimValid'
  BY DEF Progress, BoundAccounts, ClaimValid
<1>3. Sending'
  <2>1. row[claim.source] # "released" => claim.submitted = {}
    BY <1>0 DEF Safe, Accounts, Completable, Valid
  <2>2. \A c \in Commands : row[claim.source] # "released" => sent[claim.source][c] = 0
    BY <2>1 DEF Safe, Sending
  <2> QED BY <2>2 DEF Safe, Sending
<1>4. Waiting'
  BY <1>1 DEF Waiting, Presend
<1>5. Accounts'
  BY DEF Safe, Accounts, Open
<1> QED BY <1>2, <1>3, <1>4, <1>5 DEF Safe

\* The account of the source is released when the claim is the first to see it gone.
LEMMA ReleasesSource ==
  ASSUME SleepingAssumption, TypeOK, Safe, Progress', claim # None, claim.stage = "claimed",
         "stop" \in claim.submitted, unit = None, ReleaseSource,
         UNCHANGED <<unit, jobs, sent>>, \A c \in Commands : ~Presend(c)'
  PROVE  Safe' /\ row' \in [LeaseIds -> {"none", "pending", "confirmed", "released"}]
               /\ claim' \in Claim
<1>0. claim \in Claim /\ claim.source \in LeaseIds
  BY ClaimThere
<1>1. /\ claim' \in Claim /\ claim'.source = claim.source /\ claim'.destination = claim.destination
      /\ claim'.relocate = claim.relocate /\ claim'.stage = "released"
      /\ claim'.submitted = claim.submitted /\ claim'.acknowledged = claim.acknowledged
  BY <1>0, StageFields DEF ReleaseSource, Stages
<1>2. /\ row' \in [LeaseIds -> {"none", "pending", "confirmed", "released"}]
      /\ row'[claim.source] = "released" /\ \A l \in LeaseIds \ {claim.source} : row'[l] = row[l]
  BY <1>0 DEF ReleaseSource, TypeOK
<1>3. Sending'
  BY <1>0, <1>1, <1>2 DEF Safe, Sending
<1>4. Waiting'
  BY <1>1 DEF Safe, Waiting, SleepingAssumption
<1>5. Accounts'
  BY <1>0, <1>1, <1>2 DEF Safe, Accounts, Open
<1>6. BoundAccounts'
  BY <1>0, <1>1, <1>2 DEF Safe, BoundAccounts, Open
<1>7. ClaimValid'
  BY <1>1 DEF Safe, ClaimValid, Valid
<1> QED BY <1>1, <1>2, <1>3, <1>4, <1>5, <1>6, <1>7 DEF Safe

\* An account of the model is granted while none is open; under a claim it is bound
\* to the claim as its destination.
LEMMA Places ==
  ASSUME SleepingAssumption, TypeOK, Safe, NEW l \in LeaseIds, Place(l)
  PROVE  TypeOK' /\ Safe'
<1>0. /\ row' = [row EXCEPT ![l] = "pending"] /\ unit = None /\ unit' = l /\ row[l] = "none"
      /\ \A k \in LeaseIds : ~Open(k)
      /\ jobs' = jobs /\ sent' = sent /\ pc' = pc /\ seen' = seen
      /\ UNCHANGED <<swap, sampler, failure, crashes>>
      /\ pc \notin LockedSteps
      /\ claim = None => claim' = None
      /\ claim # None => BoundPlace(l)
  BY DEF Place, Locked
<1>1. /\ row' \in [LeaseIds -> {"none", "pending", "confirmed", "released"}]
      /\ row'[l] = "pending" /\ \A k \in LeaseIds \ {l} : row'[k] = row[k]
  BY <1>0 DEF TypeOK
<1>2. \A c \in Commands : Presend(c)' <=> Presend(c)
  BY <1>0 DEF Presend
<1>3. CASE claim = None
  <2>1. TypeOK'
    BY <1>0, <1>1, <1>3 DEF TypeOK
  <2>2. Progress' /\ BoundAccounts' /\ ClaimValid'
    BY <1>0, <1>3 DEF Safe, Progress, BoundAccounts, ClaimValid
  <2>3. Sending' /\ Waiting'
    BY <1>0, <1>1, <1>3 DEF Safe, Sending, Waiting
  <2>4. Accounts'
    BY <1>0, <1>1, <1>3 DEF Safe, Accounts, Open
  <2> QED BY <2>1, <2>2, <2>3, <2>4 DEF Safe
<1>4. CASE claim # None
  <2>0. claim \in Claim /\ claim.source \in LeaseIds
    BY <1>4, ClaimThere
  <2>1. /\ claim' \in Claim /\ claim'.source = claim.source /\ claim'.destination = l
        /\ claim'.relocate = claim.relocate /\ claim'.stage = "destination"
        /\ claim'.submitted = claim.submitted /\ claim'.acknowledged = claim.acknowledged
    <3>1. claim' = [claim EXCEPT !.stage = "destination", !.destination = l]
      BY <1>0, <1>4 DEF BoundPlace
    <3> QED BY <2>0, <3>1, BoundFields
  <2>2. /\ pc = "wake sent" /\ claim.stage = "waking" /\ row[claim.source] = "released"
        /\ claim' # None /\ l # claim.source /\ l # None
    BY <1>0, <1>4, <2>1 DEF BoundPlace, MayPlace, LockedSteps, SleepingAssumption
  <2>3. TypeOK'
    BY <1>0, <1>1, <2>1 DEF TypeOK
  <2>4. Progress'
    BY <1>0, <2>1, <2>2 DEF Progress
  <2>5. Sending'
    BY ZenonT(60), <1>0, <1>1, <1>2, <1>4, <2>1, <2>2 DEF Safe, Sending
  <2>6. Waiting'
    BY <1>0, <1>2, <1>4, <2>1, <2>2 DEF Safe, Waiting
  <2>7. Accounts'
    BY ZenonT(60), <1>0, <1>1, <1>4, <2>0, <2>1, <2>2 DEF Safe, Accounts, Open
  <2>8. BoundAccounts'
    BY <1>0, <1>1, <2>1, <2>2 DEF BoundAccounts, Open
  <2>9. ClaimValid'
    BY <1>4, <2>1, <2>2 DEF Safe, ClaimValid, Valid
  <2> QED BY <2>3, <2>4, <2>5, <2>6, <2>7, <2>8, <2>9 DEF Safe
<1> QED BY <1>3, <1>4

\* An account is confirmed or released by the launcher and the reconciliation; the
\* source of a claim is not touched.
LEMMA Settled ==
  ASSUME SleepingAssumption, TypeOK, Safe, NEW l \in LeaseIds, Confirm(l) \/ Release(l)
  PROVE  TypeOK' /\ Safe'
<1>0. /\ claim' = claim /\ UNCHANGED <<outside, sampler, worker, crashes, sent>>
      /\ claim # None => l = claim.destination
      /\ Open(l)
      /\ \/ unit = l /\ row' = [row EXCEPT ![l] = "confirmed"]
         \/ unit # l /\ row' = [row EXCEPT ![l] = "released"]
  BY DEF Confirm, Release, Settles, Open
<1>1. /\ row' \in [LeaseIds -> {"none", "pending", "confirmed", "released"}]
      /\ row'[l] \in {"confirmed", "released"} /\ (row'[l] = "released" => unit # l)
      /\ \A k \in LeaseIds \ {l} : row'[k] = row[k]
  BY <1>0 DEF TypeOK
<1>2. TypeOK'
  BY <1>0, <1>1 DEF TypeOK
<1>3. Progress' /\ ClaimValid'
  BY <1>0 DEF Safe, Progress, ClaimValid, Valid
<1>4. \A c \in Commands : Presend(c)' <=> Presend(c)
  BY <1>0 DEF Presend
<1>5. Sending'
  BY <1>0, <1>1, <1>4 DEF Safe, Sending, Open
<1>6. Waiting'
  BY <1>0, <1>4 DEF Safe, Waiting
<1>7. Accounts'
  <2>1. claim # None => claim.source \in LeaseIds
    BY ClaimThere
  <2>2. claim # None => l # claim.source
    <3>1. SUFFICES ASSUME claim # None, l = claim.source PROVE FALSE
      OBVIOUS
    <3>2. claim.destination # None
      BY <3>1, <1>0 DEF SleepingAssumption
    <3>3. claim.stage = "destination"
      BY <3>1, <3>2 DEF Safe, ClaimValid, Valid
    <3> QED BY <3>1, <3>3, <1>0 DEF Safe, Accounts
  <2>3. (\A k, m \in LeaseIds : Open(k) /\ Open(m) => k = m)'
    BY <1>0, <1>1 DEF Safe, Accounts, Open
  <2>4. (unit # None => Open(unit))'
    <3>1. unit # None => unit \in LeaseIds /\ Open(unit)
      BY DEF Safe, Accounts, TypeOK
    <3>2. unit = l => row'[l] = "confirmed"
      BY <1>1
    <3> QED BY <1>0, <1>1, <3>1, <3>2 DEF Open
  <2>5. (claim # None =>
         /\ row[claim.source] = IF claim.stage = "claimed" THEN "confirmed" ELSE "released"
         /\ claim.stage = "destination" => row[claim.destination] # "none" /\ claim.destination # claim.source
         /\ unit \in {None, claim.source, claim.destination})'
    BY <1>0, <1>1, <2>1, <2>2 DEF Safe, Accounts
  <2> QED BY <2>3, <2>4, <2>5 DEF Accounts
<1>8. BoundAccounts'
  BY <1>0, <1>1 DEF Safe, BoundAccounts, Open
<1> QED BY <1>2, <1>3, <1>5, <1>6, <1>7, <1>8 DEF Safe

\* A marked command is sent, once.
LEMMA Sends ==
  ASSUME SleepingAssumption, TypeOK, Safe,
         NEW from \in Steps, NEW to \in Steps, NEW command \in Commands,
         Send(from, to, command), Presend(command), Progress',
         \A c \in Commands : Presend(c) => c = command, \A c \in Commands : ~Presend(c)',
         command \in claim.submitted
  PROVE  TypeOK' /\ Safe'
<1>0. /\ pc = from /\ pc' = to /\ jobs' = jobs \cup {command}
      /\ sent' = [sent EXCEPT ![claim.source][command] = @ + 1]
      /\ UNCHANGED <<durable, unit, swap, sampler, seen, failure, crashes>>
  BY DEF Send, Goto
<1>1. claim # None /\ claim' = claim /\ claim.source \in LeaseIds
  <2>1. pc # "idle"
    BY DEF Presend
  <2>2. claim # None
    BY <2>1 DEF Safe, Progress
  <2> QED BY <2>2, <1>0, ClaimThere
<1>2. sent[claim.source][command] = 0 /\ command \notin jobs /\ command \notin claim.acknowledged
  BY <1>1 DEF Safe, Sending, Waiting
<1>3. sent' \in [LeaseIds -> [Commands -> Nat]]
  BY <1>0, <1>1, <1>2 DEF TypeOK
<1>4. /\ sent'[claim.source][command] = 1
      /\ \A l \in LeaseIds, c \in Commands :
           l # claim.source \/ c # command => sent'[l][c] = sent[l][c]
  BY <1>0, <1>1, <1>2 DEF TypeOK
<1>5. TypeOK'
  BY <1>0, <1>3 DEF TypeOK
<1>6. Sending'
  BY <1>0, <1>1, <1>2, <1>4 DEF Safe, Sending
<1>7. Waiting'
  BY <1>0, <1>1, <1>2 DEF Safe, Waiting
<1>8. Accounts' /\ BoundAccounts' /\ ClaimValid'
  BY <1>0 DEF Safe, Accounts, BoundAccounts, ClaimValid, Valid, Open
<1> QED BY <1>5, <1>6, <1>7, <1>8 DEF Safe

\* A sleeper is claimed: its account is confirmed and no other one is open.
LEMMA Claims ==
  ASSUME SleepingAssumption, TypeOK, Safe, NEW l \in LeaseIds, ClaimSource(l)
  PROVE  TypeOK' /\ Safe'
<1>1. PICK relocate \in BOOLEAN :
        claim' = [source |-> l, destination |-> None, relocate |-> relocate, stage |-> "claimed",
                  submitted |-> {}, acknowledged |-> {}]
  BY DEF ClaimSource
<1>2. /\ claim' \in Claim /\ claim'.source = l /\ claim'.destination = None
      /\ claim'.stage = "claimed" /\ claim'.submitted = {} /\ claim'.acknowledged = {}
  BY <1>1 DEF Claim, Stages
<1>3. /\ claim = None /\ pc' = "claimed" /\ row[l] = "confirmed" /\ unit = l
      /\ seen' = FALSE /\ failure' = FALSE
      /\ UNCHANGED <<row, outside, sampler, crashes, sent>>
  BY DEF ClaimSource, Goto
<1>4. claim' # None
  BY <1>2 DEF SleepingAssumption
<1>5. TypeOK'
  BY <1>2, <1>3 DEF TypeOK, Steps, LockedSteps
<1>6. Progress'
  BY <1>2, <1>3, <1>4 DEF Progress
<1>7. \A c \in Commands : ~Presend(c)'
  BY <1>3 DEF Presend
<1>8. Sending'
  BY <1>2, <1>3, <1>4 DEF Safe, Sending
<1>9. Waiting'
  BY <1>2, <1>3, <1>4, <1>7 DEF Safe, Waiting
<1>10. Accounts'
  BY <1>2, <1>3 DEF Safe, Accounts, Open
<1>11. BoundAccounts'
  BY <1>2, <1>3 DEF Safe, Accounts, BoundAccounts, Open
<1>12. ClaimValid'
  BY <1>2 DEF ClaimValid, Valid
<1> QED BY <1>5, <1>6, <1>8, <1>9, <1>10, <1>11, <1>12 DEF Safe

-----------------------------------------------------------------------------
(* The steps of the worker *)

\* What the worker and the sampler read keeps its type.
LEMMA Sampled ==
  ASSUME TypeOK, FreshRound \/ Boundary \/ UNCHANGED sampler
  PROVE  round' \in Round \cup {None} /\ sample' \in Round \cup {None}
<1>1. \A r \in Round : [r EXCEPT !.mark = "old"] \in Round
  BY DEF Round
<1>2. round \in Round \cup {None} /\ sample \in Round \cup {None}
  BY DEF TypeOK
<1>3. CASE FreshRound
  BY <1>1, <1>2, <1>3 DEF FreshRound
<1>4. CASE Boundary
  BY <1>1, <1>2, <1>4 DEF Boundary
<1> QED BY <1>2, <1>3, <1>4

\* A worker that is at work has a claim.
LEMMA AtWork ==
  ASSUME TypeOK, Safe, pc # "idle"
  PROVE  /\ claim # None /\ claim \in Claim /\ claim.source \in LeaseIds
         /\ claim.submitted \subseteq Commands /\ claim.acknowledged \subseteq Commands
         /\ Valid(claim) /\ jobs \subseteq claim.submitted /\ jobs \cap claim.acknowledged = {}
BY ClaimThere DEF Safe, Progress, ClaimValid, Waiting

\* A command is marked before it is sent.
LEMMA Marked ==
  ASSUME SleepingAssumption, TypeOK, Safe, MarkStop \/ MarkUnload \/ MarkWake
  PROVE  TypeOK' /\ Safe'
<1>0. /\ claim # None /\ claim \in Claim /\ Valid(claim)
      /\ jobs \subseteq claim.submitted /\ jobs \cap claim.acknowledged = {}
      /\ row[claim.source] = IF claim.stage = "claimed" THEN "confirmed" ELSE "released"
      /\ claim.stage = "claimed" \/ claim.stage = "released" \/ claim.stage = "settled"
  <2>1. pc # "idle" /\ pc \in {"claimed", "observed", "settled"}
    BY DEF MarkStop, MarkUnload, MarkWake
  <2>2. claim.stage \in {"claimed", "released", "settled"}
    BY <2>1 DEF Safe, Progress
  <2> QED BY <2>1, <2>2, AtWork DEF Safe, Accounts
<1>1. ASSUME NEW from, NEW to, NEW command \in Commands, NEW stage \in Stages,
             Mark(from, to, command, stage), to \in Steps
      PROVE  /\ TypeOK' /\ claim' # None /\ pc = from /\ pc' = to /\ command \notin claim.submitted
             /\ UNCHANGED <<row, outside, seen, failure, crashes, sent>>
             /\ claim'.source = claim.source /\ claim'.destination = claim.destination
             /\ claim'.relocate = claim.relocate /\ claim'.stage = stage
             /\ claim'.submitted = claim.submitted \cup {command}
             /\ claim'.acknowledged = claim.acknowledged
  <2>1. claim' = [claim EXCEPT !.submitted = @ \cup {command}, !.stage = stage]
    BY <1>1 DEF Mark
  <2>2. /\ claim' \in Claim /\ claim'.source = claim.source /\ claim'.destination = claim.destination
        /\ claim'.relocate = claim.relocate /\ claim'.stage = stage
        /\ claim'.submitted = claim.submitted \cup {command}
        /\ claim'.acknowledged = claim.acknowledged
    BY <1>0, <2>1, MarkFields
  <2>3. round' \in Round \cup {None} /\ sample' \in Round \cup {None}
    BY <1>1, Sampled DEF Mark
  <2>4. /\ pc = from /\ pc' = to /\ command \notin claim.submitted
        /\ UNCHANGED <<row, outside, seen, failure, crashes, sent>>
    BY <1>1 DEF Mark, Goto
  <2>5. TypeOK'
    BY <1>1, <2>2, <2>3, <2>4 DEF TypeOK
  <2> QED BY <2>2, <2>4, <2>5 DEF SleepingAssumption
<1>2. CASE MarkStop
  <2>1. /\ pc = "claimed" /\ Mark("claimed", "marked", "stop", "claimed")
        /\ "marked" \in Steps /\ "stop" \in Commands /\ "claimed" \in Stages
    BY <1>2 DEF MarkStop, Steps, LockedSteps, Commands, Stages
  <2>2. /\ TypeOK' /\ claim' # None /\ pc' = "marked" /\ "stop" \notin claim.submitted
        /\ UNCHANGED <<row, outside, seen, failure, crashes, sent>>
        /\ claim'.source = claim.source /\ claim'.destination = claim.destination
        /\ claim'.relocate = claim.relocate /\ claim'.stage = "claimed"
        /\ claim'.submitted = claim.submitted \cup {"stop"}
        /\ claim'.acknowledged = claim.acknowledged
    BY <1>1, <2>1
  <2>3. claim.stage = "claimed" /\ claim.submitted = {}
    BY <2>1 DEF Safe, Progress
  <2>4. Progress'
    BY <2>2, <2>3 DEF Progress
  <2>5. ClaimValid'
    BY <1>0, <2>2, <2>3 DEF ClaimValid, Valid
  <2>6. \A c \in Commands : Presend(c)' => c = "stop"
    BY <2>2 DEF Presend
  <2>7. Safe'
    BY <1>0, <2>2, <2>3, <2>4, <2>5, <2>6, Writes DEF Valid
  <2> QED BY <2>2, <2>7
<1>3. CASE MarkUnload
  <2>1. /\ pc = "observed" /\ Mark("observed", "unloading", "unload", "released")
        /\ "unloading" \in Steps /\ "unload" \in Commands /\ "released" \in Stages
        /\ claim.stage = "released" /\ "stop" \in claim.acknowledged
    BY <1>3 DEF MarkUnload, MayUnload, Steps, LockedSteps, Commands, Stages
  <2>2. /\ TypeOK' /\ claim' # None /\ pc' = "unloading" /\ "unload" \notin claim.submitted
        /\ UNCHANGED <<row, outside, seen, failure, crashes, sent>>
        /\ claim'.source = claim.source /\ claim'.destination = claim.destination
        /\ claim'.relocate = claim.relocate /\ claim'.stage = "released"
        /\ claim'.submitted = claim.submitted \cup {"unload"}
        /\ claim'.acknowledged = claim.acknowledged
    BY <1>1, <2>1
  <2>4. Progress'
    BY <2>1, <2>2 DEF Progress
  <2>5. ClaimValid'
    BY <1>0, <2>1, <2>2 DEF ClaimValid, Valid
  <2>6. \A c \in Commands : Presend(c)' => c = "unload"
    BY <2>2 DEF Presend
  <2>7. Safe'
    BY <1>0, <2>1, <2>2, <2>4, <2>5, <2>6, Writes DEF Valid
  <2> QED BY <2>2, <2>7
<1>4. CASE MarkWake
  <2>1. /\ pc = "settled" /\ Mark("settled", "waking", "wake", "waking") /\ claim.relocate
        /\ "waking" \in Steps /\ "wake" \in Commands /\ "waking" \in Stages
        /\ claim.stage = "settled"
    BY <1>4 DEF MarkWake, Steps, LockedSteps, Commands, Stages
  <2>2. /\ TypeOK' /\ claim' # None /\ pc' = "waking" /\ "wake" \notin claim.submitted
        /\ UNCHANGED <<row, outside, seen, failure, crashes, sent>>
        /\ claim'.source = claim.source /\ claim'.destination = claim.destination
        /\ claim'.relocate = claim.relocate /\ claim'.stage = "waking"
        /\ claim'.submitted = claim.submitted \cup {"wake"}
        /\ claim'.acknowledged = claim.acknowledged
    BY <1>1, <2>1
  <2>4. Progress'
    BY <2>1, <2>2 DEF Progress
  <2>5. ClaimValid'
    BY <1>0, <2>1, <2>2 DEF ClaimValid, Valid
  <2>6. \A c \in Commands : Presend(c)' => c = "wake"
    BY <2>2 DEF Presend
  <2>7. Safe'
    BY <1>0, <2>1, <2>2, <2>4, <2>5, <2>6, Writes DEF Valid
  <2> QED BY <2>2, <2>7
<1> QED BY <1>2, <1>3, <1>4

\* Each command is sent by the step after its mark.
LEMMA Sent ==
  ASSUME SleepingAssumption, TypeOK, Safe, SendStop \/ SendUnload \/ SendWake
  PROVE  TypeOK' /\ Safe'
<1>0. pc # "idle" /\ claim # None /\ Valid(claim)
  <2>1. pc # "idle"
    BY DEF SendStop, SendUnload, SendWake, Send, Goto
  <2> QED BY <2>1, AtWork
<1>1. CASE SendStop
  <2>1. /\ Send("marked", "stopping", "stop") /\ pc = "marked" /\ pc' = "stopping"
        /\ claim' = claim /\ seen' = seen
        /\ {"marked", "stopping"} \subseteq Steps /\ "stop" \in Commands
    BY <1>1 DEF SendStop, Send, Goto, Steps, LockedSteps, Commands
  <2>2. Progress'
    BY <2>1 DEF Safe, Progress
  <2>3. /\ Presend("stop") /\ \A c \in Commands : Presend(c) => c = "stop"
        /\ \A c \in Commands : ~Presend(c)'
    BY <2>1 DEF Presend
  <2>4. "stop" \in claim.submitted
    BY <2>1 DEF Safe, Progress
  <2> QED BY <2>1, <2>2, <2>3, <2>4, Sends
<1>2. CASE SendUnload
  <2>1. /\ Send("unloading", "unload sent", "unload") /\ pc = "unloading" /\ pc' = "unload sent"
        /\ claim' = claim /\ seen' = seen
        /\ {"unloading", "unload sent"} \subseteq Steps /\ "unload" \in Commands
    BY <1>2 DEF SendUnload, Send, Goto, Steps, LockedSteps, Commands
  <2>2. Progress'
    BY <2>1 DEF Safe, Progress
  <2>3. /\ Presend("unload") /\ \A c \in Commands : Presend(c) => c = "unload"
        /\ \A c \in Commands : ~Presend(c)'
    BY <2>1 DEF Presend
  <2>4. "unload" \in claim.submitted
    BY <2>1 DEF Safe, Progress
  <2> QED BY <2>1, <2>2, <2>3, <2>4, Sends
<1>3. CASE SendWake
  <2>1. /\ Send("waking", "wake sent", "wake") /\ pc = "waking" /\ pc' = "wake sent"
        /\ claim' = claim /\ seen' = seen
        /\ {"waking", "wake sent"} \subseteq Steps /\ "wake" \in Commands
    BY <1>3 DEF SendWake, Send, Goto, Steps, LockedSteps, Commands
  <2>2. Progress'
    BY <2>1 DEF Safe, Progress
  <2>3. /\ Presend("wake") /\ \A c \in Commands : Presend(c) => c = "wake"
        /\ \A c \in Commands : ~Presend(c)'
    BY <2>1 DEF Presend
  <2>4. "wake" \in claim.submitted
    BY <1>0, <2>1 DEF Safe, Progress, Valid
  <2> QED BY <2>1, <2>2, <2>3, <2>4, Sends
<1> QED BY <1>1, <1>2, <1>3

\* An answer is recorded when its command is not under way any more.
LEMMA Answered ==
  ASSUME SleepingAssumption, TypeOK, Safe, StopAnswers \/ UnloadAnswers \/ WakeAnswers
  PROVE  TypeOK' /\ Safe'
<1>0. /\ pc # "idle" /\ claim # None /\ claim \in Claim /\ Valid(claim)
      /\ jobs \subseteq claim.submitted /\ jobs \cap claim.acknowledged = {}
  <2>1. pc # "idle"
    BY DEF StopAnswers, UnloadAnswers, WakeAnswers, Goto
  <2> QED BY <2>1, AtWork
<1>1. ASSUME NEW command \in Commands,
             claim' = [claim EXCEPT !.acknowledged = @ \cup {command}]
      PROVE  /\ claim' \in Claim /\ claim' # None
             /\ claim'.source = claim.source /\ claim'.destination = claim.destination
             /\ claim'.relocate = claim.relocate /\ claim'.stage = claim.stage
             /\ claim'.submitted = claim.submitted
             /\ claim'.acknowledged = claim.acknowledged \cup {command}
  BY <1>0, <1>1, AnswerFields DEF SleepingAssumption
<1>2. CASE StopAnswers
  <2>1. /\ pc = "stopping" /\ pc' = "observing" /\ seen' = FALSE /\ "stop" \notin jobs
        /\ UNCHANGED <<row, outside, sampler, failure, crashes, sent>>
        /\ claim' = [claim EXCEPT !.acknowledged = @ \cup {"stop"}] /\ "stop" \in Commands
    BY <1>2 DEF StopAnswers, Goto, Commands
  <2>2. /\ claim' \in Claim /\ claim' # None
        /\ claim'.source = claim.source /\ claim'.destination = claim.destination
        /\ claim'.relocate = claim.relocate /\ claim'.stage = claim.stage
        /\ claim'.submitted = claim.submitted
        /\ claim'.acknowledged = claim.acknowledged \cup {"stop"}
    BY <1>1, <2>1
  <2>3. claim.stage = "claimed" /\ "stop" \in claim.submitted
    BY <2>1 DEF Safe, Progress
  <2>4. TypeOK'
    BY <2>1, <2>2 DEF TypeOK, Steps, LockedSteps
  <2>5. Progress'
    BY <2>1, <2>2, <2>3 DEF Progress
  <2>6. ClaimValid'
    BY <1>0, <2>2, <2>3 DEF ClaimValid, Valid
  <2>7. \A c \in Commands : ~Presend(c)'
    BY <2>1 DEF Presend
  <2>8. Safe'
    BY <1>0, <2>1, <2>2, <2>5, <2>6, <2>7, Writes
  <2> QED BY <2>4, <2>8
<1>3. CASE UnloadAnswers
  <2>1. /\ pc = "unload sent" /\ pc' = "settling" /\ seen' = FALSE /\ "unload" \notin jobs
        /\ UNCHANGED <<row, outside, sampler, failure, crashes, sent>>
        /\ claim' = [claim EXCEPT !.acknowledged = @ \cup {"unload"}] /\ "unload" \in Commands
    BY <1>3 DEF UnloadAnswers, Goto, Commands
  <2>2. /\ claim' \in Claim /\ claim' # None
        /\ claim'.source = claim.source /\ claim'.destination = claim.destination
        /\ claim'.relocate = claim.relocate /\ claim'.stage = claim.stage
        /\ claim'.submitted = claim.submitted
        /\ claim'.acknowledged = claim.acknowledged \cup {"unload"}
    BY <1>1, <2>1
  <2>3. claim.stage = "released" /\ "unload" \in claim.submitted
    BY <2>1 DEF Safe, Progress
  <2>4. TypeOK'
    BY <2>1, <2>2 DEF TypeOK, Steps, LockedSteps
  <2>5. Progress'
    BY <2>1, <2>2, <2>3 DEF Progress
  <2>6. ClaimValid'
    BY <1>0, <2>2, <2>3 DEF ClaimValid, Valid
  <2>7. \A c \in Commands : ~Presend(c)'
    BY <2>1 DEF Presend
  <2>8. Safe'
    BY <1>0, <2>1, <2>2, <2>5, <2>6, <2>7, Writes
  <2> QED BY <2>4, <2>8
<1>4. CASE WakeAnswers
  <2>1. /\ pc = "wake sent" /\ pc' = "woken" /\ seen' = FALSE /\ "wake" \notin jobs
        /\ UNCHANGED <<row, outside, failure, crashes, sent>> /\ Boundary
        /\ claim.stage = "destination" /\ unit = claim.destination
        /\ claim' = [claim EXCEPT !.acknowledged = @ \cup {"wake"}] /\ "wake" \in Commands
    BY <1>4 DEF WakeAnswers, Goto, Commands
  <2>2. /\ claim' \in Claim /\ claim' # None
        /\ claim'.source = claim.source /\ claim'.destination = claim.destination
        /\ claim'.relocate = claim.relocate /\ claim'.stage = claim.stage
        /\ claim'.submitted = claim.submitted
        /\ claim'.acknowledged = claim.acknowledged \cup {"wake"}
    BY <1>1, <2>1
  <2>3. "wake" \in claim.submitted /\ claim.destination # None /\ claim.destination # claim.source
    BY <1>0, <2>1 DEF Safe, Accounts, Valid
  <2>4. TypeOK'
    BY <2>1, <2>2, Sampled DEF TypeOK, Steps, LockedSteps
  <2>5. Progress'
    BY <2>1, <2>2 DEF Progress
  <2>6. ClaimValid'
    BY <1>0, <2>1, <2>2, <2>3 DEF ClaimValid, Valid
  <2>7. \A c \in Commands : ~Presend(c)'
    BY <2>1 DEF Presend
  <2>8. Safe'
    BY <1>0, <2>1, <2>2, <2>5, <2>6, <2>7, Writes
  <2> QED BY <2>4, <2>8
<1> QED BY <1>2, <1>3, <1>4

\* The source is observed; the first round that shows it gone releases its account,
\* in the worker's own pass as in one that resumes an old claim.
LEMMA Observed ==
  ASSUME SleepingAssumption, TypeOK, Safe, ObserveSource \/ ResumeReleases
  PROVE  TypeOK' /\ Safe'
<1>0. /\ pc # "idle" /\ claim # None /\ claim \in Claim /\ Valid(claim)
      /\ UNCHANGED <<outside, failure, crashes, sent>> /\ FreshRound
      /\ \/ ReleaseSource /\ claim.stage = "claimed" /\ unit = None
         \/ row' = row /\ claim' = claim
      /\ pc \in {"observing", "resuming"} /\ pc' \in {"observing", "observed", "idle"}
      /\ seen' \in BOOLEAN
  <2>1. pc # "idle"
    BY DEF ObserveSource, ResumeReleases
  <2>2. claim # None /\ claim \in Claim /\ Valid(claim)
    BY <2>1, AtWork
  <2> QED BY <2>1, <2>2 DEF ObserveSource, ResumeReleases, Goto, SourceAbsent, TypeOK
<1>1. round' \in Round \cup {None} /\ sample' \in Round \cup {None}
  BY <1>0, Sampled
<1>2. pc' \in Steps
  BY <1>0 DEF Steps
<1>3. \A c \in Commands : ~Presend(c)'
  BY <1>0 DEF Presend
<1>4. "stop" \in claim.submitted
  <2>1. CASE ObserveSource
    BY <2>1 DEF ObserveSource, Safe, Progress
  <2>2. CASE ResumeReleases
    <3>1. claim.stage = "claimed" /\ claim.submitted # {}
      BY <2>2 DEF ResumeReleases
    <3> QED BY <1>0, <3>1 DEF Valid
  <2> QED BY <2>1, <2>2
<1>5. CASE ReleaseSource /\ claim.stage = "claimed" /\ unit = None
  <2>1. claim' \in Claim /\ claim'.stage = "released" /\ claim'.submitted = claim.submitted
    BY <1>0, <1>5, StageFields DEF ReleaseSource, Stages
  <2>2. Progress'
    BY <1>0, <1>4, <2>1 DEF Progress, SleepingAssumption
  <2>3. Safe' /\ row' \in [LeaseIds -> {"none", "pending", "confirmed", "released"}]
    BY <1>0, <1>3, <1>4, <1>5, <2>2, ReleasesSource
  <2>4. TypeOK'
    BY <1>0, <1>1, <1>2, <2>1, <2>3 DEF TypeOK
  <2> QED BY <2>3, <2>4
<1>6. CASE row' = row /\ claim' = claim
  <2>1. Progress'
    <3>1. CASE ObserveSource
      <4>1. /\ pc = "observing" /\ seen' = SourceAbsent
            /\ pc' = IF SourceAbsent /\ seen THEN "observed" ELSE pc
            /\ SourceAbsent /\ claim.stage = "claimed" => ReleaseSource
        BY <3>1 DEF ObserveSource
      <4>2. claim.stage \in {"claimed", "released"} /\ (seen => claim.stage = "released")
        BY <4>1 DEF Safe, Progress
      <4>3. SourceAbsent => claim.stage = "released"
        <5>1. SUFFICES ASSUME ReleaseSource, claim.stage = "claimed" PROVE FALSE
          BY <4>1, <4>2
        <5>2. claim'.stage = "released"
          BY <1>0, <5>1, StageFields DEF ReleaseSource, Stages
        <5> QED BY <1>6, <5>1, <5>2
      <4> QED BY <1>0, <1>4, <1>6, <4>1, <4>2, <4>3 DEF Progress
    <3>2. CASE ResumeReleases
      <4>1. pc' = "idle"
        BY <3>2 DEF ResumeReleases, Goto
      <4> QED BY <4>1 DEF Progress
    <3> QED BY <3>1, <3>2
  <2>2. Safe'
    BY <1>0, <1>3, <1>6, <2>1, Keeps
  <2>3. TypeOK'
    BY <1>0, <1>1, <1>2, <1>6 DEF TypeOK
  <2> QED BY <2>2, <2>3
<1> QED BY <1>0, <1>5, <1>6

\* The proxy is settled when two rounds show the model unloaded; an old claim that
\* retires ends there.
LEMMA ProxySettles ==
  ASSUME SleepingAssumption, TypeOK, Safe, Settle \/ ResumeSettles
  PROVE  TypeOK' /\ Safe'
<1>0. /\ pc # "idle" /\ claim # None /\ claim \in Claim /\ Valid(claim)
      /\ claim.submitted \subseteq Commands
      /\ jobs \subseteq claim.submitted /\ jobs \cap claim.acknowledged = {}
  <2>1. pc # "idle"
    BY DEF Settle, ResumeSettles
  <2> QED BY <2>1, AtWork
<1>1. /\ UNCHANGED <<row, outside, failure, crashes, sent>> /\ FreshRound
      /\ seen' \in BOOLEAN /\ claim.stage \in {"released", "settled"}
      /\ "unload" \in claim.acknowledged
      /\ \/ claim' = claim /\ pc' = pc
         \/ claim' = [claim EXCEPT !.stage = "settled"] /\ pc' \in {"settled", "idle"}
         \/ claim' = None /\ ~claim.relocate /\ pc' = "idle"
      /\ pc \in {"settling", "resuming"}
  <2>1. CASE Settle
    BY <2>1 DEF Settle, Safe, Progress, ProxySettled, SourceAbsent
  <2>2. CASE ResumeSettles
    BY <2>2 DEF ResumeSettles
  <2> QED BY <2>1, <2>2
<1>2. round' \in Round \cup {None} /\ sample' \in Round \cup {None}
  BY <1>1, Sampled
<1>3. pc' \in Steps
  BY <1>1 DEF Steps, TypeOK
<1>4. \A c \in Commands : ~Presend(c)'
  BY <1>1 DEF Presend
<1>5. CASE claim' = claim /\ pc' = pc
  <2>1. Progress'
    BY <1>1, <1>5 DEF Safe, Progress
  <2>2. Safe'
    BY <1>1, <1>4, <1>5, <2>1, Keeps
  <2>3. TypeOK'
    BY <1>1, <1>2, <1>5 DEF TypeOK
  <2> QED BY <2>2, <2>3
<1>6. CASE claim' = [claim EXCEPT !.stage = "settled"] /\ pc' \in {"settled", "idle"}
  <2>1. /\ claim' \in Claim /\ claim'.source = claim.source /\ claim'.destination = claim.destination
        /\ claim'.relocate = claim.relocate /\ claim'.stage = "settled"
        /\ claim'.submitted = claim.submitted /\ claim'.acknowledged = claim.acknowledged
    BY <1>0, <1>6, StageFields DEF Stages
  <2>2. claim' # None
    BY <2>1 DEF SleepingAssumption
  <2>3. Progress'
    BY <1>6, <2>1, <2>2 DEF Progress
  <2>4. ClaimValid'
    BY <1>0, <1>1, <2>1 DEF ClaimValid, Valid
  <2>5. Safe'
    BY <1>0, <1>1, <1>4, <2>1, <2>2, <2>3, <2>4, Writes
  <2>6. TypeOK'
    BY <1>1, <1>2, <1>3, <2>1 DEF TypeOK
  <2> QED BY <2>5, <2>6
<1>7. CASE claim' = None /\ ~claim.relocate /\ pc' = "idle"
  <2>1. /\ jobs = {} /\ row[claim.source] = "released"
    <3>1. claim.submitted \subseteq {"stop", "unload"} /\ "stop" \in claim.acknowledged
      BY <1>0, <1>1, <1>7 DEF Valid, Commands
    <3> QED BY <1>0, <1>1, <3>1 DEF Safe, Accounts
  <2>2. Progress' /\ BoundAccounts' /\ ClaimValid'
    BY <1>7 DEF Progress, BoundAccounts, ClaimValid
  <2>3. Sending' /\ Waiting'
    BY <1>1, <1>4, <1>7, <2>1 DEF Safe, Sending, Waiting
  <2>4. Accounts'
    BY <1>1, <1>7 DEF Safe, Accounts, Open
  <2>5. TypeOK'
    BY <1>1, <1>2, <1>3, <1>7 DEF TypeOK
  <2> QED BY <2>2, <2>3, <2>4, <2>5 DEF Safe
<1> QED BY <1>1, <1>5, <1>6, <1>7

\* A pass over the destination sees it once, or ends the claim.
LEMMA Destined ==
  ASSUME SleepingAssumption, TypeOK, Safe, Relocated \/ ResumeRelocates
  PROVE  TypeOK' /\ Safe'
<1>1. pc \in {"woken", "resuming"} /\ FreshRound /\ UNCHANGED <<row, outside, crashes, sent>>
  BY DEF Relocated, ResumeRelocates, ObserveDestination, Complete
<1>2. claim # None
  BY <1>1, AtWork
<1>3. round' \in Round \cup {None} /\ sample' \in Round \cup {None}
  BY <1>1, Sampled
<1>4. CASE seen' = TRUE /\ UNCHANGED <<durable, outside, pc, failure, crashes, sent>>
  <2>1. Progress'
    BY <1>1, <1>4 DEF Safe, Progress
  <2>2. Safe'
    BY <1>4, <2>1, Keeps DEF Presend
  <2>3. TypeOK'
    BY <1>3, <1>4 DEF TypeOK
  <2> QED BY <2>2, <2>3
<1>5. CASE Complete(pc)
  <2>1. Safe'
    BY <1>2, <1>5, Completes DEF Complete, Goto
  <2>2. TypeOK'
    BY <1>1, <1>3, <1>5 DEF Complete, Goto, TypeOK, Steps
  <2> QED BY <2>1, <2>2
<1> QED BY <1>4, <1>5 DEF Relocated, ResumeRelocates, ObserveDestination

\* A claim ends in the worker's own pass or in one that resumes it.
LEMMA Ended ==
  ASSUME SleepingAssumption, TypeOK, Safe, Retire \/ ResumeAborts
  PROVE  TypeOK' /\ Safe'
<1>1. /\ pc # "idle" /\ Completable(claim) /\ pc' = "idle" /\ claim' = None
      /\ seen' = FALSE /\ failure' = FALSE /\ UNCHANGED <<row, outside, sampler, crashes, sent>>
  BY DEF Retire, ResumeAborts, Complete, Goto
<1>2. Safe'
  BY <1>1, AtWork, Completes
<1>3. TypeOK'
  BY <1>1 DEF TypeOK, Steps
<1> QED BY <1>2, <1>3

\* A failed stop, a failed pass, a crash and a restart leave the claim as it is; a
\* stop that was not marked is undone.
LEMMA Interrupted ==
  ASSUME SleepingAssumption, TypeOK, Safe, StopFails \/ Fail \/ Crash \/ Resume
  PROVE  TypeOK' /\ Safe'
<1>1. CASE StopFails
  <2>1. /\ pc' = "observing" /\ seen' = FALSE /\ failure' = TRUE
        /\ UNCHANGED <<durable, outside, sampler, crashes, sent>>
    BY <1>1 DEF StopFails
  <2>2. Progress'
    BY <1>1, <2>1 DEF StopFails, Safe, Progress
  <2>3. TypeOK'
    BY <2>1 DEF TypeOK, Steps
  <2> QED BY <2>1, <2>2, <2>3, Keeps DEF Presend
<1>2. CASE Fail
  <2>1. /\ pc # "idle" /\ pc' = "idle" /\ seen' = FALSE /\ failure' = FALSE
        /\ UNCHANGED <<row, outside, sampler, crashes, sent>>
        /\ \/ claim # None /\ claim.stage = "claimed" /\ claim.submitted = {} /\ claim' = None
           \/ claim' = claim
    BY <1>2 DEF Fail
  <2>2. TypeOK'
    BY <2>1 DEF TypeOK, Steps
  <2>3. CASE claim # None /\ claim.stage = "claimed" /\ claim.submitted = {} /\ claim' = None
    BY <2>1, <2>2, <2>3, Completes DEF Completable
  <2>4. CASE claim' = claim
    <3>1. Progress'
      BY <2>1 DEF Progress
    <3> QED BY <2>1, <2>2, <2>4, <3>1, Keeps DEF Presend
  <2> QED BY <2>1, <2>3, <2>4
<1>3. CASE Crash
  <2>1. /\ pc' = "idle" /\ seen' = FALSE /\ failure' = FALSE /\ round' = None /\ sample' = None
        /\ crashes < MaxCrashes /\ crashes' = crashes + 1
        /\ UNCHANGED <<durable, outside, sent>>
    BY <1>3 DEF Crash
  <2>2. Progress'
    BY <2>1 DEF Progress
  <2>3. crashes' \in 0..MaxCrashes
    BY <2>1 DEF TypeOK, SleepingAssumption
  <2>4. TypeOK'
    BY <2>1, <2>3 DEF TypeOK, Steps
  <2> QED BY <2>1, <2>2, <2>4, Keeps DEF Presend
<1>4. CASE Resume
  <2>1. /\ claim # None /\ pc' = "resuming" /\ seen' = FALSE /\ Boundary
        /\ UNCHANGED <<durable, outside, failure, crashes, sent>>
    BY <1>4 DEF Resume
  <2>2. Progress'
    BY <2>1 DEF Progress
  <2>3. TypeOK'
    BY <2>1, Sampled DEF TypeOK, Steps
  <2> QED BY <2>1, <2>2, <2>3, Keeps DEF Presend
<1> QED BY <1>1, <1>2, <1>3, <1>4

\* llama-swap, the unit, the commands and the sampler go on beside the worker.
LEMMA Beside ==
  ASSUME SleepingAssumption, TypeOK, Safe,
         \/ ClientRequest \/ SwapReady \/ SwapGivesUp \/ SwapUnloads \/ UnitExits
         \/ StopExecutes \/ UnloadExecutes \/ WakeExecutes \/ CommandLost
         \/ RoundBegin \/ RoundPublish
  PROVE  TypeOK' /\ Safe'
<1>1. /\ UNCHANGED <<durable, worker, crashes, sent>>
      /\ unit' \in {unit, None} /\ jobs' \subseteq jobs
  BY DEF ClientRequest, SwapReady, SwapGivesUp, SwapUnloads, SwapMoves, UnitExits, StopExecutes,
         UnloadExecutes, WakeExecutes, CommandLost, Executes, RoundBegin, RoundPublish
<1>2. swap' \in {"stopped", "starting", "ready"}
  BY DEF ClientRequest, SwapReady, SwapGivesUp, SwapUnloads, SwapMoves, UnitExits, StopExecutes,
         UnloadExecutes, WakeExecutes, CommandLost, Executes, RoundBegin, RoundPublish, TypeOK
<1>3. round' \in Round \cup {None} /\ sample' \in Round \cup {None}
  <2>1. [unit |-> unit, swap |-> swap, mark |-> "new"] \in Round
    BY DEF TypeOK, Round
  <2> QED
    BY <2>1 DEF ClientRequest, SwapReady, SwapGivesUp, SwapUnloads, SwapMoves, UnitExits,
         StopExecutes, UnloadExecutes, WakeExecutes, CommandLost, Executes, RoundBegin,
         RoundPublish, TypeOK
<1>4. TypeOK'
  BY <1>1, <1>2, <1>3 DEF TypeOK
<1>5. Progress'
  BY <1>1 DEF Safe, Progress
<1> QED BY <1>1, <1>4, <1>5, Keeps DEF Presend

-----------------------------------------------------------------------------
(* The invariant and what it promises *)

LEMMA SleepingStarts == SleepingAssumption /\ Init => SleepingInv
<1> SUFFICES ASSUME SleepingAssumption, Init PROVE SleepingInv
  OBVIOUS
<1>1. TypeOK
  <2>1. row \in [LeaseIds -> {"none", "pending", "confirmed", "released"}]
    BY DEF Init
  <2>2. sent \in [LeaseIds -> [Commands -> Nat]]
    BY DEF Init
  <2>3. crashes \in 0..MaxCrashes
    BY DEF Init, SleepingAssumption
  <2> QED BY <2>1, <2>2, <2>3 DEF Init, TypeOK, Steps
<1>2. Progress /\ Accounts /\ BoundAccounts /\ ClaimValid
  BY DEF Init, Progress, Accounts, BoundAccounts, ClaimValid, Open
<1>3. Sending /\ Waiting
  BY DEF Init, Sending, Waiting
<1> QED BY <1>1, <1>2, <1>3 DEF SleepingInv, Safe

LEMMA SleepingSteps == SleepingAssumption /\ SleepingInv /\ [Next]_vars => SleepingInv'
<1> SUFFICES ASSUME SleepingAssumption, SleepingInv, [Next]_vars PROVE SleepingInv'
  OBVIOUS
<1> USE DEF SleepingInv
<1>1. CASE UNCHANGED vars
  <2>1. TypeOK'
    BY <1>1 DEF TypeOK
  <2>2. Progress'
    BY <1>1 DEF Safe, Progress
  <2> QED BY <1>1, <2>1, <2>2, Keeps DEF Presend
<1>2. CASE Environment
  <2>1. CASE \E l \in LeaseIds : Place(l) \/ Confirm(l) \/ Release(l)
    BY <2>1, Places, Settled
  <2> QED BY <1>2, <2>1, Beside DEF Environment
<1>3. CASE RoundBegin \/ RoundPublish
  BY <1>3, Beside
<1>4. CASE Recovering
  BY <1>4, Claims, Marked, Sent, Answered, Observed, ProxySettles, Ended, Destined, Interrupted
     DEF Recovering
<1>5. CASE Crash \/ Resume
  BY <1>5, Interrupted
<1>6. CASE Observing
  BY <1>6, Ended, Observed, ProxySettles, Destined DEF Observing
<1> QED BY <1>1, <1>2, <1>3, <1>4, <1>5, <1>6 DEF Next

\* The invariant gives every part of the promise. A command under way when the
\* destination is granted can only be the wake.
LEMMA SleepingPromise == SleepingAssumption /\ SleepingInv => RecoverySafe
<1> SUFFICES ASSUME SleepingAssumption, SleepingInv PROVE RecoverySafe
  OBVIOUS
<1> USE DEF SleepingInv
<1>1. ReleasedWhenGone
  BY DEF ReleasedWhenGone, Safe, Accounts, Open, SleepingAssumption
<1>2. OnceEach
  <2>1. \A l \in LeaseIds, c \in Commands : sent[l][c] \in {0, 1}
    BY DEF Safe, Sending
  <2> QED BY <2>1 DEF OnceEach
<1>3. NoStaleCommand
  <2>1. jobs # {} => claim # None
    BY DEF Safe, Waiting
  <2>2. ASSUME claim # None, jobs \cap {"stop", "unload"} # {}
        PROVE  unit \in {None, claim.source}
    <3>1. /\ jobs \subseteq claim.submitted /\ jobs \cap claim.acknowledged = {}
          /\ unit \in {None, claim.source, claim.destination} /\ Valid(claim)
      BY <2>2 DEF Safe, Waiting, Accounts, ClaimValid
    <3>2. claim.stage # "destination"
      BY <2>2, <3>1 DEF Valid
    <3> QED BY <3>1, <3>2 DEF Valid
  <2> QED BY <2>1, <2>2 DEF NoStaleCommand
<1> QED BY <1>1, <1>2, <1>3 DEF RecoverySafe, Safe

\* Whatever crashes, failed answers and late effects lie behind, a claim of
\* recovery.py fences its model until it is settled: each command is sent once,
\* none outlives the claim or meets another instance, and the account of the source
\* is given back only when its instance is gone.
THEOREM RecoveryHolds == ASSUME SleepingAssumption PROVE Spec => []RecoverySafe
<1>1. Init => SleepingInv
  BY SleepingStarts
<1>2. SleepingInv /\ [Next]_vars => SleepingInv'
  BY SleepingSteps
<1>3. SleepingInv => RecoverySafe
  BY SleepingPromise
<1> QED BY <1>1, <1>2, <1>3, PTL DEF Spec

-----------------------------------------------------------------------------
(* The recovery of a wedged wake *)

USE DEF fleet, rounds, recoverer, wakeVars

\* An instance belongs to an open account.
UnitCharged == instance # NoLease => OpenAccount(instance)

\* What each step of the worker knows of its target: an account that was given, and
\* was released before the unload is recorded; an attempt is counted before it is sent.
TargetKnown ==
  /\ doing \in {"stopping", "stopped", "unloading", "retrying", "unload sent"} => target # NoLease
  /\ doing \in {"stopping", "stopped"} => account[target] # "none"
  /\ doing \in {"stopped", "unloading", "retrying"} => account[target] = "released"
  /\ doing \in {"stopping", "stopped", "unloading"} => unloadsSent[target] = 0
  /\ doing \in {"unloading", "retrying"} =>
       retry # NoLease /\ retry.lease = target /\ unloadsSent[target] < retry.attempts

\* An account that was unloaded is not given any more.
UnloadedGone == \A l \in WakeLeases : unloadsSent[l] > 0 => account[l] = "released"

DueInv == WakeTypeOK /\ UnitCharged /\ TargetKnown /\ UnloadedGone /\ UnloadsBounded /\ UnloadAfterRelease

-----------------------------------------------------------------------------
(* Records and numbers *)

\* The type of an account, without its strings in the way.
WakeAccounts == [WakeLeases -> {"none", "pending", "confirmed", "released"}]

LEMMA EntryFields ==
  ASSUME WakeFailureAssumption, NEW e \in Entry
  PROVE  e.lease \in WakeLeases /\ e.attempts \in Nat /\ e.attempts >= 1 /\ e.attempts <= MaxUnloads
BY DEF Entry, WakeFailureAssumption

\* An entry starts with one attempt.
LEMMA EntryMade ==
  ASSUME WakeFailureAssumption, NEW l \in WakeLeases, NEW e, e = [lease |-> l, attempts |-> 1]
  PROVE  e \in Entry /\ e.lease = l /\ e.attempts = 1
BY DEF Entry, WakeFailureAssumption

\* A retry counts one attempt more.
LEMMA EntryCounts ==
  ASSUME WakeFailureAssumption, NEW e \in Entry, e.attempts < MaxUnloads,
         NEW f, f = [e EXCEPT !.attempts = @ + 1]
  PROVE  f \in Entry /\ f.lease = e.lease /\ f.attempts = e.attempts + 1
BY DEF Entry, WakeFailureAssumption

LEMMA Numbers ==
  ASSUME WakeFailureAssumption, WakeTypeOK
  PROVE  /\ Grace \in Nat /\ MaxUnloads \in Nat /\ since \in -1..Grace /\ 0 \in -1..Grace
         /\ unloadsSent \in [WakeLeases -> 0..MaxUnloads] /\ \A l \in WakeLeases : unloadsSent[l] \in Nat
<1>1. Grace \in Nat /\ MaxUnloads \in Nat
  BY DEF WakeFailureAssumption
<1>2. since \in -1..Grace /\ unloadsSent \in [WakeLeases -> 0..MaxUnloads]
  BY DEF WakeTypeOK
<1>3. 0 \in -1..Grace /\ \A l \in WakeLeases : unloadsSent[l] \in 0..MaxUnloads
  BY <1>1, <1>2
<1> QED BY <1>1, <1>2, <1>3

\* The window stays in its bounds.
LEMMA ExtendedType ==
  ASSUME WakeFailureAssumption, NEW e \in Evidence \cup {NoLease}, NEW r, NEW d \in -1..Grace
  PROVE  Extended(e, r, d) \in Evidence \cup {NoLease}
<1>0. Grace \in Nat /\ MinSamples \in Nat /\ MinSamples >= 1
  BY DEF WakeFailureAssumption
<1>1. [age |-> 0, rounds |-> 1] \in Evidence
  BY <1>0 DEF Evidence
<1>2. ASSUME e \in Evidence, d >= 0
      PROVE  [age |-> Capped(e.age + d, Grace),
              rounds |-> Capped(e.rounds + (IF d > 0 THEN 1 ELSE 0), MinSamples)] \in Evidence
  <2>1. e.age \in 0..Grace /\ e.rounds \in 1..MinSamples
    BY <1>2 DEF Evidence
  <2>2. Capped(e.age + d, Grace) \in 0..Grace
    <3>1. e.age + d \in Int /\ 0 <= e.age + d
      BY <1>0, <1>2, <2>1
    <3> QED BY <1>0, <3>1 DEF Capped
  <2>3. Capped(e.rounds + (IF d > 0 THEN 1 ELSE 0), MinSamples) \in 1..MinSamples
    <3>1. e.rounds + (IF d > 0 THEN 1 ELSE 0) \in Int /\ 1 <= e.rounds + (IF d > 0 THEN 1 ELSE 0)
      BY <1>0, <1>2, <2>1
    <3> QED BY <1>0, <3>1 DEF Capped
  <2> QED BY <2>2, <2>3 DEF Evidence
<1> QED BY <1>0, <1>1, <1>2 DEF Extended

-----------------------------------------------------------------------------
(* Steps *)

\* The model, the rounds and the commands move beside the worker; no account that
\* the worker knows of comes back.
LEMMA BesideWorker ==
  ASSUME WakeFailureAssumption, DueInv, WakeTypeOK', UNCHANGED recoverer,
         UnitCharged', \A l \in WakeLeases : account[l] # "none" => account'[l] # "none",
         \A l \in WakeLeases : account[l] = "released" => account'[l] = "released"
  PROVE  DueInv'
<1>1. TargetKnown'
  BY DEF DueInv, WakeTypeOK, TargetKnown
<1>2. UnloadedGone'
  BY DEF DueInv, UnloadedGone
<1>3. UnloadsBounded'
  BY DEF DueInv, UnloadsBounded
<1>4. UnloadAfterRelease'
  <2>1. retry # NoLease => retry.lease \in WakeLeases
    BY EntryFields DEF DueInv, WakeTypeOK
  <2>2. doing \in {"unloading", "retrying"} => target \in WakeLeases
    BY DEF DueInv, WakeTypeOK, TargetKnown
  <2> QED BY <2>1, <2>2 DEF DueInv, UnloadAfterRelease
<1> QED BY <1>1, <1>2, <1>3, <1>4 DEF DueInv

\* llama-swap, the unit and a command that takes effect or is lost.
LEMMA FleetMoves ==
  ASSUME WakeFailureAssumption, DueInv,
         \/ Requested \/ Ready \/ Sleeps \/ InstanceExits \/ SwapNotices \/ CallLost
         \/ StopActs \/ UnloadActs
  PROVE  DueInv'
<1>1. /\ UNCHANGED <<account, rounds, recoverer>> /\ instance' \in {instance, NoLease} /\ calls' \subseteq calls
      /\ proxy' \in {"stopped", "starting", "ready"} /\ asleep' \in BOOLEAN
  BY DEF DueInv, WakeTypeOK, Requested, Ready, Sleeps, InstanceExits, UnitGone, SwapNotices, CallLost,
         StopActs, UnloadActs
<1>2. WakeTypeOK'
  BY <1>1 DEF DueInv, WakeTypeOK
<1>3. UnitCharged'
  BY <1>1 DEF DueInv, UnitCharged, OpenAccount
<1> QED BY <1>1, <1>2, <1>3, BesideWorker

\* An account is granted, confirmed or released.
LEMMA AccountsMove ==
  ASSUME WakeFailureAssumption, DueInv, NEW l \in WakeLeases, Placed(l) \/ AccountMoves(l)
  PROVE  DueInv'
<1>1. /\ UNCHANGED <<proxy, calls, rounds, recoverer>>
      /\ \/ account[l] = "none" /\ instance' = l /\ asleep' = FALSE
            /\ account' = [account EXCEPT ![l] = "pending"]
         \/ /\ UNCHANGED <<instance, asleep>>
            /\ \/ account[l] = "pending" /\ account' = [account EXCEPT ![l] = "confirmed"]
               \/ OpenAccount(l) /\ instance # l /\ account' = [account EXCEPT ![l] = "released"]
  BY DEF Placed, AccountMoves
<1>2. /\ account \in WakeAccounts /\ account' \in WakeAccounts
      /\ \A k \in WakeLeases \ {l} : account'[k] = account[k]
      /\ account'[l] # "none" /\ account[l] # "released"
      /\ account'[l] \in {"pending", "confirmed"} \/ instance' # l
  <2>1. account \in WakeAccounts
    BY DEF DueInv, WakeTypeOK, WakeAccounts
  <2> QED BY <1>1, <2>1 DEF WakeAccounts, OpenAccount
<1>3. WakeTypeOK'
  BY <1>1, <1>2, ZenonT(60) DEF DueInv, WakeTypeOK, WakeAccounts
<1>4. UnitCharged'
  <2>1. instance # NoLease => instance \in WakeLeases /\ OpenAccount(instance)
    BY DEF DueInv, WakeTypeOK, UnitCharged
  <2> QED BY <1>1, <1>2, <2>1 DEF UnitCharged, OpenAccount
<1> QED BY <1>1, <1>2, <1>3, <1>4, BesideWorker

\* A round is published.
LEMMA RoundPublished ==
  ASSUME WakeFailureAssumption, DueInv, NEW valid \in BOOLEAN, NEW d \in {-1, 1}, Publishes(valid, d)
  PROVE  DueInv'
<1>1. /\ latest' = [unit |-> instance, asleep |-> asleep, swap |-> proxy, valid |-> valid]
      /\ unread' = TRUE /\ UNCHANGED <<fleet, calls, recoverer>>
  BY DEF Publishes
<1>2. latest' \in Observation
  BY <1>1 DEF DueInv, WakeTypeOK, Observation
<1>3. since' \in -1..Grace
  <2>1. Grace \in Nat /\ since \in -1..Grace
    BY DEF WakeFailureAssumption, DueInv, WakeTypeOK
  <2>2. CASE d = -1
    BY <2>1, <2>2 DEF Publishes
  <2>3. CASE d = 1
    <3>1. since' = Capped(since + 1, Grace)
      BY <2>3 DEF Publishes
    <3>2. Capped(since + 1, Grace) \in 0..Grace
      BY <2>1 DEF Capped
    <3> QED BY <2>1, <3>1, <3>2
  <2> QED BY <2>2, <2>3
<1>4. WakeTypeOK'
  BY <1>1, <1>2, <1>3 DEF DueInv, WakeTypeOK
<1>5. UnitCharged'
  BY <1>1 DEF DueInv, UnitCharged, OpenAccount
<1> QED BY <1>1, <1>4, <1>5, BesideWorker

\* The worker goes back to where it knows of no target, and may forget its entry.
LEMMA WorkerRests ==
  ASSUME WakeFailureAssumption, DueInv, WakeTypeOK', UNCHANGED <<account, instance, unloadsSent>>,
         doing' \in {"idle", "observed", "planned", "elsewhere"}, retry' \in {retry, NoLease}
  PROVE  DueInv'
<1>1. UnitCharged' /\ TargetKnown' /\ UnloadedGone'
  BY DEF DueInv, UnitCharged, TargetKnown, UnloadedGone, OpenAccount
<1>2. UnloadsBounded' /\ UnloadAfterRelease'
  BY DEF DueInv, UnloadsBounded, UnloadAfterRelease
<1> QED BY <1>1, <1>2 DEF DueInv

\* The steps that end without an effect.
LEMMA WorkerPauses ==
  ASSUME WakeFailureAssumption, DueInv,
         \/ Observes \/ Blocked \/ RecoversOther \/ ReturnsFromOther \/ NoRetry \/ Fails
         \/ Restarts \/ UnloadAnswered
  PROVE  DueInv'
<1>1. /\ UNCHANGED <<account, instance, asleep, latest, exitSeen, unloadsSent>>
      /\ doing' \in {"idle", "observed", "planned", "elsewhere"}
      /\ retry' \in {retry, NoLease} /\ target' \in {target, NoLease} /\ calls' \subseteq calls
  BY DEF Observes, Blocked, RecoversOther, ReturnsFromOther, NoRetry, Fails, Restarts,
         UnloadAnswered, Turns
<1>2. proxy' \in {"stopped", "starting", "ready"} /\ unread' \in BOOLEAN
  BY DEF Observes, Blocked, RecoversOther, ReturnsFromOther, NoRetry, Fails, Restarts,
         UnloadAnswered, DueInv, WakeTypeOK
<1>3. window' \in Evidence \cup {NoLease} /\ since' \in -1..Grace
  <2>1. window \in Evidence \cup {NoLease} /\ since \in -1..Grace /\ 0 \in -1..Grace
    BY Numbers DEF DueInv, WakeTypeOK
  <2>2. CASE Observes
    BY <2>1, <2>2, ExtendedType DEF Observes
  <2>3. CASE ~Observes
    BY <2>1, <2>3 DEF Blocked, RecoversOther, ReturnsFromOther, NoRetry, Fails, Restarts,
                      UnloadAnswered
  <2> QED BY <2>2, <2>3
<1>4. WakeTypeOK'
  BY <1>1, <1>2, <1>3 DEF DueInv, WakeTypeOK
<1> QED BY <1>1, <1>4, WorkerRests

\* The stop is sent for the account of the instance that the newest round shows wedged.
LEMMA Stops ==
  ASSUME WakeFailureAssumption, DueInv, StopsUnit
  PROVE  DueInv' /\ StopDue
<1>1. /\ doing = "planned" /\ doing' = "stopping" /\ instance # NoLease /\ account[instance] = "confirmed"
      /\ target' = instance /\ exitSeen' = FALSE /\ calls' = calls \cup {"stop"} /\ unread' = FALSE
      /\ UNCHANGED <<fleet, latest, since, window, retry, unloadsSent>>
      /\ Sufficient(Extended(window, latest, since))
  BY DEF StopsUnit, Turns
<1>2. instance \in WakeLeases
  BY <1>1 DEF DueInv, WakeTypeOK
<1>3. WakeTypeOK'
  BY <1>1, <1>2 DEF DueInv, WakeTypeOK
<1>4. unloadsSent[instance] = 0
  <2>1. unloadsSent[instance] \in Nat
    BY <1>2, Numbers DEF DueInv
  <2> QED BY <1>1, <1>2, <2>1 DEF DueInv, UnloadedGone
<1>5. TargetKnown'
  BY <1>1, <1>4 DEF TargetKnown
<1>6. UnitCharged' /\ UnloadedGone' /\ UnloadsBounded' /\ UnloadAfterRelease'
  BY <1>1 DEF DueInv, UnitCharged, UnloadedGone, UnloadsBounded, UnloadAfterRelease, OpenAccount
<1>7. StopDue
  <2>1. Extended(window, latest, since) # NoLease
    BY <1>1 DEF Sufficient
  <2>2. latest.valid /\ Wedged(latest)
    BY <2>1 DEF Extended
  <2>3. window # NoLease
    <3>1. SUFFICES ASSUME window = NoLease PROVE FALSE
      OBVIOUS
    <3>2. Extended(window, latest, since) = [age |-> 0, rounds |-> 1]
      BY <2>2, <3>1 DEF Extended
    <3>3. Grace = 0
      BY <1>1, <3>2 DEF Sufficient
    <3> QED BY <3>3 DEF WakeFailureAssumption
  <2> QED BY <1>1, <2>2, <2>3 DEF StopDue
<1> QED BY <1>3, <1>5, <1>6, <1>7 DEF DueInv

\* The exit and the release are seen, then the unload is recorded.
LEMMA ExitSeen ==
  ASSUME WakeFailureAssumption, DueInv, ExitObserved \/ RecordsUnload
  PROVE  DueInv'
<1>0. target \in WakeLeases /\ account[target] # "none" /\ unloadsSent[target] = 0
      /\ account \in WakeAccounts
  BY DEF ExitObserved, RecordsUnload, Turns, DueInv, WakeTypeOK, TargetKnown, WakeAccounts
<1>1. CASE ExitObserved
  <2>1. /\ doing = "stopping" /\ doing' \in {"stopping", "stopped"} /\ exitSeen' \in BOOLEAN /\ unread' = FALSE
        /\ doing' = "stopped" => \A l \in WakeLeases : ~OpenAccount(l)
        /\ UNCHANGED <<fleet, calls, latest, since, window, target, retry, unloadsSent>>
    BY <1>1 DEF ExitObserved, DueInv, WakeTypeOK, Observation
  <2>2. WakeTypeOK'
    BY <2>1 DEF DueInv, WakeTypeOK
  <2>3. doing' = "stopped" => account[target] = "released"
    BY <1>0, <2>1 DEF OpenAccount, WakeAccounts
  <2>4. TargetKnown'
    BY <1>0, <2>1, <2>3 DEF DueInv, TargetKnown
  <2>5. UnitCharged' /\ UnloadedGone' /\ UnloadsBounded' /\ UnloadAfterRelease'
    BY <2>1 DEF DueInv, UnitCharged, UnloadedGone, UnloadsBounded, UnloadAfterRelease, OpenAccount
  <2> QED BY <2>2, <2>4, <2>5 DEF DueInv
<1>2. CASE RecordsUnload
  <2>1. /\ doing = "stopped" /\ doing' = "unloading" /\ retry' = [lease |-> target, attempts |-> 1]
        /\ UNCHANGED <<fleet, calls, rounds, window, target, exitSeen, unloadsSent>>
    BY <1>2 DEF RecordsUnload, Turns
  <2>2. retry' \in Entry /\ retry'.lease = target /\ retry'.attempts = 1
    BY <1>0, <2>1, EntryMade
  <2>3. retry' # NoLease /\ account[target] = "released"
    BY <2>1, <2>2 DEF WakeFailureAssumption, DueInv, TargetKnown
  <2>4. WakeTypeOK'
    BY <2>1, <2>2 DEF DueInv, WakeTypeOK
  <2>5. TargetKnown'
    BY <1>0, <2>1, <2>2, <2>3 DEF DueInv, TargetKnown
  <2>6. UnitCharged' /\ UnloadedGone'
    BY <2>1 DEF DueInv, UnitCharged, UnloadedGone, OpenAccount
  <2>7. UnloadsBounded'
    BY <1>0, <2>1, <2>2, <2>3 DEF DueInv, UnloadsBounded
  <2>8. UnloadAfterRelease'
    BY <2>1, <2>2, <2>3 DEF UnloadAfterRelease
  <2> QED BY <2>4, <2>5, <2>6, <2>7, <2>8 DEF DueInv
<1> QED BY <1>1, <1>2

\* The unload is sent, counted before.
LEMMA Unloads ==
  ASSUME WakeFailureAssumption, DueInv, SendsUnload
  PROVE  DueInv'
<1>1. /\ doing \in {"unloading", "retrying"} /\ doing' = "unload sent" /\ calls' = calls \cup {"unload"}
      /\ unloadsSent' = [unloadsSent EXCEPT ![target] = @ + 1]
      /\ UNCHANGED <<fleet, rounds, window, target, exitSeen, retry>>
  BY DEF SendsUnload, Turns
<1>2. /\ target \in WakeLeases /\ retry # NoLease /\ retry.lease = target
      /\ account[target] = "released" /\ unloadsSent[target] < retry.attempts
  BY <1>1 DEF DueInv, WakeTypeOK, TargetKnown
<1>3. retry.attempts \in Nat /\ retry.attempts <= MaxUnloads /\ MaxUnloads \in Nat
  BY <1>2, EntryFields DEF DueInv, WakeTypeOK, WakeFailureAssumption
<1>4. unloadsSent \in [WakeLeases -> 0..MaxUnloads] /\ \A l \in WakeLeases : unloadsSent[l] \in Nat
  BY Numbers DEF DueInv
<1>5. /\ unloadsSent' \in [WakeLeases -> 0..MaxUnloads] /\ unloadsSent'[target] = unloadsSent[target] + 1
      /\ \A l \in WakeLeases \ {target} : unloadsSent'[l] = unloadsSent[l]
  <2>1. unloadsSent[target] + 1 \in 0..MaxUnloads
    BY <1>2, <1>3, <1>4
  <2> QED BY <1>1, <1>2, <1>4, <2>1
<1>6. WakeTypeOK'
  BY <1>1, <1>5 DEF DueInv, WakeTypeOK
<1>7. UnitCharged' /\ TargetKnown' /\ UnloadAfterRelease'
  BY <1>1, <1>2 DEF DueInv, UnitCharged, TargetKnown, UnloadAfterRelease, OpenAccount
<1>8. UnloadedGone'
  BY <1>1, <1>2, <1>5 DEF DueInv, UnloadedGone
<1>9. UnloadsBounded'
  <2>1. \A l \in WakeLeases : unloadsSent[l] <= MaxUnloads
    BY DEF DueInv, UnloadsBounded
  <2>2. \A l \in WakeLeases : retry # NoLease /\ retry.lease = l => unloadsSent[l] <= retry.attempts
    BY DEF DueInv, UnloadsBounded
  <2>3. unloadsSent'[target] <= MaxUnloads /\ unloadsSent'[target] <= retry.attempts
    BY <1>2, <1>3, <1>4, <1>5
  <2>4. \A l \in WakeLeases : unloadsSent'[l] <= MaxUnloads
    BY <1>5, <2>1, <2>3
  <2>5. retry' = retry
    BY <1>1
  <2>6. unloadsSent'[retry.lease] <= retry.attempts
    BY <1>2, <2>3
  <2> QED BY <2>4, <2>5, <2>6 DEF UnloadsBounded
<1> QED BY <1>6, <1>7, <1>8, <1>9 DEF DueInv

\* The unload is tried once more while no instance runs.
LEMMA TriesAgain ==
  ASSUME WakeFailureAssumption, DueInv, Retries
  PROVE  DueInv' /\ RetryDue
<1>1. /\ doing = "observed" /\ doing' = "retrying" /\ retry # NoLease /\ ~UnloadSettled
      /\ retry' = [retry EXCEPT !.attempts = @ + 1] /\ target' = retry.lease
      /\ UNCHANGED <<fleet, calls, rounds, window, exitSeen, unloadsSent>>
  BY DEF Retries, Turns
<1>2. /\ retry \in Entry /\ retry.lease \in WakeLeases /\ retry.attempts \in Nat
      /\ retry.attempts <= MaxUnloads /\ MaxUnloads \in Nat
  BY <1>1, EntryFields DEF DueInv, WakeTypeOK, WakeFailureAssumption
<1>3. retry.attempts < MaxUnloads
  BY <1>1, <1>2 DEF UnloadSettled
<1>4. retry' \in Entry /\ retry'.lease = retry.lease /\ retry'.attempts = retry.attempts + 1
  BY <1>1, <1>2, <1>3, EntryCounts
<1>5. retry' # NoLease /\ target' # NoLease
  BY <1>1, <1>2, <1>4 DEF WakeFailureAssumption
<1>6. WakeTypeOK'
  BY <1>1, <1>2, <1>4 DEF DueInv, WakeTypeOK
<1>7. unloadsSent[retry.lease] \in Nat /\ unloadsSent[retry.lease] <= retry.attempts /\ account[retry.lease] = "released"
  BY <1>1, <1>2 DEF DueInv, WakeTypeOK, UnloadsBounded, UnloadAfterRelease
<1>8. TargetKnown'
  BY <1>1, <1>2, <1>4, <1>5, <1>7 DEF TargetKnown
<1>9. UnitCharged' /\ UnloadedGone'
  BY <1>1 DEF DueInv, UnitCharged, UnloadedGone, OpenAccount
<1>10. UnloadsBounded'
  <2>1. \A l \in WakeLeases : unloadsSent[l] <= MaxUnloads
    BY DEF DueInv, UnloadsBounded
  <2> QED BY <1>1, <1>2, <1>4, <1>7, <2>1 DEF UnloadsBounded
<1>11. UnloadAfterRelease'
  BY <1>1, <1>4, <1>7 DEF UnloadAfterRelease
<1>12. RetryDue
  <2>1. \A l \in WakeLeases : ~OpenAccount(l)
    BY <1>1 DEF UnloadSettled
  <2> QED BY <2>1 DEF RetryDue, DueInv, WakeTypeOK, UnitCharged
<1> QED BY <1>6, <1>8, <1>9, <1>10, <1>11, <1>12 DEF DueInv

-----------------------------------------------------------------------------
(* What the worker promises *)

LEMMA DueInit == WakeFailureAssumption /\ WakeInit => DueInv
<1> SUFFICES ASSUME WakeFailureAssumption, WakeInit PROVE DueInv
  OBVIOUS
<1>1. WakeTypeOK
  <2>1. account \in [WakeLeases -> {"none", "pending", "confirmed", "released"}]
    BY DEF WakeInit
  <2>2. unloadsSent \in [WakeLeases -> 0..MaxUnloads]
    BY DEF WakeInit, WakeFailureAssumption
  <2>3. latest \in Observation
    BY DEF WakeInit, Observation
  <2>4. since \in -1..Grace
    BY DEF WakeInit, WakeFailureAssumption
  <2> QED BY <2>1, <2>2, <2>3, <2>4 DEF WakeInit, WakeTypeOK
<1>2. UnitCharged /\ TargetKnown /\ UnloadAfterRelease
  BY DEF WakeInit, UnitCharged, TargetKnown, UnloadAfterRelease
<1>3. UnloadedGone /\ UnloadsBounded
  BY DEF WakeInit, UnloadedGone, UnloadsBounded, WakeFailureAssumption
<1> QED BY <1>1, <1>2, <1>3 DEF DueInv

LEMMA DueNext ==
  WakeFailureAssumption /\ DueInv /\ [WakeNext]_wakeVars => DueInv' /\ (DueStep \/ UNCHANGED wakeVars)
<1> SUFFICES ASSUME WakeFailureAssumption, DueInv, [WakeNext]_wakeVars
             PROVE  DueInv' /\ (DueStep \/ UNCHANGED wakeVars)
  OBVIOUS
<1>1. DueInv'
  <2>1. CASE UNCHANGED wakeVars
    <3>1. WakeTypeOK'
      BY <2>1, ZenonT(60) DEF DueInv, WakeTypeOK
    <3>2. UnitCharged'
      BY <2>1 DEF DueInv, UnitCharged, OpenAccount
    <3> QED BY <2>1, <3>1, <3>2, BesideWorker
  <2>2. CASE Surroundings
    BY <2>2, FleetMoves, AccountsMove, RoundPublished DEF Surroundings
  <2>3. CASE StopActs \/ UnloadActs
    BY <2>3, FleetMoves
  <2>4. CASE Recovery
    BY <2>4, WorkerPauses, Stops, ExitSeen, Unloads, TriesAgain DEF Recovery
  <2>5. CASE Blocked \/ RecoversOther \/ Fails \/ Restarts
    BY <2>5, WorkerPauses
  <2> QED BY <2>1, <2>2, <2>3, <2>4, <2>5 DEF WakeNext
<1>2. doing = "observed" /\ doing' = "retrying" => Retries \/ UNCHANGED wakeVars
  BY DEF WakeNext, Surroundings, Recovery, Requested, Ready, Sleeps, InstanceExits, SwapNotices,
         CallLost, Placed, AccountMoves, Publishes, StopActs, UnloadActs, Observes,
         StopsUnit, ExitObserved, RecordsUnload, SendsUnload, UnloadAnswered, NoRetry,
         ReturnsFromOther, Blocked, RecoversOther, Fails, Restarts, Turns
<1>3. doing = "planned" /\ doing' = "stopping" => StopsUnit \/ UNCHANGED wakeVars
  BY DEF WakeNext, Surroundings, Recovery, Requested, Ready, Sleeps, InstanceExits, SwapNotices,
         CallLost, Placed, AccountMoves, Publishes, StopActs, UnloadActs, Observes,
         Retries, ExitObserved, RecordsUnload, SendsUnload, UnloadAnswered, NoRetry,
         ReturnsFromOther, Blocked, RecoversOther, Fails, Restarts, Turns
<1>4. RetryDue \/ UNCHANGED wakeVars
  BY <1>2, TriesAgain DEF RetryDue
<1>5. StopDue \/ UNCHANGED wakeVars
  BY <1>3, Stops DEF StopDue
<1> QED BY <1>1, <1>4, <1>5 DEF DueStep, DueInv

\* Whatever the model, the rounds and the other models do meanwhile, the worker of
\* wake_failure.py stops only an instance that the newest round shows wedged, retries an
\* unload only while no instance runs, unloads only accounts it gave back, and none
\* more than MAX_UNLOAD_ATTEMPTS times.
THEOREM WedgeHolds == ASSUME WakeFailureAssumption PROVE WakeSpec => [][DueStep]_wakeVars
<1>1. WakeInit => DueInv
  BY DueInit
<1>2. DueInv /\ [WakeNext]_wakeVars => DueInv'
  BY DueNext
<1>3. DueInv /\ [WakeNext]_wakeVars => [DueStep]_wakeVars
  BY DueNext
<1> QED BY <1>1, <1>2, <1>3, PTL DEF WakeSpec

-----------------------------------------------------------------------------
(* The components beside each other *)

\* A step of the wedged wake's worker, or none of its component.
LEMMA WedgedNext ==
  DueInv /\ [AllNext]_allVars
    => DueInv' /\ ((part = "wedged" => DueStep) \/ UNCHANGED allVars)
<1> SUFFICES ASSUME DueInv, [AllNext]_allVars
             PROVE  DueInv' /\ ((part = "wedged" => DueStep) \/ UNCHANGED allVars)
  OBVIOUS
<1>1. [WakeNext]_wakeVars
  BY DEF AllNext, allVars
<1>2. DueInv' /\ (DueStep \/ UNCHANGED wakeVars)
  BY <1>1, DueNext, InstancesAssumption
<1>3. part = "wedged" /\ UNCHANGED wakeVars => UNCHANGED allVars
  BY DEF AllNext, allVars, aVars
<1> QED BY <1>2, <1>3

\* The worker of wake_failure.py stops and unloads only what is there and wedged, and
\* no account more than MAX_UNLOAD_ATTEMPTS times.
THEOREM DueHolds == AllSpec => RecoveryDue
<1>1. AllInit => DueInv
  BY DueInit, InstancesAssumption DEF AllInit
<1>2. DueInv /\ [AllNext]_allVars => DueInv'
  BY WedgedNext
<1>3. DueInv /\ [AllNext]_allVars => [part = "wedged" => DueStep]_allVars
  BY WedgedNext
<1> QED BY <1>1, <1>2, <1>3, PTL DEF AllSpec, RecoveryDue

\* The invariant of the operations on models, of the part that takes place.
PartApart ==
  /\ part = "every" => Every!ActionsInv
  /\ part = "many" => Many!ActionsInv
  /\ part = "both" => Both!ActionsInv

LEMMA PartInit == AllInit => PartApart
<1> SUFFICES ASSUME AllInit PROVE PartApart
  OBVIOUS
<1>1. CASE part = "many"
  BY <1>1, Many!ActionsInit, InstancesAssumption DEF AllInit, PartApart
<1>2. CASE part = "both"
  BY <1>2, Both!ActionsInit, InstancesAssumption DEF AllInit, PartApart
<1>3. CASE part \notin {"many", "both"}
  BY <1>3, Every!ActionsInit, InstancesAssumption DEF AllInit, PartApart
<1> QED BY <1>1, <1>2, <1>3

LEMMA PartNext == PartApart /\ [AllNext]_allVars => PartApart'
<1> SUFFICES ASSUME PartApart, [AllNext]_allVars PROVE PartApart'
  OBVIOUS
<1>1. part' = part
  BY DEF AllNext, allVars
<1>2. part = "every" => [Every!Next]_(Every!vars)
  BY DEF AllNext, allVars, aVars, Every!vars, Every!fleet, Every!intents, Every!control
<1>3. part = "many" => [Many!Next]_(Many!vars)
  BY DEF AllNext, allVars, aVars, Many!vars, Many!fleet, Many!intents, Many!control
<1>4. part = "both" => [Both!Next]_(Both!vars)
  BY DEF AllNext, allVars, aVars, Both!vars, Both!fleet, Both!intents, Both!control
<1>5. part = "every" => Every!ActionsInv'
  BY <1>2, Every!ActionsNext, InstancesAssumption DEF PartApart
<1>6. part = "many" => Many!ActionsInv'
  BY <1>3, Many!ActionsNext, InstancesAssumption DEF PartApart
<1>7. part = "both" => Both!ActionsInv'
  BY <1>4, Both!ActionsNext, InstancesAssumption DEF PartApart
<1> QED BY <1>1, <1>5, <1>6, <1>7 DEF PartApart

LEMMA PartHolds == PartApart => OperationsApart
<1>1. (Every!ActionsInv => Every!OperationsApart) /\ (Many!ActionsInv => Many!OperationsApart)
      /\ (Both!ActionsInv => Both!OperationsApart)
  BY Every!ActionsApart, Many!ActionsApart, Both!ActionsApart
<1> QED BY <1>1 DEF PartApart, OperationsApart

\* A model has one operation of actions.py at a time, a claimed model none but its
\* recovery's, and a GPU that was reported vacated stays so while it is reserved.
THEOREM ApartHolds == AllSpec => []OperationsApart
<1>1. AllInit => PartApart
  BY PartInit
<1>2. PartApart /\ [AllNext]_allVars => PartApart'
  BY PartNext
<1>3. PartApart => OperationsApart
  BY PartHolds
<1> QED BY <1>1, <1>2, <1>3, PTL DEF AllSpec
===============================================================================
