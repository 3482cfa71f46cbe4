---------------------------- MODULE WakeFailure ----------------------------
(***************************************************************************)
(* Recovery of a wedged warm wake (llmsvc/wake_failure.py): llama-swap     *)
(* calls a model ready whose instance still sleeps. A window of published  *)
(* rounds is the evidence; then the unit is stopped, its exit observed in  *)
(* two newer rounds, and llama-swap told to unload the model, with the     *)
(* lock released and at most three times for one account. One worker does  *)
(* this for all models; another model keeps it away from this one.         *)
(***************************************************************************)
EXTENDS Integers, FiniteSets

CONSTANTS
  WakeLeases,  \* accounts of the model; an account stands for its instance
  MinSamples,  \* policy/wake_failure.py: distinct rounds
  Grace,       \* wake_failure_grace_seconds, in rounds' time steps
  MaxUnloads,  \* MAX_UNLOAD_ATTEMPTS
  NoLease

VARIABLES
  account,     \* llmsvc_leases: status of each account
  instance,    \* the account whose instance runs, or NoLease
  asleep,      \* the instance sleeps
  proxy,       \* llama-swap's state of the model
  calls,       \* commands that were sent and did not take effect
  latest,      \* the published round
  unread,      \* it was not observed by the worker
  since,       \* its time minus that of the round the worker observed last
  window,      \* the evidence: time and number of rounds, or NoLease
  doing,       \* the worker
  target,      \* the account whose instance is being stopped or unloaded, or NoLease
  exitSeen,    \* one newer round showed the exit
  retry,       \* the entry of `unloads`, or NoLease
  unloadsSent  \* history: unloads sent for each account

fleet == <<account, instance, asleep, proxy>>
rounds == <<latest, unread, since>>
recoverer == <<window, doing, target, exitSeen, retry, unloadsSent>>
wakeVars == <<fleet, calls, rounds, recoverer>>

Evidence == [age : 0..Grace, rounds : 1..MinSamples]
Observation == [unit : WakeLeases \cup {NoLease}, asleep : BOOLEAN,
          swap : {"stopped", "starting", "ready"}, valid : BOOLEAN]
\* An entry of `unloads`: the account and the attempts under way or made for it.
Entry == [lease : WakeLeases, attempts : 1..MaxUnloads]

WakeFailureAssumption ==
  /\ MinSamples \in Nat /\ MinSamples >= 2 /\ Grace \in Nat \ {0} /\ MaxUnloads \in Nat \ {0}
  /\ NoLease \notin WakeLeases \cup Evidence \cup Entry

Capped(n, top) == IF n > top THEN top ELSE n

WakeTypeOK ==
  /\ account \in [WakeLeases -> {"none", "pending", "confirmed", "released"}]
  /\ instance \in WakeLeases \cup {NoLease} /\ asleep \in BOOLEAN
  /\ proxy \in {"stopped", "starting", "ready"} /\ calls \subseteq {"stop", "unload"}
  /\ latest \in Observation /\ unread \in BOOLEAN /\ since \in -1..Grace
  /\ window \in Evidence \cup {NoLease}
  /\ doing \in {"idle", "observed", "planned", "stopping", "stopped", "unloading", "retrying",
             "unload sent", "elsewhere"}
  /\ target \in WakeLeases \cup {NoLease} /\ exitSeen \in BOOLEAN
  /\ retry \in Entry \cup {NoLease}
  /\ unloadsSent \in [WakeLeases -> 0..MaxUnloads]

WakeInit ==
  /\ account = [l \in WakeLeases |-> "none"] /\ instance = NoLease /\ asleep = FALSE
     /\ proxy = "stopped"
  /\ calls = {} /\ unread = FALSE /\ since = 0
  /\ latest = [unit |-> NoLease, asleep |-> FALSE, swap |-> "stopped", valid |-> FALSE]
  /\ window = NoLease /\ doing = "idle" /\ target = NoLease /\ exitSeen = FALSE
  /\ retry = NoLease /\ unloadsSent = [l \in WakeLeases |-> 0]

OpenAccount(l) == account[l] \in {"pending", "confirmed"}

-----------------------------------------------------------------------------
(* llama-swap, the launcher, the reconciler *)

Requested ==
  /\ proxy = "stopped" /\ proxy' = "starting"
  /\ UNCHANGED <<account, instance, asleep, calls, rounds, recoverer>>

Placed(l) ==
  /\ proxy = "starting" /\ instance = NoLease /\ account[l] = "none"
     /\ \A k \in WakeLeases : ~OpenAccount(k)
  /\ account' = [account EXCEPT ![l] = "pending"] /\ instance' = l /\ asleep' = FALSE
  /\ UNCHANGED <<proxy, calls, rounds, recoverer>>

\* The wrapper calls the model ready when /health passes, woken or not.
Ready ==
  /\ proxy = "starting" /\ instance # NoLease /\ proxy' = "ready"
  /\ asleep' \in {FALSE, asleep}
  /\ UNCHANGED <<account, instance, calls, rounds, recoverer>>

Sleeps ==
  /\ proxy = "ready" /\ instance # NoLease /\ proxy' = "stopped" /\ asleep' = TRUE
  /\ UNCHANGED <<account, instance, calls, rounds, recoverer>>

UnitGone == instance' = NoLease /\ asleep' = FALSE
InstanceExits == instance # NoLease /\ UnitGone /\ UNCHANGED <<account, proxy, calls, rounds,
                                                               recoverer>>
SwapNotices ==
  /\ proxy # "stopped" /\ instance = NoLease /\ proxy' = "stopped"
  /\ UNCHANGED <<account, instance, asleep, calls, rounds, recoverer>>

AccountMoves(l) ==
  /\ \/ account[l] = "pending" /\ instance = l /\ latest.unit = l
        /\ account' = [account EXCEPT ![l] = "confirmed"]
     \/ OpenAccount(l) /\ instance # l /\ latest.unit = NoLease
        /\ account' = [account EXCEPT ![l] = "released"]
  /\ UNCHANGED <<instance, asleep, proxy, calls, rounds, recoverer>>

StopActs ==
  /\ "stop" \in calls /\ calls' = calls \ {"stop"} /\ UnitGone
  /\ UNCHANGED <<account, proxy, rounds, recoverer>>
\* Also after the worker stopped waiting for the answer.
UnloadActs ==
  /\ doing # "unload sent"
  /\ "unload" \in calls /\ calls' = calls \ {"unload"} /\ proxy' = "stopped"
  /\ UNCHANGED <<account, instance, asleep, rounds, recoverer>>
CallLost ==
  /\ \E job \in calls : calls' = calls \ {job}
  /\ UNCHANGED <<fleet, rounds, recoverer>>

-----------------------------------------------------------------------------
(* Rounds and the evidence *)

\* wedged: the instance is alive and asleep, the data plane says ready.
Wedged(round) == round.unit # NoLease /\ round.asleep /\ round.swap = "ready"

\* plan_wake_failure: a round that shows no wedge, that failed or whose time ran
\* backwards starts the window again.
Extended(evidence, round, d) ==
  IF ~(round.valid /\ Wedged(round)) THEN NoLease
  ELSE IF evidence = NoLease \/ d < 0 THEN [age |-> 0, rounds |-> 1]
  ELSE [age |-> Capped(evidence.age + d, Grace),
        rounds |-> Capped(evidence.rounds + (IF d > 0 THEN 1 ELSE 0), MinSamples)]

Sufficient(evidence) == evidence # NoLease /\ evidence.age = Grace /\ evidence.rounds = MinSamples

\* A round is published, with errors, or with a clock that went back.
Publishes(valid, d) ==
  LET round == [unit |-> instance, asleep |-> asleep, swap |-> proxy, valid |-> valid] IN
  /\ latest' = round /\ unread' = TRUE
  /\ since' = (IF d < 0 THEN -1 ELSE Capped(since + d, Grace))
  /\ UNCHANGED <<fleet, calls, recoverer>>

-----------------------------------------------------------------------------
(* The worker *)

Turns(from, to) == doing \in from /\ doing' = to

\* _observe: once per published round, if the worker is not busy.
Observes ==
  /\ unread /\ unread' = FALSE /\ since' = 0
  /\ window' = Extended(window, latest, since)
  /\ IF Sufficient(window') THEN Turns({"idle"}, "planned") ELSE Turns({"idle"}, "observed")
  /\ UNCHANGED <<fleet, calls, latest, target, exitSeen, retry, unloadsSent>>

\* A pinned, default or busy model is only reported.
Blocked == Turns({"planned"}, "observed") /\ UNCHANGED <<fleet, calls, rounds, window, target,
                                                         exitSeen, retry, unloadsSent>>

\* The worker recovers another model, or waits for its unload.
RecoversOther == Turns({"observed"}, "elsewhere") /\ UNCHANGED <<fleet, calls, rounds, window,
                                                                 target, exitSeen, retry, unloadsSent>>
ReturnsFromOther == Turns({"elsewhere"}, "idle") /\ UNCHANGED <<fleet, calls, rounds, window,
                                                                target, exitSeen, retry, unloadsSent>>

\* _recover: planned again with the newest round; the unit is that of the account.
StopsUnit ==
  /\ Turns({"planned"}, "stopping")
  /\ Sufficient(Extended(window, latest, since))
  /\ instance # NoLease /\ account[instance] = "confirmed" /\ target' = instance
     /\ exitSeen' = FALSE
  /\ calls' = calls \cup {"stop"} /\ unread' = FALSE
  /\ UNCHANGED <<fleet, latest, since, window, retry, unloadsSent>>

\* _observe_victim: the exit and the release in two newer rounds.
ExitObserved ==
  /\ doing = "stopping" /\ unread /\ unread' = FALSE
  /\ LET gone == latest.valid /\ latest.unit = NoLease /\ \A l \in WakeLeases : ~OpenAccount(l) IN
     /\ exitSeen' = gone
     /\ doing' = IF gone /\ exitSeen THEN "stopped" ELSE doing
  /\ UNCHANGED <<fleet, calls, latest, since, window, target, retry, unloadsSent>>

\* The unload is due from here on, with the first attempt under way.
RecordsUnload ==
  /\ Turns({"stopped"}, "unloading")
  /\ retry' = [lease |-> target, attempts |-> 1]
  /\ UNCHANGED <<fleet, calls, rounds, window, target, exitSeen, unloadsSent>>

\* _unload, with the lock released.
SendsUnload ==
  /\ Turns({"unloading", "retrying"}, "unload sent")
  /\ calls' = calls \cup {"unload"} /\ unloadsSent' = [unloadsSent EXCEPT ![target] = @ + 1]
  /\ UNCHANGED <<fleet, rounds, window, target, exitSeen, retry>>

UnloadAnswered ==
  /\ Turns({"unload sent"}, "idle") /\ "unload" \in calls
  /\ calls' = calls \ {"unload"} /\ proxy' = "stopped"
  /\ retry' = NoLease /\ target' = NoLease /\ window' = NoLease
  /\ UNCHANGED <<account, instance, asleep, rounds, exitSeen, unloadsSent>>

\* Bug: a model that runs again does not end the entry when the round is old.
SettledIgnoringAccounts ==
  \/ retry.attempts >= MaxUnloads
  \/ latest.unit # NoLease \/ latest.swap = "stopped"

\* The entry has no more use: a new account, no attempt left, an instance that
\* runs or a proxy that settled.
UnloadSettled ==
  \/ \E l \in WakeLeases : OpenAccount(l)
  \/ retry.attempts >= MaxUnloads
  \/ latest.unit # NoLease \/ latest.swap = "stopped"

\* _retry_unload
Retries ==
  /\ Turns({"observed"}, "retrying") /\ retry # NoLease
  /\ ~UnloadSettled /\ latest.valid /\ latest.swap = "ready"
  /\ retry' = [retry EXCEPT !.attempts = @ + 1] /\ target' = retry.lease
  /\ UNCHANGED <<fleet, calls, rounds, window, exitSeen, unloadsSent>>

NoRetry ==
  /\ Turns({"observed"}, "idle")
  /\ retry' = (IF retry # NoLease /\ UnloadSettled THEN NoLease ELSE retry)
  /\ UNCHANGED <<fleet, calls, rounds, window, target, exitSeen, unloadsSent>>

\* A check, the deadline or the transport fails; the entry stays for a retry.
Fails ==
  /\ Turns({"planned", "stopping", "stopped", "unloading", "retrying", "unload sent"}, "idle")
  /\ window' = NoLease /\ target' = NoLease
  /\ UNCHANGED <<fleet, calls, rounds, exitSeen, retry, unloadsSent>>

\* Windows and entries are kept in memory only.
Restarts ==
  /\ doing' = "idle" /\ window' = NoLease /\ retry' = NoLease /\ target' = NoLease
  /\ UNCHANGED <<fleet, calls, rounds, exitSeen, unloadsSent>>

Surroundings ==
  \/ Requested \/ Ready \/ Sleeps \/ InstanceExits \/ SwapNotices \/ CallLost
  \/ \E l \in WakeLeases : Placed(l) \/ AccountMoves(l)
  \/ \E valid \in BOOLEAN, d \in {-1, 1} : Publishes(valid, d)
Recovery ==
  \/ Observes \/ StopsUnit \/ ExitObserved \/ RecordsUnload \/ SendsUnload \/ UnloadAnswered
  \/ Retries \/ NoRetry \/ ReturnsFromOther
WakeNext == Surroundings \/ StopActs \/ UnloadActs \/ Recovery \/ Blocked \/ RecoversOther \/ Fails \/ Restarts
WakeSpec == WakeInit /\ [][WakeNext]_wakeVars

\* The command was lost, so the deadline passes.
CommandGone ==
  \/ doing = "stopping" /\ calls = {} /\ instance # NoLease
  \/ doing = "unload sent" /\ "unload" \notin calls

\* The sampler publishes, the worker runs, the manager and llama-swap answer,
\* the reconciler releases what is gone.
WakeFairness ==
  /\ WF_wakeVars(Publishes(TRUE, 1)) /\ WF_wakeVars(Recovery)
  /\ WF_wakeVars(StopActs) /\ WF_wakeVars(UnloadActs)
  /\ \A l \in WakeLeases : WF_wakeVars(AccountMoves(l))
  /\ WF_wakeVars(Fails /\ CommandGone)
WakeFairSpec == WakeSpec /\ WakeFairness

-----------------------------------------------------------------------------
(* Properties *)

\* No account is unloaded more than MAX_UNLOAD_ATTEMPTS times, however the
\* attempts end (_retry_unload).
UnloadsBounded == \A l \in WakeLeases : unloadsSent[l] <= MaxUnloads /\ (retry # NoLease
/\ retry.lease = l => unloadsSent[l] <= retry.attempts)

\* An unload is only due for an account this path gave back: whatever happens to
\* the model meanwhile, its account is released when the entry is written.
UnloadAfterRelease ==
  /\ retry # NoLease => account[retry.lease] = "released"
  /\ doing \in {"unloading", "retrying"} => account[target] = "released"

\* The recovery acts on what is there: a retry is never decided while a new
\* instance runs, although the round that shows an inactive unit may be older than
\* it (_retry_unload), and a stop is sent for a model that the newest round shows
\* wedged, in that round and in the observed ones before it (_recover plans again).
RetryDue == doing = "observed" /\ doing' = "retrying" => instance = NoLease
StopDue == doing = "planned" /\ doing' = "stopping" =>
  latest.valid /\ Wedged(latest) /\ window # NoLease /\ account[instance] = "confirmed"
DueStep == RetryDue /\ StopDue /\ WakeTypeOK' /\ UnloadsBounded' /\ UnloadAfterRelease'

\* A model does not stay wedged for ever once rounds are valid and in order, the
\* worker is free for it and its attempts do not fail.
StopsTrying == (Fails
/\ ~CommandGone) \/ Restarts \/ Blocked \/ RecoversOther \/ CallLost \/ \E valid \in BOOLEAN, d \in {-1, 1} :
             ~(valid /\ d = 1) /\ Publishes(valid, d)
WedgeEnds == <>[][~StopsTrying]_wakeVars => []<>~(instance # NoLease
/\ account[instance] = "confirmed" /\ asleep /\ proxy = "ready")
=============================================================================
