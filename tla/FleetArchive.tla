----------------------------- MODULE FleetArchive -----------------------------
(***************************************************************************)
(* The archive of one observed session (llmsvc/fleet/archive.py).  A timer  *)
(* starts a worker that reads a snapshot of the fleet database, whose old   *)
(* rows are pruned, and merges it into files of its own: one file of events *)
(* per day, a checkpoint that says how far they reach, and a summary with   *)
(* hourly sums.  Each file is replaced at once, but the files one after the *)
(* other, and the worker or the machine may stop in between.               *)
(***************************************************************************)
EXTENDS Integers, FiniteSets, FiniteSetsExt

CONSTANTS
    Hour, Day,    \* ticks of an hour and of a day
    Raw, Hourly,  \* retention of samples and of hourly sums in the database
    MaxTime,      \* bound: the clock
    MaxCrashes    \* bound: workers killed and machines reset

ArchiveAssumption == {Hour, Day, Raw, Hourly} \subseteq Nat \ {0} /\ Raw <= Hourly /\ {MaxTime, MaxCrashes} \subseteq Nat

VARIABLES
    now,
    source,   \* the session in the database
    all,      \* ghost: the times of every sample ever stored
    files,    \* the archive as it is read back
    disk,     \* the archive that survives a reset of the machine
    run,      \* the worker
    crashes

vars == <<now, source, all, files, disk, run, crashes>>

None == -1
Times == 0 .. MaxTime
Days == 0 .. MaxTime \div Day
Hours == 0 .. MaxTime \div Hour
Kinds == {"started", "usage", "ended", "again", "gap"}

\* from is where a gap starts, and the end before a reobservation.
Events == [kind : Kinds, ts : Times, from : Times \cup {None}]
Ev(kind, ts, from) == [kind |-> kind, ts |-> ts, from |-> from]

NoState == [gen |-> None, cursor |-> None, ended |-> None, missing |-> None]
NoSummary == [gen |-> None, ended |-> None, hours |-> [h \in Hours |-> 0], missing |-> {}]
Empty == [days |-> [d \in Days |-> {}], state |-> NoState, summary |-> NoSummary]
NoRun == [pc |-> "idle", days |-> Empty.days, todo |-> {}, touched |-> {}, state |-> NoState, summary |-> NoSummary]

IsArchive(a) ==
    /\ a.days \in [Days -> SUBSET Events] /\ \A d \in Days : \A e \in a.days[d] : e.ts \div Day = d
    /\ a.state \in [gen : Times \cup {None}, cursor : Times \cup {None}, ended : Times \cup {None}, missing : Times \cup {None}]
    /\ a.state.ended <= a.state.gen /\ a.state.cursor <= a.state.gen
    /\ a.summary.hours \in [Hours -> 0 .. Hour]

TypeOK ==
    /\ source.last <= source.gen /\ source.ended \in {None} \cup source.last .. source.gen
    /\ source.samples \subseteq all
    /\ IsArchive(files) /\ IsArchive(disk)
    /\ run.pc \in {"idle", "days", "sync", "state", "stateSync", "summary", "error"} /\ run.todo \subseteq run.touched

Init ==
    /\ now = 0 /\ all = {}
    /\ source = [gen |-> None, first |-> None, last |-> None, ended |-> None, samples |-> {}, retained |-> None]
    /\ files = Empty /\ disk = Empty /\ run = NoRun /\ crashes = 0

(***************************************************************************)
(* The database: one snapshot of the host at most every tick.              *)
(***************************************************************************)

\* Seen, not seen by a complete inventory, not seen by an incomplete one.
Ingests ==
    /\ now < MaxTime /\ now' = now + 1
    /\ \/ /\ source' = [source EXCEPT !.gen = now', !.last = now', !.ended = None, !.samples = @ \cup {now'},
                                      !.first = IF @ = None THEN now' ELSE @]
          /\ all' = all \cup {now'}
       \/ /\ source.first # None
          /\ source' = [source EXCEPT !.gen = now', !.ended = IF @ = None THEN now' ELSE @]
          /\ UNCHANGED all
       \/ /\ source.first # None /\ source.ended = None
          /\ source' = [source EXCEPT !.gen = now', !.samples = @ \cup {now'}]
          /\ all' = all \cup {now'}
    /\ UNCHANGED <<files, disk, run, crashes>>

Cutoff(retained, keep) ==
    IF retained = None \/ retained < keep THEN 0 ELSE ((retained - keep) \div Hour) * Hour

Retains ==
    /\ source.first # None /\ source.retained < now
    /\ source' = [source EXCEPT !.retained = now, !.samples = {t \in @ : t >= Cutoff(now, Raw)}]
    /\ UNCHANGED <<now, all, files, disk, run, crashes>>

(***************************************************************************)
(* _merge_usage: the events that are new since the checkpoint.             *)
(***************************************************************************)

New == {t \in source.samples : t > files.state.cursor}

GapStart == Max({source.first, files.state.cursor, files.state.missing, files.state.gen})

GapEnd ==
    LET cut == Cutoff(source.retained, Raw)
    IN  Min({cut, IF source.ended # None THEN source.ended ELSE source.gen})

Started == IF files.state.gen = None THEN {Ev("started", source.first, None)} ELSE {}

Gaps == IF GapEnd > GapStart THEN {Ev("gap", GapEnd, GapStart)} ELSE {}

Reobserved ==
    LET ended == files.state.ended
        later == {t \in New : t > ended}
    IN  IF ended # None /\ source.last >= ended
        THEN {Ev("again", IF later # {} THEN Min(later) ELSE source.last, ended)}
        ELSE {}

Ended == IF source.ended # None /\ source.ended # files.state.ended THEN {Ev("ended", source.ended, None)} ELSE {}

Pending == Started \cup Gaps \cup Reobserved \cup {Ev("usage", t, None) : t \in New} \cup Ended

\* The id of an event; a gap's has its start as well.
SameId(e, f) == e.kind = f.kind /\ e.ts = f.ts /\ (e.kind = "gap" => e.from = f.from)

NewState ==
    LET s == [gen |-> source.gen, cursor |-> Max(New \cup {files.state.cursor}), ended |-> source.ended,
              missing |-> IF Gaps # {} THEN GapEnd ELSE files.state.missing]
    IN  IF [s EXCEPT !.gen = files.state.gen] = files.state THEN files.state ELSE s

\* The records the checkpoint stands on.
Required(state) ==
    {e \in {<<"started", IF state.gen = None THEN None ELSE source.first>>, <<"usage", state.cursor>>,
            <<"ended", state.ended>>, <<"gap", state.missing>>} : e[2] # None}
Found(days, state) == \A r \in Required(state) : \E e \in UNION {days[d] : d \in Days} : <<e.kind, e.ts>> = r

Merged(d) ==
    files.days[d] \cup {e \in Pending : e.ts \div Day = d /\ ~ \E f \in files.days[d] : SameId(e, f)}

Conflict == \E e \in Pending : \E f \in files.days[e.ts \div Day] : SameId(e, f) /\ e # f

(***************************************************************************)
(* _merge: the summary.                                                    *)
(***************************************************************************)

HourRow(h) == Cardinality({t \in all : t \div Hour = h})
Rows == {h \in Hours : h * Hour >= Cutoff(source.retained, Hourly) /\ HourRow(h) > 0}

MergedHours(old) == [h \in Hours |-> IF h \in Rows THEN HourRow(h) ELSE old.hours[h]]

NewSummary ==
    LET old == files.summary
        start == IF old.gen = None THEN source.first ELSE old.gen
        end == Min({Cutoff(source.retained, Hourly), IF source.ended # None THEN source.ended ELSE source.gen})
        s == [gen |-> source.gen, ended |-> source.ended, hours |-> MergedHours(old),
              missing |-> old.missing \cup IF end > start THEN {<<start, end>>} ELSE {}]
    IN  IF source.ended # None /\ [s EXCEPT !.gen = old.gen] = old THEN old ELSE s

(***************************************************************************)
(* run_archive: one worker at a time.                                      *)
(***************************************************************************)

Reads ==
    /\ run.pc = "idle" /\ source.first # None
    /\ LET days == [d \in Days |-> Merged(d)]
           todo == {d \in Days : days[d] # files.days[d]}
           touched == {e.ts \div Day : e \in Pending} \cup {r[2] \div Day : r \in Required(files.state)} IN
         run' = IF ~ Found(files.days, files.state) \/ Conflict THEN [NoRun EXCEPT !.pc = "error"]
                ELSE [pc |-> "days", days |-> days, todo |-> todo, touched |-> touched, state |-> NewState, summary |-> NewSummary]
    /\ UNCHANGED <<now, source, all, files, disk, crashes>>

Writes(d) ==
    /\ run.pc = "days" /\ d \in run.todo
    /\ files' = [files EXCEPT !.days[d] = run.days[d]]
    /\ run' = [run EXCEPT !.todo = @ \ {d}]
    /\ UNCHANGED <<now, source, all, disk, crashes>>

Step(pc) == run' = [run EXCEPT !.pc = pc]

Synced == [d \in Days |-> IF d \in run.touched THEN files.days[d] ELSE disk.days[d]]

Syncs ==
    /\ run.pc = "days" /\ run.todo = {}
    /\ disk' = [disk EXCEPT !.days = Synced] /\ Step("state")
    /\ UNCHANGED <<now, source, all, files, crashes>>

WritesState ==
    /\ run.pc = "state"
    /\ files' = [files EXCEPT !.state = run.state] /\ Step("stateSync")
    /\ UNCHANGED <<now, source, all, disk, crashes>>

SyncsState ==
    /\ run.pc = "stateSync"
    /\ disk' = [disk EXCEPT !.state = files.state] /\ Step("summary")
    /\ UNCHANGED <<now, source, all, files, crashes>>

WritesSummary ==
    /\ run.pc = "summary"
    /\ files' = [files EXCEPT !.summary = run.summary] /\ disk' = [disk EXCEPT !.summary = run.summary]
    /\ run' = NoRun
    /\ UNCHANGED <<now, source, all, crashes>>

\* The session is left for the next run.
Fails ==
    /\ run.pc \notin {"idle", "error"} /\ crashes < MaxCrashes
    /\ run' = NoRun /\ crashes' = crashes + 1
    /\ UNCHANGED <<now, source, all, files, disk>>

\* Of the files that were not synced, any may be back at what they were.
PowerFails ==
    /\ crashes < MaxCrashes /\ files # disk
    /\ \E lost \in SUBSET Days, state \in {files.state, disk.state} :
         /\ files' = [days |-> [d \in Days |-> IF d \in lost THEN disk.days[d] ELSE files.days[d]],
                      state |-> state, summary |-> files.summary]
         /\ disk' = files'
    /\ run' = NoRun /\ crashes' = crashes + 1
    /\ UNCHANGED <<now, source, all>>

Works == Reads \/ (\E d \in Days : Writes(d)) \/ Syncs \/ WritesState \/ SyncsState \/ WritesSummary

Next == Ingests \/ Retains \/ Works \/ Fails \/ PowerFails

Spec == Init /\ [][Next]_vars
Fairness == WF_vars(Works)
FairSpec == Spec /\ Fairness

(***************************************************************************)
(* Properties.                                                             *)
(***************************************************************************)

Records(a) == UNION {a.days[d] : d \in Days}
Covered(t, gaps) == \E g \in gaps : g[1] <= t /\ t < g[2]

\* Whatever survives a reset: every sample the hub stored up to the checkpoint
\* is a record, or lies in a gap that is declared, although the database
\* forgets samples and workers stop between two files.
NothingLostSilently ==
    LET gaps == {<<e.from, e.ts>> : e \in {f \in Records(disk) : f.kind = "gap"}} IN
    \A t \in all : t <= disk.state.gen => Ev("usage", t, None) \in Records(disk) \/ Covered(t, gaps)

\* The records the checkpoint stands on are there, so a worker never meets an
\* archive that it must refuse: no interruption blocks the session for good.
NeverBlocked == run.pc # "error"

\* The summary counts every sample of an hour once, up to its snapshot, or
\* declares that it may miss some of that hour.
SummaryWhole ==
    \A h \in Hours :
        LET s == files.summary
            known == {t \in all : t \div Hour = h /\ t <= s.gen}
        IN  s.hours[h] >= Cardinality(known) \/ \E m \in s.missing : m[1] < (h + 1) * Hour /\ m[2] > h * Hour

\* However often it was interrupted, the archive ends with what the database
\* still has: every sample is a record, the end is the checkpoint's and the
\* summary's.
CatchesUp ==
    <>[](now = MaxTime /\ source.first # None =>
            /\ \A t \in source.samples : Ev("usage", t, None) \in Records(files)
            /\ files.state.ended = source.ended /\ files.summary.ended = source.ended)

\* What the archive holds, in every state.
ArchiveTrue == TypeOK /\ NothingLostSilently /\ NeverBlocked /\ SummaryWhole
=============================================================================
