----------------------------- MODULE MCTelemetry -----------------------------
(***************************************************************************)
(* What is observed and reported, one component at a time: the relay of    *)
(* the data plane's events, which comes with its own variables, the events *)
(* of the fleet's hub and its interface, the store, the scan of the hosts, *)
(* the archive, and the activity reports.                                  *)
(***************************************************************************)
EXTENDS EventRelay, TLC

CONSTANTS Parts

VARIABLES
  part, \* the component and instance that this behaviour exercises
  observer, ring, conn, e_reader, ui, e_bounds,        \* FleetEvents
  s_now, engine, export, db, s_all, s_bounds,          \* FleetStore
  proc, made, socket, lasting, scan,                   \* FleetScan
  a_now, a_source, a_all, files, disk, run, crashes,   \* FleetArchive
  table, r_reader, expired, history, report            \* ActivityReport

eVars == <<observer, ring, conn, e_reader, ui, e_bounds>>
sVars == <<s_now, engine, export, db, s_all, s_bounds>>
pVars == <<proc, made, socket, lasting, scan>>
aVars == <<a_now, a_source, a_all, files, disk, run, crashes>>
rVars == <<table, r_reader, expired, history, report>>
allVars == <<part, relayVars, eVars, sVars, pVars, aVars, rVars>>

\* An interface that follows the events, and one that refreshes and meets a restart.
Following == INSTANCE FleetEvents WITH Capacity <- 1, QueueSize <- 1, MaxChanges <- 1,
  MaxRestarts <- 0, MaxBreaks <- 1, MaxFails <- 0, Timed <- FALSE, reader <- e_reader, bounds <- e_bounds
Restarted == INSTANCE FleetEvents WITH Capacity <- 2, QueueSize <- 1, MaxChanges <- 0,
  MaxRestarts <- 1, MaxBreaks <- 0, MaxFails <- 0, Timed <- TRUE, reader <- e_reader, bounds <- e_bounds

\* A service whose counter restarts and whose scrapes fail; windows at the end of retention.
Sampling == INSTANCE FleetStore WITH Hour <- 2, MaxGap <- 2, Nominal <- 1, Raw <- 4, Hourly <- 4,
  Windows <- {2, 4}, StaleAfter <- 1, IdleLimit <- 2, ActiveWindow <- 1, MaxTime <- 3, MaxServed <- 1,
  MaxResets <- 1, MaxLosses <- 1, now <- s_now, all <- s_all, bounds <- s_bounds
Expiring == INSTANCE FleetStore WITH Hour <- 2, MaxGap <- 2, Nominal <- 1, Raw <- 2, Hourly <- 2,
  Windows <- {2}, StaleAfter <- 1, IdleLimit <- 2, ActiveWindow <- 1, MaxTime <- 5, MaxServed <- 1,
  MaxResets <- 0, MaxLosses <- 0, now <- s_now, all <- s_all, bounds <- s_bounds

Scanned == INSTANCE FleetScan WITH Pids <- {1, 2}, MaxStarts <- 2, MaxSockets <- 1

Archived == INSTANCE FleetArchive WITH Hour <- 2, Day <- 4, Raw <- 2, Hourly <- 4, MaxTime <- 5,
  MaxCrashes <- 1, now <- a_now, source <- a_source, all <- a_all

\* Times 1 is old, 2 is in the last hour, 3 in the last ten minutes, 5 is after now;
\* peers 1 and 2 are addresses of one container.
Users(peers) == [p \in peers |-> IF p = 0 THEN "unattributed" ELSE "container"]
Days(times) == [t \in times |-> IF t < 3 THEN "first" ELSE "second"]
Tracked == [status |-> "ok", msg |-> FALSE, tokens |-> 1]
Untracked == [status |-> "none", msg |-> TRUE, tokens |-> 0]
Malformed == [status |-> "ok", msg |-> FALSE, tokens |-> -1]
Reading == INSTANCE ActivityReport WITH Models <- {1, 2}, Peers <- {0}, Times <- {2, 3}, Now <- 4,
  Ten <- 1, Hour <- 2, Window <- 3, User <- Users({0}), Day <- Days({2, 3}), Outcomes <- {Tracked},
  Reads <- TRUE, MaxRows <- 2, reader <- r_reader
Reporting == INSTANCE ActivityReport WITH Models <- {1}, Peers <- {0, 1, 2}, Times <- {1, 2, 3}, Now <- 4,
  Ten <- 1, Hour <- 2, Window <- 2, User <- Users({0, 1, 2}), Day <- Days({1, 2, 3}),
  Outcomes <- {Tracked, Untracked, Malformed}, Reads <- FALSE, MaxRows <- 2, reader <- r_reader

ASSUME InstancesAssumption ==
  /\ Following!EventsAssumption /\ Restarted!EventsAssumption
  /\ Sampling!StoreAssumption /\ Expiring!StoreAssumption
  /\ Scanned!ScanAssumption /\ Archived!ArchiveAssumption
  /\ Reading!ActivityAssumption /\ Reporting!ActivityAssumption

AllInit ==
  /\ part \in Parts
  /\ RelayInit /\ Scanned!Init /\ Archived!Init
  /\ IF part = "restarted" THEN Restarted!Init ELSE Following!Init
  /\ IF part = "expiring" THEN Expiring!Init ELSE Sampling!Init
  /\ IF part = "reporting" THEN Reporting!Init ELSE Reading!Init

AllNext ==
  \/ part = "relay" /\ RelayNext /\ UNCHANGED <<part, eVars, sVars, pVars, aVars, rVars>>
  \/ part = "following" /\ Following!Next /\ UNCHANGED <<part, relayVars, sVars, pVars, aVars, rVars>>
  \/ part = "restarted" /\ Restarted!Next /\ UNCHANGED <<part, relayVars, sVars, pVars, aVars, rVars>>
  \/ part = "sampling" /\ Sampling!Next /\ UNCHANGED <<part, relayVars, eVars, pVars, aVars, rVars>>
  \/ part = "expiring" /\ Expiring!Next /\ UNCHANGED <<part, relayVars, eVars, pVars, aVars, rVars>>
  \/ part = "scanned" /\ Scanned!Next /\ UNCHANGED <<part, relayVars, eVars, sVars, aVars, rVars>>
  \/ part = "archived" /\ Archived!Next /\ UNCHANGED <<part, relayVars, eVars, sVars, pVars, rVars>>
  \/ part = "reading" /\ Reading!Next /\ UNCHANGED <<part, relayVars, eVars, sVars, pVars, aVars>>
  \/ part = "reporting" /\ Reporting!Next /\ UNCHANGED <<part, relayVars, eVars, sVars, pVars, aVars>>

AllSpec == AllInit /\ [][AllNext]_allVars

-----------------------------------------------------------------------------
(* Properties *)

\* What is displayed is what was last accepted: no event is taken for answered by
\* a fetch that began before it, no wake-up is lost, batches are neither mixed nor
\* reordered, and a dropped count, a restart or an overrun ring is noticed
\* (collectors/relay.py, fleet events and app).
DisplaysFollow ==
  /\ part = "relay" => RelayTrue
  /\ part = "following" => Following!DisplayTrue
  /\ part = "restarted" => Restarted!DisplayTrue

\* What the hub stores of a service is true of it: rows belong to the process they
\* name although numbers are used again while the hosts are scanned, nothing is
\* counted twice, a window says what all samples say, idle time is a lower bound,
\* and the archive loses nothing silently, whenever its worker is interrupted.
FleetTrue ==
  /\ part = "scanned" => Scanned!ScanTrue
  /\ part = "sampling" => Sampling!StoreTrue
  /\ part = "expiring" => Expiring!StoreTrue
  /\ part = "archived" => Archived!ArchiveTrue

\* A summary that is taken for known is what one pass over the table would have
\* given, and every report counts every request once, whoever looks.
ReportsExact ==
  /\ part = "reading" => Reading!ReportTrue
  /\ part = "reporting" => Reporting!ReportTrue

\* A count is remembered only when its event had room, no event of a replaced
\* generation is shown, and a service is said to have been active only at a scan
\* that dates the activity.
ObservedInOrder ==
  [][/\ part = "relay" => RelayStep
     /\ part = "sampling" => Sampling!ActivityIsGenuine
     /\ part = "expiring" => Expiring!ActivityIsGenuine]_allVars
=============================================================================
