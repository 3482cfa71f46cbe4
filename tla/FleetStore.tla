------------------------------ MODULE FleetStore ------------------------------
(***************************************************************************)
(* The history of one service in the fleet database (llmsvc/fleet).  A host *)
(* scanner exports what it sees; the hub reads the export again and again,  *)
(* turns counters into samples (ingest.py sample), keeps raw samples and    *)
(* hourly sums under two retention periods (store.py) and answers windows   *)
(* and a status (policy.py).  Time is counted in ticks, an hour has Hour of *)
(* them; the counters of a service are one counter of finished requests.    *)
(***************************************************************************)
EXTENDS Integers, FiniteSets, FiniteSetsExt

CONSTANTS
    Hour,        \* ticks of an hour
    MaxGap,      \* MAX_SAMPLE_GAP_SECONDS
    Nominal,     \* the scanner's interval
    Raw, Hourly, \* retention of samples and of hourly sums
    Windows,     \* the windows a report asks for
    StaleAfter, IdleLimit, ActiveWindow,
    MaxTime,     \* bound: the clock
    MaxServed,   \* bound: requests
    MaxResets,   \* bound: restarts of the engine
    MaxLosses    \* bound: failed scrapes and scans without the service

\* A window is answered from raw samples at its edges, so these must be kept.
StoreAssumption ==
    /\ {Hour, MaxGap, Nominal, Raw, Hourly} \subseteq Nat \ {0} /\ Windows \subseteq Nat \ {0}
    /\ \A w \in Windows : w <= Raw /\ Raw <= Hourly

VARIABLES
    now,
    engine,     \* the service itself: counter, its epoch, requests running
    export,     \* the file the scanner wrote last, and the one before
    db,         \* the database
    all,        \* ghost: every sample ever stored
    bounds

vars == <<now, engine, export, db, all, bounds>>

None == -1
NoExport == [at |-> None]
NoState == [ts |-> None, observed |-> FALSE, base |-> None, baseTs |-> None, epoch |-> FALSE,
            since |-> FALSE, idle |-> 0, active |-> None, supported |-> FALSE, ok |-> FALSE, unclear |-> FALSE]

\* busy is the last tick with a request; quiet, in a scan, the ticks since.
Scans(t) == {[at |-> t, listed |-> l, complete |-> c, ok |-> o, count |-> engine.count,
              epoch |-> engine.epoch, running |-> engine.running, quiet |-> t - engine.busy] :
                l \in BOOLEAN, c \in BOOLEAN, o \in BOOLEAN}

TypeOK ==
    /\ now \in 0 .. MaxTime
    /\ engine \in [count : 0 .. MaxServed, epoch : BOOLEAN, running : BOOLEAN, busy : 0 .. MaxTime,
                   served : 0 .. MaxServed]
    /\ db.at \in None .. now /\ db.life \in {"none", "live", "ended"} /\ db.last \in None .. now
    /\ \A s \in db.samples : s.observed \in 0 .. MaxGap /\ s.ts \in 0 .. now
    /\ \A h \in db.hours : h.hour % Hour = 0 /\ h.observed \in 0 .. Hour
    /\ \A h, g \in db.hours : h.hour = g.hour => h = g
    /\ db.samples \subseteq all /\ \A s, r \in all : s.ts = r.ts => s = r

Init ==
    /\ now = 0
    /\ engine = [count |-> 0, epoch |-> FALSE, running |-> FALSE, busy |-> 0, served |-> 0]
    /\ export = [last |-> NoExport, before |-> NoExport]
    /\ db = [at |-> None, life |-> "none", last |-> None, state |-> NoState, quiet |-> 0,
             samples |-> {}, hours |-> {}, pruned |-> None]
    /\ all = {}
    /\ bounds = [resets |-> 0, losses |-> 0]

(***************************************************************************)
(* The service and the scanner.                                            *)
(***************************************************************************)

Tick ==
    /\ now < MaxTime /\ now' = now + 1
    /\ \E finished \in {0, 1}, running \in BOOLEAN, reset \in BOOLEAN :
         /\ engine.served + finished <= MaxServed
         /\ finished = 0 => ~ (engine.running /\ ~ running /\ ~ reset)
         /\ reset => bounds.resets < MaxResets
         /\ engine' = [count |-> (IF reset THEN 0 ELSE engine.count) + finished,
                       epoch |-> engine.epoch # reset, running |-> running,
                       busy |-> IF finished = 1 \/ running THEN now' ELSE engine.busy,
                       served |-> engine.served + finished]
         /\ bounds' = [bounds EXCEPT !.resets = IF reset THEN @ + 1 ELSE @]
    /\ UNCHANGED <<export, db, all>>

\* A scan may miss the service, with or without knowing that it did, or fail to
\* read its counters.
Scan ==
    /\ export.last.at < now
    /\ \E e \in Scans(now) :
         /\ e.listed => e.complete
         /\ ~ e.listed => ~ e.ok
         /\ ~ e.ok => bounds.losses < MaxLosses
         /\ bounds' = [bounds EXCEPT !.losses = IF e.ok THEN @ ELSE @ + 1]
         /\ export' = [last |-> e, before |-> export.last]
    /\ UNCHANGED <<now, engine, db, all>>

\* The file of an earlier scan is put back.
Restores ==
    /\ export.before.at # None /\ bounds.losses < MaxLosses
    /\ export' = [last |-> export.before, before |-> NoExport]
    /\ bounds' = [bounds EXCEPT !.losses = @ + 1]
    /\ UNCHANGED <<now, engine, db, all>>

(***************************************************************************)
(* ingest.py sample.                                                       *)
(***************************************************************************)

Smaller(a, b) == IF a < b THEN a ELSE b
Larger(a, b) == IF a < b THEN b ELSE a

\* A counter that fell, or whose epoch changed, has no delta.
IsReset(e, s) == s.base # None /\ (e.count < s.base \/ e.epoch # s.epoch)

\* The last sample was successful, and near enough to cover what lies between.
Interval(e, s) == IF s.ts = None THEN 0 ELSE e.at - s.ts
Near(e, s) == Interval(e, s) \in 1 .. MaxGap /\ s.base # None /\ s.baseTs = s.ts /\ ~ IsReset(e, s)

Observed(e, s) == IF s.observed /\ Near(e, s) THEN Smaller(Interval(e, s), 2 * Nominal) ELSE 0

Delta(e, s) == IF s.base = None \/ IsReset(e, s) THEN 0 ELSE e.count - s.base

\* Whether the scan itself, or the short time before it, saw the activity.
Clear(e, s) == e.running \/ (Delta(e, s) > 0 /\ Near(e, s))

\* A failed scrape keeps the baseline and covers nothing.
Missed(e, s) ==
    [row |-> [ts |-> e.at, d |-> 0, active |-> FALSE, observed |-> 0],
     state |-> [s EXCEPT !.ts = e.at, !.observed = FALSE, !.since = FALSE, !.idle = 0,
                         !.supported = FALSE, !.ok = FALSE, !.unclear = FALSE]]

Sampled(e, s) ==
    IF ~ e.ok THEN Missed(e, s)
    ELSE LET d == Delta(e, s)
             active == e.running \/ d > 0
             clear == Clear(e, s)
             observed == Observed(e, s) IN
         [row |-> [ts |-> e.at, d |-> d, active |-> active, observed |-> observed],
          state |-> [ts |-> e.at, observed |-> TRUE, base |-> e.count, baseTs |-> e.at, epoch |-> e.epoch,
                     since |-> ~ active,
                     idle |-> IF ~ active /\ observed > 0 /\ s.since THEN s.idle + observed ELSE 0,
                     active |-> IF active /\ clear THEN e.at ELSE s.active,
                     supported |-> TRUE, ok |-> TRUE, unclear |-> active /\ ~ clear]]

(***************************************************************************)
(* store.py.                                                               *)
(***************************************************************************)

HourOf(t) == (t \div Hour) * Hour

\* The ticks of [from, to] that the sample covers.
Overlap(s, from, to) == Larger(0, Smaller(s.ts, to) - Larger(s.ts - s.observed, from))

\* _hourly: coverage is split at hours, counters belong to the endpoint.
Share(s, h) == Overlap(s, h, h + Hour)

Touched(s) == {h \in {HourOf(t) : t \in s.ts - s.observed .. s.ts} : Share(s, h) > 0} \cup {HourOf(s.ts)}

Rolled(hours, s) ==
    LET old(h) == CHOOSE x \in hours \cup {[hour |-> h, d |-> 0, active |-> 0, observed |-> 0]} :
                    x.hour = h /\ (x \in hours \/ \A y \in hours : y.hour # h)
        new(h) == [hour |-> h, d |-> old(h).d + IF HourOf(s.ts) = h THEN s.d ELSE 0,
                   active |-> old(h).active + IF s.active THEN Share(s, h) ELSE 0,
                   observed |-> old(h).observed + Share(s, h)] IN
    {x \in hours : x.hour \notin Touched(s)} \cup {new(h) : h \in Touched(s)}

Stored(d, r, e, life, last) ==
    [d EXCEPT !.at = e.at, !.life = life, !.last = last, !.state = r.state, !.quiet = e.quiet,
              !.samples = @ \cup {r.row}, !.hours = Rolled(@, r.row)]

Newer(e) == e.at > db.at

\* ingest_once and ingest, one transaction: a service of the scan, one the scan
\* missed without knowing better, and one that is gone.
Ingests ==
    LET e == export.last
        s == IF db.life = "ended" THEN [db.state EXCEPT !.observed = FALSE, !.since = FALSE, !.idle = 0]
             ELSE db.state IN
    /\ e.at # None /\ now - e.at <= StaleAfter /\ Newer(e)
    /\ \/ e.listed /\ db' = Stored(db, Sampled(e, s), e, "live", e.at) /\ all' = all \cup {Sampled(e, s).row}
       \/ /\ ~ e.listed /\ db.life = "live" /\ ~ e.complete
          /\ db' = Stored(db, Missed(e, s), e, "live", db.last) /\ all' = all \cup {Missed(e, s).row}
       \/ /\ ~ e.listed /\ (db.life = "live" => e.complete)
          /\ db' = [db EXCEPT !.at = e.at, !.life = IF @ = "live" THEN "ended" ELSE @]
          /\ UNCHANGED all
    /\ UNCHANGED <<now, engine, export, bounds>>

RawCutoff == HourOf(now - Raw)

\* retention_tick: at most once an hour, whole hours only.
Prunes ==
    /\ db.at # None /\ (db.pruned # None => now - db.pruned >= Hour)
    /\ db' = [db EXCEPT !.samples = {s \in @ : s.ts >= RawCutoff},
                        !.hours = {h \in @ : h.hour >= HourOf(now - Hourly)}, !.pruned = now]
    /\ UNCHANGED <<now, engine, export, all, bounds>>

(***************************************************************************)
(* What a report says.                                                     *)
(***************************************************************************)

Requests(S) == MapThenSumSet(LAMBDA s : s.d, S)
Covered(S, from, to) == MapThenSumSet(LAMBDA s : Overlap(s, from, to), S)

\* window, up to now: whole hours from the sums, the edges from the samples; a
\* sample behind an edge may cover ticks before it.
Window(w) ==
    LET start == now - w
        first == -((-start) \div Hour) * Hour
        last == HourOf(now)
        buckets == {h \in db.hours : first <= h.hour /\ h.hour < last}
        edges == IF first >= now THEN {<<start, now>>}
                 ELSE {<<start, first>>, <<Larger(last, first), now>>}
        counted(b) == {s \in db.samples : b[1] <= s.ts /\ (s.ts < b[2] \/ (s.ts = now /\ b[2] = now))}
        near(b) == {s \in db.samples : b[1] <= s.ts /\ s.ts < b[2] + MaxGap} IN
    [requests |-> Requests(buckets) + MapThenSumSet(LAMBDA b : Requests(counted(b)), edges),
     observed |-> MapThenSumSet(LAMBDA h : h.observed, buckets)
                  + MapThenSumSet(LAMBDA b : Covered(near(b), b[1], b[2]), edges)]

\* service_status, for a service that counts requests.
Status ==
    IF \/ db.at = None \/ now - db.at > StaleAfter \/ db.last # db.at
       \/ ~ db.state.supported \/ ~ db.state.ok \/ db.state.unclear THEN "unknown"
    ELSE IF db.state.active # None /\ now - db.state.active <= ActiveWindow THEN "active"
    ELSE IF db.state.idle >= IdleLimit THEN "over_limit" ELSE "idle"

Next == Tick \/ Scan \/ Restores \/ Ingests \/ Prunes

Spec == Init /\ [][Next]_vars

(***************************************************************************)
(* Properties.                                                             *)
(***************************************************************************)

\* A window says what all samples ever taken say of it, to the tick: coverage
\* split at hours, sums for whole hours, samples at the edges and two
\* retentions neither lose nor repeat anything.
WindowsExact ==
    \A w \in Windows :
        Window(w) = [requests |-> Requests({s \in all : now - w <= s.ts}),
                     observed |-> Covered(all, now - w, now)]

\* No request is counted twice: not after a failed scrape, a restarted counter,
\* an older export or a second reading of the same one.
CountedOnce == Requests(all) <= engine.served

\* The observed idle time never exceeds the time since the last request, so a
\* service is over the limit only if it was idle that long when last scanned.
IdleIsLowerBound ==
    /\ db.state.idle <= db.quiet
    /\ Status = "over_limit" => db.life = "live" /\ db.quiet >= IdleLimit

\* A service is said to have been active only at a scan that saw a request or
\* followed one within the sample gap: a counter that moved over a longer gap
\* does not date the activity.
ActivityIsGenuine == db'.state.active # db.state.active => db'.quiet < MaxGap

\* What the hub knows of a service, in every state.
StoreTrue == TypeOK /\ WindowsExact /\ CountedOnce /\ IdleIsLowerBound

=============================================================================
