----------------------------- MODULE FleetEvents -----------------------------
(***************************************************************************)
(* How a change of the fleet database reaches the fleet display: the       *)
(* observer's thread notices it and emits an event into a bounded ring     *)
(* (fleet/observer.py, fleet/events.py), an HTTP handler serves the ring   *)
(* (fleet/server.py), the terminal client's reader thread queues what it   *)
(* receives (cli/fleet-llm EventReader) and the user interface fetches a   *)
(* new snapshot (tui/fleet_app.py).  The display also refreshes on a timer; *)
(* the module leaves that timer free to act or not, so that what holds     *)
(* here holds because of the events.                                       *)
(***************************************************************************)
EXTENDS Integers, Sequences

CONSTANTS
    Capacity,      \* events the observer's ring keeps
    QueueSize,     \* events the reader keeps for the interface
    MaxChanges,    \* bound: changes of the database
    MaxRestarts,   \* bound: restarts of the observer
    MaxBreaks,     \* bound: connections that end by themselves
    MaxFails,      \* bound: fetches that fail
    Timed          \* whether the interface's timed refresh may act

EventsAssumption ==
    /\ {Capacity, QueueSize} \subseteq Nat \ {0}
    /\ {MaxChanges, MaxRestarts, MaxBreaks, MaxFails} \subseteq Nat /\ Timed \in BOOLEAN

VARIABLES
    observer,   \* the observer's thread and its life
    ring,       \* FleetEvents
    conn,       \* one connection: its handler and the frames on their way
    reader,     \* EventReader
    ui,         \* FleetApp
    bounds

vars == <<observer, ring, conn, reader, ui, bounds>>

NoFetch == [on |-> FALSE, answered |-> FALSE, fresh |-> FALSE, life |-> 0]
Reset == 0    \* the identifier of a cursor_reset event
NoConn == [on |-> FALSE, pc |-> "none", cursor |-> 0, claimed |-> 0, frames |-> <<>>]

\* An incarnation is the number of the observer's life; 0 stands for None.
TypeOK ==
    /\ observer \in [life : 1 .. MaxRestarts + 1, known : BOOLEAN, status : BOOLEAN,
                     closing : BOOLEAN, stuck : BOOLEAN]
    /\ ring \in [first : Nat, next : Nat \ {0}, closed : BOOLEAN]
    /\ ring.first \in 1 .. ring.next /\ ring.next - ring.first <= Capacity
    /\ conn.on \in BOOLEAN /\ conn.pc \in {"none", "check", "serve", "leave", "left", "ended"}
    /\ reader.pc \in {"top", "asking", "open"} /\ reader.queue \in 0 .. QueueSize
    /\ reader.missed \in Nat /\ reader.dropped \in Nat /\ reader.cursor \in Nat
    /\ ui.fetch \in [on : BOOLEAN, answered : BOOLEAN, fresh : BOOLEAN, life : 0 .. MaxRestarts + 1]
    /\ bounds \in [changes : 0 .. MaxChanges, breaks : 0 .. MaxBreaks, fails : 0 .. MaxFails]

Init ==
    /\ observer = [life |-> 1, known |-> FALSE, status |-> FALSE, closing |-> FALSE, stuck |-> FALSE]
    /\ ring = [first |-> 1, next |-> 1, closed |-> FALSE]
    /\ conn = NoConn
    /\ reader = [pc |-> "top", gen |-> 0, mine |-> 0, life |-> 0, cursor |-> 0, took |-> 0,
                 queue |-> 0, got |-> 0, missed |-> 0, dropped |-> 0, connected |-> FALSE]
    /\ ui = [fetch |-> [NoFetch EXCEPT !.on = TRUE], pending |-> FALSE, shown |-> FALSE, fresh |-> FALSE, error |-> FALSE,
             gen |-> 0, notice |-> FALSE, posted |-> FALSE, timer |-> FALSE, draining |-> FALSE,
             connected |-> FALSE]
    /\ bounds = [changes |-> 0, breaks |-> 0, fails |-> 0]

(***************************************************************************)
(* The observer.                                                           *)
(***************************************************************************)

\* ingest, or the passing of time: what report() answers is different now.
Changes ==
    /\ bounds.changes < MaxChanges /\ bounds' = [bounds EXCEPT !.changes = @ + 1]
    /\ ~ observer.closing \/ observer.stuck
    /\ \E status \in BOOLEAN :
         observer' = [observer EXCEPT !.known = FALSE, !.status = @ \/ status]
    /\ ui' = [ui EXCEPT !.fresh = FALSE, !.fetch.fresh = FALSE]
    /\ UNCHANGED <<ring, conn, reader>>

\* emit: a closed ring takes nothing, a full one forgets its oldest event.
Emitted ==
    IF ring.closed THEN ring
    ELSE [ring EXCEPT !.next = @ + 1,
                      !.first = IF ring.next + 1 - @ > Capacity THEN @ + 1 ELSE @]

\* ingest_once after a report that differs from the published one; a service
\* whose status changed has an event of its own before it.
Publishes ==
    /\ ~ observer.known /\ (observer.closing => observer.stuck)
    /\ ring' = Emitted
    /\ observer' = [observer EXCEPT !.status = FALSE, !.known = ~ observer.status]
    /\ UNCHANGED <<conn, reader, ui, bounds>>

\* close: the thread is joined for five seconds, then the ring is closed
\* whether it stopped or not.
Closes ==
    /\ ~ observer.closing
    /\ \E stuck \in BOOLEAN : observer' = [observer EXCEPT !.closing = TRUE, !.stuck = stuck]
    /\ ring' = [ring EXCEPT !.closed = TRUE]
    /\ UNCHANGED <<conn, reader, ui, bounds>>

\* A new process, after a close or a crash: a new incarnation, an empty ring
\* and nothing published.  The connection and a fetch on its way are lost.
Restarts ==
    /\ observer.life <= MaxRestarts
    /\ observer' = [life |-> observer.life + 1, known |-> FALSE, status |-> FALSE, closing |-> FALSE, stuck |-> FALSE]
    /\ ring' = [first |-> 1, next |-> 1, closed |-> FALSE]
    /\ conn' = [conn EXCEPT !.on = FALSE, !.pc = IF conn.pc = "none" THEN "none" ELSE "ended"]
    /\ ui' = [ui EXCEPT !.fetch = IF ui.fetch.on /\ ~ ui.fetch.answered
                                  THEN [@ EXCEPT !.answered = TRUE, !.life = 0] ELSE @]
    /\ UNCHANGED <<reader, bounds>>

(***************************************************************************)
(* The handler of the connection.                                          *)
(***************************************************************************)

Latest == ring.next - 1
Empty == ring.first = ring.next

ResetReason(c) ==
    \/ c.claimed # 0 /\ c.claimed # observer.life
    \/ c.cursor > 0 /\ c.claimed = 0
    \/ c.cursor >= ring.next
    \/ c.cursor > 0 /\ ~ Empty /\ c.cursor < ring.first - 1

\* reset_reason, the reset event, and the incarnation from here on.
Checks ==
    /\ conn.on /\ conn.pc = "check"
    /\ conn' = IF ResetReason(conn)
               THEN [conn EXCEPT !.pc = "serve", !.cursor = 0, !.claimed = observer.life,
                                 !.frames = Append(@, Reset)]
               ELSE [conn EXCEPT !.pc = "serve", !.claimed = observer.life]
    /\ UNCHANGED <<observer, ring, reader, ui, bounds>>

\* What the ring holds after a cursor, oldest first.
Later(c) ==
    LET from == IF c >= ring.first THEN c + 1 ELSE ring.first IN
    [k \in 1 .. ring.next - from |-> from + k - 1]

\* events_since: everything newer than the cursor, or a heartbeat.
Serves ==
    /\ conn.on /\ conn.pc = "serve"
    /\ conn' = [conn EXCEPT !.cursor = IF Later(@) = <<>> THEN @ ELSE Latest,
                            !.frames = @ \o Later(conn.cursor), !.pc = "leave"]
    /\ UNCHANGED <<observer, ring, reader, ui, bounds>>

Leaves ==
    /\ conn.on /\ conn.pc = "leave"
    /\ conn' = IF ring.closed /\ Later(conn.cursor) = <<>> THEN [conn EXCEPT !.on = FALSE, !.pc = "left"]
               ELSE [conn EXCEPT !.pc = "check"]
    /\ UNCHANGED <<observer, ring, reader, ui, bounds>>

Breaks ==
    /\ bounds.breaks < MaxBreaks /\ bounds' = [bounds EXCEPT !.breaks = @ + 1]
    /\ conn.pc # "none"
    /\ conn' = [conn EXCEPT !.on = FALSE, !.pc = "ended", !.frames = <<>>]
    /\ UNCHANGED <<observer, ring, reader, ui>>

(***************************************************************************)
(* The reader.  got, a ghost, counts what the interface took from it since  *)
(* the cursor was last reset; the identifiers themselves need not be kept,  *)
(* because the queue holds only identifiers above every earlier one.       *)
(***************************************************************************)

\* notify_events, called by the reader with the interface's thread elsewhere.
Notified(u) == IF u.notice THEN u ELSE [u EXCEPT !.notice = TRUE, !.posted = TRUE]

ResetCursor(r) ==
    [r EXCEPT !.gen = @ + 1, !.cursor = 0, !.queue = 0, !.got = 0, !.dropped = 0, !.missed = 0,
              !.connected = FALSE]

\* _run reads its cursor, generation and incarnation under the lock.
Asks ==
    /\ reader.pc = "top"
    /\ reader' = [reader EXCEPT !.pc = "asking", !.mine = reader.gen, !.took = reader.cursor]
    /\ conn' = [NoConn EXCEPT !.claimed = reader.life]
    /\ UNCHANGED <<observer, ring, ui, bounds>>

\* The response's header: a reader that was reset meanwhile asks again, a new
\* incarnation resets it.
Opens ==
    /\ reader.pc = "asking" /\ ~ observer.closing
    /\ IF reader.mine # reader.gen
       THEN reader' = [reader EXCEPT !.pc = "top"] /\ UNCHANGED <<conn, ui>>
       ELSE /\ LET r == IF reader.life \notin {0, observer.life} THEN ResetCursor(reader) ELSE reader IN
                 reader' = [r EXCEPT !.pc = "open", !.mine = r.gen, !.life = observer.life, !.connected = TRUE]
            /\ conn' = [conn EXCEPT !.on = TRUE, !.pc = "check", !.cursor = reader.took]
            /\ ui' = Notified(ui)
    /\ UNCHANGED <<observer, ring, bounds>>

Refused ==
    /\ reader.pc = "asking"
    /\ \/ observer.closing /\ UNCHANGED bounds
       \/ bounds.breaks < MaxBreaks /\ bounds' = [bounds EXCEPT !.breaks = @ + 1]
    /\ reader' = [reader EXCEPT !.pc = "top", !.connected = @ /\ reader.mine # reader.gen]
    /\ ui' = Notified(ui)
    /\ UNCHANGED <<observer, ring, conn>>

\* An event: identifiers that were skipped are missed, and a full queue
\* forgets its oldest event.
Taken(r, id) ==
    IF id <= r.cursor THEN r
    ELSE [r EXCEPT !.missed = @ + id - r.cursor - 1,
                   !.dropped = IF r.queue = QueueSize THEN @ + 1 ELSE @,
                   !.queue = IF @ = QueueSize THEN @ ELSE @ + 1, !.cursor = id, !.connected = TRUE]

Receives ==
    /\ reader.pc = "open" /\ reader.mine = reader.gen /\ conn.frames # <<>>
    /\ LET id == Head(conn.frames) IN
         reader' = IF id = Reset THEN [ResetCursor(reader) EXCEPT !.mine = reader.gen + 1, !.connected = TRUE]
                   ELSE Taken(reader, id)
    /\ conn' = [conn EXCEPT !.frames = Tail(@)]
    /\ ui' = Notified(ui)
    /\ UNCHANGED <<observer, ring, bounds>>

\* The stream has ended, or the cursor was reset by the interface.
Ends ==
    /\ reader.pc = "open"
    /\ reader.mine # reader.gen \/ (~ conn.on /\ conn.frames = <<>>)
    /\ reader' = [reader EXCEPT !.pc = "top", !.connected = @ /\ reader.mine # reader.gen]
    /\ conn' = NoConn /\ ui' = Notified(ui)
    /\ UNCHANGED <<observer, ring, bounds>>

(***************************************************************************)
(* The interface: one thread, whose fetches run elsewhere.                 *)
(***************************************************************************)

\* refresh_fleet: a request during a fetch is remembered.
Refresh(u) ==
    IF u.fetch.on THEN [u EXCEPT !.pending = TRUE] ELSE [u EXCEPT !.fetch = [NoFetch EXCEPT !.on = TRUE]]

\* The observer answers, or the fetch fails (life 0).
Answers ==
    /\ ui.fetch.on /\ ~ ui.fetch.answered
    /\ \/ /\ ~ observer.closing
          /\ ui' = [ui EXCEPT !.fetch.answered = TRUE, !.fetch.fresh = TRUE, !.fetch.life = observer.life]
          /\ UNCHANGED bounds
       \/ /\ observer.closing \/ bounds.fails < MaxFails
          /\ bounds' = IF observer.closing THEN bounds ELSE [bounds EXCEPT !.fails = @ + 1]
          /\ ui' = [ui EXCEPT !.fetch.answered = TRUE, !.fetch.life = 0]
    /\ UNCHANGED <<observer, ring, conn, reader>>

\* observe_incarnation: the answer of another incarnation resets the cursor and
\* interrupts the connection.
Observed(life) ==
    IF reader.life \in {0, life}
    THEN reader' = [reader EXCEPT !.life = life] /\ UNCHANGED conn
    ELSE /\ reader' = [ResetCursor(reader) EXCEPT !.life = life]
         /\ conn' = IF reader.pc = "open" THEN [conn EXCEPT !.on = FALSE, !.pc = "ended", !.frames = <<>>] ELSE conn

\* The end of refresh_fleet: the answer is shown, and a remembered request
\* fetches again.
Fetched ==
    /\ ui.fetch.answered /\ ~ ui.draining
    /\ LET good == ui.fetch.life # 0
           seen == [ui EXCEPT !.fetch = IF ui.pending THEN [NoFetch EXCEPT !.on = TRUE] ELSE NoFetch,
                              !.pending = FALSE, !.shown = @ \/ good, !.error = ~ good,
                              !.fresh = IF good THEN ui.fetch.fresh ELSE @] IN
         IF good THEN /\ Observed(ui.fetch.life)
                      /\ ui' = IF reader.life \in {0, ui.fetch.life} THEN seen ELSE Notified(seen)
         ELSE ui' = seen /\ UNCHANGED <<reader, conn>>
    /\ UNCHANGED <<observer, ring, bounds>>

TimedRefresh ==
    /\ Timed /\ ~ ui.draining
    /\ ui' = Refresh(ui) /\ ui' # ui
    /\ UNCHANGED <<observer, ring, conn, reader, bounds>>

\* on_fleet_events_changed: the message starts the event timer.
Message ==
    /\ ui.posted /\ ~ ui.draining
    /\ ui' = [ui EXCEPT !.posted = FALSE, !.timer = TRUE]
    /\ UNCHANGED <<observer, ring, conn, reader, bounds>>

\* Events, a new generation, a loss or a new connection ask for a refresh.
Drained(u) ==
    LET news == \/ reader.queue > 0 \/ reader.gen # ui.gen
                \/ reader.missed > 0 \/ reader.dropped > 0
                \/ reader.connected /\ ~ ui.connected /\ ui.shown
        now == [u EXCEPT !.gen = reader.gen, !.connected = reader.connected] IN
    /\ ui' = IF news THEN Refresh(now) ELSE now
    /\ reader' = [reader EXCEPT !.queue = 0, !.got = @ + reader.queue]

\* Bug: the notice is cleared after the reader was drained.
UpdateEventsLate ==
    /\ \/ ui.timer /\ ~ ui.draining /\ Drained([ui EXCEPT !.timer = FALSE, !.draining = TRUE])
       \/ ui.draining /\ ui' = [ui EXCEPT !.draining = FALSE, !.notice = FALSE] /\ UNCHANGED reader
    /\ UNCHANGED <<observer, ring, conn, bounds>>

\* update_events: the notice is cleared before the reader is drained; the
\* reader's thread may be anywhere between the two.
UpdateEvents ==
    /\ \/ /\ ui.timer /\ ~ ui.draining
          /\ ui' = [ui EXCEPT !.timer = FALSE, !.notice = FALSE, !.draining = TRUE]
          /\ UNCHANGED reader
       \/ ui.draining /\ Drained([ui EXCEPT !.draining = FALSE])
    /\ UNCHANGED <<observer, ring, conn, bounds>>

Handler == Checks \/ Serves \/ Leaves
Reader == Asks \/ Opens \/ Refused \/ Receives \/ Ends
Interface == Fetched \/ Message \/ UpdateEvents

Next ==
    \/ Changes \/ Publishes \/ Closes \/ Restarts
    \/ Handler \/ Breaks \/ Reader \/ Answers \/ Interface \/ TimedRefresh

Spec == Init /\ [][Next]_vars

(***************************************************************************)
(* Properties.                                                             *)
(***************************************************************************)

\* The change was published, served and received, and the interface has
\* nothing left to do.
Settled ==
    /\ observer.known /\ ~ observer.closing
    /\ conn.on /\ conn.claimed = observer.life /\ conn.cursor = Latest /\ conn.frames = <<>>
    /\ reader.pc = "open" /\ reader.mine = reader.gen
    /\ ~ ui.notice /\ ~ ui.posted /\ ~ ui.timer /\ ~ ui.draining /\ ~ ui.fetch.on /\ ~ ui.error

\* When every event has arrived and the interface is at rest without an error,
\* it shows what the observer reports now: an event that arrives during a
\* fetch is not taken for answered by it, no wake-up is lost between the
\* reader and the interface, and a restart or an overrun ring is noticed.
FreshAtRest == Settled => ui.shown /\ ui.fresh

\* Of the events numbered up to the reader's cursor each was taken by the
\* interface, is queued, or is counted as missed or dropped.
EveryEventAccounted == reader.got + reader.queue + reader.missed + reader.dropped = reader.cursor

\* Once the frames have arrived, the handler and the reader agree on how far
\* the stream has got: neither serves from a cursor of another incarnation nor
\* counts as seen what was never sent.
CursorsAgree ==
    conn.on /\ conn.pc # "check" /\ conn.frames = <<>> /\ reader.pc = "open" /\ reader.mine = reader.gen
        => conn.cursor = reader.cursor

\* An answer that the observer ended by itself is complete: the ring never
\* again holds an event that the handler had not sent.
EndIsFinal == conn.pc = "left" /\ conn.claimed = observer.life => conn.cursor = Latest

\* What is displayed, in every state.
DisplayTrue == TypeOK /\ FreshAtRest /\ EveryEventAccounted /\ CursorsAgree /\ EndIsFinal
=============================================================================
