------------------------------ MODULE EventRelay ------------------------------
(***************************************************************************)
(* What the data plane reports on its way to the event stream: a reader    *)
(* thread follows the proxy's events (collectors/subscription.py) into a   *)
(* bounded buffer (collectors/relay.py), one consumer moves batches into   *)
(* the scheduler's event ring without ever waiting for the action lock     *)
(* (DataPlaneBridge), and a handler serves the ring (server.py).           *)
(***************************************************************************)
EXTENDS Integers, Sequences, FiniteSets

CONSTANTS
    MaxRequests,  \* bound: requests in flight at the proxy
    Capacity,     \* events the buffer holds
    Batch,        \* events one drain takes
    MaxChanges,   \* bound: changes at the proxy
    MaxBreaks     \* bound: failed connections, broken streams and bad frames

ASSUME SizesAssumption == {Capacity, Batch} \subseteq Nat \ {0}
ASSUME BoundsAssumption == {MaxRequests, MaxChanges, MaxBreaks} \subseteq Nat

VARIABLES
    up,       \* the proxy: state of one model, requests in flight
    stream,   \* the connection and its frames
    reader,   \* the reader thread
    buffer,   \* DataPlaneEventBuffer
    bridge,   \* the consumer and its pending batch
    sched,    \* the action lock and the published generation
    view,     \* what the published events say
    faults

relayVars == <<up, stream, reader, buffer, bridge, sched, view, faults>>
source == <<up, stream, reader, buffer>>
sink == <<bridge, sched, view>>

Unknown == -1
Fresh == -2      \* nothing was accepted since the connection

Events == [kind : {"state", "count", "connection", "error"},
           value : {"ready", "stopped", "none"}, n : Unknown .. MaxRequests]
NoBatch == [on |-> FALSE, events |-> <<>>, dropped |-> 0]

RelayTypeOK ==
    /\ up \in [state : {"ready", "stopped"}, requests : 0 .. MaxRequests]
    /\ stream.open \in BOOLEAN
    /\ reader \in [pc : {"off", "top", "connecting", "reading", "stopped"}, stop : BOOLEAN,
                   have : BOOLEAN]
    /\ buffer.queue \in Seq(Events) /\ Len(buffer.queue) <= Capacity
    /\ buffer.dropped \in Nat /\ buffer.owed \in Int
    /\ bridge.pc \in {"run", "stopping", "batch", "first", "rest", "second", "discard", "closed"}
    /\ bridge.pending.events \in Seq(Events) /\ Len(bridge.pending.events) <= Capacity
    /\ sched \in [locked : BOOLEAN, epoch : {"old", "new"}]
    /\ faults \in [changes : 0 .. MaxChanges, breaks : 0 .. MaxBreaks]

RelayInit ==
    /\ up = [state |-> "stopped", requests |-> 0]
    /\ stream = [open |-> FALSE, frames |-> <<>>]
    /\ reader = [pc |-> "off", stop |-> FALSE, have |-> FALSE]
    /\ buffer = [queue |-> <<>>, dropped |-> 0, owed |-> 0, state |-> "none", count |-> Fresh]
    /\ bridge = [pc |-> "run", pending |-> NoBatch]
    /\ sched = [locked |-> FALSE, epoch |-> "old"]
    /\ view = [state |-> "none", count |-> Unknown, lossy |-> FALSE]
    /\ faults = [changes |-> 0, breaks |-> 0]

(***************************************************************************)
(* The buffer: a full queue counts a drop and never waits.  owed, a ghost,  *)
(* counts what was offered and neither published nor reported as lost.      *)
(***************************************************************************)

Room(b) == Len(b.queue) < Capacity

Put(b, e) == IF Room(b) THEN [b EXCEPT !.queue = Append(@, e), !.owed = @ + 1]
             ELSE [b EXCEPT !.dropped = @ + 1, !.owed = @ + 1]

Event(kind, value, n) == [kind |-> kind, value |-> value, n |-> n]

\* observe: a state is remembered only when its event was accepted.
PutState(b, s) ==
    IF b.state = s THEN b
    ELSE [Put(b, Event("state", s, Unknown)) EXCEPT !.state = IF Room(b) THEN s ELSE @]

\* Bug: a dropped count is taken for reported.
PutCountOnce(b, n) ==
    IF b.count = n THEN b
    ELSE [Put(b, Event("count", "none", n)) EXCEPT !.count = n]

PutCount(b, n) ==
    IF b.count = n THEN b
    ELSE [Put(b, Event("count", "none", n)) EXCEPT !.count = IF Room(b) THEN n ELSE @]

\* A connection starts a new round of reports.
PutConnection(b, connected) ==
    Put(IF connected THEN [b EXCEPT !.state = "none", !.count = Fresh] ELSE b,
        Event("connection", "none", Unknown))

\* error: an invalid frame is counted as well as reported.
PutError(b, invalid) ==
    Put(IF invalid THEN [b EXCEPT !.dropped = @ + 1, !.owed = @ + 1] ELSE b,
        Event("error", "none", Unknown))

(***************************************************************************)
(* The reader thread.                                                      *)
(***************************************************************************)

\* _run starts with an unknown count.
ReaderStarts ==
    /\ reader.pc = "off" /\ ~ reader.stop
    /\ buffer' = PutCount(buffer, Unknown)
    /\ reader' = [reader EXCEPT !.pc = "top"]
    /\ UNCHANGED <<up, stream, sink, faults>>

Connecting ==
    /\ reader.pc = "top" /\ ~ reader.stop
    /\ buffer' = PutConnection(buffer, FALSE)
    /\ reader' = [reader EXCEPT !.pc = "connecting"]
    /\ UNCHANGED <<up, stream, sink, faults>>

\* The proxy answers with both snapshots; the reader starts from nothing.
Opens ==
    /\ reader.pc = "connecting" /\ ~ reader.stop
    /\ stream' = [open |-> TRUE, frames |-> <<[state |-> up.state, n |-> Unknown],
                                              [state |-> "none", n |-> up.requests]>>]
    /\ buffer' = PutConnection(buffer, TRUE)
    /\ reader' = [reader EXCEPT !.pc = "reading", !.have = FALSE]
    /\ UNCHANGED <<up, sink, faults>>

\* The end of _run's try: the error, an unknown count, the lost connection.
Ended(b, invalid) ==
    IF reader.stop THEN PutCount(b, Unknown)
    ELSE PutConnection(PutCount(PutError(b, invalid), Unknown), FALSE)

\* _consume and _dispatch of one frame; a second snapshot makes the count
\* unknown first.
Consumes(again) ==
    /\ reader.pc = "reading" /\ ~ reader.stop /\ stream.frames # <<>>
    /\ LET frame == Head(stream.frames) IN
         \/ /\ frame.state # "none" /\ ~ again
            /\ buffer' = PutState(buffer, frame.state) /\ UNCHANGED reader
         \/ /\ frame.state = "none" /\ (again => reader.have)
            /\ buffer' = PutCount(IF again THEN PutCount(buffer, Unknown) ELSE buffer, frame.n)
            /\ reader' = [reader EXCEPT !.have = TRUE]
    /\ stream' = [stream EXCEPT !.frames = Tail(@)]
    /\ UNCHANGED <<up, sink, faults>>

\* The connection is refused, the stream ends, or the reader was told to stop.
StreamEnds ==
    /\ \/ reader.pc = "reading" /\ ~ stream.open /\ stream.frames = <<>>
       \/ reader.pc \in {"reading", "connecting"} /\ reader.stop
    /\ buffer' = Ended(buffer, FALSE)
    /\ stream' = [open |-> FALSE, frames |-> <<>>]
    /\ reader' = [reader EXCEPT !.pc = "top", !.have = FALSE]
    /\ UNCHANGED <<up, sink, faults>>

ReaderStops ==
    /\ reader.pc \in {"top", "off"} /\ reader.stop
    /\ buffer' = IF reader.pc = "top" THEN PutConnection(buffer, FALSE) ELSE buffer
    /\ reader' = [reader EXCEPT !.pc = "stopped"]
    /\ UNCHANGED <<up, stream, sink, faults>>

(***************************************************************************)
(* The proxy and its stream.                                               *)
(***************************************************************************)

Changes ==
    /\ faults.changes < MaxChanges /\ faults' = [faults EXCEPT !.changes = @ + 1]
    /\ \E flip \in BOOLEAN, d \in {-1, 0, 1} :
         /\ flip = (d = 0) /\ up.requests + d \in 0 .. MaxRequests
         /\ up' = [state |-> IF flip = (up.state = "ready") THEN "stopped" ELSE "ready",
                   requests |-> up.requests + d]
         /\ stream' = IF ~ stream.open THEN stream
                      ELSE [stream EXCEPT !.frames = Append(@,
                              [state |-> IF flip THEN up'.state ELSE "none",
                               n |-> IF flip THEN Unknown ELSE up'.requests])]
    /\ UNCHANGED <<reader, buffer, sink>>

\* The stream breaks and loses what was on its way, the connection is refused,
\* a frame has no valid states, or one contradicts the known requests.
Breaks ==
    /\ faults.breaks < MaxBreaks /\ faults' = [faults EXCEPT !.breaks = @ + 1]
    /\ \/ stream.open /\ stream' = [open |-> FALSE, frames |-> <<>>] /\ UNCHANGED <<reader, buffer>>
       \/ /\ reader.pc = "connecting" /\ ~ reader.stop
          /\ buffer' = Ended(buffer, FALSE) /\ reader' = [reader EXCEPT !.pc = "top"]
          /\ UNCHANGED stream
       \/ /\ reader.pc = "reading" /\ stream.open /\ ~ reader.stop
          /\ buffer' = PutError(buffer, TRUE)
          /\ UNCHANGED <<stream, reader>>
       \/ /\ reader.pc = "reading" /\ stream.open /\ ~ reader.stop
          /\ buffer' = Ended(buffer, TRUE) /\ reader' = [reader EXCEPT !.pc = "top", !.have = FALSE]
          /\ stream' = [open |-> FALSE, frames |-> <<>>]
    /\ UNCHANGED <<up, sink>>

(***************************************************************************)
(* The bridge.                                                             *)
(***************************************************************************)

Smaller(a, b) == IF a < b THEN a ELSE b

\* relay.drain: a batch of at most n events, and every counted drop.
Takes(n, pc) ==
    LET k == Smaller(n, Len(buffer.queue)) IN
    /\ bridge' = [bridge EXCEPT !.pc = pc,
            !.pending = [on |-> TRUE, events |-> SubSeq(buffer.queue, 1, k), dropped |-> buffer.dropped]]
    /\ buffer' = [buffer EXCEPT !.queue = SubSeq(@, k + 1, Len(@)), !.dropped = 0]

\* What the events of a batch say last of one kind.
Newest(kind, field, old) ==
    LET told == SelectSeq(bridge.pending.events, LAMBDA e : e.kind = kind) IN
    IF told = <<>> THEN old ELSE told[Len(told)][field]

BatchSize == Len(bridge.pending.events) + bridge.pending.dropped

Emptied(pc, n) ==
    /\ bridge' = [bridge EXCEPT !.pc = pc, !.pending = NoBatch]
    /\ buffer' = [buffer EXCEPT !.owed = @ - n]

Published ==
    view' = [state |-> Newest("state", "value", view.state), count |-> Newest("count", "n", view.count),
             lossy |-> view.lossy \/ bridge.pending.dropped > 0]

\* Bug: a batch of a replaced generation stays pending.
EmitsCurrent(pc) ==
    /\ sched.epoch = "old" /\ Published
    /\ Emptied(pc, BatchSize)

\* drain_once with the lock: a batch of a replaced generation is discarded
\* with its counts, any other is emitted in order and then its drops.
Emits(pc) ==
    /\ \/ sched.epoch = "old" /\ Published
       \/ sched.epoch = "new" /\ view' = [view EXCEPT !.lossy = @ \/ BatchSize > 0]
    /\ Emptied(pc, BatchSize)

Drains ==
    /\ bridge.pc = "run" /\ ~ bridge.pending.on
    /\ Takes(Batch, "run")
    /\ UNCHANGED <<up, stream, reader, sched, view, faults>>

\* The lock is only tried: a busy one leaves the batch pending.
Publishes ==
    /\ bridge.pc = "run" /\ bridge.pending.on /\ ~ sched.locked
    /\ Emits("run")
    /\ UNCHANGED <<up, stream, reader, sched, faults>>

\* close: the reader is interrupted and joined before the tail is drained.
Closes ==
    /\ bridge.pc = "run"
    /\ bridge' = [bridge EXCEPT !.pc = "stopping"]
    /\ reader' = [reader EXCEPT !.stop = TRUE]
    /\ UNCHANGED <<up, stream, buffer, sched, view, faults>>

Joined ==
    /\ bridge.pc = "stopping" /\ reader.pc = "stopped"
    /\ bridge' = [bridge EXCEPT !.pc = IF bridge.pending.on THEN "first" ELSE "batch"]
    /\ UNCHANGED <<source, sched, view, faults>>

\* One batch, then all the rest.
TakesTail ==
    /\ \/ bridge.pc = "batch" /\ Takes(Batch, "first")
       \/ bridge.pc = "rest" /\ Takes(Capacity, "second")
    /\ UNCHANGED <<up, stream, reader, sched, view, faults>>

PublishesTail ==
    /\ bridge.pc \in {"first", "second"}
    /\ IF sched.locked THEN bridge' = [bridge EXCEPT !.pc = "discard"] /\ UNCHANGED <<buffer, view>>
       ELSE Emits(IF bridge.pc = "first" THEN "rest" ELSE "closed")
    /\ UNCHANGED <<up, stream, reader, sched, faults>>

\* Bug: only the pending batch is counted.
DiscardsPending ==
    /\ bridge.pc = "discard"
    /\ bridge' = [bridge EXCEPT !.pc = "closed", !.pending = NoBatch]
    /\ buffer' = [buffer EXCEPT !.queue = <<>>, !.dropped = 0, !.owed = @ - BatchSize]
    /\ view' = [view EXCEPT !.lossy = TRUE]
    /\ UNCHANGED <<up, stream, reader, sched, faults>>

\* A lock that stays busy: the batch and the remainder are counted, not awaited.
Discards ==
    /\ bridge.pc = "discard"
    /\ bridge' = [bridge EXCEPT !.pc = "closed", !.pending = NoBatch]
    /\ buffer' = [buffer EXCEPT !.queue = <<>>, !.dropped = 0,
                                !.owed = @ - BatchSize - Len(buffer.queue) - buffer.dropped]
    /\ view' = [view EXCEPT !.lossy = TRUE]
    /\ UNCHANGED <<up, stream, reader, sched, faults>>

(***************************************************************************)
(* The scheduler: its lock and a published catalog.                        *)
(***************************************************************************)

Locks ==
    /\ sched' = [sched EXCEPT !.locked = ~ @]
    /\ UNCHANGED <<source, bridge, view, faults>>

\* A new generation is published under the lock; the old bridge retires later.
Republishes ==
    /\ sched.epoch = "old" /\ ~ sched.locked /\ bridge.pc = "run"
    /\ sched' = [sched EXCEPT !.epoch = "new"]
    /\ UNCHANGED <<source, bridge, view, faults>>

Reader == ReaderStarts \/ Connecting \/ Opens \/ (\E again \in BOOLEAN : Consumes(again)) \/ StreamEnds \/ ReaderStops
Bridge == Drains \/ Publishes
Closing == Joined \/ TakesTail \/ PublishesTail \/ Discards

RelayNext ==
    \/ Reader \/ Changes \/ Breaks \/ Bridge \/ Closes \/ Closing
    \/ Locks \/ Republishes

RelaySpec == RelayInit /\ [][RelayNext]_relayVars

\* The threads run, and the lock is free again and again.
RelayFairness ==
    /\ WF_relayVars(Reader) /\ WF_relayVars(Drains) /\ SF_relayVars(Publishes)
    /\ WF_relayVars(Closing) /\ WF_relayVars(sched.locked /\ Locks)

RelayFairSpec == RelaySpec /\ RelayFairness

(***************************************************************************)
(* Properties.                                                             *)
(***************************************************************************)

\* Every event that was ever offered to the buffer is in the queue, in the
\* pending batch, on the stream or counted: nothing is lost silently, over full
\* buffers, busy locks, replaced generations and the shutdown.
EveryEventCounted == buffer.owed = Len(buffer.queue) + buffer.dropped + BatchSize

Drained == buffer.queue = <<>> /\ bridge.pending.events = <<>> /\ sched.epoch = "old" /\ bridge.pc # "closed"

\* When everything is drained, the stream shows the last accepted state and
\* count: batches are not reordered and not mixed.
ViewIsLastAccepted == Drained =>
    /\ buffer.state # "none" => view.state = buffer.state
    /\ buffer.count # Fresh => view.count = buffer.count

\* Without a connection no count is shown: unless events were dropped, the
\* stream says unknown as soon as the events so far are out.
CountNeedsStream ==
    Drained /\ reader.pc \in {"top", "connecting"} /\ buffer.dropped + bridge.pending.dropped = 0 /\ ~ view.lossy
    => view.count = Unknown

\* A count is remembered only when its event had room: a dropped one is
\* reported again with the next frame of the same count.
DropsAreRetried ==
    buffer'.count # buffer.count /\ buffer'.count # Fresh =>
      \E i \in DOMAIN buffer'.queue : buffer'.queue[i].kind = "count" /\ buffer'.queue[i].n = buffer'.count

\* Once another generation was published, no event of this one is shown.
OldGenerationSilent == sched.epoch = "new" => view'.state = view.state /\ view'.count = view.count

\* What the relay promises beside that, in every state and of every step.
RelayTrue == RelayTypeOK /\ ViewIsLastAccepted /\ CountNeedsStream
RelayStep == DropsAreRetried /\ OldGenerationSilent

\* What is in the buffer reaches the stream or its counts, however often the
\* lock is busy when the bridge comes by.
BufferDrains == []<>(buffer.queue = <<>> /\ bridge.pending.events = <<>>)
=============================================================================
