---------------------------- MODULE PlacementGrace ----------------------------
(***************************************************************************)
(* When a waiting placement is refused as unplaceable instead of waiting    *)
(* for its whole time (llmsvc/leases.py: place, _unplaceable_sample and     *)
(* _unplaceable_error) against the sampler (scheduler.py: sample_once,      *)
(* request_sample).  Samples are taken by the sampler and by threads of     *)
(* other operations, so rounds overlap; a decision also changes without a   *)
(* sample, by a reservation for example.  Time counts polls of the handler. *)
(* Assumed: no two rounds start, or end, within one unit of time.           *)
(***************************************************************************)
EXTENDS Integers, Sequences, TLC

CONSTANTS
    Grace,     \* placement_unplaceable_grace_seconds
    Wait,      \* placement_wait_seconds
    Interval,  \* sample_interval_seconds
    MaxAge,    \* max_snapshot_age_seconds
    Prompt,    \* the sampler starts when it is asked and ends within one unit
    Threads    \* who takes samples; the sampler is "sampler"

GraceAssumption == {Grace, Wait, Interval, MaxAge} \subseteq Nat /\ Prompt \in BOOLEAN /\ "sampler" \in Threads

None == -1

VARIABLES
    now,        \* the monotonic clock
    world,      \* what a measurement would find: the GPUs, the wall clock's offset
    reserved,   \* an overlay of the published snapshot makes the reason pass by itself
    sampler,    \* sample_requested, the last start, which is the generation too, the last time the loop woke up
    rounds,     \* what each thread is collecting
    published,  \* the published round
    request,    \* the handler's variables
    seen        \* history: the samples of uninterrupted looks, and whether nothing ever interfered

vars == <<now, world, reserved, sampler, rounds, published, request, seen>>

Idle == [started |-> None, at |-> None, found |-> FALSE]
NoSample == [at |-> None, started |-> None, finished |-> None]
Unsampled == [since |-> None, sample |-> NoSample, samples |-> 0]

Init ==
    /\ now = 0 /\ reserved = FALSE
    /\ world \in [hopeless : BOOLEAN, offset : {0}]
    /\ sampler = [asked |-> FALSE, started |-> 0, woke |-> 0]
    /\ rounds = [t \in Threads |-> Idle]
    /\ published = [at |-> 0, started |-> 0, finished |-> 0, hopeless |-> world.hopeless]
    /\ request = [state |-> "waiting", looked |-> FALSE, next |-> 0] @@ Unsampled
    /\ seen = [samples |-> <<>>, clean |-> world.hopeless]

(***************************************************************************)
(* Rounds.                                                                 *)
(***************************************************************************)

Woken(requested) == requested \/ now >= sampler.woke + Interval

Collects(t) ==
    /\ rounds[t] = Idle /\ sampler.started < now
    /\ t = "sampler" => Woken(sampler.asked)
    /\ sampler' = [sampler EXCEPT !.started = now, !.asked = @ /\ t # "sampler", !.woke = IF t = "sampler" THEN now ELSE @]
    /\ \E at \in {now + world.offset, None} :
         /\ rounds' = [rounds EXCEPT ![t] = [started |-> now, at |-> at, found |-> world.hopeless]]
         /\ seen' = [seen EXCEPT !.clean = @ /\ at # None]
    /\ UNCHANGED <<now, world, reserved, published, request>>

\* Another thread held the collector: nothing was measured.
Contends(t) ==
    /\ rounds[t] # Idle /\ rounds' = [rounds EXCEPT ![t] = Idle]
    /\ seen' = [seen EXCEPT !.clean = FALSE]
    /\ UNCHANGED <<now, world, reserved, sampler, published, request>>

Publishes(t) ==
    LET r == rounds[t] IN
    /\ r # Idle /\ now > published.finished
    /\ rounds' = [rounds EXCEPT ![t] = Idle]
    /\ published' = IF r.started < published.started THEN published
                    ELSE [at |-> r.at, started |-> r.started, finished |-> now, hopeless |-> r.found]
    /\ UNCHANGED <<now, world, reserved, sampler, request, seen>>

(***************************************************************************)
(* The handler.                                                            *)
(***************************************************************************)

Fresh == published.at # None /\ now + world.offset - published.at \in 0 .. MaxAge
Hopeless == Fresh /\ published.hopeless /\ ~ reserved

\* _unplaceable_sample: a real round, measured not long ago.
Sample ==
    IF Fresh /\ now - published.started <= MaxAge
    THEN [at |-> published.at, started |-> published.started, finished |-> published.finished]
    ELSE NoSample

Newer(s, old) == s.at > old.at /\ s.started > old.started /\ s.finished > old.finished

\* The window of evidence after a hopeless look.
Window(w, s) ==
    IF s = NoSample THEN Unsampled
    ELSE IF s = w.sample THEN w
    ELSE IF w.sample # NoSample /\ ~ Newer(s, w.sample) THEN [since |-> None, sample |-> s, samples |-> 0]
    ELSE IF w.since = None THEN [since |-> now, sample |-> s, samples |-> 1]
    ELSE [w EXCEPT !.samples = @ + 1, !.sample = s]

\* Bug: that the time is over is enough, whenever the last round was measured.
ProvenByClock(w, old) ==
    w.sample # old.sample /\ w.since # None /\ w.samples >= 2 /\ now - w.since >= Grace

\* Only a new sample that ended after the grace decides.
Proven(w, old) ==
    /\ w.sample # old.sample /\ w.since # None /\ w.samples >= 2
    /\ now - w.since >= Grace /\ w.sample.finished >= w.since + Grace

Answers(w, state, next) == request' = [state |-> state, looked |-> TRUE, next |-> next] @@ w

\* The history keeps as many samples as the grace has units of time, and one.
Latest(samples) == IF Len(samples) > Grace + 1 THEN Tail(samples) ELSE samples

\* One turn of the loop, under the lock.
Looks ==
    LET old == [since |-> request.since, sample |-> request.sample, samples |-> request.samples]
        w == Window(old, Sample)
        ask == now >= request.next
    IN  /\ request.state = "waiting"
        /\ IF now >= Wait THEN Answers(old, "timeout", request.next) /\ UNCHANGED <<sampler, seen>>
           ELSE IF ~ Hopeless
           THEN /\ Answers(Unsampled, "waiting", 0)
                /\ seen' = [seen EXCEPT !.samples = <<>>] /\ UNCHANGED sampler
           ELSE /\ Answers(w, IF Proven(w, old) THEN "refused" ELSE "waiting", IF ask THEN now + 1 ELSE request.next)
                /\ sampler' = [sampler EXCEPT !.asked = @ \/ ask]
                /\ seen' = [seen EXCEPT !.samples = IF Sample \in {NoSample, request.sample} THEN @ ELSE Latest(Append(@, Sample))]
        /\ UNCHANGED <<now, world, reserved, rounds, published>>

(***************************************************************************)
(* The world.                                                              *)
(***************************************************************************)

\* A prompt system: asked or due, the sampler starts; a round ends, the handler
\* polls and the threads of other operations are quick too.
Late ==
    \/ rounds["sampler"] = Idle /\ sampler.started < now /\ Woken(sampler.asked)
    \/ \E t \in Threads : rounds[t] # Idle /\ now > rounds[t].started

Tick ==
    /\ request.state = "waiting" /\ request.looked /\ ~ (Prompt /\ Late)
    /\ now' = now + 1 /\ request' = [request EXCEPT !.looked = FALSE]
    /\ UNCHANGED <<world, reserved, sampler, rounds, published, seen>>

Interferes == seen' = [seen EXCEPT !.clean = FALSE] /\ UNCHANGED <<now, sampler, rounds, published, request>>
Turns == world' = [world EXCEPT !.hopeless = ~ @] /\ UNCHANGED reserved /\ Interferes
Reserves == reserved' = ~ reserved /\ UNCHANGED world /\ Interferes
ClockSteps == world.offset = 0 /\ world' = [world EXCEPT !.offset = -1] /\ UNCHANGED reserved /\ Interferes

Next ==
    \/ \E t \in Threads : Collects(t) \/ Contends(t) \/ Publishes(t)
    \/ Looks \/ Tick \/ Turns \/ Reserves \/ ClockSteps

Spec == Init /\ [][Next]_vars

(***************************************************************************)
(* Properties.                                                             *)
(***************************************************************************)

TypeOK ==
    /\ now \in 0 .. Wait /\ reserved \in BOOLEAN
    /\ request.state \in {"waiting", "refused", "timeout"}
    /\ request.samples > 0 => request.since \in 0 .. now /\ request.sample # NoSample
    /\ \A t \in Threads : rounds[t].started <= sampler.started

\* A request is refused only on rounds that were measured after one another, in
\* source time, start and end, that each found it hopeless, whose
\* ends lie the grace apart, and between which no look saw anything else.
RefusedOnProof ==
    LET s == seen.samples  last == s[Len(s)] IN
      request.state = "refused" =>
        \E i \in 1 .. Len(s) - 1 :
          /\ last.finished - s[i].finished >= Grace
          /\ \A j \in i .. Len(s) - 1 : /\ s[j + 1].at > s[j].at /\ s[j + 1].started > s[j].started /\ s[j + 1].finished > s[j].finished

\* When it is hopeless all along and nothing interferes, the handler gets its
\* rounds from the sampler in time: the request does not wait until it times out.
InTime == Prompt /\ seen.clean => request.state # "timeout"

\* The answer comes in time, and only on proof.
RefusalSound == TypeOK /\ RefusedOnProof /\ InTime
=============================================================================
