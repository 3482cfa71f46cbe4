---------------------------- MODULE MemoryPolicy ----------------------------
(***************************************************************************)
(* The plans that put models to sleep and stop sleepers                    *)
(* (llmsvc/policy/intents.py, pressure.py, and the choice between them in   *)
(* actions.py).  They are pure: every snapshot of the bounds is a state,    *)
(* and every planner is asked once.  What a plan would really do is         *)
(* replayed on the snapshot, apart from the projection it was made with.    *)
(***************************************************************************)
EXTENDS PolicyProjection

CONSTANTS
    GpuOf,        \* the GPU of each model
    Exclusive,    \* the GPU that is llmsvc's own, or None
    Resident,     \* bound: GPU memory of an awake model; a sleeper keeps 1
    \* bounds: what a snapshot may show of each model and of the host
    States, Guards, Idles, Values, Weights, Avails, Reports, Pressures, Needs

Gpus == {GpuOf[m] : m \in Models}
PolicyAssumption == Default \in Models /\ Resident \in Nat \ {0} /\ Needs \subseteq Nat \cup {Unknown}

VARIABLES
    snap,  \* the snapshot
    plan   \* the decision, with the planner that was asked

vars == <<snap, plan>>

Planners == {"memory", "idle", "pressure", "reload"} \cup {"auto_idle", "auto_pressure"} \cup {"free", "free_ram"}
NoPlan == [by |-> "none", gpu |-> Unknown, need |-> Unknown, actions |-> <<>>, blocked |-> {}, freed |-> 0]

TypeOK ==
    /\ \A i \in 1 .. Len(plan.actions) : plan.actions[i] \in [kind : {"sleep", "stop"}, model : Models]
    /\ \A i, j \in 1 .. Len(plan.actions) : plan.actions[i].model = plan.actions[j].model => i = j
    /\ plan.blocked \subseteq (Models \cup {Unknown}) \X STRING /\ plan.freed \in Nat
    /\ plan.by \in Planners \cup {"none"}

Init ==
    /\ plan = NoPlan
    /\ snap \in [state : [Models -> States], guard : [Models -> Guards], idle : [Models -> Idles],
                 value : [Models -> Values], weight : [Models -> Weights], avail : Avails,
                 sleeping : Reports, pressure : [Gpus -> Pressures]]

(***************************************************************************)
(* The planners.                                                           *)
(***************************************************************************)

Refuses(p, reason) == [p EXCEPT !.blocked = @ \cup {<<Unknown, reason>>}]

UnderPressure(p) == p.sleeping > Budget \/ p.avail < Floor

\* Sleepers are stopped until both limits hold.
Relieved(p, sleepers) ==
    FoldLeft(LAMBDA q, m : IF UnderPressure(q) THEN Stops(q, m) ELSE q,
             Rejected(p, sleepers, ToStop), Candidates(p, sleepers, ToStop))
OrRefused(p) == IF UnderPressure(p) THEN Refuses(p, "memory_budget") ELSE p
MemoryPressure(s) ==
    LET p == Project(s) IN
      IF ~ MemoryKnown(p) THEN Refuses(p, "unknown_memory")
      ELSE IF ~ UnderPressure(p) THEN p ELSE OrRefused(Relieved(p, InState(s, {"sleeping"})))

IdleFor(idle) == [ToSleep EXCEPT !.idle = idle]

\* Every awake model whose time is over, one after the other.
IdleSleep(s) ==
    LET awake == InState(s, {"awake"})
        p == Rejected(Project(s), awake, IdleFor(Expired))
    IN  FoldLeft(LAMBDA q, m : Sleeps(q, m, TRUE).plan, p, Candidates(p, awake, IdleFor(Expired)))

\* A shared GPU that others use, or a model whose time is over.
Pressed(s, m) == GpuOf[m] # Exclusive /\ s.pressure[GpuOf[m]] = "pressed"
Triggered(s) ==
    {m \in InState(s, {"awake"}) : /\ s.pressure[GpuOf[m]] # "unknown" /\ Known(s.idle[m])
                                   /\ Pressed(s, m) \/ s.idle[m] = Expired}
Untold(s) ==
    {<<m, IF s.pressure[GpuOf[m]] = "unknown" THEN "unknown_gpu_pressure" ELSE "unknown_activity">> :
       m \in {n \in InState(s, {"awake"}) : s.pressure[GpuOf[n]] = "unknown" \/ ~ Known(s.idle[n])}}

\* One attempt: the first model that is dealt with, or that cost a sleeper.
PressureSleep(s) ==
    LET p == Rejected([Project(s) EXCEPT !.blocked = Untold(s)], Triggered(s), ToSleep)
        one(q, m) == IF q.actions # <<>> THEN q ELSE Sleeps(q, m, TRUE).plan
    IN  FoldLeft(one, p, Candidates(p, Triggered(s), ToSleep))

\* The automatic policy adds no sleeper while the memory is under pressure.
Automatic(relief, planned) == IF relief.actions = <<>> /\ relief.blocked = {} THEN planned ELSE relief

\* All awake models at once, or none.
ReloadAdmission(s) ==
    LET awake == InState(s, {"awake"})
        p == Project(s)
        guarded == {<<m, Protection(p, m, ToSleep)>> :
                      m \in {n \in awake \cup InState(s, {"unknown"}) : Protection(p, n, ToSleep) # "none"}}
        q == [p EXCEPT !.blocked = guarded]
    IN  IF (\E m \in awake : ~ Known(s.weight[m])) \/ ~ MemoryKnown(p) THEN Refuses(q, "unknown_memory")
        ELSE IF FitsSleep(p, SumOf(s, awake)) THEN q ELSE Refuses(q, "memory_budget")

\* What a model keeps on its GPU.
Rest(q, m) == IF q.state[m] = "stopped" THEN 0 ELSE 1

Selected(s, gpu) == {m \in InState(s, {"awake", "sleeping", "unknown"}) : gpu = Unknown \/ GpuOf[m] = gpu}

\* What a sleep or a stop adds to what is freed.
Gained(after, m) ==
    [after.plan EXCEPT !.freed = IF after.ok THEN @ + Resident - Rest(after.plan, m) ELSE @]

Answered(p, need) ==
    IF Known(need) /\ p.freed < need THEN Refuses(p, "insufficient_reclaimable_memory") ELSE p

\* A request of a user: idle models, until what it needs is estimated free.
Free(s, gpu, ram, need) ==
    LET selected == Selected(s, gpu)
        mine == {m \in selected : s.state[m] = IF ram THEN "sleeping" ELSE "awake"}
        ask == [IdleFor(Briefly) EXCEPT !.stop = ram]
        strange == {<<m, "unknown_model_state">> : m \in {n \in selected : s.state[n] = "unknown"}}
        p == Rejected([freed |-> 0] @@ [Project(s) EXCEPT !.blocked = strange], mine, ask)
        one(q, m) == IF Known(need) /\ q.freed >= need THEN q
                     ELSE IF ~ ram THEN Gained(Sleeps(q, m, TRUE), m)
                     ELSE IF Known(s.weight[m]) THEN [Stops(q, m) EXCEPT !.freed = @ + s.weight[m]]
                     ELSE Blocks(q, m, "unknown_memory")
    IN  IF need = 0 THEN [freed |-> 0] @@ Project(s)
        ELSE Answered(FoldLeft(one, p, Candidates(p, mine, ask)), need)

Decided(by, gpu, need) ==
    CASE by = "memory" -> MemoryPressure(snap)
      [] by = "idle" -> IdleSleep(snap)
      [] by = "pressure" -> PressureSleep(snap)
      [] by = "reload" -> ReloadAdmission(snap)
      [] by = "auto_idle" -> Automatic(MemoryPressure(snap), IdleSleep(snap))
      [] by = "auto_pressure" -> Automatic(MemoryPressure(snap), PressureSleep(snap))
      [] OTHER -> Free(snap, gpu, by = "free_ram", need)

Plans(by, gpu, need, d) ==
    /\ plan.by = "none"
    /\ plan' = [by |-> by, gpu |-> gpu, need |-> need, actions |-> d.actions, blocked |-> d.blocked,
                freed |-> IF by \in {"free", "free_ram"} THEN d.freed ELSE 0]
    /\ UNCHANGED snap

Next ==
    \E by \in Planners, gpu \in Gpus \cup {Unknown}, need \in Needs \cup {Unknown} :
      /\ by \notin {"free", "free_ram"} => gpu = Unknown /\ need = Unknown
      /\ by \in {"free", "free_ram"} => need \in Needs
      /\ Plans(by, gpu, need, Decided(by, gpu, need))

Spec == Init /\ [][Next]_vars

(***************************************************************************)
(* What a plan does when it is carried out: a sleep moves the weights to    *)
(* the host, the stop of a sleeper gives them back.                        *)
(***************************************************************************)

Weight(m) == IF Known(snap.weight[m]) THEN snap.weight[m] ELSE 0
Asleep(states) == {m \in Models : states[m] = "sleeping"}
Total(S) == FoldLeft(LAMBDA sum, m : sum + Weight(m), 0, SetToSeq(S))

After(actions) ==
    FoldLeft(LAMBDA states, a : [states EXCEPT ![a.model] = IF a.kind = "sleep" THEN "sleeping" ELSE "stopped"],
             snap.state, actions)
AvailAfter(actions) == snap.avail + Total(Asleep(snap.state)) - Total(Asleep(After(actions)))
OnGpu(states, gpu) ==
    Cardinality({m \in Selected(snap, gpu) : states[m] = "sleeping"})
      + Resident * Cardinality({m \in Selected(snap, gpu) : states[m] \in {"awake", "unknown"}})
Prefix(n) == SubSeq(plan.actions, 1, n)
Acted == {plan.actions[i].model : i \in DOMAIN plan.actions}

(***************************************************************************)
(* Properties.                                                             *)
(***************************************************************************)

\* No plan, whoever asked and however it makes room, touches a model that is
\* pinned, used or excluded, or whose state is not known, and none ever stops
\* the default model.
ProtectedKept ==
    \A i \in DOMAIN plan.actions : LET a == plan.actions[i] IN
        /\ snap.guard[a.model] = "none" /\ snap.state[a.model] \in {"awake", "sleeping"}
        /\ a.kind = "stop" => a.model # Default

\* Carried out in its order, no step of a plan takes the host below its floor
\* or the sleepers over their budget: stops come before what they make room for.
FitsAll ==
    \A i \in DOMAIN plan.actions : plan.actions[i].kind = "sleep" =>
        /\ AvailAfter(Prefix(i)) >= Floor
        /\ Total(Asleep(After(Prefix(i)))) <= Budget

\* An answer to `free` promises no more memory than its plan gives back, also
\* when a model it puts to sleep costs another one or has to be stopped.
FreedIsReal ==
    /\ plan.by = "free" => plan.freed <= OnGpu(snap.state, plan.gpu) - OnGpu(After(plan.actions), plan.gpu)
    /\ plan.by = "free_ram" => plan.freed <= AvailAfter(plan.actions) - snap.avail

\* The last stop of a plan that relieves the host was still needed.
NoneTooMany ==
    LET before == Prefix(Len(plan.actions) - 1) IN plan.actions # <<>> =>
        /\ plan.by = "memory" =>
             AvailAfter(before) < Floor \/ Sleeping(snap) - AvailAfter(before) + snap.avail > Budget
        /\ plan.by = "free_ram" /\ Known(plan.need) => AvailAfter(before) - snap.avail < plan.need

\* Sleepers are stopped from the least valuable on, and the default model goes
\* to sleep only when every other model that may go has gone.
Ascending ==
    LET worth(m, n) == snap.value[m] < snap.value[n] \/ (snap.value[m] = snap.value[n] /\ m < n)
        open(m) == snap.guard[m] = "none" /\ Known(snap.value[m]) /\ m # Default
        asked(m) == plan.by = "free_ram" =>
                      m \in Selected(snap, plan.gpu) /\ snap.idle[m] >= Briefly /\ Known(snap.weight[m])
        due(m) == CASE plan.by = "free" -> m \in Selected(snap, plan.gpu) /\ snap.idle[m] >= Briefly
                    [] plan.by \in {"pressure", "auto_pressure"} -> m \in Triggered(snap)
                    [] OTHER -> snap.idle[m] = Expired
    IN  /\ \A n \in Acted, m \in Models :
             snap.state[m] = "sleeping" /\ snap.state[n] = "sleeping" /\ open(m) /\ asked(m) /\ worth(m, n) => m \in Acted
        /\ Action("sleep", Default) \in Range(plan.actions) =>
             \A m \in Models : snap.state[m] = "awake" /\ open(m) /\ due(m) => m \in Acted

\* What is not known is not taken for zero: without the memory of the host, or
\* with a model in an unknown state, nothing is put to sleep and nothing is
\* stopped in its place, and no reload is admitted.
FailsClosed ==
    LET unknown == snap.avail = Unknown \/ \E m \in Models : snap.state[m] = "unknown" IN
      unknown => /\ plan.by \notin {"none", "free_ram"} => plan.actions = <<>>
                 /\ plan.by = "reload" => plan.blocked # {}

\* What the planners promise of every plan.
PlansSound ==
    TypeOK /\ ProtectedKept /\ FitsAll /\ FreedIsReal /\ NoneTooMany /\ Ascending

\* On a snapshot where anything may be unknown, a plan keeps the protected models
\* and nothing is done on an amount that was not measured.
UnknownsSound == ProtectedKept /\ FailsClosed
=============================================================================
