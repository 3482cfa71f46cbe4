--------------------------- MODULE PlacementPolicy ---------------------------
(***************************************************************************)
(* Where a model is placed and what is stopped for it                      *)
(* (llmsvc/policy/placement.py, feasibility.py), the relocation of sleepers *)
(* (recovery.py) and the evacuation of a reserved GPU (intents.py).  Every  *)
(* snapshot of the bounds is a start; a placement is then carried out as    *)
(* leases.py does it, one stop after the other with a new plan after each.  *)
(*                                                                          *)
(* A model that is "starting" is stopped and has a pending or stale lease.  *)
(***************************************************************************)
EXTENDS PolicyProjection

CONSTANTS
    Gpus,
    Exclusive,   \* the GPU that is llmsvc's own, or Unknown
    Pool,        \* placement_gpus
    BestFit,     \* placement_fit
    Capacity,    \* total_gb of every GPU
    Threshold,   \* shared_external_threshold_gb
    Requested,   \* bound: models that are placed
    Exclusions,  \* bound: GPUs a caller excludes
    Snapshots    \* bound: what may be observed

PlacementAssumption ==
    Gpus \subseteq Nat /\ Pool \subseteq Gpus /\ Exclusive \in Pool \cup {Unknown} /\ Requested \subseteq Models

VARIABLES
    snap,  \* the snapshot
    plan,  \* the decision
    first  \* history: what was asked, and the first decision on it

vars == <<snap, plan, first>>

NoDecision == [gpu |-> Unknown, actions |-> <<>>, cost |-> 0, unplaceable |-> FALSE]
NoRequest == [by |-> "none", model |-> Unknown, waiting |-> FALSE, excluded |-> {}, snap |-> Unknown, plan |-> NoDecision]

Init ==
    /\ plan = NoDecision /\ first = NoRequest
    /\ snap \in Snapshots

(***************************************************************************)
(* The accounts.                                                           *)
(***************************************************************************)

\* Sleepers keep their whole budget, and a lease counts before its unit runs.
Accounted(s) == InState(s, {"awake", "sleeping", "starting"})

\* A model that cannot be accounted blocks its GPU, or every GPU.
Unsure(s) == {s.home[m] : m \in InState(s, {"unknown"}) \cup {n \in Accounted(s) : s.home[n] = Unknown}}

Size(s, S) == FoldLeft(LAMBDA sum, m : sum + s.size[m], 0, SetToSeq(S))
Cost(s, S) == FoldLeft(LAMBDA sum, m : sum + s.value[m], 0, SetToSeq(S))
On(s, g) == {m \in Accounted(s) : s.home[m] = g}
Room(s, g) == Capacity - s.external[g] - Size(s, On(s, g))

(***************************************************************************)
(* plan_placement.                                                         *)
(***************************************************************************)

\* Bug: a reservation is no reason.
ClosedToOthers(s, r, ask, g) ==
    IF g \in Unsure(s) THEN "unknown_accounting" ELSE IF g \in ask.excluded THEN "excluded"
    ELSE IF g \notin Pool THEN "outside_placement_pool" ELSE "open"

Closed(s, r, ask, g) ==
    IF r = Default /\ ~ ask.fallback /\ Exclusive # Unknown /\ g # Exclusive THEN "default_requires_exclusive_gpu"
    ELSE IF g \in Unsure(s) THEN "unknown_accounting"
    ELSE IF g \in ask.excluded THEN "excluded"
    ELSE IF g \notin Pool THEN "outside_placement_pool"
    ELSE IF s.reserved[g] THEN "reserved"
    ELSE IF g # Exclusive /\ s.external[g] >= Threshold THEN "external_pressure"
    ELSE IF s.size[r] > Capacity THEN "request_exceeds_gpu_capacity" ELSE "open"

StopAfter(ask) == [ToStop EXCEPT !.idle = IF ask.waiting THEN Briefly ELSE JustUsed]

\* Who may be stopped on a GPU; an awake model only when its memory is known.
Victims(s, ask, g) ==
    {m \in On(s, g) : /\ s.state[m] # "starting" /\ Eligible(s, m, StopAfter(ask))
                      /\ s.state[m] = "awake" => MemoryKnown(Project(s)) /\ Known(s.weight[m])}

\* By cost, number, GPU and names.
Better(s, a, b) ==
    IF Cost(s, a.victims) # Cost(s, b.victims) THEN Cost(s, a.victims) < Cost(s, b.victims)
    ELSE IF Cardinality(a.victims) # Cardinality(b.victims) THEN Cardinality(a.victims) < Cardinality(b.victims)
    ELSE IF a.gpu # b.gpu THEN a.gpu < b.gpu
    ELSE \E m \in a.victims \ b.victims : \A n \in b.victims \ a.victims : m < n

Options(s, r, ask, open) ==
    {o \in [gpu : open, victims : SUBSET Models \ {{}}] :
       o.victims \subseteq Victims(s, ask, o.gpu) /\ Room(s, o.gpu) + Size(s, o.victims) >= s.size[r]}

\* Sleepers first; an awake one passes the admission of a sleep before its stop.
Evicts(s, victims) ==
    LET before(m, n) == IF s.state[m] # s.state[n] THEN s.state[m] = "sleeping"
                        ELSE s.value[m] < s.value[n] \/ (s.value[m] = s.value[n] /\ m < n)
        stopped(after, m) ==
          IF after.ok /\ after.plan.state[m] # "stopped" THEN [after EXCEPT !.plan = Stops(@, m)] ELSE after
        one(d, m) == IF ~ d.ok THEN d
                     ELSE IF d.plan.state[m] = "sleeping" THEN [d EXCEPT !.plan = Stops(@, m)]
                     ELSE stopped(Sleeps(d.plan, m, FALSE), m)
    IN  FoldLeft(one, [plan |-> Project(s), ok |-> TRUE], SetToSortSeq(victims, before))

FreeFits(s, r, open) == {g \in open : Room(s, g) >= s.size[r]}
Nearer(s, g, h) == IF BestFit /\ Room(s, g) # Room(s, h) THEN Room(s, g) < Room(s, h) ELSE g <= h

Best(s, options) == CHOOSE o \in options : \A q \in options : q = o \/ Better(s, o, q)
Nearest(s, fits) == CHOOSE g \in fits : \A h \in fits : Nearer(s, g, h)

Evicting(s, option, done) ==
    IF done.ok THEN [NoDecision EXCEPT !.gpu = option.gpu, !.actions = done.plan.actions,
                                       !.cost = Cost(s, option.victims)] ELSE NoDecision
Evicted(s, option) == Evicting(s, option, Evicts(s, option.victims))

\* A free fit wins over every eviction.
Fitted(s, fits, options) ==
    IF fits # {} THEN [NoDecision EXCEPT !.gpu = Nearest(s, fits)]
    ELSE IF options # {} THEN Evicted(s, Best(s, options)) ELSE NoDecision
ChosenOn(s, r, ask, open) == Fitted(s, FreeFits(s, r, open), Options(s, r, ask, open))
Chosen(s, r, ask) ==
    IF s.state[r] # "stopped" \/ Unknown \in Unsure(s) THEN NoDecision
    ELSE ChosenOn(s, r, ask, {g \in Gpus : Closed(s, r, ask, g) = "open"})

\* What no action of llmsvc and no waiting for its own models removes.
Hopeless == {"external_pressure", "excluded", "request_exceeds_gpu_capacity"}

Unplaceable(s, r, ask, d) ==
    /\ d = NoDecision /\ Pool # {} /\ s.state[r] = "stopped" /\ Unknown \notin Unsure(s)
    /\ \A g \in Pool : Closed(s, r, ask, g) \in Hopeless

Judged(s, r, ask, d) == [d EXCEPT !.unplaceable = Unplaceable(s, r, ask, d)]

\* The default model prefers its GPU and falls back on the others.
OrElsewhere(s, r, ask, d) ==
    LET other == [ask EXCEPT !.fallback = TRUE] IN
      IF d.gpu = Unknown /\ Exclusive # Unknown /\ r = Default
      THEN Judged(s, r, other, Chosen(s, r, other)) ELSE Judged(s, r, ask, d)
Placement(s, r, waiting, excluded) ==
    LET ask == [waiting |-> waiting, excluded |-> excluded, fallback |-> FALSE] IN
      OrElsewhere(s, r, ask, Chosen(s, r, ask))

(***************************************************************************)
(* Relocation and reservation.                                             *)
(***************************************************************************)

Without(s, m) == [s EXCEPT !.state[m] = "stopped", !.home[m] = Unknown]

\* A sleeper whose GPU is reserved, or can no longer hold what is accounted.
Trigger(s, m) == s.reserved[s.home[m]] \/ Size(s, On(s, s.home[m])) > Capacity - s.external[s.home[m]]

\* The target of a move: never its own GPU, and with the memory it gives back.
Destination(s, m, avail) ==
    IF avail - s.weight[m] - SumOf(s, InState(s, {"starting"})) < Floor THEN NoDecision
    ELSE Placement([Without(s, m) EXCEPT !.avail = avail, !.reserved[s.home[m]] = TRUE], m, FALSE, {})

Moved(m, d) == IF d.gpu = Unknown THEN NoDecision ELSE [d EXCEPT !.actions = <<Action("stop", m)>> \o @]

\* A sleeper that nobody used is stopped, the others move.
Relocation(s, m) ==
    IF /\ s.state[m] = "sleeping" /\ Eligible(s, m, ToStop) /\ Unsure(s) \cap {Unknown, s.home[m]} = {} /\ Trigger(s, m)
    THEN IF ~ s.used[m] THEN [NoDecision EXCEPT !.actions = <<Action("stop", m)>>]
         ELSE IF ~ MemoryKnown(Project(s)) THEN NoDecision
         ELSE Moved(m, Destination(s, m, Stops(Project(s), m).avail))
    ELSE NoDecision

\* The least valuable sleeper that something can be done about.
Recovery(s) ==
    FoldLeft(LAMBDA found, m : IF found.plan.actions # <<>> THEN found ELSE [model |-> m, plan |-> Relocation(s, m)],
             [model |-> Unknown, plan |-> NoDecision], Candidates(s, InState(s, {"sleeping"}), ToStop))

\* Another GPU takes the default model without a stop.
Relocatable(s, m, g) ==
    LET d == Placement(Without(s, m), m, FALSE, {g}) IN d.gpu # Unknown /\ d.actions = <<>>

Evacuation(s, g) ==
    LET residents == {m \in InState(s, {"sleeping"}) : s.home[m] = g}
        ask == [ToStop EXCEPT !.relocating = Default \in residents /\ Relocatable(s, Default, g)]
    IN  [NoDecision EXCEPT !.actions = FoldLeft(Stops, Project(s), Candidates(s, residents, ask)).actions]

(***************************************************************************)
(* The steps.                                                              *)
(***************************************************************************)

Asked(by, m, waiting, excluded, d) ==
    /\ first.by = "none" /\ plan' = d
    /\ first' = [by |-> by, model |-> m, waiting |-> waiting, excluded |-> excluded, snap |-> snap, plan |-> d]
    /\ UNCHANGED snap

Places(r, waiting, excluded) == Asked("place", r, waiting, excluded, Placement(snap, r, waiting, excluded))
Recovers(found) == Asked("recover", found.model, FALSE, {}, found.plan)
Evacuates(g) == snap.reserved[g] /\ Asked("reserve", Unknown, FALSE, {g}, Evacuation(snap, g))

\* A stop was observed; the placement is planned again.
Executes ==
    /\ first.by = "place" /\ plan.actions # <<>>
    /\ LET m == plan.actions[1].model IN
         snap' = [Without(snap, m) EXCEPT !.avail = IF snap.state[m] = "sleeping" /\ Known(@) THEN @ + snap.weight[m] ELSE @]
    /\ plan' = Placement(snap', first.model, first.waiting, first.excluded)
    /\ UNCHANGED first

Next ==
    \/ \E r \in Requested, waiting \in BOOLEAN, excluded \in Exclusions : Places(r, waiting, excluded)
    \/ Recovers(Recovery(snap)) \/ Executes
    \/ \E g \in Gpus : Evacuates(g)

Spec == Init /\ [][Next]_vars

(***************************************************************************)
(* Properties.                                                             *)
(***************************************************************************)

TypeOK ==
    /\ plan.gpu \in Gpus \cup {Unknown} /\ plan.cost \in Nat /\ plan.unplaceable \in BOOLEAN
    /\ \A i \in DOMAIN plan.actions : plan.actions[i] \in [kind : {"stop"}, model : Models]
    /\ \A i, j \in DOMAIN plan.actions : plan.actions[i].model = plan.actions[j].model => i = j
    /\ first.by \in {"none", "place", "recover", "reserve"}

\* What is on a GPU once the models of a plan are stopped, read off the snapshot.
Stopped(actions) == {a.model : a \in Range(actions)}
LeftOn(g, actions) ==
    LET left == {m \in Models : snap.home[m] = g /\ snap.state[m] # "stopped"} \ Stopped(actions)
    IN  Capacity - snap.external[g] - FoldLeft(LAMBDA sum, m : sum + snap.size[m], 0, SetToSeq(left))
Sharable(g) == g \in Pool /\ (g = Exclusive \/ snap.external[g] < Threshold)
Takes(g, m, actions) == Sharable(g) /\ ~ snap.reserved[g] /\ LeftOn(g, actions) >= snap.size[m]

\* Once its stops are done, a placement or a move fits on its GPU beside all
\* that sleeps, runs or is about to start there, on a GPU that nobody reserved
\* or presses and that the caller did not exclude; no model in an unknown state
\* is there, and a model that moves goes to another GPU.
PlanFits ==
    plan.gpu # Unknown =>
      /\ Takes(plan.gpu, first.model, plan.actions) /\ plan.gpu \notin first.excluded
      /\ \A m \in Models : snap.state[m] = "unknown" => snap.home[m] \notin {plan.gpu, Unknown}
      /\ first.by = "recover" => plan.gpu # snap.home[first.model]

\* Stops are taken only when nothing fits freely, and no other set of models
\* that may be stopped, on any allowed GPU, would have cost less; the default
\* model looks elsewhere only when its own GPU has nothing to offer.
Cheapest ==
    LET r == first.model
        waits(m) == first.waiting => snap.idle[m] >= Briefly
        stoppable(m) == /\ snap.state[m] \in {"awake", "sleeping"} /\ m # Default /\ snap.guard[m] = "none" /\ waits(m)
                        /\ snap.state[m] = "awake" => Known(snap.avail) /\ \A n \in Models : snap.state[n] # "unknown"
        lost == {snap.home[m] : m \in {n \in Models : snap.state[n] = "unknown"}}
        sets(g) == IF ~ Sharable(g) \/ snap.reserved[g] \/ g \in lost \cup first.excluded \/ snap.size[r] > Capacity THEN {}
                   ELSE {S \in SUBSET {m \in Models : snap.home[m] = g /\ stoppable(m)} :
                           LeftOn(g, <<>>) + FoldLeft(LAMBDA sum, m : sum + snap.size[m], 0, SetToSeq(S)) >= snap.size[r]}
        offers == IF r = Default /\ Exclusive # Unknown /\ sets(Exclusive) # {} THEN sets(Exclusive)
                  ELSE UNION {sets(g) : g \in Gpus}
        cost(S) == FoldLeft(LAMBDA sum, m : sum + snap.value[m], 0, SetToSeq(S))
    IN  first.by = "place" /\ snap.state[r] = "stopped" /\ Unknown \notin lost /\ offers # {} =>
          /\ plan.gpu # Unknown /\ \A S \in offers : plan.cost <= cost(S)
          /\ {} \in offers => plan.actions = <<>>

\* A request is called unplaceable only if it would still not be placed with
\* every model stopped, every lease ended and every reservation over.
UnplaceableIsReal ==
    LET empty == [snap EXCEPT !.state = [m \in Models |-> "stopped"], !.reserved = [g \in Gpus |-> FALSE]]
    IN  plan.unplaceable => Placement(empty, first.model, first.waiting, first.excluded).gpu = Unknown

\* The placement is planned again after every stop: it stays on the GPU of the
\* first plan, what is stopped in the end costs what that plan announced, and
\* the request never loses its place half-way.
Steady ==
    LET gone == {m \in Models : snap.state[m] = "stopped" /\ first.snap.state[m] # "stopped"} IN
      first.by = "place" =>
        /\ plan.gpu = first.plan.gpu
        /\ plan.cost + FoldLeft(LAMBDA sum, m : sum + snap.value[m], 0, SetToSeq(gone)) = first.plan.cost

\* A sleeper somebody used in the last hour is stopped only for a move, with
\* a place to go to and the memory of the host to start there; one that was
\* not in the way is never stopped.
RelocationHolds ==
    LET m == first.model
        others == {n \in Models : snap.state[n] = "starting"}
    IN  first.by = "recover" /\ plan.actions # <<>> =>
          /\ snap.reserved[snap.home[m]] \/ LeftOn(snap.home[m], <<>>) < 0
          /\ snap.used[m] => plan.gpu # Unknown /\ snap.avail - SumOf(snap, others) >= Floor

\* The evacuation of a reserved GPU stops the default model only if another
\* GPU takes it as it is, and it leaves what is awake alone.
ReserveHasHome ==
    first.by = "reserve" =>
      /\ Default \in Stopped(plan.actions) => \E g \in Gpus \ first.excluded : Takes(g, Default, <<>>)
      /\ \A m \in Stopped(plan.actions) : snap.state[m] = "sleeping" /\ snap.home[m] \in first.excluded

\* What placement, recovery and evacuation promise of every plan.
PlansSound ==
    TypeOK /\ PlanFits /\ Cheapest /\ UnplaceableIsReal /\ Steady /\ RelocationHolds /\ ReserveHasHome
=============================================================================
