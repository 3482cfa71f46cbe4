-------------------------- MODULE ModelActionsProofs --------------------------
(***************************************************************************)
(* Proofs about ModelActions: the operations on models keep apart, for any *)
(* models, any number of operations at a time and any kinds of them.       *)
(***************************************************************************)
EXTENDS ModelActions, FiniteSetTheorems, TLAPS

USE DEF fleet, intents, control, vars

-----------------------------------------------------------------------------
(* The inductive invariant *)

\* Where an operation is tells whether it has its model in `pending`.
Having == {"requesting", "migrating", "waiting", "observing"}
Shape(o) ==
  /\ op[o].kind = "none" => op[o].step = "begun"
  /\ op[o].owned <=> op[o].step \in Having
  /\ op[o].owned => op[o].model \in Models
  /\ op[o].step = "observing" => op[o].act \in {"sleep", "stop"}
  /\ op[o].step = "claimed" => op[o].kind = "recover" /\ op[o].model \in Models

\* One operation at most of these kinds, without counting.
AtMostOne(kinds) == \A o, p \in Ops : op[o].kind \in kinds /\ op[p].kind \in kinds => o = p
Flags ==
  /\ free <=> \E o \in Ops : op[o].kind = "free"
  /\ auto <=> \E o \in Ops : op[o].kind = "auto"
  /\ AtMostOne({"free"}) /\ AtMostOne({"auto", "recover"})

Apartness ==
  /\ \A o \in Ops : Shape(o)
  /\ Exclusive /\ FenceExclusive /\ Flags

\* Only a reservation in force is complete.
Evacuated == (vacated => reserved) /\ Vacated

ActionsInv == TypeOK /\ Apartness /\ Evacuated

-----------------------------------------------------------------------------
(* What an action writes of an operation *)

\* The type of an operation without the elements of its sets.
KindSet == Kinds \cup {"none"}
StepSet == {"begun", "preloading", "requesting", "migrating", "waiting", "preloaded", "observing",
            "claimed"}
ModelSet == Models \cup {None}
ActSet == {"none", "sleep", "stop", "wake"}
DoneSet == SUBSET (Models \X {"sleep", "stop"})
OpSet == [kind : KindSet, step : StepSet, model : ModelSet, act : ActSet, owned : BOOLEAN,
          seen : BOOLEAN, fresh : BOOLEAN, done : DoneSet]

LEMMA OpIs == Op = OpSet
BY DEF Op, OpSet, KindSet, StepSet, ModelSet, ActSet, DoneSet

\* An operation has the fields of its type.
LEMMA OpFields ==
  ASSUME NEW f \in [Ops -> Op], NEW o \in Ops
  PROVE  /\ f[o] \in Op /\ f[o].kind \in KindSet /\ f[o].model \in ModelSet
         /\ f[o].step \in StepSet /\ f[o].act \in ActSet
         /\ f[o].owned \in BOOLEAN /\ f[o].seen \in BOOLEAN /\ f[o].fresh \in BOOLEAN
         /\ f[o].done \in DoneSet
<1>1. f[o] \in OpSet
  BY OpIs
<1> QED BY <1>1, OpIs DEF OpSet

\* A new operation has no model.
LEMMA RequestRecord ==
  ASSUME NEW kind \in KindSet
  PROVE  /\ Request(kind) \in OpSet /\ Request(kind).kind = kind
         /\ Request(kind).step = "begun" /\ Request(kind).owned = FALSE
BY DEF Request, OpSet, StepSet, ModelSet, ActSet, DoneSet

\* One operation changes.
LEMMA OneOp ==
  ASSUME op \in [Ops -> Op], NEW o \in Ops, NEW q \in OpSet, op' = [op EXCEPT ![o] = q]
  PROVE  op' \in [Ops -> Op] /\ op'[o] = q /\ \A p \in Ops \ {o} : op'[p] = op[p]
BY OpIs

-----------------------------------------------------------------------------
(* What a step does to the operations *)

Others(o) == \A p \in Ops \ {o} : op'[p] = op[p]

\* Nobody takes or gives back a model; a claim comes only to a model nobody has.
LEMMA ApartKept ==
  ASSUME Apartness, UNCHANGED <<pending, free, auto>>,
         \A p \in Ops : /\ op'[p].kind = op[p].kind /\ op'[p].owned = op[p].owned
                        /\ op[p].owned => op'[p].model = op[p].model
                        /\ Shape(p)',
         claim' \notin pending \/ claim' = claim
  PROVE  Apartness'
<1>1. Exclusive'
  BY DEF Apartness, Exclusive
<1>2. FenceExclusive'
  <2>1. CASE claim' = claim
    BY <2>1 DEF Apartness, FenceExclusive
  <2>2. CASE claim' \notin pending
    BY <2>2 DEF Apartness, Exclusive, FenceExclusive, Shape
  <2> QED BY <2>1, <2>2
<1>3. Flags'
  BY DEF Apartness, Flags, AtMostOne
<1> QED BY <1>1, <1>2, <1>3 DEF Apartness

\* An operation takes a model that nobody has and that is not claimed, or is the
\* recovery's.
LEMMA ApartTaken ==
  ASSUME Apartness, NEW o \in Ops, NEW m \in Models, Others(o), ~op[o].owned, m \notin pending,
         op'[o].kind = op[o].kind, op[o].kind # "none", op'[o].owned, op'[o].model = m,
         op'[o].step \in Having, op'[o].step = "observing" => op'[o].act \in {"sleep", "stop"},
         pending' = pending \cup {m}, UNCHANGED <<claim, free, auto>>,
         claim # m \/ op[o].kind = "recover"
  PROVE  Apartness'
<1>1. \A p \in Ops : Shape(p)'
  BY DEF Apartness, Shape, Others, Having
<1>2. Exclusive'
  <2>1. pending' = {n \in Models : \E p \in Ops : op'[p].owned /\ op'[p].model = n}
    BY DEF Apartness, Exclusive, Others
  <2>2. \A p \in Ops : op[p].owned => op[p].model # m
    BY DEF Apartness, Exclusive
  <2>3. ASSUME NEW p \in Ops, NEW q \in Ops,
               op'[p].owned, op'[q].owned, op'[p].model = op'[q].model
        PROVE  p = q
    BY <2>2, <2>3 DEF Apartness, Exclusive, Others
  <2> QED BY <2>1, <2>3 DEF Exclusive
<1>3. FenceExclusive'
  BY DEF Apartness, FenceExclusive, Others
<1>4. Flags'
  BY DEF Apartness, Flags, AtMostOne, Others
<1> QED BY <1>1, <1>2, <1>3, <1>4 DEF Apartness

\* An operation gives its model back and goes on.
LEMMA ApartGiven ==
  ASSUME Apartness, NEW o \in Ops, Others(o), op[o].owned, ~op'[o].owned,
         op'[o].kind = op[o].kind, op[o].kind # "none", op'[o].step \notin Having,
         op'[o].step = "claimed" => op[o].kind = "recover" /\ op'[o].model \in Models,
         pending' = pending \ {op[o].model}, UNCHANGED <<claim, free, auto>>
  PROVE  Apartness'
<1>1. \A p \in Ops : Shape(p)'
  BY DEF Apartness, Shape, Others, Having
<1>2. Exclusive'
  BY DEF Apartness, Exclusive, Others
<1>3. FenceExclusive'
  BY DEF Apartness, FenceExclusive, Others
<1>4. Flags'
  BY DEF Apartness, Flags, AtMostOne, Others
<1> QED BY <1>1, <1>2, <1>3, <1>4 DEF Apartness

\* An operation ends and gives back what it has.
LEMMA ApartEnded ==
  ASSUME Apartness, NEW o \in Ops, Others(o), ~op'[o].owned,
         op'[o].kind = "none", op'[o].step = "begun",
         pending' = IF op[o].owned THEN pending \ {op[o].model} ELSE pending,
         claim' \in {claim, None},
         free' = (free /\ op[o].kind # "free"), auto' = (auto /\ op[o].kind # "auto")
  PROVE  Apartness'
<1>1. \A p \in Ops : Shape(p)'
  BY DEF Apartness, Shape, Others, Having
<1>2. Exclusive'
  BY DEF Apartness, Exclusive, Others
<1>3. FenceExclusive'
  BY DEF Apartness, FenceExclusive, Others
<1>4. Flags'
  BY DEF Apartness, Flags, AtMostOne, Others
<1> QED BY <1>1, <1>2, <1>3, <1>4 DEF Apartness

\* An operation begins, if its kind may.
LEMMA ApartBegun ==
  ASSUME Apartness, NEW o \in Ops, Others(o), op[o].kind = "none", ~op'[o].owned,
         op'[o].step = "begun", NEW kind \in Kinds, op'[o].kind = kind,
         kind = "free" => ~free,
         kind \in {"auto", "recover"} => ~auto /\ \A p \in Ops : op[p].kind # "recover",
         free' = (free \/ kind = "free"), auto' = (auto \/ kind = "auto"),
         UNCHANGED <<pending, claim>>
  PROVE  Apartness'
<1>0. ~op[o].owned
  BY DEF Apartness, Shape, Having
<1>1. \A p \in Ops : Shape(p)'
  BY DEF Apartness, Shape, Others, Having, Kinds
<1>2. Exclusive'
  BY <1>0 DEF Apartness, Exclusive, Others
<1>3. FenceExclusive'
  BY DEF Apartness, FenceExclusive, Others
<1>4. Flags'
  <2>1. free' <=> \E p \in Ops : op'[p].kind = "free"
    BY DEF Apartness, Flags, Others
  <2>2. auto' <=> \E p \in Ops : op'[p].kind = "auto"
    BY DEF Apartness, Flags, Others
  <2>3. AtMostOne({"free"})'
    BY DEF Apartness, Flags, AtMostOne, Others
  <2>4. AtMostOne({"auto", "recover"})'
    <3>1. CASE kind \in {"auto", "recover"}
      BY <3>1 DEF Apartness, Flags, AtMostOne, Others
    <3>2. CASE kind \notin {"auto", "recover"}
      BY <3>2 DEF Apartness, Flags, AtMostOne, Others
    <3> QED BY <3>1, <3>2
  <2> QED BY <2>1, <2>2, <2>3, <2>4 DEF Flags
<1> QED BY <1>1, <1>2, <1>3, <1>4 DEF Apartness

\* Whatever the operations do, the accounts and the reservation are left alone.
LEMMA EvacuatedKept ==
  ASSUME Evacuated, UNCHANGED <<here, account, reserved, vacated>>
  PROVE  Evacuated'
BY DEF Evacuated, Vacated

-----------------------------------------------------------------------------
(* The steps beside the operations *)

\* The launcher, the data plane and the reconciler; an evacuated GPU gets no account.
LEMMA FleetMoves ==
  ASSUME ActionsInv, NEW m \in Models, Placed(m) \/ ModelMoves(m) \/ AccountMoves(m)
  PROVE  ActionsInv'
<1>1. UNCHANGED <<intents, claim, sample, control, op>>
  BY DEF Placed, ModelMoves, AccountMoves, Fleet
<1>0. /\ inst \in [Models -> States] /\ here \in [Models -> BOOLEAN]
      /\ account \in [Models -> {"none", "pending", "confirmed"}]
  BY DEF ActionsInv, TypeOK
<1>2. /\ inst' \in [Models -> States] /\ here' \in [Models -> BOOLEAN]
      /\ account' \in [Models -> {"none", "pending", "confirmed"}]
  <2>1. inst' \in [Models -> States]
    BY <1>0 DEF Placed, ModelMoves, AccountMoves, Fleet, States
  <2>2. here' \in [Models -> BOOLEAN]
    BY <1>0 DEF Placed, ModelMoves, AccountMoves
  <2>3. account' \in [Models -> {"none", "pending", "confirmed"}]
    BY <1>0 DEF Placed, ModelMoves, AccountMoves
  <2> QED BY <2>1, <2>2, <2>3
<1>3. TypeOK'
  BY <1>1, <1>2 DEF ActionsInv, TypeOK
<1>4. Apartness'
  BY <1>1, ApartKept DEF ActionsInv, Apartness, Shape
<1>5. Evacuated'
  <2>1. here \in [Models -> BOOLEAN] /\ account \in [Models -> {"none", "pending", "confirmed"}]
    BY DEF ActionsInv, TypeOK
  <2>2. CASE Placed(m)
    <3>1. vacated => ~here'[m]
      BY <2>1, <2>2 DEF Placed, ActionsInv, Evacuated
    <3>2. \A n \in Models \ {m} : here'[n] = here[n] /\ account'[n] = account[n]
      BY <2>1, <2>2 DEF Placed
    <3> QED BY <1>1, <3>1, <3>2 DEF ActionsInv, Evacuated, Vacated
  <2>3. CASE ModelMoves(m)
    BY <1>1, <2>3, EvacuatedKept DEF ModelMoves, ActionsInv
  <2>4. CASE AccountMoves(m)
    <3>1. /\ here' = here /\ \A n \in Models \ {m} : account'[n] = account[n]
          /\ account[m] = "none" => account'[m] = "none"
      BY <2>1, <2>4 DEF AccountMoves
    <3> QED BY <1>1, <3>1 DEF ActionsInv, Evacuated, Vacated
  <2> QED BY <2>2, <2>3, <2>4
<1> QED BY <1>3, <1>4, <1>5 DEF ActionsInv

\* A round is published, a reservation is cancelled.
LEMMA RoundsAndCancels ==
  ASSUME ActionsInv, RoundPublished \/ Cancelled
  PROVE  ActionsInv'
<1>1. CASE RoundPublished
  <2>1. /\ sample' = inst /\ UNCHANGED <<fleet, intents, claim, control>> /\ op \in [Ops -> Op]
        /\ op' = [o \in Ops |-> [op[o] EXCEPT !.fresh = op[o].step \in {"observing", "migrating", "waiting"}]]
    BY <1>1 DEF RoundPublished, ActionsInv, TypeOK
  <2>2. ASSUME NEW p \in Ops
        PROVE  /\ op'[p] \in OpSet /\ op'[p].kind = op[p].kind /\ op'[p].step = op[p].step
               /\ op'[p].owned = op[p].owned /\ op'[p].model = op[p].model /\ op'[p].act = op[p].act
    <3>1. op[p] \in OpSet
      BY <2>1, OpIs
    <3>2. op'[p] = [op[p] EXCEPT !.fresh = op[p].step \in {"observing", "migrating", "waiting"}]
      BY <2>1
    <3>3. CASE op[p].step \in {"observing", "migrating", "waiting"}
      <4>1. op'[p] = [op[p] EXCEPT !.fresh = TRUE]
        BY <3>2, <3>3
      <4> QED BY <3>1, <4>1 DEF OpSet
    <3>4. CASE op[p].step \notin {"observing", "migrating", "waiting"}
      <4>1. op'[p] = [op[p] EXCEPT !.fresh = FALSE]
        <5>1. (op[p].step \in {"observing", "migrating", "waiting"}) = FALSE
          BY <3>4
        <5> QED BY <3>2, <5>1, Zenon
      <4> QED BY <3>1, <4>1 DEF OpSet
    <3> QED BY <3>3, <3>4
  <2>3. op' \in [Ops -> Op]
    BY <2>1, <2>2, OpIs
  <2>4. TypeOK'
    BY <2>1, <2>3 DEF ActionsInv, TypeOK
  <2>5. \A p \in Ops : Shape(p)'
    BY <2>2 DEF ActionsInv, Apartness, Shape
  <2>6. Apartness'
    BY <2>1, <2>2, <2>5, ApartKept DEF ActionsInv
  <2> QED BY <2>1, <2>4, <2>6, EvacuatedKept DEF ActionsInv
<1>2. CASE Cancelled
  <2>1. reserved' = FALSE /\ vacated' = FALSE /\ UNCHANGED <<fleet, claim, sample, control, op>>
    BY <1>2 DEF Cancelled
  <2>2. TypeOK'
    BY <2>1 DEF ActionsInv, TypeOK
  <2>3. Apartness'
    BY <2>1, ApartKept DEF ActionsInv, Apartness, Shape
  <2>4. Evacuated'
    BY <2>1 DEF Evacuated, Vacated
  <2> QED BY <2>2, <2>3, <2>4 DEF ActionsInv
<1> QED BY <1>1, <1>2

-----------------------------------------------------------------------------
(* Admission *)

\* The types that an operation leaves to be shown.
LEMMA TypeKept ==
  ASSUME TypeOK, UNCHANGED <<fleet, sample>>, op' \in [Ops -> Op], pending' \subseteq Models,
         entry' \in [Models -> Ops \cup {None}], free' \in BOOLEAN, auto' \in BOOLEAN,
         reserved' \in BOOLEAN, vacated' \in BOOLEAN, claim' \in Models \cup {None}
  PROVE  TypeOK'
BY DEF TypeOK

LEMMA EntryKept ==
  ASSUME TypeOK, NEW o \in Ops, NEW m \in Models, Begins(m, o) \/ Ends(o) \/ UNCHANGED entry
  PROVE  entry' \in [Models -> Ops \cup {None}]
BY DEF TypeOK, Begins, Ends

\* A model is taken by an operation that has none.
LEMMA Takings ==
  ASSUME ActionsInv, NEW o \in Ops, NEW m \in Models, NEW act \in {"sleep", "stop", "wake"},
         NEW step \in Having, Takes(o, m, act, step), op[o].kind # "none",
         step = "observing" => act \in {"sleep", "stop"},
         op[o].step \in {"begun", "preloading", "preloaded", "claimed"}, m \notin pending,
         claim # m \/ op[o].kind = "recover", Begins(m, o) \/ UNCHANGED entry,
         UNCHANGED <<fleet, intents, claim, sample, free, auto>>
  PROVE  ActionsInv'
<1>1. op \in [Ops -> Op] /\ op[o] \in OpSet
  BY OpIs DEF ActionsInv, TypeOK
<1>2. PICK q : q = [op[o] EXCEPT !.model = m, !.act = act, !.step = step, !.owned = TRUE,
                                 !.seen = FALSE, !.fresh = FALSE]
  OBVIOUS
<1>3. op' = [op EXCEPT ![o] = q] /\ pending' = pending \cup {m}
  BY <1>1, <1>2 DEF Takes
<1>4. /\ q \in OpSet /\ q.kind = op[o].kind /\ q.step = step /\ q.owned = TRUE /\ q.model = m
      /\ q.act = act
  <2>1. m \in ModelSet /\ act \in ActSet /\ step \in StepSet
    BY DEF ModelSet, ActSet, StepSet, Having
  <2> QED BY <1>1, <1>2, <2>1 DEF OpSet
<1>5. op' \in [Ops -> Op] /\ op'[o] = q /\ Others(o)
  BY <1>1, <1>3, <1>4, OneOp DEF Others
<1>6. ~op[o].owned
  BY DEF ActionsInv, Apartness, Shape, Having
<1>7. Apartness'
  BY <1>3, <1>4, <1>5, <1>6, ApartTaken DEF ActionsInv
<1>8. TypeOK'
  <2>1. pending' \subseteq Models /\ entry' \in [Models -> Ops \cup {None}]
    BY <1>3, EntryKept DEF ActionsInv, TypeOK
  <2> QED BY <1>5, <2>1, TypeKept DEF ActionsInv, TypeOK
<1>9. Evacuated'
  BY EvacuatedKept DEF ActionsInv
<1> QED BY <1>7, <1>8, <1>9 DEF ActionsInv

\* Every admission that sends a command.
LEMMA Admitted ==
  ASSUME ActionsInv, NEW o \in Ops, NEW m \in Models, NEW act \in {"sleep", "stop"},
         AdmitWake(o, m) \/ AdmitAction(o, m, act) \/ AdmitCycle(o, m, act)
  PROVE  ActionsInv'
<1>0. UNCHANGED <<fleet, intents, claim, sample, free, auto>> /\ (Begins(m, o) \/ UNCHANGED entry)
  BY DEF AdmitWake, AdmitAction, AdmitCycle
<1>1. /\ op[o].kind # "none" /\ op[o].step \in {"begun", "preloading", "preloaded", "claimed"}
      /\ m \notin pending /\ claim # m
  BY DEF AdmitWake, AdmitAction, AdmitCycle, Step, MayAct, Idle
<1>2. CASE AdmitWake(o, m)
  <2>1. Takes(o, m, "wake", "requesting") \/ Takes(o, m, "stop", "migrating")
    BY <1>2 DEF AdmitWake
  <2> QED BY <1>0, <1>1, <2>1, Takings DEF Having
<1>3. CASE AdmitAction(o, m, act) \/ AdmitCycle(o, m, act)
  <2>1. Takes(o, m, act, "observing")
    BY <1>3 DEF AdmitAction, AdmitCycle
  <2> QED BY <1>0, <1>1, <2>1, Takings DEF Having
<1> QED BY <1>2, <1>3

\* The wake of the recovery passes its own fence.
LEMMA RecoveryWoken ==
  ASSUME ActionsInv, NEW o \in Ops, RecoveryWakes(o)
  PROVE  ActionsInv'
<1>1. /\ op[o].kind # "none" /\ op[o].step = "claimed" /\ claim \notin pending
      /\ Takes(o, claim, "wake", "requesting") /\ Begins(claim, o) /\ claim = op[o].model
      /\ UNCHANGED <<fleet, intents, claim, sample, free, auto>>
  BY DEF RecoveryWakes, Step
<1>2. op[o].kind = "recover"
  BY <1>1 DEF ActionsInv, Apartness, Shape
<1>3. claim \in Models
  BY <1>1 DEF ActionsInv, Apartness, Shape
<1>4. PICK m \in Models : m = claim
  BY <1>3
<1> QED BY <1>1, <1>2, <1>4, Takings DEF Having

\* An operation turns to a model without having it: a preload, a claim, a resumed one.
LEMMA Turned ==
  ASSUME ActionsInv, NEW o \in Ops, NEW m \in Models,
         AdmitPreload(o, m) \/ Claims(o, m) \/ (claim = m /\ Resumes(o))
  PROVE  ActionsInv'
<1>0. PICK step \in {"preloading", "claimed"} :
        /\ op' = [op EXCEPT ![o].step = step, ![o].model = m]
        /\ step = "claimed" => op[o].kind = "recover"
  BY DEF AdmitPreload, Claims, Resumes
<1>1. /\ op[o].kind # "none" /\ op[o].step = "begun" /\ UNCHANGED <<fleet, intents, sample, pending, free, auto>>
      /\ claim' = claim \/ (claim' = m /\ m \notin pending)
      /\ Begins(m, o) \/ UNCHANGED entry
  BY DEF AdmitPreload, Claims, Resumes, Step, Idle, MayAct
<1>2. op \in [Ops -> Op] /\ op[o] \in OpSet
  BY OpIs DEF ActionsInv, TypeOK
<1>3. PICK q : q = [op[o] EXCEPT !.step = step, !.model = m]
  OBVIOUS
<1>4. op' = [op EXCEPT ![o] = q]
  BY <1>0, <1>2, <1>3
<1>5. q \in OpSet /\ q.kind = op[o].kind /\ q.step = step /\ q.owned = op[o].owned /\ q.model = m
  <2>1. m \in ModelSet /\ step \in StepSet
    BY <1>0 DEF ModelSet, StepSet
  <2> QED BY <1>2, <1>3, <2>1 DEF OpSet
<1>6. op' \in [Ops -> Op] /\ op'[o] = q /\ Others(o)
  BY <1>2, <1>4, <1>5, OneOp DEF Others
<1>7. ~op[o].owned
  BY <1>1 DEF ActionsInv, Apartness, Shape, Having
<1>8. Apartness'
  <2>1. Shape(o)'
    BY <1>0, <1>1, <1>5, <1>6, <1>7 DEF Shape, Having
  <2>2. \A p \in Ops : /\ op'[p].kind = op[p].kind /\ op'[p].owned = op[p].owned
                       /\ op[p].owned => op'[p].model = op[p].model
                       /\ Shape(p)'
    BY <1>5, <1>6, <1>7, <2>1 DEF ActionsInv, Apartness, Shape, Others
  <2> QED BY <1>1, <2>2, ApartKept DEF ActionsInv
<1>9. TypeOK'
  <2>1. entry' \in [Models -> Ops \cup {None}]
    BY <1>1, EntryKept DEF ActionsInv
  <2> QED BY <1>1, <1>6, <2>1, TypeKept DEF ActionsInv, TypeOK
<1> QED BY <1>1, <1>8, <1>9, EvacuatedKept DEF ActionsInv

\* An operation of a kind that may begin.
LEMMA Begun ==
  ASSUME ActionsInv, ActionsAssumption, NEW o \in Ops, NEW kind \in Requests, Begin(o, kind)
  PROVE  ActionsInv'
<1>0. kind \in Kinds /\ kind \in KindSet /\ kind # "none"
  BY DEF ActionsAssumption, KindSet, Kinds
<1>1. op \in [Ops -> Op] /\ op' = [op EXCEPT ![o] = Request(kind)]
  BY DEF Begin, ActionsInv, TypeOK
<1>2. /\ op' \in [Ops -> Op] /\ Others(o) /\ op'[o].kind = kind /\ op'[o].step = "begun"
      /\ ~op'[o].owned
  BY <1>0, <1>1, RequestRecord, OneOp DEF Others
<1>3. /\ op[o].kind = "none" /\ UNCHANGED <<fleet, claim, sample, pending, entry>>
      /\ kind = "free" => ~free
      /\ kind \in {"auto", "recover"} => ~auto /\ \A p \in Ops : op[p].kind # "recover"
      /\ free' = (free \/ kind = "free") /\ auto' = (auto \/ kind = "auto")
      /\ reserved' = (reserved \/ kind = "reserve") /\ vacated' = (vacated /\ kind # "reserve")
  BY DEF Begin
<1>4. Apartness'
  BY <1>0, <1>2, <1>3, ApartBegun DEF ActionsInv
<1>5. free' \in BOOLEAN /\ auto' \in BOOLEAN /\ reserved' \in BOOLEAN /\ vacated' \in BOOLEAN
  BY <1>3
<1>6. TypeOK'
  BY <1>2, <1>3, <1>5, TypeKept DEF ActionsInv, TypeOK
<1>7. Evacuated'
  BY <1>3 DEF ActionsInv, TypeOK, Evacuated, Vacated
<1> QED BY <1>4, <1>6, <1>7 DEF ActionsInv

-----------------------------------------------------------------------------
(* Observation *)

\* An operation goes on with the model it has.
LEMMA GoesOn ==
  ASSUME ActionsInv, NEW o \in Ops, WakeRequested(o) \/ Observes(o) \/ Migrated(o)
  PROVE  ActionsInv'
<1>0. op[o].kind # "none" /\ UNCHANGED <<fleet, intents, claim, sample, control>>
  BY DEF WakeRequested, Observes, Migrated, Confirmed, Step
<1>1. op \in [Ops -> Op] /\ op[o] \in OpSet
  BY OpIs DEF ActionsInv, TypeOK
<1>2. PICK q \in OpSet : /\ op' = [op EXCEPT ![o] = q]
                         /\ q.kind = op[o].kind /\ q.owned = op[o].owned /\ q.model = op[o].model
                         /\ q.step \in Having /\ op[o].step \in Having
                         /\ q.step = "observing" => op[o].step = "observing" /\ q.act = op[o].act
  <2>1. CASE WakeRequested(o)
    <3>1. op' = [op EXCEPT ![o].step = "waiting"] /\ op[o].step = "requesting"
      BY <2>1 DEF WakeRequested, Step
    <3>2. PICK q : q = [op[o] EXCEPT !.step = "waiting"]
      OBVIOUS
    <3>3. /\ q \in OpSet /\ q.kind = op[o].kind /\ q.owned = op[o].owned
          /\ q.model = op[o].model /\ q.step = "waiting"
      BY <1>1, <3>2 DEF OpSet, StepSet
    <3>4. op' = [op EXCEPT ![o] = q]
      BY <1>1, <3>1, <3>2
    <3> QED BY <3>1, <3>3, <3>4 DEF Having
  <2>2. CASE Observes(o)
    <3>1. op' = [op EXCEPT ![o].seen = Effect(o), ![o].fresh = FALSE] /\ op[o].step \in {"observing", "migrating"}
      BY <2>2 DEF Observes
    <3>2. PICK q : q = [op[o] EXCEPT !.seen = Effect(o), !.fresh = FALSE]
      OBVIOUS
    <3>3. /\ q \in OpSet /\ q.kind = op[o].kind /\ q.owned = op[o].owned
          /\ q.model = op[o].model /\ q.step = op[o].step /\ q.act = op[o].act
      <4>1. Effect(o) \in BOOLEAN
        BY DEF Effect
      <4> QED BY <1>1, <3>2, <4>1 DEF OpSet
    <3>4. op' = [op EXCEPT ![o] = q]
      BY <1>1, <3>1, <3>2
    <3> QED BY <3>1, <3>3, <3>4 DEF Having
  <2>3. CASE Migrated(o)
    <3>1. op' = [op EXCEPT ![o].step = "requesting", ![o].act = "wake", ![o].fresh = FALSE] /\ op[o].step = "migrating"
      BY <2>3 DEF Migrated, Confirmed, Step
    <3>2. PICK q : q = [op[o] EXCEPT !.step = "requesting", !.act = "wake", !.fresh = FALSE]
      OBVIOUS
    <3>3. /\ q \in OpSet /\ q.kind = op[o].kind /\ q.owned = op[o].owned
          /\ q.model = op[o].model /\ q.step = "requesting"
      <4>1. "requesting" \in StepSet /\ "wake" \in ActSet
        BY DEF StepSet, ActSet
      <4> QED BY <1>1, <3>2, <4>1 DEF OpSet
    <3>4. op' = [op EXCEPT ![o] = q]
      BY <1>1, <3>1, <3>2
    <3> QED BY <3>1, <3>3, <3>4 DEF Having
  <2> QED BY <2>1, <2>2, <2>3
<1>3. op' \in [Ops -> Op] /\ op'[o] = q /\ Others(o)
  BY <1>1, <1>2, OneOp DEF Others
<1>4. Apartness'
  <2>1. Shape(o)'
    BY <1>0, <1>2, <1>3 DEF ActionsInv, Apartness, Shape, Having
  <2>2. \A p \in Ops : /\ op'[p].kind = op[p].kind /\ op'[p].owned = op[p].owned
                       /\ op[p].owned => op'[p].model = op[p].model
                       /\ Shape(p)'
    BY <1>2, <1>3, <2>1 DEF ActionsInv, Apartness, Shape, Others
  <2> QED BY <1>0, <2>2, ApartKept DEF ActionsInv
<1>5. TypeOK'
  BY <1>0, <1>3, TypeKept DEF ActionsInv, TypeOK
<1> QED BY <1>0, <1>4, <1>5, EvacuatedKept DEF ActionsInv

\* A cycle plans again, and the wake of a preload or of the recovery returns: the
\* model is given back and the operation goes on without it.
LEMMA GoesOnWithout ==
  ASSUME ActionsInv, NEW o \in Ops, Replans(o) \/ WakeReturns(o)
  PROVE  ActionsInv'
<1>0. /\ op[o].kind # "none" /\ op[o].step \in Having /\ pending' = pending \ {op[o].model}
      /\ UNCHANGED <<fleet, intents, claim, sample, free, auto>>
      /\ UNCHANGED entry \/ Ends(o)
  BY DEF Replans, WakeReturns, Confirmed, Step, Having
<1>1. op \in [Ops -> Op] /\ op[o] \in OpSet /\ op[o].owned /\ op[o].model \in Models
  BY <1>0, OpIs DEF ActionsInv, TypeOK, Apartness, Shape
<1>2. PICK q \in OpSet : /\ op' = [op EXCEPT ![o] = q]
                         /\ q.kind = op[o].kind /\ ~q.owned /\ q.step \notin Having
                         /\ q.step = "claimed" => q.kind = "recover" /\ q.model = op[o].model
  <2>1. CASE Replans(o)
    <3>1. PICK done : done = IF op[o].kind \in {"free", "auto"}
                             THEN op[o].done \cup {<<op[o].model, op[o].act>>} ELSE {}
      OBVIOUS
    <3>3. PICK q : q = [op[o] EXCEPT !.step = "begun", !.owned = FALSE, !.model = None,
                                     !.act = "none", !.seen = FALSE, !.fresh = FALSE, !.done = done]
      OBVIOUS
    <3>4. done \in DoneSet
      <4>1. CASE op[o].kind \in {"free", "auto"}
        <5>1. op[o].act \in {"sleep", "stop"}
          BY <2>1 DEF Replans, Confirmed, Step, ActionsInv, Apartness, Shape
        <5>2. <<op[o].model, op[o].act>> \in Models \X {"sleep", "stop"}
          BY <1>1, <5>1
        <5>3. op[o].done \in DoneSet
          BY <1>1 DEF OpSet
        <5> QED BY <3>1, <4>1, <5>2, <5>3 DEF DoneSet
      <4>2. CASE op[o].kind \notin {"free", "auto"}
        BY <3>1, <4>2 DEF DoneSet
      <4> QED BY <4>1, <4>2
    <3>5. "begun" \in StepSet /\ None \in ModelSet /\ "none" \in ActSet
      BY DEF StepSet, ModelSet, ActSet
    <3>6. q \in OpSet /\ q.kind = op[o].kind /\ ~q.owned /\ q.step = "begun"
      BY <1>1, <3>3, <3>4, <3>5 DEF OpSet
    <3>7. op' = [op EXCEPT ![o] = q]
      BY <1>1, <2>1, <3>1, <3>3 DEF Replans
    <3> QED BY <3>6, <3>7 DEF Having
  <2>2. CASE WakeReturns(o)
    <3>1. PICK step : step = IF op[o].kind = "preload" THEN "preloaded" ELSE "claimed"
      OBVIOUS
    <3>2. /\ op' = [op EXCEPT ![o] = [@ EXCEPT !.owned = FALSE, !.fresh = FALSE, !.step = step]]
          /\ op[o].kind \in {"preload", "recover"}
      BY <2>2, <3>1 DEF WakeReturns
    <3>3. PICK q : q = [op[o] EXCEPT !.owned = FALSE, !.fresh = FALSE, !.step = step]
      OBVIOUS
    <3>4. step \in StepSet
      BY <3>1 DEF StepSet
    <3>5. /\ q \in OpSet /\ q.kind = op[o].kind /\ ~q.owned /\ q.step = step
          /\ q.model = op[o].model
      BY <1>1, <3>3, <3>4 DEF OpSet
    <3>6. op' = [op EXCEPT ![o] = q]
      BY <1>1, <3>2, <3>3
    <3> QED BY <3>1, <3>2, <3>5, <3>6 DEF Having
  <2> QED BY <2>1, <2>2
<1>3. op' \in [Ops -> Op] /\ op'[o] = q /\ Others(o)
  BY <1>1, <1>2, OneOp DEF Others
<1>4. Apartness'
  BY <1>0, <1>1, <1>2, <1>3, ApartGiven DEF ActionsInv
<1>5. TypeOK'
  <2>1. pending' \subseteq Models /\ entry' \in [Models -> Ops \cup {None}]
    BY <1>0, <1>1, EntryKept DEF ActionsInv, TypeOK
  <2> QED BY <1>0, <1>3, <2>1, TypeKept DEF ActionsInv, TypeOK
<1> QED BY <1>0, <1>4, <1>5, EvacuatedKept DEF ActionsInv

\* An operation ends, in every outcome; the recovery releases its claim, and an
\* evacuation reports a GPU without accounts.
LEMMA Ended ==
  ASSUME ActionsInv, NEW o \in Ops, Finishes(o) \/ Completes(o) \/ Vacates(o)
  PROVE  ActionsInv'
<1>0. op \in [Ops -> Op] /\ op' = [op EXCEPT ![o] = Request("none")]
  BY DEF Finishes, Completes, Vacates, ActionsInv, TypeOK
<1>1. /\ op' \in [Ops -> Op] /\ Others(o) /\ op'[o].kind = "none" /\ op'[o].step = "begun"
      /\ ~op'[o].owned
  <2>1. "none" \in KindSet
    BY DEF KindSet
  <2> QED BY <1>0, <2>1, RequestRecord, OneOp DEF Others
<1>2. /\ UNCHANGED <<fleet, sample, reserved>> /\ (Ends(o) \/ UNCHANGED entry)
      /\ claim' \in {claim, None}
      /\ pending' = IF op[o].owned THEN pending \ {op[o].model} ELSE pending
      /\ free' = (free /\ op[o].kind # "free") /\ auto' = (auto /\ op[o].kind # "auto")
  <2>1. CASE Finishes(o)
    BY <2>1 DEF Finishes
  <2>2. CASE Completes(o)
    <3>1. op[o].kind = "recover" /\ ~op[o].owned
      BY <2>2 DEF Completes, Step, ActionsInv, Apartness, Shape, Having
    <3> QED BY <2>2, <3>1 DEF Completes, ActionsInv, TypeOK
  <2>3. CASE Vacates(o)
    <3>1. op[o].kind = "reserve" /\ ~op[o].owned
      BY <2>3 DEF Vacates, Step, ActionsInv, Apartness, Shape, Having
    <3> QED BY <2>3, <3>1 DEF Vacates, ActionsInv, TypeOK
  <2> QED BY <2>1, <2>2, <2>3
<1>3. Apartness'
  BY <1>1, <1>2, ApartEnded DEF ActionsInv
<1>4. Evacuated'
  <2>1. CASE Vacates(o)
    <3>1. reserved /\ Cleared /\ UNCHANGED <<here, account>>
      BY <2>1 DEF Vacates
    <3>2. account \in [Models -> {"none", "pending", "confirmed"}]
      BY DEF ActionsInv, TypeOK
    <3>3. \A m \in Models : here[m] => account[m] # "pending" /\ account[m] # "confirmed"
      BY <3>1 DEF Cleared, Consistent
    <3>4. \A m \in Models : here[m] => account[m] = "none"
      BY <3>2, <3>3
    <3> QED BY <1>2, <3>1, <3>4 DEF Evacuated, Vacated
  <2>2. CASE Finishes(o) \/ Completes(o)
    BY <2>2, EvacuatedKept DEF Finishes, Completes, ActionsInv
  <2> QED BY <2>1, <2>2
<1>5. vacated' \in BOOLEAN
  BY DEF Finishes, Completes, Vacates, ActionsInv, TypeOK
<1>6. TypeOK'
  <2>1. pending' \subseteq Models /\ entry' \in [Models -> Ops \cup {None}]
    BY <1>2 DEF Ends, ActionsInv, TypeOK
  <2>2. free' \in BOOLEAN /\ auto' \in BOOLEAN /\ claim' \in Models \cup {None}
    BY <1>2 DEF ActionsInv, TypeOK
  <2> QED BY <1>1, <1>2, <1>5, <2>1, <2>2, TypeKept DEF ActionsInv, TypeOK
<1> QED BY <1>3, <1>4, <1>6 DEF ActionsInv

-----------------------------------------------------------------------------
(* The operations keep apart *)

\* The state the scheduler starts in.
LEMMA ActionsInit == ActionsAssumption /\ Init => ActionsInv
<1> SUFFICES ASSUME ActionsAssumption, Init PROVE ActionsInv
  OBVIOUS
<1>1. Request("none") \in Op /\ \A o \in Ops : op[o] = Request("none")
  BY RequestRecord, OpIs DEF Init, KindSet
<1>2. \A o \in Ops : op[o].kind = "none" /\ op[o].step = "begun" /\ ~op[o].owned
  BY <1>1, RequestRecord DEF KindSet
<1>3. TypeOK
  BY <1>1 DEF Init, TypeOK, States
<1>4. Apartness
  BY <1>2 DEF Init, Apartness, Shape, Exclusive, FenceExclusive, Flags, AtMostOne, Having
<1>5. Evacuated
  BY DEF Init, Evacuated, Vacated
<1> QED BY <1>3, <1>4, <1>5 DEF ActionsInv

\* Every step.
LEMMA ActionsNext == ActionsAssumption /\ ActionsInv /\ [Next]_vars => ActionsInv'
<1> SUFFICES ASSUME ActionsAssumption, ActionsInv, [Next]_vars PROVE ActionsInv'
  OBVIOUS
<1>1. CASE Environment
  BY <1>1, RoundsAndCancels, FleetMoves DEF Environment
<1>2. ASSUME NEW o \in Ops, Admission(o) PROVE ActionsInv'
  <2>1. CASE \E kind \in Requests : Begin(o, kind)
    BY <2>1, Begun
  <2>2. CASE \E m \in Models : AdmitWake(o, m)
    BY <2>2, Admitted
  <2>3. CASE \E m \in Models : AdmitPreload(o, m) \/ Claims(o, m)
    BY <2>3, Turned
  <2>4. CASE \E m \in Models, act \in {"sleep", "stop"} : AdmitAction(o, m, act) \/ AdmitCycle(o, m, act)
    BY <2>4, Admitted
  <2>5. CASE RecoveryWakes(o)
    BY <2>5, RecoveryWoken
  <2>6. CASE Resumes(o)
    <3>1. claim \in Models
      BY <2>6 DEF Resumes, ActionsInv, TypeOK
    <3> QED BY <2>6, <3>1, Turned
  <2> QED BY <1>2, <2>1, <2>2, <2>3, <2>4, <2>5, <2>6 DEF Admission
<1>3. ASSUME NEW o \in Ops, Observation(o) PROVE ActionsInv'
  BY <1>3, GoesOn, GoesOnWithout, Ended DEF Observation
<1>4. CASE UNCHANGED vars
  BY <1>4 DEF ActionsInv, TypeOK, Apartness, Shape, Exclusive, FenceExclusive, Flags, AtMostOne,
              Evacuated, Vacated
<1> QED BY <1>1, <1>2, <1>3, <1>4 DEF Next

\* One operation at most, counted.
LEMMA Counted ==
  ASSUME NEW kinds, NEW flag \in BOOLEAN, AtMostOne(kinds)
  PROVE  LET running == {o \in Ops : op[o].kind \in kinds} IN
         /\ Cardinality(running) <= 1
         /\ (flag <=> running # {}) => Cardinality(running) = (IF flag THEN 1 ELSE 0)
<1> DEFINE running == {o \in Ops : op[o].kind \in kinds}
<1>1. CASE running = {}
  BY <1>1, FS_EmptySet
<1>2. CASE running # {}
  <2>1. PICK o : o \in running
    BY <1>2
  <2>2. running = {o}
    BY <2>1 DEF AtMostOne
  <2>3. Cardinality(running) = 1
    BY <2>2, FS_Singleton, Zenon
  <2> QED BY <1>2, <2>3
<1> QED BY <1>1, <1>2

LEMMA ActionsApart == ActionsInv => OperationsApart
<1> SUFFICES ASSUME ActionsInv PROVE OperationsApart
  OBVIOUS
<1>1. free \in BOOLEAN /\ auto \in BOOLEAN /\ Flags
  BY DEF ActionsInv, TypeOK, Apartness
<1>2. (free <=> {o \in Ops : op[o].kind \in {"free"}} # {}) /\ (auto <=> {o \in Ops : op[o].kind \in {"auto"}} # {})
  BY <1>1 DEF Flags
<1>3. AtMostOne({"free"}) /\ AtMostOne({"auto"}) /\ AtMostOne({"auto", "recover"})
  BY <1>1 DEF Flags, AtMostOne
<1>4. Cardinality({o \in Ops : op[o].kind \in {"free"}}) = (IF free THEN 1 ELSE 0)
  BY <1>1, <1>2, <1>3, Counted
<1>5. Cardinality({o \in Ops : op[o].kind \in {"auto"}}) = (IF auto THEN 1 ELSE 0)
  BY <1>1, <1>2, <1>3, Counted
<1>6. Cardinality({o \in Ops : op[o].kind \in {"auto", "recover"}}) <= 1
  BY <1>1, <1>3, Counted
<1>7. FlagsMatch
  BY <1>4, <1>5, <1>6 DEF FlagsMatch
<1> QED BY <1>7 DEF ActionsInv, Apartness, Evacuated, OperationsApart

\* However the operations interleave and end: a model has one operation, `pending` and
\* the flags stand for what runs, a claimed model is left to its recovery, and a GPU
\* that was reported vacated stays so while it is reserved.
THEOREM ApartHolds == ASSUME ActionsAssumption PROVE Spec => []OperationsApart
<1>1. Init => ActionsInv
  BY ActionsInit
<1>2. ActionsInv /\ [Next]_vars => ActionsInv'
  BY ActionsNext
<1>3. ActionsInv => OperationsApart
  BY ActionsApart
<1> QED BY <1>1, <1>2, <1>3, PTL DEF Spec
===============================================================================
