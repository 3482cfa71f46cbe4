-------------------------- MODULE TransactionsProofs --------------------------
(***************************************************************************)
(* Proofs about QuietPeriod, ReloadQueue and ScanInstall, and about the     *)
(* transactions that MCTransactions composes: what holds of one of them     *)
(* alone holds of it in the composition that TLC checks.                    *)
(***************************************************************************)
EXTENDS MCTransactions, TLAPS

-----------------------------------------------------------------------------
(* The quiet period *)

\* Nothing is known, the last event counted a request, or the quiet goes on.
QuietInv ==
  /\ calm \in 0..Quiet /\ silent \in 0..MaxAge + 1
  /\ \/ last = Never /\ zero = Never /\ inflight = Never /\ calm = 0
     \/ last \in 0..MaxAge + 1 /\ silent = last /\ inflight = 1 /\ zero = Never /\ calm = 0
     \/ /\ last \in 0..MaxAge + 1 /\ silent = last /\ inflight = 0 /\ zero \in 0..Quiet
        /\ calm = IF silent > MaxAge THEN 0 ELSE zero

LEMMA QuietStep == ASSUME QuietAssumption, QuietInv, [QuietNext]_quietVars PROVE QuietInv'
<1> USE DEF QuietAssumption, QuietInv
<1>1. ASSUME NEW n \in {0, 1}, Observe(n) PROVE QuietInv'
  <2>1. last' = 0 /\ silent' = 0 /\ inflight' = n /\ 0 \in 0..MaxAge + 1 /\ 0 \in 0..Quiet
    BY <1>1 DEF Observe
  <2>2. CASE n = 1
    BY <1>1, <2>1, <2>2 DEF Observe
  <2>3. CASE n = 0 /\ (Gap \/ zero = Never)
    <3>1. calm' = 0 /\ zero' = 0
      BY <1>1, <2>3 DEF Observe, Gap
    <3> QED BY <2>1, <2>3, <3>1
  <2>4. CASE n = 0 /\ ~(Gap \/ zero = Never)
    <3>1. calm' = calm /\ zero' = zero /\ calm = zero /\ zero \in 0..Quiet
      BY <1>1, <2>4 DEF Observe, Gap
    <3> QED BY <2>1, <2>4, <3>1
  <2> QED BY <1>1, <2>2, <2>3, <2>4
<1>2. CASE Disconnected
  BY <1>2 DEF Disconnected, Loses
<1>3. CASE Heartbeat
  <2>1. silent' = 0 /\ 0 \in 0..MaxAge + 1 /\ 0 \in 0..Quiet
    BY <1>3 DEF Heartbeat
  <2>2. CASE Gap
    <3>1. calm' = 0
      BY <1>3, <2>2 DEF Heartbeat, Gap
    <3>2. last' = Never /\ zero' = Never /\ inflight' = Never
      BY <1>3, <2>2 DEF Heartbeat, Loses
    <3> QED BY <2>1, <3>1, <3>2
  <2>3. CASE ~Gap
    <3>1. last # Never /\ silent <= MaxAge /\ silent \in Nat
      BY <2>3 DEF Gap
    <3>2. last' = 0 /\ zero' = zero /\ inflight' = inflight /\ calm' = calm
      BY <1>3, <2>3, <3>1 DEF Heartbeat
    <3> QED BY <2>1, <3>1, <3>2
  <2> QED BY <2>2, <2>3
<1>4. CASE Tick
  <2>1. CASE last = Never
    BY <1>4, <2>1 DEF Tick, Capped
  <2>2. CASE last # Never /\ inflight = 1
    BY <1>4, <2>2 DEF Tick, Capped
  <2>3. CASE last # Never /\ inflight = 0
    BY <1>4, <2>3 DEF Tick, Capped
  <2> QED BY <2>1, <2>2, <2>3
<1>5. CASE UNCHANGED quietVars
  BY <1>5 DEF quietVars
<1> QED BY <1>1, <1>2, <1>3, <1>4, <1>5 DEF QuietNext

\* For every length of the quiet and of the age that events may have, a change
\* is admitted exactly after a quiet that no gap of the stream interrupts.
THEOREM QuietPeriodIsReal == QuietSpec => []QuietIsReal
<1>1. QuietInit => QuietInv
  BY QuietAssumption DEF QuietAssumption, QuietInit, QuietInv
<1>2. QuietInv => QuietIsReal
  BY QuietAssumption DEF QuietAssumption, QuietInv, QuietIsReal, Admits, Gap
<1> QED BY <1>1, <1>2, QuietStep, QuietAssumption, PTL DEF QuietSpec

-----------------------------------------------------------------------------
(* The queue of configuration changes: its inductive invariant *)

\* process_once before and after it puts the file in place, and the retirement.
Taken == {"staged", "compared", "announced", "marked", "prepared"}
Placed == {"replaced", "synced", "adopted"}
Ending == {"retire", "unlinked"}

\* What the file holds, or would after a power failure.
Written == In(file) \cup In(fileDisk)

\* What a step of process_once and of reconcile has in its hands.
Holding ==
  /\ pc = "idle" <=> work = Idle
  /\ pc \in {"staged", "compared"} => marker = None
  /\ pc \in {"staged", "compared", "announced", "marked"} => latch = None
  /\ pc \in {"announced", "marked", "prepared", "retire"} \cup Placed => marker = work
  /\ pc \in {"marked", "prepared"} \cup Placed => markerDisk = work
  /\ pc = "prepared" => work.job \in effects
  /\ pc = "unlinked" => marker = None
  /\ pc \in Taken \cup Placed => Own

\* The candidate is the file with the change; nothing of the queue's is lost by it.
Candidate ==
  /\ pc \in Taken =>
       /\ In(work.candidate) = In(work.base) \cup {work.job} /\ In(work.base) \subseteq In(file)
       /\ Valid(work.candidate)
  /\ pc \in Placed => In(file) \cap Jobs \subseteq In(work.candidate)
  /\ pc = "adopted" => In(file) \cap Jobs \subseteq In(serving)

\* A change that waits is new to the file, the disk and the services, until it is
\* the one that is made.
Doing(j) == j = work.job /\ Own /\ pc \in {"prepared"} \cup Placed \cup Ending
Fresh == \A j \in Jobs :
  /\ status[j] = "none" => j \notin In(pending) /\ j \notin Written /\ j \notin effects
  /\ j \in In(pending) => status[j] \in {"queued", "failed"}
     /\ (j \in Written \/ j \in effects => Doing(j))

\* What is neither completed nor proved is announced, and stays announced when the
\* power fails.
Announced ==
  /\ \A j \in Jobs : j \in unfinished /\ j \in Written =>
       /\ marker # None /\ marker.job = j
       /\ markerDisk # None /\ markerDisk.job = j
       /\ pc \notin Taken \cup Ending
  /\ \A j \in Jobs : j \in In(file) => j \in In(serving) \/ j \in unfinished

\* No marker of an applied change is left, and such a change is on the disk.
Names(m, j) == m \in Markers /\ m.job = j
Named(j) == Names(marker, j) \/ Names(markerDisk, j) \/ Names(latch, j) \/ Names(work, j)
Durable == \A j \in Jobs : status[j] = "applied" =>
  ~Named(j) /\ (j \in In(file) => j \in In(fileDisk))

QueueInv == TypeOK /\ Holding /\ Candidate /\ Fresh /\ Announced /\ Durable /\ NoTrace

-----------------------------------------------------------------------------
(* Its contents: sequences without repetition, and their elements *)

LEMMA EmptyContent == <<>> \in Files /\ In(<<>>) = {}
BY DEF Files, IsInjective, In, ToSet

LEMMA ContentTypes == \A s \in Files : In(s) \subseteq Edits
BY DEF Files, In, ToSet

\* A change at the end is one more element.
LEMMA ContentAppended ==
  ASSUME NEW s \in Files, NEW j \in Edits, j \notin In(s)
  PROVE  Append(s, j) \in Files /\ In(Append(s, j)) = In(s) \cup {j}
<1> DEFINE t == Append(s, j)
<1>1. /\ s \in Seq(Edits) /\ t \in Seq(Edits) /\ Len(t) = Len(s) + 1 /\ Len(s) \in Nat
      /\ t[Len(s) + 1] = j /\ \A k \in 1 .. Len(s) : t[k] = s[k]
      /\ DOMAIN s = 1 .. Len(s) /\ DOMAIN t = 1 .. Len(s) + 1
  BY DEF Files
<1> HIDE DEF t
<1>2. \A a, b \in 1 .. Len(s) : s[a] = s[b] => a = b
  BY <1>1 DEF Files, IsInjective
<1>3. \A k \in 1 .. Len(s) : s[k] # j
  BY <1>1 DEF In, ToSet
<1>4. \A a, b \in 1 .. Len(s) + 1 : t[a] = t[b] => a = b
  BY <1>1, <1>2, <1>3
<1>5. t \in Files
  BY <1>1, <1>4 DEF Files, IsInjective
<1>6. In(t) = In(s) \cup {j}
  BY <1>1 DEF In, ToSet
<1> QED BY <1>5, <1>6 DEF t

\* Without its head a content has all the other elements.
LEMMA ContentTail ==
  ASSUME NEW s \in Files, s # <<>>
  PROVE  /\ Head(s) \in In(s) /\ Tail(s) \in Files /\ In(Tail(s)) = In(s) \ {Head(s)}
<1> DEFINE t == Tail(s)
<1>1. /\ s \in Seq(Edits) /\ t \in Seq(Edits) /\ Len(s) \in Nat /\ Len(s) # 0 /\ Len(t) = Len(s) - 1
      /\ \A k \in 1 .. Len(s) - 1 : t[k] = s[k + 1]
      /\ DOMAIN s = 1 .. Len(s) /\ DOMAIN t = 1 .. Len(s) - 1 /\ Head(s) = s[1]
  BY DEF Files
<1> HIDE DEF t
<1>2. \A a, b \in 1 .. Len(s) : s[a] = s[b] => a = b
  BY <1>1 DEF Files, IsInjective
<1>3. t \in Files
  BY <1>1, <1>2 DEF Files, IsInjective
<1>4. Head(s) \in In(s)
  BY <1>1 DEF In, ToSet
<1>5. In(t) = In(s) \ {Head(s)}
  <2>1. \A k \in 2 .. Len(s) : s[k] = t[k - 1] /\ k - 1 \in 1 .. Len(s) - 1 /\ s[k] # s[1]
    BY <1>1, <1>2
  <2>2. \A k \in 1 .. Len(s) - 1 : t[k] = s[k + 1] /\ k + 1 \in 2 .. Len(s)
    BY <1>1
  <2>3. ASSUME NEW e \in In(t) PROVE e \in In(s) /\ e # Head(s)
    <3>1. PICK k \in 1 .. Len(s) - 1 : e = t[k]
      BY <1>1, <2>3 DEF In, ToSet
    <3>2. k + 1 \in 2 .. Len(s) /\ e = s[k + 1]
      BY <2>2, <3>1
    <3> QED BY <1>1, <2>1, <3>2 DEF In, ToSet
  <2>4. ASSUME NEW e \in In(s), e # Head(s) PROVE e \in In(t)
    <3>1. PICK k \in 1 .. Len(s) : e = s[k]
      BY <1>1, <2>4 DEF In, ToSet
    <3>2. k \in 2 .. Len(s)
      BY <1>1, <2>4, <3>1
    <3> QED BY <1>1, <2>1, <3>1, <3>2 DEF In, ToSet
  <2> QED BY <2>3, <2>4
<1> QED BY <1>3, <1>4, <1>5 DEF t

-----------------------------------------------------------------------------
(* The types of the queue *)

Queues == {s \in Files : In(s) \subseteq Jobs}
Statuses == {"none", "queued", "applied", "failed", "timed_out", "reconciliation_required", "forgotten"}
Steps == {"idle", "staged", "compared", "announced", "marked", "prepared", "replaced", "synced",
          "adopted", "retire", "unlinked", "repair", "confirming", "proved", "absent",
          "absence synced"}
Marks == Markers \cup {None}
Typed ==
  /\ file \in Files /\ fileDisk \in Files /\ serving \in Files
  /\ marker \in Marks /\ markerDisk \in Marks /\ latch \in Marks
  /\ pending \in Queues /\ status \in [Jobs -> Statuses]
  /\ elapsed \subseteq Jobs /\ busy \in BOOLEAN /\ effects \subseteq Maintenance
  /\ pc \in Steps /\ work \in Markers \cup {Idle}
  /\ unfinished \subseteq Jobs /\ crashes \in 0 .. MaxCrashes

LEMMA QueueTypes == TypeOK <=> Typed
BY DEF TypeOK, Typed, Queues, Statuses, Steps, Marks
LEMMA QueueTypesNext == Typed' => TypeOK'
BY QueueTypes, PTL

LEMMA MarkerTypes ==
  /\ \A m \in Markers : m.job \in Jobs /\ m.base \in Files /\ m.candidate \in Files
  /\ ReloadAssumption => Idle \notin Markers /\ Idle.job = None /\ None \notin Markers
<1>1. \A m \in Markers : m.job \in Jobs /\ m.base \in Files /\ m.candidate \in Files
  BY DEF Markers
<1>2. ASSUME ReloadAssumption PROVE Idle \notin Markers /\ Idle.job = None /\ None \notin Markers
  BY <1>2 DEF Markers, Idle, ReloadAssumption, Edits
<1> QED BY <1>1, <1>2

\* The head of the queue leaves it with an outcome.
Left(j, outcome) ==
  /\ pending' \in Queues /\ In(pending') = In(pending) \ {j}
  /\ status' \in [Jobs -> Statuses] /\ status'[j] = outcome
  /\ \A k \in Jobs \ {j} : status'[k] = status[k]
LEMMA HeadLeft ==
  ASSUME Typed, pending # <<>>, NEW outcome \in Statuses, NEW j, j = Head(pending), Leaves(j, outcome)
  PROVE  j \in Jobs /\ j \in In(pending) /\ Left(j, outcome)
<1>1. pending \in Files /\ In(pending) \subseteq Jobs
  BY DEF Typed, Queues
<1>2. Head(pending) \in In(pending) /\ Tail(pending) \in Files
      /\ In(Tail(pending)) = In(pending) \ {Head(pending)}
  BY <1>1, ContentTail
<1>3. pending' = Tail(pending) /\ status' = [status EXCEPT ![j] = outcome]
  BY DEF Leaves
<1>4. pending' \in Queues
  BY <1>1, <1>2, <1>3 DEF Queues
<1>5. status' \in [Jobs -> Statuses] /\ status'[j] = outcome
      /\ \A k \in Jobs \ {j} : status'[k] = status[k]
  BY <1>1, <1>2, <1>3 DEF Typed
<1> QED BY <1>1, <1>2, <1>3, <1>4, <1>5 DEF Left

-----------------------------------------------------------------------------
(* The steps of the queue *)

\* What every step starts from.
Known ==
  /\ QueueInv /\ Typed /\ Idle \notin Markers /\ Idle.job = None /\ None \notin Markers
     /\ None \notin Jobs
  /\ Jobs \cap Foreign = {} /\ Maintenance \subseteq Jobs /\ Edits = Jobs \cup Foreign
     /\ MaxCrashes \in Nat
  /\ \A m \in Markers : m.job \in Jobs /\ m.base \in Files /\ m.candidate \in Files
LEMMA QueueKnown == ReloadAssumption /\ QueueInv => Known
BY QueueTypes, MarkerTypes DEF Known, QueueInv, ReloadAssumption, Edits

\* The change in hand is at the head.
LEMMA OwnHead ==
  ASSUME Known, Own, pc # "idle"
  PROVE  /\ pending # <<>> /\ Head(pending) = work.job /\ work \in Markers
         /\ work.job \in Jobs /\ work.job \in In(pending)
<1>1. pending # <<>> /\ Head(pending) = work.job
  BY DEF Own
<1>2. Head(pending) \in In(pending) /\ pending \in Files
  BY <1>1, ContentTail DEF Known, Typed, Queues
<1>3. work \in Markers
  BY DEF Known, QueueInv, Holding, Typed
<1> QED BY <1>1, <1>2, <1>3 DEF Known

\* A change is queued.
LEMMA EnqueuesKeeps == ASSUME Known, NEW j \in Jobs, Enqueues(j) PROVE QueueInv'
<1>1. QueueInv /\ Typed /\ TypeOK /\ Holding /\ Candidate /\ Fresh /\ Announced /\ Durable
      /\ NoTrace
  BY DEF Known, QueueInv
<1>2. UNCHANGED <<file, fileDisk, marker, markerDisk, latch, elapsed, busy, serving, effects, pc,
                  work, unfinished, crashes>>
  BY DEF Enqueues, disk, memory, env
<1>3. pc = "idle" /\ status[j] = "none" /\ j \in Jobs
  BY DEF Enqueues
<1>4. j \notin In(pending) /\ j \notin Written /\ j \notin effects /\ pending \in Files
      /\ In(pending) \subseteq Jobs
  BY <1>1, <1>3 DEF Fresh, Typed, Queues
<1>5. pending' \in Files /\ In(pending') = In(pending) \cup {j}
  BY <1>3, <1>4, ContentAppended DEF Enqueues, Known
<1>6. pending' \in Queues /\ status' \in [Jobs -> Statuses] /\ status'[j] = "queued"
      /\ \A k \in Jobs \ {j} : status'[k] = status[k]
  BY <1>1, <1>3, <1>4, <1>5 DEF Enqueues, Typed, Queues, Statuses
<1>7. Typed'
  BY <1>1, <1>2, <1>3, <1>4, <1>5, <1>6 DEF Known, Typed, Marks, Steps
<1>8. Holding'
  BY <1>1, <1>2, <1>3, <1>4, <1>5, <1>6 DEF Known, Holding, Own, Taken, Placed, Ending
<1>9. Candidate'
  BY <1>1, <1>2, <1>3, <1>4, <1>5, <1>6 DEF Known, Candidate, Taken, Placed
<1>10. Fresh'
  BY <1>1, <1>2, <1>3, <1>4, <1>5, <1>6 DEF Known, Fresh, Doing, Written, Own, Taken, Placed, Ending
<1>11. Announced'
  BY <1>1, <1>2, <1>3, <1>4, <1>5, <1>6 DEF Known, Announced, Written, Taken, Placed, Ending
<1>12. Durable'
  BY <1>1, <1>2, <1>3, <1>4, <1>5, <1>6 DEF Known, Durable, Named, Names
<1>13. NoTrace'
  BY <1>1, <1>2, <1>3, <1>4, <1>5, <1>6 DEF Known, NoTrace, Written
<1> QED BY <1>7, <1>8, <1>9, <1>10, <1>11, <1>12, <1>13, QueueTypesNext DEF QueueInv

\* A change whose time passed leaves before its turn.
LEMMA TimesOutKeeps == ASSUME Known, TimesOut PROVE QueueInv'
<1>1. QueueInv /\ Typed /\ TypeOK /\ Holding /\ Candidate /\ Fresh /\ Announced /\ Durable
      /\ NoTrace
  BY DEF Known, QueueInv
<1>2. UNCHANGED <<file, fileDisk, marker, markerDisk, latch, elapsed, busy, serving, effects, pc,
                  work, unfinished, crashes>>
  BY DEF TimesOut, disk, memory, env
<1>3. pc = "idle" /\ Head(pending) \in Jobs /\ Left(Head(pending), "timed_out")
  BY <1>1, HeadLeft DEF TimesOut, Statuses
<1>4. \A j \in Jobs : j \in In(pending) => j \notin Written /\ j \notin effects
  BY <1>1, <1>3 DEF Fresh, Doing, Placed, Ending
<1>5. Head(pending) \in In(pending)
  BY <1>1, HeadLeft DEF TimesOut, Statuses
<1>6. Typed'
  BY <1>1, <1>2, <1>3, <1>4, <1>5 DEF Known, Typed, Marks, Steps, Left
<1>7. Holding'
  BY <1>1, <1>2, <1>3, <1>4, <1>5 DEF Known, Holding, Own, Taken, Placed, Ending, Left
<1>8. Candidate'
  BY <1>1, <1>2, <1>3, <1>4, <1>5 DEF Known, Candidate, Taken, Placed
<1>9. Fresh'
  BY <1>1, <1>2, <1>3, <1>4, <1>5 DEF Known, Fresh, Doing, Written, Own, Taken, Placed, Ending, Left
<1>10. Announced'
  BY <1>1, <1>2, <1>3, <1>4, <1>5 DEF Known, Announced, Written, Taken, Placed, Ending
<1>11. Durable'
  BY <1>1, <1>2, <1>3, <1>4, <1>5 DEF Known, Durable, Named, Names, Left
<1>12. NoTrace'
  BY <1>1, <1>2, <1>3, <1>4, <1>5 DEF Known, NoTrace, Written, Left
<1> QED BY <1>6, <1>7, <1>8, <1>9, <1>10, <1>11, <1>12, QueueTypesNext DEF QueueInv

\* A change comes to its turn, or is refused there.
LEMMA TakesKeeps == ASSUME Known, Takes PROVE QueueInv'
<1>1. QueueInv /\ Typed /\ TypeOK /\ Holding /\ Candidate /\ Fresh /\ Announced /\ Durable
      /\ NoTrace
  BY DEF Known, QueueInv
<1>2. UNCHANGED <<file, fileDisk, marker, markerDisk, latch, elapsed, busy, serving, effects,
                  unfinished, crashes>>
  BY DEF Takes, disk, memory, env
<1>3. /\ pc = "idle" /\ Head(pending) \in Jobs /\ Head(pending) \in In(pending) /\ pending # <<>>
      /\ latch = None /\ marker = None
  BY <1>1, ContentTail DEF Takes, Fenced, Typed, Queues
<1>4. \A j \in Jobs : j \in In(pending) => j \notin Written /\ j \notin effects
  BY <1>1, <1>3 DEF Fresh, Doing, Placed, Ending
<1>5. /\ Transform(Head(pending), file) \in Files
      /\ In(Transform(Head(pending), file)) = In(file) \cup {Head(pending)}
  BY <1>1, <1>3, <1>4, ContentAppended DEF Transform, Typed, Known, Written
<1>6. \/ /\ UNCHANGED <<pending, status>> /\ pc' = "staged" /\ work' \in Markers
         /\ work'.job = Head(pending) /\ In(work'.base) = In(file)
         /\ In(work'.candidate) = In(file) \cup {Head(pending)} /\ Valid(work'.candidate)
      \/ /\ UNCHANGED <<pc, work>> /\ Left(Head(pending), "failed")
  BY <1>1, <1>3, <1>5, HeadLeft DEF Takes, Markers, Typed, Statuses
<1>7. status[Head(pending)] # "applied"
  BY <1>1, <1>3 DEF Fresh
<1>8. Typed'
  BY <1>1, <1>2, <1>3, <1>4, <1>5, <1>6, <1>7 DEF Known, Typed, Marks, Steps, Left
<1>9. Holding'
  BY <1>1, <1>2, <1>3, <1>4, <1>5, <1>6, <1>7 DEF Known, Holding, Own, Taken, Placed, Ending, Left
<1>10. Candidate'
  BY <1>1, <1>2, <1>3, <1>4, <1>5, <1>6, <1>7 DEF Known, Candidate, Taken, Placed
<1>11. Fresh'
  BY <1>1, <1>2, <1>3, <1>4, <1>5, <1>6, <1>7 DEF Known, Fresh, Doing, Written, Own, Taken, Placed,
    Ending, Left
<1>12. Announced'
  BY <1>1, <1>2, <1>3, <1>4, <1>5, <1>6, <1>7 DEF Known, Announced, Written, Taken, Placed, Ending
<1>13. Durable'
  BY <1>1, <1>2, <1>3, <1>4, <1>5, <1>6, <1>7 DEF Known, Durable, Named, Names, Left
<1>14. NoTrace'
  BY <1>1, <1>2, <1>3, <1>4, <1>5, <1>6, <1>7 DEF Known, NoTrace, Written, Left
<1> QED BY <1>8, <1>9, <1>10, <1>11, <1>12, <1>13, <1>14, QueueTypesNext DEF QueueInv

\* The blockers, the time and the file are looked at again.
LEMMA ComparesKeeps == ASSUME Known, Compares PROVE QueueInv'
<1>1. QueueInv /\ Typed /\ TypeOK /\ Holding /\ Candidate /\ Fresh /\ Announced /\ Durable
      /\ NoTrace
  BY DEF Known, QueueInv
<1>2. UNCHANGED <<file, fileDisk, marker, markerDisk, latch, elapsed, busy, serving, effects,
                  unfinished, crashes>>
  BY DEF Compares, disk, memory, env
<1>3. pc = "staged" /\ Own
  BY <1>1 DEF Compares, Holding, Taken
<1>4. pending # <<>> /\ Head(pending) = work.job /\ work \in Markers /\ work.job \in Jobs
      /\ work.job \in In(pending)
  BY <1>3, OwnHead
<1>5. \A j \in Jobs : j \in In(pending) => j \notin Written /\ j \notin effects
  BY <1>1, <1>3 DEF Fresh, Doing, Placed, Ending
<1>6. \/ UNCHANGED <<pending, status, work>> /\ pc' = "compared"
      \/ UNCHANGED <<pending, status>> /\ pc' = "idle" /\ work' = Idle
      \/ /\ pc' = "idle" /\ work' = Idle /\ Left(work.job, "timed_out")
  BY <1>1, <1>3, <1>4, HeadLeft DEF Compares, Returns, Statuses, memory
<1>7. pending' \in Queues /\ status' \in [Jobs -> Statuses]
  BY <1>1, <1>2, <1>6 DEF Typed, Left
<1>8. Typed'
  BY <1>1, <1>2, <1>3, <1>4, <1>5, <1>6, <1>7 DEF Known, Typed, Marks, Steps, Left
<1>9. Holding'
  BY <1>1, <1>2, <1>3, <1>4, <1>5, <1>6, <1>7 DEF Known, Holding, Own, Taken, Placed, Ending, Left
<1>10. Candidate'
  BY <1>1, <1>2, <1>3, <1>4, <1>5, <1>6, <1>7 DEF Known, Candidate, Taken, Placed
<1>11. Fresh'
  BY <1>1, <1>2, <1>3, <1>4, <1>5, <1>6, <1>7 DEF Known, Fresh, Doing, Written, Own, Taken, Placed,
    Ending, Left
<1>12. Announced'
  BY <1>1, <1>2, <1>3, <1>4, <1>5, <1>6, <1>7 DEF Known, Announced, Written, Taken, Placed, Ending
<1>13. Durable'
  BY <1>1, <1>2, <1>3, <1>4, <1>5, <1>6, <1>7 DEF Known, Durable, Named, Names, Left
<1>14. NoTrace'
  BY <1>1, <1>2, <1>3, <1>4, <1>5, <1>6, <1>7 DEF Known, NoTrace, Written, Left
<1> QED BY <1>8, <1>9, <1>10, <1>11, <1>12, <1>13, <1>14, QueueTypesNext DEF QueueInv

\* The marker announces the change.
LEMMA AnnouncesKeeps == ASSUME Known, Announces PROVE QueueInv'
<1>1. QueueInv /\ Typed /\ TypeOK /\ Holding /\ Candidate /\ Fresh /\ Announced /\ Durable
      /\ NoTrace
  BY DEF Known, QueueInv
<1>2. UNCHANGED <<file, fileDisk, markerDisk, latch, pending, status, elapsed, busy, serving,
                  effects, work, unfinished, crashes>>
  BY DEF Announces, disk, memory, env
<1>3. pc = "compared" /\ Own
  BY <1>1 DEF Announces, Holding, Taken, Placed
<1>4. pending # <<>> /\ Head(pending) = work.job /\ work \in Markers /\ work.job \in Jobs
      /\ work.job \in In(pending)
  BY <1>3, OwnHead
<1>5. marker' = work /\ pc' = "announced" /\ marker = None /\ latch = None
  BY <1>1, <1>3 DEF Announces, Holding
<1>6. Typed'
  BY <1>1, <1>2, <1>3, <1>4, <1>5 DEF Known, Typed, Marks, Steps
<1>7. Holding'
  BY <1>1, <1>2, <1>3, <1>4, <1>5 DEF Known, Holding, Own, Taken, Placed, Ending
<1>8. Candidate'
  BY <1>1, <1>2, <1>3, <1>4, <1>5 DEF Known, Candidate, Taken, Placed
<1>9. Fresh'
  BY <1>1, <1>2, <1>3, <1>4, <1>5 DEF Known, Fresh, Doing, Written, Own, Taken, Placed, Ending
<1>10. Announced'
  BY <1>1, <1>2, <1>3, <1>4, <1>5 DEF Known, Announced, Written, Taken, Placed, Ending
<1>11. Durable'
  BY <1>1, <1>2, <1>3, <1>4, <1>5 DEF Known, Durable, Named, Names
<1>12. NoTrace'
  BY <1>1, <1>2, <1>3, <1>4, <1>5 DEF Known, NoTrace, Written
<1> QED BY <1>6, <1>7, <1>8, <1>9, <1>10, <1>11, <1>12, QueueTypesNext DEF QueueInv

\* The marker is made durable.
LEMMA SyncsMarkerKeeps == ASSUME Known, SyncsMarker PROVE QueueInv'
<1>1. QueueInv /\ Typed /\ TypeOK /\ Holding /\ Candidate /\ Fresh /\ Announced /\ Durable
      /\ NoTrace
  BY DEF Known, QueueInv
<1>2. UNCHANGED <<file, marker, latch, pending, status, elapsed, busy, serving, effects, work,
                  unfinished, crashes>>
  BY DEF SyncsMarker, disk, memory, env
<1>3. pc = "announced" /\ Own
  BY <1>1 DEF SyncsMarker, Holding, Taken, Placed
<1>4. pending # <<>> /\ Head(pending) = work.job /\ work \in Markers /\ work.job \in Jobs
      /\ work.job \in In(pending)
  BY <1>3, OwnHead
<1>5. markerDisk' = marker /\ fileDisk' = file /\ pc' = "marked" /\ marker = work /\ latch = None
  BY <1>1, <1>3 DEF SyncsMarker, Holding
<1>6. Typed'
  BY <1>1, <1>2, <1>3, <1>4, <1>5 DEF Known, Typed, Marks, Steps
<1>7. Holding'
  BY <1>1, <1>2, <1>3, <1>4, <1>5 DEF Known, Holding, Own, Taken, Placed, Ending
<1>8. Candidate'
  BY <1>1, <1>2, <1>3, <1>4, <1>5 DEF Known, Candidate, Taken, Placed
<1>9. Fresh'
  BY <1>1, <1>2, <1>3, <1>4, <1>5 DEF Known, Fresh, Doing, Written, Own, Taken, Placed, Ending
<1>10. Announced'
  BY <1>1, <1>2, <1>3, <1>4, <1>5 DEF Known, Announced, Written, Taken, Placed, Ending
<1>11. Durable'
  BY <1>1, <1>2, <1>3, <1>4, <1>5 DEF Known, Durable, Named, Names
<1>12. NoTrace'
  BY <1>1, <1>2, <1>3, <1>4, <1>5 DEF Known, NoTrace, Written
<1> QED BY <1>6, <1>7, <1>8, <1>9, <1>10, <1>11, <1>12, QueueTypesNext DEF QueueInv

\* The marker is taken back at the last look.
LEMMA WithdrawsKeeps == ASSUME Known, Withdraws PROVE QueueInv'
<1>1. QueueInv /\ Typed /\ TypeOK /\ Holding /\ Candidate /\ Fresh /\ Announced /\ Durable
      /\ NoTrace
  BY DEF Known, QueueInv
<1>2. UNCHANGED <<file, fileDisk, latch, elapsed, busy, serving, effects, unfinished, crashes>>
  BY DEF Withdraws, disk, memory, env
<1>3. pc = "marked" /\ Own
  BY <1>1 DEF Withdraws, Holding, Taken, Placed
<1>4. pending # <<>> /\ Head(pending) = work.job /\ work \in Markers /\ work.job \in Jobs
      /\ work.job \in In(pending)
  BY <1>3, OwnHead
<1>5. \A j \in Jobs : j \in In(pending) => j \notin Written /\ j \notin effects
  BY <1>1, <1>3 DEF Fresh, Doing, Placed, Ending
<1>6. pc' = "idle" /\ work' = Idle /\ marker = work /\ latch = None /\ marker' = None
      /\ markerDisk' \in {marker, None}
  BY <1>1, <1>3 DEF Withdraws, Returns, Holding
<1>7. \/ UNCHANGED <<pending, status>>
      \/ Left(work.job, "timed_out")
  BY <1>1, <1>3, <1>4, HeadLeft DEF Withdraws, Statuses
<1>8. pending' \in Queues /\ status' \in [Jobs -> Statuses]
  BY <1>1, <1>2, <1>7 DEF Typed, Left
<1>9. Typed'
  BY <1>1, <1>2, <1>3, <1>4, <1>5, <1>6, <1>7, <1>8 DEF Known, Typed, Marks, Steps, Left
<1>10. Holding'
  BY <1>1, <1>2, <1>3, <1>4, <1>5, <1>6, <1>7, <1>8 DEF Known, Holding, Own, Taken, Placed, Ending,
    Left
<1>11. Candidate'
  BY <1>1, <1>2, <1>3, <1>4, <1>5, <1>6, <1>7, <1>8 DEF Known, Candidate, Taken, Placed
<1>12. Fresh'
  BY <1>1, <1>2, <1>3, <1>4, <1>5, <1>6, <1>7, <1>8 DEF Known, Fresh, Doing, Written, Own, Taken,
    Placed, Ending, Left
<1>13. Announced'
  BY <1>1, <1>2, <1>3, <1>4, <1>5, <1>6, <1>7, <1>8 DEF Known, Announced, Written, Taken, Placed,
    Ending
<1>14. Durable'
  BY <1>1, <1>2, <1>3, <1>4, <1>5, <1>6, <1>7, <1>8 DEF Known, Durable, Named, Names, Left
<1>15. NoTrace'
  BY <1>1, <1>2, <1>3, <1>4, <1>5, <1>6, <1>7, <1>8 DEF Known, NoTrace, Written, Left
<1> QED BY <1>9, <1>10, <1>11, <1>12, <1>13, <1>14, <1>15, QueueTypesNext DEF QueueInv

\* Services are touched first, behind the latch.
LEMMA PreparesKeeps == ASSUME Known, Prepares PROVE QueueInv'
<1>1. QueueInv /\ Typed /\ TypeOK /\ Holding /\ Candidate /\ Fresh /\ Announced /\ Durable
      /\ NoTrace
  BY DEF Known, QueueInv
<1>2. UNCHANGED <<file, fileDisk, marker, markerDisk, pending, status, elapsed, busy, serving,
                  work, unfinished, crashes>>
  BY DEF Prepares, disk, memory, env
<1>3. pc = "marked" /\ Own
  BY <1>1 DEF Prepares, Holding, Taken, Placed
<1>4. pending # <<>> /\ Head(pending) = work.job /\ work \in Markers /\ work.job \in Jobs
      /\ work.job \in In(pending)
  BY <1>3, OwnHead
<1>5. \A j \in Jobs : j \in In(pending) => j \notin Written /\ j \notin effects
  BY <1>1, <1>3 DEF Fresh, Doing, Placed, Ending
<1>6. /\ latch' = work /\ effects' = effects \cup {work.job} /\ pc' = "prepared"
         /\ work.job \in Maintenance
      /\ marker = work /\ markerDisk = work
  BY <1>1, <1>3 DEF Prepares, Holding
<1>7. Typed'
  BY <1>1, <1>2, <1>3, <1>4, <1>5, <1>6 DEF Known, Typed, Marks, Steps
<1>8. Holding'
  BY <1>1, <1>2, <1>3, <1>4, <1>5, <1>6 DEF Known, Holding, Own, Taken, Placed, Ending
<1>9. Candidate'
  BY <1>1, <1>2, <1>3, <1>4, <1>5, <1>6 DEF Known, Candidate, Taken, Placed
<1>10. Fresh'
  BY <1>1, <1>2, <1>3, <1>4, <1>5, <1>6 DEF Known, Fresh, Doing, Written, Own, Taken, Placed, Ending
<1>11. Announced'
  BY <1>1, <1>2, <1>3, <1>4, <1>5, <1>6 DEF Known, Announced, Written, Taken, Placed, Ending
<1>12. Durable'
  BY <1>1, <1>2, <1>3, <1>4, <1>5, <1>6 DEF Known, Durable, Named, Names
<1>13. NoTrace'
  BY <1>1, <1>2, <1>3, <1>4, <1>5, <1>6 DEF Known, NoTrace, Written
<1> QED BY <1>7, <1>8, <1>9, <1>10, <1>11, <1>12, <1>13, QueueTypesNext DEF QueueInv

\* The candidate is put in place.
LEMMA ReplacesKeeps == ASSUME Known, Replaces PROVE QueueInv'
<1>1. QueueInv /\ Typed /\ TypeOK /\ Holding /\ Candidate /\ Fresh /\ Announced /\ Durable
      /\ NoTrace
  BY DEF Known, QueueInv
<1>2. UNCHANGED <<fileDisk, marker, markerDisk, latch, pending, status, elapsed, busy, serving,
                  effects, work, crashes>>
  BY DEF Replaces, disk, memory, env, ReadyToReplace
<1>3. pc \in {"marked", "prepared"} /\ pc # "idle" /\ Own
  BY <1>1 DEF Replaces, ReadyToReplace, Holding, Taken, Placed
<1>4. pending # <<>> /\ Head(pending) = work.job /\ work \in Markers /\ work.job \in Jobs
      /\ work.job \in In(pending)
  BY <1>3, OwnHead
<1>5. /\ file' = work.candidate /\ unfinished' = unfinished \cup {work.job} /\ pc' = "replaced"
      /\ marker = work /\ markerDisk = work /\ work.candidate \in Files
  BY <1>1, <1>3, <1>4 DEF Replaces, Holding, Placed, Known
<1>6. /\ In(file') = In(work.base) \cup {work.job} /\ In(work.base) \subseteq In(file)
      /\ status[work.job] \in {"queued", "failed"}
      /\ \A j \in Jobs : ~(j \in unfinished /\ j \in Written)
  BY <1>1, <1>3, <1>4, <1>5 DEF Candidate, Taken, Fresh, Announced
<1>7. Typed'
  BY <1>1, <1>2, <1>3, <1>4, <1>5, <1>6 DEF Known, Typed, Marks, Steps
<1>8. Holding'
  BY <1>1, <1>2, <1>3, <1>4, <1>5, <1>6 DEF Known, Holding, Own, Taken, Placed, Ending
<1>9. Candidate'
  BY <1>1, <1>2, <1>3, <1>4, <1>5, <1>6 DEF Known, Candidate, Taken, Placed
<1>10. Fresh'
  BY <1>1, <1>2, <1>3, <1>4, <1>5, <1>6 DEF Known, Fresh, Doing, Written, Own, Taken, Placed, Ending
<1>11. Announced'
  BY <1>1, <1>2, <1>3, <1>4, <1>5, <1>6 DEF Known, Announced, Written, Taken, Placed, Ending
<1>12. Durable'
  BY <1>1, <1>2, <1>3, <1>4, <1>5, <1>6 DEF Known, Durable, Named, Names
<1>13. NoTrace'
  BY <1>1, <1>2, <1>3, <1>4, <1>5, <1>6 DEF Known, NoTrace, Written
<1> QED BY <1>7, <1>8, <1>9, <1>10, <1>11, <1>12, <1>13, QueueTypesNext DEF QueueInv

\* The file is made durable.
LEMMA SyncsFileKeeps == ASSUME Known, SyncsFile PROVE QueueInv'
<1>1. QueueInv /\ Typed /\ TypeOK /\ Holding /\ Candidate /\ Fresh /\ Announced /\ Durable
      /\ NoTrace
  BY DEF Known, QueueInv
<1>2. UNCHANGED <<file, marker, latch, pending, status, elapsed, busy, serving, effects, work,
                  unfinished, crashes>>
  BY DEF SyncsFile, disk, memory, env
<1>3. pc = "replaced" /\ Own
  BY <1>1 DEF SyncsFile, Holding, Taken, Placed
<1>4. pending # <<>> /\ Head(pending) = work.job /\ work \in Markers /\ work.job \in Jobs
      /\ work.job \in In(pending)
  BY <1>3, OwnHead
<1>5. markerDisk' = marker /\ fileDisk' = file /\ pc' = "synced" /\ marker = work
  BY <1>1, <1>3 DEF SyncsFile, Holding, Placed
<1>6. Typed'
  BY <1>1, <1>2, <1>3, <1>4, <1>5 DEF Known, Typed, Marks, Steps
<1>7. Holding'
  BY <1>1, <1>2, <1>3, <1>4, <1>5 DEF Known, Holding, Own, Taken, Placed, Ending
<1>8. Candidate'
  BY <1>1, <1>2, <1>3, <1>4, <1>5 DEF Known, Candidate, Taken, Placed
<1>9. Fresh'
  BY <1>1, <1>2, <1>3, <1>4, <1>5 DEF Known, Fresh, Doing, Written, Own, Taken, Placed, Ending
<1>10. Announced'
  BY <1>1, <1>2, <1>3, <1>4, <1>5 DEF Known, Announced, Written, Taken, Placed, Ending
<1>11. Durable'
  BY <1>1, <1>2, <1>3, <1>4, <1>5 DEF Known, Durable, Named, Names
<1>12. NoTrace'
  BY <1>1, <1>2, <1>3, <1>4, <1>5 DEF Known, NoTrace, Written
<1> QED BY <1>6, <1>7, <1>8, <1>9, <1>10, <1>11, <1>12, QueueTypesNext DEF QueueInv

\* llama-swap runs with the candidate.
LEMMA NotifiesKeeps == ASSUME Known, Notifies PROVE QueueInv'
<1>1. QueueInv /\ Typed /\ TypeOK /\ Holding /\ Candidate /\ Fresh /\ Announced /\ Durable
      /\ NoTrace
  BY DEF Known, QueueInv
<1>2. UNCHANGED <<file, fileDisk, marker, markerDisk, latch, pending, status, elapsed, busy,
                  serving, effects, work, unfinished, crashes>>
  BY DEF Notifies, disk, memory, env
<1>3. pc = "synced" /\ Own
  BY <1>1 DEF Notifies, Holding, Taken, Placed
<1>4. pending # <<>> /\ Head(pending) = work.job /\ work \in Markers /\ work.job \in Jobs
      /\ work.job \in In(pending)
  BY <1>3, OwnHead
<1>5. pc' = "adopted" /\ In(file) \cap Jobs \subseteq In(serving) /\ marker = work
      /\ markerDisk = work
  BY <1>1, <1>3 DEF Notifies, Candidate, Holding, Placed
<1>6. Typed'
  BY <1>1, <1>2, <1>3, <1>4, <1>5 DEF Known, Typed, Marks, Steps
<1>7. Holding'
  BY <1>1, <1>2, <1>3, <1>4, <1>5 DEF Known, Holding, Own, Taken, Placed, Ending
<1>8. Candidate'
  BY <1>1, <1>2, <1>3, <1>4, <1>5 DEF Known, Candidate, Taken, Placed
<1>9. Fresh'
  BY <1>1, <1>2, <1>3, <1>4, <1>5 DEF Known, Fresh, Doing, Written, Own, Taken, Placed, Ending
<1>10. Announced'
  BY <1>1, <1>2, <1>3, <1>4, <1>5 DEF Known, Announced, Written, Taken, Placed, Ending
<1>11. Durable'
  BY <1>1, <1>2, <1>3, <1>4, <1>5 DEF Known, Durable, Named, Names
<1>12. NoTrace'
  BY <1>1, <1>2, <1>3, <1>4, <1>5 DEF Known, NoTrace, Written
<1> QED BY <1>6, <1>7, <1>8, <1>9, <1>10, <1>11, <1>12, QueueTypesNext DEF QueueInv

\* The change is complete.
LEMMA CompletesKeeps == ASSUME Known, Completes PROVE QueueInv'
<1>1. QueueInv /\ Typed /\ TypeOK /\ Holding /\ Candidate /\ Fresh /\ Announced /\ Durable
      /\ NoTrace
  BY DEF Known, QueueInv
<1>2. UNCHANGED <<file, fileDisk, marker, markerDisk, latch, pending, status, elapsed, busy,
                  serving, effects, work, crashes>>
  BY DEF Completes, disk, memory, env
<1>3. pc = "adopted" /\ Own
  BY <1>1 DEF Completes, Holding, Taken, Placed
<1>4. pending # <<>> /\ Head(pending) = work.job /\ work \in Markers /\ work.job \in Jobs
      /\ work.job \in In(pending)
  BY <1>3, OwnHead
<1>5. unfinished' = unfinished \ {work.job} /\ pc' = "retire" /\ marker = work
      /\ In(file) \cap Jobs \subseteq In(serving)
  BY <1>1, <1>3 DEF Completes, Holding, Placed, Candidate
<1>6. \A j \in Jobs : ~(j \in unfinished' /\ j \in Written)
  BY <1>1, <1>5 DEF Announced
<1>7. Typed'
  BY <1>1, <1>2, <1>3, <1>4, <1>5, <1>6 DEF Known, Typed, Marks, Steps
<1>8. Holding'
  BY <1>1, <1>2, <1>3, <1>4, <1>5, <1>6 DEF Known, Holding, Own, Taken, Placed, Ending
<1>9. Candidate'
  BY <1>1, <1>2, <1>3, <1>4, <1>5, <1>6 DEF Known, Candidate, Taken, Placed
<1>10. Fresh'
  BY <1>1, <1>2, <1>3, <1>4, <1>5, <1>6 DEF Known, Fresh, Doing, Written, Own, Taken, Placed, Ending
<1>11. Announced'
  BY <1>1, <1>2, <1>3, <1>4, <1>5, <1>6 DEF Known, Announced, Written, Taken, Placed, Ending
<1>12. Durable'
  BY <1>1, <1>2, <1>3, <1>4, <1>5, <1>6 DEF Known, Durable, Named, Names
<1>13. NoTrace'
  BY <1>1, <1>2, <1>3, <1>4, <1>5, <1>6 DEF Known, NoTrace, Written
<1> QED BY <1>7, <1>8, <1>9, <1>10, <1>11, <1>12, <1>13, QueueTypesNext DEF QueueInv

\* The marker is removed, behind the latch.
LEMMA UnlinksKeeps == ASSUME Known, Unlinks PROVE QueueInv'
<1>1. QueueInv /\ Typed /\ TypeOK /\ Holding /\ Candidate /\ Fresh /\ Announced /\ Durable
      /\ NoTrace
  BY DEF Known, QueueInv
<1>2. UNCHANGED <<file, fileDisk, markerDisk, pending, status, elapsed, busy, serving, effects,
                  work, unfinished, crashes>>
  BY DEF Unlinks, disk, memory, env
<1>3. pc = "retire" /\ latch' = work /\ marker' = None /\ pc' = "unlinked" /\ marker = work
  BY DEF Unlinks
<1>4. (\A j \in Jobs : ~(j \in unfinished /\ j \in Written))
  BY <1>1, <1>3 DEF Announced, Ending
<1>5. work \in Markers
  BY <1>1, <1>3 DEF Holding, Typed
<1>6. Typed'
  BY <1>1, <1>2, <1>3, <1>4, <1>5 DEF Known, Typed, Marks, Steps
<1>7. Holding'
  BY <1>1, <1>2, <1>3, <1>4, <1>5 DEF Known, Holding, Own, Taken, Placed, Ending
<1>8. Candidate'
  BY <1>1, <1>2, <1>3, <1>4, <1>5 DEF Known, Candidate, Taken, Placed
<1>9. Fresh'
  BY <1>1, <1>2, <1>3, <1>4, <1>5 DEF Known, Fresh, Doing, Written, Own, Taken, Placed, Ending
<1>10. Announced'
  BY <1>1, <1>2, <1>3, <1>4, <1>5 DEF Known, Announced, Written, Taken, Placed, Ending
<1>11. Durable'
  BY <1>1, <1>2, <1>3, <1>4, <1>5 DEF Known, Durable, Named, Names
<1>12. NoTrace'
  BY <1>1, <1>2, <1>3, <1>4, <1>5 DEF Known, NoTrace, Written
<1> QED BY <1>6, <1>7, <1>8, <1>9, <1>10, <1>11, <1>12, QueueTypesNext DEF QueueInv

\* The removal is made durable, and the latch goes.
LEMMA RetiresKeeps == ASSUME Known, Retires PROVE QueueInv'
<1>1. QueueInv /\ Typed /\ TypeOK /\ Holding /\ Candidate /\ Fresh /\ Announced /\ Durable
      /\ NoTrace
  BY DEF Known, QueueInv
<1>2. UNCHANGED <<file, marker, elapsed, busy, serving, effects, unfinished, crashes>>
  BY DEF Retires, disk, memory, env
<1>3. pc = "unlinked" /\ pc # "idle" /\ markerDisk' = marker /\ fileDisk' = file
      /\ latch' = None /\ pc' = "idle" /\ work' = Idle
  BY DEF Retires, Returns
<1>4. (\A j \in Jobs : ~(j \in unfinished /\ j \in Written)) /\ marker = None /\ work \in Markers
  BY <1>1, <1>3 DEF Announced, Ending, Holding, Typed
<1>5. \/ ~Own /\ UNCHANGED <<pending, status>>
      \/ /\ Own /\ work.job \in Jobs /\ work.job \in In(pending)
         /\ Left(work.job, "applied")
  BY <1>1, <1>3, OwnHead, HeadLeft DEF Retires, Statuses
<1>6. Typed'
  BY <1>1, <1>2, <1>3, <1>4, <1>5 DEF Known, Typed, Marks, Steps, Left
<1>7. Holding'
  BY <1>1, <1>2, <1>3, <1>4, <1>5 DEF Known, Holding, Own, Taken, Placed, Ending, Left
<1>8. Candidate'
  BY <1>1, <1>2, <1>3, <1>4, <1>5 DEF Known, Candidate, Taken, Placed
<1>9. Fresh'
  BY <1>1, <1>2, <1>3, <1>4, <1>5 DEF Known, Fresh, Doing, Written, Own, Taken, Placed, Ending, Left
<1>10. Announced'
  BY <1>1, <1>2, <1>3, <1>4, <1>5 DEF Known, Announced, Written, Taken, Placed, Ending
<1>11. Durable'
  BY <1>1, <1>2, <1>3, <1>4, <1>5 DEF Known, Durable, Named, Names, Left
<1>12. NoTrace'
  BY <1>1, <1>2, <1>3, <1>4, <1>5 DEF Known, NoTrace, Written, Left
<1> QED BY <1>6, <1>7, <1>8, <1>9, <1>10, <1>11, <1>12, QueueTypesNext DEF QueueInv

\* The removal failed: the latch stays.
LEMMA RepairsKeeps == ASSUME Known, Repairs PROVE QueueInv'
<1>1. QueueInv /\ Typed /\ TypeOK /\ Holding /\ Candidate /\ Fresh /\ Announced /\ Durable
      /\ NoTrace
  BY DEF Known, QueueInv
<1>2. UNCHANGED <<file, fileDisk, elapsed, busy, serving, effects, unfinished, crashes>>
  BY DEF Repairs, disk, memory, env
<1>3. pc \in Ending /\ pc # "idle" /\ latch' = work /\ pc' = "idle" /\ work' = Idle
  BY DEF Repairs, Returns, Ending
<1>4. (\A j \in Jobs : ~(j \in unfinished /\ j \in Written)) /\ work \in Markers
  BY <1>1, <1>3 DEF Announced, Ending, Holding, Typed
<1>5. marker' \in {work, marker} /\ markerDisk' \in {work, None, markerDisk}
  BY DEF Repairs
<1>6. \/ ~Own /\ UNCHANGED <<pending, status>>
      \/ /\ Own /\ work.job \in Jobs /\ work.job \in In(pending)
         /\ Left(work.job, "reconciliation_required")
  BY <1>1, <1>3, OwnHead, HeadLeft DEF Repairs, Statuses
<1>7. pending' \in Queues /\ status' \in [Jobs -> Statuses]
  BY <1>1, <1>2, <1>6 DEF Typed, Left
<1>8. marker' \in Marks /\ markerDisk' \in Marks /\ latch' \in Marks
  BY <1>1, <1>3, <1>4, <1>5 DEF Typed, Marks
<1>9. Typed'
  <2>1. pc' \in Steps /\ work' \in Markers \cup {Idle}
    BY <1>3 DEF Steps
  <2> QED BY <1>1, <1>2, <1>7, <1>8, <2>1 DEF Typed
<1>10. Holding'
  BY <1>1, <1>2, <1>3, <1>4, <1>5, <1>6, <1>7, <1>8 DEF Known, Holding, Own, Taken, Placed, Ending,
    Left
<1>11. Candidate'
  BY <1>1, <1>2, <1>3, <1>4, <1>5, <1>6, <1>7, <1>8 DEF Known, Candidate, Taken, Placed
<1>12. Fresh'
  BY <1>1, <1>2, <1>3, <1>4, <1>5, <1>6, <1>7, <1>8 DEF Known, Fresh, Doing, Written, Own, Taken,
    Placed, Ending, Left
<1>13. Announced'
  BY <1>1, <1>2, <1>3, <1>4, <1>5, <1>6, <1>7, <1>8 DEF Known, Announced, Written, Taken, Placed,
    Ending
<1>14. Durable'
  BY <1>1, <1>2, <1>3, <1>4, <1>5, <1>6, <1>7, <1>8 DEF Known, Durable, Named, Names, Left
<1>15. NoTrace'
  BY <1>1, <1>2, <1>3, <1>4, <1>5, <1>6, <1>7, <1>8 DEF Known, NoTrace, Written, Left
<1> QED BY <1>9, <1>10, <1>11, <1>12, <1>13, <1>14, <1>15, QueueTypesNext DEF QueueInv

\* A step failed: the marker goes if nothing was done.
LEMMA FailsKeeps == ASSUME Known, Fails PROVE QueueInv'
<1>1. QueueInv /\ Typed /\ TypeOK /\ Holding /\ Candidate /\ Fresh /\ Announced /\ Durable
      /\ NoTrace
  BY DEF Known, QueueInv
<1>2. UNCHANGED <<file, fileDisk, latch, elapsed, busy, serving, effects, unfinished, crashes>>
  BY DEF Fails, disk, memory, env
<1>3. pc \in Taken \cup Placed /\ pc # "idle" /\ Own /\ pc' = "idle" /\ work' = Idle
  BY <1>1 DEF Fails, Returns, Holding, Taken, Placed
<1>4. pending # <<>> /\ Head(pending) = work.job /\ work \in Markers /\ work.job \in Jobs
      /\ work.job \in In(pending)
  BY <1>3, OwnHead
<1>5. pending' \in Queues /\ In(pending') = In(pending) \ {work.job}
      /\ status' \in [Jobs -> Statuses]
      /\ (\A k \in Jobs \ {work.job} : status'[k] = status[k])
      /\ status'[work.job] \in {"failed", "reconciliation_required"}
         /\ (status'[work.job] = "failed" => Untouched)
  BY <1>1, <1>3, <1>4, HeadLeft DEF Fails, Statuses, Left
<1>6. \/ UNCHANGED <<marker, markerDisk>>
      \/ Untouched /\ marker' = None /\ markerDisk' \in {markerDisk, None}
  BY DEF Fails
<1>7. Untouched => work.job \notin Written /\ work.job \notin effects
      /\ (\A j \in Jobs : ~(j \in unfinished /\ j \in Written))
  <2> SUFFICES ASSUME Untouched PROVE work.job \notin Written
      /\ (\A j \in Jobs : ~(j \in unfinished /\ j \in Written))
    BY DEF Untouched
  <2>1. pc \in Taken /\ work.job \notin effects
    BY <1>3 DEF Untouched, Committed, Placed
  <2>2. pc # "prepared"
    BY <1>1, <2>1 DEF Holding
  <2>3. ~Doing(work.job)
    BY <2>1, <2>2 DEF Doing, Taken, Placed, Ending
  <2>4. work.job \notin Written
    BY <1>1, <1>4, <2>3 DEF Fresh
  <2> QED BY <1>1, <2>1, <2>4 DEF Announced
<1>8. Typed'
  BY <1>1, <1>2, <1>3, <1>4, <1>5, <1>6, <1>7 DEF Known, Typed, Marks, Steps
<1>9. Holding'
  BY <1>1, <1>2, <1>3, <1>4, <1>5, <1>6, <1>7 DEF Known, Holding, Own, Taken, Placed, Ending
<1>10. Candidate'
  BY <1>1, <1>2, <1>3, <1>4, <1>5, <1>6, <1>7 DEF Known, Candidate, Taken, Placed
<1>11. Fresh'
  <2> SUFFICES ASSUME NEW j \in Jobs PROVE
         /\ status'[j] = "none" => j \notin In(pending)' /\ j \notin Written' /\ j \notin effects'
         /\ j \in In(pending)' => status'[j] \in {"queued", "failed"}
            /\ ~(j \in Written' \/ j \in effects')
    BY DEF Fresh
  <2>1. Written' = Written /\ effects' = effects
    BY <1>2 DEF Written
  <2>2. CASE j = work.job
    BY <1>5, <2>1, <2>2
  <2>3. CASE j # work.job
    <3>1. status'[j] = status[j] /\ (j \in In(pending)' => j \in In(pending)) /\ ~Doing(j)
      BY <1>5, <2>3 DEF Doing
    <3> QED BY <1>1, <2>1, <3>1 DEF Fresh
  <2> QED BY <2>2, <2>3
<1>12. Announced'
  BY <1>1, <1>2, <1>3, <1>4, <1>5, <1>6, <1>7 DEF Known, Announced, Written, Taken, Placed, Ending
<1>13. Durable'
  <2> SUFFICES ASSUME NEW j \in Jobs, status'[j] = "applied"
                PROVE  ~Named(j)' /\ (j \in In(file)' => j \in In(fileDisk)')
    BY DEF Durable
  <2>1. status[j] = "applied"
    BY <1>5
  <2>2. ~Named(j) /\ (j \in In(file) => j \in In(fileDisk))
    BY <1>1, <2>1 DEF Durable
  <2>3. ~Names(None, j) /\ ~Names(Idle, j)
    BY DEF Names, Known
  <2> QED BY <1>2, <1>3, <1>6, <2>2, <2>3 DEF Named, Names
<1>14. NoTrace'
  <2>1. Written' = Written /\ effects' = effects
    BY <1>2 DEF Written
  <2>2. ASSUME NEW j \in Jobs, j \notin In(pending'), status'[j] \in {"failed", "timed_out"}
        PROVE  j \notin Written' \cup effects'
    <3>1. CASE j = work.job
      BY <1>5, <1>7, <2>1, <2>2, <3>1
    <3>2. CASE j # work.job
      <4>1. status'[j] = status[j] /\ j \notin In(pending)
        BY <1>5, <2>2, <3>2
      <4> QED BY <1>1, <2>1, <2>2, <4>1 DEF NoTrace, Written
    <3> QED BY <3>1, <3>2
  <2> QED BY <2>2 DEF NoTrace, Written
<1> QED BY <1>8, <1>9, <1>10, <1>11, <1>12, <1>13, <1>14, QueueTypesNext DEF QueueInv

\* The removal of the marker failed as well.
LEMMA FailsTwiceKeeps == ASSUME Known, FailsTwice PROVE QueueInv'
<1>1. QueueInv /\ Typed /\ TypeOK /\ Holding /\ Candidate /\ Fresh /\ Announced /\ Durable
      /\ NoTrace
  BY DEF Known, QueueInv
<1>2. UNCHANGED <<file, fileDisk, latch, pending, elapsed, busy, serving, effects, unfinished,
                  crashes>>
  BY DEF FailsTwice, disk, memory, env
<1>3. pc \in {"announced", "marked"} /\ pc # "idle" /\ Own /\ pc' = "idle" /\ work' = Idle
  BY <1>1 DEF FailsTwice, Returns, Holding, Taken, Placed
<1>4. pending # <<>> /\ Head(pending) = work.job /\ work \in Markers /\ work.job \in Jobs
      /\ work.job \in In(pending)
  BY <1>3, OwnHead
<1>5. status' \in [Jobs -> Statuses] /\ status'[work.job] = "failed"
      /\ \A k \in Jobs \ {work.job} : status'[k] = status[k]
  BY <1>1, <1>4 DEF FailsTwice, Statuses, Typed
<1>6. marker' = None /\ markerDisk' \in {markerDisk, None}
  BY DEF FailsTwice
<1>7. (\A j \in Jobs : ~(j \in unfinished /\ j \in Written))
      /\ (\A j \in Jobs : j \in In(pending) => j \notin Written /\ j \notin effects)
  BY <1>1, <1>3 DEF Announced, Fresh, Doing, Taken, Placed, Ending
<1>8. Typed'
  BY <1>1, <1>2, <1>3, <1>4, <1>5, <1>6, <1>7 DEF Known, Typed, Marks, Steps
<1>9. Holding'
  BY <1>1, <1>2, <1>3, <1>4, <1>5, <1>6, <1>7 DEF Known, Holding, Own, Taken, Placed, Ending
<1>10. Candidate'
  BY <1>1, <1>2, <1>3, <1>4, <1>5, <1>6, <1>7 DEF Known, Candidate, Taken, Placed
<1>11. Fresh'
  BY <1>1, <1>2, <1>3, <1>4, <1>5, <1>6, <1>7 DEF Known, Fresh, Doing, Written, Own, Taken, Placed,
    Ending
<1>12. Announced'
  BY <1>1, <1>2, <1>3, <1>4, <1>5, <1>6, <1>7 DEF Known, Announced, Written, Taken, Placed, Ending
<1>13. Durable'
  BY <1>1, <1>2, <1>3, <1>4, <1>5, <1>6, <1>7 DEF Known, Durable, Named, Names
<1>14. NoTrace'
  BY <1>1, <1>2, <1>3, <1>4, <1>5, <1>6, <1>7 DEF Known, NoTrace, Written
<1> QED BY <1>8, <1>9, <1>10, <1>11, <1>12, <1>13, <1>14, QueueTypesNext DEF QueueInv

\* A marker or a receipt is read to be reconciled.
LEMMA ReadsRecoveryKeeps == ASSUME Known, ReadsRecovery PROVE QueueInv'
<1>1. QueueInv /\ Typed /\ TypeOK /\ Holding /\ Candidate /\ Fresh /\ Announced /\ Durable
      /\ NoTrace
  BY DEF Known, QueueInv
<1>2. UNCHANGED <<file, fileDisk, marker, markerDisk, latch, pending, status, elapsed, busy,
                  serving, effects, unfinished, crashes>>
  BY DEF ReadsRecovery, disk, memory, env
<1>3. pc = "idle" /\ pc' \in {"confirming", "absent"} /\ work' \in Markers
      /\ work' \in {marker, latch}
  BY <1>1 DEF ReadsRecovery, Receipts, Typed, Marks
<1>4. \A j \in Jobs : j \in In(pending) => j \notin Written /\ j \notin effects
  BY <1>1, <1>3 DEF Fresh, Doing, Placed, Ending
<1>5. Typed'
  BY <1>1, <1>2, <1>3, <1>4 DEF Known, Typed, Marks, Steps
<1>6. Holding'
  BY <1>1, <1>2, <1>3, <1>4 DEF Known, Holding, Own, Taken, Placed, Ending
<1>7. Candidate'
  BY <1>1, <1>2, <1>3, <1>4 DEF Known, Candidate, Taken, Placed
<1>8. Fresh'
  BY <1>1, <1>2, <1>3, <1>4 DEF Known, Fresh, Doing, Written, Own, Taken, Placed, Ending
<1>9. Announced'
  BY <1>1, <1>2, <1>3, <1>4 DEF Known, Announced, Written, Taken, Placed, Ending
<1>10. Durable'
  BY <1>1, <1>2, <1>3, <1>4 DEF Known, Durable, Named, Names
<1>11. NoTrace'
  BY <1>1, <1>2, <1>3, <1>4 DEF Known, NoTrace, Written
<1> QED BY <1>5, <1>6, <1>7, <1>8, <1>9, <1>10, <1>11, QueueTypesNext DEF QueueInv

\* The change is proved and its marker still there.
LEMMA ReconcilesKeeps == ASSUME Known, Reconciles PROVE QueueInv'
<1>1. QueueInv /\ Typed /\ TypeOK /\ Holding /\ Candidate /\ Fresh /\ Announced /\ Durable
      /\ NoTrace
  BY DEF Known, QueueInv
<1>2. UNCHANGED <<file, fileDisk, marker, markerDisk, latch, pending, status, elapsed, busy,
                  serving, effects, work, crashes>>
  BY DEF Reconciles, disk, memory, env
<1>3. /\ pc = "confirming" /\ marker = work /\ In(file) \subseteq In(serving)
      /\ unfinished' = unfinished \ {work.job} /\ pc' = "retire" /\ work \in Markers
  BY <1>1 DEF Reconciles, Proved, Holding, Typed
<1>4. \A j \in Jobs : ~(j \in unfinished' /\ j \in Written)
  BY <1>1, <1>3 DEF Announced
<1>5. \A j \in Jobs : j \in In(pending) => j \notin Written /\ j \notin effects
  BY <1>1, <1>3 DEF Fresh, Doing, Placed, Ending
<1>6. Typed'
  BY <1>1, <1>2, <1>3, <1>4, <1>5 DEF Known, Typed, Marks, Steps
<1>7. Holding'
  BY <1>1, <1>2, <1>3, <1>4, <1>5 DEF Known, Holding, Own, Taken, Placed, Ending
<1>8. Candidate'
  BY <1>1, <1>2, <1>3, <1>4, <1>5 DEF Known, Candidate, Taken, Placed
<1>9. Fresh'
  BY <1>1, <1>2, <1>3, <1>4, <1>5 DEF Known, Fresh, Doing, Written, Own, Taken, Placed, Ending
<1>10. Announced'
  BY <1>1, <1>2, <1>3, <1>4, <1>5 DEF Known, Announced, Written, Taken, Placed, Ending
<1>11. Durable'
  BY <1>1, <1>2, <1>3, <1>4, <1>5 DEF Known, Durable, Named, Names
<1>12. NoTrace'
  BY <1>1, <1>2, <1>3, <1>4, <1>5 DEF Known, NoTrace, Written
<1> QED BY <1>6, <1>7, <1>8, <1>9, <1>10, <1>11, <1>12, QueueTypesNext DEF QueueInv

\* The absence of the marker is made durable.
LEMMA SyncsAbsenceKeeps == ASSUME Known, SyncsAbsence PROVE QueueInv'
<1>1. QueueInv /\ Typed /\ TypeOK /\ Holding /\ Candidate /\ Fresh /\ Announced /\ Durable
      /\ NoTrace
  BY DEF Known, QueueInv
<1>2. UNCHANGED <<file, marker, latch, pending, status, elapsed, busy, serving, effects, work,
                  unfinished, crashes>>
  BY DEF SyncsAbsence, disk, memory, env
<1>3. pc = "absent" /\ marker = None /\ markerDisk' = marker /\ fileDisk' = file
      /\ pc' = "absence synced"
  BY DEF SyncsAbsence
<1>4. (\A j \in Jobs : ~(j \in unfinished /\ j \in Written)) /\ work \in Markers
  BY <1>1, <1>3 DEF Announced, Holding, Typed
<1>5. \A j \in Jobs : j \in In(pending) => j \notin Written /\ j \notin effects
  BY <1>1, <1>3 DEF Fresh, Doing, Placed, Ending
<1>6. Typed'
  BY <1>1, <1>2, <1>3, <1>4, <1>5 DEF Known, Typed, Marks, Steps
<1>7. Holding'
  BY <1>1, <1>2, <1>3, <1>4, <1>5 DEF Known, Holding, Own, Taken, Placed, Ending
<1>8. Candidate'
  BY <1>1, <1>2, <1>3, <1>4, <1>5 DEF Known, Candidate, Taken, Placed
<1>9. Fresh'
  BY <1>1, <1>2, <1>3, <1>4, <1>5 DEF Known, Fresh, Doing, Written, Own, Taken, Placed, Ending
<1>10. Announced'
  BY <1>1, <1>2, <1>3, <1>4, <1>5 DEF Known, Announced, Written, Taken, Placed, Ending
<1>11. Durable'
  BY <1>1, <1>2, <1>3, <1>4, <1>5 DEF Known, Durable, Named, Names
<1>12. NoTrace'
  BY <1>1, <1>2, <1>3, <1>4, <1>5 DEF Known, NoTrace, Written
<1> QED BY <1>6, <1>7, <1>8, <1>9, <1>10, <1>11, <1>12, QueueTypesNext DEF QueueInv

\* The latch goes when the absence is durable.
LEMMA ClearsLatchKeeps == ASSUME Known, ClearsLatch PROVE QueueInv'
<1>1. QueueInv /\ Typed /\ TypeOK /\ Holding /\ Candidate /\ Fresh /\ Announced /\ Durable
      /\ NoTrace
  BY DEF Known, QueueInv
<1>2. UNCHANGED <<file, fileDisk, marker, markerDisk, pending, status, elapsed, busy, serving,
                  effects, crashes>>
  BY DEF ClearsLatch, disk, memory, env
<1>3. pc = "absence synced" /\ marker = None /\ latch' = None
      /\ unfinished' = unfinished \ {work.job} /\ pc' = "idle" /\ work' = Idle
  BY DEF ClearsLatch, Returns
<1>4. (\A j \in Jobs : ~(j \in unfinished /\ j \in Written))
  BY <1>1, <1>3 DEF Announced
<1>5. (\A j \in Jobs : j \in In(file) => j \in In(serving))
      /\ \A j \in Jobs : j \in In(pending) => j \notin Written /\ j \notin effects
  BY <1>1, <1>3, <1>4 DEF Fresh, Doing, Placed, Ending, Announced, Written
<1>6. Typed'
  BY <1>1, <1>2, <1>3, <1>4, <1>5 DEF Known, Typed, Marks, Steps
<1>7. Holding'
  BY <1>1, <1>2, <1>3, <1>4, <1>5 DEF Known, Holding, Own, Taken, Placed, Ending
<1>8. Candidate'
  BY <1>1, <1>2, <1>3, <1>4, <1>5 DEF Known, Candidate, Taken, Placed
<1>9. Fresh'
  BY <1>1, <1>2, <1>3, <1>4, <1>5 DEF Known, Fresh, Doing, Written, Own, Taken, Placed, Ending
<1>10. Announced'
  BY <1>1, <1>2, <1>3, <1>4, <1>5 DEF Known, Announced, Written, Taken, Placed, Ending
<1>11. Durable'
  BY <1>1, <1>2, <1>3, <1>4, <1>5 DEF Known, Durable, Named, Names
<1>12. NoTrace'
  BY <1>1, <1>2, <1>3, <1>4, <1>5 DEF Known, NoTrace, Written
<1> QED BY <1>6, <1>7, <1>8, <1>9, <1>10, <1>11, <1>12, QueueTypesNext DEF QueueInv

\* The proof is refused.
LEMMA RefusesKeeps == ASSUME Known, Refuses PROVE QueueInv'
<1>1. QueueInv /\ Typed /\ TypeOK /\ Holding /\ Candidate /\ Fresh /\ Announced /\ Durable
      /\ NoTrace
  BY DEF Known, QueueInv
<1>2. UNCHANGED <<file, fileDisk, marker, markerDisk, latch, pending, status, elapsed, busy,
                  serving, effects, unfinished, crashes>>
  BY DEF Refuses, disk, memory, env
<1>3. pc \in {"confirming", "absent", "absence synced"} /\ pc' = "idle" /\ work' = Idle
  BY DEF Refuses, Returns
<1>4. \A j \in Jobs : j \in In(pending) => j \notin Written /\ j \notin effects
  BY <1>1, <1>3 DEF Fresh, Doing, Placed, Ending
<1>5. Typed'
  BY <1>1, <1>2, <1>3, <1>4 DEF Known, Typed, Marks, Steps
<1>6. Holding'
  BY <1>1, <1>2, <1>3, <1>4 DEF Known, Holding, Own, Taken, Placed, Ending
<1>7. Candidate'
  BY <1>1, <1>2, <1>3, <1>4 DEF Known, Candidate, Taken, Placed
<1>8. Fresh'
  BY <1>1, <1>2, <1>3, <1>4 DEF Known, Fresh, Doing, Written, Own, Taken, Placed, Ending
<1>9. Announced'
  BY <1>1, <1>2, <1>3, <1>4 DEF Known, Announced, Written, Taken, Placed, Ending
<1>10. Durable'
  BY <1>1, <1>2, <1>3, <1>4 DEF Known, Durable, Named, Names
<1>11. NoTrace'
  BY <1>1, <1>2, <1>3, <1>4 DEF Known, NoTrace, Written
<1> QED BY <1>5, <1>6, <1>7, <1>8, <1>9, <1>10, <1>11, QueueTypesNext DEF QueueInv

\* llama-swap follows the file.
LEMMA AdoptsKeeps == ASSUME Known, Adopts PROVE QueueInv'
<1>1. QueueInv /\ Typed /\ TypeOK /\ Holding /\ Candidate /\ Fresh /\ Announced /\ Durable
      /\ NoTrace
  BY DEF Known, QueueInv
<1>2. UNCHANGED <<file, fileDisk, marker, markerDisk, latch, pending, status, elapsed, busy,
                  effects, pc, work, unfinished, crashes>>
  BY DEF Adopts, disk, memory, env
<1>3. serving' = file
  BY DEF Adopts
<1>4. Typed'
  BY <1>1, <1>2, <1>3 DEF Known, Typed, Marks, Steps
<1>5. Holding'
  BY <1>1, <1>2, <1>3 DEF Known, Holding, Own, Taken, Placed, Ending
<1>6. Candidate'
  BY <1>1, <1>2, <1>3 DEF Known, Candidate, Taken, Placed
<1>7. Fresh'
  BY <1>1, <1>2, <1>3 DEF Known, Fresh, Doing, Written, Own, Taken, Placed, Ending
<1>8. Announced'
  BY <1>1, <1>2, <1>3 DEF Known, Announced, Written, Taken, Placed, Ending
<1>9. Durable'
  BY <1>1, <1>2, <1>3 DEF Known, Durable, Named, Names
<1>10. NoTrace'
  BY <1>1, <1>2, <1>3 DEF Known, NoTrace, Written
<1> QED BY <1>4, <1>5, <1>6, <1>7, <1>8, <1>9, <1>10, QueueTypesNext DEF QueueInv

\* Requests come and go.
LEMMA TrafficKeeps == ASSUME Known, Traffic PROVE QueueInv'
<1>1. QueueInv /\ Typed /\ TypeOK /\ Holding /\ Candidate /\ Fresh /\ Announced /\ Durable
      /\ NoTrace
  BY DEF Known, QueueInv
<1>2. UNCHANGED <<file, fileDisk, marker, markerDisk, latch, pending, status, elapsed, serving,
                  effects, pc, work, unfinished, crashes>>
  BY DEF Traffic, disk, memory, env
<1>3. busy' = ~busy
  BY DEF Traffic
<1>4. Typed'
  BY <1>1, <1>2, <1>3 DEF Known, Typed, Marks, Steps
<1>5. Holding'
  BY <1>1, <1>2, <1>3 DEF Known, Holding, Own, Taken, Placed, Ending
<1>6. Candidate'
  BY <1>1, <1>2, <1>3 DEF Known, Candidate, Taken, Placed
<1>7. Fresh'
  BY <1>1, <1>2, <1>3 DEF Known, Fresh, Doing, Written, Own, Taken, Placed, Ending
<1>8. Announced'
  BY <1>1, <1>2, <1>3 DEF Known, Announced, Written, Taken, Placed, Ending
<1>9. Durable'
  BY <1>1, <1>2, <1>3 DEF Known, Durable, Named, Names
<1>10. NoTrace'
  BY <1>1, <1>2, <1>3 DEF Known, NoTrace, Written
<1> QED BY <1>4, <1>5, <1>6, <1>7, <1>8, <1>9, <1>10, QueueTypesNext DEF QueueInv

\* Time passes.
LEMMA ElapsesKeeps == ASSUME Known, Elapses PROVE QueueInv'
<1>1. QueueInv /\ Typed /\ TypeOK /\ Holding /\ Candidate /\ Fresh /\ Announced /\ Durable
      /\ NoTrace
  BY DEF Known, QueueInv
<1>2. UNCHANGED <<file, fileDisk, marker, markerDisk, latch, pending, status, busy, serving,
                  effects, pc, work, unfinished, crashes>>
  BY DEF Elapses, disk, memory, env
<1>3. elapsed' \subseteq Jobs
  BY <1>1 DEF Elapses, Typed, Queues
<1>4. Typed'
  BY <1>1, <1>2, <1>3 DEF Known, Typed, Marks, Steps
<1>5. Holding'
  BY <1>1, <1>2, <1>3 DEF Known, Holding, Own, Taken, Placed, Ending
<1>6. Candidate'
  BY <1>1, <1>2, <1>3 DEF Known, Candidate, Taken, Placed
<1>7. Fresh'
  BY <1>1, <1>2, <1>3 DEF Known, Fresh, Doing, Written, Own, Taken, Placed, Ending
<1>8. Announced'
  BY <1>1, <1>2, <1>3 DEF Known, Announced, Written, Taken, Placed, Ending
<1>9. Durable'
  BY <1>1, <1>2, <1>3 DEF Known, Durable, Named, Names
<1>10. NoTrace'
  BY <1>1, <1>2, <1>3 DEF Known, NoTrace, Written
<1> QED BY <1>4, <1>5, <1>6, <1>7, <1>8, <1>9, <1>10, QueueTypesNext DEF QueueInv

\* Another writer appends to the file.
LEMMA EditedKeeps == ASSUME Known, Edited PROVE QueueInv'
<1>1. QueueInv /\ Typed /\ TypeOK /\ Holding /\ Candidate /\ Fresh /\ Announced /\ Durable
      /\ NoTrace
  BY DEF Known, QueueInv
<1>2. UNCHANGED <<marker, markerDisk, latch, pending, status, elapsed, busy, serving, effects, pc,
                  work, unfinished, crashes>>
  BY DEF Edited, disk, memory, env
<1>3. \E x \in Foreign : x \notin In(file) /\ file' = Append(file, x) /\ fileDisk' = file'
  BY DEF Edited
<1>4. file' \in Files /\ In(file) \subseteq In(file')
      /\ (\A j \in Jobs : j \in In(file') => j \in In(file)) /\ fileDisk' = file'
  BY <1>1, <1>3, ContentAppended DEF Typed, Known
<1>5. Typed'
  BY <1>1, <1>2, <1>3, <1>4 DEF Known, Typed, Marks, Steps
<1>6. Holding'
  BY <1>1, <1>2, <1>3, <1>4 DEF Known, Holding, Own, Taken, Placed, Ending
<1>7. Candidate'
  BY <1>1, <1>2, <1>3, <1>4 DEF Known, Candidate, Taken, Placed
<1>8. Fresh'
  BY <1>1, <1>2, <1>3, <1>4 DEF Known, Fresh, Doing, Written, Own, Taken, Placed, Ending
<1>9. Announced'
  BY <1>1, <1>2, <1>3, <1>4 DEF Known, Announced, Written, Taken, Placed, Ending
<1>10. Durable'
  BY <1>1, <1>2, <1>3, <1>4 DEF Known, Durable, Named, Names
<1>11. NoTrace'
  BY <1>1, <1>2, <1>3, <1>4 DEF Known, NoTrace, Written
<1> QED BY <1>5, <1>6, <1>7, <1>8, <1>9, <1>10, <1>11, QueueTypesNext DEF QueueInv

\* The scheduler starts again.
LEMMA RestartsKeeps == ASSUME Known, Restarts PROVE QueueInv'
<1>1. QueueInv /\ Typed /\ TypeOK /\ Holding /\ Candidate /\ Fresh /\ Announced /\ Durable
      /\ NoTrace
  BY DEF Known, QueueInv
<1>2. UNCHANGED <<file, fileDisk, marker, markerDisk, elapsed, busy, serving, effects, unfinished>>
  BY DEF Restarts, disk, memory, env, Forgets
<1>3. /\ latch' = None /\ pending' \in Queues /\ In(pending') = {}
         /\ crashes' \in 0 .. MaxCrashes /\ pc' = "idle" /\ work' = Idle
      /\ status' \in [Jobs -> Statuses]
         /\ \A j \in Jobs : status'[j] = IF status[j] = "none" THEN "none" ELSE "forgotten"
  BY <1>1, EmptyContent DEF Restarts, Forgets, Returns, Typed, Queues, Statuses, Known
<1>4. Typed'
  BY <1>1, <1>2, <1>3 DEF Known, Typed, Marks, Steps
<1>5. Holding'
  BY <1>1, <1>2, <1>3 DEF Known, Holding, Own, Taken, Placed, Ending
<1>6. Candidate'
  BY <1>1, <1>2, <1>3 DEF Known, Candidate, Taken, Placed
<1>7. Fresh'
  BY <1>1, <1>2, <1>3 DEF Known, Fresh, Doing, Written, Own, Taken, Placed, Ending
<1>8. Announced'
  BY <1>1, <1>2, <1>3 DEF Known, Announced, Written, Taken, Placed, Ending
<1>9. Durable'
  BY <1>1, <1>2, <1>3 DEF Known, Durable, Named, Names
<1>10. NoTrace'
  BY <1>1, <1>2, <1>3 DEF Known, NoTrace, Written
<1> QED BY <1>4, <1>5, <1>6, <1>7, <1>8, <1>9, <1>10, QueueTypesNext DEF QueueInv

\* What was not synchronised may be lost.
LEMMA PowerFailsKeeps == ASSUME Known, PowerFails PROVE QueueInv'
<1>1. QueueInv /\ Typed /\ TypeOK /\ Holding /\ Candidate /\ Fresh /\ Announced /\ Durable
      /\ NoTrace
  BY DEF Known, QueueInv
<1>2. UNCHANGED <<elapsed, busy, effects, unfinished>>
  BY DEF PowerFails, disk, memory, env, Forgets
<1>3. /\ latch' = None /\ pending' \in Queues /\ In(pending') = {}
         /\ crashes' \in 0 .. MaxCrashes /\ pc' = "idle" /\ work' = Idle
      /\ status' \in [Jobs -> Statuses]
         /\ \A j \in Jobs : status'[j] = IF status[j] = "none" THEN "none" ELSE "forgotten"
  BY <1>1, EmptyContent DEF PowerFails, Forgets, Returns, Typed, Queues, Statuses, Known
<1>4. /\ file' \in {file, fileDisk} /\ fileDisk' = file' /\ marker' \in {marker, markerDisk}
         /\ markerDisk' = marker'
      /\ serving' = file'
  BY DEF PowerFails
<1>5. Typed'
  BY <1>1, <1>2, <1>3, <1>4 DEF Known, Typed, Marks, Steps
<1>6. Holding'
  BY <1>1, <1>2, <1>3, <1>4 DEF Known, Holding, Own, Taken, Placed, Ending
<1>7. Candidate'
  BY <1>1, <1>2, <1>3, <1>4 DEF Known, Candidate, Taken, Placed
<1>8. Fresh'
  BY <1>1, <1>2, <1>3, <1>4 DEF Known, Fresh, Doing, Written, Own, Taken, Placed, Ending
<1>9. Announced'
  BY <1>1, <1>2, <1>3, <1>4 DEF Known, Announced, Written, Taken, Placed, Ending
<1>10. Durable'
  BY <1>1, <1>2, <1>3, <1>4 DEF Known, Durable, Named, Names
<1>11. NoTrace'
  BY <1>1, <1>2, <1>3, <1>4 DEF Known, NoTrace, Written
<1> QED BY <1>5, <1>6, <1>7, <1>8, <1>9, <1>10, <1>11, QueueTypesNext DEF QueueInv

LEMMA QueueStep == ASSUME ReloadAssumption, QueueInv, [Next]_vars PROVE QueueInv'
<1> Known
  BY QueueKnown
<1>1. CASE UNCHANGED vars
  <2>1. UNCHANGED <<file, fileDisk, marker, markerDisk, latch, pending, status, elapsed, busy,
                    serving, effects, pc, work, unfinished, crashes>>
    BY <1>1 DEF vars, disk, memory, env
  <2>2. QueueInv /\ Typed
    BY DEF Known
  <2>3. TypeOK'
    BY <2>1, <2>2, QueueTypesNext DEF Typed
  <2>4. Holding' /\ Candidate'
    BY <2>1, <2>2 DEF QueueInv, Holding, Candidate, Own
  <2>5. Fresh' /\ Announced'
    BY <2>1, <2>2 DEF QueueInv, Fresh, Announced, Doing, Own, Written
  <2>6. Durable' /\ NoTrace'
    BY <2>1, <2>2 DEF QueueInv, Durable, NoTrace, Named
  <2> QED BY <2>3, <2>4, <2>5, <2>6 DEF QueueInv
<1>2. CASE \E j \in Jobs : Enqueues(j)
  BY <1>2, EnqueuesKeeps
<1>3. CASE Processes
  BY <1>3, TimesOutKeeps, TakesKeeps, ComparesKeeps, AnnouncesKeeps, SyncsMarkerKeeps,
    WithdrawsKeeps, PreparesKeeps, ReplacesKeeps, SyncsFileKeeps, NotifiesKeeps,
    CompletesKeeps, UnlinksKeeps, RetiresKeeps, RepairsKeeps, FailsKeeps, FailsTwiceKeeps DEF Processes
<1>4. CASE Recovers
  BY <1>4, ReadsRecoveryKeeps, ReconcilesKeeps, SyncsAbsenceKeeps, ClearsLatchKeeps,
    RefusesKeeps DEF Recovers
<1>5. CASE Environment
  BY <1>5, AdoptsKeeps, TrafficKeeps, ElapsesKeeps, EditedKeeps, RestartsKeeps,
    PowerFailsKeeps DEF Environment
<1> QED BY <1>1, <1>2, <1>3, <1>4, <1>5 DEF Next

LEMMA QueueInit == ReloadAssumption /\ Init => QueueInv
<1> SUFFICES ASSUME ReloadAssumption, Init PROVE QueueInv
  OBVIOUS
<1>1. Idle \notin Markers /\ Idle.job = None /\ None \notin Markers /\ In(<<>>) = {}
      /\ <<>> \in Queues /\ <<>> \in Files
  BY MarkerTypes, EmptyContent DEF Queues
<1>2. Typed
  <2>1. status \in [Jobs -> Statuses] /\ crashes \in 0 .. MaxCrashes
    BY DEF Init, Statuses, ReloadAssumption
  <2>2. pc \in Steps /\ work \in Markers \cup {Idle} /\ busy \in BOOLEAN
    BY DEF Init, Steps
  <2> QED BY <1>1, <2>1, <2>2 DEF Init, Typed, Marks
<1>3. Holding /\ Candidate /\ Fresh /\ Announced /\ Durable /\ NoTrace
  BY <1>1 DEF Init, Holding, Candidate, Fresh, Announced, Durable, NoTrace, Doing, Written, Named,
    Names, Taken, Placed, Ending
<1> QED BY <1>2, <1>3, QueueTypes DEF QueueInv

LEMMA QueueKeepsFence == ReloadAssumption /\ QueueInv => ChangesFenced
<1> SUFFICES ASSUME Known PROVE UnfinishedFenced /\ AppliedDurable /\ UnfinishedShown
  BY QueueKnown DEF ChangesFenced, QueueInv
<1> USE DEF Known, QueueInv
<1>1. UnfinishedFenced
  BY DEF UnfinishedFenced, Announced, Written, Fenced, Typed
<1>2. AppliedDurable
  BY DEF AppliedDurable, Durable, Named, Names, Typed, Marks
<1>3. UnfinishedShown
  BY DEF UnfinishedShown, Shown, Announced, Written, Typed
<1> QED BY <1>1, <1>2, <1>3

\* A change is put in place only when it is valid, and when llama-swap runs with all
\* that was put in place before.
LEMMA QueueWrites == ASSUME ReloadAssumption, QueueInv, [Next]_vars PROVE WriteStep
<1> SUFFICES ASSUME Known, pc' = "replaced", pc # "replaced"
    PROVE  Valid(file') /\ In(file) \cap Jobs \subseteq In(serving)
  BY QueueKnown DEF WriteStep, ValidWrites, OneAtATime
<1> USE DEF disk, memory, env
<1>1. Replaces
  <2>1. pc' # pc
    OBVIOUS
  <2>2. CASE \E j \in Jobs : Enqueues(j)
    BY <2>1, <2>2 DEF Enqueues
  <2>3. CASE Processes
    BY <2>3 DEF Processes, Takes, TimesOut, Compares, Announces, SyncsMarker, Withdraws, Prepares,
      SyncsFile,
      Notifies, Completes, Unlinks, Retires, Repairs, Fails, FailsTwice, Returns
  <2>4. CASE Recovers
    BY <2>4 DEF Recovers, ReadsRecovery, Reconciles, SyncsAbsence, ClearsLatch, Refuses, Returns
  <2>5. CASE Environment
    BY <2>1, <2>5 DEF Environment, Adopts, Traffic, Elapses, Edited, Restarts, PowerFails, Forgets,
      Returns
  <2>6. CASE UNCHANGED vars
    BY <2>1, <2>6 DEF vars
  <2> QED BY <2>2, <2>3, <2>4, <2>5, <2>6 DEF Next
<1>2. pc \in Taken /\ file' = work.candidate
  BY <1>1 DEF Replaces, ReadyToReplace, Taken
<1>3. Valid(file')
  BY <1>2 DEF Known, QueueInv, Candidate
<1>4. In(file) \cap Jobs \subseteq In(serving)
  BY <1>2 DEF Known, QueueInv, Announced, Written
<1> QED BY <1>3, <1>4

\* A step of another component is none of the queue.
LEMMA QueueStepIn == [AllNext]_allVars => [Next]_vars
BY DEF AllNext, allVars

\* For all changes, edits of others and rules of the validator, in the composition: a
\* change that is in the file and not finished fences every other one and is shown to the
\* operator, one reported undone left no trace, and one reported applied survives a
\* power failure.
THEOREM FenceHolds == AllSpec => []ChangesFenced
<1>0. ReloadAssumption
  BY InstancesAssumption
<1>1. AllInit => QueueInv
  BY <1>0, QueueInit DEF AllInit
<1>2. QueueInv /\ [AllNext]_allVars => QueueInv'
  BY <1>0, QueueStep, QueueStepIn
<1>3. QueueInv => ChangesFenced
  BY <1>0, QueueKeepsFence
<1> QED BY <1>1, <1>2, <1>3, PTL DEF AllSpec

\* The same for the steps of the queue by itself: what it puts in place is valid with the
\* edits of other writers, and waits until llama-swap runs with all earlier changes.
THEOREM WritesInOrder == Spec => []ChangesFenced /\ [][WriteStep]_vars
<1>0. ReloadAssumption
  BY InstancesAssumption
<1>1. Init => QueueInv
  BY <1>0, QueueInit
<1>2. QueueInv /\ [Next]_vars => QueueInv'
  BY <1>0, QueueStep
<1>3. QueueInv => ChangesFenced
  BY <1>0, QueueKeepsFence
<1>4. QueueInv /\ [Next]_vars => WriteStep
  BY <1>0, QueueWrites
<1> QED BY <1>1, <1>2, <1>3, <1>4, PTL DEF Spec

-----------------------------------------------------------------------------
(* The maintenance of the catalog, in the composition *)

\* A step of another component is none of the maintenance.
LEMMA MaintenanceStep == [AllNext]_allVars => [part = "maintenance" /\ M!Next]_(M!vars)
/\ part' = part
BY DEF AllNext, allVars, mVars, M!vars, M!world, M!native

\* In the composed specification, with a candidate that removes a model: a transaction
\* of the catalog sends each command once, runs one proxy at a time, keeps its receipt
\* until the outcome is published, and is aborted, rolled back or released as it says.
THEOREM CatalogHolds == AllSpec => []MaintenanceSafe
<1> DEFINE Inv == M!MaintenanceInv
<1>0. M!MaintenanceAssumption
  BY InstancesAssumption
<1>1. AllInit => Inv
  BY <1>0, M!MaintenanceInit DEF AllInit
<1>2. Inv /\ [AllNext]_allVars => Inv'
  BY <1>0, MaintenanceStep, M!MaintenanceNext
<1>3. Inv => MaintenanceSafe
  BY M!MaintenanceKeepsSafe DEF MaintenanceSafe
<1> HIDE DEF Inv
<1> QED BY <1>1, <1>2, <1>3, PTL DEF AllSpec

-----------------------------------------------------------------------------
(* The installer of the scanner *)

Places == {"none", "stop", "files", "units", "remove"}

ScanReceipts ==
    [phase : {"none", "installing", "installed", "restoring", "restored"}, files : [ScanFiles -> FileStates],
     effects : [Effects -> {"none", "submitted", "acknowledged"}], enabled : BOOLEAN, active : BOOLEAN]
Runs == [cmd : {"none", "install", "restore"}, at : Places \cup ScanFiles, effect : Effects \cup {"none"}]

Types ==
    /\ script \in [ScanFiles -> {"previous", "new", "foreign"}]
    /\ unit \in [enabled : BOOLEAN, active : BOOLEAN, scan : BOOLEAN]
    /\ receipt \in ScanReceipts /\ run \in Runs
    /\ sent \in [Effects -> {0, 1}]
    /\ before \in [enabled : BOOLEAN, active : BOOLEAN, scan : BOOLEAN]

\* No command runs without a receipt.
Commanded ==
    /\ run.cmd = "none" => run.at = "none" /\ run.effect = "none"
    /\ run.cmd = "install" => receipt.phase = "installing" /\ run.at \in {"stop", "files", "units"}
    /\ run.cmd = "restore" =>
         /\ receipt.phase # "none"
         /\ run.at \in {"stop", "files"} \cup ScanFiles => receipt.phase = "restoring"
         /\ run.at = "units" => receipt.phase \in {"restoring", "restored"}
         /\ run.at = "remove" => receipt.phase = "restored"

\* What a call may be where the command is.
Calling ==
    /\ run.at \in {"none", "files", "remove"} \cup ScanFiles => run.effect = "none"
    /\ run.at = "stop" => run.effect \in {"none", "install_stop_timer", "restore_stop_timer"}

\* A call is sent after it was recorded.
Recorded == receipt.phase # "none" =>
    \A e \in Effects : /\ receipt.effects[e] = "none" => sent[e] = 0
                       /\ run.effect = e => receipt.effects[e] = "submitted" /\ sent[e] = 0

\* The files in the phases of the receipt and of the command.
Filed ==
    /\ receipt.phase \in {"none", "installing", "installed"} =>
         \A f \in ScanFiles : receipt.files[f] \in {"pending", "install_submitted", "installed"}
    /\ receipt.phase = "installed" => \A f \in ScanFiles : receipt.files[f] = "installed"
    /\ receipt.phase = "restored" => \A f \in ScanFiles : receipt.files[f] = "restored"
    /\ run.cmd = "install" /\ run.at = "units" =>
         \A f \in ScanFiles : receipt.files[f] = "installed"
    /\ run.cmd = "restore" /\ run.at \in {"units", "remove"} =>
         \A f \in ScanFiles : receipt.files[f] = "restored"
    /\ run.at \in ScanFiles => receipt.files[run.at] = "restore_submitted"

\* Nobody edits a file under a command that looked at it.
Seen == run.at # "none" => Checked

\* The timer cannot come back while some files are put back.
Still == ~ unit.active /\ ~ unit.enabled /\ ~ unit.scan
Mixed ==
    receipt.phase = "restoring"
    /\ (\E f \in ScanFiles : receipt.files[f] \in {"restore_submitted", "restored"})
      /\ \E f \in ScanFiles : receipt.files[f] # "restored"
Stilled ==
    /\ run.cmd = "restore" /\ run.at \in {"files"} \cup ScanFiles => Still
    /\ Mixed => Still

\* The receipt remembers the timer.
Remembered ==
    /\ receipt.phase # "none" => receipt.enabled = before.enabled /\ receipt.active = before.active
    /\ run.at = "remove" => unit.enabled = receipt.enabled /\ unit.active = receipt.active

ScanInv == Types /\ Commanded /\ Calling /\ Recorded /\ Filed /\ Seen /\ Stilled /\ Remembered

-----------------------------------------------------------------------------
(* What a step starts from, and what the calls and the ends of commands are *)

ScanKnown == ScanInv /\ ScanInstallAssumption /\ ScanFiles \cap Places = {}

LEMMA AppliedIs ==
  ASSUME Types, NEW e \in Effects
  PROVE  /\ Applied(e) \in [enabled : BOOLEAN, active : BOOLEAN, scan : BOOLEAN]
         /\ Applied(e).scan = unit.scan
         /\ e \in {"install_stop_timer", "restore_stop_timer"} =>
              ~ Applied(e).active /\ (~ unit.enabled => ~ Applied(e).enabled)
BY DEF Types, Applied, Effects, InstallEffects, RestoreEffects

\* A call under way was recorded and not sent, and only stops the timer while
\* the files are mixed.
LEMMA CallKnown ==
  ASSUME ScanKnown, run.effect # "none"
  PROVE  /\ run.effect \in Effects /\ receipt.phase # "none"
         /\ receipt.effects[run.effect] = "submitted"
         /\ sent[run.effect] = 0 /\ run.at \in {"stop", "units"} /\ run.at \notin ScanFiles
         /\ Mixed => run.effect \in {"install_stop_timer", "restore_stop_timer"}
<1>1. run.effect \in Effects /\ run.at \in Places \cup ScanFiles
      /\ run.cmd \in {"none", "install", "restore"}
  BY DEF ScanKnown, ScanInv, Types, Runs
<1>2. run.at \in {"stop", "units"} /\ run.at \notin ScanFiles
  BY <1>1 DEF ScanKnown, ScanInv, Calling, Places
<1>3. receipt.phase # "none"
  BY <1>1, <1>2 DEF ScanKnown, ScanInv, Commanded
<1>4. Mixed => run.at = "stop"
  BY <1>1, <1>2 DEF ScanKnown, ScanInv, Commanded, Filed, Mixed
<1>5. receipt.effects[run.effect] = "submitted" /\ sent[run.effect] = 0
  BY <1>1, <1>3 DEF ScanKnown, ScanInv, Recorded
<1> QED BY <1>1, <1>2, <1>3, <1>4, <1>5 DEF ScanKnown, ScanInv, Calling

\* A command that ends, or goes on with the restore of an install, leaves nothing behind that was not recorded.
LEMMA EndKeeps ==
  ASSUME ScanKnown,
         UNCHANGED <<script, receipt, before>>, run' \in Raised \cup {NoRun},
         unit' \in [enabled : BOOLEAN, active : BOOLEAN, scan : BOOLEAN], Mixed /\ Still => Still',
         sent' \in [Effects -> {0, 1}],
         \A e \in Effects : receipt.phase # "none"
         /\ receipt.effects[e] = "none" => sent'[e] = sent[e]
  PROVE  ScanInv'
<1>0. /\ ScanInv /\ ScanFiles \cap Places = {} /\ receipt \in ScanReceipts /\ run \in Runs
      /\ receipt.effects \in [Effects -> {"none", "submitted", "acknowledged"}]
      /\ receipt.files \in [ScanFiles -> FileStates] /\ sent \in [Effects -> {0, 1}]
      /\ run.effect \in Effects \cup {"none"} /\ run.at \in Places \cup ScanFiles
         /\ "none" \notin Effects
  BY DEF ScanKnown, ScanInv, Types, ScanReceipts, Runs, Effects, InstallEffects, RestoreEffects
<1>1. /\ run' \in Runs /\ run'.at = "none" /\ run'.effect = "none"
         /\ run'.cmd \in {"none", "restore"}
      /\ run'.cmd = "restore" => run.cmd = "install"
  BY DEF Raised, NoRun, Runs, Places
<1>2. "none" \notin ScanFiles
  BY <1>0 DEF Places
<1>3. Types'
  BY <1>0, <1>1, <1>2 DEF ScanInv, Types
<1>4. Commanded'
  BY <1>0, <1>1, <1>2 DEF ScanInv, Commanded
<1>5. Calling'
  BY <1>0, <1>1, <1>2 DEF ScanInv, Calling
<1>6. Recorded'
  BY <1>0, <1>1, <1>2 DEF ScanInv, Recorded
<1>7. Filed'
  BY <1>0, <1>1, <1>2 DEF ScanInv, Filed
<1>8. Seen'
  BY <1>0, <1>1, <1>2 DEF ScanInv, Seen, Checked, MayBe
<1>9. Stilled'
  BY <1>0, <1>1, <1>2 DEF ScanInv, Stilled, Mixed, Still
<1>10. Remembered'
  BY <1>0, <1>1, <1>2 DEF ScanInv, Remembered
<1> QED BY <1>3, <1>4, <1>5, <1>6, <1>7, <1>8, <1>9, <1>10 DEF ScanInv

\* A call is recorded before it is sent.
LEMMA SubmitKeeps ==
  ASSUME ScanKnown, NEW e \in Effects, Submits(e), run.effect = "none", run.cmd # "none",
         run.at = "units" \/ (run.at = "stop" /\ e \in {"install_stop_timer", "restore_stop_timer"})
  PROVE  ScanInv'
<1>0. /\ ScanInv /\ ScanFiles \cap Places = {} /\ receipt \in ScanReceipts /\ run \in Runs
      /\ receipt.effects \in [Effects -> {"none", "submitted", "acknowledged"}]
      /\ receipt.files \in [ScanFiles -> FileStates] /\ sent \in [Effects -> {0, 1}]
      /\ run.effect \in Effects \cup {"none"} /\ run.at \in Places \cup ScanFiles
         /\ "none" \notin Effects
  BY DEF ScanKnown, ScanInv, Types, ScanReceipts, Runs, Effects, InstallEffects, RestoreEffects
<1>1. /\ receipt' \in ScanReceipts /\ receipt'.phase = receipt.phase
         /\ receipt'.files = receipt.files
      /\ receipt'.enabled = receipt.enabled /\ receipt'.active = receipt.active
      /\ receipt'.effects = [receipt.effects EXCEPT ![e] = "submitted"]
  BY <1>0 DEF Submits, ScanReceipts
<1>2. run' \in Runs /\ run'.cmd = run.cmd /\ run'.at = run.at /\ run'.effect = e
  BY <1>0 DEF Submits, Runs
<1>3. UNCHANGED <<script, unit, sent, before>> /\ receipt.effects[e] = "none"
  BY DEF Submits, NotYet
<1>4. run.at \notin ScanFiles
  BY <1>0 DEF Places
<1>5. Types'
  BY <1>0, <1>1, <1>2, <1>3, <1>4 DEF ScanInv, Types
<1>6. Commanded'
  BY <1>0, <1>1, <1>2, <1>3, <1>4 DEF ScanInv, Commanded
<1>7. Calling'
  BY <1>0, <1>1, <1>2, <1>3, <1>4 DEF ScanInv, Calling
<1>8. Recorded'
  BY <1>0, <1>1, <1>2, <1>3, <1>4 DEF ScanInv, Recorded
<1>9. Filed'
  BY <1>0, <1>1, <1>2, <1>3, <1>4 DEF ScanInv, Filed
<1>10. Seen'
  BY <1>0, <1>1, <1>2, <1>3, <1>4 DEF ScanInv, Seen, Checked, MayBe
<1>11. Stilled'
  BY <1>0, <1>1, <1>2, <1>3, <1>4 DEF ScanInv, Stilled, Mixed, Still
<1>12. Remembered'
  BY <1>0, <1>1, <1>2, <1>3, <1>4 DEF ScanInv, Remembered
<1> QED BY <1>5, <1>6, <1>7, <1>8, <1>9, <1>10, <1>11, <1>12 DEF ScanInv

\* A command that goes to its next place without writing.
LEMMA GoKeeps ==
  ASSUME ScanKnown, NEW at \in Places, Goes(at), UNCHANGED <<script, unit, receipt, sent, before>>,
                                                             run.effect = "none",
         \/ /\ at = "files" /\ run.at = "stop" /\ (run.cmd = "restore" => Still)
         \/ /\ at = "units" /\ run.at = "files"
            /\ \A f \in ScanFiles : receipt.files[f] = IF run.cmd = "install" THEN "installed" ELSE "restored"
  PROVE  ScanInv'
<1>0. /\ ScanInv /\ ScanFiles \cap Places = {} /\ receipt \in ScanReceipts /\ run \in Runs
      /\ receipt.effects \in [Effects -> {"none", "submitted", "acknowledged"}]
      /\ receipt.files \in [ScanFiles -> FileStates] /\ sent \in [Effects -> {0, 1}]
      /\ run.effect \in Effects \cup {"none"} /\ run.at \in Places \cup ScanFiles
         /\ "none" \notin Effects
  BY DEF ScanKnown, ScanInv, Types, ScanReceipts, Runs, Effects, InstallEffects, RestoreEffects
<1>1. run' \in Runs /\ run'.cmd = run.cmd /\ run'.at = at /\ run'.effect = "none"
  BY <1>0 DEF Goes, Runs, Places
<1>2. "none" \notin ScanFiles /\ "stop" \notin ScanFiles /\ "files" \notin ScanFiles
      /\ "units" \notin ScanFiles
  BY <1>0 DEF Places
<1>3. Types'
  BY <1>0, <1>1, <1>2 DEF ScanInv, Types
<1>4. Commanded'
  BY <1>0, <1>1, <1>2 DEF ScanInv, Commanded
<1>5. Calling'
  BY <1>0, <1>1, <1>2 DEF ScanInv, Calling
<1>6. Recorded'
  BY <1>0, <1>1, <1>2 DEF ScanInv, Recorded
<1>7. Filed'
  BY <1>0, <1>1, <1>2 DEF ScanInv, Filed
<1>8. Seen'
  BY <1>0, <1>1, <1>2 DEF ScanInv, Seen, Checked, MayBe
<1>9. Stilled'
  BY <1>0, <1>1, <1>2 DEF ScanInv, Stilled, Mixed, Still
<1>10. Remembered'
  BY <1>0, <1>1, <1>2 DEF ScanInv, Remembered
<1> QED BY <1>3, <1>4, <1>5, <1>6, <1>7, <1>8, <1>9, <1>10 DEF ScanInv

\* A file is marked where it is.
LEMMA MarkKeeps ==
  ASSUME ScanKnown, NEW f \in ScanFiles, NEW state \in FileStates, Notes(f, state), run.cmd = "install", run.at = "files",
         state \in {"install_submitted", "installed"}, script[f] \in MayBe(state)
  PROVE  ScanInv'
<1>0. /\ ScanInv /\ ScanFiles \cap Places = {} /\ receipt \in ScanReceipts /\ run \in Runs
      /\ receipt.effects \in [Effects -> {"none", "submitted", "acknowledged"}]
      /\ receipt.files \in [ScanFiles -> FileStates] /\ sent \in [Effects -> {0, 1}]
      /\ run.effect \in Effects \cup {"none"} /\ run.at \in Places \cup ScanFiles
         /\ "none" \notin Effects
  BY DEF ScanKnown, ScanInv, Types, ScanReceipts, Runs, Effects, InstallEffects, RestoreEffects
<1>1. /\ receipt' \in ScanReceipts /\ receipt'.phase = receipt.phase
         /\ receipt'.effects = receipt.effects
      /\ receipt'.enabled = receipt.enabled /\ receipt'.active = receipt.active
      /\ receipt'.files = [receipt.files EXCEPT ![f] = state]
  BY <1>0 DEF Notes, ScanReceipts
<1>2. UNCHANGED <<script, unit, run, sent, before>>
  BY DEF Notes
<1>3. "files" \notin ScanFiles
  BY <1>0 DEF Places
<1>4. receipt.phase = "installing"
  BY <1>0 DEF ScanInv, Commanded
<1>5. Types'
  BY <1>0, <1>1, <1>2, <1>3, <1>4 DEF ScanInv, Types
<1>6. Commanded'
  BY <1>0, <1>1, <1>2, <1>3, <1>4 DEF ScanInv, Commanded
<1>7. Calling'
  BY <1>0, <1>1, <1>2, <1>3, <1>4 DEF ScanInv, Calling
<1>8. Recorded'
  BY <1>0, <1>1, <1>2, <1>3, <1>4 DEF ScanInv, Recorded
<1>9. Filed'
  BY <1>0, <1>1, <1>2, <1>3, <1>4 DEF ScanInv, Filed
<1>10. Seen'
  BY <1>0, <1>1, <1>2, <1>3, <1>4 DEF ScanInv, Seen, Checked, MayBe
<1>11. Stilled'
  BY <1>0, <1>1, <1>2, <1>3, <1>4 DEF ScanInv, Stilled, Mixed, Still
<1>12. Remembered'
  BY <1>0, <1>1, <1>2, <1>3, <1>4 DEF ScanInv, Remembered
<1> QED BY <1>5, <1>6, <1>7, <1>8, <1>9, <1>10, <1>11, <1>12 DEF ScanInv

\* A file is written under its mark.
LEMMA WriteKeeps ==
  ASSUME ScanKnown, NEW f \in ScanFiles, NEW content \in {"previous", "new"}, Writes(f, content),
         receipt.files[f] \in {"install_submitted", "restore_submitted"}
  PROVE  ScanInv'
<1>0. /\ ScanInv /\ ScanFiles \cap Places = {} /\ receipt \in ScanReceipts /\ run \in Runs
      /\ receipt.effects \in [Effects -> {"none", "submitted", "acknowledged"}]
      /\ receipt.files \in [ScanFiles -> FileStates] /\ sent \in [Effects -> {0, 1}]
      /\ run.effect \in Effects \cup {"none"} /\ run.at \in Places \cup ScanFiles
         /\ "none" \notin Effects
  BY DEF ScanKnown, ScanInv, Types, ScanReceipts, Runs, Effects, InstallEffects, RestoreEffects
<1>1. script \in [ScanFiles -> {"previous", "new", "foreign"}]
  BY <1>0 DEF ScanInv, Types
<1>2. /\ script' = [script EXCEPT ![f] = content]
         /\ script' \in [ScanFiles -> {"previous", "new", "foreign"}]
      /\ UNCHANGED <<unit, receipt, run, sent, before>>
  BY <1>1 DEF Writes
<1>3. Types'
  BY <1>0, <1>1, <1>2 DEF ScanInv, Types
<1>4. Commanded'
  BY <1>0, <1>1, <1>2 DEF ScanInv, Commanded
<1>5. Calling'
  BY <1>0, <1>1, <1>2 DEF ScanInv, Calling
<1>6. Recorded'
  BY <1>0, <1>1, <1>2 DEF ScanInv, Recorded
<1>7. Filed'
  BY <1>0, <1>1, <1>2 DEF ScanInv, Filed
<1>8. Seen'
  BY <1>0, <1>1, <1>2 DEF ScanInv, Seen, Checked, MayBe
<1>9. Stilled'
  BY <1>0, <1>1, <1>2 DEF ScanInv, Stilled, Mixed, Still
<1>10. Remembered'
  BY <1>0, <1>1, <1>2 DEF ScanInv, Remembered
<1> QED BY <1>3, <1>4, <1>5, <1>6, <1>7, <1>8, <1>9, <1>10 DEF ScanInv

-----------------------------------------------------------------------------
(* The steps *)

\* A scan starts from a timer, or ends.
LEMMA FiresKeeps ==
  ASSUME ScanKnown, Fires
  PROVE  ScanInv'
<1>0. /\ ScanInv /\ ScanFiles \cap Places = {} /\ receipt \in ScanReceipts /\ run \in Runs
      /\ receipt.effects \in [Effects -> {"none", "submitted", "acknowledged"}]
      /\ receipt.files \in [ScanFiles -> FileStates] /\ sent \in [Effects -> {0, 1}]
      /\ run.effect \in Effects \cup {"none"} /\ run.at \in Places \cup ScanFiles
         /\ "none" \notin Effects
  BY DEF ScanKnown, ScanInv, Types, ScanReceipts, Runs, Effects, InstallEffects, RestoreEffects
<1>1. /\ unit' \in [enabled : BOOLEAN, active : BOOLEAN, scan : BOOLEAN]
      /\ unit'.enabled = unit.enabled /\ unit'.active = unit.active /\ ~ Still
  BY <1>0 DEF ScanInv, Types, Fires, Still
<1>2. UNCHANGED <<script, receipt, run, sent, before>>
  BY DEF Fires
<1>3. Types'
  BY <1>0, <1>1, <1>2 DEF ScanInv, Types
<1>4. Commanded'
  BY <1>0, <1>1, <1>2 DEF ScanInv, Commanded
<1>5. Calling'
  BY <1>0, <1>1, <1>2 DEF ScanInv, Calling
<1>6. Recorded'
  BY <1>0, <1>1, <1>2 DEF ScanInv, Recorded
<1>7. Filed'
  BY <1>0, <1>1, <1>2 DEF ScanInv, Filed
<1>8. Seen'
  BY <1>0, <1>1, <1>2 DEF ScanInv, Seen, Checked, MayBe
<1>9. Stilled'
  BY <1>0, <1>1, <1>2 DEF ScanInv, Stilled, Mixed, Still
<1>10. Remembered'
  BY <1>0, <1>1, <1>2 DEF ScanInv, Remembered
<1> QED BY <1>3, <1>4, <1>5, <1>6, <1>7, <1>8, <1>9, <1>10 DEF ScanInv

\* Somebody edits a file between two commands.
LEMMA EditKeeps ==
  ASSUME ScanKnown, FileEdited
  PROVE  ScanInv'
<1>0. /\ ScanInv /\ ScanFiles \cap Places = {} /\ receipt \in ScanReceipts /\ run \in Runs
      /\ receipt.effects \in [Effects -> {"none", "submitted", "acknowledged"}]
      /\ receipt.files \in [ScanFiles -> FileStates] /\ sent \in [Effects -> {0, 1}]
      /\ run.effect \in Effects \cup {"none"} /\ run.at \in Places \cup ScanFiles
         /\ "none" \notin Effects
  BY DEF ScanKnown, ScanInv, Types, ScanReceipts, Runs, Effects, InstallEffects, RestoreEffects
<1>1. script' \in [ScanFiles -> {"previous", "new", "foreign"}]
  BY <1>0 DEF ScanInv, Types, FileEdited
<1>2. run.cmd = "none" /\ UNCHANGED <<unit, receipt, run, sent, before>>
  BY DEF FileEdited
<1>3. run.at = "none"
  BY <1>0, <1>2 DEF ScanInv, Commanded
<1>4. Types'
  BY <1>0, <1>1, <1>2, <1>3 DEF ScanInv, Types
<1>5. Commanded'
  BY <1>0, <1>1, <1>2, <1>3 DEF ScanInv, Commanded
<1>6. Calling'
  BY <1>0, <1>1, <1>2, <1>3 DEF ScanInv, Calling
<1>7. Recorded'
  BY <1>0, <1>1, <1>2, <1>3 DEF ScanInv, Recorded
<1>8. Filed'
  BY <1>0, <1>1, <1>2, <1>3 DEF ScanInv, Filed
<1>9. Seen'
  BY <1>0, <1>1, <1>2, <1>3 DEF ScanInv, Seen, Checked, MayBe
<1>10. Stilled'
  BY <1>0, <1>1, <1>2, <1>3 DEF ScanInv, Stilled, Mixed, Still
<1>11. Remembered'
  BY <1>0, <1>1, <1>2, <1>3 DEF ScanInv, Remembered
<1> QED BY <1>4, <1>5, <1>6, <1>7, <1>8, <1>9, <1>10, <1>11 DEF ScanInv

\* A call is sent and its answer recorded.
LEMMA SendKeeps ==
  ASSUME ScanKnown, Sends
  PROVE  ScanInv'
<1>0. /\ ScanInv /\ ScanFiles \cap Places = {} /\ receipt \in ScanReceipts /\ run \in Runs
      /\ receipt.effects \in [Effects -> {"none", "submitted", "acknowledged"}]
      /\ receipt.files \in [ScanFiles -> FileStates] /\ sent \in [Effects -> {0, 1}]
      /\ run.effect \in Effects \cup {"none"} /\ run.at \in Places \cup ScanFiles
         /\ "none" \notin Effects
  BY DEF ScanKnown, ScanInv, Types, ScanReceipts, Runs, Effects, InstallEffects, RestoreEffects
<1>1. /\ run.effect \in Effects /\ receipt.phase # "none"
         /\ receipt.effects[run.effect] = "submitted"
      /\ sent[run.effect] = 0 /\ run.at \in {"stop", "units"} /\ run.at \notin ScanFiles
      /\ Mixed => run.effect \in {"install_stop_timer", "restore_stop_timer"}
  <2>1. run.effect # "none"
    BY DEF Sends
  <2> QED BY <2>1, CallKnown
<1>2. /\ receipt' \in ScanReceipts /\ receipt'.phase = receipt.phase
         /\ receipt'.files = receipt.files
      /\ receipt'.enabled = receipt.enabled /\ receipt'.active = receipt.active
      /\ receipt'.effects = [receipt.effects EXCEPT ![run.effect] = "acknowledged"]
  BY <1>0, <1>1 DEF Sends, ScanReceipts
<1>3. run' \in Runs /\ run'.cmd = run.cmd /\ run'.at = run.at /\ run'.effect = "none"
  BY <1>0 DEF Sends, Runs
<1>4. /\ UNCHANGED <<script, before>> /\ unit' = Applied(run.effect)
      /\ sent' = [sent EXCEPT ![run.effect] = 1] /\ sent' \in [Effects -> {0, 1}]
  BY <1>0, <1>1 DEF Sends
<1>5. /\ unit' \in [enabled : BOOLEAN, active : BOOLEAN, scan : BOOLEAN]
      /\ Mixed /\ Still => Still'
  BY <1>0, <1>1, <1>4, AppliedIs DEF ScanInv, Still
<1>6. Types'
  BY <1>0, <1>1, <1>2, <1>3, <1>4, <1>5 DEF ScanInv, Types
<1>7. Commanded'
  BY <1>0, <1>1, <1>2, <1>3, <1>4, <1>5 DEF ScanInv, Commanded
<1>8. Calling'
  BY <1>0, <1>1, <1>2, <1>3, <1>4, <1>5 DEF ScanInv, Calling
<1>9. Recorded'
  BY <1>0, <1>1, <1>2, <1>3, <1>4, <1>5 DEF ScanInv, Recorded
<1>10. Filed'
  BY <1>0, <1>1, <1>2, <1>3, <1>4, <1>5 DEF ScanInv, Filed
<1>11. Seen'
  BY <1>0, <1>1, <1>2, <1>3, <1>4, <1>5 DEF ScanInv, Seen, Checked, MayBe
<1>12. Stilled'
  BY <1>0, <1>1, <1>2, <1>3, <1>4, <1>5 DEF ScanInv, Stilled, Mixed, Still
<1>13. Remembered'
  BY <1>0, <1>1, <1>2, <1>3, <1>4, <1>5 DEF ScanInv, Remembered
<1> QED BY <1>6, <1>7, <1>8, <1>9, <1>10, <1>11, <1>12, <1>13 DEF ScanInv

\* A file is about to be put back.
LEMMA PutBackKeeps ==
  ASSUME ScanKnown, NEW f \in ScanFiles, run.cmd = "restore", run.effect = "none", run.at = "files",
         receipt.files[f] # "restored", Checked, Goes(f), UNCHANGED <<script, unit, sent, before>>,
         receipt' = [receipt EXCEPT !.files[f] = "restore_submitted"]
  PROVE  ScanInv'
<1>0. /\ ScanInv /\ ScanFiles \cap Places = {} /\ receipt \in ScanReceipts /\ run \in Runs
      /\ receipt.effects \in [Effects -> {"none", "submitted", "acknowledged"}]
      /\ receipt.files \in [ScanFiles -> FileStates] /\ sent \in [Effects -> {0, 1}]
      /\ run.effect \in Effects \cup {"none"} /\ run.at \in Places \cup ScanFiles
         /\ "none" \notin Effects
  BY DEF ScanKnown, ScanInv, Types, ScanReceipts, Runs, Effects, InstallEffects, RestoreEffects
<1>1. /\ receipt' \in ScanReceipts /\ receipt'.phase = receipt.phase
         /\ receipt'.effects = receipt.effects
      /\ receipt'.enabled = receipt.enabled /\ receipt'.active = receipt.active
      /\ receipt'.files = [receipt.files EXCEPT ![f] = "restore_submitted"]
  BY <1>0 DEF ScanReceipts, FileStates
<1>2. run' \in Runs /\ run'.cmd = run.cmd /\ run'.at = f /\ run'.effect = "none"
  BY <1>0 DEF Goes, Runs
<1>3. receipt.phase = "restoring" /\ f \notin {"none", "stop", "files", "units", "remove"}
  BY <1>0 DEF ScanInv, Commanded, Places
<1>4. script[f] \in {"previous", "new"}
  BY DEF Checked, MayBe
<1>5. Types'
  BY <1>0, <1>1, <1>2, <1>3, <1>4 DEF ScanInv, Types
<1>6. Commanded'
  BY <1>0, <1>1, <1>2, <1>3, <1>4 DEF ScanInv, Commanded
<1>7. Calling'
  BY <1>0, <1>1, <1>2, <1>3, <1>4 DEF ScanInv, Calling
<1>8. Recorded'
  BY <1>0, <1>1, <1>2, <1>3, <1>4 DEF ScanInv, Recorded
<1>9. Filed'
  BY <1>0, <1>1, <1>2, <1>3, <1>4 DEF ScanInv, Filed
<1>10. Seen'
  BY <1>0, <1>1, <1>2, <1>3, <1>4 DEF ScanInv, Seen, Checked, MayBe
<1>11. Stilled'
  BY <1>0, <1>1, <1>2, <1>3, <1>4 DEF ScanInv, Stilled, Mixed, Still
<1>12. Remembered'
  BY <1>0, <1>1, <1>2, <1>3, <1>4 DEF ScanInv, Remembered
<1> QED BY <1>5, <1>6, <1>7, <1>8, <1>9, <1>10, <1>11, <1>12 DEF ScanInv

\* A file is back.
LEMMA PutKeeps ==
  ASSUME ScanKnown, NEW f \in ScanFiles, run.cmd = "restore", run.effect = "none", run.at = f,
         script[f] = "previous", Goes("files"), UNCHANGED <<script, unit, sent, before>>,
         receipt' = [receipt EXCEPT !.files[f] = "restored"]
  PROVE  ScanInv'
<1>0. /\ ScanInv /\ ScanFiles \cap Places = {} /\ receipt \in ScanReceipts /\ run \in Runs
      /\ receipt.effects \in [Effects -> {"none", "submitted", "acknowledged"}]
      /\ receipt.files \in [ScanFiles -> FileStates] /\ sent \in [Effects -> {0, 1}]
      /\ run.effect \in Effects \cup {"none"} /\ run.at \in Places \cup ScanFiles
         /\ "none" \notin Effects
  BY DEF ScanKnown, ScanInv, Types, ScanReceipts, Runs, Effects, InstallEffects, RestoreEffects
<1>1. /\ receipt' \in ScanReceipts /\ receipt'.phase = receipt.phase
         /\ receipt'.effects = receipt.effects
      /\ receipt'.enabled = receipt.enabled /\ receipt'.active = receipt.active
      /\ receipt'.files = [receipt.files EXCEPT ![f] = "restored"]
  BY <1>0 DEF ScanReceipts, FileStates
<1>2. run' \in Runs /\ run'.cmd = run.cmd /\ run'.at = "files" /\ run'.effect = "none"
  BY <1>0 DEF Goes, Runs, Places
<1>3. receipt.phase = "restoring" /\ "files" \notin ScanFiles /\ f # "none"
  BY <1>0 DEF ScanInv, Commanded, Places
<1>4. Types'
  BY <1>0, <1>1, <1>2, <1>3 DEF ScanInv, Types
<1>5. Commanded'
  BY <1>0, <1>1, <1>2, <1>3 DEF ScanInv, Commanded
<1>6. Calling'
  BY <1>0, <1>1, <1>2, <1>3 DEF ScanInv, Calling
<1>7. Recorded'
  BY <1>0, <1>1, <1>2, <1>3 DEF ScanInv, Recorded
<1>8. Filed'
  BY <1>0, <1>1, <1>2, <1>3 DEF ScanInv, Filed
<1>9. Seen'
  BY <1>0, <1>1, <1>2, <1>3 DEF ScanInv, Seen, Checked, MayBe
<1>10. Stilled'
  BY <1>0, <1>1, <1>2, <1>3 DEF ScanInv, Stilled, Mixed, Still
<1>11. Remembered'
  BY <1>0, <1>1, <1>2, <1>3 DEF ScanInv, Remembered
<1> QED BY <1>4, <1>5, <1>6, <1>7, <1>8, <1>9, <1>10, <1>11 DEF ScanInv

\* An install begins with a receipt of what is there.
LEMMA BeginKeeps ==
  ASSUME ScanKnown, BeginsInstall
  PROVE  ScanInv'
<1>0. /\ ScanInv /\ ScanFiles \cap Places = {} /\ receipt \in ScanReceipts /\ run \in Runs
      /\ receipt.effects \in [Effects -> {"none", "submitted", "acknowledged"}]
      /\ receipt.files \in [ScanFiles -> FileStates] /\ sent \in [Effects -> {0, 1}]
      /\ run.effect \in Effects \cup {"none"} /\ run.at \in Places \cup ScanFiles
         /\ "none" \notin Effects
  BY DEF ScanKnown, ScanInv, Types, ScanReceipts, Runs, Effects, InstallEffects, RestoreEffects
<1>1. /\ receipt' \in ScanReceipts /\ receipt'.phase = "installing"
      /\ receipt'.files = [f \in ScanFiles |-> "pending"]
         /\ receipt'.effects = [e \in Effects |-> "none"]
      /\ receipt'.enabled = unit.enabled /\ receipt'.active = unit.active
  BY <1>0 DEF BeginsInstall, NoReceipt, ScanReceipts, ScanInv, Types, FileStates
<1>2. run' \in Runs /\ run'.cmd = "install" /\ run'.at = "stop" /\ run'.effect = "none"
  BY DEF BeginsInstall, NoRun, Runs, Places
<1>3. /\ script' = [f \in ScanFiles |-> "previous"] /\ sent' = [e \in Effects |-> 0]
      /\ before' = unit /\ unit' = unit
  BY DEF BeginsInstall
<1>4. "stop" \notin ScanFiles
  BY <1>0 DEF Places
<1>5. Types'
  BY <1>0, <1>1, <1>2, <1>3, <1>4 DEF ScanInv, Types
<1>6. Commanded'
  BY <1>0, <1>1, <1>2, <1>3, <1>4 DEF ScanInv, Commanded
<1>7. Calling'
  BY <1>0, <1>1, <1>2, <1>3, <1>4 DEF ScanInv, Calling
<1>8. Recorded'
  BY <1>0, <1>1, <1>2, <1>3, <1>4 DEF ScanInv, Recorded
<1>9. Filed'
  BY <1>0, <1>1, <1>2, <1>3, <1>4 DEF ScanInv, Filed
<1>10. Seen'
  BY <1>0, <1>1, <1>2, <1>3, <1>4 DEF ScanInv, Seen, Checked, MayBe
<1>11. Stilled'
  BY <1>0, <1>1, <1>2, <1>3, <1>4 DEF ScanInv, Stilled, Mixed, Still
<1>12. Remembered'
  BY <1>0, <1>1, <1>2, <1>3, <1>4 DEF ScanInv, Remembered
<1> QED BY <1>5, <1>6, <1>7, <1>8, <1>9, <1>10, <1>11, <1>12 DEF ScanInv

\* A rollback begins.
LEMMA RollbackKeeps ==
  ASSUME ScanKnown, BeginsRollback
  PROVE  ScanInv'
<1>0. /\ ScanInv /\ ScanFiles \cap Places = {} /\ receipt \in ScanReceipts /\ run \in Runs
      /\ receipt.effects \in [Effects -> {"none", "submitted", "acknowledged"}]
      /\ receipt.files \in [ScanFiles -> FileStates] /\ sent \in [Effects -> {0, 1}]
      /\ run.effect \in Effects \cup {"none"} /\ run.at \in Places \cup ScanFiles
         /\ "none" \notin Effects
  BY DEF ScanKnown, ScanInv, Types, ScanReceipts, Runs, Effects, InstallEffects, RestoreEffects
<1>1. run' \in Runs /\ run'.cmd = "restore" /\ run'.at = "none" /\ run'.effect = "none"
  BY DEF BeginsRollback, NoRun, Runs, Places
<1>2. receipt.phase # "none" /\ UNCHANGED <<script, unit, receipt, sent,
                                            before>> /\ run.cmd = "none"
  BY DEF BeginsRollback
<1>3. "none" \notin ScanFiles
  BY <1>0 DEF Places
<1>4. Types'
  BY <1>0, <1>1, <1>2, <1>3 DEF ScanInv, Types
<1>5. Commanded'
  BY <1>0, <1>1, <1>2, <1>3 DEF ScanInv, Commanded
<1>6. Calling'
  BY <1>0, <1>1, <1>2, <1>3 DEF ScanInv, Calling
<1>7. Recorded'
  BY <1>0, <1>1, <1>2, <1>3 DEF ScanInv, Recorded
<1>8. Filed'
  BY <1>0, <1>1, <1>2, <1>3 DEF ScanInv, Filed
<1>9. Seen'
  BY <1>0, <1>1, <1>2, <1>3 DEF ScanInv, Seen, Checked, MayBe
<1>10. Stilled'
  BY <1>0, <1>1, <1>2, <1>3 DEF ScanInv, Stilled, Mixed, Still
<1>11. Remembered'
  BY <1>0, <1>1, <1>2, <1>3 DEF ScanInv, Remembered
<1> QED BY <1>4, <1>5, <1>6, <1>7, <1>8, <1>9, <1>10, <1>11 DEF ScanInv

\* A restore looks at the files first.
LEMMA RestoreKeeps ==
  ASSUME ScanKnown, BeginsRestore
  PROVE  ScanInv'
<1>0. /\ ScanInv /\ ScanFiles \cap Places = {} /\ receipt \in ScanReceipts /\ run \in Runs
      /\ receipt.effects \in [Effects -> {"none", "submitted", "acknowledged"}]
      /\ receipt.files \in [ScanFiles -> FileStates] /\ sent \in [Effects -> {0, 1}]
      /\ run.effect \in Effects \cup {"none"} /\ run.at \in Places \cup ScanFiles
         /\ "none" \notin Effects
  BY DEF ScanKnown, ScanInv, Types, ScanReceipts, Runs, Effects, InstallEffects, RestoreEffects
<1>1. /\ receipt' \in ScanReceipts
         /\ receipt'.phase = (IF receipt.phase = "restored" THEN "restored" ELSE "restoring")
         /\ receipt'.files = receipt.files
      /\ receipt'.enabled = receipt.enabled /\ receipt'.active = receipt.active
      /\ receipt'.effects = receipt.effects
  BY <1>0 DEF BeginsRestore, ScanReceipts
<1>2. /\ run' \in Runs /\ run'.cmd = "restore" /\ run'.effect = "none"
      /\ run'.at = IF ToRestore = {} THEN "units" ELSE "stop"
  BY <1>0 DEF BeginsRestore, Ready, Goes, Runs, Places
<1>3. /\ UNCHANGED <<script, unit, sent, before>> /\ Checked /\ run.cmd = "restore"
      /\ receipt.phase # "none" /\ run.effect = "none"
  BY <1>0 DEF BeginsRestore, Ready, ScanInv, Commanded
<1>4. "units" \notin ScanFiles /\ "stop" \notin ScanFiles
      /\ (ToRestore = {} <=> \A f \in ScanFiles : receipt.files[f] = "restored")
  BY <1>0 DEF Places, ToRestore
<1>5. ToRestore # {} => receipt.phase # "restored"
  BY <1>0 DEF ScanInv, Filed, ToRestore
<1>6. Mixed' => Mixed
  BY <1>0, <1>1, <1>3 DEF ScanInv, Filed, ScanReceipts, Mixed
<1>7. Types'
  BY <1>0, <1>1, <1>2, <1>3, <1>4, <1>5, <1>6 DEF ScanInv, Types
<1>8. Commanded'
  BY <1>0, <1>1, <1>2, <1>3, <1>4, <1>5, <1>6 DEF ScanInv, Commanded
<1>9. Calling'
  BY <1>0, <1>1, <1>2, <1>3, <1>4, <1>5, <1>6 DEF ScanInv, Calling
<1>10. Recorded'
  BY <1>0, <1>1, <1>2, <1>3, <1>4, <1>5, <1>6 DEF ScanInv, Recorded
<1>11. Filed'
  BY <1>0, <1>1, <1>2, <1>3, <1>4, <1>5, <1>6 DEF ScanInv, Filed
<1>12. Seen'
  BY <1>0, <1>1, <1>2, <1>3, <1>4, <1>5, <1>6 DEF ScanInv, Seen, Checked, MayBe
<1>13. Stilled'
  BY <1>0, <1>1, <1>2, <1>3, <1>4, <1>5, <1>6 DEF ScanInv, Stilled, Mixed, Still
<1>14. Remembered'
  BY <1>0, <1>1, <1>2, <1>3, <1>4, <1>5, <1>6 DEF ScanInv, Remembered
<1> QED BY <1>7, <1>8, <1>9, <1>10, <1>11, <1>12, <1>13, <1>14 DEF ScanInv

\* A command is confirmed by what systemd shows.
LEMMA ConfirmedKeeps ==
  ASSUME ScanKnown, NEW cmd \in {"install", "restore"}, Confirmed(cmd)
  PROVE  ScanInv'
<1>0. /\ ScanInv /\ ScanFiles \cap Places = {} /\ receipt \in ScanReceipts /\ run \in Runs
      /\ receipt.effects \in [Effects -> {"none", "submitted", "acknowledged"}]
      /\ receipt.files \in [ScanFiles -> FileStates] /\ sent \in [Effects -> {0, 1}]
      /\ run.effect \in Effects \cup {"none"} /\ run.at \in Places \cup ScanFiles
         /\ "none" \notin Effects
  BY DEF ScanKnown, ScanInv, Types, ScanReceipts, Runs, Effects, InstallEffects, RestoreEffects
<1>1. /\ receipt' \in ScanReceipts
         /\ receipt'.phase = (IF cmd = "install" THEN "installed" ELSE "restored")
         /\ receipt'.files = receipt.files
      /\ receipt'.enabled = receipt.enabled /\ receipt'.active = receipt.active
      /\ receipt'.effects = receipt.effects
  BY <1>0 DEF Confirmed, ScanReceipts
<1>2. /\ run' \in Runs /\ run'.effect = "none" /\ run.at = "units" /\ run.cmd = cmd
         /\ run.effect = "none"
      /\ run'.cmd = IF cmd = "install" THEN "none" ELSE "restore"
      /\ run'.at = IF cmd = "install" THEN "none" ELSE "remove"
  BY <1>0 DEF Confirmed, Ready, NoRun, Runs, Places
<1>3. /\ UNCHANGED <<script, unit, sent, before>>
      /\ cmd = "restore" => unit.enabled = receipt.enabled /\ unit.active = receipt.active
  BY DEF Confirmed
<1>4. "none" \notin ScanFiles /\ "remove" \notin ScanFiles /\ receipt.phase # "none"
  BY <1>0, <1>2 DEF Places, ScanInv, Commanded
<1>5. Types'
  BY <1>0, <1>1, <1>2, <1>3, <1>4 DEF ScanInv, Types
<1>6. Commanded'
  BY <1>0, <1>1, <1>2, <1>3, <1>4 DEF ScanInv, Commanded
<1>7. Calling'
  BY <1>0, <1>1, <1>2, <1>3, <1>4 DEF ScanInv, Calling
<1>8. Recorded'
  BY <1>0, <1>1, <1>2, <1>3, <1>4 DEF ScanInv, Recorded
<1>9. Filed'
  BY <1>0, <1>1, <1>2, <1>3, <1>4 DEF ScanInv, Filed
<1>10. Seen'
  BY <1>0, <1>1, <1>2, <1>3, <1>4 DEF ScanInv, Seen, Checked, MayBe
<1>11. Stilled'
  BY <1>0, <1>1, <1>2, <1>3, <1>4 DEF ScanInv, Stilled, Mixed, Still
<1>12. Remembered'
  BY <1>0, <1>1, <1>2, <1>3, <1>4 DEF ScanInv, Remembered
<1> QED BY <1>5, <1>6, <1>7, <1>8, <1>9, <1>10, <1>11, <1>12 DEF ScanInv

\* The receipt is given up.
LEMMA RemovesKeeps ==
  ASSUME ScanKnown, Removes
  PROVE  ScanInv'
<1>0. /\ ScanInv /\ ScanFiles \cap Places = {} /\ receipt \in ScanReceipts /\ run \in Runs
      /\ receipt.effects \in [Effects -> {"none", "submitted", "acknowledged"}]
      /\ receipt.files \in [ScanFiles -> FileStates] /\ sent \in [Effects -> {0, 1}]
      /\ run.effect \in Effects \cup {"none"} /\ run.at \in Places \cup ScanFiles
         /\ "none" \notin Effects
  BY DEF ScanKnown, ScanInv, Types, ScanReceipts, Runs, Effects, InstallEffects, RestoreEffects
<1>1. /\ receipt' \in ScanReceipts /\ receipt'.phase = "none"
      /\ receipt'.files = [f \in ScanFiles |-> "pending"]
  BY DEF Removes, NoReceipt, ScanReceipts, FileStates
<1>2. run' \in Runs /\ run'.cmd = "none" /\ run'.at = "none" /\ run'.effect = "none"
  BY DEF Removes, NoRun, Runs, Places
<1>3. UNCHANGED <<script, unit, sent, before>>
  BY DEF Removes
<1>4. "none" \notin ScanFiles
  BY <1>0 DEF Places
<1>5. Types'
  BY <1>0, <1>1, <1>2, <1>3, <1>4 DEF ScanInv, Types
<1>6. Commanded'
  BY <1>0, <1>1, <1>2, <1>3, <1>4 DEF ScanInv, Commanded
<1>7. Calling'
  BY <1>0, <1>1, <1>2, <1>3, <1>4 DEF ScanInv, Calling
<1>8. Recorded'
  BY <1>0, <1>1, <1>2, <1>3, <1>4 DEF ScanInv, Recorded
<1>9. Filed'
  BY <1>0, <1>1, <1>2, <1>3, <1>4 DEF ScanInv, Filed
<1>10. Seen'
  BY <1>0, <1>1, <1>2, <1>3, <1>4 DEF ScanInv, Seen, Checked, MayBe
<1>11. Stilled'
  BY <1>0, <1>1, <1>2, <1>3, <1>4 DEF ScanInv, Stilled, Mixed, Still
<1>12. Remembered'
  BY <1>0, <1>1, <1>2, <1>3, <1>4 DEF ScanInv, Remembered
<1> QED BY <1>5, <1>6, <1>7, <1>8, <1>9, <1>10, <1>11, <1>12 DEF ScanInv

-----------------------------------------------------------------------------
(* Every step *)

LEMMA EndsKeep ==
  ASSUME ScanKnown, NEW cmd \in {"install", "restore"}, \/ CommandFails \/ GivesUp \/ Refused(cmd) \/ Unexpected(cmd) \/ Unconfirmed(cmd)
  PROVE  ScanInv'
<1>1. UNCHANGED <<script, receipt,
                  before>> /\ run' \in Raised \cup {NoRun} /\ unit' = unit /\ sent' = sent
  BY DEF CommandFails, GivesUp, Refused, Unexpected, Unconfirmed, Raised
<1>2. unit \in [enabled : BOOLEAN, active : BOOLEAN, scan : BOOLEAN] /\ sent \in [Effects -> {0, 1}]
  BY DEF ScanKnown, ScanInv, Types
<1>3. Still' = Still
  BY <1>1 DEF Still
<1> QED BY <1>1, <1>2, <1>3, EndKeeps

LEMMA RebootKeeps == ASSUME ScanKnown, Reboots PROVE ScanInv'
<1>1. UNCHANGED <<script, receipt, before>> /\ run' \in Raised \cup {NoRun} /\ sent' = sent
  BY DEF Reboots
<1>2. unit \in [enabled : BOOLEAN, active : BOOLEAN, scan : BOOLEAN] /\ sent \in [Effects -> {0, 1}]
  BY DEF ScanKnown, ScanInv, Types
<1>3. unit' \in [enabled : BOOLEAN, active : BOOLEAN, scan : BOOLEAN] /\ (Still => Still')
  BY <1>2 DEF Reboots, Still
<1> QED BY <1>1, <1>2, <1>3, EndKeeps

LEMMA LostKeeps == ASSUME ScanKnown, LosesAnswer PROVE ScanInv'
<1>1. /\ run.effect \in Effects /\ UNCHANGED <<script, receipt, before>> /\ run' \in Raised
      /\ unit' \in {unit, Applied(run.effect)} /\ sent' = [sent EXCEPT ![run.effect] = @ + 1]
  BY DEF LosesAnswer, ScanKnown, ScanInv, Types, Runs
<1>2. unit \in [enabled : BOOLEAN, active : BOOLEAN, scan : BOOLEAN] /\ sent \in [Effects -> {0, 1}]
  BY DEF ScanKnown, ScanInv, Types
<1>3. /\ receipt.phase # "none" /\ receipt.effects[run.effect] = "submitted" /\ sent[run.effect] = 0
      /\ Mixed => run.effect \in {"install_stop_timer", "restore_stop_timer"}
  <2>1. run.effect # "none"
    BY DEF LosesAnswer
  <2> QED BY <2>1, CallKnown
<1>4. /\ sent' \in [Effects -> {0, 1}] /\ \A e \in Effects \ {run.effect} : sent'[e] = sent[e]
  BY <1>1, <1>2, <1>3
<1>5. unit' \in [enabled : BOOLEAN, active : BOOLEAN, scan : BOOLEAN] /\ (Mixed /\ Still => Still')
  BY <1>1, <1>2, <1>3, AppliedIs DEF ScanKnown, ScanInv, Still
<1> QED BY <1>1, <1>3, <1>4, <1>5, EndKeeps

LEMMA CommandKeeps == ASSUME ScanKnown, NEW cmd \in {"install", "restore"}, CommandSteps(cmd) PROVE ScanInv'
<1>1. CASE Stops(cmd)
  <2>1. StopTimer(cmd) \in Effects \cap {"install_stop_timer", "restore_stop_timer"}
    BY DEF StopTimer, Effects, InstallEffects, RestoreEffects
  <2> QED BY <1>1, <2>1, SubmitKeeps DEF Stops, Ready
<1>2. CASE Stopped(cmd)
  <2>1. run.cmd = "restore" => Still
    BY <1>2 DEF Stopped, Ready, NoScan, Armed, Still
  <2> QED BY <1>2, <2>1, GoKeeps DEF Stopped, Ready, Places
<1>3. CASE Controls(cmd)
  <2>1. PICK e \in Due(cmd) : Submits(e)
    BY <1>3 DEF Controls
  <2>2. e \in Effects
    BY DEF Due, Effects, InstallEffects, RestoreEffects
  <2> QED BY <1>3, <2>1, <2>2, SubmitKeeps DEF Controls, Ready
<1>4. CASE FilesDone(cmd)
  <2>1. \A f \in ScanFiles : receipt.files[f] = IF run.cmd = "install" THEN "installed" ELSE "restored"
    BY <1>4 DEF FilesDone, ToRestore, Ready
  <2> QED BY <1>4, <2>1, GoKeeps DEF FilesDone, Ready, Places
<1>5. CASE Confirmed(cmd)
  BY <1>5, ConfirmedKeeps
<1> QED BY <1>1, <1>2, <1>3, <1>4, <1>5, EndsKeep DEF CommandSteps

LEMMA InstallsKeep == ASSUME ScanKnown, Installs PROVE ScanInv'
<1>1. Ready("install", "files") /\ Checked
  BY DEF Installs, Ready, ScanKnown, ScanInv, Seen
<1>2. CASE \E f \in ScanFiles : receipt.files[f] = "pending" /\ Notes(f, "install_submitted")
  BY <1>1, <1>2, MarkKeeps DEF Ready, Checked, MayBe, FileStates
<1>3. CASE \E f \in ScanFiles : script[f] = "new" /\ Notes(f, "installed")
  BY <1>1, <1>3, MarkKeeps DEF Ready, MayBe, FileStates
<1>4. CASE \E f \in ScanFiles : receipt.files[f] = "install_submitted" /\ Writes(f, "new")
  BY <1>4, WriteKeeps
<1> QED BY <1>2, <1>3, <1>4 DEF Installs

LEMMA RestoresKeep == ASSUME ScanKnown, Restores PROVE ScanInv'
<1>1. CASE \E f \in ToRestore : /\ run.at = "files" /\ Checked /\ Goes(f)
                                /\ UNCHANGED <<script, unit, sent, before>>
                                /\ receipt' = [receipt EXCEPT !.files[f] = "restore_submitted"]
  BY <1>1, PutBackKeeps DEF Restores, ToRestore
<1>2. CASE run.at \in ScanFiles /\ Writes(run.at, "previous")
  <2>1. receipt.files[run.at] = "restore_submitted"
    BY <1>2 DEF ScanKnown, ScanInv, Filed
  <2> QED BY <1>2, <2>1, WriteKeeps
<1>3. CASE /\ run.at \in ScanFiles /\ script[run.at] = "previous" /\ Goes("files") /\ UNCHANGED <<script, unit, sent, before>>
           /\ receipt' = [receipt EXCEPT !.files[run.at] = "restored"]
  BY <1>3, PutKeeps DEF Restores
<1> QED BY <1>1, <1>2, <1>3 DEF Restores

LEMMA ScanStep == ScanInstallAssumption /\ ScanInv /\ [ScanNext]_scanVars => ScanInv'
<1> SUFFICES ASSUME ScanInstallAssumption, ScanInv, [ScanNext]_scanVars PROVE ScanInv'
  OBVIOUS
<1>0. ScanKnown
  BY DEF ScanKnown, ScanInstallAssumption, Places
<1>1. CASE \E cmd \in {"install", "restore"} : CommandSteps(cmd)
  BY <1>0, <1>1, CommandKeeps
<1>2. CASE UNCHANGED scanVars
  BY <1>2 DEF scanVars, ScanInv, Types, Commanded, Calling, Recorded, Filed, Seen, Checked, MayBe,
    Stilled, Mixed, Still,
    Remembered
<1> QED BY <1>0, <1>1, <1>2, FiresKeeps, RebootKeeps, EditKeeps, SendKeeps, LostKeeps, EndsKeep,
      InstallsKeep,
  RestoresKeep, BeginKeeps, RollbackKeeps, RestoreKeeps, RemovesKeeps DEF ScanNext

LEMMA ScanBegins == ScanInstallAssumption /\ ScanInit => ScanInv
<1> SUFFICES ASSUME ScanInit, ScanInstallAssumption PROVE ScanInv
  OBVIOUS
<1>1. receipt = NoReceipt /\ run = NoRun /\ sent = [e \in Effects |-> 0] /\ before = unit
  BY DEF ScanInit
<1>2. receipt \in ScanReceipts /\ receipt.phase = "none"
      /\ receipt.files = [f \in ScanFiles |-> "pending"]
  BY <1>1 DEF NoReceipt, ScanReceipts, FileStates
<1>3. run \in Runs /\ run.cmd = "none" /\ run.at = "none" /\ run.effect = "none"
  BY <1>1 DEF NoRun, Runs, Places
<1>4. /\ script \in [ScanFiles -> {"previous", "new", "foreign"}] /\ "none" \notin ScanFiles
      /\ unit \in [enabled : BOOLEAN, active : BOOLEAN, scan : BOOLEAN]
  <2>1. PICK on \in BOOLEAN : unit = [enabled |-> on, active |-> on, scan |-> FALSE]
    BY DEF ScanInit
  <2>2. script = [f \in ScanFiles |-> "previous"] /\ "none" \notin ScanFiles
    BY DEF ScanInit, ScanInstallAssumption
  <2> QED BY <2>1, <2>2
<1>5. sent \in [Effects -> {0, 1}] /\ \A e \in Effects : sent[e] = 0
  BY <1>1
<1>6. Types /\ Commanded /\ Calling /\ Recorded
  BY <1>1, <1>2, <1>3, <1>4, <1>5 DEF Types, Commanded, Calling, Recorded
<1>7. Filed /\ Seen /\ Stilled /\ Remembered
  BY <1>1, <1>2, <1>3, <1>4 DEF Filed, Seen, Stilled, Mixed, Remembered
<1> QED BY <1>6, <1>7 DEF ScanInv

-----------------------------------------------------------------------------
(* What it is for *)

LEMMA ScanKeepsSafe == ScanInv => InstallSafe
<1> SUFFICES ASSUME ScanInv PROVE InstallSafe
  OBVIOUS
<1>1. ScanTypeOK
  BY DEF ScanInv, Types, Filed, ScanReceipts, Runs, Places, ScanTypeOK
<1>2. SentOnce
  BY DEF ScanInv, Types, SentOnce
<1>3. NoScanOnMixed
  BY DEF ScanInv, Stilled, Mixed, Still, NoScanOnMixed
<1> QED BY <1>1, <1>2, <1>3 DEF InstallSafe

LEMMA ScanWrites == ScanInstallAssumption /\ ScanInv /\ [ScanNext]_scanVars => InstallStep
<1> SUFFICES ASSUME ScanInstallAssumption, ScanInv, [ScanNext]_scanVars PROVE InstallStep
  OBVIOUS
<1>1. ASSUME receipt.phase # "none", receipt'.phase = "none"
      PROVE  /\ \A f \in ScanFiles : script[f] = "previous"
             /\ unit.enabled = before.enabled /\ unit.active = before.active
  <2>0. receipt \in ScanReceipts
    BY DEF ScanInv, Types
  <2>3. ~ Sends /\ ~ Installs /\ ~ Restores /\ ~ BeginsInstall /\ ~ BeginsRestore
    BY <1>1, <2>0 DEF Sends, Installs, Notes, Writes, Restores, BeginsInstall, BeginsRestore,
      NoReceipt, ScanReceipts
  <2>4. ASSUME NEW cmd \in {"install", "restore"} PROVE ~ CommandSteps(cmd)
    BY <1>1, <2>0
      DEF CommandSteps, Stops, Submits, Stopped, Refused, FilesDone, Unexpected, Controls, Confirmed, Unconfirmed, ScanReceipts
  <2>1. Removes
    BY <1>1, <2>3, <2>4 DEF ScanNext, scanVars, Fires, Reboots, FileEdited, LosesAnswer,
      CommandFails, BeginsRollback, GivesUp
  <2>2. run.cmd = "restore" /\ run.at = "remove"
    BY <2>1 DEF Removes, Ready
  <2> QED BY <1>1, <2>2 DEF ScanInv, Filed, Seen, Checked, MayBe, Remembered
<1>2. ASSUME NEW f \in ScanFiles, script[f] = "foreign", receipt.phase # "none" PROVE script'[f] = "foreign"
  <2>1. CASE Installs
    <3>1. Checked
      BY <2>1 DEF Installs, Ready, ScanInv, Seen
    <3> QED BY <1>2, <2>1, <3>1 DEF Installs, Notes, Writes, Checked, MayBe, ScanInv, Types
  <2>2. CASE Restores
    <3>1. run.at \in ScanFiles => receipt.files[run.at] = "restore_submitted"
          /\ script[run.at] \in {"previous", "new"}
      BY <2>2 DEF Restores, ScanInv, Filed, Seen, Checked, MayBe, ScanInstallAssumption
    <3> QED BY <1>2, <2>2, <3>1 DEF Restores, Writes, ScanInv, Types
  <2>3. CASE FileEdited
    BY <1>2, <2>3 DEF FileEdited, ScanInv, Types
  <2>4. CASE BeginsInstall
    BY <1>2, <2>4 DEF BeginsInstall
  <2>5. CASE UNCHANGED script
    BY <1>2, <2>5
  <2> QED BY <2>1, <2>2, <2>3, <2>4, <2>5
    DEF ScanNext, scanVars, Fires, Reboots, Sends, LosesAnswer, CommandFails, CommandSteps, Stops, Submits, Stopped, Refused, FilesDone,
    Unexpected, Controls, Confirmed, Unconfirmed, BeginsRollback, BeginsRestore, GivesUp, Removes
<1> QED BY <1>1, <1>2 DEF InstallStep, RestoredExactly, ForeignKept

\* For any files of the scanner, and any failures, reboots and edits: a call of
\* one receipt is sent once, no scan runs on files of which some are put back,
\* the receipt is given up only with everything as it was, and what somebody
\* else wrote is kept.
THEOREM ScanHolds == ScanInstallAssumption => (ScanSpec => []InstallSafe
/\ [][InstallStep]_scanVars)
<1> SUFFICES ASSUME ScanInstallAssumption PROVE ScanSpec => []InstallSafe
    /\ [][InstallStep]_scanVars
  OBVIOUS
<1>1. ScanInit => ScanInv
  BY ScanBegins
<1>2. ScanInv /\ [ScanNext]_scanVars => ScanInv'
  BY ScanStep
<1>3. ScanInv => InstallSafe
  BY ScanKeepsSafe
<1>4. ScanInv /\ [ScanNext]_scanVars => InstallStep
  BY ScanWrites
<1> QED BY <1>1, <1>2, <1>3, <1>4, PTL DEF ScanSpec

-----------------------------------------------------------------------------
(* The bootstrap and the installers, in the composition *)

\* A step moves the component that the behaviour exercises, and no other.
LEMMA PartStep ==
  ASSUME [AllNext]_allVars
  PROVE  /\ part' = part
         /\ part = "bootstrap" => [B!Next]_(B!vars)
         /\ part = "late" => [Late!Next]_(Late!vars)
         /\ [ScanNext]_scanVars
         /\ part = "archive" => [Archive!Next]_(Archive!vars)
         /\ part = "hub" => [Hub!Next]_(Hub!vars)
<1>1. part' = part /\ [ScanNext]_scanVars
  BY DEF AllNext, allVars
<1>2. part = "bootstrap" => [B!Next]_(B!vars)
  BY DEF AllNext, allVars, bVars, B!vars
<1>3. part = "late" => [Late!Next]_(Late!vars)
  BY DEF AllNext, allVars, bVars, Late!vars
<1>4. part = "archive" => [Archive!Next]_(Archive!vars)
  BY DEF AllNext, allVars, oVars, Archive!vars
<1>5. part = "hub" => [Hub!Next]_(Hub!vars)
  BY DEF AllNext, allVars, oVars, Hub!vars
<1> QED BY <1>1, <1>2, <1>3, <1>4, <1>5

\* What holds in every state while one bootstrap or the other runs, and one installer.
Bootstraps ==
  /\ part = "bootstrap" => B!BootInv
  /\ part = "late" => Late!BootInv
Installers ==
  /\ ScanInv
  /\ part = "archive" => Archive!OwnedInv
  /\ part = "hub" => Hub!OwnedInv

LEMMA BootstrapsBegin == AllInit => Bootstraps
BY InstancesAssumption, B!BootInit, Late!BootInit DEF AllInit, Bootstraps

LEMMA BootstrapsGoOn == Bootstraps /\ [AllNext]_allVars => Bootstraps'
<1> SUFFICES ASSUME Bootstraps, [AllNext]_allVars PROVE Bootstraps'
  OBVIOUS
<1>1. part' = part
  BY PartStep
<1>2. part = "bootstrap" => B!BootInv'
  BY InstancesAssumption, PartStep, B!BootStep DEF Bootstraps
<1>3. part = "late" => Late!BootInv'
  BY InstancesAssumption, PartStep, Late!BootStep DEF Bootstraps
<1> QED BY <1>1, <1>2, <1>3 DEF Bootstraps

\* In the composed specification, with executors that take their lock before or after
\* their command is killed: a bootstrap sends each effect once, starts the new proxy only
\* over the staged files, and leaves nothing when it is aborted.
THEOREM StartHolds == AllSpec => []BootstrapSafe
<1>1. Bootstraps => BootstrapSafe
  BY B!BootKeepsSafe, Late!BootKeepsSafe DEF Bootstraps, BootstrapSafe
<1> QED BY <1>1, BootstrapsBegin, BootstrapsGoOn, PTL DEF AllSpec

LEMMA InstallersBegin == AllInit => Installers
<1>1. AllInit => ScanInv
  BY InstancesAssumption, ScanBegins DEF AllInit
<1>2. AllInit /\ part = "archive" => Archive!OwnedInv
  BY InstancesAssumption, Archive!OwnedInit DEF AllInit
<1>3. AllInit /\ part = "hub" => Hub!OwnedInv
  BY InstancesAssumption, Hub!OwnedInit DEF AllInit
<1> QED BY <1>1, <1>2, <1>3 DEF Installers

LEMMA InstallersGoOn == Installers /\ [AllNext]_allVars => Installers'
<1> SUFFICES ASSUME Installers, [AllNext]_allVars PROVE Installers'
  OBVIOUS
<1>1. part' = part
  BY PartStep
<1>2. ScanInv'
  BY InstancesAssumption, PartStep, ScanStep DEF Installers
<1>3. part = "archive" => Archive!OwnedInv'
  BY InstancesAssumption, PartStep, Archive!OwnedStep DEF Installers
<1>4. part = "hub" => Hub!OwnedInv'
  BY InstancesAssumption, PartStep, Hub!OwnedStep DEF Installers
<1> QED BY <1>1, <1>2, <1>3, <1>4 DEF Installers

\* In the composed specification, for all files: the installers send a systemctl call of
\* one receipt once, own what they leave behind, and let no scan run on mixed files.
THEOREM InstallersHold == AllSpec => []InstallsSafe
<1>1. Installers => InstallsSafe
  <2> SUFFICES ASSUME Installers PROVE InstallsSafe
    OBVIOUS
  <2>1. InstallSafe
    BY ScanKeepsSafe DEF Installers
  <2>2. part = "archive" => Archive!InstallSafe
    BY InstancesAssumption, Archive!OwnedKeepsSafe DEF Installers
  <2>3. part = "hub" => Hub!InstallSafe
    BY InstancesAssumption, Hub!OwnedKeepsSafe DEF Installers
  <2> QED BY <2>1, <2>2, <2>3 DEF InstallsSafe
<1> QED BY <1>1, InstallersBegin, InstallersGoOn, PTL DEF AllSpec

-----------------------------------------------------------------------------
(* What no step of the composition does *)

StepsAccept ==
  /\ part = "queue" => WriteStep
  /\ part = "maintenance" => M!StoreAccepts
  /\ part = "bootstrap" => B!StoreAccepts
  /\ part = "late" => Late!StoreAccepts
  /\ part = "scan" => InstallStep
  /\ part = "archive" => Archive!InstallStep
  /\ part = "hub" => Hub!InstallStep

LEMMA StepAccepted ==
  QueueInv /\ M!MaintenanceInv /\ Bootstraps /\ Installers /\ [AllNext]_allVars
    => StepsAccept \/ UNCHANGED allVars
<1> SUFFICES ASSUME QueueInv, M!MaintenanceInv, Bootstraps, Installers, AllNext PROVE StepsAccept
  OBVIOUS
<1>0. [AllNext]_allVars
  OBVIOUS
<1>1. WriteStep
  BY <1>0, InstancesAssumption, QueueStepIn, QueueWrites
<1>2. part = "maintenance" => M!StoreAccepts
  <2>1. part = "maintenance" => M!Next
    BY DEF AllNext
  <2> QED BY <2>1, M!Written
<1>3. part = "bootstrap" => B!StoreAccepts
  BY <1>0, InstancesAssumption, PartStep, B!BootAccepts DEF Bootstraps
<1>4. part = "late" => Late!StoreAccepts
  BY <1>0, InstancesAssumption, PartStep, Late!BootAccepts DEF Bootstraps
<1>5. InstallStep
  BY <1>0, InstancesAssumption, PartStep, ScanWrites DEF Installers
<1>6. part = "archive" => Archive!InstallStep
  BY <1>0, InstancesAssumption, PartStep, Archive!OwnedWrites DEF Installers
<1>7. part = "hub" => Hub!InstallStep
  BY <1>0, InstancesAssumption, PartStep, Hub!OwnedWrites DEF Installers
<1> QED BY <1>1, <1>2, <1>3, <1>4, <1>5, <1>6, <1>7 DEF StepsAccept

\* In the composed specification: what is put in place is valid and in its order, the
\* store is asked for no transition it refuses, and an installer gives up its receipt
\* only with everything as it was and never overwrites what somebody else wrote.
THEOREM StepsHold == AllSpec => StepsAccepted
<1> DEFINE Inv == QueueInv /\ M!MaintenanceInv /\ Bootstraps /\ Installers
<1>1. AllInit => Inv
  BY InstancesAssumption, QueueInit, M!MaintenanceInit, BootstrapsBegin, InstallersBegin DEF AllInit
<1>2. Inv /\ [AllNext]_allVars => Inv'
  <2> SUFFICES ASSUME Inv, [AllNext]_allVars PROVE Inv'
    OBVIOUS
  <2>1. QueueInv'
    BY InstancesAssumption, QueueStep, QueueStepIn
  <2>2. M!MaintenanceInv'
    BY InstancesAssumption, MaintenanceStep, M!MaintenanceNext
  <2> QED BY <2>1, <2>2, BootstrapsGoOn, InstallersGoOn
<1>3. Inv /\ [AllNext]_allVars => [StepsAccept]_allVars
  BY StepAccepted
<1>4. [][StepsAccept]_allVars => StepsAccepted
  BY PTL DEF StepsAccepted, StepsAccept
<1> HIDE DEF Inv
<1> QED BY <1>1, <1>2, <1>3, <1>4, PTL DEF AllSpec
===============================================================================
