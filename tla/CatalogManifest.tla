--------------------------- MODULE CatalogManifest ---------------------------
(***************************************************************************)
(* What the catalog of the running scheduler promises about the models it  *)
(* has, the models it removed and the native profile of the maintenance    *)
(* adapter (llmsvc/catalog.py, native_profile.py, maintenance_apply.py).   *)
(*                                                                         *)
(* The transaction itself (receipt, effects, proofs) is in Maintenance:    *)
(* here it is a phase, and the module follows the data it carries: the     *)
(* manifest (active and retained models), the rows of the native profile,  *)
(* the snapshot that proves a removed model absent, the pins and leases    *)
(* that arrive while it waits, and the bridges of replaced generations.    *)
(* A model's unit carries its name, so only ports can be shared.           *)
(***************************************************************************)
EXTENDS Naturals, FiniteSets

CONSTANTS Names,     \* models
          Ports,     \* daemon ports
          Cmds,      \* versions of a command line
          Resident,  \* [Names -> Ports \cup {0}]: the first configuration
          Defaults,  \* its default models, which are in the startup preload
          Kinds,     \* the edits of the instance
          Pinnable,  \* the models anybody pins
          Reconciles \* whether a transaction is ever finished by a reconciliation

CatalogAssumption ==
  /\ Resident \in [Names -> Ports \cup {0}]
  /\ \A n, m \in Names : n # m /\ Resident[n] # 0 => Resident[n] # Resident[m]
  /\ 0 \notin Ports \cup Cmds /\ Cmds # {}
  /\ Defaults \subseteq {n \in Names : Resident[n] # 0}
  /\ Kinds \subseteq {"add", "remove", "command"}
  /\ Reconciles \in BOOLEAN

VARIABLES file,      \* the live configuration: [port, cmd, default]
          active_models,  \* the manifest: port of each active model, 0 if none
          retained,  \* the manifest: port of each removed model still observed
          txn,       \* the transaction and the candidate it carries
          rows,      \* the native profile: command of each model, 0 if no row
          retire,    \* the rows to drop or to renew after the release
          snapshot,  \* the snapshot: usable, and the models it shows stopped
          units,     \* port each model's unit listens on, 0 if it is stopped
          starting,   \* models with a start under way
          leased,    \* models with a lease, a fault or a recovery record
          pins,
          bridges        \* bridges of replaced generations: handles kept, bridges open
manifestVars == <<file, active_models, retained, txn, rows, retire, snapshot, units,
                  starting, leased, pins, bridges>>

Some == CHOOSE c \in Cmds : TRUE
NoTransaction == [phase |-> "none"]
NoRows == [of |-> "none", removed |-> {}, updated |-> {}]
Unobserved == [ok |-> FALSE, stopped |-> {}]
Closed == [kept |-> 0, open |-> 0]

ManifestInit ==
  /\ file = [port |-> Resident, cmd |-> [n \in Names |-> Some], default |-> Defaults]
  /\ active_models = Resident
  /\ retained = [n \in Names |-> 0]
  /\ txn = NoTransaction
  /\ rows = [n \in Names |-> IF Resident[n] = 0 THEN 0 ELSE Some]
  /\ retire = NoRows
  /\ snapshot = Unobserved
  /\ units = [n \in Names |-> 0]
  /\ starting = {} /\ leased = {} /\ pins = {}
  /\ bridges = Closed

In(ports) == {n \in Names : ports[n] # 0}
Fenced == txn.phase \notin {"none", "queued"}
QuietNow == starting = {}

-----------------------------------------------------------------------------
(* What a candidate needs. *)

References == leased \cup starting
InUse(n) == n \in References \/ ~snapshot.ok \/ n \notin snapshot.stopped

Retains(ports) ==
  [n \in Names |-> IF ports[n] # 0 THEN 0
                   ELSE IF active_models[n] # 0 THEN active_models[n]
                   ELSE IF InUse(n) THEN retained[n] ELSE 0]

Membership(was, is) ==
  LET removed == In(was.port) \ In(is.port)
  IN removed \cap pins = {} /\ removed \cap was.default = {}

Reactivation(kept, ports) == \A n \in In(kept) \cap In(ports) : ~InUse(n)

NoAlias(ports) ==
  /\ \A n, m \in In(ports) : n # m => ports[n] # ports[m]
  /\ \A n \in In(Retains(ports)), m \in In(ports) : Retains(ports)[n] # ports[m]

\* prepare: the profile of a known model stays, except a default given up
Prepared(cand) ==
  /\ \A n \in In(cand.port) :
       /\ active_models[n] # 0 => cand.port[n] = active_models[n]
       /\ retained[n] # 0 => cand.port[n] = retained[n] /\ ~InUse(n)
  /\ cand.default \subseteq file.default
  /\ NoAlias(cand.port)
  /\ Membership(file, cand)

\* maintenance_apply: a model whose command changes is seen stopped
Changed(cand) ==
  {n \in In(file.port) \cap In(cand.port) : file.cmd[n] # cand.cmd[n]}
CommandsStopped(cand) ==
  Changed(cand) # {} => snapshot.ok /\ Changed(cand) \subseteq snapshot.stopped

-----------------------------------------------------------------------------
(* Submission. *)

\* what the registry and the operator's apply send
Added(n, p) ==
  [file EXCEPT !.port[n] = p, !.cmd[n] = Some]
Removed(n) ==
  [file EXCEPT !.port[n] = 0, !.default = @ \ {n}]
Recommanded(n, c) ==
  [file EXCEPT !.cmd[n] = c, !.default = @ \ {n}]
Candidates ==
  {Added(n, p) : n \in (IF "add" \in Kinds THEN Names \ In(file.port) ELSE {}),
                 p \in Ports}
  \cup {Removed(n) : n \in (IF "remove" \in Kinds THEN In(file.port) ELSE {})}
  \cup {Recommanded(n, c) : n \in (IF "command" \in Kinds THEN In(file.port) ELSE {}),
                            c \in Cmds}

Sync(cand) ==
  [n \in Names |-> IF n \in In(cand.port) \ In(file.port) THEN cand.cmd[n] ELSE rows[n]]

ToRetire(cand) ==
  LET removed == In(file.port) \ In(cand.port)
      updated == Changed(cand)
  IN IF removed \cup updated # {}
     THEN [of |-> "this", removed |-> removed, updated |-> updated]
     ELSE [retire EXCEPT !.of = IF @ = "none" THEN @ ELSE "earlier"]

Submit(cand) ==
  /\ txn.phase = "none" /\ QuietNow
  /\ cand # file
  /\ Prepared(cand) /\ CommandsStopped(cand)
  /\ txn' = [phase |-> "queued", base |-> file, cand |-> cand,
             kept |-> retained, retains |-> Retains(cand.port), owned |-> FALSE]
  /\ rows' = Sync(cand)
  /\ retire' = ToRetire(cand)
  /\ UNCHANGED <<file, active_models, retained, snapshot, units, starting, leased, pins, bridges>>

-----------------------------------------------------------------------------
(* The transaction. *)

Phase(p) == txn' = [txn EXCEPT !.phase = p]
Finishes == txn' = NoTransaction

Expires ==
  /\ txn.phase = "queued"
  /\ Finishes
  /\ UNCHANGED <<file, active_models, retained, rows, retire, snapshot, units, starting, leased, pins, bridges>>

\* process_once: the evidence is taken again before the durable claim
Claims ==
  /\ txn.phase = "queued" /\ QuietNow
  /\ Membership(txn.base, txn.cand)
  /\ Reactivation(txn.kept, txn.cand.port)
  /\ CommandsStopped(txn.cand)
  /\ txn' = [txn EXCEPT !.phase = "claimed", !.owned = TRUE]
  /\ UNCHANGED <<file, active_models, retained, rows, retire, snapshot, units, starting, leased, pins, bridges>>

Aborts ==
  /\ txn.phase = "claimed"
  /\ Finishes
  /\ UNCHANGED <<file, active_models, retained, rows, retire, snapshot, units, starting, leased, pins, bridges>>

Replaces ==
  /\ txn.phase = "claimed" /\ txn.owned
  /\ file' = txn.cand
  /\ Phase("replaced")
  /\ UNCHANGED <<active_models, retained, rows, retire, snapshot, units, starting, leased, pins, bridges>>

\* _publish: a new collector, transport, bridge and epoch; nothing is known yet
\* Bug: the sample of the replaced generation stays
ShowsWithSample(ports, kept) ==
  /\ active_models' = ports /\ retained' = kept
  /\ bridges' = [kept |-> bridges.kept + 1, open |-> bridges.open + 1] /\ snapshot' = snapshot
Shows(ports, kept) ==
  /\ active_models' = ports /\ retained' = kept
  /\ bridges' = [kept |-> bridges.kept + 1, open |-> bridges.open + 1] /\ snapshot' = Unobserved

PublishesCandidate ==
  /\ txn.phase = "replaced"
  /\ Membership(txn.base, txn.cand)
  /\ Reactivation(txn.kept, txn.cand.port)
  /\ Shows(txn.cand.port, txn.retains)
  /\ Phase("published")
  /\ UNCHANGED <<file, rows, retire, units, starting, leased, pins>>

\* the old collectors and bridges are closed outside the lock, and kept if not
ClosesOld ==
  /\ bridges.kept > 0
  /\ bridges' = [kept |-> bridges.kept - 1, open |-> bridges.open - 1]
Retires ==
  /\ txn.phase \in {"published", "restored"}
  /\ ClosesOld
  /\ UNCHANGED <<file, active_models, retained, txn, rows, retire, snapshot, units, starting, leased, pins>>

ReleaseReady ==
  /\ bridges.kept = 0
  /\ Membership(txn.base, txn.cand)
  /\ In(txn.kept) \cap In(txn.cand.port) \cap References = {}

\* _retire_native_profile: only the rows of the job that was released
RetiredRows ==
  IF retire.of # "this" THEN rows
  ELSE [n \in Names |-> IF n \in retire.removed THEN 0
                        ELSE IF n \in retire.updated THEN file.cmd[n] ELSE rows[n]]

Releases ==
  /\ txn.phase = "published" /\ txn.owned
  /\ ReleaseReady
  /\ rows' = RetiredRows
  /\ retire' = NoRows
  /\ Finishes
  /\ UNCHANGED <<file, active_models, retained, snapshot, units, starting, leased, pins, bridges>>

\* a step failed: the fence stays until somebody reconciles
Fails ==
  /\ Fenced /\ txn.owned
  /\ txn' = [txn EXCEPT !.owned = FALSE]
  /\ UNCHANGED <<file, active_models, retained, rows, retire, snapshot, units, starting, leased, pins, bridges>>

\* reconcile proves, publishes and retires as above, and releases
Reconciled ==
  /\ Reconciles
  /\ txn.phase = "published" /\ ~txn.owned
  /\ ReleaseReady
  /\ Finishes
  /\ UNCHANGED <<file, active_models, retained, rows, retire, snapshot, units, starting, leased, pins, bridges>>

RollsBack ==
  /\ txn.phase \in {"replaced", "published"} /\ ~txn.owned
  /\ file' = txn.base
  /\ Shows(txn.base.port, txn.kept)
  /\ Phase("restored")
  /\ UNCHANGED <<rows, retire, units, starting, leased, pins>>

FinishesBase ==
  /\ txn.phase = "restored" /\ bridges.kept = 0
  /\ Finishes
  /\ UNCHANGED <<file, active_models, retained, rows, retire, snapshot, units, starting, leased, pins, bridges>>

\* a crash loses the queued job, the rows to retire, the snapshot and the handles
Restarts ==
  /\ Reconciles
  /\ txn' = IF Fenced THEN [txn EXCEPT !.owned = FALSE] ELSE NoTransaction
  /\ retire' = NoRows /\ snapshot' = Unobserved /\ bridges' = Closed
  /\ UNCHANGED <<file, active_models, retained, rows, units, starting, leased, pins>>

-----------------------------------------------------------------------------
(* The scheduler around it. *)

Observes ==
  /\ snapshot' = [ok |-> TRUE, stopped |-> {n \in In(active_models) \cup In(retained) : units[n] = 0}]
  /\ UNCHANGED <<file, active_models, retained, txn, rows, retire, units, starting, leased, pins, bridges>>

Ages ==
  /\ snapshot.ok
  /\ snapshot' = [snapshot EXCEPT !.ok = FALSE]
  /\ UNCHANGED <<file, active_models, retained, txn, rows, retire, units, starting, leased, pins, bridges>>

\* a placement is granted: the fence and active_models decide
Places(n) ==
  /\ ~Fenced /\ n \in In(active_models) /\ units[n] = 0 /\ n \notin References
  /\ starting' = starting \cup {n}
  /\ UNCHANGED <<file, active_models, retained, txn, rows, retire, snapshot, units, leased, pins, bridges>>

Lands(n) ==
  /\ n \in starting
  /\ starting' = starting \ {n}
  /\ \E up \in BOOLEAN :
       IF up THEN units' = [units EXCEPT ![n] = active_models[n]] /\ leased' = leased \cup {n}
             ELSE UNCHANGED <<units, leased>>
  /\ UNCHANGED <<file, active_models, retained, txn, rows, retire, snapshot, pins, bridges>>

\* an operator starts the unit of an active model without an account
ByHand(n) ==
  /\ ~Fenced /\ n \in In(active_models) /\ units[n] = 0 /\ n \notin References
  /\ units' = [units EXCEPT ![n] = active_models[n]]
  /\ UNCHANGED <<file, active_models, retained, txn, rows, retire, snapshot, starting, leased, pins, bridges>>

Stops(n) ==
  /\ units[n] # 0
  /\ units' = [units EXCEPT ![n] = 0]
  /\ UNCHANGED <<file, active_models, retained, txn, rows, retire, snapshot, starting, leased, pins, bridges>>

Frees(n) ==
  /\ n \in leased /\ units[n] = 0
  /\ leased' = leased \ {n}
  /\ UNCHANGED <<file, active_models, retained, txn, rows, retire, snapshot, units, starting, pins, bridges>>

\* write_pin knows every model of the published configuration, fence or not
Pin(n) ==
  /\ n \in Pinnable /\ n \in In(active_models) \cup In(retained)
  /\ pins' \in {pins \cup {n}, pins \ {n}}
  /\ UNCHANGED <<file, active_models, retained, txn, rows, retire, snapshot, units, starting, leased, bridges>>

ManifestNext ==
  \/ \E cand \in Candidates : Submit(cand)
  \/ Expires \/ Claims \/ Aborts \/ Replaces \/ PublishesCandidate \/ Retires
  \/ Releases \/ Fails \/ Reconciled \/ RollsBack \/ FinishesBase \/ Restarts
  \/ Observes \/ Ages
  \/ \E n \in Names : Places(n) \/ Lands(n) \/ ByHand(n) \/ Stops(n) \/ Frees(n) \/ Pin(n)

ManifestSpec == ManifestInit /\ [][ManifestNext]_manifestVars

-----------------------------------------------------------------------------
(* Properties. *)

\* The manifest names no model twice, and the transaction is in a known phase.
ManifestTypeOK ==
  /\ active_models \in [Names -> Ports \cup {0}] /\ retained \in [Names -> Ports \cup {0}]
  /\ \A n \in Names : active_models[n] = 0 \/ retained[n] = 0
  /\ rows \in [Names -> Cmds \cup {0}]
  /\ txn.phase \in {"none", "queued", "claimed", "replaced", "published", "restored"}
  /\ pins \subseteq Names /\ leased \subseteq Names /\ starting \subseteq Names
  /\ bridges \in [kept : 0..2, open : 0..2]

\* Two units never listen on one port: the port of a removed model is given to
\* another one only when its unit is proven stopped, however long it kept running
\* after the removal and however often the configuration was published since
\* (prepare, _retained_required, connect_registry).
PortsApart ==
  \A n, m \in Names : n # m /\ units[n] # 0 => units[n] # units[m]

\* A removed model becomes active again only while nothing of it is left: no
\* unit, lease, fault or recovery that the new generation would take for its own
\* (_check_reactivation, before the claim and again before the publication).
ReactivatedClean ==
  \A n \in Names : txn.phase = "replaced" /\ retained[n] # 0 /\ active_models'[n] # 0
       => units[n] = 0 /\ n \notin leased \cup starting

\* While the adapter works, every model of the old and of the new configuration
\* has a row in its profile: it refuses the candidate, or cannot attribute the
\* old instance, otherwise (_sync_native_profile, _retire_native_profile).
RowsPresent ==
  txn.phase \in {"claimed", "replaced", "published", "restored"} =>
    \A n \in Names : txn.base.port[n] # 0 \/ txn.cand.port[n] # 0 => rows[n] # 0

\* A generation that removes a model is released only while the model is not
\* pinned, also when the pin came after the claim (_release_ready).
PinnedStays ==
  txn.phase = "published" /\ txn'.phase = "none"
    => \A n \in pins : txn.base.port[n] # 0 => file'.port[n] # 0

\* Once the fence is lifted, no bridge of a replaced generation is still open and
\* counting requests (retire, _release_ready).
OneBridge == txn.phase \in {"none", "queued"} => bridges.open = 0

\* A settled configuration is one the profile describes: every model's row has
\* its command (maintenance_apply: the row follows the new command after release).
RowsFollow ==
  txn.phase = "none" => \A n \in Names : file.port[n] # 0 => rows[n] = file.cmd[n]

\* What the catalog promises in every state, and of every step.
ManifestSound == ManifestTypeOK /\ PortsApart /\ RowsPresent /\ OneBridge
ManifestStep == ReactivatedClean /\ PinnedStays
=============================================================================
