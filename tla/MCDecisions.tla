----------------------------- MODULE MCDecisions -----------------------------
(***************************************************************************)
(* What is decided and what is configured, one component at a time. The    *)
(* decisions on a snapshot (llmsvc/policy): what is put to sleep or        *)
(* stopped for memory, idle time and `free`, where a model is placed, and  *)
(* when a request that does not fit is refused. The configuration: the     *)
(* transforms of the registry beside an administrator's edits, what the    *)
(* catalog promises about the models it has, removed and retained, and the *)
(* reconciler that follows the directories of the users. The planners on a *)
(* snapshot share `snap` and `plan`.                                       *)
(***************************************************************************)
EXTENDS Integers, CatalogManifest, TLC

VARIABLES
  part,
  snap, plan, first,
  now, world, reserved, sampler, rounds, published, request, seen,
  models, groups, admin, edits,  \* RegistryConfig
  \* CatalogManifest, where rows are renewed
  r_file, r_active, r_retained, r_txn, r_rows, r_retire, r_snapshot, r_units, r_starting, r_leased,
  r_pins, r_bridges,
  \* DirectoryReconciler
  disk, config, drift, runtime, sampled, pinned, job, fenced, stopping, resting, backoff, tick, strayed, bounds

wVars == <<now, world, reserved, sampler, rounds, published, request, seen>>
gVars == <<models, groups, admin, edits>>
cVars == <<r_file, r_active, r_retained, r_txn, r_rows, r_retire, r_snapshot, r_units, r_starting,
           r_leased, r_pins, r_bridges>>
dVars == <<disk, config, drift, runtime, sampled, pinned, job, fenced, stopping, resting, backoff, tick, strayed, bounds>>
decided == <<snap, plan, first, wVars>>
configured == <<gVars, manifestVars, cVars, dVars>>
vars == <<part, decided, configured>>

Missing == -1
Four == 1 .. 4
TwoGpus == {0, 1}
HomeOf == [m \in Four |-> IF m = 1 THEN 0 ELSE 1]

\* Three models whose amounts vary, and two of which anything may be unknown.
Amounts == INSTANCE MemoryPolicy WITH Models <- 1 .. 3, Default <- 2, Floor <- 1, Budget <- 3,
  GpuOf <- [m \in 1 .. 3 |-> HomeOf[m]], Exclusive <- 0, Resident <- 3,
  States <- {"awake", "sleeping"}, Guards <- {"none"}, Idles <- {0, 2}, Values <- {0, 1},
  Weights <- {1, 2}, Avails <- {0, 3}, Reports <- {0}, Pressures <- {"none"}, Needs <- {Missing, 2}
Unknowns == INSTANCE MemoryPolicy WITH Models <- 1 .. 2, Default <- 2, Floor <- 1, Budget <- 2,
  GpuOf <- [m \in 1 .. 2 |-> HomeOf[m]], Exclusive <- 0, Resident <- 3,
  States <- {"awake", "sleeping", "unknown"}, Guards <- {"none", "pinned_until"},
  Idles <- {Missing, 2}, Values <- {0}, Weights <- {Missing, 1}, Avails <- {Missing, 0},
  Reports <- {Missing}, Pressures <- {"none", "pressed", "unknown"}, Needs <- {Missing, 2}

\* Model 1 is the default, 2 and 3 are in the way, 4 is asked for.
Profile(state, home, guard, value, size, used, idle) ==
    [state |-> state, home |-> home, guard |-> guard, value |-> value, size |-> size, used |-> used, idle |-> idle]
Off(size) == Profile("stopped", Missing, "none", 0, size, FALSE, 2)
DefaultProfiles ==
    {Off(2), Off(3)} \cup {Profile(state, g, "none", 1, 2, TRUE, 2) : state \in {"awake", "sleeping"}, g \in TwoGpus}
Residents ==
    {Profile("awake", g, "none", 0, 2, TRUE, idle) : g \in TwoGpus, idle \in {0, 2}}
      \cup {Profile("sleeping", g, "none", value, size, TRUE, 2) : g \in TwoGpus, value \in {0, 2}, size \in {1, 2}}
      \cup {Profile("sleeping", g, "pinned_until", 0, 1, TRUE, 2) : g \in TwoGpus}
      \cup {Profile(state, 0, "none", 0, 1, TRUE, 2) : state \in {"starting", "unknown"}}
Passive ==
    {p \in Residents : p.guard = "none" /\ p.state # "unknown" /\ IF p.state = "awake" THEN p.idle = 2 ELSE p.size = 1}
Unused == {Profile("sleeping", g, "none", 0, 1, FALSE, 2) : g \in TwoGpus}
           \cup {Profile("unknown", Missing, "none", 0, 1, TRUE, 2)}
Grounds == [external : {[g \in TwoGpus |-> IF g = 0 THEN a ELSE b] : a \in {0, 1}, b \in {0, 1}} \ {[g \in TwoGpus |-> 1]},
            reserved : {[g \in TwoGpus |-> g \in R] : R \in {{}, {1}}}, avail : {0, 3}]
             \cup [external : {[g \in TwoGpus |-> 0]}, reserved : {[g \in TwoGpus |-> FALSE]}, avail : {Missing}]
Snap(f, ground) ==
    [state |-> [m \in Four |-> f[m].state], home |-> [m \in Four |-> f[m].home],
     guard |-> [m \in Four |-> f[m].guard], value |-> [m \in Four |-> f[m].value],
     size |-> [m \in Four |-> f[m].size], used |-> [m \in Four |-> f[m].used],
     idle |-> [m \in Four |-> f[m].idle], weight |-> [m \in Four |-> 1], sleeping |-> 0] @@ ground
Demands == {<<r, size>> \in (Residents \cup Unused) \X {2, 3, 4} : IF r \in Unused THEN size # 3 ELSE size # 4}
Snapshots ==
    {Snap(<<a, b[1], c, Off(b[2])>>, ground) : a \in DefaultProfiles, b \in Demands, c \in Passive, ground \in Grounds}
Placing == INSTANCE PlacementPolicy WITH Models <- Four, Default <- 1, Floor <- 1, Budget <- 3,
  Gpus <- TwoGpus, Exclusive <- 0, Pool <- TwoGpus, BestFit <- TRUE, Capacity <- 3, Threshold <- 1,
  Requested <- {1, 4}, Exclusions <- {{}, {0}}

\* A sampler that comes when it will, beside rounds of an action; a prompt one.
Waiting == INSTANCE PlacementGrace WITH Grace <- 2, Wait <- 3, Interval <- 2, MaxAge <- 3,
  Prompt <- FALSE, Threads <- {"sampler", "action"}
Prompted == INSTANCE PlacementGrace WITH Grace <- 2, Wait <- 5, Interval <- 6, MaxAge <- 3,
  Prompt <- TRUE, Threads <- {"sampler"}

\* A resident model and others that are cloned from it: scarce ports, then scarce names.
Serving == INSTANCE RegistryConfig WITH HandWritten <- {"base"}, HandPorts <- [n \in {"base"} |-> 1],
  ModelNames <- {"base", "a", "b"}, Aliases <- {},
  Limits <- {2}, Groups <- {"pool"}, DaemonPorts <- {1, 2, 3, 4}, WrapperPorts <- {6, 7, 8},
  ReservedPorts <- {3}, Utils <- {1}, DefaultLimit <- 1, MaxEdits <- 1
Naming == INSTANCE RegistryConfig WITH HandWritten <- {"base"}, HandPorts <- [n \in {"base"} |-> 1],
  ModelNames <- {"base", "a", "b"}, Aliases <- {"b"},
  Limits <- {}, Groups <- {"pool"}, DaemonPorts <- {1, 2, 4}, WrapperPorts <- {6, 7, 8},
  ReservedPorts <- {}, Utils <- {1}, DefaultLimit <- 1, MaxEdits <- 1

\* "a" is the default of the first configuration, "b" is in it too. Where models are
\* retained "c" can use their ports; where rows are renewed commands are edited.
PortsOf(names) == [n \in names |-> CASE n = "a" -> 1 [] n = "b" -> 2 [] OTHER -> 0]
FirstPorts == PortsOf(Names)
Renewing == INSTANCE CatalogManifest WITH Names <- {"a", "b"}, Ports <- {1, 2}, Cmds <- {1, 2},
  Resident <- PortsOf({"a", "b"}), Defaults <- {"a"}, Kinds <- {"add", "remove", "command"}, Pinnable <- {},
  Reconciles <- FALSE, file <- r_file, active_models <- r_active, retained <- r_retained, txn <- r_txn,
  rows <- r_rows, retire <- r_retire, snapshot <- r_snapshot, units <- r_units, starting <- r_starting,
  leased <- r_leased, pins <- r_pins, bridges <- r_bridges

\* Two directories that may declare one name; one whose limits somebody changes.
Two == {1, 2}
One == {1}
Declaring == INSTANCE DirectoryReconciler WITH Dirs <- Two, Names <- Two,
  MaxCandidates <- 2, FirstBackoff <- 1,
  MaxBackoff <- 1, Pinnable <- One, Wakeable <- {}, Drifting <- {}, MaxEdits <- 1, MaxFailures <- 0
Drifting == INSTANCE DirectoryReconciler WITH Dirs <- One, Names <- One,
  MaxCandidates <- 1, FirstBackoff <- 1,
  MaxBackoff <- 2, Pinnable <- One, Wakeable <- One, Drifting <- One, MaxEdits <- 2, MaxFailures <- 2

ASSUME InstancesAssumption ==
  /\ Amounts!ModelsAssumption /\ Amounts!PolicyAssumption
  /\ Unknowns!ModelsAssumption /\ Unknowns!PolicyAssumption
  /\ Placing!ModelsAssumption /\ Placing!PlacementAssumption
  /\ Waiting!GraceAssumption /\ Prompted!GraceAssumption
  /\ Serving!PortsAssumption /\ Naming!PortsAssumption
  /\ CatalogAssumption /\ Renewing!CatalogAssumption
  /\ Declaring!NumbersAssumption /\ Drifting!NumbersAssumption

Planners == {"amounts", "unknowns", "placing"}
Refusals == {"waiting", "prompted"}
Configurations == {"serving", "naming", "retaining", "renewing", "declaring", "drifting"}

\* The state of the components that a behaviour does not exercise.
NoPlan == snap = <<>> /\ plan = <<>>
NoRequest == Waiting!Init /\ world.hopeless
NoRegistry == models = <<>> /\ groups = <<>> /\ admin = <<>> /\ edits = 0
NoDirectories ==
  /\ disk = <<>> /\ config = <<>> /\ drift = {} /\ runtime = <<>> /\ sampled = <<>> /\ pinned = {} /\ job = <<>>
  /\ fenced = FALSE /\ stopping = 0 /\ resting = FALSE /\ backoff = <<>> /\ tick = <<>> /\ strayed = {} /\ bounds = <<>>

InitDecided ==
  \/ part = "amounts" /\ Amounts!Init /\ first = <<>> /\ NoRequest
  \/ part = "unknowns" /\ Unknowns!Init /\ first = <<>> /\ NoRequest
  \/ part = "placing" /\ Placing!Init /\ NoRequest
  \/ part = "waiting" /\ Waiting!Init /\ NoPlan /\ first = <<>>
  \/ part = "prompted" /\ Prompted!Init /\ NoPlan /\ first = <<>>
  \/ part \in Configurations /\ NoPlan /\ first = <<>> /\ NoRequest

InitConfigured ==
  /\ CASE part = "serving" -> Serving!RegistryInit [] part = "naming" -> Naming!RegistryInit [] OTHER -> NoRegistry
  /\ ManifestInit /\ Renewing!ManifestInit
  /\ CASE part = "declaring" -> Declaring!DirectoryInit [] part = "drifting" -> Drifting!DirectoryInit [] OTHER -> NoDirectories

Init == part \in Planners \cup Refusals \cup Configurations /\ InitDecided /\ InitConfigured

Next ==
  \/ part = "amounts" /\ Amounts!Next /\ UNCHANGED <<part, first, wVars, configured>>
  \/ part = "unknowns" /\ Unknowns!Next /\ UNCHANGED <<part, first, wVars, configured>>
  \/ part = "placing" /\ Placing!Next /\ UNCHANGED <<part, wVars, configured>>
  \/ part = "waiting" /\ Waiting!Next /\ UNCHANGED <<part, snap, plan, first, configured>>
  \/ part = "prompted" /\ Prompted!Next /\ UNCHANGED <<part, snap, plan, first, configured>>
  \/ part = "serving" /\ Serving!RegistryNext /\ UNCHANGED <<part, manifestVars, cVars, dVars, decided>>
  \/ part = "naming" /\ Naming!RegistryNext /\ UNCHANGED <<part, manifestVars, cVars, dVars, decided>>
  \/ part = "retaining" /\ ManifestNext /\ UNCHANGED <<part, gVars, cVars, dVars, decided>>
  \/ part = "renewing" /\ Renewing!ManifestNext /\ UNCHANGED <<part, gVars, manifestVars, dVars, decided>>
  \/ part = "declaring" /\ Declaring!DirectoryNext /\ UNCHANGED <<part, gVars, manifestVars, cVars, decided>>
  \/ part = "drifting" /\ Drifting!DirectoryNext /\ UNCHANGED <<part, gVars, manifestVars, cVars, decided>>

Spec == Init /\ [][Next]_vars

-----------------------------------------------------------------------------
(* Properties *)

\* Whatever a snapshot shows, a plan of policy/memory.py leaves pinned, used and
\* unknown models alone, keeps the host above its floor and the sleepers within
\* their budget after each of its steps, frees what it says and takes no more
\* than it needs.
MemoryPlansSound ==
  /\ part = "amounts" => Amounts!PlansSound
  /\ part = "unknowns" => Unknowns!UnknownsSound

\* A placement of policy/placement.py fits on its GPU, no other choice of victims
\* would have cost less, and the plan holds when it is made again after every
\* stop; only what can never fit is called unplaceable.
PlacementsSound == part = "placing" => Placing!PlansSound

\* A waiting request of leases.py is refused only on rounds that prove it
\* hopeless, and in time when the sampler is prompt.
RefusalSound ==
  /\ part = "waiting" => Waiting!RefusalSound
  /\ part = "prompted" => Prompted!RefusalSound

\* After any registrations, removals and edits of an administrator, no two models
\* of registry.py share a port or an id, a stop command stops its own model, the
\* share that is accounted for is the one vLLM is told, and what an administrator
\* wrote is there unchanged; the adapter's profile has the command of every model
\* when no transaction is open; and no unit runs whose entry the reconciler removed.
ConfigurationConsistent ==
  /\ part = "serving" => Serving!ConfigConsistent
  /\ part = "naming" => Naming!ConfigConsistent
  /\ part = "renewing" => Renewing!ManifestSound /\ Renewing!RowsFollow
  /\ part = "declaring" => Declaring!DirectoryTypeOK /\ Declaring!NoUnitLeft
  /\ part = "drifting" => Drifting!DirectoryTypeOK /\ Drifting!NoUnitLeft

\* A model is stopped or unregistered only when its directory stopped declaring it,
\* and only while it is stopped and not pinned; it is registered from the directory
\* that declares it then; one that was removed is active again only when nothing of
\* it is left; and a removal is released only while nobody pinned the model.
ChangesJustified ==
  [][/\ part = "declaring" => Declaring!ReconcilerStep
     /\ part = "drifting" => Drifting!ReconcilerStep
     /\ part = "retaining" => ManifestStep]_vars
=============================================================================
