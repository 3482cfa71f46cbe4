---------------------------- MODULE RegistryConfig ----------------------------
(***************************************************************************)
(* What the registry makes of the llama-swap configuration (registry.py):   *)
(* a registered model is a clone of a hand-written entry with ports, ids,   *)
(* groups, a stop command, a GPU share and limits of its own; removing it   *)
(* takes exactly that away again.  An administrator edits the same file.    *)
(* Every operation is the pure transform that the one pending change        *)
(* applies (DirectoryReconciler, ReloadQueue say when).                     *)
(***************************************************************************)
EXTENDS Integers, FiniteSets, SequencesExt

CONSTANTS
    HandWritten,   \* hand-written names, present from the start
    HandPorts,     \* [HandWritten -> DaemonPorts]: the ports of their daemons
    ModelNames,    \* all names
    Aliases,       \* the aliases descriptors ask for; names among them
    Limits,        \* the limits descriptors ask for
    Groups,
    DaemonPorts,   \* daemon_port_range
    WrapperPorts,  \* from startPort
    ReservedPorts,
    Utils,         \* GPU shares, positive numbers
    DefaultLimit,  \* default_concurrency_limit, 0 for none
    MaxEdits       \* bound: changes by the administrator

NoName == "none"

PortsAssumption ==
    /\ DaemonPorts \cup WrapperPorts \cup ReservedPorts \subseteq Nat \ {0} /\ Utils \subseteq Nat \ {0}
    /\ DaemonPorts \cap WrapperPorts = {} /\ HandWritten \subseteq ModelNames /\ NoName \notin ModelNames
    /\ HandPorts \in [HandWritten -> DaemonPorts]
    /\ \A m, n \in HandWritten : m # n => HandPorts[m] # HandPorts[n]
    /\ Limits \cup {DefaultLimit} \subseteq Nat

VARIABLES
    models,   \* the entries, by name
    groups,   \* members of each group, in order
    admin,    \* ghost: the entries and groups an administrator wrote
    edits

registryVars == <<models, groups, admin, edits>>

Template == 0  \* ${PORT}, and a limit or share that is not written
Macro == -1    \* ${util}

\* The parts of an entry the transforms tell apart; base and known are the saved record's.
Entries ==
    [base : ModelNames \cup {NoName}, unit : ModelNames, daemon : DaemonPorts \cup ReservedPorts, listen : WrapperPorts \cup {Template},
     stopPort : DaemonPorts \cup ReservedPorts \cup {0}, stopModel : ModelNames \cup {NoName}, aliases : SUBSET Aliases,
     share : Utils \cup {Macro}, option : Utils \cup {Macro, 0}, macro : Utils \cup {0},
     limit : Nat, wanted : Nat, known : Utils \cup {0}]

Configured == DOMAIN models
Records == {n \in Configured : models[n].base # NoName}
Ids(n) == {n} \cup models[n].aliases
Reserved == UNION {Ids(n) : n \in Configured}

Least(p, s) == p \in s /\ \A q \in s : p <= q

Resolved(e, v) == IF v = Macro THEN e.macro ELSE v

\* _effective_util: the macro and the option count, and only when they agree.
Effective(e) ==
    LET values == ({e.macro, e.option} \ {0, Macro})
    IN IF Cardinality(values) = 1 THEN CHOOSE v \in values : TRUE ELSE 0

Written(n, p, l, helper, s, o, m, a) ==
    [base |-> NoName, unit |-> n, daemon |-> p, listen |-> l,
     stopPort |-> IF helper THEN 0 ELSE p, stopModel |-> IF helper THEN n ELSE NoName, aliases |-> a,
     share |-> s, option |-> o, macro |-> m, limit |-> 0, wanted |-> 0, known |-> 0]

AliasSets == {{}} \cup {{a} : a \in Aliases}

\* A hand-written entry says one share, in each of the places that say one.
Consistent(e) == Cardinality({Resolved(e, v) : v \in {e.share, e.option, e.macro} \ {0}}) = 1 /\ Resolved(e, e.share) # 0

RegistryTypeOK ==
    /\ Configured \subseteq ModelNames /\ \A n \in Configured : models[n] \in Entries
    /\ groups \in [Groups -> Seq(ModelNames)]
    /\ \A g \in Groups : IsInjective(groups[g]) /\ ToSet(groups[g]) \subseteq Configured

RegistryInit ==
    /\ \E listen \in [HandWritten -> WrapperPorts \cup {Template}], helper \in [HandWritten -> BOOLEAN],
          share \in [HandWritten -> Utils \cup {Macro}], option \in [HandWritten -> Utils \cup {Macro, 0}],
          macro \in [HandWritten -> Utils \cup {0}], alias \in [HandWritten -> AliasSets] :
        /\ \A m, n \in HandWritten : m # n /\ listen[m] = listen[n] => listen[m] = Template
        /\ \A m, n \in HandWritten : m # n => ({m} \cup alias[m]) \cap ({n} \cup alias[n]) = {}
        /\ models = [n \in HandWritten |->
                       Written(n, HandPorts[n], listen[n], helper[n], share[n], option[n], macro[n], alias[n])]
        /\ \A n \in HandWritten : Consistent(models[n])
    /\ groups \in [Groups -> {<<>>} \cup {<<n>> : n \in HandWritten}]
    /\ admin = [entries |-> models, groups |-> groups] /\ edits = 0

(* -------------------------------- cloning ------------------------------ *)

\* _choose_daemon_port: reserved ports, those of all commands and those of the records.
DaemonPortsTaken == ReservedPorts \cup {models[n].daemon : n \in Configured} \cup {models[n].stopPort : n \in Configured}

\* _choose_wrapper_port: also what a model listens on.
WrapperPortsTaken(daemon) == DaemonPortsTaken \cup {daemon} \cup {models[n].listen : n \in Configured}

\* Bug: the literal port of the base is copied with the command (#289).
ListensAsBase(e, daemon) == {e.listen}

Listens(e, daemon) ==
    IF e.listen = Template THEN {Template}
    ELSE {p \in WrapperPorts : Least(p, WrapperPorts \ WrapperPortsTaken(daemon))}

\* _transform_cmd_stop: the helper form names the model, the wrapper form carries the port.
StopModel(e, n) == IF e.stopModel = NoName THEN NoName ELSE n
StopPort(e, daemon) == IF e.stopModel = NoName THEN daemon ELSE 0

\* _apply_util_override: every literal position, and the macro when there is one.
WithUtil(e, u) ==
    IF u = 0 THEN e
    ELSE [e EXCEPT !.share = IF @ = Macro THEN Macro ELSE u,
                   !.option = IF @ \in {0, Macro} THEN @ ELSE u,
                   !.macro = IF @ # 0 \/ Macro \in {e.share, e.option} THEN u ELSE 0]

\* What may be overridden: an option or a macro there is, and literals that agree.
UtilAllowed(e, u) ==
    u = 0 \/ /\ e.option # 0 \/ e.macro # 0 \/ e.share = Macro
             /\ Cardinality({e.share, e.option} \ {0, Macro}) <= 1

EffectiveLimit(e, o) == IF o.limit # 0 THEN o.limit ELSE IF DefaultLimit # 0 THEN DefaultLimit ELSE e.limit

\* _transform_cmd, _rewrite_daemon_ports: unit, ports and share of the new command.
Command(e, n, u, daemon, listen) == [WithUtil(e, u) EXCEPT !.unit = n, !.daemon = daemon, !.listen = listen]

\* _clone_model_block: what the base says of itself is replaced, the rest is copied.
Clone(e, n, o, daemon, listen) ==
    [Command(e, n, o.util, daemon, listen) EXCEPT
        !.stopPort = StopPort(e, daemon), !.stopModel = StopModel(e, n), !.aliases = o.aliases, !.limit = EffectiveLimit(e, o)]

\* The record saved with the clone.
Recorded(e, base, o) == [e EXCEPT !.base = base, !.wanted = o.limit, !.known = IF o.util # 0 THEN o.util ELSE Effective(e)]

Joins(base, n) == [g \in Groups |-> IF Contains(groups[g], base) THEN Append(groups[g], n) ELSE groups[g]]

\* A list the editor accepts has no repeats.
Dropped(s, n) == IF Contains(s, n) THEN RemoveAt(s, CHOOSE i \in DOMAIN s : s[i] = n) ELSE s

Leaves(n) == [g \in Groups |-> Dropped(groups[g], n)]

(* ------------------------- the localized editor ------------------------ *)

LimitsOnly(e, f) == [e EXCEPT !.limit = 0] = [f EXCEPT !.limit = 0] /\ (e.limit # 0 => f.limit # 0)

\* render: one entry added or removed, or limits changed, and nothing else.
Localized(new) ==
    LET added == DOMAIN new \ Configured removed == Configured \ DOMAIN new
        changed == {n \in Configured \cap DOMAIN new : models[n] # new[n]}
    IN \/ Cardinality(added \cup removed) = 1 /\ changed = {}
       \/ added \cup removed = {} /\ changed # {} /\ \A n \in changed : LimitsOnly(models[n], new[n])

Writes(new) == Localized(new) /\ models' = new

With(n, e) == [m \in Configured \cup {n} |-> IF m = n THEN e ELSE models[m]]
Without(n) == [m \in Configured \ {n} |-> models[m]]

(* ------------------------------ operations ----------------------------- *)

Bases == Configured \ Records

\* Every id of the new entry is nobody's.
FreeIds(n, o) == ({n} \cup o.aliases) \cap Reserved = {} /\ n \notin o.aliases

AddModel(n, base, o) ==
    /\ FreeIds(n, o) /\ base \in Bases /\ UtilAllowed(models[base], o.util)
    /\ \E daemon \in DaemonPorts :
        /\ Least(daemon, DaemonPorts \ DaemonPortsTaken)
        /\ \E listen \in Listens(models[base], daemon) : Writes(With(n, Recorded(Clone(models[base], n, o, daemon, listen), base, o)))
    /\ groups' = Joins(base, n)
    /\ UNCHANGED <<admin, edits>>

RemoveModel(n) ==
    /\ n \in Records /\ Writes(Without(n)) /\ groups' = Leaves(n)
    /\ UNCHANGED <<admin, edits>>

Desired(n) == IF models[n].wanted # 0 THEN models[n].wanted ELSE IF DefaultLimit # 0 THEN DefaultLimit ELSE models[n].limit

WithLimit(n) == [models[n] EXCEPT !.limit = Desired(n)]

Converge ==
    /\ Writes([n \in Configured |-> WithLimit(n)])
    /\ UNCHANGED <<groups, admin, edits>>

\* An administrator keeps ports and ids apart, adds entries, adds and removes members, and writes limits.
AdminAdds(n, p) ==
    /\ n \notin Reserved /\ p \in DaemonPorts \ DaemonPortsTaken
    /\ \E u \in Utils : Least(u, Utils) /\ models' = With(n, Written(n, p, Template, FALSE, u, 0, 0, {}))
    /\ admin' = [admin EXCEPT !.entries = [m \in DOMAIN @ \cup {n} |-> IF m = n THEN models'[n] ELSE @[m]]]
    /\ UNCHANGED groups

AdminJoins(n, g) ==
    /\ n \in Bases /\ ~Contains(groups[g], n)
    /\ groups' = [groups EXCEPT ![g] = Append(@, n)]
    /\ admin' = [admin EXCEPT !.groups[g] = Append(@, n)]
    /\ UNCHANGED models

AdminLeaves(n, g) ==
    /\ n \in Bases /\ Contains(groups[g], n)
    /\ groups' = [groups EXCEPT ![g] = Dropped(@, n)]
    /\ admin' = [admin EXCEPT !.groups[g] = Dropped(@, n)]
    /\ UNCHANGED models

AdminLimits(n) ==
    /\ models' = [models EXCEPT ![n].limit = IF @ = 1 THEN 2 ELSE 1]
    /\ UNCHANGED <<groups, admin>>

AdminEdits ==
    /\ edits < MaxEdits /\ edits' = edits + 1
    /\ \/ \E n \in ModelNames, p \in DaemonPorts : AdminAdds(n, p)
       \/ \E n \in ModelNames, g \in Groups : AdminJoins(n, g) \/ AdminLeaves(n, g)
       \/ \E n \in Configured : AdminLimits(n)

Overrides == [util : Utils \cup {0}, aliases : AliasSets, limit : Limits \cup {0}]

Adds == \E n \in ModelNames, base \in Configured, o \in Overrides : AddModel(n, base, o)

RegistryNext == Adds \/ (\E n \in ModelNames : RemoveModel(n)) \/ Converge \/ AdminEdits

RegistrySpec == RegistryInit /\ [][RegistryNext]_registryVars

(* ------------------------------ properties ----------------------------- *)

(* registry.py:717-741, 821-847: after any sequence of registrations, removals and manual additions no two
   models serve on one port and no two wrappers listen on one literal port. *)
PortsDistinct ==
    \A m, n \in Configured : m # n =>
        /\ models[m].daemon # models[n].daemon
        /\ models[m].listen = models[n].listen => models[m].listen = 0

(* registry.py:1036-1055: a request's model id, name or alias, means one model. *)
IdsDistinct ==
    \A m, n \in Configured : m # n => ({m} \cup models[m].aliases) \cap ({n} \cup models[n].aliases) = {}

(* registry.py:580-601: the stop command of a clone stops the clone, never its base. *)
StopsItself ==
    \A n \in Configured :
        /\ models[n].stopPort # 0 => models[n].stopPort = models[n].daemon
        /\ models[n].stopModel # NoName => models[n].stopModel = n
        /\ models[n].unit = n

(* registry.py:525-559: the share the scheduler accounts for, the launcher's and the one vLLM is told
   are the same. *)
UtilAgrees ==
    \A n \in Configured :
        LET e == models[n] IN
        e.known # 0 =>
            /\ (IF e.share = Macro THEN e.macro ELSE e.share) = e.known
            /\ e.option # 0 => (IF e.option = Macro THEN e.macro ELSE e.option) = e.known

(* registry.py:1124-1371: what is not registered is the administrator's file, members in their order; so
   removing every registered model restores it. *)
Before(s, m, n) == \E i, j \in DOMAIN s : i < j /\ s[i] = m /\ s[j] = n

SameEntries ==
    LET unlimited(e) == [e EXCEPT !.limit = 0] IN
    /\ DOMAIN admin.entries = Bases
    /\ \A n \in Bases : unlimited(models[n]) = unlimited(admin.entries[n])

SameMembers ==
    \A g \in Groups :
        /\ IsInjective(admin.groups[g]) /\ ToSet(admin.groups[g]) = ToSet(groups[g]) \cap Bases
        /\ \A m, n \in Bases : Before(groups[g], m, n) <=> Before(admin.groups[g], m, n)

AdminKept == SameEntries /\ SameMembers

(* The configuration is consistent after every operation. *)
ConfigConsistent == RegistryTypeOK /\ PortsDistinct /\ IdsDistinct /\ StopsItself /\ UtilAgrees /\ AdminKept
=============================================================================
