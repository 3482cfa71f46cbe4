------------------------------- MODULE FleetScan -------------------------------
(***************************************************************************)
(* One scan of a host (deploy/host/llmsvc-fleet-scan.py).  The scanner      *)
(* reads /proc while processes exit, are born and take over process        *)
(* numbers: which of them are services, which of those owns the memory a   *)
(* GPU query reports for a process number, and what the service's own      *)
(* listener answers.  A process is its start time, which no other has.     *)
(***************************************************************************)
EXTENDS Integers, Sequences, FiniteSets

CONSTANTS
    Pids,        \* process numbers
    MaxStarts,   \* bound: processes ever started
    MaxSockets   \* bound: listening sockets ever opened

ScanAssumption == Pids \subseteq Nat \ {0} /\ IsFiniteSet(Pids) /\ {MaxStarts, MaxSockets} \subseteq Nat

VARIABLES
    proc,     \* who holds each process number
    made,     \* every process ever started: is it a service, who forked it
    socket,   \* the listener on the services' port
    lasting,  \* ghost: processes alive since the scan began
    scan      \* the scanner

vars == <<proc, made, socket, lasting, scan>>

Dead == [start |-> 0, parent |-> 0]
NoSocket == [inode |-> 0, owner |-> 0]
Holders == [start : 0 .. MaxStarts, parent : Pids \cup {0}]

\* The read under way: of a process number, for a service or on its chain.
NoStep == [step |-> "none", pid |-> 0, seen |-> Dead, service |-> FALSE, owner |-> 0, round |-> 0, inode |-> 0, from |-> 0]

\* users are the processes whose memory the query saw.  A row carries the
\* process it is about, those it was charged for and the one that answered.
Idle == [pc |-> "idle", todo |-> {}, table |-> [p \in Pids |-> Dead], services |-> {}, complete |-> TRUE,
         attributed |-> TRUE, users |-> [p \in Pids |-> 0], rows |-> [p \in {} |-> 0], now |-> NoStep]

TypeOK ==
    /\ proc \in [Pids -> Holders] /\ socket \in [inode : 0 .. MaxSockets, owner : 0 .. Len(made)]
    /\ \A p, q \in Pids : proc[p].start = proc[q].start /\ proc[p].start # 0 => p = q
    /\ scan.pc \in {"idle", "discover", "query", "attribute", "scrape", "done"}
    /\ scan.services \subseteq {p \in Pids : scan.table[p].start # 0}
    /\ DOMAIN scan.rows \subseteq scan.services
    /\ \A p \in DOMAIN scan.rows : scan.rows[p].process = scan.table[p].start

Init ==
    /\ proc = [p \in Pids |-> Dead] /\ made = <<>> /\ socket = NoSocket /\ lasting = {}
    /\ scan = Idle

(***************************************************************************)
(* The host.                                                               *)
(***************************************************************************)

Alive(p) == proc[p].start # 0

Starts ==
    /\ Len(made) < MaxStarts
    /\ \E p \in Pids, service \in BOOLEAN, parent \in {q \in Pids : Alive(q)} \cup {0} :
         /\ ~ Alive(p)
         /\ proc' = [proc EXCEPT ![p] = [start |-> Len(made) + 1, parent |-> parent]]
         /\ made' = Append(made, [service |-> service, by |-> IF parent = 0 THEN 0 ELSE proc[parent].start])
    /\ UNCHANGED <<socket, lasting, scan>>

\* The children of a process that exits go to init.
Exits ==
    /\ \E p \in Pids :
         /\ Alive(p)
         /\ proc' = [q \in Pids |-> IF q = p THEN Dead
                                    ELSE IF proc[q].parent = p THEN [proc[q] EXCEPT !.parent = 0] ELSE proc[q]]
         /\ lasting' = lasting \ {proc[p].start}
         /\ socket' = IF socket.owner = proc[p].start THEN [socket EXCEPT !.owner = 0] ELSE socket
    /\ UNCHANGED <<made, scan>>

\* An inode is not used twice; a closed listener keeps its place in the count.
Listens ==
    /\ socket.owner = 0 /\ socket.inode < MaxSockets
    /\ \E p \in Pids : Alive(p) /\ made[proc[p].start].service
                       /\ socket' = [inode |-> socket.inode + 1, owner |-> proc[p].start]
    /\ UNCHANGED <<proc, made, lasting, scan>>

Closes == socket.owner # 0 /\ socket' = [socket EXCEPT !.owner = 0] /\ UNCHANGED <<proc, made, lasting, scan>>

(***************************************************************************)
(* discover: every process number is read, with its identity read twice.   *)
(***************************************************************************)

Stays == UNCHANGED <<proc, made, socket, lasting>>

Begins ==
    /\ scan.pc = "idle" /\ Len(made) > 0
    /\ scan' = [Idle EXCEPT !.pc = "discover", !.todo = Pids]
    /\ lasting' = {proc[p].start : p \in Pids} \ {0}
    /\ UNCHANGED <<proc, made, socket>>

Free == scan.now.step = "none"
Rests(s) == [s EXCEPT !.now = NoStep, !.todo = @ \ {s.now.pid}]

\* The directory need not list a process that was not there all the time; a
\* read may fail for other reasons than an exit.
Reads ==
    /\ scan.pc = "discover" /\ Free
    /\ \E p \in scan.todo :
         \/ proc[p].start \notin lasting /\ scan' = [scan EXCEPT !.todo = @ \ {p}]
         \/ Alive(p) /\ scan' = [scan EXCEPT !.now.step = "body", !.now.pid = p, !.now.seen = proc[p]]
         \/ scan' = [scan EXCEPT !.now.step = "absent", !.now.pid = p]
    /\ Stays

\* The command line belongs to whoever holds the number by then.
ReadsBody ==
    /\ scan.now.step = "body"
    /\ LET p == scan.now.pid IN
         scan' = IF Alive(p) THEN [scan EXCEPT !.now.step = "again", !.now.service = made[proc[p].start].service]
                 ELSE [scan EXCEPT !.now.step = "absent"]
    /\ Stays

\* Bug: the identity is read once.
SameOnce(a, b) == TRUE

\* stat_identity: parent and start time.
Same(a, b) == a = b

ReadsAgain ==
    /\ scan.now.step = "again"
    /\ LET p == scan.now.pid IN
         scan' = IF ~ Alive(p) THEN [scan EXCEPT !.now.step = "absent"]
                 ELSE IF Same(proc[p], scan.now.seen)
                      THEN Rests([scan EXCEPT !.table[p] = scan.now.seen,
                                              !.services = IF scan.now.service THEN @ \cup {p} ELSE @])
                      ELSE Rests([scan EXCEPT !.complete = FALSE])
    /\ Stays

Gone(p) == ~ Alive(p)

\* pid_absent: only a confirmed exit leaves the inventory complete.
Absent ==
    /\ scan.now.step = "absent"
    /\ scan' = Rests([scan EXCEPT !.complete = @ /\ Gone(scan.now.pid)])
    /\ Stays

\* A limit or the budget ends the discovery.
GivesUp ==
    /\ scan.pc = "discover" /\ Free /\ scan.todo # {}
    /\ scan' = [scan EXCEPT !.complete = FALSE, !.todo = {}]
    /\ Stays

\* A recycled parent number cannot own this child.
ParentOf(t, p) ==
    LET q == t[p].parent IN IF q # 0 /\ t[q].start \in 1 .. t[p].start THEN q ELSE 0

\* The nearest of p and its ancestors that is a service, or 0; a chain cannot
\* be longer than the table.
Nearest(t, services, p) ==
    LET up[n \in 0 .. Cardinality(Pids)] ==
            IF n = 0 THEN p
            ELSE LET q == up[n - 1] IN IF q = 0 \/ q \in services \/ t[q].start = 0 THEN q ELSE ParentOf(t, q)
        last == up[Cardinality(Pids)]
    IN  IF last \in services THEN last ELSE 0

\* A service started by another one is part of it.  The search begins at the
\* parent's number: the ages of the two are not compared.
Rooted(t, services) ==
    {p \in services : LET q == t[p].parent IN q = 0 \/ t[q].start = 0 \/ Nearest(t, services, q) = 0}

Row(p) == [process |-> scan.table[p].start, gpus |-> {}, exact |-> FALSE, ok |-> FALSE, from |-> 0]

Lists ==
    /\ scan.pc = "discover" /\ Free /\ scan.todo = {}
    /\ scan' = [scan EXCEPT !.pc = "query", !.rows = [p \in Rooted(scan.table, scan.services) |-> Row(p)]]
    /\ Stays

(***************************************************************************)
(* gpu_inventory and attribute_gpus.                                       *)
(***************************************************************************)

Queries ==
    /\ scan.pc = "query"
    /\ \E used \in SUBSET {p \in Pids : Alive(p)} :
         scan' = [scan EXCEPT !.pc = "attribute", !.todo = used, !.attributed = scan.complete,
                              !.users = [p \in Pids |-> IF p \in used THEN proc[p].start ELSE 0]]
    /\ Stays

QueryFails ==
    /\ scan.pc = "query"
    /\ scan' = [scan EXCEPT !.pc = "attribute", !.attributed = FALSE]
    /\ Stays

Current(p) == scan.table[p].start # 0 /\ proc[p] = scan.table[p]

Uncharged(s) == Rests([s EXCEPT !.attributed = FALSE])

\* owner 0 is the end of the search: a process of no service.
Attributes ==
    /\ scan.pc = "attribute" /\ Free
    /\ \E p \in scan.todo :
         LET s == [scan EXCEPT !.now.pid = p] IN
         scan' = IF Current(p)
                 THEN [s EXCEPT !.now.step = "climb", !.now.round = p,
                                !.now.owner = Nearest(scan.table, DOMAIN scan.rows, p)]
                 ELSE Uncharged(s)
    /\ Stays

Unchanged(p) == Current(p)

\* round is the process on the chain; the owner itself is the last.
Climbs ==
    /\ scan.now.step = "climb"
    /\ LET p == scan.now.round
           o == scan.now.owner IN
         scan' = IF ~ Unchanged(p) THEN Uncharged(scan)
                 ELSE IF o = 0 THEN Rests(scan)
                 ELSE IF p = o THEN Rests([scan EXCEPT !.rows[o].gpus = @ \cup {scan.users[scan.now.pid]}])
                 ELSE [scan EXCEPT !.now.round = scan.table[p].parent]
    /\ Stays

Attributed ==
    /\ scan.pc = "attribute" /\ Free /\ scan.todo = {}
    /\ scan' = [scan EXCEPT !.pc = "scrape", !.todo = DOMAIN scan.rows,
                            !.rows = [p \in DOMAIN @ |-> [@[p] EXCEPT !.exact = scan.attributed]]]
    /\ Stays

(***************************************************************************)
(* scrape_service: the identity and the listener are looked at when the     *)
(* listener is chosen, before the request and after the answer.            *)
(***************************************************************************)

Scrapes ==
    /\ scan.pc = "scrape" /\ Free
    /\ \E p \in scan.todo : scan' = [scan EXCEPT !.now.step = "identity", !.now.pid = p, !.now.round = 1]
    /\ Stays

\* The budget is out: the row stays as it is.
Skips ==
    /\ scan.pc = "scrape" /\ Free /\ scan.todo # {}
    /\ scan' = [scan EXCEPT !.todo = {}]
    /\ Stays

\* process_identity_changed takes the memory back as well.
Loses(s) == Rests([s EXCEPT !.rows[s.now.pid].gpus = {}, !.rows[s.now.pid].exact = FALSE])

Identity ==
    /\ scan.now.step = "identity"
    /\ scan' = IF Current(scan.now.pid) THEN [scan EXCEPT !.now.step = "listener"] ELSE Loses(scan)
    /\ Stays

\* owned_listeners of whoever holds the number.
StillOwns(p) == socket.owner = proc[p].start /\ socket.inode = scan.now.inode

Listener ==
    /\ scan.now.step = "listener"
    /\ LET p == scan.now.pid IN
         \/ /\ scan.now.round = 1
            /\ scan' = IF Alive(p) /\ socket.owner = proc[p].start
                       THEN [scan EXCEPT !.now.step = "identity", !.now.round = 2, !.now.inode = socket.inode]
                       ELSE Rests(scan)
         \/ /\ scan.now.round > 1
            /\ scan' = IF ~ Alive(p) \/ ~ StillOwns(p) THEN Loses(scan)
                       ELSE IF scan.now.round = 2 THEN [scan EXCEPT !.now.step = "get"]
                       ELSE Rests([scan EXCEPT !.rows[p].ok = TRUE, !.rows[p].from = scan.now.from])
    /\ Stays

\* The helper asks the address, whoever listens there.
Gets ==
    /\ scan.now.step = "get"
    /\ scan' = IF socket.owner = 0 THEN Rests(scan)
               ELSE [scan EXCEPT !.now.step = "identity", !.now.round = 3, !.now.from = socket.owner]
    /\ Stays

GetFails == scan.now.step = "get" /\ scan' = Rests(scan) /\ Stays

\* An answer of the right process that cannot be parsed.
Unreadable ==
    /\ scan.now.step = "listener" /\ scan.now.round = 3 /\ Alive(scan.now.pid) /\ StillOwns(scan.now.pid)
    /\ scan' = Rests(scan)
    /\ Stays

Finishes ==
    /\ scan.pc = "scrape" /\ Free /\ scan.todo = {}
    /\ scan' = [scan EXCEPT !.pc = "done", !.attributed = @ /\ \A p \in DOMAIN scan.rows : scan.rows[p].exact]
    /\ Stays

Next ==
    \/ Starts \/ Exits \/ Listens \/ Closes
    \/ Begins \/ Reads \/ ReadsBody \/ ReadsAgain \/ Absent \/ GivesUp \/ Lists
    \/ Queries \/ QueryFails \/ Attributes \/ Climbs \/ Attributed
    \/ Scrapes \/ Skips \/ Identity \/ Listener \/ Gets \/ GetFails \/ Unreadable \/ Finishes

Spec == Init /\ [][Next]_vars

(***************************************************************************)
(* Properties.                                                             *)
(***************************************************************************)

Rows == {scan.rows[p] : p \in DOMAIN scan.rows}
Service(x) == made[x].service

\* x or an ancestor of x: by birth, whatever became of the ones between.
Forebears(x) ==
    LET up[n \in 0 .. Len(made)] == IF n = 0 THEN {x} ELSE up[n - 1] \cup {made[y].by : y \in up[n - 1] \ {0}}
    IN  up[Len(made)] \ {0}

\* A row is about a process that is a service: the start time of one holder of
\* a number never meets the command line of another.
RowIsAService == \A r \in Rows : Service(r.process)

\* Memory is charged to the service that uses it or forked the process that
\* does, whoever held the numbers between the listing and the query.
ChargedToItsOwn ==
    \A r \in Rows : \A x \in r.gpus : x # 0 /\ r.process \in Forebears(x)

\* A row whose memory is said to be complete has the service's own.
ExactHasItsOwn ==
    scan.pc = "done" =>
        \A p \in DOMAIN scan.rows :
            LET r == scan.rows[p] IN r.exact /\ scan.users[p] = r.process => r.process \in r.gpus

\* What is reported for a service was answered by it.
ScrapeIsOwn == \A r \in Rows : r.ok => r.from = r.process

\* A complete inventory has read every service that lived through the scan,
\* and one without a row has a service under its parent's number.
CompleteHasRead ==
    scan.pc \in {"query", "attribute", "scrape", "done"} /\ scan.complete =>
        \A x \in lasting : Service(x) =>
            \E p \in scan.services :
                /\ scan.table[p].start = x
                /\ p \notin DOMAIN scan.rows => scan.table[p].parent # 0 /\ scan.table[scan.table[p].parent].start # 0

\* What an inventory says, in every state of the scan.
ScanTrue == TypeOK /\ RowIsAService /\ ChargedToItsOwn /\ ExactHasItsOwn /\ ScrapeIsOwn /\ CompleteHasRead
=============================================================================
