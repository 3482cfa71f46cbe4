---------------------------- MODULE ActivityReport ----------------------------
(***************************************************************************)
(* What the scheduler knows of past requests (llmsvc/activity.py): the     *)
(* summary per model that the sampler takes from llama-swap's table, in    *)
(* several statements under one deadline while the proxy goes on writing,  *)
(* and the usage reports, which fold one statement's groups by user, model *)
(* or day.                                                                 *)
(***************************************************************************)
EXTENDS Integers, Sequences, FiniteSets, FiniteSetsExt

CONSTANTS Models,    \* model ids, positive numbers; 0 stands for a row without one
          Peers,     \* values of client_ip; 0 stands for none
          User,      \* [Peers -> user]: container, host, address or unattributed
          Times,     \* values of ts_created
          Day,       \* [Times -> local day]
          Now,       \* the moment of the reads
          Ten, Hour, \* the two windows of the summary
          Window,    \* the window of the reports
          Outcomes,  \* [status, msg, tokens] of a request
          Reads,     \* whether the sampler reads, or users ask for reports
          MaxRows    \* bound: rows of the table

ActivityAssumption ==
  /\ Models \subseteq Nat \ {0} /\ Times \subseteq Nat
  /\ 0 < Ten /\ Ten <= Hour
  /\ MaxRows \in Nat /\ Reads \in BOOLEAN

VARIABLES table,    \* the rows, in the order of their ids
          reader,   \* the summary under way
          expired,  \* the deadline of its connection has passed
          history,  \* what the collector's round shows of each model
          report    \* the answer given by this step, if it gives one
vars == <<table, reader, expired, history, report>>

Row == [ts : Times, model : Models \cup {0}, peer : Peers, out : Outcomes]
Quiet == [pc |-> "idle"]
Unseen == [known |-> FALSE, of |-> <<>>, rows |-> <<>>]
NoReport == [known |-> FALSE, seen |-> <<>>]
BadTokens == -1  \* tokens that are missing, negative or no integers

Init ==
  /\ table = <<>> /\ reader = Quiet /\ expired = FALSE /\ history = Unseen
  /\ report = NoReport

-----------------------------------------------------------------------------
(* The table. *)

Ids(t) == 1..Len(t)
Of(t, m, from) == {i \in Ids(t) : t[i].model = m /\ t[i].ts >= from /\ t[i].ts <= Now}
Latest(t, m) == Max({t[i].ts : i \in Of(t, m, 0)})
\* the row with the highest id among those of the last moment
LatestRow(t, m, last) == Max({i \in Ids(t) : t[i].model = m /\ t[i].ts = last})

\* the reference: one pass over the whole table
Summary(t) ==
  [m \in {n \in Models \cup {0} : Of(t, n, 0) # {}} |->
    [last |-> Latest(t, m),
     hour |-> Cardinality(Of(t, m, Now - Hour)),
     ten  |-> Cardinality(Of(t, m, Now - Ten)),
     peer |-> t[Max({i \in Of(t, m, 0) : t[i].ts = Latest(t, m)})].peer]]

Insert(row) ==
  /\ Len(table) < MaxRows
  /\ table' = Append(table, row) /\ report' = NoReport
  /\ UNCHANGED <<reader, expired, history>>

-----------------------------------------------------------------------------
(* read: statements of one transaction.  Late, one may still end, raise, or *)
(* be cancelled without a word, as if it had found nothing.                 *)

\* Bug: each statement sees the table as it is then
SeenNow == table
Seen == reader.snap
Silent == expired

Begins ==
  /\ Reads /\ reader.pc = "idle"
  /\ reader' = [pc |-> "null", snap |-> table, found |-> {}, todo |-> {}, rows |-> <<>>]
  /\ expired' = FALSE
  /\ UNCHANGED <<table, history, report>>

Expires ==
  /\ reader.pc # "idle" /\ ~expired
  /\ expired' = TRUE
  /\ UNCHANGED <<table, reader, history, report>>

AsksNull ==
  /\ reader.pc = "null"
  /\ \E none \in {FALSE} \cup (IF Silent THEN {TRUE} ELSE {}) :
       reader' = [reader EXCEPT !.pc = "next",
                  !.found = IF ~none /\ \E i \in Ids(Seen) : Seen[i].model = 0 THEN {0} ELSE {}]
  /\ UNCHANGED <<table, expired, history, report>>

\* the skip-scan: the least model id above the last one
Above == {Seen[i].model : i \in Ids(Seen)} \ (0..Max(reader.found \cup {0}))
AsksNext ==
  /\ reader.pc = "next"
  /\ \/ /\ Above # {}
        /\ reader' = [reader EXCEPT !.found = @ \cup {Min(Above)}]
     \/ /\ Above = {} \/ Silent
        /\ reader' = [reader EXCEPT !.pc = "sums", !.todo = reader.found]
  /\ UNCHANGED <<table, expired, history, report>>

TenOf(m) == Cardinality({i \in Of(Seen, m, Now - Hour) : Seen[i].ts >= Now - Ten})
Extended(rows, m, v) == [n \in DOMAIN rows \cup {m} |-> IF n = m THEN v ELSE rows[n]]

Summed ==
  /\ reader.pc = "sums" /\ reader.todo = {}
  /\ reader' = [reader EXCEPT !.pc = "latest", !.todo = DOMAIN reader.rows]
  /\ UNCHANGED <<table, expired, history, report>>

\* _summary_rows: a model without an eligible row is left out
Sums ==
  /\ reader.pc = "sums" /\ reader.todo # {}
  /\ LET m == Min(reader.todo)
         left == [reader EXCEPT !.todo = @ \ {m}]
     IN \/ /\ Of(Seen, m, 0) = {} \/ Silent
           /\ reader' = left
        \/ /\ Of(Seen, m, 0) # {}
           /\ reader' = [left EXCEPT !.rows = Extended(@, m,
                [last |-> Latest(Seen, m), hour |-> Cardinality(Of(Seen, m, Now - Hour)),
                 ten |-> TenOf(m)])]
  /\ UNCHANGED <<table, expired, history, report>>

AsksLatest ==
  /\ reader.pc = "latest" /\ reader.todo # {}
  /\ LET m == Min(reader.todo)
         row == LatestRow(Seen, m, reader.rows[m].last)
     IN reader' = [reader EXCEPT !.todo = @ \ {m},
          !.rows = Extended(@, m, [last |-> @[m].last, hour |-> @[m].hour, ten |-> @[m].ten,
                                   peer |-> Seen[row].peer])]
  /\ UNCHANGED <<table, expired, history, report>>

\* a late statement raises, or an empty answer is not accepted
Raises ==
  /\ reader.pc \notin {"idle"} /\ Silent
  /\ reader' = Quiet /\ history' = [Unseen EXCEPT !.of = reader.snap]
  /\ UNCHANGED <<table, expired, report>>

Accepts == ~expired
Returns ==
  /\ reader.pc = "latest" /\ reader.todo = {}
  /\ reader' = Quiet
  /\ history' = IF Accepts THEN [known |-> TRUE, of |-> reader.snap, rows |-> reader.rows]
                           ELSE [Unseen EXCEPT !.of = reader.snap]
  /\ UNCHANGED <<table, expired, report>>

\* the round: a model without a row has a known zero, if the read succeeded
RequestsLastHour(m) ==
  IF m \in DOMAIN history.rows THEN history.rows[m].hour
  ELSE IF history.known THEN 0 ELSE -1

-----------------------------------------------------------------------------
(* usage and usage_report. *)

Counted(t) == {i \in Ids(t) : t[i].ts >= Now - Window /\ t[i].ts <= Now}
Failed(o) == o.status = "bad" \/ o.msg
Untracked(o) == o.status # "bad" /\ o.tokens = 0

\* the groups of the statement, and what it sums in each
Group(r) == [model |-> r.model, peer |-> r.peer, ts |-> r.ts]
Groups(t) == {Group(t[i]) : i \in Counted(t)}
SumsOf(t, g) ==
  LET ids == {i \in Counted(t) : Group(t[i]) = g}
  IN [requests |-> Cardinality(ids), errors |-> Cardinality({i \in ids : Failed(t[i].out)}),
      untracked |-> Cardinality({i \in ids : Untracked(t[i].out)}),
      tokens |-> MapThenSumSet(LAMBDA i : t[i].out.tokens, ids)]

Empty == [requests |-> 0, errors |-> 0, untracked |-> 0, tokens |-> 0]
Accumulate(a, b) ==
  [requests |-> a.requests + b.requests, errors |-> a.errors + b.errors,
   untracked |-> a.untracked + b.untracked, tokens |-> a.tokens + b.tokens]
Folded(t, groups) ==
  FoldSet(LAMBDA g, sum : Accumulate(sum, SumsOf(t, g)), Empty, groups)

Key(by, g) ==
  CASE by = "user" -> User[g.peer] [] by = "model" -> g.model
    [] by = "day" -> Day[g.ts] [] OTHER -> g.peer
Other(by, g) == IF by = "model" THEN User[g.peer] ELSE g.model

Rows(t, by) ==
  LET keys == {Key(by, g) : g \in Groups(t)}
      mine(k) == {g \in Groups(t) : Key(by, g) = k}
  IN [k \in keys |->
       [counts |-> Folded(t, mine(k)),
        first |-> Min({g.ts : g \in mine(k)}), last |-> Max({g.ts : g \in mine(k)}),
        breakdown |-> [o \in {Other(by, g) : g \in mine(k)} |->
                         Folded(t, {g \in mine(k) : Other(by, g) = o})]]]
Totals(t) == Folded(t, Groups(t))

\* One statement under the deadline: late, it may end as if it had found nothing.
Invalid(t) == \E i \in Counted(t) : t[i].out.tokens = BadTokens
Answered(late, seen) == ~late /\ ~Invalid(seen)
Reports ==
  /\ ~Reads
  /\ \E late \in BOOLEAN, seen \in {table, <<>>} :
       /\ seen # table => late
       /\ report' = IF Answered(late, seen) THEN [known |-> TRUE, seen |-> seen] ELSE NoReport
  /\ UNCHANGED <<table, reader, expired, history>>

Next ==
  \/ \E row \in Row : Insert(row)
  \/ Begins \/ Expires \/ AsksNull \/ AsksNext \/ Sums \/ Summed \/ AsksLatest
  \/ Raises \/ Returns \/ Reports

Spec == Init /\ [][Next]_vars

-----------------------------------------------------------------------------
(* Properties. *)

TypeOK ==
  /\ table \in Seq(Row) /\ Len(table) <= MaxRows
  /\ reader.pc \in {"idle", "null", "next", "sums", "latest"}
  /\ reader.pc # "idle" => reader.todo \subseteq reader.found /\ reader.found \subseteq Models \cup {0}
  /\ expired \in BOOLEAN /\ history.known \in BOOLEAN /\ report.known \in BOOLEAN

\* A summary that is taken for known is exactly what one pass over the table
\* would have given when the read began: no statement cancelled in silence, no
\* row written between two statements and no model skipped by the scan can turn
\* a busy model into an idle one (_summary_rows, read, _connect).
SummaryExact ==
  history.known => history.rows = Summary(history.of)

\* No model has a known zero in the round while the table, when it was read, had
\* requests of its last hour: the policy puts idle models to sleep.
IdleIsReal ==
  \A m \in Models : RequestsLastHour(m) = 0 =>
    ~\E i \in Ids(history.of) : /\ history.of[i].model = m
                                /\ history.of[i].ts \in (Now - Hour)..Now

\* Every request of the window is in exactly one row and one line of the
\* breakdown of every report that is taken for known, however late or malformed
\* its rows were: rows, breakdowns and totals add up to the table.
EachOnce ==
  report.known => \A by \in {"user", "model", "day", "source"} :
    LET rows == Rows(report.seen, by)
        n == Cardinality({i \in Ids(table) : table[i].ts \in (Now - Window)..Now})
    IN /\ Totals(report.seen).requests = n
       /\ \A i \in Ids(table) : table[i].ts \in (Now - Window)..Now => table[i].out.tokens >= 0
       /\ MapThenSumSet(LAMBDA k : rows[k].counts.requests, DOMAIN rows) = n
       /\ \A k \in DOMAIN rows :
            LET parts == rows[k].breakdown
            IN MapThenSumSet(LAMBDA o : parts[o].requests, DOMAIN parts) = rows[k].counts.requests

\* What the report by user says of a model is what the report by model says of
\* the user, in every count, and both are what the table holds.
ReportsAgree ==
  report.known =>
  LET users == Rows(report.seen, "user") models == Rows(report.seen, "model")
  IN \A u \in DOMAIN users, m \in DOMAIN models :
       LET ids == {i \in Ids(table) : /\ table[i].ts \in (Now - Window)..Now
                                      /\ table[i].model = m /\ User[table[i].peer] = u}
       IN /\ (m \in DOMAIN users[u].breakdown) <=> (ids # {})
          /\ ids # {} =>
               /\ users[u].breakdown[m] = models[m].breakdown[u]
               /\ users[u].breakdown[m].tokens = MapThenSumSet(LAMBDA i : table[i].out.tokens, ids)
               /\ users[u].breakdown[m].errors + users[u].breakdown[m].untracked <= 2 * Cardinality(ids)
               /\ users[u].breakdown[m].requests = Cardinality(ids)
\* What is read and reported, in every state.
ReportTrue == TypeOK /\ SummaryExact /\ IdleIsReal /\ EachOnce /\ ReportsAgree
=============================================================================
