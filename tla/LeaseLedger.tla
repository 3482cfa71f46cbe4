---------------------------- MODULE LeaseLedger ----------------------------
(***************************************************************************)
(* What the lease protocol promises about the budgets of the cards, with   *)
(* no launcher, collector, probe or lock: an account is granted within the *)
(* capacity its card has left, for a model that has none; it may be        *)
(* confirmed or become stale; and it is given back once, a confirmed one   *)
(* only when the model's process is gone.                                  *)
(***************************************************************************)
EXTENDS Integers, FiniteSets

CONSTANTS Models, Gpus, LeaseIds, Budget, Capacity, None

VARIABLES
  account,  \* lease id -> [status, model, gpu]
  alive     \* the models that have a process

vars == <<account, alive>>

NoAccount == [status |-> "none", model |-> None, gpu |-> None]
Open(l) == account[l].status \in {"pending", "stale", "confirmed"}
\* The sum of the budgets of some accounts: how many units they have.
Charge(S) == Cardinality(UNION {{l} \X (1 .. Budget[account[l].model]) : l \in S})

Init ==
  /\ account = [l \in LeaseIds |-> NoAccount]
  /\ alive = {}

Grant(l, m, g) ==
  /\ account[l] = NoAccount
  /\ \A k \in LeaseIds : Open(k) => account[k].model # m
  /\ Charge({k \in LeaseIds : Open(k) /\ account[k].gpu = g}) + Budget[m] <= Capacity[g]
  /\ account' = [account EXCEPT ![l] = [status |-> "pending", model |-> m, gpu |-> g]]
  /\ UNCHANGED alive

Becomes(l, status) == account' = [account EXCEPT ![l].status = status] /\ UNCHANGED alive

Confirm(l) == account[l].status \in {"pending", "stale"} /\ Becomes(l, "confirmed")

GoStale(l) == account[l].status = "pending" /\ Becomes(l, "stale")

Release(l) ==
  /\ Open(l)
  /\ account[l].status = "confirmed" => account[l].model \notin alive
  /\ Becomes(l, "released")

\* Processes come only for a model without a confirmed account, and go freely.
ProcessMoves ==
  /\ alive' \subseteq Models
  /\ \A l \in LeaseIds :
       account[l].status = "confirmed" /\ account[l].model \in alive' => account[l].model \in alive
  /\ UNCHANGED account

Next ==
  \/ \E l \in LeaseIds : \/ \E m \in Models, g \in Gpus : Grant(l, m, g)
                         \/ Confirm(l) \/ GoStale(l) \/ Release(l)
  \/ ProcessMoves

Spec == Init /\ [][Next]_vars
=============================================================================
