--------------------------- MODULE FaultContract ---------------------------
(***************************************************************************)
(* What fault recovery promises for one model, with no rounds, probes,     *)
(* evidence or worker: a claim on an account fences the model; the budget  *)
(* is freed when the process is gone; llama-swap is asked once to unload   *)
(* the model; the fence falls only when that request was answered and is   *)
(* spent, so that it cannot hit a process started later.                   *)
(***************************************************************************)
CONSTANTS LeaseIds, None

VARIABLES
  process,  \* the account whose process exists, or None
  fence,    \* [lease, stage] of the claim, or None
  request,  \* the accounts whose unload request is not executed yet
  asked     \* the accounts an unload request was ever sent for

vars == <<process, fence, request, asked>>

Init == process = None /\ fence = None /\ request = {} /\ asked = {}

Start(l) ==
  /\ process = None /\ fence = None /\ request = {} /\ l \notin asked
  /\ process' = l /\ UNCHANGED <<fence, request, asked>>

Exit == process' = None /\ UNCHANGED <<fence, request, asked>>

Claim(l) ==
  /\ fence = None /\ process \in {l, None} /\ l \notin asked
  /\ fence' = [lease |-> l, stage |-> "claimed"] /\ UNCHANGED <<process, request, asked>>

Advance(from, to) ==
  /\ fence # None /\ fence.stage = from /\ process = None
  /\ fence' = [fence EXCEPT !.stage = to]
  /\ UNCHANGED <<process, request, asked>>

Free == Advance("claimed", "freed")
Submit == Advance("freed", "submitted")
Answer == request = {} /\ fence # None /\ fence.lease \in asked /\ Advance("submitted", "answered")

Ask(l) ==
  /\ fence = [lease |-> l, stage |-> "submitted"] /\ l \notin asked
  /\ request' = {l} /\ asked' = asked \cup {l}
  /\ UNCHANGED <<process, fence>>

Spend == request' = {} /\ UNCHANGED <<process, fence, asked>>

Finish ==
  /\ fence # None /\ fence.stage = "answered" /\ process = None
  /\ fence' = None /\ UNCHANGED <<process, request, asked>>

Next ==
  \/ \E l \in LeaseIds : Start(l) \/ Claim(l) \/ Ask(l)
  \/ Exit \/ Free \/ Submit \/ Answer \/ Spend \/ Finish

Spec == Init /\ [][Next]_vars
=============================================================================
