------------------------------ MODULE MCLeases ------------------------------
(* Instances of Leases for TLC. *)
EXTENDS Leases, TLC
CONSTANTS m1, m2, g1, g2, l1, l2
OneBudget == [m \in Models |-> 1]
OneCapacity == [g \in Gpus |-> 1]
\* m2 needs the whole card, on which m1 would fit twice.
TwoSizes == m1 :> 1 @@ m2 :> 2
TwoCapacity == [g \in Gpus |-> 2]
IdSymmetry == Permutations(LeaseIds)
\* m2 only asks for a place, so that m1 is evicted; its own account is not followed.
M2OnlyAsks == \A l \in LeaseIds : row[l].model # m2
AllSymmetry == Permutations(LeaseIds) \cup Permutations(Models)
=============================================================================
