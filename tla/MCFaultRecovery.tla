-------------------------- MODULE MCFaultRecovery --------------------------
(* Instances of FaultRecovery for TLC. *)
EXTENDS FaultRecovery, TLC
CONSTANTS l1, l2
IdSymmetry == Permutations(LeaseIds)
=============================================================================
