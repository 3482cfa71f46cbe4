SPECIFICATION Spec
CONSTANTS
  m1 = m1
  m2 = m2
  g1 = g1
  g2 = g2
  l1 = l1
  l2 = l2
  None = None
  Budget <- TwoSizes
  Capacity <- TwoCapacity
  Models = {m1, m2}
  Gpus = {g1}
  LeaseIds = {l1, l2}
  MaxRestarts = 1
  StartsInTime = FALSE
CONSTRAINT M2OnlyAsks
SYMMETRY IdSymmetry
INVARIANTS ProtocolInv OneAccount ConfirmedIsRunning
PROPERTIES ReleasedAfterExit StopsCheckedUnit
