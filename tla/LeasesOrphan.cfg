SPECIFICATION FairSpec
CONSTANTS
  m1 = m1
  m2 = m2
  g1 = g1
  g2 = g2
  l1 = l1
  l2 = l2
  None = None
  Budget <- OneBudget
  Capacity <- OneCapacity
  Models = {m1}
  Gpus = {g1}
  LeaseIds = {l1}
  MaxRestarts = 1
  StartsInTime = FALSE
PROPERTY RevokedUnitIsStopped
