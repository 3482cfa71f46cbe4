SPECIFICATION FairSpec
CONSTANTS
  l1 = l1
  l2 = l2
  None = None
  LeaseIds = {l1}
  MaxCrashes = 1
PROPERTIES ClaimResolves
