SPECIFICATION Spec
CONSTANTS
  l1 = l1
  l2 = l2
  None = None
  LeaseIds = {l1, l2}
  MaxCrashes = 1
SYMMETRY IdSymmetry
INVARIANTS TypeOK Fence OneUnload NoUnloadOutlivesClaim FaultInv
PROPERTIES ConfirmedReleasedWhenGone ContractSpec
