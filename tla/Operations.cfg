SPECIFICATION AllSpec
CONSTANTS
  Two = {x1, x2}
  Parts = {"sleeping", "wedged", "every", "many", "both"}
  One = {m}
  Three = {o1, o2, o3}
  LeaseIds = {x1, x2}
  MaxCrashes = 2
  None = None
  WakeLeases = {x1, x2}
  MinSamples = 2
  Grace = 2
  MaxUnloads = 2
  NoLease = NoLease
SYMMETRY Symmetry
INVARIANTS RecoverySafe OperationsApart
PROPERTIES RecoveryDue
CHECK_DEADLOCK FALSE
