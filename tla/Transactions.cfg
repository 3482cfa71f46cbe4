SPECIFICATION AllSpec
CONSTANTS
  Parts = {"quiet", "queue", "maintenance", "bootstrap", "late", "scan", "archive", "hub"}
  Quiet = 20
  MaxAge = 8
  None = None
  Never = Never
  Jobs = {j1, m1}
  Maintenance = {m1}
  Foreign = {x}
  Conflicts = {{j1, x}}
  MaxCrashes = 2
  ScanFiles = {"unit", "script"}
  MaxFailures = 3
  MaxReboots = 2
  MaxEdits = 1
  Pair = {c1, c2}
SYMMETRY Symmetry
INVARIANTS QuietIsReal ChangesFenced MaintenanceSafe  InstallsSafe
PROPERTY StepsAccepted
CHECK_DEADLOCK FALSE
