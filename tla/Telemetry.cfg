SPECIFICATION AllSpec
CONSTANTS
  Parts = {"relay", "following", "restarted", "sampling", "expiring", "scanned", "archived", "reading", "reporting"}
  MaxRequests = 1
  Capacity = 2
  Batch = 1
  MaxChanges = 1
  MaxBreaks = 1
INVARIANTS EveryEventCounted DisplaysFollow  ReportsExact
PROPERTY ObservedInOrder
CHECK_DEADLOCK FALSE
