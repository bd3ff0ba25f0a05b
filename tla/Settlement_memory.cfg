CONSTANTS
  Storage = "memory"
  LotIds <- MCLotIds
  MaxOpen = 2
  MaxCatchUp = 1
  MaxClock = 3
  Closers = {"FIXED_TP", "BREAK_EVEN", "STOP_LOSS"}
  MaxFills = 4
  MaxCrashes = 1
  MaxFailures = 0
SPECIFICATION Spec
INVARIANTS NoOrphan
CHECK_DEADLOCK FALSE
