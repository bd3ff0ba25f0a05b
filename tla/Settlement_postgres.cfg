CONSTANTS
  Storage = "postgres"
  LotIds <- MCLotIds
  MaxOpen = 2
  MaxCatchUp = 2
  MaxClock = 3
  Closers = {"FIXED_TP", "ROTATION", "SCORE_STOP"}
  MaxFills = 3
  MaxCrashes = 1
  MaxFailures = 1
SPECIFICATION Spec
INVARIANTS TypeOK AnnouncedBeforeFilled CanonicalFirst DecidedOnce BrokerIsTape NeverOversold
PROPERTIES CheckedCloseIsFlat ImplementsTheBook
CHECK_DEADLOCK FALSE
