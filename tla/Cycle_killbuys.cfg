CONSTANTS
  t1 = t1
  t2 = t2
  Tokens = {t1, t2}
  MaxOpens = 2
  Looks <- MCLooks
  TotalCapital = 9
  Slot = 3
  Step = 1
  Fee = 1
  MaxSteps = 2
  Gains <- MCGains
  ExitOnFreeze = FALSE
  BlacklistOnFreeze = TRUE
  MaxPasses = 3
  MaxBuys = 2
  MaxThrows = 0
  MaxCrashes = 0
  MaxKills = 1
  ExitConfirmations = 2
  ClearObservations = 1
  Unknown = Unknown
SPECIFICATION Spec
SYMMETRY Symmetry
PROPERTIES KillStopsBuying
CHECK_DEADLOCK FALSE
