CONSTANTS
  null = null
  absent = absent
  Null <- null
  Absent <- absent
  Unknown <- null
  ExitConfirmations = 3
  ClearObservations = 6
  GateQuestions <- MCGateQuestions
  PassQuestions <- MCPassQuestions
  Ours = {2}
  Strangers = {1, 3, 4}
  MarketLooks <- MCMarketLooks
  MaxTokens = 3
  Wanted = 1
  MaxChecks = 2
  WatchSlots = 1
  CandleBudget = 1
  RegistryPages = 1
  PageSize = 1
  Reserve = TRUE
  SweepRules <- MCSweepRules
  MaxSweeps = 4
  MaxRestarts = 1
  MaxFills = 5
  LooksPerMinute = 2
  Mints = {1, 2}
  Minute = 2
  Bar = 3
  Abort = 1
  Samples = 2
  FirstBackoff = 1
  MaxInterval = 2
  CleanRun = 2
  Patience = 2
  Backoff = 1
  MaxTries = 3
  Callers <- MCCallers
  MaxInstant = 3
  MaxAsks = 3
SPECIFICATION MCRulesSpec
INVARIANTS OnlyVouchedFor NobodyLeftOut CheapRefusalIsFinal SilenceIsNotEvidence EnteredIsHealthy NeverRebought CutAgreesWithPlan PlanFitsTheCapital ReadingsAreCurrent PatientToTheEnd
PROPERTIES PaidForNeed SeenInThisHolding FloorIsKept DrawnBeforeItIsDone
CHECK_DEADLOCK FALSE
