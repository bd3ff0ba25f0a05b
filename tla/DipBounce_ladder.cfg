CONSTANTS
  Prices <- MCPrices
  Paid <- MCPaid
  DipPct = 20
  BouncePct = 25
  MaxDipPct = 40
  DipStepPct = 10
  BounceStepPct = 5
  LateFrom = 0
  LatePct = 25
  MaxSteps = 3
  Gap = 3
  Null = Null
  MaxClock = 18
  MaxCrashes = 1
SPECIFICATION Spec
INVARIANTS NextBuyUnderLast DippedAndBounced
