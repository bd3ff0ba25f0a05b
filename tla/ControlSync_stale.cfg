CONSTANTS
  EveryTicks = 2
  Actions = {"kill"}
  MaxClock = 4
  MaxOrders = 1
  MaxReads = 1
  MaxOpens = 0
  MaxCrashes = 0
  MaxFailures = 0
SPECIFICATION Spec
INVARIANT OrderTakesEffect
