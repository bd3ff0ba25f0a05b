CONSTANTS
  EveryTicks = 1
  Actions = {"kill", "reset"}
  MaxClock = 3
  MaxOrders = 1
  MaxReads = 2
  MaxOpens = 1
  MaxCrashes = 0
  MaxFailures = 0
SPECIFICATION Spec
INVARIANTS ComesBackStopped FlushKeepsTheBook
PROPERTY ResetWipesOnce
