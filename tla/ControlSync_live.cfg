CONSTANTS
  EveryTicks = 1
  Actions = {"kill"}
  MaxClock = 3
  MaxOrders = 2
  MaxReads = 1
  MaxOpens = 0
  MaxCrashes = 1
  MaxFailures = 1
SPECIFICATION FairSpec
PROPERTY EveryOrderIsRead
