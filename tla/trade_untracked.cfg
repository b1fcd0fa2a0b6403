SPECIFICATION FairSpec
CONSTANTS
  None = None
  Executors = {e1}
  Tasks = {t1}
  Checks = {c1}
  Slow = FALSE
  MaxEntries = 1
  MaxOrders = 3
  MaxTrades = 1
  MaxFaults = 1
  MaxRestarts = 0
  MaxStops = 0
  MaxCloses = 0
PROPERTY UntrackedPositionRecorded
CHECK_DEADLOCK FALSE
