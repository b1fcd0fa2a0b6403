SPECIFICATION FairSpec
CONSTANTS
  None = None
  Executors = {e1}
  Tasks = {t1}
  Checks = {c1}
  Slow = FALSE
  MaxEntries = 1
  MaxOrders = 2
  MaxTrades = 1
  MaxFaults = 1
  MaxRestarts = 1
  MaxStops = 0
  MaxCloses = 1
PROPERTIES GhostTradesClose ResumesWhenFlat
CHECK_DEADLOCK FALSE
