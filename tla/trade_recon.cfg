SPECIFICATION Spec
CONSTANTS
  None = None
  Executors = {e1}
  Tasks = {t1, t2}
  Checks = {c1}
  Slow = FALSE
  MaxEntries = 2
  MaxOrders = 4
  MaxTrades = 2
  MaxFaults = 1
  MaxRestarts = 0
  MaxStops = 0
  MaxCloses = 0
SYMMETRY Symmetry
INVARIANT PositionTracked
PROPERTY NoStopGap
CHECK_DEADLOCK FALSE
