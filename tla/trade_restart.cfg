SPECIFICATION Spec
CONSTANTS
  None = None
  Executors = {e1}
  Tasks = {t1, t2}
  Checks = {}
  Slow = FALSE
  MaxEntries = 2
  MaxOrders = 5
  MaxTrades = 2
  MaxFaults = 0
  MaxRestarts = 1
  MaxStops = 0
  MaxCloses = 1
SYMMETRY Symmetry
INVARIANTS CurrentTradeMatches PositionTracked
CHECK_DEADLOCK FALSE
