SPECIFICATION Spec
CONSTANTS
  None = None
  Executors = {e1, e2}
  Tasks = {t1, t2}
  Checks = {}
  Slow = TRUE
  MaxEntries = 2
  MaxOrders = 3
  MaxTrades = 2
  MaxFaults = 1
  MaxRestarts = 0
  MaxStops = 1
  MaxCloses = 0
SYMMETRY Symmetry
INVARIANTS NeverDoubled ClosedOnlyAfterFlat
CHECK_DEADLOCK FALSE
