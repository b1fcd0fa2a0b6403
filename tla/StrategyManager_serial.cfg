SPECIFICATION Spec
CONSTANTS
  Strategies = {razor, thor}
  Sides = {long, short}
  Saves = {s1}
  Inodes = {i1, i2, i3}
  None = None
  Empty = Empty
  Corrupt = Corrupt
  CallsWhileLoading = FALSE
  MaxTransitions = 4
  MaxFaults = 2
INVARIANTS
  QuiescentDurable
PROPERTY DurableSpec
CHECK_DEADLOCK FALSE
