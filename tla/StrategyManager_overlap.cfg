SPECIFICATION Spec
CONSTANTS
  Strategies = {razor}
  Sides = {long}
  Saves = {s1, s2}
  Inodes = {i1, i2, i3}
  None = None
  Empty = Empty
  Corrupt = Corrupt
  CallsWhileLoading = TRUE
  MaxTransitions = 2
  MaxFaults = 1
SYMMETRY Symmetry
INVARIANTS
  LoadsOnlyHeldStates
CHECK_DEADLOCK FALSE
