SPECIFICATION ServiceSpec
CONSTANTS
  Nobody = Nobody
  Handlers = {h1, h2}
  Kinds = {"razor"}
  MaxStrategies = 1
  MaxClients = 1
  MaxRequests = 3
  MaxFaults = 1
  MaxFailures = 0
INVARIANT StoppedNeverReturns
SYMMETRY Symmetry
CHECK_DEADLOCK FALSE
