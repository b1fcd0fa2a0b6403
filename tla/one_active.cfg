SPECIFICATION ServiceSpec
CONSTANTS
  Nobody = Nobody
  Handlers = {h1, h2}
  Kinds = {"razor", "timed"}
  MaxStrategies = 2
  MaxClients = 2
  MaxRequests = 2
  MaxFaults = 1
  MaxFailures = 0
INVARIANT OneActive
SYMMETRY Symmetry
CHECK_DEADLOCK FALSE
