SPECIFICATION Spec
CONSTANTS
  Networks = {net, far}
  Connected = {net}
  Hops = {h1, h2}
  Metrics = {1, 2}
  Clients = {"STATIC", "EBGP"}
  UpdateHops = {1}
  configuredDistance <- NotConfigured
  MaxSlice = 3
  MaxQueue = 2
  MaxAhead = 0
SYMMETRY HopSymmetry
INVARIANTS FibMatchesSelected BestSelected SlotsOwned
CHECK_DEADLOCK FALSE
