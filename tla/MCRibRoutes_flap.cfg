SPECIFICATION Spec
CONSTANTS
  Networks = {net}
  Connected = {net}
  Hops = {h1, h2}
  Metrics = {1, 2}
  Clients = {"STATIC", "EBGP"}
  UpdateHops = {1}
  configuredDistance <- NotConfigured
  MaxSlice = 3
  MaxQueue = 2
  MaxAhead = 0
SYMMETRY HopSymmetry
INVARIANT LinkUpInstalled
CHECK_DEADLOCK FALSE
