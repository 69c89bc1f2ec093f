CONSTANTS
  Services = {s1, s2}
  Conns = {k1, k2, k3}
  Calls = {x1}
  Timeouts = {0, 30}
  FastTimeout = 5
  FastAttempts = 1
  FatalChecks = TRUE
  None = None
  Foreign = Foreign
  Disconnected = Disconnected
SPECIFICATION Spec
PROPERTIES
  RemovalIsLocal
