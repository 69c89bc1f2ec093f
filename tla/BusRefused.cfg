CONSTANTS
  Services = {s1}
  Conns = {k1, k2}
  Calls = {x1}
  Timeouts = {0, 30}
  FastTimeout = 5
  FastAttempts = 0
  FatalChecks = FALSE
  None = None
  Foreign = Foreign
  Disconnected = Disconnected
SPECIFICATION FairSpec
PROPERTIES
  ReconnectsByItself
