CONSTANTS
  Services = {s1, s2}
  Conns = {k1, k2, k3, k4}
  Calls = {x1, x2}
  Timeouts = {0, 30}
  FastTimeout = 5
  FastAttempts = 1
  FatalChecks = FALSE
  None = None
  Foreign = Foreign
  Disconnected = Disconnected
SPECIFICATION Spec
SYMMETRY Symmetry
INVARIANTS
  RefsExact
  NameRouted
  AttachedExact
  ExitPolicyUniform
  NoCallForgotten
  FastThenFull
PROPERTIES
  SurvivesBusLoss
