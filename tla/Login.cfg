CONSTANTS
  MaxHooks = 2
  Options = {}
  IntMax = 2047
  Uids = {0, 7}
  MaxGrowth = 0
  Service = s1
  Conns = {k1, k2, k3}
  Timeouts = {0, 30}
  FastTimeout = 5
  FastAttempts = 0
  FatalChecks = FALSE
  Foreign = Foreign
  Disconnected = Disconnected
  None = None
SPECIFICATION Spec
SYMMETRY ConnSymmetry
INVARIANTS
  StartedInOrder
  SomebodyAnswers
PROPERTIES
  ImplementsClient
  CutOffForGood
