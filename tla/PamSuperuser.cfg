CONSTANTS
  MaxHooks = 2
  Options <- MCOptions
  IntMax = 2047
  Uids = {0, 7}
  MaxGrowth = 1
  None = None
SPECIFICATION Spec
INVARIANTS
  OnlySuperuser
