CONSTANTS
  MaxHooks = 3
  Options <- MCOptions
  IntMax = 2047
  Uids = {0, 7}
  MaxGrowth = 1
  None = None
SPECIFICATION FairSpec
INVARIANTS
  OneUpdateAtATime
  NoAbortInRange
PROPERTIES
  HookReturns
