CONSTANTS
  Fds = {f1, f2}
  w1 = w1
  w2 = w2
  DWatches = {w1, w2}
  DConns = {c1}
  WatchesOf <- MCWatchesOf
  Timers = {t1}
  Pids = {p1, p2}
  Intervals = {1, 2}
  MaxBlamed = 1
  None = None
  Freed = Freed
SPECIFICATION FairSpec
INVARIANTS
  TypeOK
  NothingFreedUsed
  CalledOnce
  HelpersListed
  TimeoutsInTime
PROPERTIES
  WalksEnd
  HelpersReaped
  TimersServed
