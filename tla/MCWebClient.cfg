SPECIFICATION Spec
CONSTANTS
  twice = twice
  once = once
  Remotes = {twice, once}
  PoolSize = 1
  Requests <- MCRequests
  MaxIdle = 0
  RetryCount = 2
INVARIANTS TypeOK PlacedOnce WatchedIffIdle NeverEvictsEarly AllToldAtStop
PROPERTY EveryRequestIsTold
CHECK_DEADLOCK FALSE
