CONSTANTS
  Watchers = {w1}
  Requests = {0, 2, 3, 4}
  Other = {4}
  FirstRevision = 1
  LastRevision = 6
  CacheSize = 2
  BatchSize = 2
  Buffer = 1
SPECIFICATION WatchSpec
INVARIANT EveryEventRead
CHECK_DEADLOCK FALSE
