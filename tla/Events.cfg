CONSTANTS
  Capacity = 3
  StartRevision = 1
  MaxRevision = 6
  FirstRevision = 1
  LastRevision = 6
  Watchers = {w1}
  Requests = {0, 2, 3, 4}
  Other = {4}
  CacheSize = 2
  BatchSize = 2
  Buffer = 1
  ResultChanLength = 4
  EventBatchSize = 2
  MaxEvents = 40
SPECIFICATION MCSpec
INVARIANTS PanicOnlyWhenFull FindEventsCorrect NothingMissed InOrder NeverBlocks
PROPERTIES ImplementsRevisionLog RevisionsCommitted EventsDelivered
CHECK_DEADLOCK FALSE
