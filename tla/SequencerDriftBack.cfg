CONSTANTS
  Capacity = 3
  StartRevision = 1
  MaxRevision = 4
SPECIFICATION FairSpec
PROPERTIES
  EveryRevisionCommitted
CHECK_DEADLOCK FALSE
