CONSTANTS
  Keys = {k1}
  Writers = {w1}
  Capacity = 3
  StartRevision = 1
  MaxRevision = 4
  Ahead = {2}
  WriteFaults = {"limbo"}
  RewriteFaults = {"applied"}
  CompactRequests = {4}
SPECIFICATION Spec
INVARIANTS
  
  CompactBelowUncertain
PROPERTIES
  ReadsRepeatable
CHECK_DEADLOCK FALSE
