CONSTANTS
  Keys = {k1}
  Writers = {w1}
  Capacity = 3
  StartRevision = 1
  MaxRevision = 4
  Ahead = {}
  WriteFaults = {"limbo"}
  RewriteFaults = {"limbo"}
  CompactRequests = {}
SPECIFICATION Spec
INVARIANT ViewInSync
CHECK_DEADLOCK FALSE
