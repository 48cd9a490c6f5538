CONSTANTS
  Keys = {k1}
  Writers = {w1, w2}
  Capacity = 3
  StartRevision = 1
  MaxRevision = 4
  Ahead = {}
  WriteFaults = {"limbo", "error"}
  RewriteFaults = {"applied"}
  CompactRequests = {}
SPECIFICATION Spec
SYMMETRY Symmetry
INVARIANTS
  IndexIsLatest
  ViewInSync
PROPERTY VersionsAscend
CHECK_DEADLOCK FALSE
