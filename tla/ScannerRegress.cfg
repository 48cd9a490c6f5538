\* One key that lives for ever, two ranges and no failures: only the compact
\* record matters.  Nothing is read in parts.
CONSTANTS
  Keys = {1}
  Events = {}
  Ranges <- TwoRanges
  TTL = 1
  DelFaults = {}
  MaxTries = 1
  MaxRevision = 3
  MaxClock = 0
  MaxCompactions = 2
  UserKeys = {}
  Split = 1
  Bounds = {}
  Borders = {}
  Limits = {1}
  StreamBatch = 2
  MaxBorders = 0
SPECIFICATION MCSpec
INVARIANT RangeExact
CHECK_DEADLOCK FALSE
