\* Two keys, the second an event, in one range; three writes, two
\* compactions at any revisions, failing deletions and one restart of a scan.
\* Two keys with three versions in up to three regions, read in parts.
CONSTANTS
  Keys = {1, 2}
  Events = {2}
  Ranges <- OneRange
  TTL = 1
  DelFaults = {"error", "applied"}
  MaxTries = 2
  MaxRevision = 3
  MaxClock = 1
  MaxCompactions = 2
  UserKeys <- MCUserKeys
  Split = 1
  Bounds <- MCBounds
  Borders <- MCBorders
  Limits = {1}
  StreamBatch = 2
  MaxBorders = 2
SPECIFICATION MCSpec
INVARIANTS ScannerTypesOK CompactionInvisible IndexNamesNewest  ListExact StreamCovers
CHECK_DEADLOCK FALSE
