\* Two clients and up to four commits of an engine; two clients, two keys and
\* revisions up to 3 of the KV service; two nodes, two ends of a process and
\* none of the narrow races.
CONSTANTS
  revisionKey = revisionKey
  objectKey = objectKey
  Clients = {c1, c2}
  Keys <- MCKeys
  Values <- MCValues
  Absent = Absent
  None = None
  Batches <- MCBatches
  MaxVersion = 4
  EtcdClients = {d1, d2}
  RawKeys = {1, 2}
  Limit = 1
  MaxRevision = 3
  n1 = n1
  n2 = n2
  Nodes = {n1, n2}
  Nobody = Nobody
  Races = {}
  MaxOracle = 5
  MaxDeals = 2
  MaxUpdates = 3
  MaxCrashes = 2
SPECIFICATION MCSpec
SYMMETRY Symmetry
INVARIANTS ServiceTypesOK  GetThenWatch PagesAreOneSnapshot  
  
CHECK_DEADLOCK FALSE
