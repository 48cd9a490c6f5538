CONSTANTS
  A = A
  B = B
  Peers <- MCPeers
  Self = Self
  None = None
  Configs <- MCConfigs
  Mode <- MCMode
  Txns = {t1}
  Watches = {w1}
  MaxChanges = 4
  Ids = {1, 2}
  Batches = 2
  StreamCapacity = 1
  MaxRevision = 2
SPECIFICATION MCSpec
INVARIANTS ForwardedOnOpenClient StaleWatchTold MapMatchesGoroutines EndedIsTold
PROPERTIES ProxyReconnects ProxyWatchesFollow TxnsEnd StreamCloses
CHECK_DEADLOCK FALSE
