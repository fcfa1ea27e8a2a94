SPECIFICATION StorageSpec
CONSTANTS
  Key <- Keys
  Account <- Accounts
  Allocations <- OutOfOrder
  MaxHeight = 2
  MaxCrashes = 2
  MaxFailures = 2
  engine = engine
  rpc1 = rpc1
  rpc2 = rpc2
  Engine = engine
  Others = {rpc1, rpc2}
  CachedKey <- TwoKeys
  Capacity = 1
  MaxCommits = 2
  LayerValue = {1, 2}
  MaxLayers = 2
INVARIANTS CacheIsSound RunsOnItsHistory RootsAgree HeadIsStored
PROPERTIES ImplementsStateStore ImplementsTransactions
CHECK_DEADLOCK FALSE
