SPECIFICATION Spec
CONSTANTS
  v1 = v1
  v2 = v2
  farmer = farmer
  Validator = {v1, v2}
  RunSets <- OverlapOrTwo
  Order <- OneOrder
  Terms = {"wood"}
  Delivered = {"wood", "wheat"}
  Seller = {farmer}
  MaxHeight = 1
  MaxAnchorFaults = 1
  Peer = {"a", "b"}
  Entrance = "a"
  Proposer = {"b"}
  LastTx = 2
  Size <- Bytes
  MaxBatch = 2
  MaxBytes = 2
  MaxAdmissions = 2
  CompactAt = 0
  MaxGossipFaults = 1
  Hash = {1, 2, 3, 4}
  Forged = {3, 4}
  Caller = {1, 2}
  Batches <- FourBatches
  Threads = 2
  MinParallel = 2
  MaxVerified = 1
  MaxPoolFaults = 1
  alice = alice
  Network = {"l1", "app"}
  Recipient = {alice}
  Funds = 4
  MaxSpends = 1
  MaxRefusals = 1
  MaxNodeStops = 1
  MaxChecks = 1
  MaxSends = 2
  MaxWebFaults = 1
  small = small
  large = large
  negative = negative
  App = {"x", "y", "z"}
  Granted = {"x", "y"}
  Auth = {"y"}
  Payload = {small, large, negative}
  SpendLimit = 1
  Chains = {"l1"}
  Cost <- Price
  Signable <- IsAmount
  Chosen <- MadeUp
  RequestSets <- CallSets
  MaxDaemonStops = 1
  Processes = 2
  Txs = 3
  Window = 2
  WindowConvergence = TRUE
  Concurrency = 2
  MaxAttempts = 2
  MaxBlock = 1
  MaxBenchFaults = 1
  Limit <- Limits
  Messages <- Samples
  TopUnit = 4
  MaxEdits = 2
INVARIANTS PaidForDelivery NothingLostInGossip FirstForgedIsFound PageSaysTruth SpentWithinGrant ReportIsTrue WireIsExact
PROPERTY Rests
CHECK_DEADLOCK FALSE
