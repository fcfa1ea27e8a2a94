SPECIFICATION Spec
CONSTANTS
  Addr <- FourAddrs
  Fee = 1
  MaxFee = 2
  Tx <- MixedTxs
  Balance <- Genesis
  Proposer <- TwoAndThree
  MaxTxs = 3
  MaxPeerTxs = 2
  MaxBlocks = 1
INVARIANTS Conserved NoncesInOrder DraftVerifies
PROPERTY ImplementsLedger
CHECK_DEADLOCK FALSE
