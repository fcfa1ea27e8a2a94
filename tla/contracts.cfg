SPECIFICATION Spec
CONSTANTS
  Addr <- FiveAddrs
  Fee = 1
  MaxFee = 2
  Contract <- TwoContracts
  App <- OneApp
  AppAddress <- AppIsFive
  Tx <- NestedAndAnchors
  Proposer <- OneValidator
  Balance <- Genesis
  Amount = {0, 1}
  MaxCallDepth = 2
  MaxEvents = 1
CONSTRAINT ShortOutcomes
INVARIANTS Conserved FailureLeavesTheFee LossIsBounded OutcomeOncePerEpoch
CHECK_DEADLOCK FALSE
