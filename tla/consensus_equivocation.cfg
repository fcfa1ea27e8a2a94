SPECIFICATION Spec
CONSTANTS
  v0 = v0
  v1 = v1
  v2 = v2
  v3 = v3
  p1 = p1
  p2 = p2
  Validator <- FourValidators
  Index <- GenesisIndex
  Observers <- NoNodes
  Faulty <- FirstProposer
  Payloads <- TwoPayloads
  MaxHeight = 1
  MaxRound = 0
  MaxRestarts = 0
INVARIANTS Agreement VoteLock CertificatesHold
CONSTRAINT NoneMisled
SYMMETRY Bystanders
CHECK_DEADLOCK FALSE
