SPECIFICATION SyncSpec
CONSTANTS
  v0 = v0
  v1 = v1
  v2 = v2
  v3 = v3
  p1 = p1
  p2 = p2
  Validator <- TwoValidators
  Index <- GenesisIndex
  Observers <- NoNodes
  Faulty <- NoNodes
  Payloads <- OnePayload
  MaxHeight = 2
  MaxRound = 1
  MaxRestarts = 1
INVARIANT NextHeightOnly
PROPERTIES CatchUp Progress ImplementsFinality
CHECK_DEADLOCK FALSE
