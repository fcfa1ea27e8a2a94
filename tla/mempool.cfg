SPECIFICATION Spec
CONSTANTS
  a1 = a1
  a2 = a2
  x = x
  y = y
  Sender <- TwoSenders
  Id <- TwoIds
  Admission <- TwoAdds
  MaxPerSender = 2
  MaxTake = 2
  MaxNonce = 2
SYMMETRY Alike
CONSTRAINT SecondSendsOnce
INVARIANTS PoolIsConsistent TakenIsIncludable StaleOnlyIfLate
CHECK_DEADLOCK FALSE
