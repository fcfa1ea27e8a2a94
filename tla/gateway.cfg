SPECIFICATION Spec
CONSTANTS
  alice = alice
  bob = bob
  home = home
  Network = {"l1", "app"}
  Networks <- ChainAndApp
  Recipient = {alice, bob}
  Funds = 2
  MaxSpends = 1
  MaxRefusals = 1
  MaxNodeStops = 1
  Ip = {home}
  Source = {home}
  HourlyLimit = 1
  MaxClaims = 2
  MaxFaucetStops = 1
  MaxFaults = 2
  MaxRestarts = 1
  Reader = {r1, r2}
  Peers <- ThreePeers
  MaxReads = 1
  Deadline = 3
  MaxClosing = 1
  creator = creator
  opponent = opponent
  stranger = stranger
  Creator = creator
  Opponent = opponent
  Stranger = stranger
  Slot = {a1, a2}
  Signed <- Moves
  MaxMessages = 3
  MaxStops = 2
  author = author
  p1 = p1
  p2 = p2
  t1 = t1
  t2 = t2
  Author = author
  Post = {p1, p2}
  Payment = {t1, t2}
  Offers <- TwoPostsOrTwoTips
  Batch = 1
  MaxProbes = 1
  MaxFeedFaults = 1
  MaxFeedStops = 2
  Steps <- ThreeSteps
  MaxCrashes = 2
  MaxTimeOuts = 1
  Requests <- AllRequests
INVARIANTS PromisesKept GrantsKept FailedPeersHideNothing AcknowledgedSurvives DeploysOnce
PROPERTY Settles
CHECK_DEADLOCK FALSE
