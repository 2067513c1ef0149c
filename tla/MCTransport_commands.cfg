SPECIFICATION FairSpec
CONSTANTS
  s1 = s1  s2 = s2  r1 = r1  p1 = p1  NoCmd = NoCmd
  Cmds <- Mixed
  Kind <- MixedKind
  Chunks <- MixedLen
  ReplyType <- MixedType
  Refusable <- MixedRefusable
  Pacing = 1
  AckTimeout = 2
  ReadTimeout = 4
  StaleWindow = 3
  PeerStale = 1
  ResyncHold = 2
  OwedMax = 2
  MaxAbandonSteps = 3
  MaxLatency = 3
  LateBudget = 2
  PollRefusals = TRUE
INVARIANTS TypeOK DamageBounded NoFalseSuccess NoSwallow NoCarryOver
PROPERTIES EverySettles KeepsPromise
