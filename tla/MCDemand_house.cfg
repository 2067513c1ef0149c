SPECIFICATION Spec
CONSTANTS
  NaN = NaN
  Speeds <- MCSpeeds
  Trusted <- MCTrusted
  Loop <- MCLoop
  Estimate <- MCEstimate
  Draws <- MCDraws
  Rollovers <- MCRollovers
  flow_threshold = 2
  demand_flow = 2
  continuation_release = 0
  dhw_in_use_loop_bias = 3
  PumpStale = 1
  FlowStale = 2
  Settle = 1
  ContinuationMax = 2
  ReleaseTicks = 2
  InUseMin = 1
  Carry = 1
  LatchSamples = 2
  Suppression = 1
  Release = 1
  Gap = 1
  MaxMoves = 2
INVARIANTS NoLoopScored AboveLoopIsATap CarryIsRecent NeverRevived
PROPERTIES SessionSpans
