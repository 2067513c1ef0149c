SPECIFICATION FairSpec
CONSTANTS
  NaN = NaN
  Speeds <- MCTwoSpeeds
  Trusted <- MCTrusted
  Loop <- MCLoop
  Estimate <- MCEstimate
  Draws <- MCDraws
  Rollovers <- MCNoRollover
  flow_threshold = 2
  demand_flow = 2
  continuation_release = 0
  dhw_in_use_loop_bias = 3
  PumpStale = 0
  FlowStale = 1
  Settle = 1
  ContinuationMax = 2
  ReleaseTicks = 2
  InUseMin = 0
  Carry = 1
  LatchSamples = 2
  Suppression = 0
  Release = 1
  Gap = 0
  MaxMoves = 2
PROPERTY DemandEnds
