SPECIFICATION Spec
CONSTANTS
  Strings = 2
  NUM_TRENDS = 2
  EVENT_LOG_MAX_CHAIN_ENTRIES = 2
  EVENT_LOG_ABANDON_HEADROOM = 1
  MAX_ABANDON_STEPS = 4
  Reported = {0, 1, 3}
  MaxGen = 2
INVARIANTS FlagHonest LegsOnce InfoReadHere
PROPERTY DropsAreInert
CHECK_DEADLOCK FALSE
