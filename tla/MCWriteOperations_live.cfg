SPECIFICATION FairSpec
CONSTANTS
  start = start  stop = stop  temp = temp  low = low  high = high  bad = bad
  clock = clock
  SPEED = SPEED  TEMP = TEMP  NotANumber = NotANumber  NoMode = NoMode  NoOp = NoOp
  Ops <- LiveOps
  Request <- Requests
  Modes <- TwoModes
  ScalarModes <- OnlySpeed
  Values <- SomeValues
  Clamp <- Limited
  EnabledMaxAttempts = 1
  ModeMaxAttempts = 1
  SetpointMaxAttempts = 1
  ClockMaxAttempts = 1
  MaxModeConfirmAttempts = 2
  Faults = {"lost_frame", "lost_reply", "watchdog", "drop"}
  MaxPolls = 1
  MaxPanel = 0
PROPERTIES EverySettles
