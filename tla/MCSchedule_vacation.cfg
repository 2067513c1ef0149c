CONSTANTS
  UPLOAD_LAYERS = 2
  UPLOAD_DAYS = 2
  Times = {0, 1, 2}
  PumpSlots = 2
  FallbackSlots = 3
  SINGLE_EVENT_SLOT_LIMIT = 100
  MAX_VACATIONS_PER_CLEAR = 8
  SCHED_MAX_ATTEMPTS = 1
  Requests <- Lifted
  InitialPumps <- Vacations
  Faults = {"lost"}
  Clocks = {TRUE}
  MaxOps = 2
  MaxFaults = 1
  MaxLate = 0
  MaxTime = 2
SPECIFICATION Spec
PROPERTY ClearedIsLifted
CHECK_DEADLOCK FALSE
