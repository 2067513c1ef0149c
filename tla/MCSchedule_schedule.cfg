CONSTANTS
  UPLOAD_LAYERS = 2
  UPLOAD_DAYS = 2
  Times = {0, 1, 2}
  PumpSlots = 2
  FallbackSlots = 3
  SINGLE_EVENT_SLOT_LIMIT = 100
  MAX_VACATIONS_PER_CLEAR = 8
  SCHED_MAX_ATTEMPTS = 1
  Requests <- Everything
  InitialPumps <- OneEvent
  Faults = {"lost", "unheard", "ignored", "watchdog", "drop", "app", "reread"}
  Clocks = {TRUE, FALSE}
  MaxOps = 2
  MaxFaults = 1
  MaxLate = 1
  MaxTime = 2
SPECIFICATION Spec
INVARIANT TypeOK
PROPERTIES AcceptedIsHeld OtherDaysKept HashIsPumps KnownEventsKept
CHECK_DEADLOCK FALSE
