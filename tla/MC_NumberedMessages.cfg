SPECIFICATION NumberedSpec
CONSTANTS
  PktNos <- Numbers
  Attached = {}
  MSG_INFO_MAX_RETRY = 1
  UniqueNumbers = FALSE
  ClockPeriod = 3
  MaxClock = 3
  MaxCount = 2
  ClockMayStepBack = TRUE
INVARIANTS
  NumbersDoNotCollide
CHECK_DEADLOCK FALSE
