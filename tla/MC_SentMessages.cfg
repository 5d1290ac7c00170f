SPECIFICATION FairSpec
CONSTANTS
  p1 = p1
  p2 = p2
  PktNos = {p1, p2}
  Attached = {p1}
  MSG_INFO_MAX_RETRY = 2
  UniqueNumbers = TRUE
INVARIANTS
  OneEntryPerNumber
  RegisteredUntilSettled
  AckedWasReceived
  AskedWhenExhausted
  SweepCleansUp
PROPERTIES
  SettledIsNotResent
  ImplementsDelivery
  UserIsTold
  SweepEnds
CHECK_DEADLOCK FALSE
