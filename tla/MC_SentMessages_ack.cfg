SPECIFICATION FairSpec
CONSTANTS
  p1 = p1
  p2 = p2
  PktNos = {p1, p2}
  Attached = {}
  MSG_INFO_MAX_RETRY = 1
  UniqueNumbers = TRUE
PROPERTIES
  AckTakesEffect
CHECK_DEADLOCK FALSE
