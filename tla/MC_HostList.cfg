SPECIFICATION FairSpec
CONSTANTS
  MaxUsers = 7
  MaxChanges = 1
  Length = 1
INVARIANTS
  WholeListUnlessThirds
  KeyAskedOnce
PROPERTIES
  ExchangeEnds
CHECK_DEADLOCK FALSE
