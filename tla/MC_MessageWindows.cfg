CONSTANTS
  Hosts = {1, 2}
  Keys <- MCKeys
  GroupOf <- MCGroupOf
  Dialup = {2}
  Files = {1}
  Prios <- MCPrios
  Wins = {1}
  MaxPackets = 2
  MaxNested = 2
  MaxEvents = 3
SPECIFICATION Spec
INVARIANTS
  SentToChosen
  WindowsShowList
  LockedIsSealed
PROPERTIES
  ServedUnlessDisturbed
CHECK_DEADLOCK FALSE
