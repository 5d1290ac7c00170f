CONSTANTS
  Hosts = {1, 2, 3}
  Keys <- MCOneKey
  GroupOf <- MCGroupOf
  Dialup = {2}
  Files = {1}
  Prios <- MCPrios
  Wins = {1}
  MaxPackets = 1
  MaxNested = 1
  MaxEvents = 2
SPECIFICATION Spec
PROPERTIES
  PriorityAsAsked
CHECK_DEADLOCK FALSE
