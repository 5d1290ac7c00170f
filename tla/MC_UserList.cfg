SPECIFICATION Spec
CONSTANTS
  a = a
  w = w
  Hosts = {a, w}
  Foreign = {w}
  Dialups = {w}
  Reach <- Others
  MaxOps = 4
INVARIANTS
  ListedUnlessApart
  KeysAskedForAreKnown
PROPERTIES
  TrafficEnds
CHECK_DEADLOCK FALSE
