SPECIFICATION Spec
CONSTANTS
  k1 = k1
  f1 = f1
  d1 = d1
  h1 = h1
  h2 = h2
  UI = UI
  None = None
  PktNos = {k1}
  Files = {f1, d1}
  Dirs = {d1}
  Handlers = {h1, h2}
INVARIANTS
  NoEmptyBlockStays
  SentBlockIsReferenced
  MonitorShowsQueue
PROPERTIES
  CutDirectoryStays
  TransfersAndUIEnd
CHECK_DEADLOCK FALSE
