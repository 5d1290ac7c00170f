SPECIFICATION Spec
CONSTANTS
  t = t
  d = d
  e = e
  f = f
  g = g
  Nodes = {t, d, e, f, g}
  Top = t
  Dirs = {t, d, e}
  Children <- Tree
  Sizes = {0, 2, 3}
  SizeLimit = 3
  Convertible = {f}
  Garbage <- Garbled
  Window = 3
  Retry = 1
INVARIANTS
  FilesWhereTheyBelong
  ReceiverFollows
  DoneIsWhole
  StaysBelowTop
PROPERTIES
  CopyEnds
CHECK_DEADLOCK FALSE
