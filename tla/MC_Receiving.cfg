CONSTANTS
  Messages = {1, 2, 3}
  Opts <- MCOpts
  Offer <- MCOffer
  Unloggable = {}
  MaxWins = 2
  MaxArrivals <- MCArrivals
  Settings0 = {"lockpasswd", "loglocked"}
  Changeable = {"popup"}
  Disk0 <- MCDisk
SPECIFICATION Spec
INVARIANTS
  ListsFollowWindows
  SealHides
  ReadIsLogged
  ReportedIsWhole
PROPERTIES
  OldFilesKept
CHECK_DEADLOCK FALSE
