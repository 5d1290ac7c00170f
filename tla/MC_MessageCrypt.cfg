CONSTANTS
  Hosts = {a, b}
  a = a
  b = b
  Unsafe = {}
  Failing <- MCFailing
  ShortSigners = {b}
  Passwords <- MCPasswords
  FirstStates <- MCFirst
  LaterSettings <- MCLater
  Texts = {"easy", "odd"}
  Unconvertible = {"odd"}
  MaxRuns <- MCRuns
  MaxChanges <- MCChanges
  MaxSends = 1
SPECIFICATION Spec
INVARIANTS
  PairsMatch
  KeysKnownAreCurrent
  KeysSurviveRestarts
  AgreedReadable
PROPERTIES
  PlainOnlyWithoutKey
CHECK_DEADLOCK FALSE
