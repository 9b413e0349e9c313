SPECIFICATION Spec
INVARIANTS
  MessagesIntact
PROPERTIES
  EverythingArrives
  Reconnects
CHECK_DEADLOCK FALSE
CONSTANTS
  BufSize = 3
  BufLimit = 2
  WireMax = 2
  Settings <- MCSettings
  Talks <- MCTalks
  MaxCrashes = 1
  MaxTimeouts = 1
