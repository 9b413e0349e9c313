SPECIFICATION Spec
PROPERTIES
  HandsOver
CHECK_DEADLOCK FALSE
CONSTANTS
  w1 = w1
  w2 = w2
  c1 = c1
  c2 = c2
  Workers <- MCWorkers
  Clients <- MCClients
  HeadNumbers = 2
  WireMax = 2
  MaxCrashes = 1
  MaxTimeouts = 1
