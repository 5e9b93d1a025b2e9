\* One socket whose client falls silent.
SPECIFICATION FairSpec
CONSTANTS
  k1 = k1  k2 = k2
  Sockets <- OneSocket
  SendCap = 2
PROPERTIES
  GhostsLeave
CHECK_DEADLOCK FALSE
