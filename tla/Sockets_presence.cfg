\* A reconnect that overlaps the end of the old socket.
SPECIFICATION Spec
CONSTANTS
  k1 = k1  k2 = k2
  Sockets <- TwoSockets
  SendCap = 2
INVARIANTS
  PresenceFollowsSockets
CHECK_DEADLOCK FALSE
