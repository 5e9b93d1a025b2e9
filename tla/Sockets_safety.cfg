\* Two sockets of one member, a kick, silence and broken connections.
SPECIFICATION FairSpec
CONSTANTS
  k1 = k1  k2 = k2
  Sockets <- TwoSockets
  SendCap = 2
INVARIANTS
  TypeOK
  RegisteredWhileServed
  
  OnlySlippersSurvive

  
CHECK_DEADLOCK FALSE
