SPECIFICATION Spec
CONSTANTS
  p1 = p1  p2 = p2  t1 = t1  t2 = t2
  Procs <- MCProcs
  Tickets <- MCTickets
  TicketTTL = 1
  Lives = {2, 3}
  Margin = 1
  KeyTTL = 1
  MaxChange = 2
  MaxTime = 3
  MaxCalls = 4
SYMMETRY MCSymmetry
INVARIANTS TicketOnce CachesHold
CHECK_DEADLOCK FALSE
