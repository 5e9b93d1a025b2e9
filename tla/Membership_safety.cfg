SPECIFICATION Spec
CONSTANTS
  o = o  a = a  g1 = g1  g2 = g2  c1 = c1  c2 = c2  p1 = p1  p2 = p2  p3 = p3
  Owner = o
  Users <- MCUsers
  Guests <- MCGuests
  Chans <- MCChans
  Procs <- MCProcs
  MaxCalls = 3
SYMMETRY MCSymmetry
INVARIANTS TypeOK ClassesRight KickedStaysOut NamesDistinct BelongingsRight
CHECK_DEADLOCK FALSE
