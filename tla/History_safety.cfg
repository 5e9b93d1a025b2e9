SPECIFICATION Spec
CONSTANTS
  s1 = s1  s2 = s2  e1 = e1  e2 = e2  e3 = e3
  Chans <- MCChans
  Kept <- MCKept
  Ids <- MCIds
  ChanOf <- MCChanOf
  Senders <- MCSenders
  Limit = 1
  InboxCaps <- MCCaps
  Cap = 0
  Marks <- MCMarks
  MaxDay = 2
  MaxCalls = 4
SYMMETRY MCSymmetry
INVARIANTS TypeOK EachIdOnce HistoryWalk InboxWalk ReadWithinGiven CapOvershoot
PROPERTIES CursorsNeverBack
CHECK_DEADLOCK FALSE
