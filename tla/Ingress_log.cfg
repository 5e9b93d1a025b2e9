SPECIFICATION Spec
CONSTANTS
  p1 = p1  p2 = p2  d1 = d1
  Procs <- MCProcs
  Deliveries <- MCDeliveries
  Debounces = {1, 2}
  MaxCount = 2
  Window = 2
  MaxFailures = 1
  Lockout = 1
  TTL = 1
  Grace = 1
  AlwaysFallback = FALSE
  PageLimit = 1
  Gap = 1
  MaxTime = 3
  MaxCalls = 3
SYMMETRY MCSymmetry
INVARIANTS WalkIsComplete
CHECK_DEADLOCK FALSE
