SPECIFICATION Spec
CONSTANTS
  n1 = n1  n2 = n2  p1 = p1  p2 = p2
  Networks <- MCNetworks
  Procs <- MCProcs
  Retries = 1
  EventCap = 1
  MaxVersion = 2
  MaxCalls = 2
SYMMETRY MCSymmetry
INVARIANTS TypeOK CacheRight DroppedStaysHidden TenantsApart
CHECK_DEADLOCK FALSE
