CONSTANTS
  c1 = c1
  c2 = c2
  c3 = c3
  p1 = p1
  p2 = p2
  Calls <- MCCalls
  Procs <- MCProcs
  ProcOf <- MCProcOf
  Skew <- MCSkew
  TTL = 1
  MaxTime = 2
  None = None
SPECIFICATION ServiceSpec
INVARIANT ServiceTypeOK
INVARIANT SingleFlightInv
INVARIANT WaitersAboard
PROPERTY ImplementsSingleFlight
CHECK_DEADLOCK FALSE
