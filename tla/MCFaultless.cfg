CONSTANTS
  c1 = c1
  c2 = c2
  c3 = c3
  p1 = p1
  p2 = p2
  None = None
  Calls <- ThreeCalls
  Procs <- OneProc
  ProcOf <- AllOnP
  Skew <- Exact
  TTL = 2
  MaxTime = 6
  CmdTimeout = 1
  MaxDrops = 0
  MaxChunk = 1
  Refusable = {}
  InitKinds = {"absent"}
  UpstreamTimeout = 1
  Mortal = {}
SPECIFICATION Spec
INVARIANT OrderInv
SYMMETRY Interchangeable
PROPERTY MonotonicReads
PROPERTY SnapshotReused
PROPERTY NoRedundantFetch
