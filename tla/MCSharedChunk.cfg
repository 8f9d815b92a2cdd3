CONSTANTS
  c1 = c1
  c2 = c2
  c3 = c3
  p1 = p1
  p2 = p2
  None = None
  Calls <- TwoCalls
  Procs <- OneProc
  ProcOf <- TwoOnP
  Skew <- Exact
  TTL = 2
  MaxTime = 7
  CmdTimeout = 2
  MaxDrops = 0
  MaxChunk = 2
  Refusable = {}
  InitKinds = {"absent"}
  UpstreamTimeout = 1
  Mortal = {}
SPECIFICATION Spec
PROPERTY NoRedundantFetch
