CONSTANTS
  c1 = c1
  c2 = c2
  c3 = c3
  p1 = p1
  p2 = p2
  None = None
  Calls <- TwoCalls
  Procs <- OneProc
  ProcOf <- TwoOnP
  Skew <- Exact
  TTL = 1
  MaxTime = 5
  CmdTimeout = 1
  MaxDrops = 1
  MaxChunk = 1
  Refusable = {}
  InitKinds = {"garbled"}
  UpstreamTimeout = 1
  Mortal = {}
SPECIFICATION FairSpec
PROPERTY EveryCallSettles
