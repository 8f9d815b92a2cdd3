CONSTANTS
  c1 = c1
  c2 = c2
  c3 = c3
  p1 = p1
  p2 = p2
  None = None
  Calls <- TwoCalls
  Procs <- TwoProcs
  ProcOf <- OneEach
  Skew <- Skewed
  TTL = 2
  MaxTime = 6
  CmdTimeout = 1
  MaxDrops = 0
  MaxChunk = 1
  Refusable = {}
  InitKinds = {"garbled"}
  UpstreamTimeout = 1
  Mortal = {}
SPECIFICATION Spec
PROPERTY DiscardOnlyRemovesCorrupt
