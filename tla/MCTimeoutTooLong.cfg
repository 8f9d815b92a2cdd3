CONSTANTS
  Codes <- MCCodes
  Table <- MCTable
  Unsupported = Unsupported
  MaxDate <- MCMaxDate
  LastPlainInstant <- MCLastPlain
  NotItems = NotItems
  Corrupt = Corrupt
  TimeoutMs = 4
  MaxDelay = 3
  MaxBodyBytes = 3
  ChunkSizes = {1, 2}
  Bodies <- MCBodies
  Statuses = {200, 304, 429, 500}
  MaxTime = 5
  Fetchers = {call, other}
  Admins = {a1, a2}
  Fixtures <- MCFixtures
  Default <- MCDefault
  Malformed = NotItems
  Call = call
SPECIFICATION Spec
INVARIANT TimeAllowed
