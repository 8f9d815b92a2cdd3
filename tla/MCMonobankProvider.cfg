CONSTANTS
  Codes <- MCCodes
  Table <- MCTable
  Unsupported = Unsupported
  MaxDate <- MCMaxDate
  LastPlainInstant <- MCLastPlain
  NotItems = NotItems
  Corrupt = Corrupt
  TimeoutMs = 2
  MaxDelay = 3
  MaxBodyBytes = 3
  ChunkSizes = {1, 2}
  Bodies <- MCBodies
  Statuses = {200, 304, 429, 500}
  MaxTime = 3
  Fetchers = {call, other}
  Admins = {a1, a2}
  Fixtures <- MCFixtures
  Default <- MCDefault
  Malformed = NotItems
  Call = call
SPECIFICATION FairSpec
INVARIANT ProviderTypeOK
INVARIANT TimeoutWins
INVARIANT NothingOutlives
INVARIANT SettlesInTime
INVARIANT RatesAsPublished
INVARIANT StoredAsFetched
INVARIANT CountsArrivals
INVARIANT OutcomeOfMode
PROPERTY NothingHeldForEver
PROPERTY MockStops
PROPERTY KeepsContract
