CONSTANTS
  Docs = {d1}
  Others = {o1}
  Checks = {h1, h2}
  PingTimeout = 2
  MaxErrors = 2
  MaxTime = 4
  Off = Off
SPECIFICATION FairSpec
INVARIANT BackendTypeOK
INVARIANT HealthInTime
INVARIANT OutageHoldsNobody
INVARIANT OneWarningPerOutage
INVARIANT EveryRequestLogged
INVARIANT OutageIsLogged
PROPERTY FailedBootEnds
