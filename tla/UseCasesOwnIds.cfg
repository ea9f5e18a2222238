CONSTANTS
  c1 = c1  c2 = c2  c3 = c3  r1 = r1  i1 = i1  i2 = i2  i3 = i3  h1 = h1  h2 = h2
  Calls = {c1, c2}
  Recoverers = {r1}
  CallIds = {i1, i2}
  CallOf <- OwnIdsHere
  OperationOf <- MixedHere
  Hosts = {h1, h2}
  HostOf <- TwoHostsHere
  None = None
  Stale = 1
  DiskErrors = TRUE
  MaxCrashes = 1
SPECIFICATION Spec
INVARIANTS TypeOK AnswerMatchesLedger NoPortBeforeAudit UnavailableIsNotRecorded OnlyStaleCallsFail AnsweredQueriesEndTheirSpan
