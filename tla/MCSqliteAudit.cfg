CONSTANTS
  c1 = c1  c2 = c2  r1 = r1  i1 = i1  h1 = h1  h2 = h2
  Calls = {c1, c2}
  Recoverers = {r1}
  CallIds = {i1}
  CallOf <- MCCallOf
  Hosts = {h1, h2}
  HostOf <- MCHostOf
  None = None
  Stale = 1
  DiskErrors = TRUE
  MaxCrashes = 1
SPECIFICATION AuditSpec
INVARIANTS AuditTypeOK StartedIsDurable FinishedIsDurable
PROPERTIES ImplementsLedger FreshRowsSurvive
