CONSTANTS
  p1 = p1  p2 = p2  p3 = p3
  Procs = {p1, p2, p3}
  Operators = {p1}
  None = None
  DiskErrors = TRUE
  MaxCrashes = 2
SPECIFICATION FairSpec
INVARIANTS TypeOK ReadyMeansSchema
PROPERTIES UpgradeKeepsEntries MigrationsEnd
