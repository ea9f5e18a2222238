CONSTANTS
  p1 = p1  p2 = p2  p3 = p3
  Procs = {p1}
  Operators = {p1}
  None = None
  DiskErrors = FALSE
  MaxCrashes = 1
SPECIFICATION Spec
INVARIANTS VersionIffTable
