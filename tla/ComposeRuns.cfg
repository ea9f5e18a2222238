CONSTANTS
  r1 = r1  r2 = r2
  Runs = {r1, r2}
  MaxAttempts = 3
SPECIFICATION FairSpec
INVARIANTS TypeOK NotStarved FailsOnlyForCause
PROPERTIES EveryRunEnds
CHECK_DEADLOCK FALSE
