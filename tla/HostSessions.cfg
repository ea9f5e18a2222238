CONSTANTS
  q1 = q1  q2 = q2  q3 = q3
  Requests = {q1, q2, q3}
  Environments <- MCEnvironments
  Sse = TRUE
  BindHosts = {"127.0.0.1", "0.0.0.0"}
  Sites = {"app"}
  Wildcard = Wildcard  Blank = Blank  NotANumber = NotANumber
  NotRunning = NotRunning  Missing = Missing  Unknown = Unknown
SPECIFICATION Spec
INVARIANTS StreamsWithinSessions
