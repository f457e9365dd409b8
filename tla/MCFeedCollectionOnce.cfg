\* The resident collector and a --once run side by side.
CONSTANTS
  f1 = f1
  f2 = f2
  f3 = f3
  NoFeed = NoFeed
  Resident = Resident
  Feed = {f1, f2}
  Declared = {f1, f2}
  Wanted = {f2}
  OnceRuns = {once}
  Intervals <- MCIntervals
  DeclaredInterval <- MCDeclaredInterval
  FirstRetryDelay = 1
  RetryDelayMultiplier = 3
  MaxTime = 1
  MaxRevision = 1
  MaxRequests = 1
  MaxDisturbances = 1
SPECIFICATION Spec
INVARIANTS AtMostOneRunning
PROPERTIES PauseHolds
CHECK_DEADLOCK FALSE
