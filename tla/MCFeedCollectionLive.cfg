\* Liveness: two declared feeds, f3 is left over from an earlier release.
CONSTANTS
  f1 = f1
  f2 = f2
  f3 = f3
  NoFeed = NoFeed
  Resident = Resident
  Feed = {f1, f2, f3}
  Declared = {f1, f2}
  Wanted = {f2}
  OnceRuns = {}
  Intervals <- MCIntervals
  DeclaredInterval <- MCDeclaredInterval
  FirstRetryDelay = 1
  RetryDelayMultiplier = 3
  MaxTime = 1
  MaxRevision = 1
  MaxRequests = 1
  MaxDisturbances = 1
SPECIFICATION FairSpec
PROPERTIES RequestsAreServed DueFeedsAreCollected StopIsObeyed
CHECK_DEADLOCK FALSE
