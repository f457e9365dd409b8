\* The production setting: the resident collector alone, one declared feed and
\* one the operator cannot patch.
CONSTANTS
  f1 = f1
  f2 = f2
  f3 = f3
  NoFeed = NoFeed
  Resident = Resident
  Feed = {f1, f2}
  Declared = {f1, f2}
  Wanted = {f2}
  OnceRuns = {}
  Intervals <- MCIntervals
  DeclaredInterval <- MCDeclaredInterval
  FirstRetryDelay = 1
  RetryDelayMultiplier = 3
  MaxTime = 3
  MaxRevision = 1
  MaxRequests = 1
  MaxDisturbances = 1
SPECIFICATION Spec
INVARIANTS TypeOK RunningIsOwned NextRunWithinInterval FailureCountMatchesHistory
PROPERTIES FollowsAttemptLog
CHECK_DEADLOCK FALSE
