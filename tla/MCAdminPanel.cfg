\* Two requests on their way, pages of one attempt.
CONSTANTS
  StaleAfter = 4
  MaxTime = 6
  MaxEvents = 4
  Slot = {1, 2}
  Interval <- MCInterval
  PageSize = 1
  FirstRetryDelay = 1
  RetryDelayMultiplier = 3
SPECIFICATION Spec
INVARIANTS StatusIsTrue ShownAgreesWhenQuiet HistoryIsOfSelection PagesCoverAttempts
CHECK_DEADLOCK FALSE
