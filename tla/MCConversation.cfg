\* Two engines, two turns at once, a map of two sessions.
CONSTANTS
  e1 = e1
  e2 = e2
  NoEngine = NoEngine
  Engine = {e1, e2}
  Engines <- MCEngines
  Slot = {1, 2}
  MaxSessions = 2
  MaxAsks = 3
  MaxEvents = 3
SPECIFICATION Spec
INVARIANTS EngineKnowsWhatIsShown NothingIsSentTwice MapHoldsLatest
PROPERTIES LoginsAreNotUndone QuestionsEnd
CHECK_DEADLOCK FALSE
