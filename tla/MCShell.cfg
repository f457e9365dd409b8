CONSTANTS
  MaxEvents = 4
  MaxAsked = 2
  Declared <- MCDeclared
  RowOf <- MCRowOf
  Group <- MCGroup
  Orders <- MCOrders
  Entry <- MCEntry
  Typed <- MCTyped
  Remembered <- MCRemembered
  MaxSteps = 3
SPECIFICATION Spec
INVARIANTS TableKeepsUp LinksLead
PROPERTIES ScreenStays FocusIsKept FeedsCatchUp
CHECK_DEADLOCK FALSE
