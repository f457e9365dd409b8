\* Two requests on their way at a time, three turns of the user or of the network.
CONSTANTS
  s1 = s1
  s2 = s2
  Slot = {s1, s2}
  NoView = NoView
  Deadline <- MCDeadline
  MaxTexts = 2
  MaxTurns = 3
SPECIFICATION Spec
SYMMETRY SlotSymmetry
INVARIANTS ReaderWaitsForOneAnswer ShownAgreesWhenSequential DeadlineIsOfStoredPage
