\* What is published is what was stored, as entry-changes.tsx says.
CONSTANTS
  s1 = s1
  s2 = s2
  Slot = {s1, s2}
  NoView = NoView
  Deadline <- MCDeadline
  MaxTexts = 2
  MaxTurns = 3
SPECIFICATION Spec
SYMMETRY SlotSymmetry
INVARIANT ShownIsStored
