\* Two pages that move rows and retry, and a release that changes the rows.
CONSTANTS
  c1 = c1
  c2 = c2
  Client = {c1, c2}
  NoOrder = NoOrder
  Nobody = Nobody
  Releases <- MCReleases
  MaxSends = 2
SPECIFICATION OrderSpec
SYMMETRY ClientSymmetry
INVARIANTS SavedIsShown AnswersAreComplete
PROPERTIES RefusedOnlyWhenOutdated
CHECK_DEADLOCK FALSE
