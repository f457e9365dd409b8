\* Pages of one entry and one entry of context: three entries already have
\* pages to load at both ends of the window.
CONSTANTS
  ContextCount = 1
  PageSize = 1
  MaxEntries = 3
  MaxSaves = 1
SPECIFICATION FairSpec
INVARIANTS WindowIsARun NothingIsReadUnseen
PROPERTIES PassedIsSaved
