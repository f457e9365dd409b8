\* Lists of up to five items on pages of two; 490902 is 1 January 2026, 06:00 UTC.
CONSTANTS
  Source <- MCSource
  Item <- MCItem
  RowOf <- MCRowOf
  Listings <- MCListings
  FirstListings <- MCFirstListings
  PageSize = 2
  MaxPages = 3
  Limit = 3
  Retries = 1
  Instants <- MCInstants
  FetchAt = 490902
  Ahead <- MCAhead
  Text <- MCText
  MaxChanges = 2
  MaxRedirects = 2
  Timeout = 2
  MaxBody = 2
  MaxLength = 4
SPECIFICATION Spec
INVARIANTS WhatIsReadIsWhole FetchesAreBounded DatesAreRight OnlyPublicIsReached
CHECK_DEADLOCK FALSE
