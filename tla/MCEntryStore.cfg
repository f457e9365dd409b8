\* Two feeds of either kind.  No declared feed allows an empty answer, but the
\* lower bound of s can leave a success without entries.
CONSTANTS
  r = r
  s = s
  k1 = k1
  k2 = k2
  k3 = k3
  Feed = {r, s}
  Key = {k1, k2, k3}
  Batch <- MCBatch
  PublishedSince <- MCPublishedSince
  AllowEmpty = {}
  Limits = {2, 3}
  DeclaredLimit <- MCDeclaredLimit
  NoFeed = NoFeed
  MaxAttempts = 3
  MaxChanges = 1
SPECIFICATION Spec
INVARIANTS EntriesAreInOrder RankTableMatchesHistory
PROPERTIES UnreadGrowsByNewEntriesOnly
