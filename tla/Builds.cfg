\* Two crates and a git dependency; two jobs and two builders, a claim that may
\* be released once and expires after one tick; three rows, two statuses, two
\* instants, pages of at most two rows, one row changed between two pages.
CONSTANTS
  Wasms <- MCWasms
  Jobs <- MCJobs
  Crates = {"c1", "c2"}
  GitDeps = {"g1"}
  FirstPartyHashes <- MCFirstParty
  QueueJobs = {1, 2}
  Builders = {b1, b2}
  Visibility = 1
  MaxClaims = 2
  MaxQueueClock = 4
  MaxReleases = 1
  RowIds = {1, 2, 3}
  Statuses = {"a", "b"}
  MaxInstant = 1
  PageMax = 2
  MaxChanges = 1
SPECIFICATION MCSpec
INVARIANTS BuildsSound QueueBounded PagesComplete
CHECK_DEADLOCK FALSE
