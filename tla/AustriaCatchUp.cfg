\* Two feeds of two notices, one notice read in a poll, one failure.
CONSTANTS
  NumFeeds = 2
  NumItems = 2
  None = None
  Budget = 1
  Overlap = 1
  Lookback = 1
  Deadlines = {2, None}
  MaxClock = 2
  MaxPublications = 2
  MaxFailures = 1
  MaxRetired = 1
SPECIFICATION FairSpec
INVARIANTS TypeOK NothingSkipped
PROPERTIES SnapshotIsTrue CyclesEnd
