\* Two overlapping calls, see Budgets.
SPECIFICATION FairSpec
CONSTANTS
  c1 = c1
  c2 = c2
  Caller = {c1, c2}
  None = None
  MaxTime = 3
  Budget <- Budgets
INVARIANTS
  Purged
PROPERTIES
  AccessFollowsProvider
CHECK_DEADLOCK FALSE
