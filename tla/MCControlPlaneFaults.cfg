\* One application, two hosts of which one is stopped and one loses a live lease.
SPECIFICATION HostsFairSpec
CONSTANTS
  a1 = a1
  a2 = a2
  t1 = t1
  t2 = t2
  h1 = h1
  h2 = h2
  App = {a1}
  Task = {t1, t2}
  Host = {h1, h2}
  Rank <- RankOf
  Plans <- TwoTaskPlans
  Result = {"DONE"}
  None = None
  Gone = Gone
  NoTask = NoTask
  MaxDispatches = 2
  Exec = {1, 2, 3, 4}
  MaxCrashes = 0
  MaxStops = 1
  MaxStalls = 1
  MaxRefusals = 0
INVARIANTS
  AppliedAsRecorded
  NoTaskSkipped
PROPERTIES BatonsDrain
