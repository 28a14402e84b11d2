\* Two hosts that crash at any point, one worker that crashes and stalls.  No symmetry.
SPECIFICATION FairSpec
CONSTANTS
  a1 = a1
  t1 = t1
  t2 = t2
  h1 = h1
  h2 = h2
  w1 = w1
  w2 = w2
  App = {a1}
  Task = {t1, t2}
  Host = {h1, h2}
  Worker = {w1}
  AppOf <- OneAppOf
  Rank <- RankOf
  Plans <- OnePlan
  Result = {"DONE", "WAIT", "ERROR", "PENDING"}
  Verdict = {"DONE"}
  None = None
  Gone = Gone
  NoTask = NoTask
  MaxDispatches = 2
  Exec = {1, 2, 3, 4}
  MaxCrashes = 1
  MaxStops = 0
  MaxStalls = 0
  MaxRefusals = 1
  MaxJobs = 3
  MaxWorkerStalls = 1
  MaxWorkerCrashes = 1
INVARIANTS
  NoStrandedJob NoDuplicateWithoutHostCrash
PROPERTIES
  EveryTaskDone
