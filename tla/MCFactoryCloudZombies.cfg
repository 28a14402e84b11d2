\* Two hosts, one of which is stopped inside a cycle, and one worker.
SPECIFICATION Spec
CONSTANTS
  a1 = a1
  t1 = t1
  t2 = t2
  h1 = h1
  h2 = h2
  w1 = w1
  w2 = w2
  App = {a1}
  Task = {t1, t2}
  Host = {h1, h2}
  Worker = {w1}
  AppOf <- OneAppOf
  Rank <- RankOf
  Plans <- OnePlan
  Result = {"DONE", "WAIT", "ERROR", "PENDING"}
  Verdict = {"DONE"}
  None = None
  Gone = Gone
  NoTask = NoTask
  MaxDispatches = 2
  Exec = {1, 2, 3, 4}
  MaxCrashes = 0
  MaxStops = 1
  MaxStalls = 0
  MaxRefusals = 1
  MaxJobs = 2
  MaxWorkerStalls = 0
  MaxWorkerCrashes = 0
SYMMETRY Symmetry
INVARIANTS
  NoPhantomDone
