\* Two control-plane callers, two workers of one application that stall, crash
\* and stop, two tasks.  No symmetry.
SPECIFICATION QueueFairSpec
CONSTANTS
  a1 = a1
  t1 = t1
  t2 = t2
  w1 = w1
  w2 = w2
  h1 = h1
  h2 = h2
  App = {a1}
  Task = {t1, t2}
  Worker = {w1, w2}
  Host = {h1, h2}
  AppOf <- OneAppOf
  Verdict = {"DONE"}
  None = None
  MaxJobs = 2
  MaxWorkerStalls = 1
  MaxWorkerCrashes = 1
CHECK_DEADLOCK FALSE
INVARIANTS
  OneOutstandingJob
  ClaimFence
  SingleDelivery
PROPERTIES
  ImplementsLedger EveryJobSettles
