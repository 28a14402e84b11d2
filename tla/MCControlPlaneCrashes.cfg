\* Two applications, two hosts that can crash at any point but never lose a live lease.
SPECIFICATION HostsSpec
CONSTANTS
  a1 = a1
  a2 = a2
  t1 = t1
  t2 = t2
  h1 = h1
  h2 = h2
  App = {a1, a2}
  Task = {t1, t2}
  Host = {h1, h2}
  Rank <- RankOf
  Plans <- TwoAppPlans
  Result = {"DONE", "ERROR", "PENDING"}
  None = None
  Gone = Gone
  NoTask = NoTask
  MaxDispatches = 2
  Exec = {1, 2, 3, 4}
  MaxCrashes = 2
  MaxStops = 0
  MaxStalls = 0
  MaxRefusals = 1
SYMMETRY Symmetry
INVARIANTS
  DispatchAuthority
PROPERTIES
  ImplementsBacklog
