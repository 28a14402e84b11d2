\* Two callers whose syncs overlap and fail at any transaction.
CONSTANTS
  Source <- SomeSources
  TED = "ted"
  NumTenders = 2
  SourceOf <- OwnSource
  Account = {"a"}
  Fits <- FitsAll
  loop = loop
  post = post
  Sync = {loop, post}
  None = None
  Chunk = 1
  RefreshLimit = 1
  MaxNotices = 3
  MaxRuns = 4
  PublishUntil = 2
  MaxInterrupts = 1
  MaxLate = 1
  MaxHealth = 1
  MaxOutages = 1
  MaxOverlaps = 2
  MaxFaults = 3
SPECIFICATION Spec
SYMMETRY Callers
\* The bound on the runs stops the system.
CHECK_DEADLOCK FALSE
INVARIANTS TypeOK CursorAfterRows LifecycleAtWatermark EveryMatchIsAlerted
