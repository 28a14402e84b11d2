\* Every connector, with one or two lots and outages longer than one call can read.
CONSTANTS
  l1 = l1
  l2 = l2
  None = None
  Lot = {l1, l2}
  Overlap = 1
  Budget = 3
  Lookback = 1
  Retention = 1
  StateLimit = 9
  HydrationLimit = 9
  Width = 2
  Windows = 2
  Live = 1
  Events = 1
  Tolerance = 1
  Connector <- AllConnectors
  LotsOf <- OneOrTwoLots
  Republishes <- Republishing
  Deadlines <- SomeDeadlines
  MaxNotices = 3
  MaxDay = 4
SPECIFICATION Spec
INVARIANTS TypeOK Complete Sound
PROPERTY Advances
