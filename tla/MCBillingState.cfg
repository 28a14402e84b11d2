\* Two subscriptions one after the other, up to five events in any order.
SPECIFICATION Spec
CONSTANTS
  s1 = s1
  s2 = s2
  c1 = c1
  c2 = c2
  Subscription = {s1, s2}
  Customer = {c1, c2}
  None = None
  MaxClock = 2
  MaxEvents = 5
  MaxLate = 1
SYMMETRY Symmetry
\* The provider sends a bounded number of events and stops.
CHECK_DEADLOCK FALSE
INVARIANTS
  AccessIsPaid
  OrderIndependent
PROPERTIES
  NoSilentRebind
