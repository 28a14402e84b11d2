\* Two overlapping requests and two overlapping proofs, one case, two revisions.
CONSTANTS
  c1 = c1
  c2 = c2
  ana = ana
  bob = bob
  k1 = k1
  terms = terms
  e1 = e1
  p1 = p1
  a1 = a1
  o1 = o1
  o2 = o2
  Client = {c1, c2}
  Actor = {ana, bob}
  Case = {k1}
  Role = {terms}
  Evidence = {e1}
  Proof = {p1}
  Authorization = {a1}
  Outcome = {o1, o2}
  Net = {1}
  Amount = {0, 1, 2}
  None = None
  Inline = Inline
  MaxRevision = 2
  x1 = x1
  x2 = x2
  Operation = {x1, x2}
  WindowDays = 1
  Unlimited = Unlimited
  Budget <- Budgets
SPECIFICATION ProofSpec
SYMMETRY Symmetry
INVARIANTS ProofTypeOK EffectsUnderIntent CompletedVerify Contemporaneous
  PacksBound DossiersOpen RecoveredAsReviewed Custody
PROPERTY DecisionsStand
CHECK_DEADLOCK FALSE
