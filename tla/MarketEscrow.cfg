SPECIFICATION Spec
CONSTANTS
  a1 = a1
  a2 = a2
  a3 = a3
  t1 = t1
  t2 = t2
  b1 = b1
  b2 = b2
  Agents = {a1, a2, a3}
  Tasks = {t1, t2}
  Bids = {b1, b2}
  NoBid = NoBid
  Bounties = {2}
  FeeScale = 2
  FeeRate = 1
  MaxAuthority = 1
  PostMin = 1
  BidMin = 1
  Start = 8
  Outcomes = {}
  OutcomeBound = 0
  DriftBound = 0
SYMMETRY Symmetry
PROPERTY Escrowed
CHECK_DEADLOCK FALSE
