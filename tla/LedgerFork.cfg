SPECIFICATION LedgerSpec
CONSTANTS
  a1 = a1
  a2 = a2
  t1 = t1
  t2 = t2
  t3 = t3
  e1 = e1
  e2 = e2
  e3 = e3
  e4 = e4
  Agents = {a1, a2}
  Threads = {t1, t2, t3}
  Ids = {e1, e2, e3, e4}
  Genesis = Genesis
  Deltas <- MCDeltas
SYMMETRY Symmetry
INVARIANT ChainAlwaysValid
CHECK_DEADLOCK FALSE
