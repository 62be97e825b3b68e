SPECIFICATION TeamSpec
CONSTANTS
  t1 = t1
  t2 = t2
  t3 = t3
  w1 = w1
  w2 = w2
  r1 = r1
  r2 = r2
  Token = {t1, t2, t3}
  Workspace = {w1, w2}
  Order = {}
  Invoice = {}
  NoWorkspace = NoWorkspace
  NoOwner = NoOwner
  Usd <- NoOrders
  Cny <- NoOrders
  Costs = {}
  Deltas <- NoInts
  CapValues = {0}
  Claims = {}
  MaxMoney = 0
  Request = {r1, r2}
  DbFails = TRUE
PROPERTY OrphanedByLapse
PROPERTY DanglingByLapse
SYMMETRY Symmetries
CHECK_DEADLOCK FALSE
