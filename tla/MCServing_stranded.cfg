SPECIFICATION ServingSpec
CONSTANTS
  t1 = t1
  t2 = t2
  t3 = t3
  w1 = w1
  c1 = c1
  c2 = c2
  c3 = c3
  r1 = r1
  r2 = r2
  Token = {t1, t2, t3}
  Workspace = {}
  Order = {}
  Invoice = {}
  NoWorkspace = NoWorkspace
  NoOwner = NoOwner
  Usd <- NoOrders
  Cny <- NoOrders
  Costs = {2}
  Deltas = {1}
  CapValues = {0}
  Claims = {}
  MaxMoney = 8
  Caller = {c1}
  Resetter = {r1, r2}
  First = {t1}
  MaxConc = 2
  MaxBills = 2
  MayFail = FALSE
INVARIANT MoneyOnLiveTokens
SYMMETRY ProcessSymmetry
CHECK_DEADLOCK FALSE
