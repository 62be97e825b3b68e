SPECIFICATION DeskSpec
CONSTANTS
  t1 = t1
  o1 = o1
  i1 = i1
  i2 = i2
  k1 = k1
  k2 = k2
  Token = {t1}
  Workspace = {}
  Order = {o1}
  Invoice = {i1, i2}
  NoWorkspace = NoWorkspace
  NoOwner = NoOwner
  Usd <- MCUsd
  Cny <- MCCny
  Costs = {}
  Deltas <- NoInts
  CapValues = {}
  Claims = {1}
  MaxMoney = 0
  Clerk = {k1, k2}
  NoPDF = NoPDF
  MayFail = FALSE
INVARIANT IssuedHasPDF
SYMMETRY Symmetries
CHECK_DEADLOCK FALSE
