SPECIFICATION TopUpSpec
CONSTANTS
  t1 = t1
  t2 = t2
  w1 = w1
  o1 = o1
  o2 = o2
  c1 = c1
  a1 = a1
  a2 = a2
  Token = {t1, t2}
  Workspace = {}
  Order = {o1}
  Invoice = {}
  NoWorkspace = NoWorkspace
  NoOwner = NoOwner
  Usd <- MCUsd
  Cny <- MCCny
  Costs = {}
  Deltas <- NoInts
  CapValues = {0}
  Claims = {}
  MaxMoney = 0
  Creator = {c1}
  Applier = {a1, a2}
  First = {t1}
INVARIANT ReportedIsPaid
SYMMETRY ApplierSymmetry
CHECK_DEADLOCK FALSE
