SPECIFICATION StoreSpec
CONSTANTS
  t1 = t1
  t2 = t2
  t3 = t3
  w1 = w1
  w2 = w2
  o1 = o1
  o2 = o2
  i1 = i1
  i2 = i2
  Token = {t1, t2}
  Workspace = {w1}
  Order = {}
  Invoice = {}
  NoWorkspace = NoWorkspace
  NoOwner = NoOwner
  Usd <- MCUsd
  Cny <- MCCny
  Costs = {2}
  Deltas <- DeltasBoth
  CapValues = {0, 1}
  Claims = {}
  MaxMoney = 2
INVARIANT LedgerBalanced
PROPERTY ChargeWithinLimits
SYMMETRY TokenSymmetry
CHECK_DEADLOCK FALSE
