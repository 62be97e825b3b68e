SPECIFICATION StoreSpec
CONSTANTS
  t1 = t1
  t2 = t2
  t3 = t3
  w1 = w1
  w2 = w2
  o1 = o1
  o2 = o2
  i1 = i1
  i2 = i2
  Token = {t1, t2}
  Workspace = {w1}
  Order = {o1, o2}
  Invoice = {i1, i2}
  NoWorkspace = NoWorkspace
  NoOwner = NoOwner
  Usd <- MCUsd
  Cny <- MCCny
  Costs = {}
  Deltas <- NoInts
  CapValues = {0}
  Claims = {2, 4}
  MaxMoney = 0
INVARIANT CreditedExactlyOnce
INVARIANT NeverOverInvoiced
INVARIANT SharesMakeFaceValue
PROPERTY EndStatesAreFinal
SYMMETRY TokenSymmetry
CHECK_DEADLOCK FALSE
